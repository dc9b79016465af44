-------------------------------- MODULE Chat --------------------------------
(***************************************************************************)
(* The chat of a pool: the capped store (src/server/src/chat/store.ts),    *)
(* the fan-out to the open pages (chat/hub.ts), the routes, and the page,  *)
(* which loads the history once and then lives off the stream              *)
(* (web/src/hooks/use-chat.ts).                                            *)
(*                                                                         *)
(* A message is its number; posted[n] is its pool.  The history's request  *)
(* and answer and the events of the stream are under way for a while, and  *)
(* a stream's events come in the order they were sent until it drops.      *)
(***************************************************************************)
EXTENDS Integers, SequencesExt, Filtering

CONSTANTS
    Pool, Page,
    PoolOf,        \* the pool each page shows
    MaxPerPool,    \* messages the store keeps of a pool
    HistoryLimit,  \* messages a history has, no more than are kept
    ViewCap,       \* messages a page keeps
    MaxMessages, MaxDrops

VARIABLES
    posted,    \* the pool of every message ever posted
    store,     \* chat.json
    clients,   \* hub.ts: the pages with an open stream
    stream,    \* the page's EventSource: off, connecting, open or waiting
    inbox,     \* events sent to the page and not yet handled
    history,   \* the page's request: off, asked, answered or done, and its answer
    view,      \* the messages on the page
    drops

vars == <<posted, store, clients, stream, inbox, history, view, drops>>
pageVars == <<clients, stream, inbox, history, view>>

ChatTypes ==
    /\ PoolOf \in [Page -> Pool]
    /\ MaxPerPool \in Nat /\ HistoryLimit \in 0 .. MaxPerPool /\ ViewCap \in Nat
    /\ MaxMessages \in Nat /\ MaxDrops \in Nat

NoHistory == [pc |-> "off", messages |-> <<>>]

Init ==
    /\ posted = <<>> /\ store = <<>>
    /\ clients = {}
    /\ stream = [p \in Page |-> "off"]
    /\ inbox = [p \in Page |-> <<>>]
    /\ history = [p \in Page |-> NoHistory]
    /\ view = [p \in Page |-> <<>>]
    /\ drops = 0

LastOf(n, seq) == SubSeq(seq, IF Len(seq) > n THEN Len(seq) - n + 1 ELSE 1, Len(seq))

-----------------------------------------------------------------------------
(* The server *)

\* The messages of one pool; of is the pool of every message.
OfPool(messages, pool, of) == Those(messages, {n \in ToSet(messages) : of[n] = pool})

ListMessages(pool) == LastOf(HistoryLimit, OfPool(store, pool, posted))

\* addMessage's filter: the oldest messages of this pool go, the others stay.
Capped(messages, pool, of) ==
    LET kept == ToSet(LastOf(MaxPerPool, OfPool(messages, pool, of)))
    IN  Those(messages, {n \in ToSet(messages) : of[n] # pool} \cup kept)

\* POST /chat/:poolId/messages: stored, then broadcast to the pool's pages.
PostMessage(pool) ==
    LET n == Len(posted) + 1
    IN  /\ n <= MaxMessages
        /\ posted' = Append(posted, pool)
        /\ store' = Capped(Append(store, n), pool, posted')
        /\ inbox' = [p \in Page |-> IF p \in clients /\ PoolOf[p] = pool
                                    THEN Append(inbox[p], n) ELSE inbox[p]]
        /\ UNCHANGED <<clients, stream, history, view, drops>>

\* GET /chat/:poolId/messages
AnswerHistory(p) ==
    /\ history[p].pc = "asked"
    /\ history' = [history EXCEPT ![p] =
            [pc |-> "answered", messages |-> ListMessages(PoolOf[p])]]
    /\ UNCHANGED <<posted, store, clients, stream, inbox, view, drops>>

-----------------------------------------------------------------------------
(* The page *)

\* The effect of useChat: the history is asked for and the stream is opened.
Mount(p) ==
    /\ stream[p] = "off"
    /\ history' = [history EXCEPT ![p].pc = "asked"]
    /\ stream' = [stream EXCEPT ![p] = "connecting"]
    /\ UNCHANGED <<posted, store, clients, inbox, view, drops>>

Unmount(p) ==
    /\ stream[p] # "off"
    /\ history' = [history EXCEPT ![p] = NoHistory]
    /\ stream' = [stream EXCEPT ![p] = "off"]
    /\ clients' = clients \ {p}
    /\ inbox' = [inbox EXCEPT ![p] = <<>>]
    /\ view' = [view EXCEPT ![p] = <<>>]
    /\ UNCHANGED <<posted, store, drops>>

\* attachChatStream on the server, onopen on the page.
Open(p) ==
    /\ stream[p] = "connecting"
    /\ stream' = [stream EXCEPT ![p] = "open"]
    /\ clients' = clients \cup {p}
    /\ UNCHANGED <<posted, store, inbox, history, view, drops>>

\* The history's answer replaces what the page shows.
ShowHistory(p) ==
    /\ history[p].pc = "answered"
    /\ view' = [view EXCEPT ![p] = history[p].messages]
    /\ history' = [history EXCEPT ![p] = [pc |-> "done", messages |-> <<>>]]
    /\ UNCHANGED <<posted, store, clients, stream, inbox, drops>>

\* A history that cannot be loaded is not asked for again.
HistoryFails(p) ==
    /\ drops < MaxDrops /\ drops' = drops + 1
    /\ history[p].pc \in {"asked", "answered"}
    /\ history' = [history EXCEPT ![p] = [pc |-> "done", messages |-> <<>>]]
    /\ UNCHANGED <<posted, store, clients, stream, inbox, view>>

\* Mutant: a message that is shown already is added again.
ReceiveAgain(p) ==
    /\ inbox[p] # <<>>
    /\ view' = [view EXCEPT ![p] = LastOf(ViewCap, Append(@, Head(inbox[p])))]
    /\ inbox' = [inbox EXCEPT ![p] = Tail(@)]
    /\ UNCHANGED <<posted, store, clients, stream, history, drops>>

\* The listener of "chat".
Receive(p) ==
    /\ inbox[p] # <<>>
    /\ view' = [view EXCEPT ![p] =
            IF Head(inbox[p]) \in ToSet(@) THEN @
            ELSE LastOf(ViewCap, Append(@, Head(inbox[p])))]
    /\ inbox' = [inbox EXCEPT ![p] = Tail(@)]
    /\ UNCHANGED <<posted, store, clients, stream, history, drops>>

\* onerror: what was under way is lost; the page opens the stream again later.
StreamDrops(p) ==
    /\ drops < MaxDrops /\ drops' = drops + 1
    /\ stream[p] \in {"connecting", "open"}
    /\ stream' = [stream EXCEPT ![p] = "waiting"]
    /\ clients' = clients \ {p}
    /\ inbox' = [inbox EXCEPT ![p] = <<>>]
    /\ UNCHANGED <<posted, store, history, view>>

Reconnect(p) ==
    /\ stream[p] = "waiting"
    /\ stream' = [stream EXCEPT ![p] = "connecting"]
    /\ UNCHANGED <<posted, store, clients, inbox, history, view, drops>>

Next ==
    \/ \E pool \in Pool : PostMessage(pool)
    \/ \E p \in Page :
         \/ Mount(p) \/ Unmount(p) \/ Open(p) \/ StreamDrops(p) \/ Reconnect(p)
         \/ AnswerHistory(p) \/ ShowHistory(p) \/ HistoryFails(p) \/ Receive(p)

Spec == Init /\ [][Next]_vars

-----------------------------------------------------------------------------

TypeOK ==
    /\ posted \in Seq(Pool) /\ store \in Seq(Nat)
    /\ clients \subseteq Page
    /\ stream \in [Page -> {"off", "connecting", "open", "waiting"}]
    /\ inbox \in [Page -> Seq(Nat)] /\ view \in [Page -> Seq(Nat)]
    /\ history \in [Page -> [pc : {"off", "asked", "answered", "done"}, messages : Seq(Nat)]]
    /\ drops \in 0 .. MaxDrops

All(pool) == OfPool([n \in 1 .. Len(posted) |-> n], pool, posted)

Increasing(seq) == \A i, j \in 1 .. Len(seq) : i < j => seq[i] < seq[j]

OwnOnce(p, seq) ==
    /\ \A i, j \in 1 .. Len(seq) : i < j => seq[i] # seq[j]
    /\ \A n \in ToSet(seq) : n \in 1 .. Len(posted) /\ posted[n] = PoolOf[p]

\* Posting in one pool never costs another pool a message, and the store keeps
\* the newest of each in their order (store.ts: addMessage's cap).
CapKeepsNewest == \A pool \in Pool : OfPool(store, pool, posted) = LastOf(MaxPerPool, All(pool))

\* What is under way to a page are the newest messages of its pool.
NewestUnderWay ==
    \A p \in Page :
        /\ p \notin clients => inbox[p] = <<>>
        /\ inbox[p] = LastOf(Len(inbox[p]), All(PoolOf[p]))

\* A page shows messages of its own pool, each once, whichever of the history and
\* the stream brings them (use-chat.ts:36).
ShownOnce == \A p \in Page : OwnOnce(p, view[p])

IInv ==
    /\ TypeOK /\ CapKeepsNewest /\ NewestUnderWay /\ ShownOnce
    /\ Increasing(store) /\ ToSet(store) \subseteq 1 .. Len(posted)
    /\ \A p \in Page : OwnOnce(p, history[p].messages) /\ Increasing(history[p].messages)

\* No page is further behind than a history reaches back.
KeepsUp == \A p \in Page : Len(inbox[p]) <= HistoryLimit

\* What is under way comes after a list, but for what the list has already.
Joins(p, list) ==
    \A m \in ToSet(inbox[p]), n \in ToSet(list) : m <= n => m \in ToSet(list)

OrderInv ==
    \A p \in Page : Increasing(view[p]) /\ Joins(p, view[p]) /\ Joins(p, history[p].messages)

InOrder == \A p \in Page : Increasing(view[p])

\* While no page falls behind further than its history reaches, the pages show the
\* messages in the server's order (use-chat.ts:27, :36).
OrderKept == []KeepsUp => []InOrder

Settled(p) == stream[p] = "open" /\ inbox[p] = <<>> /\ history[p].pc = "done"

\* What a page with an open stream and nothing under way shows is what every
\* other such page of the pool shows (use-chat.ts:10).
\* The code does not keep this: README, "Where the code and its documents disagree".
SameForEveryone ==
    \A p, q \in Page : PoolOf[p] = PoolOf[q] /\ Settled(p) /\ Settled(q) => view[p] = view[q]

=============================================================================
