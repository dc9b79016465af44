----------------------------- MODULE StreamHub -----------------------------
(***************************************************************************)
(* The scores stream from TxLINE to the pages: the hub's one upstream task *)
(* with its reconnection (src/server/src/stream/hub.ts), the guest token   *)
(* it uses (txline/client.ts), and the pages that listen through           *)
(* EventSource (web/src/hooks/use-live-score.ts).  The odds stream is the  *)
(* same code with a task of its own and nothing that keeps it on.          *)
(*                                                                         *)
(* The task gives way at the token, at the connection, while the stream    *)
(* lasts and while it sleeps.  Rows are numbered by fixture; a row that is *)
(* published while the hub is not connected is never sent again.  Either   *)
(* connection may drop, and the token may expire.                          *)
(***************************************************************************)
EXTENDS Integers, FiniteSets

CONSTANTS
    Page, Fixture,
    FixtureOf,     \* the fixture each page is about
    AlwaysOn,      \* does the settlement worker keep the stream on?
    MaxRows,       \* rows published for a fixture
    MaxDrops,      \* connections that fail or are lost
    MaxExpiries

VARIABLES
    task,       \* runUpstream: none, start, fetch, streaming or sleep
    attempt,    \* its failures, which a good connection does not reset; 6 is any more
    clients,    \* the server's set of connected pages
    jwt,        \* guestJwt, 0 when there is none
    valid,      \* the token TxLINE accepts
    page,       \* the page's EventSource: closed, connecting, open or waiting
    retry,      \* the page's retry count
    shown,      \* the row a page shows, 0 when none
    rows,       \* rows published so far
    drops

vars == <<task, attempt, clients, jwt, valid, page, retry, shown, rows, drops>>
pageVars == <<page, retry, shown>>

StreamTypes ==
    /\ FixtureOf \in [Page -> Fixture] /\ AlwaysOn \in BOOLEAN
    /\ MaxRows \in Nat /\ MaxDrops \in Nat /\ MaxExpiries \in Nat

Init ==
    /\ task = IF AlwaysOn THEN "start" ELSE "none"
    /\ attempt = 0
    /\ clients = {}
    /\ jwt = 0 /\ valid = 1
    /\ page = [p \in Page |-> "closed"]
    /\ retry = [p \in Page |-> 0]
    /\ shown = [p \in Page |-> 0]
    /\ rows = [f \in Fixture |-> 0]
    /\ drops = 0

Least(a, b) == IF a <= b THEN a ELSE b

-----------------------------------------------------------------------------
(* The hub *)

ShouldRun(connected) == connected # {} \/ AlwaysOn

EnsureUpstream ==
    IF task = "none" THEN task' = "start" /\ attempt' = 0 ELSE UNCHANGED <<task, attempt>>

\* Mutant: the task ends after a failure.
ThrowEnds == task' = "none" /\ attempt' = 0

\* The catch clause of runUpstream: give up when nobody listens, else back off.
Throw ==
    IF ShouldRun(clients)
    THEN task' = "sleep" /\ attempt' = Least(attempt + 1, 6)
    ELSE task' = "none" /\ attempt' = 0

\* The sleep is over and the loop's condition is evaluated.
Wake ==
    /\ task = "sleep"
    /\ IF ShouldRun(clients) THEN task' = "start" /\ UNCHANGED attempt
                             ELSE task' = "none" /\ attempt' = 0
    /\ UNCHANGED <<clients, jwt, valid, pageVars, rows, drops>>

\* getGuestJwt: the token it has, or a new one.
GetGuestJwt ==
    /\ task = "start"
    /\ task' = "fetch"
    /\ jwt' = IF jwt = 0 THEN valid ELSE jwt
    /\ UNCHANGED <<attempt, clients, valid, pageVars, rows, drops>>

\* The answer to the request: 401 refreshes the token and throws.
ConnectUpstream ==
    /\ task = "fetch"
    /\ \/ jwt = valid /\ task' = "streaming" /\ UNCHANGED <<attempt, jwt>>
       \/ jwt # valid /\ jwt' = valid /\ Throw
    /\ UNCHANGED <<clients, valid, pageVars, rows, drops>>

\* The request for a token or for the stream fails, or the stream ends:
\* connectUpstream throws in each case.
UpstreamDrops ==
    /\ drops < MaxDrops /\ drops' = drops + 1
    /\ task \in {"start", "fetch", "streaming"}
    /\ Throw
    /\ UNCHANGED <<clients, jwt, valid, pageVars, rows>>

\* broadcast: the clients a row of the fixture is written to.
Broadcast(f) == {p \in clients : FixtureOf[p] = f}

\* TxLINE publishes a row.  The page shows it when it parses as a score.
PublishRow(f) ==
    /\ rows[f] < MaxRows
    /\ rows' = [rows EXCEPT ![f] = @ + 1]
    /\ shown' = IF task = "streaming"
                THEN [p \in Page |-> IF p \in Broadcast(f) THEN rows[f] + 1 ELSE shown[p]]
                ELSE shown
    /\ UNCHANGED <<task, attempt, clients, jwt, valid, page, retry, drops>>

TokenExpires ==
    /\ valid <= MaxExpiries
    /\ valid' = valid + 1
    /\ UNCHANGED <<task, attempt, clients, jwt, pageVars, rows, drops>>

-----------------------------------------------------------------------------
(* The page *)

\* The effect of useLiveScore, and the retry timer.
Connect(p) ==
    /\ page[p] \in {"closed", "waiting"}
    /\ page' = [page EXCEPT ![p] = "connecting"]
    /\ UNCHANGED <<task, attempt, clients, jwt, valid, retry, shown, rows, drops>>

\* addClient on the server, onopen on the page.
Open(p) ==
    /\ page[p] = "connecting"
    /\ page' = [page EXCEPT ![p] = "open"]
    /\ retry' = [retry EXCEPT ![p] = 0]
    /\ clients' = clients \cup {p}
    /\ EnsureUpstream
    /\ UNCHANGED <<jwt, valid, shown, rows, drops>>

\* Mutant: a page that fails to connect does not try again.
PageDropsForGood(p) ==
    /\ drops < MaxDrops /\ drops' = drops + 1
    /\ page[p] \in {"connecting", "open"}
    /\ page' = [page EXCEPT ![p] = "failed"]
    /\ clients' = clients \ {p}
    /\ UNCHANGED <<task, attempt, jwt, valid, retry, shown, rows>>

\* onerror: close, and try again after a delay.
PageDrops(p) ==
    /\ drops < MaxDrops /\ drops' = drops + 1
    /\ page[p] \in {"connecting", "open"}
    /\ page' = [page EXCEPT ![p] = "waiting"]
    /\ retry' = [retry EXCEPT ![p] = Least(@ + 1, 5)]
    /\ clients' = clients \ {p}
    /\ UNCHANGED <<task, attempt, jwt, valid, shown, rows>>

\* The page is left; the server sees the connection close.
Leave(p) ==
    /\ page[p] # "closed"
    /\ page' = [page EXCEPT ![p] = "closed"]
    /\ retry' = [retry EXCEPT ![p] = 0]
    /\ shown' = [shown EXCEPT ![p] = 0]
    /\ clients' = clients \ {p}
    /\ UNCHANGED <<task, attempt, jwt, valid, rows, drops>>

Hub == GetGuestJwt \/ ConnectUpstream \/ Wake

Next ==
    \/ Hub \/ UpstreamDrops \/ TokenExpires
    \/ \E f \in Fixture : PublishRow(f)
    \/ \E p \in Page : Connect(p) \/ Open(p) \/ PageDrops(p) \/ Leave(p)

\* The hub's continuations run, the server answers, and a retry timer fires.
Fairness ==
    /\ WF_vars(Hub)
    /\ \A p \in Page : WF_vars(Open(p)) /\ WF_vars(page[p] = "waiting" /\ Connect(p))

Spec == Init /\ [][Next]_vars /\ Fairness

-----------------------------------------------------------------------------

TypeOK ==
    /\ task \in {"none", "start", "fetch", "streaming", "sleep"}
    /\ attempt \in 0 .. 6
    /\ clients \subseteq Page
    /\ jwt \in 0 .. MaxExpiries + 1 /\ valid \in 1 .. MaxExpiries + 1
    /\ page \in [Page -> {"closed", "connecting", "open", "waiting"}]
    /\ retry \in [Page -> 0 .. 5]
    /\ shown \in [Page -> 0 .. MaxRows] /\ rows \in [Fixture -> 0 .. MaxRows]
    /\ drops \in 0 .. MaxDrops

\* Whoever listens, the task runs: a client that comes while the task is about
\* to end is not left without one (hub.ts: ensureUpstream, runUpstream).
UpstreamServed == ShouldRun(clients) => task # "none"

\* A page shows a row of its own fixture, never one that was not published.
OwnRows == \A p \in Page : shown[p] <= rows[FixtureOf[p]]

\* A page that stays gets through to TxLINE in the end, whatever dropped and
\* expired before.
ReachesUpstream ==
    \A p \in Page : []<>(page[p] = "closed" \/ (page[p] = "open" /\ task = "streaming"))

\* The page labels a stream that stalls: while it says connected, the rows it
\* would be sent do come (use-live-score.ts:9).
\* The code does not keep this: README, "Where the code and its documents disagree".
FreezeIsLabelled ==
    \A p \in Page : page[p] = "open" /\ shown[p] # 0 => shown[p] = rows[FixtureOf[p]]

-----------------------------------------------------------------------------
(* The inductive invariant *)

\* The hub's clients are the pages whose stream is open.
ClientsAreOpen == clients = {p \in Page : page[p] = "open"}

IInv == TypeOK /\ UpstreamServed /\ OwnRows /\ ClientsAreOpen

=============================================================================
