----------------------------- MODULE MCServices -----------------------------
(***************************************************************************)
(* The services of the server beside the pools, with their pages: the      *)
(* faucet (Faucet), the live stream (StreamHub, with the wire format of    *)
(* Sse), the chat (Chat) and the profiles (Profiles).                      *)
(*                                                                         *)
(* They share no state, so one run checks them side by side: part says     *)
(* which of them a behaviour is about, and the others stand still.  The    *)
(* hub's two streams, and a part that is checked with two sets of bounds,  *)
(* are two parts.                                                          *)
(***************************************************************************)
EXTENDS Faucet, Sequences, TLC

CONSTANTS
    p1, p2, f1, f2,                         \* pages and fixtures of the hub
    a, b,                                   \* pools of the chat
    ada, bob, fanClub, mailName, fan4, None \* names of the profiles

VARIABLES
    part,
    task, attempt, clients, jwt, valid, page, retry, shown, rows, drops,       \* of StreamHub
    wire, buffer, got, sent,                                                   \* of Sse
    posted, store, listeners, stream, inbox, history, view, chatDrops,         \* of Chat
    user, email, visits, onMe, data, stale, newer, due, provisioning, req, saved, failed,
    renames, slips                                                             \* of Profiles

faucetVars == <<claims, inFlight, request, orphans, paid, funds, marked, attempted, faults, crashes>>
hubVars == <<task, attempt, clients, jwt, valid, page, retry, shown, rows, drops>>
sseVars == <<wire, buffer, got, sent>>
chatVars == <<posted, store, listeners, stream, inbox, history, view, chatDrops>>
profileVars == <<user, email, visits, onMe, data, stale, newer, due, provisioning, req, saved,
                 failed, renames, slips>>

-----------------------------------------------------------------------------
(* StreamHub: the scores, which the settlement worker keeps on, and the odds. *)

TwoFixtures == p1 :> f1 @@ p2 :> f2

Scores == INSTANCE StreamHub WITH
    Page <- {p1, p2}, Fixture <- {f1, f2}, FixtureOf <- TwoFixtures, AlwaysOn <- TRUE,
    MaxRows <- 1, MaxDrops <- 2, MaxExpiries <- 1

Odds == INSTANCE StreamHub WITH
    Page <- {p1, p2}, Fixture <- {f1, f2}, FixtureOf <- TwoFixtures, AlwaysOn <- FALSE,
    MaxRows <- 1, MaxDrops <- 2, MaxExpiries <- 1

-----------------------------------------------------------------------------
(* Sse: a row, a heartbeat, a comment, two data lines, an empty field and a *)
(* block without data.                                                      *)

Line(f, v) == [field |-> f, value |-> v]
SomeBlocks ==
    {<<Line("event", "score"), Line("id", "1"), Line("data", "a")>>,
     <<Line("event", "heartbeat"), Line("data", "")>>,
     <<Line("comment", "c")>>,
     <<Line("id", ""), Line("data", "a"), Line("comment", "c"), Line("data", "b")>>,
     <<Line("event", "x"), Line("event", "y"), Line("data", "b")>>}

Events == INSTANCE Sse WITH Block <- SomeBlocks, MaxBlocks <- 2, Empty <- ""

-----------------------------------------------------------------------------
(* Chat: a page that may fall behind, and the store past its cap. *)

ChatPage == INSTANCE Chat WITH
    Pool <- {a, b}, Page <- {p1}, PoolOf <- p1 :> a, MaxPerPool <- 3, HistoryLimit <- 2,
    ViewCap <- 3, MaxMessages <- 4, MaxDrops <- 1, clients <- listeners, drops <- chatDrops

ChatStore == INSTANCE Chat WITH
    Pool <- {a, b}, Page <- {}, PoolOf <- <<>>, MaxPerPool <- 2, HistoryLimit <- 2,
    ViewCap <- 3, MaxMessages <- 7, MaxDrops <- 0, clients <- listeners, drops <- chatDrops

-----------------------------------------------------------------------------
(* Profiles: one tab that has the profile before /me is opened, with a name  *)
(* from the email or none; one in which /me is opened early and the email    *)
(* learned late; and two tabs of which no request fails.                   *)

Tab(mail) == INSTANCE Profiles WITH
    Page <- {p1}, Name <- {ada, bob, mailName}, EmailName <- mail, Fallback <- fan4,
    FanLike <- {fan4, fanClub}, EmailLate <- FALSE, MeEarly <- FALSE, MaxVisits <- 2,
    MaxRenames <- 3, MaxFaults <- 1, faults <- slips

Early == INSTANCE Profiles WITH
    Page <- {p1}, Name <- {ada, fanClub}, EmailName <- mailName, Fallback <- fan4,
    FanLike <- {fan4, fanClub}, EmailLate <- TRUE, MeEarly <- TRUE, MaxVisits <- 2,
    MaxRenames <- 1, MaxFaults <- 1, faults <- slips

TwoTabs == INSTANCE Profiles WITH
    Page <- {p1, p2}, Name <- {ada}, EmailName <- mailName, Fallback <- fan4,
    FanLike <- {fan4, fanClub}, EmailLate <- TRUE, MeEarly <- TRUE, MaxVisits <- 0,
    MaxRenames <- 0, MaxFaults <- 0, faults <- slips

ASSUME ServiceParts ==
    /\ Scores!StreamTypes /\ Odds!StreamTypes /\ Events!SseTypes
    /\ ChatPage!ChatTypes /\ ChatStore!ChatTypes
    /\ Tab(mailName)!ProfilesTypes /\ Tab(None)!ProfilesTypes /\ Early!ProfilesTypes
    /\ TwoTabs!ProfilesTypes

-----------------------------------------------------------------------------

ServicesInit ==
    /\ part \in {"faucet", "scores", "odds", "sse", "chatPage", "chatStore", "tab", "noName",
                "early", "twoTabs"}
    /\ Init
    /\ IF part = "odds" THEN Odds!Init ELSE Scores!Init
    /\ Events!Init /\ (part # "sse" => sent = <<>>)
    /\ IF part = "chatStore" THEN ChatStore!Init ELSE ChatPage!Init
    /\ IF part = "twoTabs" THEN TwoTabs!Init
       ELSE IF part = "early" THEN Early!Init ELSE Tab(mailName)!Init

Faucets == part = "faucet" /\ Next
Hubs == (part = "scores" /\ Scores!Next) \/ (part = "odds" /\ Odds!Next)
Chats == (part = "chatPage" /\ ChatPage!Next) \/ (part = "chatStore" /\ ChatStore!Next)
Users ==
    \/ part = "tab" /\ Tab(mailName)!Next
    \/ part = "noName" /\ Tab(None)!Next
    \/ part = "early" /\ Early!Next
    \/ part = "twoTabs" /\ TwoTabs!Next

ServicesNext ==
    /\ UNCHANGED part
    /\ \/ /\ Faucets
          /\ UNCHANGED hubVars /\ UNCHANGED sseVars /\ UNCHANGED chatVars /\ UNCHANGED profileVars
       \/ /\ Hubs
          /\ UNCHANGED faucetVars /\ UNCHANGED sseVars /\ UNCHANGED chatVars /\ UNCHANGED profileVars
       \/ /\ part = "sse" /\ Events!Next
          /\ UNCHANGED faucetVars /\ UNCHANGED hubVars /\ UNCHANGED chatVars /\ UNCHANGED profileVars
       \/ /\ Chats
          /\ UNCHANGED faucetVars /\ UNCHANGED hubVars /\ UNCHANGED sseVars /\ UNCHANGED profileVars
       \/ /\ Users
          /\ UNCHANGED faucetVars /\ UNCHANGED hubVars /\ UNCHANGED sseVars /\ UNCHANGED chatVars

OneTab(p) == part = "early" /\ p = p1
Tabs == part = "twoTabs"

\* The fairness of the parts whose progress is checked.
Fair ==
    /\ \A r \in Request :
         WF_faucetVars(part = "faucet" /\ Serve(r)) /\ WF_faucetVars(part = "faucet" /\ Settle(r))
    /\ WF_hubVars(part = "odds" /\ Odds!Hub)
    /\ \A p \in {p1, p2} :
         /\ WF_hubVars(part = "odds" /\ Odds!Open(p))
         /\ WF_hubVars(part = "odds" /\ page[p] = "waiting" /\ Odds!Connect(p))
    /\ WF_profileVars(\/ part = "early" /\ \E r \in req : Early!Answer(r)
                      \/ part = "twoTabs" /\ \E r \in req : TwoTabs!Answer(r))
    /\ \A p \in {p1, p2} :
         /\ WF_profileVars((OneTab(p) /\ Early!Fetch(p)) \/ (Tabs /\ TwoTabs!Fetch(p)))
         /\ WF_profileVars((OneTab(p) /\ Early!Effect(p)) \/ (Tabs /\ TwoTabs!Effect(p)))
         /\ WF_profileVars((OneTab(p) /\ Early!LearnEmail(p)) \/ (Tabs /\ TwoTabs!LearnEmail(p)))

ServicesSpec ==
    /\ ServicesInit
    /\ [][ServicesNext]_<<part, faucetVars, hubVars, sseVars, chatVars, profileVars>>
    /\ Fair

-----------------------------------------------------------------------------
(* The properties of the parts. *)

\* Every part's variables hold what its operations write.
ServicesTypeOK ==
    /\ TypeOK /\ Scores!TypeOK
    /\ part = "scores" => Scores!IInv
    /\ part = "odds" => Odds!IInv
    /\ part = "sse" => Events!IInv
    /\ IF part = "chatStore" THEN ChatStore!IInv ELSE ChatPage!IInv
    /\ part = "tab" => Tab(mailName)!OwnInv
    /\ part = "noName" => Tab(None)!OwnInv
    /\ part = "early" => Early!TypeOK /\ Early!OnlyHealsOverwrite
    /\ part = "twoTabs" => TwoTabs!TypeOK

\* Whoever listens to the odds, the hub's task runs (hub.ts: runUpstream); a page
\* shows rows of its own fixture only (hub.ts: broadcast); however TxLINE's answer
\* is cut into chunks its events are read, and a page reads the event that the hub
\* got (sse.ts).
HubServes ==
    /\ part = "odds" => Odds!UpstreamServed
    /\ Scores!OwnRows
    /\ Events!Reassembled /\ Events!Forwarded

\* A page that stays gets through to TxLINE (hub.ts, use-live-score.ts).
ReachesUpstream == part = "odds" => Odds!ReachesUpstream

\* A page shows its pool's messages, each once, and in order if it does not fall
\* behind (use-chat.ts:36); a message in one pool costs no other pool a message
\* (chat/store.ts).
ChatInOrder ==
    /\ [](IF part = "chatStore" THEN ChatStore!CapKeepsNewest
         ELSE ChatPage!ShownOnce /\ ChatPage!CapKeepsNewest)
    /\ [](part = "chatPage" => ChatPage!KeepsUp) => [](part = "chatPage" => ChatPage!InOrder)

\* However the requests of hooks and tabs are overtaken, the healing of a profile ends, and
\* with its email and a name if none failed since /me was opened; in one tab that had the
\* profile before that, the user owns the name (use-profile.ts:10).
ProfileHealed ==
    /\ [](part = "tab" => Tab(mailName)!OwnName)
    /\ part = "early" => Early!HealEnds /\ Early!HealedOnMe
    /\ part = "twoTabs" => TwoTabs!HealEnds /\ TwoTabs!Healed

=============================================================================
