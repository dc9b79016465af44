----------------------------- MODULE MCOffChain -----------------------------
(***************************************************************************)
(* The two other ways of this code to settle a pool: the worker without a  *)
(* program (LocalSettlement) and the older finalizeFixture                 *)
(* (FinalizeFixture).  Both write the mirror; a deployment has one of      *)
(* them, and part says which and with which bounds.                        *)
(***************************************************************************)
EXTENDS Integers, FiniteSets, TLC

CONSTANTS p1, m1, m2, m3, c1, c2, NoPool

VARIABLES
    part,
    record, pick,                         \* of Mirror
    now, match, sweep, loop,              \* of LocalSettlement
    chain, result, call, faults, crashes  \* of FinalizeFixture

mirrorVars == <<record, pick>>
localVars == <<now, match, sweep, loop>>
finalizeVars == <<chain, result, call, faults, crashes>>

\* Stakes of 100 and a rake of 5 percent; the deadline is the kickoff.
TwoSeats(stake) == {[outcome_count |-> 2, stake_amount |-> stake, rake_bps |-> 500,
                     max_entries |-> 2, deadline |-> 1]}

\* The worker alone, and with the dev route.
Worker == INSTANCE LocalSettlement WITH
    Pool <- {p1}, Member <- {m1, m2, m3},
    Terms <- TwoSeats(100), Outcome <- {0, 1}, MaxTime <- 1, Kickoff <- 1, BlankOnly <- TRUE,
    DevTools <- FALSE

WithDevRoute == INSTANCE LocalSettlement WITH
    Pool <- {p1}, Member <- {m1, m2, m3},
    Terms <- TwoSeats(100), Outcome <- {0, 1}, MaxTime <- 1, Kickoff <- 1, BlankOnly <- TRUE,
    DevTools <- TRUE

\* Two calls at once, without failures and with them.
Twice == INSTANCE FinalizeFixture WITH
    Pool <- {p1}, Member <- {m1, m2},
    Terms <- TwoSeats(3), Outcome <- {0, 1}, Call <- {c1, c2}, MaxFaults <- 0, MaxCrashes <- 0

WithFaults == INSTANCE FinalizeFixture WITH
    Pool <- {p1}, Member <- {m1, m2},
    Terms <- TwoSeats(3), Outcome <- {0, 1}, Call <- {c1, c2}, MaxFaults <- 1, MaxCrashes <- 1

ASSUME OffChainParts ==
    /\ Worker!LocalTypes /\ WithDevRoute!LocalTypes
    /\ Worker!ClosesAtKickoff /\ WithDevRoute!ClosesAtKickoff
    /\ Twice!FinalizeTypes /\ WithFaults!FinalizeTypes

-----------------------------------------------------------------------------

OffChainInit ==
    \/ /\ part \in {"worker", "devRoute"}
       /\ Worker!Init
       /\ chain = [p \in {p1} |-> [status |-> "open", outcome |-> -1, winners |-> 0]]
       /\ result = [action |-> "resolve", outcome |-> 0]
       /\ call = [c \in {c1, c2} |-> Twice!Idle]
       /\ faults = 0 /\ crashes = 0
    \/ /\ part \in {"twice", "faults"}
       /\ Twice!Init
       /\ now = 0 /\ match = Worker!Pending /\ sweep = Worker!Idle /\ loop = Worker!NoLoop

OffChainNext ==
    /\ UNCHANGED part
    /\ \/ /\ \/ part = "worker" /\ Worker!Next
             \/ part = "devRoute" /\ WithDevRoute!Next
          /\ UNCHANGED finalizeVars
       \/ /\ \/ part = "twice" /\ Twice!Next
             \/ part = "faults" /\ WithFaults!Next
          /\ UNCHANGED localVars

\* The fairness of the parts whose progress is checked.
Fair ==
    /\ WF_<<mirrorVars, localVars>>(part = "worker" /\ Worker!StartSweep)
    /\ WF_<<mirrorVars, localVars>>(part = "worker" /\ Worker!FetchFixtures)
    /\ WF_<<mirrorVars, localVars>>(part = "worker" /\ Worker!LoopStep)
    /\ \A c \in {c1, c2} :
         /\ WF_<<mirrorVars, finalizeVars>>(part = "faults" /\ WithFaults!CallSteps(c))
         /\ WF_<<mirrorVars, finalizeVars>>(part = "faults" /\ WithFaults!Deliver(c))

OffChainSpec ==
    /\ OffChainInit
    /\ [][OffChainNext]_<<part, mirrorVars, localVars, finalizeVars>>
    /\ Fair

Local == part \in {"worker", "devRoute"}

-----------------------------------------------------------------------------
(* The properties of the parts. *)

\* The inductive invariants of the parts.
OffChainTypeOK ==
    CASE part = "worker" -> Worker!IInv
      [] part = "devRoute" -> WithDevRoute!IInv
      [] part = "twice" -> Twice!IInv
      [] part = "faults" -> WithFaults!IInv

\* The share is the stakes less the rake, split evenly (worker.ts:91), and a pick's
\* verdict agrees with the record; for the latter the dev route, which may settle
\* a pool a second time, is left out (routes.ts:143).
RecordsAddUp ==
    /\ Local => Worker!ShareExact
    /\ part = "worker" => Worker!VerdictsMatch

\* The mirror calls settled what is so on the chain (resolveWorker.ts), and
\* without failures no partial state is left (resolveWorker.ts:118).
FinalizeWhole ==
    /\ part = "twice" => Twice!FinalizeWhole
    /\ part = "faults" => WithFaults!FinalizeWhole

\* Every pool is settled once its match has a result: by the worker alone, and by
\* finalizeFixture whatever fails (worker.ts, resolveWorker.ts).
EveryPoolSettled ==
    /\ part = "worker" => Worker!EventuallySettled
    /\ part = "faults" => WithFaults!EventuallySettled

=============================================================================
