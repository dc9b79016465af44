-------------------------- MODULE FinalizeFixture --------------------------
(***************************************************************************)
(* The older settlement worker (src/server/src/workers/resolve/            *)
(* resolveWorker.ts): finalizeFixture over the chain and a Repo, here the  *)
(* mirror.  It is exported, and nothing in the server calls it.            *)
(*                                                                         *)
(* It differs from settlePoolToOutcome where a pool is settled on the      *)
(* chain already: it has a recovery path, syncTerminal.  Several calls may *)
(* run at once (an event delivered twice, a retry); a call gives way at    *)
(* every await, any of its RPCs may fail, a transaction may land though    *)
(* its call failed, and the process may crash.  The chain is ClubPool's,   *)
(* reduced to what the resolver's transactions ask of it.                  *)
(***************************************************************************)
EXTENDS Mirror

CONSTANTS
    Outcome, Terms, Call, MaxFaults, MaxCrashes,
    NoPool  \* a call is between two pools

VARIABLES
    chain,     \* the status of each pool on the chain, its outcome and winners
    result,    \* what the feed says of the match: phaseAction's answer, an outcome
    call,      \* the calls of finalizeFixture
    faults, crashes

vars == <<record, pick, chain, result, call, faults, crashes>>

FinalizeTypes ==
    NoPool \notin Pool /\ IsFiniteSet(Member) /\ MaxFaults \in Nat /\ MaxCrashes \in Nat

Idle == [pc |-> "idle", todo |-> {}, pool |-> NoPool, winners |-> 0]

\* The match is over, and every pool is on the chain with the picks that were
\* paid in its entries.
Init ==
    /\ \E host \in Member, terms \in Terms : record = [p \in Pool |-> [NewRecord(host, terms) EXCEPT !.onChain = TRUE]]
    /\ pick \in [Pool -> [Member -> {NoPick} \cup [status : {"active"}, prediction : Outcome, paid : BOOLEAN]]]
    /\ chain = [p \in Pool |-> [status |-> "open", outcome |-> NoOutcome, winners |-> 0]]
    /\ result \in [action : {"resolve", "cancel"}, outcome : Outcome]
    /\ call = [c \in Call |-> Idle]
    /\ faults = 0 /\ crashes = 0

Winners(p, w) == {m \in Member : pick[p][m] # NoPick /\ pick[p][m].paid /\ pick[p][m].prediction = w}

Step(c, pc) == call' = [call EXCEPT ![c].pc = pc]
NextPool(c) == call' = [call EXCEPT ![c] = [@ EXCEPT !.pc = "work", !.pool = NoPool, !.winners = 0]]
Budgets == UNCHANGED <<result, faults, crashes>>

\* A terminal event, or retryStuckFixture, starts a call.
Deliver(c) ==
    /\ call[c].pc = "idle" /\ ActivePools # {}
    /\ call' = [call EXCEPT ![c] = [Idle EXCEPT !.pc = "work", !.todo = ActivePools]]
    /\ UNCHANGED <<mirrorVars, chain>> /\ Budgets

Finish(c) ==
    /\ call[c].pc = "work" /\ call[c].todo = {}
    /\ call' = [call EXCEPT ![c] = Idle]
    /\ UNCHANGED <<mirrorVars, chain>> /\ Budgets

Terminal == {"resolved", "voided", "cancelled"}

\* Mutant: a pool that is locked is someone else's.
AfterStatusOpenOnly(status) ==
    IF status # "open" THEN "work" ELSE IF result.action = "cancel" THEN "cancel" ELSE "lock"

AfterStatus(status) ==
    IF status \in Terminal THEN "work"
    ELSE IF result.action = "cancel" THEN "cancel"
    ELSE IF status = "open" THEN "lock"
    ELSE "count"

\* Reconcile and skip.
Reconcile(p) ==
    IF chain[p].status \in Terminal THEN SyncTerminal(p, chain[p].status) ELSE UNCHANGED mirrorVars

\* program.status is answered.
FetchStatus(c, p) ==
    /\ call[c].pc = "work" /\ p \in call[c].todo
    /\ LET next == AfterStatus(chain[p].status)
       IN  call' = [call EXCEPT ![c] = [@ EXCEPT !.todo = call[c].todo \ {p}, !.pc = next,
                                          !.pool = IF next = "work" THEN NoPool ELSE p]]
    /\ Reconcile(p)
    /\ UNCHANGED chain /\ Budgets

CountWinners(c) ==
    /\ call[c].pc = "count"
    /\ call' = [call EXCEPT ![c].winners = Cardinality(Winners(call[c].pool, result.outcome)),
                            ![c].pc = "resolve"]
    /\ UNCHANGED <<mirrorVars, chain>> /\ Budgets

\* Whether the program takes the transaction a call has sent, and its effect.
Accepts(c) ==
    LET status == chain[call[c].pool].status
    IN  \/ call[c].pc = "lock" /\ status = "open"
        \/ call[c].pc = "cancel" /\ status \in {"open", "locked"}
        \/ call[c].pc = "resolve" /\ status = "locked"

Effect(c) ==
    chain' = [chain EXCEPT ![call[c].pool] =
        CASE call[c].pc = "lock" -> [@ EXCEPT !.status = "locked"]
          [] call[c].pc = "cancel" -> [@ EXCEPT !.status = "cancelled"]
          [] call[c].pc = "resolve" ->
               [status |-> IF call[c].winners = 0 THEN "voided" ELSE "resolved",
                outcome |-> result.outcome, winners |-> call[c].winners]]

Confirmed(c) ==
    /\ Accepts(c) /\ Effect(c)
    /\ Step(c, CASE call[c].pc = "lock" -> "count"
                 [] call[c].pc = "cancel" -> "cancelled"
                 [] call[c].pc = "resolve" -> IF call[c].winners = 0 THEN "voided" ELSE "resolved")
    /\ UNCHANGED mirrorVars /\ Budgets

\* The loop's catch: the program refuses, or an RPC fails, and then a
\* transaction may have landed or not.
Refused(c) ==
    /\ call[c].pc \in {"lock", "cancel", "resolve"} /\ ~Accepts(c)
    /\ NextPool(c)
    /\ UNCHANGED <<mirrorVars, chain>> /\ Budgets

Fails(c) ==
    /\ faults < MaxFaults /\ faults' = faults + 1
    /\ \/ /\ call[c].pc = "work"
          /\ \E p \in call[c].todo : call' = [call EXCEPT ![c].todo = @ \ {p}]
          /\ UNCHANGED chain
       \/ /\ call[c].pc \in {"lock", "count", "cancel", "resolve", "resolved"}
          /\ NextPool(c)
          /\ UNCHANGED chain
       \/ Accepts(c) /\ Effect(c) /\ NextPool(c)
    /\ UNCHANGED <<mirrorVars, result, crashes>>

\* Mutant: the picks of a pool that is called off keep their status.
MarkStatusOnly(c) ==
    LET p == call[c].pool
    IN  /\ \/ call[c].pc = "cancelled" /\ SyncTerminal(p, "cancelled")
           \/ call[c].pc = "voided" /\ MarkVoided(p, result.outcome)
           \/ call[c].pc = "resolved" /\ MarkResolved(p, result.outcome, call[c].winners, 1)
        /\ NextPool(c)
        /\ UNCHANGED chain /\ Budgets

\* shareAmount is answered, if it was asked for, and the mirror is written.
Mark(c) ==
    LET p == call[c].pool
    IN  /\ \/ call[c].pc = "cancelled" /\ MarkCancelled(p)
           \/ call[c].pc = "voided" /\ MarkVoided(p, result.outcome)
           \/ call[c].pc = "resolved" /\ MarkResolved(p, result.outcome, call[c].winners, 1)
        /\ NextPool(c)
        /\ UNCHANGED chain /\ Budgets

Crash ==
    /\ crashes < MaxCrashes /\ crashes' = crashes + 1
    /\ call' = [c \in Call |-> Idle]
    /\ UNCHANGED <<mirrorVars, chain, result, faults>>

CallSteps(c) ==
    Finish(c) \/ CountWinners(c) \/ Confirmed(c) \/ Refused(c) \/ Mark(c) \/ \E p \in Pool : FetchStatus(c, p)

Next ==
    \/ \E c \in Call : Deliver(c) \/ CallSteps(c) \/ Fails(c)
    \/ Crash

\* RPCs are answered in the end, and a fixture with pools that are not settled
\* is delivered again ("a retry sweep to run on a timer").
Spec == Init /\ [][Next]_vars /\ \A c \in Call : WF_vars(CallSteps(c)) /\ WF_vars(Deliver(c))

-----------------------------------------------------------------------------
(* Properties *)

MarkPc == {"cancelled", "voided", "resolved"}
CallState ==
    [pc : {"idle", "work", "lock", "count", "cancel", "resolve"} \cup MarkPc,
     todo : SUBSET Pool, pool : Pool \cup {NoPool}, winners : Nat]
ChainState == [status : RecordStatus, outcome : Outcome \cup {NoOutcome}, winners : Nat]

\* A step belongs to a pool, and to a match that was played or was not.
TypeOK ==
    /\ record \in [Pool -> Record(Terms, Outcome)]
    /\ pick \in [Pool -> [Member -> {NoPick} \cup Pick(Outcome)]]
    /\ chain \in [Pool -> ChainState]
    /\ result \in [action : {"resolve", "cancel"}, outcome : Outcome]
    /\ call \in [Call -> CallState]
    /\ \A c \in Call :
         /\ call[c].pool = NoPool <=> call[c].pc \in {"idle", "work"}
         /\ call[c].pool # NoPool =>
              (call[c].pc \in {"cancel", "cancelled"} <=> result.action = "cancel")
    /\ faults \in 0 .. MaxFaults /\ crashes \in 0 .. MaxCrashes

\* What the mirror calls settled is so on the chain, in the same way.
MirrorNeverAhead ==
    \A p \in Pool : record[p].status \in Settled => chain[p].status = record[p].status

\* "Never leaves partial state" (resolveWorker.ts:118): when no call is running
\* a settled pool has its verdicts, and a resolved one its outcome.
NothingPartial ==
    (\A c \in Call : call[c].pc = "idle") =>
        \A p \in Pool : record[p].status \in Settled =>
            /\ \A m \in Pickers(p) : pick[p][m].status # "active"
            /\ record[p].status = "resolved" => record[p].winningOutcome = chain[p].outcome

\* The mirror is never ahead of the chain, and while nothing fails no partial
\* state is left.
FinalizeWhole ==
    /\ MirrorNeverAhead
    /\ MaxFaults = 0 /\ MaxCrashes = 0 => NothingPartial

\* Whatever fails, every pool ends settled in the mirror as on the chain, once
\* and for all.
EventuallySettled ==
    \A p \in Pool : <>[](record[p].status \in Settled /\ record[p].status = chain[p].status)

-----------------------------------------------------------------------------
(* The inductive invariant *)

\* What a call is about to mark is so on the chain.
MarksAreReal ==
    \A c \in Call : call[c].pc \in MarkPc => chain[call[c].pool].status = call[c].pc

\* The chain has the feed's outcome.
OutcomeOfFeed ==
    \A p \in Pool : chain[p].status \in {"resolved", "voided"} => chain[p].outcome = result.outcome

\* A pool whose mirror says all that the chain does.
Whole(p) ==
    /\ record[p].status = chain[p].status
    /\ \A m \in Pickers(p) : pick[p][m].status # "active"
    /\ record[p].status = "resolved" => record[p].winningOutcome = chain[p].outcome

\* While nothing fails a pool that ended on the chain is whole, or the call that
\* ended it is about to mark it.
WholeOrMarking ==
    MaxFaults = 0 /\ MaxCrashes = 0 =>
        \A p \in Pool : chain[p].status \in Terminal =>
            Whole(p) \/ \E c \in Call : call[c].pc \in MarkPc /\ call[c].pool = p

IInv == TypeOK /\ MirrorNeverAhead /\ MarksAreReal /\ OutcomeOfFeed /\ WholeOrMarking

=============================================================================
