----------------------------- MODULE Settlement -----------------------------
(***************************************************************************)
(* The settlement worker (src/server/src/settlement/worker.ts) between the *)
(* chain, the mirror and the match feed, in on-chain mode.                 *)
(*                                                                         *)
(* The worker is one Node process in which several asynchronous tasks run: *)
(* at most one reconciliation sweep (its `sweeping` flag) and any number   *)
(* of settleFixture calls started by stream events.  A task gives way at   *)
(* every await, so each action below is the code between two awaits, and a *)
(* value read before an await is a field of the task.  RPC calls may fail, *)
(* and a transaction whose confirmation timed out may still land later.    *)
(* The process may crash: its tasks and caches are lost, the mirror stays. *)
(*                                                                         *)
(* Members use the app: a transaction is built from a mirror record and    *)
(* signed by the wallet at a later time or never, and its signature is     *)
(* reported back or lost with the page.                                    *)
(***************************************************************************)
EXTENDS MirroredChain

CONSTANTS
    Admin,          \* the key that administers the config
    ServerKey,      \* the server's resolver keypair
    Fixture,
    FixtureOf,      \* the fixture each pool is about
    Score,          \* final scores
    OutcomeOf,      \* OutcomeOf[p][s]: winningOutcome of the pool's market
    Handler,        \* settleFixture calls that may run at the same time
    None,           \* no score, no treasury, no pool
    MaxFaults,      \* calls that fail or time out
    MaxCrashes,
    MaxRotations,   \* treasury rotations by the admin
    HostMayCancel   \* may a host send cancel_pool by itself?

VARIABLES
    match,          \* phase and final score of each fixture
    task,           \* the asynchronous tasks of the process
    treasuryCache,  \* PoolProgram.treasuryCache
    inflight,       \* transactions that timed out and may still land
    faults, crashes, rotations

budgets == <<faults, crashes, rotations>>
workerVars == <<task, treasuryCache, inflight>>
vars == <<mirrorVars, chainVars, match, workerVars, budgets>>

ASSUME SettlementTypes ==
    /\ Admin \in Key /\ ServerKey \in Key
    /\ FixtureOf \in [Pool -> Fixture]
    /\ OutcomeOf \in [Pool -> [Score -> OutcomeArg]]
    /\ None \notin Score \cup Treasury \cup Pool
    /\ MaxFaults \in Nat /\ MaxCrashes \in Nat /\ MaxRotations \in Nat
    /\ HostMayCancel \in BOOLEAN
    /\ IsFiniteSet(Fixture)

Sweep == "sweep"
Task == {Sweep} \cup Handler

\* What a task holds across its awaits: its work lists, the pool it is busy
\* with, and the winner count and the share it has read.
Idle == [pc |-> "idle", toCancel |-> {}, toSettle |-> {}, toLock |-> {},
         pool |-> None, winners |-> 0, share |-> 0]

Init ==
    /\ Chain!Init
    /\ MirrorInit
    /\ match = [f \in Fixture |-> [phase |-> "pending", score |-> None]]
    /\ task = [t \in Task |-> Idle]
    /\ treasuryCache = None
    /\ inflight = {}
    /\ faults = 0 /\ crashes = 0 /\ rotations = 0

-----------------------------------------------------------------------------
(* The operator *)

Deploy(treasury) ==
    /\ Chain!InitializeConfig(Admin, ServerKey, treasury)
    /\ UNCHANGED <<mirrorVars, match, workerVars, budgets>>

RotateTreasury(treasury) ==
    /\ rotations < MaxRotations
    /\ Chain!UpdateConfig(Admin, ServerKey, treasury)
    /\ treasury # config.treasury
    /\ rotations' = rotations + 1
    /\ UNCHANGED <<mirrorVars, match, workerVars, faults, crashes>>

-----------------------------------------------------------------------------
(* Members and the API *)

\* POST /pools; the host's own pick is a JoinPool by the host.
HostPool(m, p, terms) ==
    /\ CreateRecord(m, p, terms, now)
    /\ UNCHANGED <<chainVars, match, workerVars, budgets>>

\* POST /pools/:id/entries
JoinPool(m, p, prediction) ==
    /\ CreateEntry(m, p, prediction, now)
    /\ UNCHANGED <<chainVars, match, workerVars, budgets>>

\* The wallet signs a create transaction built while the host had no pick.
SignCreate(p) ==
    /\ record[p] # NoRecord
    /\ Chain!CreatePool(record[p].hostWallet, p, record[p].terms)
    /\ UNCHANGED <<mirrorVars, match, workerVars, budgets>>

\* The wallet signs create_pool and enter_pool bundled in one transaction.
SignCreateWithEntry(p) ==
    /\ CreateWithEntry(p)
    /\ UNCHANGED <<mirrorVars, match, workerVars, budgets>>

\* POST /pools/:id/tx, kind "create", sent by a page that saw the transaction
\* confirmed; the page may be closed before it is.
ReportCreate(p) ==
    /\ pool[p] # Chain!NoPool
    /\ ~record[p].onChain
    /\ RecordCreateTx(p)
    /\ UNCHANGED <<chainVars, match, workerVars, budgets>>

\* The wallet signs the entry transaction built from its pick, which the server
\* offers once it knows that the pool is on-chain.
SignEnter(m, p) ==
    /\ pick[p][m] # NoPick
    /\ record[p].onChain
    /\ Chain!EnterPool(m, p, pick[p][m].prediction)
    /\ UNCHANGED <<mirrorVars, match, workerVars, budgets>>

\* POST /pools/:id/tx, kind "enter"
ReportEnter(m, p) ==
    /\ m \in Chain!Entrants(p)
    /\ ~pick[p][m].paid
    /\ RecordEnterTx(m, p)
    /\ UNCHANGED <<chainVars, match, workerVars, budgets>>

\* POST /pools/:id/claim and /refund build the transaction only when the mirror
\* says so; it is signed before its blockhash expires, or built again.
SignClaim(m, p) ==
    /\ pick[p][m] # NoPick
    /\ record[p].onChain
    /\ \/ record[p].status = "resolved" /\ Chain!ClaimWinnings(m, p)
       \/ record[p].status \in {"voided", "cancelled"} /\ Chain!ClaimRefund(m, p)
    /\ UNCHANGED <<mirrorVars, match, workerVars, budgets>>

\* A host may send cancel_pool without the app.
HostCancels(p) ==
    /\ HostMayCancel
    /\ pool[p] # Chain!NoPool
    /\ Chain!CancelPool(pool[p].authority, p)
    /\ UNCHANGED <<mirrorVars, match, workerVars, budgets>>

-----------------------------------------------------------------------------
(* The world *)

Tick ==
    /\ Chain!Tick
    /\ UNCHANGED <<mirrorVars, match, workerVars, budgets>>

EndMatch(f, phase, score) ==
    /\ match[f].phase = "pending"
    /\ match' = [match EXCEPT ![f] = [phase |-> phase, score |-> score]]
    /\ UNCHANGED <<mirrorVars, chainVars, workerVars, budgets>>

\* A match ends at full time with its score, or is abandoned; the feed then has
\* the score it had, 0-0 if it had none, or no row about it at all (None).
MatchEnds(f) ==
    \/ \E s \in Score : EndMatch(f, "finished", s)
    \/ \E s \in Score \cup {None} : EndMatch(f, "abandoned", s)

\* What the sweep means by finished: deriveStatus counts an abandoned match too.
FeedSaysFinished(f) ==
    /\ match[f].phase \in {"finished", "abandoned"}
    /\ match[f].score # None

\* Mutant: the two sides of the score are swapped.
OutcomeSidesSwapped(p) ==
    record[p].terms.outcome_count - 1 - OutcomeOf[p][match[FixtureOf[p]].score]

Outcome(p) == OutcomeOf[p][match[FixtureOf[p]].score]

-----------------------------------------------------------------------------
(* The worker: the steps of a task *)

\* A task is between two pools: nothing of the last one is kept.
NextPool(t) == [task[t] EXCEPT !.pc = "work", !.pool = None,
                               !.winners = 0, !.share = 0]

\* A step that calls nothing but the mirror.
LocalStep == UNCHANGED <<chainVars, match, treasuryCache, inflight, budgets>>

\* An RPC that only reads.
ReadStep == UNCHANGED <<mirrorVars, chainVars, match, treasuryCache, inflight, budgets>>

\* The timer (or the boot) starts reconcilePools unless one is running.
StartSweep ==
    /\ task[Sweep].pc = "idle"
    /\ ActivePools # {}
    /\ task' = [task EXCEPT ![Sweep] =
            [Idle EXCEPT !.pc = "fixtures", !.toSettle = ActivePools,
                         !.toLock = {p \in Pool : record[p].status = "open"}]]
    /\ ReadStep

\* loadOddtasyFixtures is answered.  A fixture whose scores could not be fetched
\* looks unfinished.
FetchFixtures ==
    /\ task[Sweep].pc = "fixtures"
    /\ \E missing \in SUBSET {f \in Fixture : FeedSaysFinished(f)} :
        LET finished == {p \in task[Sweep].toSettle :
                            /\ FeedSaysFinished(FixtureOf[p])
                            /\ FixtureOf[p] \notin missing}
        IN  /\ faults + Cardinality(missing) <= MaxFaults
            /\ faults' = faults + Cardinality(missing)
            /\ task' = [task EXCEPT ![Sweep].pc = "work",
                                    ![Sweep].toSettle = finished,
                                    ![Sweep].toLock = @ \ finished]
    /\ UNCHANGED <<mirrorVars, chainVars, match, treasuryCache, inflight, crashes,
                   rotations>>

\* The sweep locks a pool that its snapshot, taken before the fetch, has open.
LockLate(p) ==
    /\ task[Sweep].pc = "work"
    /\ p \in task[Sweep].toLock
    /\ task' = [task EXCEPT ![Sweep].toLock = @ \ {p}]
    /\ \/ record[p].terms.deadline <= now /\ MarkLocked(p)
       \/ record[p].terms.deadline > now /\ UNCHANGED mirrorVars
    /\ LocalStep

\* A stream event starts settleFixture; a row may be pushed at any time after
\* the end of the match, repeatedly, or never.
StartHandler(t, f) ==
    /\ task[t].pc = "idle"
    /\ LET pools == {p \in ActivePools : FixtureOf[p] = f}
       IN  /\ pools # {}
           /\ \/ /\ match[f].phase = "finished"
                 /\ task' = [task EXCEPT ![t] =
                        [Idle EXCEPT !.pc = "work", !.toSettle = pools]]
              \/ /\ match[f].phase = "abandoned"
                 /\ task' = [task EXCEPT ![t] =
                        [Idle EXCEPT !.pc = "work", !.toCancel = pools]]
    /\ ReadStep

\* The loop over the work list is through.
EndTask(t) ==
    /\ task[t].pc = "work"
    /\ task[t].toCancel = {} /\ task[t].toSettle = {} /\ task[t].toLock = {}
    /\ task' = [task EXCEPT ![t] = Idle]
    /\ ReadStep

\* Mutant: a pool that an earlier attempt left locked is taken as done.
AfterStatusOpenOnly(status) == IF status = "Open" THEN "lock" ELSE "work"

\* Mutant: an open pool is counted without being locked.
AfterStatusUnlocked(status) == IF status \in {"Open", "Locked"} THEN "count" ELSE "work"

AfterStatus(status) ==
    CASE status = "Open" -> "lock"
      [] status = "Locked" -> "count"
      [] OTHER -> "work"

\* settlePoolToOutcome starts with PoolProgram.status: an account that does not
\* exist is an error, a terminal one ends it.
FetchStatus(t, p) ==
    /\ task[t].pc = "work"
    /\ p \in task[t].toSettle
    /\ LET next == AfterStatus(pool[p].status)
       IN  task' = [task EXCEPT ![t] =
                [@ EXCEPT !.toSettle = task[t].toSettle \ {p}, !.pc = next,
                          !.pool = IF next = "work" THEN None ELSE p]]
    /\ ReadStep

\* Mutant: the mirror's picks are counted, as they are in local mode.
CountLocalWinners(t) ==
    /\ task[t].pc = "count"
    /\ LET p == task[t].pool
           winners == {m \in Pickers(p) : pick[p][m].prediction = Outcome(p)}
       IN  task' = [task EXCEPT ![t].winners = Cardinality(winners), ![t].pc = "resolve"]
    /\ ReadStep

CountWinners(t) ==
    /\ task[t].pc = "count"
    /\ LET p == task[t].pool
       IN  task' = [task EXCEPT ![t].winners = Chain!AuditedCount(p, Outcome(p)),
                                ![t].pc = "resolve"]
    /\ ReadStep

FetchShare(t) ==
    /\ task[t].pc = "share"
    /\ task' = [task EXCEPT ![t].share = pool[task[t].pool].share_amount,
                            ![t].pc = "resolved"]
    /\ ReadStep

-----------------------------------------------------------------------------
(* The worker: transactions *)

MayLock(p) == Chain!IsResolver(ServerKey) /\ pool[p].status = "Open"
MayCancel(p) == Chain!IsResolver(ServerKey) /\ pool[p].status \in {"Open", "Locked"}

\* PoolProgram.treasury: fetched once, then cached for the process's life.
TreasuryToUse == IF treasuryCache = None THEN config.treasury ELSE treasuryCache

LockTx(p) == [kind |-> "lock", pool |-> p]
CancelTx(p) == [kind |-> "cancel", pool |-> p]
ResolveTx(p, w, n, treasury) ==
    [kind |-> "resolve", pool |-> p, outcome |-> w, winners |-> n,
     treasury |-> treasury]

\* Whether the program accepts a transaction now, and what it does then.
Accepted(tx) ==
    CASE tx.kind = "lock" -> MayLock(tx.pool)
      [] tx.kind = "cancel" -> MayCancel(tx.pool)
      [] tx.kind = "resolve" ->
            Chain!MayResolve(ServerKey, tx.pool, tx.outcome, tx.winners, tx.treasury)

Execute(tx) ==
    \/ tx.kind = "lock" /\ Chain!LockPool(ServerKey, tx.pool)
    \/ tx.kind = "cancel" /\ Chain!CancelPool(ServerKey, tx.pool)
    \/ /\ tx.kind = "resolve"
       /\ Chain!ResolvePool(ServerKey, tx.pool, tx.outcome, tx.winners, tx.treasury)

\* Mutant: a refusal is taken for "another task did it already".
RpcIgnoringRefusal(t, tx, answered) ==
    /\ task' = [task EXCEPT ![t] = answered]
    /\ Execute(tx) \/ (~Accepted(tx) /\ UNCHANGED chainVars)
    /\ UNCHANGED <<inflight, faults>>

\* .rpc() sends a transaction and waits until it is confirmed.  It throws when
\* the program refuses the transaction, and when no confirmation comes in time:
\* then the transaction may still land.  What is thrown is caught by the loop
\* over the pools, which goes on to the next one.
Rpc(t, tx, answered) ==
    \/ /\ Execute(tx)
       /\ task' = [task EXCEPT ![t] = answered]
       /\ UNCHANGED <<inflight, faults>>
    \/ /\ ~Accepted(tx)
       /\ task' = [task EXCEPT ![t] = NextPool(t)]
       /\ UNCHANGED <<chainVars, inflight, faults>>
    \/ /\ Accepted(tx)
       /\ faults < MaxFaults
       /\ faults' = faults + 1
       /\ inflight' = inflight \cup {tx}
       /\ task' = [task EXCEPT ![t] = NextPool(t)]
       /\ UNCHANGED chainVars

SendLock(t) ==
    /\ task[t].pc = "lock"
    /\ Rpc(t, LockTx(task[t].pool), [task[t] EXCEPT !.pc = "count"])
    /\ UNCHANGED <<mirrorVars, match, treasuryCache, crashes, rotations>>

\* Mutant: a pool without winners is done once it is resolved.
AfterResolveUnmarked(winners) == IF winners = 0 THEN "work" ELSE "share"

AfterResolve(winners) == IF winners = 0 THEN "voided" ELSE "share"

SendResolve(t) ==
    /\ task[t].pc = "resolve"
    /\ treasuryCache' = TreasuryToUse
    /\ LET p == task[t].pool
           n == task[t].winners
       IN  Rpc(t, ResolveTx(p, Outcome(p), n, TreasuryToUse),
               [task[t] EXCEPT !.pc = AfterResolve(n)])
    /\ UNCHANGED <<mirrorVars, match, crashes, rotations>>

\* settleFixture cancels the pools of an abandoned match without a look at them.
SendCancel(t, p) ==
    /\ task[t].pc = "work"
    /\ p \in task[t].toCancel
    /\ LET rest == task[t].toCancel \ {p}
       IN  \/ /\ Chain!CancelPool(ServerKey, p)
              /\ task' = [task EXCEPT ![t] = [@ EXCEPT
                    !.toCancel = rest, !.pool = p, !.pc = "cancelled"]]
              /\ UNCHANGED <<inflight, faults>>
           \/ /\ ~MayCancel(p)
              /\ task' = [task EXCEPT ![t].toCancel = rest]
              /\ UNCHANGED <<chainVars, inflight, faults>>
           \/ /\ MayCancel(p)
              /\ faults < MaxFaults
              /\ faults' = faults + 1
              /\ inflight' = inflight \cup {CancelTx(p)}
              /\ task' = [task EXCEPT ![t].toCancel = rest]
              /\ UNCHANGED chainVars
    /\ UNCHANGED <<mirrorVars, match, treasuryCache, crashes, rotations>>

\* The answer arrived: the result is copied into the mirror.
Mark(t) ==
    /\ LET p == task[t].pool
       IN  \/ /\ task[t].pc = "resolved"
              /\ MarkResolved(p, Outcome(p), task[t].winners, task[t].share)
           \/ task[t].pc = "voided" /\ MarkVoided(p, Outcome(p))
           \/ task[t].pc = "cancelled" /\ MarkCancelled(p)
    /\ task' = [task EXCEPT ![t] = NextPool(t)]
    /\ LocalStep

-----------------------------------------------------------------------------
(* Failures *)

\* A transaction nobody waits for any more lands, or its blockhash expires.
LandLate(tx) ==
    /\ tx \in inflight
    /\ Execute(tx)
    /\ inflight' = inflight \ {tx}
    /\ UNCHANGED <<mirrorVars, match, task, treasuryCache, budgets>>

Expire(tx) ==
    /\ tx \in inflight
    /\ inflight' = inflight \ {tx}
    /\ UNCHANGED <<mirrorVars, chainVars, match, task, treasuryCache, budgets>>

\* A read fails: the sweep is over when it was the fixtures', else the loop goes
\* on to the next pool.
ReadFails(t) ==
    /\ faults < MaxFaults
    /\ faults' = faults + 1
    /\ \/ task[t].pc = "fixtures" /\ task' = [task EXCEPT ![t] = Idle]
       \/ task[t].pc \in {"count", "share"} /\ task' = [task EXCEPT ![t] = NextPool(t)]
       \/ /\ task[t].pc = "work"
          /\ \E p \in task[t].toSettle :
                task' = [task EXCEPT ![t].toSettle = @ \ {p}]
    /\ UNCHANGED <<mirrorVars, chainVars, match, treasuryCache, inflight, crashes,
                   rotations>>

\* A crash of a process that holds nothing changes nothing.
Crash ==
    /\ crashes < MaxCrashes
    /\ treasuryCache # None \/ \E t \in Task : task[t] # Idle
    /\ crashes' = crashes + 1
    /\ task' = [t \in Task |-> Idle]
    /\ treasuryCache' = None
    /\ UNCHANGED <<mirrorVars, chainVars, match, inflight, faults, rotations>>

-----------------------------------------------------------------------------
(* Specification *)

OperatorNext == \E treasury \in Treasury : Deploy(treasury) \/ RotateTreasury(treasury)

AppNext(p) ==
    \/ \E m \in Member, terms \in Terms : HostPool(m, p, terms)
    \/ \E m \in Member, x \in OutcomeArg : JoinPool(m, p, x)
    \/ SignCreate(p) \/ SignCreateWithEntry(p) \/ ReportCreate(p) \/ HostCancels(p)
    \/ \E m \in Member : SignEnter(m, p) \/ ReportEnter(m, p) \/ SignClaim(m, p)

WorldNext == Tick \/ \E f \in Fixture : MatchEnds(f)

\* What a started task does until it is done, failures apart.
TaskStep(t) ==
    \/ EndTask(t) \/ CountWinners(t) \/ FetchShare(t)
    \/ SendLock(t) \/ SendResolve(t) \/ Mark(t)
    \/ \E p \in Pool : FetchStatus(t, p) \/ SendCancel(t, p)

SweepStep ==
    \/ StartSweep \/ FetchFixtures \/ TaskStep(Sweep)
    \/ \E p \in Pool : LockLate(p)

FailureNext ==
    \/ \E tx \in inflight : LandLate(tx) \/ Expire(tx)
    \/ \E t \in Task : ReadFails(t)
    \/ Crash

Next ==
    \/ OperatorNext
    \/ \E p \in Pool : AppNext(p)
    \/ WorldNext
    \/ SweepStep
    \/ \E t \in Handler : TaskStep(t) \/ \E f \in Fixture : StartHandler(t, f)
    \/ FailureNext

Spec == Init /\ [][Next]_vars

\* The event loop of a running process runs every task on, and its timer starts
\* a sweep again and again.  Nothing is assumed of members, the operator, the
\* stream or late transactions; failures are finitely many.
FairSpec ==
    /\ Spec
    /\ WF_vars(SweepStep)
    /\ \A t \in Handler : WF_vars(TaskStep(t))

-----------------------------------------------------------------------------
(* Properties *)

TaskPc == {"idle", "fixtures", "work", "lock", "count", "resolve", "share",
           "resolved", "voided", "cancelled"}
BetweenPools == {"idle", "fixtures", "work"}
TaskState ==
    [pc : TaskPc, toCancel : SUBSET Pool, toSettle : SUBSET Pool,
     toLock : SUBSET Pool, pool : Pool \cup {None}, winners : Nat, share : Nat]
Tx == [kind : {"lock", "cancel"}, pool : Pool]
        \cup [kind : {"resolve"}, pool : Pool, outcome : OutcomeArg, winners : Nat,
              treasury : Treasury]
Match == [phase : {"pending", "finished", "abandoned"}, score : Score \cup {None}]

\* The variables hold what their operations write.
TypeOK ==
    /\ Chain!TypeOK
    /\ MirrorTypes
    /\ match \in [Fixture -> Match]
    /\ treasuryCache \in Treasury \cup {None}
    /\ task \in [Task -> TaskState]
    /\ \A t \in Task : task[t].pool = None <=> task[t].pc \in BetweenPools
    /\ inflight \subseteq Tx
    /\ faults \in 0 .. MaxFaults /\ crashes \in 0 .. MaxCrashes
    /\ rotations \in 0 .. MaxRotations

\* Every step that anything here takes on the chain is a step of the audited
\* program of ClubPool (a bundled creation is two of them): however the tasks
\* interleave, time out and land late, the worker never resolves a pool with a
\* winner count other than the one the entry accounts show at that moment,
\* although it counts them one RPC earlier (worker.ts, settlePoolToOutcome).
\* What is proved of ClubPool's AuditedSpec thus holds of the deployment.
WorkerIsAudited == [][AuditedStep]_chainVars

\* A pool is resolved or voided only after its match is over, and to the outcome
\* of its score, also when the transaction lands late or from two tasks.
ResultsAreReal ==
    \A p \in Pool : pool[p].status \in {"Resolved", "Voided"} =>
        /\ FeedSaysFinished(FixtureOf[p])
        /\ pool[p].winning_outcome = OutcomeOf[p][match[FixtureOf[p]].score]

-----------------------------------------------------------------------------
(* The inductive invariant *)

\* A match that is over for the feed has a score.
MatchesHold == \A f \in Fixture : match[f].phase = "finished" => match[f].score # None

\* The count reported for pool p is the audited one, for the outcome of a match
\* that is over.
CountHolds(p, w, n) ==
    /\ FeedSaysFinished(FixtureOf[p])
    /\ PastLock(p)
    /\ w = Outcome(p)
    /\ n = Chain!AuditedCount(p, w)

\* What a task in state s has read is still so, however long it waits.
ReadHolds(s) ==
    LET p == s.pool
    IN  /\ \A q \in s.toSettle \cup s.toLock : record[q] # NoRecord
        /\ s.pc # "fixtures" => \A q \in s.toSettle : FeedSaysFinished(FixtureOf[q])
        /\ s.pc \in {"lock", "count", "resolve", "share", "resolved", "voided"} =>
            FeedSaysFinished(FixtureOf[p])
        /\ s.pc = "lock" => pool[p] # Chain!NoPool
        /\ s.pc = "count" => PastLock(p)
        /\ s.pc = "resolve" => CountHolds(p, Outcome(p), s.winners)
        /\ s.pc \in {"share", "resolved"} =>
            /\ pool[p].status = "Resolved"
            /\ pool[p].winning_outcome = Outcome(p)
            /\ pool[p].winner_count = s.winners
        /\ s.pc = "resolved" => pool[p].share_amount = s.share
        /\ s.pc = "voided" =>
            /\ pool[p].status = "Voided"
            /\ pool[p].winning_outcome = Outcome(p)
            /\ pool[p].winner_count = 0 /\ pool[p].share_amount = 0
        /\ s.pc = "cancelled" => pool[p].status = "Cancelled"
TaskHolds(t) == ReadHolds(task[t])

TxHolds(tx) == tx.kind = "resolve" => CountHolds(tx.pool, tx.outcome, tx.winners)

IInv ==
    /\ TypeOK
    /\ JointInv
    /\ MatchesHold
    /\ \A t \in Task : TaskHolds(t)
    /\ \A tx \in inflight : TxHolds(tx)
    /\ ResultsAreReal

-----------------------------------------------------------------------------
(* Liveness, and what the documents say *)

\* "Finished -> settle the pool to the real result" (worker.ts): a pool on the
\* chain whose match the feed shows finished is eventually terminal, whatever
\* calls fail and whenever the process restarts.
EventuallySettled ==
    \A p \in Pool :
        pool[p].status \in {"Open", "Locked"} /\ FeedSaysFinished(FixtureOf[p])
            ~> pool[p].status \in Chain!Terminal

\* The mirror of a pool that is terminal on the chain eventually says so, so
\* that the app lets its members claim.
MirrorFollows ==
    \A p \in Pool :
        pool[p].status \in Chain!Terminal ~> record[p].status \in Settled

\* ... which it does where nothing gets between the sweep and its answers: no call
\* fails, the process does not restart and no stream event starts a second task.
MirrorFollowsSweep ==
    [](faults = 0 /\ crashes = 0 /\ \A t \in Handler : task[t] = Idle) => MirrorFollows

\* A record that is over stays so: the sweep works on "every still-open/locked
\* pool" (worker.ts), and a record that leaves its terminal status is never
\* settled again, for its pool is terminal on the chain.
\* The code does not keep this: README, "Where the code and its documents disagree".
RecordIsFinal ==
    [][\A p \in Pool : record[p].status \in Settled =>
            record'[p].status = record[p].status]_vars

\* "Unpaid picks don't count when the pool settles" (the app's pool page): only
\* a pick with an entry on the chain wins.
\* The code does not keep this: README, "Where the code and its documents disagree".
OnlyPaidPicksWin ==
    \A p \in Pool, m \in Member :
        pick[p][m].status = "won" => m \in Chain!Entrants(p)

\* "Abandoned matches cancel" (TECHNICAL-DOC.md): the pool of an abandoned match
\* pays no winners.
AbandonedNeverPays ==
    \A p \in Pool : match[FixtureOf[p]].phase = "abandoned" =>
        pool[p].status # "Resolved"

=============================================================================
