-------------------------- MODULE SettlementProofs --------------------------
(***************************************************************************)
(* Proofs about the settlement worker: what its tasks have read is still   *)
(* so when they use it, whatever runs in between; every step it takes on   *)
(* the chain is audited; and the mirror never tells members something that *)
(* the chain does not.                                                     *)
(***************************************************************************)
EXTENDS Settlement, MirroredChainProofs

-----------------------------------------------------------------------------
(* Types of what the worker sends *)

LEMMA MatchTypes ==
    ASSUME TypeOK, NEW f \in Fixture
    PROVE  /\ match[f] \in Match
           /\ match[f].phase \in {"pending", "finished", "abandoned"}
           /\ match[f].score \in Score \cup {None}
<1>1. match[f] \in Match
  BY DEF TypeOK
<1> QED
  BY <1>1 DEF Match

LEMMA TaskTypes ==
    ASSUME TypeOK, NEW t \in Task
    PROVE  /\ task[t] \in TaskState
           /\ task[t].pc \in TaskPc /\ task[t].toCancel \subseteq Pool
           /\ task[t].toSettle \subseteq Pool /\ task[t].toLock \subseteq Pool
           /\ task[t].winners \in Nat /\ task[t].share \in Nat
           /\ task[t].pc \in BetweenPools => task[t].pool = None
           /\ task[t].pc \notin BetweenPools => task[t].pool \in Pool
<1>1. task[t] \in TaskState
  BY DEF TypeOK
<1>2. task[t].pool = None <=> task[t].pc \in BetweenPools
  BY DEF TypeOK
<1> QED
  BY <1>1, <1>2 DEF TaskState

LEMMA OutcomeType ==
    ASSUME TypeOK, NEW p \in Pool, FeedSaysFinished(FixtureOf[p])
    PROVE  Outcome(p) \in OutcomeArg
<1>1. FixtureOf[p] \in Fixture
  BY SettlementTypes
<1>2. match[FixtureOf[p]].score \in Score
  BY <1>1, MatchTypes DEF FeedSaysFinished
<1> QED
  BY <1>2, SettlementTypes DEF Outcome

LEMMA TxTypes ==
    ASSUME NEW tx \in Tx
    PROVE  /\ tx.kind \in {"lock", "cancel", "resolve"} /\ tx.pool \in Pool
           /\ tx.kind = "resolve" => /\ tx.outcome \in OutcomeArg /\ tx.winners \in Nat
                                     /\ tx.treasury \in Treasury
BY DEF Tx

\* An existing pool implies a config, hence a treasury to use.
LEMMA TreasuryType ==
    ASSUME TypeOK, config # Chain!NoConfig
    PROVE  TreasuryToUse \in Treasury
<1>1. config.treasury \in Treasury
  <2>1. config \in Chain!Config
    BY DEF TypeOK, Chain!TypeOK
  <2> QED
    BY <2>1 DEF Chain!Config
<1> QED
  BY <1>1 DEF TreasuryToUse, TypeOK

\* The transactions of a task, and what holds of them.
LEMMA TaskTx ==
    ASSUME IInv, NEW t \in Task
    PROVE  /\ task[t].pc = "lock" =>
                LockTx(task[t].pool) \in Tx /\ TxHolds(LockTx(task[t].pool))
           /\ task[t].pc = "resolve" =>
                LET tx == ResolveTx(task[t].pool, Outcome(task[t].pool), task[t].winners,
                                    TreasuryToUse)
                IN  tx \in Tx /\ TxHolds(tx) /\ TreasuryToUse \in Treasury
           /\ \A p \in Pool : CancelTx(p) \in Tx /\ TxHolds(CancelTx(p))
<1>0. TypeOK /\ TaskHolds(t) /\ \A p \in Pool : MirrorBehind(p)
  BY DEF IInv, JointInv, MirrorOf
<1>1. ASSUME task[t].pc = "lock"
      PROVE  LockTx(task[t].pool) \in Tx /\ TxHolds(LockTx(task[t].pool))
  <2>1. task[t].pool \in Pool
    BY <1>0, <1>1, TaskTypes DEF BetweenPools
  <2> QED
    BY <2>1 DEF LockTx, Tx, TxHolds
<1>2. ASSUME NEW p \in Pool PROVE CancelTx(p) \in Tx /\ TxHolds(CancelTx(p))
  BY DEF CancelTx, Tx, TxHolds
<1>3. ASSUME task[t].pc = "resolve"
      PROVE  LET tx == ResolveTx(task[t].pool, Outcome(task[t].pool), task[t].winners,
                                 TreasuryToUse)
             IN  tx \in Tx /\ TxHolds(tx) /\ TreasuryToUse \in Treasury
  <2> DEFINE p == task[t].pool
             n == task[t].winners
             tx == ResolveTx(p, Outcome(p), n, TreasuryToUse)
  <2>1. p \in Pool /\ n \in Nat /\ CountHolds(p, Outcome(p), n)
    BY <1>0, <1>3, TaskTypes DEF BetweenPools, TaskHolds, ReadHolds
  <2>2. Outcome(p) \in OutcomeArg
    BY <1>0, <2>1, OutcomeType DEF CountHolds
  <2>3. TreasuryToUse \in Treasury
    <3>1. pool[p] # Chain!NoPool
      BY <2>1 DEF CountHolds, PastLock, Chain!NoPool
    <3> QED
      BY <1>0, <2>1, <3>1, TreasuryType DEF MirrorBehind
  <2>4. tx \in Tx
    BY <2>1, <2>2, <2>3 DEF ResolveTx, Tx
  <2>5. /\ tx.pool = p /\ tx.outcome = Outcome(p) /\ tx.winners = n
    BY DEF ResolveTx
  <2>6. TxHolds(tx)
    BY <2>1, <2>5 DEF TxHolds
  <2> QED
    BY <2>3, <2>4, <2>6
<1> QED
  BY <1>1, <1>2, <1>3

-----------------------------------------------------------------------------
(* Every step on the chain is audited *)

LEMMA ServerSigns == ServerKey \in Chain!Signer /\ Admin \in Key /\ ServerKey \in Key
BY SettlementTypes DEF Chain!Signer

LEMMA ExecuteIsAudited ==
    ASSUME NEW tx \in Tx, TxHolds(tx), Execute(tx)
    PROVE  Chain!AuditedNext
<1>1. tx.pool \in Pool
  BY TxTypes
<1>2. CASE tx.kind = "lock" /\ Chain!LockPool(ServerKey, tx.pool)
  BY <1>1, <1>2, ServerSigns DEF Chain!AuditedNext, Chain!PoolNext
<1>3. CASE tx.kind = "cancel" /\ Chain!CancelPool(ServerKey, tx.pool)
  BY <1>1, <1>3, ServerSigns DEF Chain!AuditedNext, Chain!PoolNext
<1>4. CASE /\ tx.kind = "resolve"
           /\ Chain!ResolvePool(ServerKey, tx.pool, tx.outcome, tx.winners, tx.treasury)
  <2>1. tx.winners = Chain!AuditedCount(tx.pool, tx.outcome)
    BY <1>4 DEF TxHolds, CountHolds
  <2>2. tx.outcome \in OutcomeArg /\ tx.treasury \in Treasury
    BY <1>4, TxTypes
  <2>3. Chain!AuditedResolve(tx.pool)
    BY <1>4, <2>1, <2>2, ServerSigns DEF Chain!AuditedResolve
  <2> QED
    BY <1>1, <2>3 DEF Chain!AuditedNext
<1> QED
  BY <1>2, <1>3, <1>4 DEF Execute

LEMMA OperatorIsAudited ==
    ASSUME NEW treasury \in Treasury, Deploy(treasury) \/ RotateTreasury(treasury)
    PROVE  Chain!AuditedNext
BY ServerSigns DEF Deploy, RotateTreasury, Chain!AuditedNext, Chain!ConfigNext

LEMMA AppIsAudited ==
    ASSUME TypeOK, NEW p \in Pool, AppNext(p)
    PROVE  [AuditedStep]_chainVars
<1>1. ASSUME NEW m \in Member, SignEnter(m, p) \/ SignClaim(m, p)
      PROVE  Chain!AuditedNext
  <2>1. pick[p][m] # NoPick => pick[p][m].prediction \in OutcomeArg
    BY MemberTypes DEF TypeOK
  <2> QED
    BY <1>1, <2>1 DEF SignEnter, SignClaim, Chain!AuditedNext, Chain!PoolNext
<1>2. CASE SignCreate(p)
  <2>1. record[p].hostWallet \in Member /\ record[p].terms \in Terms
    BY <1>2, MemberTypes DEF TypeOK, SignCreate
  <2> QED
    BY <1>2, <2>1 DEF SignCreate, AuditedStep, Chain!AuditedNext, Chain!PoolNext
<1>3. CASE HostCancels(p)
  <2>1. pool[p].authority \in Member
    <3>1. pool[p] \in Chain!PoolAccount
      BY <1>3 DEF HostCancels, TypeOK, Chain!TypeOK
    <3> QED
      BY <3>1 DEF Chain!PoolAccount
  <2> QED
    BY <1>3, <2>1
    DEF HostCancels, AuditedStep, Chain!AuditedNext, Chain!PoolNext, Chain!Signer
<1>4. CASE SignCreateWithEntry(p)
  BY <1>4 DEF SignCreateWithEntry, AuditedStep
<1>5. CASE \/ ReportCreate(p)
           \/ \E m \in Member, terms \in Terms : HostPool(m, p, terms)
           \/ \E m \in Member, x \in OutcomeArg : JoinPool(m, p, x)
           \/ \E m \in Member : ReportEnter(m, p)
  BY <1>5 DEF ReportCreate, HostPool, JoinPool, ReportEnter
<1> QED
  BY <1>1, <1>2, <1>3, <1>4, <1>5 DEF AppNext, AuditedStep

LEMMA TaskIsAudited ==
    ASSUME IInv, NEW t \in Task, TaskStep(t)
    PROVE  Chain!AuditedNext \/ UNCHANGED chainVars
<1>1. CASE EndTask(t) \/ CountWinners(t) \/ FetchShare(t) \/ Mark(t)
  BY <1>1 DEF EndTask, CountWinners, FetchShare, Mark, ReadStep, LocalStep
<1>2. CASE SendLock(t)
  BY <1>2, TaskTx, ExecuteIsAudited DEF SendLock, Rpc
<1>3. CASE SendResolve(t)
  BY <1>3, TaskTx, ExecuteIsAudited DEF SendResolve, Rpc
<1>4. ASSUME NEW p \in Pool, SendCancel(t, p)
      PROVE  Chain!AuditedNext \/ UNCHANGED chainVars
  BY <1>4, ServerSigns DEF SendCancel, Chain!AuditedNext, Chain!PoolNext
<1>5. ASSUME NEW p \in Pool, FetchStatus(t, p) PROVE UNCHANGED chainVars
  BY <1>5 DEF FetchStatus, ReadStep
<1> QED
  BY <1>1, <1>2, <1>3, <1>4, <1>5 DEF TaskStep

LEMMA StepIsAudited == IInv /\ [Next]_vars => [AuditedStep]_chainVars
<1> SUFFICES ASSUME IInv, [Next]_vars PROVE [AuditedStep]_chainVars
  OBVIOUS
<1>0. TypeOK /\ inflight \subseteq Tx /\ \A tx \in inflight : TxHolds(tx)
  BY DEF IInv, TypeOK
<1>1. CASE OperatorNext
  BY <1>1, OperatorIsAudited DEF OperatorNext, AuditedStep
<1>2. CASE \E p \in Pool : AppNext(p)
  BY <1>0, <1>2, AppIsAudited
<1>3. CASE WorldNext
  BY <1>3 DEF WorldNext, Tick, MatchEnds, EndMatch, AuditedStep, Chain!AuditedNext
<1>4. CASE SweepStep
  BY <1>4, TaskIsAudited
  DEF SweepStep, StartSweep, FetchFixtures, LockLate, ReadStep, LocalStep, Task, AuditedStep
<1>5. CASE \E t \in Handler : TaskStep(t) \/ \E f \in Fixture : StartHandler(t, f)
  BY <1>5, TaskIsAudited DEF StartHandler, ReadStep, Task, AuditedStep
<1>6. CASE FailureNext
  <2>1. ASSUME NEW tx \in inflight, LandLate(tx) PROVE Chain!AuditedNext
    BY <1>0, <2>1, ExecuteIsAudited DEF LandLate
  <2> QED
    BY <1>6, <2>1 DEF FailureNext, Expire, ReadFails, Crash, AuditedStep
<1>7. CASE UNCHANGED vars
  BY <1>7 DEF vars, chainVars
<1> QED
  BY <1>1, <1>2, <1>3, <1>4, <1>5, <1>6, <1>7 DEF Next

-----------------------------------------------------------------------------
(* What is new on the chain after a step *)

\* A new result is that of its match.
NewsHolds(p) ==
    /\ News(p)
    /\ pool'[p].status \in {"Resolved", "Voided"} =>
        \/ pool'[p] = pool[p]
        \/ /\ FeedSaysFinished(FixtureOf[p])
           /\ pool'[p].winning_outcome = Outcome(p)

LEMMA QuietNews ==
    ASSUME NEW p, News(p), NoResult(p)
    PROVE  NewsHolds(p)
BY DEF NewsHolds, NoResult

LEMMA NothingNew ==
    ASSUME NEW p, pool'[p] = pool[p], entry'[p] = entry[p]
    PROVE  NewsHolds(p)
BY NoNews, QuietNews

LEMMA ExecuteNews ==
    ASSUME Chain!TypeOK, NEW tx \in Tx, TxHolds(tx), Execute(tx), NEW p \in Pool
    PROVE  NewsHolds(p)
<1>0. tx.pool \in Pool
  BY TxTypes
<1>1. CASE Chain!LockPool(ServerKey, tx.pool) \/ Chain!CancelPool(ServerKey, tx.pool)
  BY <1>0, <1>1, LockOrCancelNews, QuietNews
<1>2. CASE /\ tx.kind = "resolve"
           /\ Chain!ResolvePool(ServerKey, tx.pool, tx.outcome, tx.winners, tx.treasury)
  <2>1. /\ News(p)
        /\ p # tx.pool => NoResult(p)
        /\ p = tx.pool => pool'[p].winning_outcome = tx.outcome
    BY <1>0, <1>2, ResolveNews
  <2>2. p = tx.pool => FeedSaysFinished(FixtureOf[p]) /\ tx.outcome = Outcome(p)
    BY <1>2 DEF TxHolds, CountHolds
  <2> QED
    BY <2>1, <2>2 DEF NewsHolds, NoResult
<1> QED
  BY <1>1, <1>2 DEF Execute

LEMMA TaskNews ==
    ASSUME IInv, NEW t \in Task, TaskStep(t), NEW p \in Pool
    PROVE  NewsHolds(p)
<1>0. Chain!TypeOK
  BY DEF IInv, JointInv, TypeOK
<1>1. CASE UNCHANGED chainVars
  BY <1>1, NothingNew DEF chainVars
<1>2. CASE EndTask(t) \/ CountWinners(t) \/ FetchShare(t) \/ Mark(t)
  BY <1>1, <1>2 DEF EndTask, CountWinners, FetchShare, Mark, ReadStep, LocalStep
<1>3. CASE SendLock(t)
  BY <1>0, <1>1, <1>3, TaskTx, ExecuteNews DEF SendLock, Rpc
<1>4. CASE SendResolve(t)
  BY <1>0, <1>1, <1>4, TaskTx, ExecuteNews DEF SendResolve, Rpc
<1>5. ASSUME NEW q \in Pool, SendCancel(t, q) PROVE NewsHolds(p)
  BY <1>0, <1>1, <1>5, LockOrCancelNews, QuietNews DEF SendCancel
<1>6. ASSUME NEW q \in Pool, FetchStatus(t, q) PROVE UNCHANGED chainVars
  BY <1>6 DEF FetchStatus, ReadStep
<1> QED
  BY <1>1, <1>2, <1>3, <1>4, <1>5, <1>6 DEF TaskStep

LEMMA NewsStep ==
    ASSUME IInv, [Next]_vars, NEW p \in Pool
    PROVE  NewsHolds(p)
<1>0. /\ TypeOK /\ Chain!TypeOK /\ Chain!IInv
      /\ inflight \subseteq Tx /\ \A tx \in inflight : TxHolds(tx)
  BY DEF IInv, JointInv, TypeOK
<1>1. CASE UNCHANGED <<pool, entry>>
  BY <1>1, NothingNew
<1>2. CASE OperatorNext
  BY <1>1, <1>2 DEF OperatorNext, Deploy, RotateTreasury, Chain!InitializeConfig,
     Chain!UpdateConfig
<1>3. ASSUME NEW q \in Pool, AppNext(q) PROVE NewsHolds(p)
  <2>1. ASSUME NEW m \in Member, SignEnter(m, q) \/ SignClaim(m, q) PROVE NewsHolds(p)
    BY <1>0, <2>1, EnterNews, ClaimNews, QuietNews DEF SignEnter, SignClaim
  <2>2. CASE SignCreate(q) \/ SignCreateWithEntry(q)
    BY <1>0, <2>2, CreateNews, BundleNews, QuietNews
    DEF SignCreate, SignCreateWithEntry, TypeOK
  <2>3. CASE HostCancels(q)
    BY <1>0, <2>3, LockOrCancelNews, QuietNews DEF HostCancels
  <2>4. CASE \/ ReportCreate(q)
             \/ \E m \in Member, terms \in Terms : HostPool(m, q, terms)
             \/ \E m \in Member, x \in OutcomeArg : JoinPool(m, q, x)
             \/ \E m \in Member : ReportEnter(m, q)
    BY <1>1, <2>4 DEF ReportCreate, HostPool, JoinPool, ReportEnter, chainVars
  <2> QED
    BY <1>3, <2>1, <2>2, <2>3, <2>4 DEF AppNext
<1>4. CASE WorldNext
  BY <1>1, <1>4 DEF WorldNext, Tick, MatchEnds, EndMatch, Chain!Tick, chainVars
<1>5. CASE SweepStep
  BY <1>1, <1>5, TaskNews
  DEF SweepStep, StartSweep, FetchFixtures, LockLate, ReadStep, LocalStep, Task, chainVars
<1>6. CASE \E t \in Handler : TaskStep(t) \/ \E f \in Fixture : StartHandler(t, f)
  BY <1>1, <1>6, TaskNews DEF StartHandler, ReadStep, Task, chainVars
<1>7. CASE FailureNext
  <2>1. ASSUME NEW tx \in inflight, LandLate(tx) PROVE NewsHolds(p)
    BY <1>0, <2>1, ExecuteNews DEF LandLate
  <2> QED
    BY <1>1, <1>7, <2>1 DEF FailureNext, Expire, ReadFails, Crash, chainVars
<1>8. CASE UNCHANGED vars
  BY <1>1, <1>8 DEF vars, chainVars
<1> QED
  BY <1>2, <1>3, <1>4, <1>5, <1>6, <1>7, <1>8 DEF Next

-----------------------------------------------------------------------------
(* The operations on the mirror *)

LEMMA MirrorNow == IInv => TypeOK /\ MirrorTypes /\ \A p \in Pool : MirrorOf(p)
BY DEF IInv, JointInv

LEMMA AppMirror ==
    ASSUME IInv, NEW p \in Pool,
           \/ \E m \in Member, terms \in Terms : HostPool(m, p, terms)
           \/ \E m \in Member, x \in OutcomeArg : JoinPool(m, p, x)
           \/ ReportCreate(p)
           \/ \E m \in Member : ReportEnter(m, p)
    PROVE  MirrorStays
<1>1. ASSUME NEW m \in Member, NEW terms \in Terms, HostPool(m, p, terms)
      PROVE  MirrorStays
  <2>1. /\ record[p] = NoRecord /\ pick' = pick /\ UNCHANGED chainVars
        /\ record' = [record EXCEPT ![p] = NewRecord(m, terms)]
    BY <1>1 DEF HostPool, CreateRecord
  <2> QED
    BY <2>1, MirrorNow, CreateRecordMirror
<1>2. ASSUME NEW m \in Member, NEW x \in OutcomeArg, JoinPool(m, p, x)
      PROVE  MirrorStays
  BY <1>2, MirrorNow, CreateEntryMirror DEF JoinPool
<1>3. CASE ReportCreate(p)
  BY <1>3, MirrorNow, RecordCreateMirror DEF ReportCreate
<1>4. ASSUME NEW m \in Member, ReportEnter(m, p)
      PROVE  MirrorStays
  BY <1>4, MirrorNow, RecordEnterMirror DEF ReportEnter
<1> QED
  BY <1>1, <1>2, <1>3, <1>4

\* The late lock of the sweep
LEMMA LockLateMirror ==
    ASSUME IInv, NEW p \in Pool, LockLate(p)
    PROVE  MirrorStays
<1>1. record[p] # NoRecord /\ UNCHANGED chainVars
  <2>1. TaskHolds(Sweep) /\ p \in task[Sweep].toLock
    BY DEF IInv, LockLate, Task
  <2> QED
    BY <2>1 DEF TaskHolds, ReadHolds, LockLate, LocalStep
<1>2. CASE UNCHANGED mirrorVars
  <2>1. \A q \in Pool : MirrorOf(q)'
    BY <1>1, <1>2, MirrorNow, MirrorUntouched DEF mirrorVars
  <2> QED
    BY <1>2, <2>1, MirrorNow DEF mirrorVars, MirrorStays, MirrorTypes, RecordsKept
<1>3. CASE MarkLocked(p)
  BY <1>1, <1>3, MirrorNow, MarkLockedMirror
<1> QED
  BY <1>2, <1>3 DEF LockLate

\* What is known of the pool whose result is copied.
LEMMA MarkedPool ==
    ASSUME IInv, NEW t \in Task, Mark(t)
    PROVE  /\ TypeOK /\ TaskHolds(t) /\ UNCHANGED chainVars
           /\ \A q \in Pool : MirrorOf(q)
           /\ task[t].pool \in Pool
           /\ record[task[t].pool] \in Record(Terms, OutcomeArg)
           /\ pool[task[t].pool].share_amount \in Nat
           /\ pool[task[t].pool].winner_count \in Nat
<1>0. /\ TypeOK /\ Chain!TypeOK /\ TaskHolds(t) /\ UNCHANGED chainVars
      /\ \A q \in Pool : MirrorOf(q)
  BY MirrorNow DEF TypeOK, IInv, Mark, LocalStep
<1>1. task[t].pc \in {"resolved", "voided", "cancelled"}
  BY DEF Mark
<1>2. task[t].pool \in Pool
  BY <1>0, <1>1, TaskTypes DEF BetweenPools
<1>3. pool[task[t].pool].status \in Chain!Terminal
  BY <1>0, <1>1 DEF TaskHolds, ReadHolds, Chain!Terminal
<1>4. pool[task[t].pool] # Chain!NoPool
  BY <1>3 DEF Chain!Terminal, Chain!NoPool
<1>5. record[task[t].pool] # NoRecord
  BY <1>0, <1>2, <1>4 DEF MirrorOf, MirrorBehind
<1> QED
  BY <1>0, <1>2, <1>4, <1>5, PresentAccount DEF TypeOK, MirrorTypes

\* The result a task copies into the mirror is the one on the chain.
LEMMA MarkMirror ==
    ASSUME IInv, NEW t \in Task, Mark(t)
    PROVE  MirrorStays
<1>0. /\ TypeOK /\ TaskHolds(t) /\ UNCHANGED chainVars
      /\ \A q \in Pool : MirrorOf(q)
      /\ task[t].pool \in Pool
      /\ record[task[t].pool] \in Record(Terms, OutcomeArg)
      /\ task[t].winners \in Nat /\ task[t].share \in Nat
  BY MarkedPool, TaskTypes
<1>1. CASE task[t].pc = "resolved"
  <2>1. Outcome(task[t].pool) \in OutcomeArg
    BY <1>0, <1>1, OutcomeType DEF TaskHolds, ReadHolds
  <2> QED
    BY <1>0, <1>1, <2>1, MirrorNow, MarkResolvedMirror DEF Mark, TaskHolds, ReadHolds
<1>2. CASE task[t].pc = "voided"
  <2>1. Outcome(task[t].pool) \in OutcomeArg
    BY <1>0, <1>2, OutcomeType DEF TaskHolds, ReadHolds
  <2> QED
    BY <1>0, <1>2, <2>1, MirrorNow, MarkRefundMirror DEF Mark, TaskHolds, ReadHolds
<1>3. CASE task[t].pc = "cancelled"
  BY <1>0, <1>3, MirrorNow, MarkRefundMirror DEF Mark, TaskHolds, ReadHolds
<1> QED
  BY <1>1, <1>2, <1>3 DEF Mark

-----------------------------------------------------------------------------
(* One step *)

\* What every step leaves of what was read before it.
Frame ==
    /\ \A p \in Pool : ChainKeeps(p)
    /\ RecordsKept
    /\ \A f \in Fixture : FeedSaysFinished(f) => match'[f] = match[f]

LEMMA ChainStep ==
    ASSUME IInv, [Next]_vars
    PROVE  /\ Chain!IInv' /\ Chain!TypeOK' /\ Chain!WinnersCovered'
           /\ \A p \in Pool : ChainKeeps(p) /\ NewsHolds(p)
<1>1. /\ Chain!IInv' /\ Chain!WinnersCovered'
      /\ \A p \in Pool : ChainKeeps(p)
  BY StepIsAudited, DeploymentStep DEF IInv, JointInv
<1>2. Chain!TypeOK'
  BY <1>1 DEF Chain!IInv
<1> QED
  BY <1>1, <1>2, NewsStep

LEMMA MirrorStep ==
    ASSUME IInv, [Next]_vars
    PROVE  MirrorStays
<1>1. CASE UNCHANGED mirrorVars
  <2>1. \A p \in Pool : News(p) /\ ChainKeeps(p)
    BY ChainStep DEF NewsHolds
  <2> QED
    BY <1>1, <2>1, MirrorNow, MirrorUnwritten
<1>2. CASE OperatorNext \/ WorldNext \/ FailureNext \/ UNCHANGED vars
  BY <1>1, <1>2
  DEF OperatorNext, Deploy, RotateTreasury, WorldNext, Tick, MatchEnds, EndMatch,
      FailureNext, LandLate, Expire, ReadFails, Crash, vars, mirrorVars
<1>3. ASSUME NEW p \in Pool, AppNext(p)
      PROVE  MirrorStays
  <2>1. CASE \/ SignCreate(p) \/ SignCreateWithEntry(p) \/ HostCancels(p)
             \/ \E m \in Member : SignEnter(m, p) \/ SignClaim(m, p)
    BY <1>1, <2>1
    DEF SignCreate, SignCreateWithEntry, HostCancels, SignEnter, SignClaim, mirrorVars
  <2>2. CASE \/ \E m \in Member, terms \in Terms : HostPool(m, p, terms)
             \/ \E m \in Member, x \in OutcomeArg : JoinPool(m, p, x)
             \/ ReportCreate(p)
             \/ \E m \in Member : ReportEnter(m, p)
    BY <2>2, AppMirror
  <2> QED
    BY <1>3, <2>1, <2>2 DEF AppNext
<1>4. ASSUME NEW t \in Task, TaskStep(t)
      PROVE  MirrorStays
  <2>1. CASE Mark(t)
    BY <2>1, MarkMirror
  <2>2. CASE \/ EndTask(t) \/ CountWinners(t) \/ FetchShare(t)
             \/ SendLock(t) \/ SendResolve(t)
             \/ \E p \in Pool : FetchStatus(t, p) \/ SendCancel(t, p)
    BY <1>1, <2>2
    DEF EndTask, CountWinners, FetchShare, SendLock, SendResolve, FetchStatus, SendCancel,
        ReadStep, mirrorVars
  <2> QED
    BY <1>4, <2>1, <2>2 DEF TaskStep
<1>5. CASE SweepStep
  BY <1>1, <1>4, <1>5, LockLateMirror
  DEF SweepStep, StartSweep, FetchFixtures, ReadStep, mirrorVars, Task
<1>6. CASE \E t \in Handler : TaskStep(t) \/ \E f \in Fixture : StartHandler(t, f)
  BY <1>1, <1>4, <1>6 DEF StartHandler, ReadStep, mirrorVars, Task
<1> QED
  BY <1>2, <1>3, <1>5, <1>6 DEF Next

LEMMA MatchStep ==
    ASSUME IInv, [Next]_vars
    PROVE  /\ match' \in [Fixture -> Match] /\ MatchesHold'
           /\ \A f \in Fixture : FeedSaysFinished(f) => match'[f] = match[f]
<1>0. match \in [Fixture -> Match] /\ MatchesHold
  BY DEF IInv, TypeOK
<1>1. CASE match' = match
  BY <1>0, <1>1 DEF MatchesHold
<1>2. ASSUME NEW f \in Fixture, NEW phase \in {"finished", "abandoned"},
             NEW s \in Score \cup {None}, phase = "finished" => s # None,
             EndMatch(f, phase, s)
      PROVE  /\ match' \in [Fixture -> Match] /\ MatchesHold'
             /\ \A g \in Fixture : FeedSaysFinished(g) => match'[g] = match[g]
  <2>1. /\ match[f].phase = "pending"
        /\ match' = [match EXCEPT ![f] = [phase |-> phase, score |-> s]]
    BY <1>2 DEF EndMatch
  <2>2. [phase |-> phase, score |-> s] \in Match
    BY DEF Match
  <2> QED
    BY <1>0, <1>2, <2>1, <2>2 DEF MatchesHold, FeedSaysFinished
<1>3. CASE \E f \in Fixture : MatchEnds(f)
  <2>1. None \notin Score
    BY SettlementTypes
  <2> QED
    BY <1>2, <1>3, <2>1 DEF MatchEnds
<1>4. CASE OperatorNext \/ Tick \/ FailureNext \/ UNCHANGED vars
  BY <1>1, <1>4
  DEF OperatorNext, Deploy, RotateTreasury, Tick, FailureNext, LandLate, Expire, ReadFails,
      Crash, vars
<1>5. CASE \E p \in Pool : AppNext(p)
  BY <1>1, <1>5
  DEF AppNext, HostPool, JoinPool, SignCreate, SignCreateWithEntry, ReportCreate, HostCancels,
      SignEnter, ReportEnter, SignClaim
<1>6. ASSUME NEW t \in Task, TaskStep(t) PROVE match' = match
  BY <1>6
  DEF TaskStep, EndTask, CountWinners, FetchShare, SendLock, SendResolve, Mark, FetchStatus,
      SendCancel, ReadStep, LocalStep
<1>7. CASE SweepStep
  BY <1>1, <1>6, <1>7
  DEF SweepStep, StartSweep, FetchFixtures, LockLate, ReadStep, LocalStep, Task
<1>8. CASE \E t \in Handler : TaskStep(t) \/ \E f \in Fixture : StartHandler(t, f)
  BY <1>1, <1>6, <1>8 DEF StartHandler, ReadStep, Task
<1> QED
  BY <1>3, <1>4, <1>5, <1>7, <1>8 DEF Next, WorldNext

LEMMA FrameStep == ASSUME IInv, [Next]_vars PROVE Frame
BY ChainStep, MirrorStep, MatchStep DEF Frame, MirrorStays

\* A finished match stays what it is, and so does what it means for a pool.
LEMMA FeedKept ==
    ASSUME Frame, NEW p \in Pool, FeedSaysFinished(FixtureOf[p])
    PROVE  FeedSaysFinished(FixtureOf[p])' /\ Outcome(p)' = Outcome(p)
<1>1. FixtureOf[p] \in Fixture
  BY SettlementTypes
<1>2. match'[FixtureOf[p]] = match[FixtureOf[p]]
  BY <1>1 DEF Frame
<1> QED
  BY <1>2 DEF FeedSaysFinished, Outcome

\* A result that is new is that of the match; an old one is not rewritten.
LEMMA ResultsStep ==
    ASSUME IInv, [Next]_vars
    PROVE  ResultsAreReal'
<1> SUFFICES ASSUME NEW p \in Pool, pool'[p].status \in {"Resolved", "Voided"}
             PROVE  /\ FeedSaysFinished(FixtureOf[p])'
                    /\ pool'[p].winning_outcome = Outcome(p)'
  BY DEF ResultsAreReal, Outcome
<1>1. /\ FeedSaysFinished(FixtureOf[p])
      /\ pool'[p].winning_outcome = Outcome(p)
  <2>1. CASE pool'[p] = pool[p]
    BY <2>1 DEF IInv, ResultsAreReal, Outcome
  <2>2. CASE pool'[p] # pool[p]
    BY <2>2, NewsStep DEF NewsHolds
  <2> QED
    BY <2>1, <2>2
<1> QED
  BY <1>1, FrameStep, FeedKept

-----------------------------------------------------------------------------
(* What a task has read stays so *)

LEMMA CountHoldsKept ==
    ASSUME Frame, NEW p \in Pool, NEW w, NEW n, CountHolds(p, w, n)
    PROVE  CountHolds(p, w, n)'
<1>1. FeedSaysFinished(FixtureOf[p]) /\ PastLock(p) /\ w = Outcome(p)
      /\ n = Chain!AuditedCount(p, w)
  BY DEF CountHolds
<1>2. PastLock(p)' /\ Chain!AuditedCount(p, w)' = Chain!AuditedCount(p, w)
  BY <1>1 DEF Frame, ChainKeeps, ProgressKept
<1>3. FeedSaysFinished(FixtureOf[p])' /\ Outcome(p)' = Outcome(p)
  BY <1>1, FeedKept
<1> QED
  BY <1>1, <1>2, <1>3 DEF CountHolds

LEMMA TxHoldsKept ==
    ASSUME Frame, NEW tx \in Tx, TxHolds(tx)
    PROVE  TxHolds(tx)'
BY TxTypes, CountHoldsKept DEF TxHolds

\* A state of a task that may be: its type, and what holds of it.
GoodTask(s) ==
    /\ s \in TaskState
    /\ s.pool = None <=> s.pc \in BetweenPools
    /\ ReadHolds(s)

LEMMA AllGood ==
    (\A t \in Task : GoodTask(task[t])) <=>
        /\ \A t \in Task : task[t] \in TaskState
        /\ \A t \in Task : task[t].pool = None <=> task[t].pc \in BetweenPools
        /\ \A t \in Task : TaskHolds(t)
BY DEF GoodTask, TaskHolds

LEMMA StateTypes ==
    ASSUME NEW s, GoodTask(s)
    PROVE  /\ s.pc \in TaskPc /\ s.toCancel \subseteq Pool
           /\ s.toSettle \subseteq Pool /\ s.toLock \subseteq Pool
           /\ s.winners \in Nat /\ s.share \in Nat
           /\ s.pc \notin BetweenPools => s.pool \in Pool
<1>1. s \in TaskState
  BY DEF GoodTask
<1> QED
  BY <1>1 DEF GoodTask, TaskState

LEMMA GoodTaskKept ==
    ASSUME Frame, NEW s, GoodTask(s)
    PROVE  GoodTask(s)'
<1>1. /\ s.toSettle \subseteq Pool /\ s.toLock \subseteq Pool
      /\ s.pc \notin BetweenPools => s.pool \in Pool
  BY StateTypes
<1>2. ReadHolds(s)
  BY DEF GoodTask
<1>3. \A q \in s.toSettle \cup s.toLock : record'[q] # NoRecord
  BY <1>1, <1>2 DEF ReadHolds, Frame, RecordsKept
<1>4. s.pc # "fixtures" => \A q \in s.toSettle : FeedSaysFinished(FixtureOf[q])'
  BY <1>1, <1>2, FeedKept DEF ReadHolds
<1>5. CASE s.pc \in BetweenPools
  BY <1>3, <1>4, <1>5 DEF ReadHolds, BetweenPools, GoodTask
<1>6. CASE s.pc \notin BetweenPools
  <2>1. s.pool \in Pool
    BY <1>1, <1>6
  <2>2. PICK p \in Pool : p = s.pool
    BY <2>1
  <2>3. ChainKeeps(p)
    BY DEF Frame
  <2>4. s.pc \in {"lock", "count", "resolve", "share", "resolved", "voided"} =>
            FeedSaysFinished(FixtureOf[p])' /\ Outcome(p)' = Outcome(p)
    BY <1>2, <2>2, FeedKept DEF ReadHolds
  <2>5. s.pc = "lock" => pool'[p] # Chain!NoPool
    BY <1>2, <2>2, <2>3 DEF ReadHolds, ChainKeeps, ProgressKept
  <2>6. s.pc = "count" => PastLock(p)'
    BY <1>2, <2>2, <2>3 DEF ReadHolds, ChainKeeps, ProgressKept
  <2>7. s.pc = "resolve" => CountHolds(p, Outcome(p), s.winners)'
    <3>1. PICK w : w = Outcome(p)
      OBVIOUS
    <3>2. s.pc = "resolve" => CountHolds(p, w, s.winners)
      BY <1>2, <2>2, <3>1 DEF ReadHolds
    <3>3. s.pc = "resolve" => CountHolds(p, w, s.winners)'
      BY <3>2, CountHoldsKept
    <3> QED
      BY <3>3 DEF CountHolds
  <2>8. pool[p].status \in Chain!Terminal => pool'[p] = pool[p]
    BY <2>3 DEF ChainKeeps
  <2>9. /\ s.pc \in {"share", "resolved"} =>
            /\ pool'[p].status = "Resolved"
            /\ pool'[p].winning_outcome = Outcome(p)'
            /\ pool'[p].winner_count = s.winners
        /\ s.pc = "resolved" => pool'[p].share_amount = s.share
        /\ s.pc = "voided" =>
            /\ pool'[p].status = "Voided"
            /\ pool'[p].winning_outcome = Outcome(p)'
            /\ pool'[p].winner_count = 0 /\ pool'[p].share_amount = 0
        /\ s.pc = "cancelled" => pool'[p].status = "Cancelled"
    BY <1>2, <2>2, <2>4, <2>8 DEF ReadHolds, Chain!Terminal
  <2> QED
    BY <1>3, <1>4, <2>2, <2>4, <2>5, <2>6, <2>7, <2>9 DEF ReadHolds, GoodTask
<1> QED
  BY <1>5, <1>6

\* A task between two pools holds its work lists and nothing else.
LEMMA RestIsGood ==
    ASSUME NEW r, GoodTask(r)', NEW s \in TaskState, s.pc = "work", s.pool = None,
           s.toSettle \subseteq r.toSettle, s.toLock \subseteq r.toLock,
           r.pc # "fixtures"
    PROVE  GoodTask(s)'
BY DEF GoodTask, ReadHolds, BetweenPools

LEMMA IdleIsGood == GoodTask(Idle) /\ GoodTask(Idle)'
<1>1. Idle \in TaskState /\ Idle.pool = None /\ Idle.pc = "idle"
      /\ Idle.toSettle = {} /\ Idle.toLock = {}
  BY DEF Idle, TaskState, TaskPc
<1> QED
  BY <1>1 DEF GoodTask, ReadHolds, BetweenPools

-----------------------------------------------------------------------------
(* What a step of a task makes of it *)

\* One task moved, to a state that is good in the next state.
Moved(t) == \E s : task' = [task EXCEPT ![t] = s] /\ GoodTask(s)'

LEMMA TaskIsGood ==
    ASSUME IInv, Frame, NEW t \in Task
    PROVE  GoodTask(task[t]) /\ \E r : r = task[t] /\ GoodTask(r) /\ GoodTask(r)'
<1>1. GoodTask(task[t])
  BY AllGood DEF IInv, TypeOK
<1>2. PICK r : r = task[t]
  OBVIOUS
<1>3. GoodTask(r)
  BY <1>1, <1>2
<1> QED
  BY <1>1, <1>2, <1>3, GoodTaskKept

LEMMA MovedIsGood ==
    ASSUME IInv, Frame, NEW t \in Task, Moved(t)
    PROVE  /\ task' \in [Task -> TaskState]
           /\ \A u \in Task : GoodTask(task[u])'
<1>1. PICK s : task' = [task EXCEPT ![t] = s] /\ GoodTask(s)'
  BY DEF Moved
<1>2. task \in [Task -> TaskState] /\ s \in TaskState
  BY <1>1 DEF IInv, TypeOK, GoodTask
<1>3. ASSUME NEW u \in Task PROVE GoodTask(task[u])'
  <2>1. CASE u = t
    <3>1. task'[u] = s
      BY <1>1, <1>2, <2>1
    <3> QED
      BY <1>1, <3>1 DEF GoodTask, ReadHolds, CountHolds
  <2>2. CASE u # t
    <3>1. task'[u] = task[u]
      BY <1>1, <1>2, <2>2
    <3>2. PICK r : r = task[u] /\ GoodTask(r)'
      BY TaskIsGood
    <3> QED
      BY <3>1, <3>2 DEF GoodTask, ReadHolds, CountHolds
  <2> QED
    BY <2>1, <2>2
<1> QED
  BY <1>1, <1>2, <1>3

LEMMA NoneMoved ==
    ASSUME IInv, Frame, task' = task
    PROVE  /\ task' \in [Task -> TaskState]
           /\ \A u \in Task : GoodTask(task[u])'
<1>1. ASSUME NEW u \in Task PROVE GoodTask(task[u])'
  <2>1. PICK r : r = task[u] /\ GoodTask(r)'
    BY TaskIsGood
  <2> QED
    BY <2>1 DEF GoodTask, ReadHolds, CountHolds
<1> QED
  BY <1>1 DEF IInv, TypeOK

\* A task back at its loop, with no more to settle or to lock than before.
LEMMA WorkMoved ==
    ASSUME IInv, Frame, NEW t \in Task, task[t].pc # "fixtures",
           NEW s \in TaskState, s.pc = "work", s.pool = None,
           s.toSettle \subseteq task[t].toSettle, s.toLock \subseteq task[t].toLock,
           task' = [task EXCEPT ![t] = s]
    PROVE  Moved(t)
<1>1. PICK r : r = task[t] /\ GoodTask(r)'
  BY TaskIsGood
<1>2. GoodTask(s)'
  BY <1>1, RestIsGood
<1> QED
  BY <1>2 DEF Moved

\* The pool is done, or given up: the loop goes on.
LEMMA NextPoolMoved ==
    ASSUME IInv, Frame, NEW t \in Task, task[t].pc # "fixtures",
           task' = [task EXCEPT ![t] = NextPool(t)]
    PROVE  Moved(t)
<1>1. PICK r : r = task[t] /\ GoodTask(r)
  BY TaskIsGood
<1>2. r \in TaskState
  BY <1>1 DEF GoodTask
<1>3. PICK s : s = [r EXCEPT !.pc = "work", !.pool = None, !.winners = 0, !.share = 0]
  OBVIOUS
<1>4. /\ s \in TaskState /\ s.pc = "work" /\ s.pool = None
      /\ s.toSettle = r.toSettle /\ s.toLock = r.toLock
  BY <1>2, <1>3 DEF TaskState, TaskPc
<1>5. task' = [task EXCEPT ![t] = s]
  BY <1>1, <1>3 DEF NextPool
<1> QED
  BY <1>1, <1>4, <1>5, WorkMoved

LEMMA IdleMoved ==
    ASSUME NEW t \in Task, task' = [task EXCEPT ![t] = Idle]
    PROVE  Moved(t)
BY IdleIsGood DEF Moved

\* A read: what is read now holds now.
LEMMA ReadMoved ==
    ASSUME Frame, NEW t \in Task, NEW s, GoodTask(s), task' = [task EXCEPT ![t] = s]
    PROVE  Moved(t)
BY GoodTaskKept DEF Moved

LEMMA CountType == ASSUME NEW p, NEW w PROVE Chain!AuditedCount(p, w) \in Nat
<1>1. Chain!Winners(p, w) \in SUBSET Member
  BY DEF Chain!Winners, Chain!Entrants
<1>2. IsFiniteSet(Member)
  BY ChainArguments, SameFiniteSet DEF Chain!ArgumentTypes
<1>3. Cardinality(Chain!Winners(p, w)) \in Nat
  BY <1>1, <1>2, FS_Subset, FS_CardinalityType
<1> QED
  BY <1>3, SameCardinality DEF Chain!AuditedCount

\* countWinners
LEMMA CountWinnersMoved ==
    ASSUME IInv, Frame, NEW t \in Task, CountWinners(t)
    PROVE  Moved(t)
<1>1. PICK r : r = task[t] /\ GoodTask(r)
  BY TaskIsGood
<1>2. r \in TaskState /\ r.pc = "count" /\ ReadHolds(r) /\ r.pool # None
  BY <1>1 DEF GoodTask, CountWinners, BetweenPools
<1>3. PICK n : n = Chain!AuditedCount(r.pool, Outcome(r.pool)) /\ n \in Nat
  BY CountType
<1>4. PICK s : s = [r EXCEPT !.winners = n, !.pc = "resolve"]
  OBVIOUS
<1>5. /\ s \in TaskState /\ s.pc = "resolve" /\ s.pool = r.pool /\ s.winners = n
      /\ s.toSettle = r.toSettle /\ s.toLock = r.toLock
  BY <1>2, <1>3, <1>4 DEF TaskState, TaskPc
<1>6. GoodTask(s)
  BY <1>2, <1>3, <1>5 DEF GoodTask, ReadHolds, CountHolds, BetweenPools
<1>7. task' = [task EXCEPT ![t] = s]
  BY <1>1, <1>3, <1>4 DEF CountWinners
<1> QED
  BY <1>6, <1>7, ReadMoved

\* The share of a resolved pool
LEMMA FetchShareMoved ==
    ASSUME IInv, Frame, NEW t \in Task, FetchShare(t)
    PROVE  Moved(t)
<1>1. PICK r : r = task[t] /\ GoodTask(r)
  BY TaskIsGood
<1>2. r \in TaskState /\ r.pc = "share" /\ ReadHolds(r) /\ r.pool # None /\ r.pool \in Pool
  BY <1>1, StateTypes DEF GoodTask, FetchShare, BetweenPools
<1>3. PICK n : n = pool[r.pool].share_amount /\ n \in Nat
  <2>1. pool[r.pool].status = "Resolved" /\ Chain!TypeOK
    BY <1>2 DEF ReadHolds, IInv, TypeOK
  <2> QED
    BY <1>2, <2>1, PresentAccount
<1>4. PICK s : s = [r EXCEPT !.share = n, !.pc = "resolved"]
  OBVIOUS
<1>5. /\ s \in TaskState /\ s.pc = "resolved" /\ s.pool = r.pool /\ s.winners = r.winners
      /\ s.share = n /\ s.toSettle = r.toSettle /\ s.toLock = r.toLock
  BY <1>2, <1>3, <1>4 DEF TaskState, TaskPc
<1>6. GoodTask(s)
  BY <1>2, <1>3, <1>5 DEF GoodTask, ReadHolds, BetweenPools
<1>7. task' = [task EXCEPT ![t] = s]
  BY <1>1, <1>3, <1>4 DEF FetchShare
<1> QED
  BY <1>6, <1>7, ReadMoved

\* PoolProgram.status
LEMMA FetchStatusMoved ==
    ASSUME IInv, Frame, NEW t \in Task, NEW p \in Pool, FetchStatus(t, p)
    PROVE  Moved(t)
<1>1. PICK r : r = task[t] /\ GoodTask(r)
  BY TaskIsGood
<1>2. r \in TaskState /\ r.pc = "work" /\ ReadHolds(r) /\ p \in r.toSettle
  BY <1>1 DEF GoodTask, FetchStatus
<1>3. PICK next : next = AfterStatus(pool[p].status)
  OBVIOUS
<1>4. PICK at : at = IF next = "work" THEN None ELSE p
  OBVIOUS
<1>5. /\ next \in {"lock", "count", "work"}
      /\ next = "lock" => pool[p].status = "Open"
      /\ next = "count" => pool[p].status = "Locked"
  BY <1>3 DEF AfterStatus
<1>6. PICK s : s = [r EXCEPT !.toSettle = r.toSettle \ {p}, !.pc = next, !.pool = at]
  OBVIOUS
<1>7. /\ s \in TaskState /\ s.pc = next /\ s.pool = at
      /\ s.toSettle = r.toSettle \ {p} /\ s.toLock = r.toLock
  <2>1. r.toSettle \ {p} \in SUBSET Pool /\ at \in Pool \cup {None} /\ next \in TaskPc
    BY <1>2, <1>4, <1>5 DEF TaskState, TaskPc
  <2> QED
    BY <1>2, <1>6, <2>1 DEF TaskState
<1>8. GoodTask(s)
  <2>1. None \notin Pool
    BY SettlementTypes
  <2>2. s.pool = None <=> s.pc \in BetweenPools
    BY <1>4, <1>5, <1>7, <2>1 DEF BetweenPools
  <2>3. next # "work" => FeedSaysFinished(FixtureOf[p])
    BY <1>2 DEF ReadHolds
  <2>4. next = "lock" => pool[p] # Chain!NoPool
    BY <1>5 DEF Chain!NoPool
  <2>5. next = "count" => PastLock(p)
    BY <1>5 DEF PastLock
  <2> QED
    BY <1>2, <1>4, <1>5, <1>7, <2>2, <2>3, <2>4, <2>5 DEF GoodTask, ReadHolds
<1>9. task' = [task EXCEPT ![t] = s]
  BY <1>1, <1>3, <1>4, <1>6 DEF FetchStatus
<1> QED
  BY <1>8, <1>9, ReadMoved

\* lock_pool was sent: the pool is locked, or the loop goes on.
LEMMA SendLockMoved ==
    ASSUME IInv, Frame, NEW t \in Task, SendLock(t)
    PROVE  Moved(t)
<1>1. PICK r : r = task[t] /\ GoodTask(r) /\ GoodTask(r)'
  BY TaskIsGood
<1>2. r \in TaskState /\ r.pc = "lock" /\ ReadHolds(r)' /\ r.pool # None /\ r.pool \in Pool
  BY <1>1, StateTypes DEF GoodTask, SendLock, BetweenPools
<1>3. CASE Execute(LockTx(r.pool)) /\ task' = [task EXCEPT ![t] = [task[t] EXCEPT !.pc = "count"]]
  <2>1. PICK p \in Pool : p = r.pool
    BY <1>2
  <2>2. Chain!LockPool(ServerKey, p)
    BY <1>3, <2>1 DEF Execute, LockTx
  <2>3. PastLock(p)'
    <3>1. pool[p] \in Chain!PoolAccount
      BY <2>2, PresentAccount DEF IInv, TypeOK, Chain!LockPool
    <3> QED
      BY <2>2, <3>1 DEF IInv, TypeOK, Chain!TypeOK, Chain!LockPool, Chain!PoolAccount, PastLock
  <2>4. PICK s : s = [r EXCEPT !.pc = "count"]
    OBVIOUS
  <2>5. /\ s \in TaskState /\ s.pc = "count" /\ s.pool = p
        /\ s.toSettle = r.toSettle /\ s.toLock = r.toLock
    BY <1>2, <2>1, <2>4 DEF TaskState, TaskPc
  <2>6. GoodTask(s)'
    BY <1>2, <2>1, <2>3, <2>5 DEF GoodTask, ReadHolds, BetweenPools
  <2> QED
    BY <1>1, <1>3, <2>4, <2>6 DEF Moved
<1>4. CASE task' = [task EXCEPT ![t] = NextPool(t)]
  BY <1>1, <1>2, <1>4, NextPoolMoved
<1> QED
  BY <1>1, <1>3, <1>4 DEF SendLock, Rpc

\* resolve_pool was sent: what is on the chain now is what was counted.
LEMMA SendResolveMoved ==
    ASSUME IInv, Frame, NEW t \in Task, SendResolve(t)
    PROVE  Moved(t)
<1>0. Chain!TypeOK
  BY DEF IInv, TypeOK
<1>1. PICK r : r = task[t] /\ GoodTask(r) /\ GoodTask(r)'
  BY TaskIsGood
<1>2. /\ r \in TaskState /\ r.pc = "resolve" /\ ReadHolds(r) /\ ReadHolds(r)'
      /\ r.pool # None /\ r.pool \in Pool /\ r.winners \in Nat
  BY <1>1, StateTypes DEF GoodTask, SendResolve, BetweenPools
<1>3. PICK p, n, w : /\ p \in Pool /\ n \in Nat
                     /\ p = r.pool /\ n = r.winners /\ w = Outcome(p)
  BY <1>2
<1>4. CASE /\ Execute(ResolveTx(p, w, n, TreasuryToUse))
           /\ task' = [task EXCEPT ![t] = [task[t] EXCEPT !.pc = AfterResolve(n)]]
  <2>1. Chain!ResolvePool(ServerKey, p, w, n, TreasuryToUse)
    BY <1>4 DEF Execute, ResolveTx
  <2>2. /\ FeedSaysFinished(FixtureOf[p])' /\ Outcome(p)' = w
    BY <1>2, <1>3, FeedKept DEF ReadHolds
  <2>3. PICK s : s = [r EXCEPT !.pc = AfterResolve(n)]
    OBVIOUS
  <2>4. AfterResolve(n) \in {"voided", "share"} /\ (AfterResolve(n) = "voided" <=> n = 0)
    BY DEF AfterResolve
  <2>5. /\ s \in TaskState /\ s.pc = AfterResolve(n) /\ s.pool = p /\ s.winners = n
        /\ s.toSettle = r.toSettle /\ s.toLock = r.toLock
    BY <1>2, <1>3, <2>3, <2>4 DEF TaskState, TaskPc
  <2>6. s.pool # None /\ s.pc \notin BetweenPools
    BY <1>2, <1>3, <2>4, <2>5 DEF BetweenPools
  <2>7. ASSUME n = 0 PROVE GoodTask(s)'
    <3>1. Chain!ResolveToVoid(ServerKey, p, w, n, TreasuryToUse)
      BY <2>1, <2>7 DEF Chain!ResolvePool, Chain!ResolveToWinners
    <3>2. /\ pool'[p].status = "Voided" /\ pool'[p].winning_outcome = w
          /\ pool'[p].winner_count = 0 /\ pool'[p].share_amount = 0
      BY <1>0, <1>3, <3>1, VoidAccount
    <3>3. s.pc = "voided"
      BY <2>4, <2>5, <2>7
    <3>4. ReadHolds(s)'
      BY <1>2, <2>2, <2>5, <3>2, <3>3 DEF ReadHolds
    <3> QED
      BY <2>5, <2>6, <3>4 DEF GoodTask
  <2>8. ASSUME n # 0 PROVE GoodTask(s)'
    <3>1. Chain!ResolveToWinners(ServerKey, p, w, n, TreasuryToUse)
      BY <2>1, <2>8 DEF Chain!ResolvePool, Chain!ResolveToVoid
    <3>2. /\ pool'[p].status = "Resolved" /\ pool'[p].winning_outcome = w
          /\ pool'[p].winner_count = n
      BY <1>0, <1>3, <3>1, WinnersAccount
    <3>3. s.pc = "share"
      BY <2>4, <2>5, <2>8
    <3>4. ReadHolds(s)'
      BY <1>2, <2>2, <2>5, <3>2, <3>3 DEF ReadHolds
    <3> QED
      BY <2>5, <2>6, <3>4 DEF GoodTask
  <2>9. GoodTask(s)'
    BY <2>7, <2>8
  <2> QED
    BY <1>1, <1>4, <2>3, <2>9 DEF Moved
<1>5. CASE task' = [task EXCEPT ![t] = NextPool(t)]
  BY <1>1, <1>2, <1>5, NextPoolMoved
<1> QED
  BY <1>1, <1>3, <1>4, <1>5 DEF SendResolve, Rpc

\* cancel_pool was sent, for a pool of an abandoned match.
LEMMA SendCancelMoved ==
    ASSUME IInv, Frame, NEW t \in Task, NEW p \in Pool, SendCancel(t, p)
    PROVE  Moved(t)
<1>1. PICK r : r = task[t] /\ GoodTask(r) /\ GoodTask(r)'
  BY TaskIsGood
<1>2. r \in TaskState /\ r.pc = "work" /\ ReadHolds(r)' /\ r.pool = None
  BY <1>1 DEF GoodTask, SendCancel, BetweenPools
<1>3. PICK rest : rest = r.toCancel \ {p}
  OBVIOUS
<1>4. rest \in SUBSET Pool
  BY <1>2, <1>3 DEF TaskState
<1>5. CASE task' = [task EXCEPT ![t].toCancel = rest]
  <2>1. PICK s : s = [r EXCEPT !.toCancel = rest]
    OBVIOUS
  <2>2. /\ s \in TaskState /\ s.pc = "work" /\ s.pool = None
        /\ s.toSettle = r.toSettle /\ s.toLock = r.toLock
    BY <1>2, <1>4, <2>1 DEF TaskState
  <2> QED
    BY <1>1, <1>2, <1>5, <2>1, <2>2, WorkMoved
<1>6. CASE /\ Chain!CancelPool(ServerKey, p)
           /\ task' = [task EXCEPT ![t] = [@ EXCEPT
                    !.toCancel = rest, !.pool = p, !.pc = "cancelled"]]
  <2>1. pool'[p].status = "Cancelled"
    <3>1. Chain!TypeOK
      BY DEF IInv, TypeOK
    <3>2. pool[p] \in Chain!PoolAccount
      BY <1>6, <3>1, PresentAccount DEF Chain!CancelPool
    <3> QED
      BY <1>6, <3>1, <3>2 DEF Chain!TypeOK, Chain!CancelPool, Chain!PoolAccount
  <2>2. PICK s : s = [r EXCEPT !.toCancel = rest, !.pool = p, !.pc = "cancelled"]
    OBVIOUS
  <2>3. /\ s \in TaskState /\ s.pc = "cancelled" /\ s.pool = p
        /\ s.toSettle = r.toSettle /\ s.toLock = r.toLock
    BY <1>2, <1>4, <2>2 DEF TaskState, TaskPc
  <2>4. p # None
    BY SettlementTypes
  <2>5. GoodTask(s)'
    BY <1>2, <2>1, <2>3, <2>4 DEF GoodTask, ReadHolds, BetweenPools
  <2> QED
    BY <1>1, <1>6, <2>2, <2>5 DEF Moved
<1> QED
  BY <1>1, <1>3, <1>5, <1>6 DEF SendCancel

LEMMA TaskMoved ==
    ASSUME IInv, Frame, NEW t \in Task, TaskStep(t)
    PROVE  Moved(t)
<1>1. CASE EndTask(t)
  BY <1>1, IdleMoved DEF EndTask
<1>2. CASE CountWinners(t) \/ FetchShare(t) \/ SendLock(t) \/ SendResolve(t)
  BY <1>2, CountWinnersMoved, FetchShareMoved, SendLockMoved, SendResolveMoved
<1>3. CASE Mark(t)
  BY <1>3, NextPoolMoved DEF Mark
<1>4. CASE \E p \in Pool : FetchStatus(t, p) \/ SendCancel(t, p)
  BY <1>4, FetchStatusMoved, SendCancelMoved
<1> QED
  BY <1>1, <1>2, <1>3, <1>4 DEF TaskStep

-----------------------------------------------------------------------------
(* Tasks that start, fetch and fail *)

LEMMA SweepIsTask == Sweep \in Task
BY DEF Task

\* reconcilePools
LEMMA StartSweepMoved ==
    ASSUME IInv, Frame, StartSweep
    PROVE  Moved(Sweep)
<1>1. PICK settle, lock : /\ settle = ActivePools
                          /\ lock = {p \in Pool : record[p].status = "open"}
  OBVIOUS
<1>2. /\ settle \subseteq Pool /\ lock \subseteq Pool
      /\ \A q \in settle \cup lock : record[q] # NoRecord
  BY <1>1 DEF ActivePools, NoRecord
<1>3. PICK s : s = [Idle EXCEPT !.pc = "fixtures", !.toSettle = settle, !.toLock = lock]
  OBVIOUS
<1>4. /\ s \in TaskState /\ s.pc = "fixtures" /\ s.pool = None
      /\ s.toSettle = settle /\ s.toLock = lock
  BY <1>2, <1>3 DEF Idle, TaskState, TaskPc
<1>5. GoodTask(s)
  BY <1>2, <1>4 DEF GoodTask, ReadHolds, BetweenPools
<1>6. task' = [task EXCEPT ![Sweep] = s]
  BY <1>1, <1>3 DEF StartSweep
<1> QED
  BY <1>5, <1>6, SweepIsTask, ReadMoved

\* loadOddtasyFixtures
LEMMA FetchFixturesMoved ==
    ASSUME IInv, Frame, FetchFixtures
    PROVE  Moved(Sweep)
<1>1. PICK r : r = task[Sweep] /\ GoodTask(r)
  BY SweepIsTask, TaskIsGood
<1>2. r \in TaskState /\ ReadHolds(r) /\ r.pc = "fixtures" /\ r.pool = None
  BY <1>1 DEF GoodTask, FetchFixtures, BetweenPools
<1>3. PICK missing \in SUBSET {f \in Fixture : FeedSaysFinished(f)} :
        task' = [task EXCEPT ![Sweep].pc = "work",
                    ![Sweep].toSettle = {p \in task[Sweep].toSettle :
                            FeedSaysFinished(FixtureOf[p]) /\ FixtureOf[p] \notin missing},
                    ![Sweep].toLock = @ \ {p \in task[Sweep].toSettle :
                            FeedSaysFinished(FixtureOf[p]) /\ FixtureOf[p] \notin missing}]
  BY DEF FetchFixtures
<1>4. PICK finished : finished = {p \in r.toSettle :
                            FeedSaysFinished(FixtureOf[p]) /\ FixtureOf[p] \notin missing}
  OBVIOUS
<1>5. PICK lock : lock = r.toLock \ finished
  OBVIOUS
<1>6. /\ finished \subseteq r.toSettle /\ lock \subseteq r.toLock
      /\ \A q \in finished : FeedSaysFinished(FixtureOf[q])
  BY <1>4, <1>5
<1>7. PICK s : s = [r EXCEPT !.pc = "work", !.toSettle = finished, !.toLock = lock]
  OBVIOUS
<1>8. /\ s \in TaskState /\ s.pc = "work" /\ s.pool = None
      /\ s.toSettle = finished /\ s.toLock = lock
  <2>1. finished \in SUBSET Pool /\ lock \in SUBSET Pool
    BY <1>2, <1>6 DEF TaskState
  <2> QED
    BY <1>2, <1>7, <2>1 DEF TaskState, TaskPc
<1>9. GoodTask(s)
  BY <1>2, <1>6, <1>8 DEF GoodTask, ReadHolds, BetweenPools
<1>10. task' = [task EXCEPT ![Sweep] = s]
  BY <1>1, <1>3, <1>4, <1>5, <1>7, SweepIsTask DEF IInv, TypeOK
<1> QED
  BY <1>9, <1>10, SweepIsTask, ReadMoved

LEMMA LockLateMoved ==
    ASSUME IInv, Frame, NEW p \in Pool, LockLate(p)
    PROVE  Moved(Sweep)
<1>1. PICK r : r = task[Sweep] /\ GoodTask(r)
  BY SweepIsTask, TaskIsGood
<1>2. r \in TaskState /\ r.pc = "work" /\ r.pool = None
  BY <1>1 DEF GoodTask, LockLate, BetweenPools
<1>3. PICK lock : lock = r.toLock \ {p}
  OBVIOUS
<1>4. PICK s : s = [r EXCEPT !.toLock = lock]
  OBVIOUS
<1>5. /\ s \in TaskState /\ s.pc = "work" /\ s.pool = None
      /\ s.toSettle = r.toSettle /\ s.toLock = lock
  <2>1. lock \in SUBSET Pool
    BY <1>2, <1>3 DEF TaskState
  <2> QED
    BY <1>2, <1>4, <2>1 DEF TaskState
<1>6. task' = [task EXCEPT ![Sweep] = s]
  BY <1>1, <1>3, <1>4 DEF LockLate
<1> QED
  BY <1>1, <1>2, <1>3, <1>5, <1>6, SweepIsTask, WorkMoved

\* settleFixture
LEMMA StartHandlerMoved ==
    ASSUME IInv, Frame, NEW t \in Handler, NEW f \in Fixture, StartHandler(t, f)
    PROVE  Moved(t)
<1>0. t \in Task /\ MatchesHold
  BY DEF Task, IInv
<1>1. PICK pools : pools = {p \in ActivePools : FixtureOf[p] = f}
  OBVIOUS
<1>2. pools \in SUBSET Pool /\ \A q \in pools : record[q] # NoRecord /\ FixtureOf[q] = f
  BY <1>1 DEF ActivePools, NoRecord
<1>3. CASE /\ match[f].phase = "finished"
           /\ task' = [task EXCEPT ![t] = [Idle EXCEPT !.pc = "work", !.toSettle = pools]]
  <2>1. FeedSaysFinished(f)
    BY <1>0, <1>3 DEF MatchesHold, FeedSaysFinished
  <2>2. PICK s : s = [Idle EXCEPT !.pc = "work", !.toSettle = pools]
    OBVIOUS
  <2>3. /\ s \in TaskState /\ s.pc = "work" /\ s.pool = None
        /\ s.toSettle = pools /\ s.toLock = {}
    BY <1>2, <2>2 DEF Idle, TaskState, TaskPc
  <2>4. GoodTask(s)
    BY <1>2, <2>1, <2>3 DEF GoodTask, ReadHolds, BetweenPools
  <2> QED
    BY <1>0, <1>3, <2>2, <2>4, ReadMoved
<1>4. CASE task' = [task EXCEPT ![t] = [Idle EXCEPT !.pc = "work", !.toCancel = pools]]
  <2>1. PICK s : s = [Idle EXCEPT !.pc = "work", !.toCancel = pools]
    OBVIOUS
  <2>2. /\ s \in TaskState /\ s.pc = "work" /\ s.pool = None
        /\ s.toSettle = {} /\ s.toLock = {}
    BY <1>2, <2>1 DEF Idle, TaskState, TaskPc
  <2>3. GoodTask(s)
    BY <2>2 DEF GoodTask, ReadHolds, BetweenPools
  <2> QED
    BY <1>0, <1>4, <2>1, <2>3, ReadMoved
<1> QED
  BY <1>1, <1>3, <1>4 DEF StartHandler

\* A read fails: the error is caught by the loop, or ends the sweep.
LEMMA ReadFailsMoved ==
    ASSUME IInv, Frame, NEW t \in Task, ReadFails(t)
    PROVE  Moved(t)
<1>1. CASE task' = [task EXCEPT ![t] = Idle]
  BY <1>1, IdleMoved
<1>2. CASE task[t].pc \in {"count", "share"} /\ task' = [task EXCEPT ![t] = NextPool(t)]
  BY <1>2, NextPoolMoved
<1>3. ASSUME NEW p \in task[t].toSettle, task[t].pc = "work",
             task' = [task EXCEPT ![t].toSettle = @ \ {p}]
      PROVE  Moved(t)
  <2>1. PICK r : r = task[t] /\ GoodTask(r)
    BY TaskIsGood
  <2>2. r \in TaskState /\ r.pc = "work" /\ r.pool = None
    BY <1>3, <2>1 DEF GoodTask, BetweenPools
  <2>3. PICK settle : settle = r.toSettle \ {p}
    OBVIOUS
  <2>4. PICK s : s = [r EXCEPT !.toSettle = settle]
    OBVIOUS
  <2>5. /\ s \in TaskState /\ s.pc = "work" /\ s.pool = None
        /\ s.toSettle = settle /\ s.toLock = r.toLock
    <3>1. settle \in SUBSET Pool
      BY <2>2, <2>3 DEF TaskState
    <3> QED
      BY <2>2, <2>4, <3>1 DEF TaskState
  <2>6. task' = [task EXCEPT ![t] = s]
    BY <1>3, <2>1, <2>3, <2>4
  <2> QED
    BY <2>1, <2>2, <2>3, <2>5, <2>6, WorkMoved
<1> QED
  BY <1>1, <1>2, <1>3 DEF ReadFails

\* Whatever step is taken, what every task has read holds after it.
LEMMA TasksStep ==
    ASSUME IInv, [Next]_vars
    PROVE  /\ task' \in [Task -> TaskState]
           /\ \A u \in Task : GoodTask(task[u])'
<1>0. Frame
  BY FrameStep
<1>1. CASE task' = task
  BY <1>0, <1>1, NoneMoved
<1>2. ASSUME NEW t \in Task, Moved(t)
      PROVE  /\ task' \in [Task -> TaskState]
             /\ \A u \in Task : GoodTask(task[u])'
  BY <1>0, <1>2, MovedIsGood
<1>3. CASE Crash
  <2>1. task' = [t \in Task |-> Idle]
    BY <1>3 DEF Crash
  <2>2. Idle \in TaskState
    BY IdleIsGood DEF GoodTask
  <2>3. ASSUME NEW u \in Task PROVE GoodTask(task[u])'
    <3>1. task'[u] = Idle
      BY <2>1
    <3> QED
      BY <3>1, IdleIsGood DEF GoodTask, ReadHolds, CountHolds
  <2> QED
    BY <2>1, <2>2, <2>3
<1>4. CASE OperatorNext \/ WorldNext \/ UNCHANGED vars
  BY <1>1, <1>4
  DEF OperatorNext, Deploy, RotateTreasury, WorldNext, Tick, MatchEnds, EndMatch, vars,
      workerVars
<1>5. CASE \E p \in Pool : AppNext(p)
  BY <1>1, <1>5
  DEF AppNext, HostPool, JoinPool, SignCreate, SignCreateWithEntry, ReportCreate, HostCancels,
      SignEnter, ReportEnter, SignClaim, workerVars
<1>6. CASE SweepStep
  BY <1>0, <1>2, <1>6, SweepIsTask, StartSweepMoved, FetchFixturesMoved, LockLateMoved, TaskMoved
  DEF SweepStep
<1>7. CASE \E t \in Handler : TaskStep(t) \/ \E f \in Fixture : StartHandler(t, f)
  <2>1. Handler \subseteq Task
    BY DEF Task
  <2> QED
    BY <1>0, <1>2, <1>7, <2>1, TaskMoved, StartHandlerMoved
<1>8. CASE FailureNext
  BY <1>0, <1>1, <1>2, <1>3, <1>8, ReadFailsMoved DEF FailureNext, LandLate, Expire
<1> QED
  BY <1>4, <1>5, <1>6, <1>7, <1>8 DEF Next

-----------------------------------------------------------------------------
(* Late transactions, the cached treasury and the bounds *)

LEMMA SentTx ==
    ASSUME IInv, NEW t \in Task, TaskStep(t)
    PROVE  /\ \A tx \in inflight' : tx \in Tx /\ TxHolds(tx)
           /\ treasuryCache' \in Treasury \cup {None}
           /\ faults' \in 0 .. MaxFaults /\ UNCHANGED <<crashes, rotations>>
<1>0. /\ \A tx \in inflight : tx \in Tx /\ TxHolds(tx)
      /\ treasuryCache \in Treasury \cup {None} /\ faults \in 0 .. MaxFaults
      /\ MaxFaults \in Nat
  BY SettlementTypes DEF IInv, TypeOK
<1>1. faults < MaxFaults /\ faults' = faults + 1 => faults' \in 0 .. MaxFaults
  BY <1>0
<1>2. CASE EndTask(t) \/ CountWinners(t) \/ FetchShare(t) \/ Mark(t)
  BY <1>0, <1>2 DEF EndTask, CountWinners, FetchShare, Mark, ReadStep, LocalStep, budgets
<1>3. CASE \E p \in Pool : FetchStatus(t, p)
  BY <1>0, <1>3 DEF FetchStatus, ReadStep, budgets
<1>4. CASE SendLock(t)
  BY <1>0, <1>1, <1>4, TaskTx DEF SendLock, Rpc
<1>5. CASE SendResolve(t)
  BY <1>0, <1>1, <1>5, TaskTx DEF SendResolve, Rpc
<1>6. CASE \E p \in Pool : SendCancel(t, p)
  BY <1>0, <1>1, <1>6, TaskTx DEF SendCancel
<1> QED
  BY <1>2, <1>3, <1>4, <1>5, <1>6 DEF TaskStep

LEMMA ProcessStep ==
    ASSUME IInv, [Next]_vars
    PROVE  /\ \A tx \in inflight' : tx \in Tx /\ TxHolds(tx)
           /\ treasuryCache' \in Treasury \cup {None}
           /\ faults' \in 0 .. MaxFaults /\ crashes' \in 0 .. MaxCrashes
           /\ rotations' \in 0 .. MaxRotations
<1>0. /\ \A tx \in inflight : tx \in Tx /\ TxHolds(tx)
      /\ treasuryCache \in Treasury \cup {None} /\ faults \in 0 .. MaxFaults
      /\ crashes \in 0 .. MaxCrashes /\ rotations \in 0 .. MaxRotations
      /\ MaxFaults \in Nat /\ MaxCrashes \in Nat /\ MaxRotations \in Nat
  BY SettlementTypes DEF IInv, TypeOK
<1>1. CASE UNCHANGED <<treasuryCache, inflight, budgets>>
  BY <1>0, <1>1 DEF budgets
<1>2. CASE OperatorNext
  BY <1>0, <1>1, <1>2 DEF OperatorNext, Deploy, RotateTreasury, workerVars, budgets
<1>3. CASE WorldNext \/ UNCHANGED vars
  BY <1>1, <1>3 DEF WorldNext, Tick, MatchEnds, EndMatch, vars, workerVars
<1>4. CASE \E p \in Pool : AppNext(p)
  BY <1>1, <1>4
  DEF AppNext, HostPool, JoinPool, SignCreate, SignCreateWithEntry, ReportCreate, HostCancels,
      SignEnter, ReportEnter, SignClaim, workerVars
<1>5. ASSUME NEW t \in Task, TaskStep(t)
      PROVE  /\ \A tx \in inflight' : tx \in Tx /\ TxHolds(tx)
             /\ treasuryCache' \in Treasury \cup {None}
             /\ faults' \in 0 .. MaxFaults /\ crashes' \in 0 .. MaxCrashes
             /\ rotations' \in 0 .. MaxRotations
  BY <1>0, <1>5, SentTx
<1>6. CASE StartSweep \/ (\E p \in Pool : LockLate(p)) \/
           (\E t \in Handler, f \in Fixture : StartHandler(t, f))
  BY <1>1, <1>6 DEF StartSweep, LockLate, StartHandler, ReadStep, LocalStep, budgets
<1>7. CASE FetchFixtures
  <2>1. PICK missing \in SUBSET Fixture :
            /\ faults + Cardinality(missing) <= MaxFaults
            /\ faults' = faults + Cardinality(missing)
    BY <1>7 DEF FetchFixtures
  <2>2. Cardinality(missing) \in Nat
    BY SettlementTypes, FS_Subset, FS_CardinalityType
  <2>3. faults' \in 0 .. MaxFaults
    BY <1>0, <2>1, <2>2
  <2> QED
    BY <1>0, <1>7, <2>3 DEF FetchFixtures
<1>8. CASE FailureNext
  BY <1>0, <1>8 DEF FailureNext, LandLate, Expire, ReadFails, Crash, budgets
<1> QED
  BY <1>2, <1>3, <1>4, <1>5, <1>6, <1>7, <1>8, SweepIsTask DEF Next, SweepStep, Task

-----------------------------------------------------------------------------
(* The inductive invariant *)

LEMMA InitInv == Init => IInv
<1> SUFFICES ASSUME Init PROVE IInv
  OBVIOUS
<1>1. Chain!IInv /\ Chain!TypeOK
  <2>1. Chain!Init => CP!Init
    BY DEF Chain!Init, CP!Init, Chain!NoConfig, CP!NoConfig, Chain!NoPool, CP!NoPool,
       Chain!NoEntry, CP!NoEntry, Chain!Account, CP!Account
  <2>2. CP!IInv
    BY <2>1, ProgramArguments, CP!InitInv DEF Init, CP!ArgumentTypes
  <2> QED
    BY <2>2, SameInv DEF Chain!IInv
<1>2. TypeOK
  <2>1. MirrorTypes
    BY DEF Init, MirrorInit, MirrorTypes
  <2>3. match \in [Fixture -> Match]
    BY DEF Init, Match
  <2>4. /\ task \in [Task -> TaskState]
        /\ \A t \in Task : task[t].pool = None <=> task[t].pc \in BetweenPools
    BY IdleIsGood DEF Init, GoodTask
  <2>5. /\ treasuryCache \in Treasury \cup {None} /\ inflight \subseteq Tx
        /\ faults \in 0 .. MaxFaults /\ crashes \in 0 .. MaxCrashes
        /\ rotations \in 0 .. MaxRotations
    BY SettlementTypes DEF Init
  <2> QED
    BY <1>1, <2>1, <2>3, <2>4, <2>5 DEF TypeOK
<1>3. MatchesHold
  BY DEF Init, MatchesHold
<1>4. \A t \in Task : TaskHolds(t)
  BY IdleIsGood DEF Init, GoodTask, TaskHolds
<1>5. \A tx \in inflight : TxHolds(tx)
  BY DEF Init
<1>6. ASSUME NEW p \in Pool
      PROVE  pool[p] = Chain!NoPool /\ record[p] = NoRecord /\ Chain!Entrants(p) = {}
             /\ \A m \in Member : pick[p][m] = NoPick
  BY DEF Init, Chain!Init, MirrorInit, Chain!Entrants
<1>7. \A p \in Pool : MirrorOf(p)
  BY <1>6 DEF MirrorOf, MirrorBehind, NeverAhead, ShareHolds, PickHolds, NoRecord, Settled
<1>8. ResultsAreReal /\ Chain!WinnersCovered
  BY <1>6 DEF ResultsAreReal, Chain!NoPool, Chain!WinnersCovered, Chain!WinnersCoveredOf
<1>9. JointInv
  BY <1>1, <1>2, <1>7, <1>8 DEF JointInv, TypeOK
<1> QED
  BY <1>2, <1>3, <1>4, <1>5, <1>8, <1>9 DEF IInv

LEMMA StepInv == IInv /\ [Next]_vars => IInv'
<1> SUFFICES ASSUME IInv, [Next]_vars PROVE IInv'
  OBVIOUS
<1>1. Chain!IInv' /\ Chain!TypeOK' /\ Chain!WinnersCovered'
  BY ChainStep
<1>2. MirrorTypes' /\ \A p \in Pool : MirrorOf(p)'
  BY MirrorStep DEF MirrorStays
<1>3. match' \in [Fixture -> Match] /\ MatchesHold'
  BY MatchStep
<1>4. /\ task' \in [Task -> TaskState]
      /\ \A t \in Task : GoodTask(task[t])'
  BY TasksStep
<1>5. (\A t \in Task : TaskHolds(t))'
      /\ (\A t \in Task : task[t].pool = None <=> task[t].pc \in BetweenPools)'
  BY <1>4 DEF GoodTask, TaskHolds
<1>6. \A tx \in inflight' : tx \in Tx /\ TxHolds(tx)'
  BY ProcessStep, FrameStep, TxHoldsKept
<1>7. TypeOK'
  BY <1>1, <1>2, <1>3, <1>4, <1>5, <1>6, ProcessStep DEF TypeOK
<1>8. JointInv'
  BY <1>1, <1>2 DEF JointInv
<1>9. ResultsAreReal'
  BY ResultsStep
<1> QED
  BY <1>3, <1>5, <1>6, <1>7, <1>8, <1>9 DEF IInv

\* Whatever the worker's tasks, members, the host, the operator and a failing
\* network do, the mirror stays behind the chain and what each task has read
\* (worker.ts, between its awaits) still holds when the task uses it.
THEOREM Invariance == Spec => []IInv
BY InitInv, StepInv, PTL DEF Spec

-----------------------------------------------------------------------------
(* What follows *)

\* The mirror calls a pool settled only when the chain does, with the outcome,
\* the winner count and the share that the program wrote.
THEOREM MirrorFollowsChain == Spec => []MirrorNeverAhead
<1>1. IInv => MirrorNeverAhead
  BY DEF IInv, JointInv, MirrorOf, MirrorNeverAhead
<1> QED
  BY <1>1, Invariance, PTL

\* A verdict that the app shows a paying member is the one its entry account can
\* claim by, and the vault covers that claim.
THEOREM VerdictsAlwaysHold == Spec => []VerdictsHold
<1>1. IInv => VerdictsHold
  BY JointVerdicts DEF IInv
<1> QED
  BY <1>1, Invariance, PTL

\* A pool is resolved or voided only after its match, to the outcome of its
\* score, also by a transaction that lands late.
THEOREM ResultsAlwaysReal == Spec => []ResultsAreReal
<1>1. IInv => ResultsAreReal
  BY DEF IInv
<1> QED
  BY <1>1, Invariance, PTL

\* The ledger that is proved of the betting program (ClubPool's IInv) is kept in
\* the deployment, bundled creations and late transactions included, and the vault
\* of every resolved pool holds the share of each winner that has not claimed.
THEOREM LedgerKept == Spec => [](Chain!IInv /\ Chain!WinnersCovered)
<1>1. IInv => Chain!IInv /\ Chain!WinnersCovered
  BY DEF IInv, JointInv
<1> QED
  BY <1>1, Invariance, PTL

\* The worker reports the winner count that the entry accounts show when its
\* transaction takes effect, although it counted them one call earlier.
THEOREM AlwaysAudited == Spec => WorkerIsAudited
BY StepIsAudited, Invariance, PTL DEF Spec, WorkerIsAudited

\* Whatever the worker, the members, the host, the operator and a failing network do,
\* no token of the deployment is made or lost, and a member's wallet has what the
\* pools moved as their entry accounts show it.
THEOREM FundsKept == ASSUME FiniteLedger PROVE Spec => []Chain!FundsConserved
<1>1. Init => Chain!FundsConserved
  BY FundsAtStart DEF Init, Chain!Init
<1>2. IInv /\ Chain!FundsConserved /\ [Next]_vars => Chain!FundsConserved'
  BY StepIsAudited, DeploymentFunds DEF IInv, JointInv
<1> QED
  BY <1>1, <1>2, Invariance, PTL DEF Spec

=============================================================================
