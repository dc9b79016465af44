------------------------ MODULE MirroredChainProofs ------------------------
(***************************************************************************)
(* The betting program and its mirror, step by step: what is proved of     *)
(* ClubPool carries over to the chain that the server shares with its      *)
(* members, and the operations of the mirror keep the mirror behind it.    *)
(***************************************************************************)
EXTENDS MirroredChain, FiniteSetTheorems, TLAPS

CP == INSTANCE ClubPoolProofs

-----------------------------------------------------------------------------
(* Chain and CP are the same instance of ClubPool *)

LEMMA SameFiniteSet == \A S : /\ Chain!IsFiniteSet(S) = IsFiniteSet(S)
                              /\ CP!IsFiniteSet(S) = IsFiniteSet(S)
<1>1. \A S : Chain!IsFiniteSet(S) = IsFiniteSet(S)
  BY DEF Chain!IsFiniteSet, IsFiniteSet
<1>2. \A S : CP!IsFiniteSet(S) = IsFiniteSet(S)
  BY DEF CP!IsFiniteSet, IsFiniteSet
<1> QED
  BY <1>1, <1>2

LEMMA SameCardinality == \A S : /\ Chain!Cardinality(S) = Cardinality(S)
                                /\ CP!Cardinality(S) = Cardinality(S)
<1>1. \A S : Chain!Cardinality(S) = Cardinality(S)
  BY SameFiniteSet DEF Chain!Cardinality, Cardinality
<1>2. \A S : CP!Cardinality(S) = Cardinality(S)
  BY SameFiniteSet DEF CP!Cardinality, Cardinality
<1> QED
  BY <1>1, <1>2

LEMMA SameU16 == CP!U16 = Chain!U16 /\ CP!U16Max = Chain!U16Max
BY DEF CP!U16, Chain!U16, CP!U16Max, Chain!U16Max

LEMMA ProgramArguments == CP!ArgumentTypes
<1>1. /\ Chain!IsFiniteSet(Member)
      /\ Terms \subseteq [outcome_count : Chain!U16, stake_amount : Nat,
                          rake_bps : Chain!U16, max_entries : Nat, deadline : Nat]
      /\ OutcomeArg \subseteq Chain!U16
      /\ CountArg \subseteq Nat
      /\ 0 .. Chain!Cardinality(Member) \subseteq CountArg
      /\ Endowment \in Nat
      /\ MaxTime \in Nat
  BY ChainArguments DEF Chain!ArgumentTypes
<1>2. CP!IsFiniteSet(Member) /\ CP!Cardinality(Member) = Chain!Cardinality(Member)
  BY <1>1, SameFiniteSet, SameCardinality
<1>3. 0 .. CP!Cardinality(Member) \subseteq CountArg
  BY <1>1, <1>2
<1> QED
  BY <1>1, <1>2, <1>3, SameU16 DEF CP!ArgumentTypes

LEMMA SameTypes == Chain!TypeOK <=> CP!TypeOK
BY SameU16 DEF Chain!TypeOK, CP!TypeOK, Chain!Config, CP!Config, Chain!NoConfig, CP!NoConfig,
   Chain!PoolAccount, CP!PoolAccount, Chain!NoPool, CP!NoPool, Chain!Entry, CP!Entry,
   Chain!NoEntry, CP!NoEntry, Chain!Signer, CP!Signer, Chain!Account, CP!Account,
   Chain!PoolStatus, CP!PoolStatus

LEMMA SameEntries ==
    \A p : /\ Chain!Entrants(p) = CP!Entrants(p) /\ Chain!Claimed(p) = CP!Claimed(p)
           /\ \A w : Chain!Winners(p, w) = CP!Winners(p, w)
BY DEF Chain!Entrants, CP!Entrants, Chain!Claimed, CP!Claimed, Chain!Winners, CP!Winners,
   Chain!NoEntry, CP!NoEntry

LEMMA SameLedger == \A p : Chain!PoolInvOf(p) <=> CP!PoolInvOf(p)
<1> TAKE p
<1>1. Chain!TermsKeptOf(p) <=> CP!TermsKeptOf(p)
  BY DEF Chain!TermsKeptOf, CP!TermsKeptOf, Chain!MaxRakeBps, CP!MaxRakeBps
<1>2. Chain!EntryLedgerOf(p) <=> CP!EntryLedgerOf(p)
  BY SameEntries, SameCardinality DEF Chain!EntryLedgerOf, CP!EntryLedgerOf
<1>3. Chain!RefundableOf(p) <=> CP!RefundableOf(p)
  BY SameEntries, SameCardinality DEF Chain!RefundableOf, CP!RefundableOf
<1>4. Chain!ShareBudgetOf(p) <=> CP!ShareBudgetOf(p)
  BY SameEntries, SameCardinality DEF Chain!ShareBudgetOf, CP!ShareBudgetOf
<1>5. Chain!RakeBoundedOf(p) <=> CP!RakeBoundedOf(p)
  BY DEF Chain!RakeBoundedOf, CP!RakeBoundedOf, Chain!Rake, CP!Rake, Chain!BPS, CP!BPS
<1> QED
  BY <1>1, <1>2, <1>3, <1>4, <1>5 DEF Chain!PoolInvOf, CP!PoolInvOf

LEMMA SameInv == Chain!IInv <=> CP!IInv
BY SameTypes, SameLedger DEF Chain!IInv, CP!IInv

LEMMA SameConfigSteps == Chain!ConfigNext => CP!ConfigNext
<1>1. \A signer, resolver, treasury :
        Chain!InitializeConfig(signer, resolver, treasury)
            => CP!InitializeConfig(signer, resolver, treasury)
  BY DEF Chain!InitializeConfig, CP!InitializeConfig, Chain!NoConfig, CP!NoConfig
<1>2. \A signer, resolver, treasury :
        Chain!UpdateConfig(signer, resolver, treasury)
            => CP!UpdateConfig(signer, resolver, treasury)
  BY DEF Chain!UpdateConfig, CP!UpdateConfig, Chain!NoConfig, CP!NoConfig
<1> QED
  BY <1>1, <1>2 DEF Chain!ConfigNext, CP!ConfigNext

LEMMA SamePoolSteps == ASSUME NEW p PROVE Chain!PoolNext(p) => CP!PoolNext(p)
<1>1. \A host, terms : Chain!CreatePool(host, p, terms) => CP!CreatePool(host, p, terms)
  <2> TAKE host, terms
  <2>1. Chain!ValidTerms(terms) => CP!ValidTerms(terms)
    BY DEF Chain!ValidTerms, CP!ValidTerms, Chain!MaxRakeBps, CP!MaxRakeBps
  <2>2. Chain!OpenAccount(host, terms) = CP!OpenAccount(host, terms)
    BY DEF Chain!OpenAccount, CP!OpenAccount, Chain!UNRESOLVED, CP!UNRESOLVED,
       Chain!U16Max, CP!U16Max
  <2> QED
    BY <2>1, <2>2 DEF Chain!CreatePool, CP!CreatePool, Chain!NoConfig, CP!NoConfig,
       Chain!NoPool, CP!NoPool
<1>2. \A m, x : Chain!EnterPool(m, p, x) => CP!EnterPool(m, p, x)
  BY Zenon DEF Chain!EnterPool, CP!EnterPool, Chain!NoEntry, CP!NoEntry
<1>3. \A signer : Chain!IsResolver(signer) <=> CP!IsResolver(signer)
  BY DEF Chain!IsResolver, CP!IsResolver, Chain!NoConfig, CP!NoConfig
<1>4. \A signer : /\ Chain!LockPool(signer, p) => CP!LockPool(signer, p)
                  /\ Chain!CancelPool(signer, p) => CP!CancelPool(signer, p)
  BY <1>3 DEF Chain!LockPool, CP!LockPool, Chain!CancelPool, CP!CancelPool,
     Chain!NoConfig, CP!NoConfig
<1>5. \A m, amount : Chain!PayFromVault(p, m, amount) => CP!PayFromVault(p, m, amount)
  BY Zenon DEF Chain!PayFromVault, CP!PayFromVault
<1>6. \A m : /\ Chain!ClaimWinnings(m, p) => CP!ClaimWinnings(m, p)
             /\ Chain!ClaimRefund(m, p) => CP!ClaimRefund(m, p)
  BY <1>5, SameEntries DEF Chain!ClaimWinnings, CP!ClaimWinnings, Chain!ClaimRefund,
     CP!ClaimRefund
<1>7. Chain!Signer = CP!Signer
  BY DEF Chain!Signer, CP!Signer
<1> QED
  BY <1>1, <1>2, <1>4, <1>6, <1>7 DEF Chain!PoolNext, CP!PoolNext

LEMMA SameResolve ==
    ASSUME NEW p, NEW signer, NEW w, NEW n, NEW t, Chain!ResolvePool(signer, p, w, n, t)
    PROVE  CP!ResolvePool(signer, p, w, n, t)
<1>1. Chain!IsResolver(signer) <=> CP!IsResolver(signer)
  BY DEF Chain!IsResolver, CP!IsResolver, Chain!NoConfig, CP!NoConfig
<1>2. Chain!MayResolve(signer, p, w, n, t) => CP!MayResolve(signer, p, w, n, t)
  BY <1>1 DEF Chain!MayResolve, CP!MayResolve
<1>3. Chain!Share(p, n) = CP!Share(p, n) /\ Chain!Sweep(p, n) = CP!Sweep(p, n)
  BY DEF Chain!Share, CP!Share, Chain!Sweep, CP!Sweep, Chain!Distributable,
     CP!Distributable, Chain!Rake, CP!Rake, Chain!BPS, CP!BPS
<1>4. Chain!ResolveToVoid(signer, p, w, n, t) => CP!ResolveToVoid(signer, p, w, n, t)
  BY <1>2, Zenon DEF Chain!ResolveToVoid, CP!ResolveToVoid
<1>5. Chain!ResolveToWinners(signer, p, w, n, t) => CP!ResolveToWinners(signer, p, w, n, t)
  BY <1>2, <1>3, Zenon DEF Chain!ResolveToWinners, CP!ResolveToWinners
<1> QED
  BY <1>4, <1>5 DEF Chain!ResolvePool, CP!ResolvePool

LEMMA SameResolveSteps ==
    ASSUME NEW p
    PROVE  /\ Chain!ResolveNext(p) => CP!ResolveNext(p)
           /\ Chain!AuditedResolve(p) => CP!AuditedResolve(p)
<1>1. Chain!Signer = CP!Signer
  BY DEF Chain!Signer, CP!Signer
<1>2. \A w : Chain!AuditedCount(p, w) = CP!AuditedCount(p, w)
  BY SameEntries, SameCardinality DEF Chain!AuditedCount, CP!AuditedCount
<1> QED
  BY <1>1, <1>2, SameResolve
  DEF Chain!ResolveNext, CP!ResolveNext, Chain!AuditedResolve, CP!AuditedResolve

LEMMA SameNext == /\ Chain!Next => CP!Next
                  /\ Chain!AuditedNext => CP!AuditedNext
<1>1. Chain!Tick => CP!Tick
  BY DEF Chain!Tick, CP!Tick
<1> QED
  BY <1>1, SameConfigSteps, SamePoolSteps, SameResolveSteps
  DEF Chain!Next, CP!Next, Chain!AuditedNext, CP!AuditedNext

\* The ledger of ClubPool is kept by every step of the program.
LEMMA ChainStepInv == Chain!IInv /\ [Chain!Next]_chainVars => Chain!IInv'
<1>1. CP!IInv /\ [CP!Next]_(CP!vars) => CP!IInv'
  BY ProgramArguments, CP!StepInv DEF CP!ArgumentTypes
<1>2. [Chain!Next]_chainVars => [CP!Next]_(CP!vars)
  BY SameNext DEF chainVars, CP!vars
<1>3. Chain!IInv' <=> CP!IInv'
  BY SameInv, PTL
<1> QED
  BY <1>1, <1>2, <1>3, SameInv

LEMMA SameCoverage == /\ Chain!WinnersCovered <=> CP!WinnersCovered
                      /\ Chain!ClaimsCovered <=> CP!ClaimsCovered
<1>1. \A p : Chain!WinnersCoveredOf(p) <=> CP!WinnersCoveredOf(p)
  BY SameEntries, SameCardinality
  DEF Chain!WinnersCoveredOf, CP!WinnersCoveredOf, Chain!AuditedCount, CP!AuditedCount
<1> QED
  BY <1>1, SameEntries
  DEF Chain!WinnersCovered, CP!WinnersCovered, Chain!ClaimsCovered, CP!ClaimsCovered

LEMMA AuditedCoverage ==
    Chain!IInv /\ Chain!WinnersCovered /\ [Chain!AuditedNext]_chainVars
        => Chain!WinnersCovered'
<1>1. CP!IInv /\ CP!WinnersCovered /\ [CP!AuditedNext]_(CP!vars) => CP!WinnersCovered'
  BY ProgramArguments, CP!CoverageStep DEF CP!ArgumentTypes
<1>2. [Chain!AuditedNext]_chainVars => [CP!AuditedNext]_(CP!vars)
  BY SameNext DEF chainVars, CP!vars
<1>3. Chain!WinnersCovered' <=> CP!WinnersCovered'
  BY SameCoverage, PTL
<1> QED
  BY <1>1, <1>2, <1>3, SameInv, SameCoverage

LEMMA CoveredClaims ==
    ASSUME Chain!IInv, Chain!WinnersCovered
    PROVE  Chain!ClaimsCovered
BY ProgramArguments, SameInv, SameCoverage, CP!CoveredClaims DEF CP!ArgumentTypes

-----------------------------------------------------------------------------
(* What a step of the program keeps *)

LEMMA PresentAccount ==
    ASSUME Chain!TypeOK, NEW p \in Pool
    PROVE  /\ pool[p] # Chain!NoPool <=> pool[p].status # "Absent"
           /\ pool[p] # Chain!NoPool =>
                /\ pool[p] \in Chain!PoolAccount
                /\ pool[p].status \in Chain!PoolStatus
                /\ pool[p].winner_count \in Nat /\ pool[p].share_amount \in Nat
BY DEF Chain!TypeOK, Chain!NoPool, Chain!PoolAccount, Chain!PoolStatus

\* What resolve_pool writes.
LEMMA VoidAccount ==
    ASSUME Chain!TypeOK, NEW p \in Pool, NEW signer, NEW w, NEW n, NEW t,
           Chain!ResolveToVoid(signer, p, w, n, t)
    PROVE  /\ PastLock(p) /\ pool'[p].status = "Voided"
           /\ pool'[p].winning_outcome = w
           /\ pool'[p].winner_count = 0 /\ pool'[p].share_amount = 0
           /\ pool'[p].max_entries = pool[p].max_entries
           /\ pool'[p].stake_amount = pool[p].stake_amount
<1>1. pool[p].status = "Locked"
  BY DEF Chain!ResolveToVoid, Chain!MayResolve
<1>2. pool[p] \in Chain!PoolAccount
  BY <1>1, PresentAccount
<1>3. pool'[p] = [pool[p] EXCEPT !.status = "Voided", !.winning_outcome = w,
                                 !.winner_count = 0, !.share_amount = 0]
  BY DEF Chain!ResolveToVoid, Chain!TypeOK
<1> QED
  BY <1>1, <1>2, <1>3 DEF Chain!PoolAccount, PastLock

LEMMA WinnersAccount ==
    ASSUME Chain!TypeOK, NEW p \in Pool, NEW signer, NEW w, NEW n, NEW t,
           Chain!ResolveToWinners(signer, p, w, n, t)
    PROVE  /\ PastLock(p) /\ pool'[p].status = "Resolved"
           /\ pool'[p].winning_outcome = w /\ pool'[p].winner_count = n
           /\ pool'[p].max_entries = pool[p].max_entries
           /\ pool'[p].stake_amount = pool[p].stake_amount
<1>1. pool[p].status = "Locked"
  BY DEF Chain!ResolveToWinners, Chain!MayResolve
<1>2. pool[p] \in Chain!PoolAccount
  BY <1>1, PresentAccount
<1>3. pool'[p] = [pool[p] EXCEPT !.status = "Resolved", !.winning_outcome = w,
                                 !.winner_count = n, !.share_amount = Chain!Share(p, n)]
  BY DEF Chain!ResolveToWinners, Chain!TypeOK
<1> QED
  BY <1>1, <1>2, <1>3 DEF Chain!PoolAccount, PastLock

\* Accounts are never closed, a pool never reopens or changes its seats or its
\* stake, an entry never changes its prediction, and from the lock on no entry is added.
ProgressKept(p) ==
    /\ pool[p] # Chain!NoPool =>
        /\ pool'[p] # Chain!NoPool
        /\ pool'[p].max_entries = pool[p].max_entries
        /\ pool'[p].stake_amount = pool[p].stake_amount
    /\ PastLock(p) => PastLock(p)'
EntriesKept(p) ==
    \A m \in Chain!Entrants(p) :
        m \in Chain!Entrants(p)' /\ entry'[p][m].prediction = entry[p][m].prediction
ChainKeeps(p) ==
    /\ config # Chain!NoConfig => config' # Chain!NoConfig
    /\ ProgressKept(p)
    /\ EntriesKept(p)
    /\ PastLock(p) => \A w : Chain!AuditedCount(p, w)' = Chain!AuditedCount(p, w)
    /\ pool[p].status \in Chain!Terminal => pool'[p] = pool[p]

LEMMA ConfigKept ==
    ASSUME Chain!TypeOK, Chain!Next, config # Chain!NoConfig
    PROVE  config' # Chain!NoConfig
<1>1. config \in Chain!Config /\ config.treasury \in Treasury
  BY DEF Chain!TypeOK, Chain!Config
<1>2. CASE config' = config
  BY <1>2
<1>3. ASSUME NEW signer \in Key, NEW resolver \in Key, NEW treasury \in Treasury,
             Chain!UpdateConfig(signer, resolver, treasury)
      PROVE  config' # Chain!NoConfig
  <2>1. config' \in [admin : Chain!Signer \cup Key, resolver_authority : Chain!Signer \cup Key,
                      treasury : Treasury]
    BY <1>1, <1>3 DEF Chain!UpdateConfig, Chain!Config
  <2> QED
    BY <2>1 DEF Chain!NoConfig
<1>4. CASE Chain!ConfigNext
  BY <1>3, <1>4 DEF Chain!ConfigNext, Chain!InitializeConfig
<1>5. CASE Chain!Tick
  BY <1>2, <1>5 DEF Chain!Tick
<1>6. ASSUME NEW q \in Pool, Chain!PoolNext(q) \/ Chain!ResolveNext(q)
      PROVE  config' = config
  BY <1>6 DEF Chain!PoolNext, Chain!ResolveNext, Chain!CreatePool, Chain!EnterPool,
     Chain!LockPool, Chain!CancelPool, Chain!ClaimWinnings, Chain!ClaimRefund,
     Chain!PayFromVault, Chain!ResolvePool, Chain!ResolveToVoid, Chain!ResolveToWinners
<1> QED
  BY <1>2, <1>4, <1>5, <1>6 DEF Chain!Next

LEMMA ProgressStep ==
    ASSUME Chain!TypeOK, Chain!Next, NEW p \in Pool
    PROVE  ProgressKept(p)
<1>0. /\ pool[p] # Chain!NoPool => pool[p] \in Chain!PoolAccount
      /\ PastLock(p) => pool[p] # Chain!NoPool
  BY PresentAccount DEF PastLock
<1>1. CASE pool'[p] = pool[p]
  BY <1>1 DEF ProgressKept, PastLock
<1>2. CASE Chain!Tick \/ Chain!ConfigNext
  BY <1>1, <1>2 DEF Chain!Tick, Chain!ConfigNext, Chain!InitializeConfig, Chain!UpdateConfig
<1>3. ASSUME NEW host \in Member, NEW terms \in Terms, Chain!CreatePool(host, p, terms)
      PROVE  ProgressKept(p)
  <2>1. pool[p] = Chain!NoPool
    BY <1>3 DEF Chain!CreatePool
  <2> QED
    BY <2>1 DEF ProgressKept, PastLock, Chain!NoPool
<1>4. ASSUME NEW m \in Member, NEW x \in OutcomeArg, Chain!EnterPool(m, p, x)
      PROVE  ProgressKept(p)
  <2>1. pool[p] \in Chain!PoolAccount /\ pool[p].status = "Open"
    BY <1>4, PresentAccount DEF Chain!EnterPool
  <2>2. /\ pool'[p].status = "Open" /\ pool'[p].max_entries = pool[p].max_entries
        /\ pool'[p].stake_amount = pool[p].stake_amount
    BY <1>4, <2>1 DEF Chain!EnterPool, Chain!TypeOK, Chain!PoolAccount
  <2> QED
    BY <2>1, <2>2 DEF ProgressKept, PastLock, Chain!NoPool
<1>5. ASSUME NEW signer \in Chain!Signer,
             Chain!LockPool(signer, p) \/ Chain!CancelPool(signer, p)
      PROVE  ProgressKept(p)
  <2>1. pool[p] \in Chain!PoolAccount
    BY <1>5, PresentAccount DEF Chain!LockPool, Chain!CancelPool
  <2>2. /\ pool'[p].status \in {"Locked", "Cancelled"}
        /\ pool'[p].max_entries = pool[p].max_entries
        /\ pool'[p].stake_amount = pool[p].stake_amount
    BY <1>5, <2>1 DEF Chain!LockPool, Chain!CancelPool, Chain!TypeOK, Chain!PoolAccount
  <2> QED
    BY <2>2 DEF ProgressKept, PastLock, Chain!NoPool
<1>6. ASSUME NEW m \in Member, Chain!ClaimWinnings(m, p) \/ Chain!ClaimRefund(m, p)
      PROVE  ProgressKept(p)
  BY <1>1, <1>6 DEF Chain!ClaimWinnings, Chain!ClaimRefund, Chain!PayFromVault
<1>7. CASE Chain!ResolveNext(p)
  <2>1. pool[p] \in Chain!PoolAccount
    BY <1>7, PresentAccount DEF Chain!ResolveNext, Chain!ResolvePool, Chain!ResolveToVoid,
       Chain!ResolveToWinners, Chain!MayResolve
  <2>2. PICK signer \in Chain!Signer, w \in OutcomeArg, n \in CountArg, t \in Treasury :
          \/ Chain!ResolveToVoid(signer, p, w, n, t)
          \/ Chain!ResolveToWinners(signer, p, w, n, t)
    BY <1>7 DEF Chain!ResolveNext, Chain!ResolvePool
  <2>3. CASE Chain!ResolveToVoid(signer, p, w, n, t)
    BY <2>1, <2>3, VoidAccount DEF ProgressKept, PastLock, Chain!NoPool
  <2>4. CASE Chain!ResolveToWinners(signer, p, w, n, t)
    BY <2>1, <2>4, WinnersAccount DEF ProgressKept, PastLock, Chain!NoPool
  <2> QED
    BY <2>2, <2>3, <2>4
<1>8. ASSUME NEW q \in Pool, q # p, Chain!PoolNext(q) \/ Chain!ResolveNext(q)
      PROVE  pool'[p] = pool[p]
  BY <1>8 DEF Chain!TypeOK, Chain!PoolNext, Chain!ResolveNext, Chain!CreatePool, Chain!EnterPool,
     Chain!LockPool, Chain!CancelPool, Chain!ClaimWinnings, Chain!ClaimRefund,
     Chain!PayFromVault, Chain!ResolvePool, Chain!ResolveToVoid, Chain!ResolveToWinners
<1>9. CASE Chain!PoolNext(p)
  BY <1>3, <1>4, <1>5, <1>6, <1>9 DEF Chain!PoolNext
<1> QED
  BY <1>1, <1>2, <1>7, <1>8, <1>9 DEF Chain!Next

LEMMA EntriesStep ==
    ASSUME Chain!TypeOK, Chain!Next, NEW p \in Pool
    PROVE  EntriesKept(p)
<1> SUFFICES ASSUME NEW m \in Chain!Entrants(p)
             PROVE  /\ m \in Chain!Entrants(p)'
                    /\ entry'[p][m].prediction = entry[p][m].prediction
  BY DEF EntriesKept
<1>0. m \in Member /\ entry[p][m] # Chain!NoEntry /\ entry[p][m] \in Chain!Entry
  BY DEF Chain!Entrants, Chain!TypeOK
<1>1. CASE entry'[p][m] = entry[p][m]
  BY <1>0, <1>1 DEF Chain!Entrants
<1>2. CASE Chain!Tick \/ Chain!ConfigNext
  BY <1>1, <1>2 DEF Chain!Tick, Chain!ConfigNext, Chain!InitializeConfig, Chain!UpdateConfig
<1>3. ASSUME NEW q \in Pool, NEW host \in Member, NEW terms \in Terms,
             Chain!CreatePool(host, q, terms)
      PROVE  entry'[p][m] = entry[p][m]
  BY <1>3 DEF Chain!CreatePool
<1>4. ASSUME NEW q \in Pool, NEW k \in Member, NEW x \in OutcomeArg, Chain!EnterPool(k, q, x)
      PROVE  entry'[p][m] = entry[p][m]
  <2>1. ~(q = p /\ k = m)
    BY <1>0, <1>4 DEF Chain!EnterPool
  <2> QED
    BY <1>4, <2>1 DEF Chain!EnterPool, Chain!TypeOK
<1>5. ASSUME NEW q \in Pool, NEW signer \in Chain!Signer,
             Chain!LockPool(signer, q) \/ Chain!CancelPool(signer, q)
      PROVE  entry'[p][m] = entry[p][m]
  BY <1>5 DEF Chain!LockPool, Chain!CancelPool
<1>6. ASSUME NEW q \in Pool, NEW k \in Member,
             Chain!ClaimWinnings(k, q) \/ Chain!ClaimRefund(k, q)
      PROVE  /\ m \in Chain!Entrants(p)'
             /\ entry'[p][m].prediction = entry[p][m].prediction
  <2>1. PICK amount : Chain!PayFromVault(q, k, amount)
    BY <1>6 DEF Chain!ClaimWinnings, Chain!ClaimRefund
  <2>2. CASE q = p /\ k = m
    <3>1. entry'[p][m] = [entry[p][m] EXCEPT !.claimed = TRUE]
      BY <1>0, <2>1, <2>2 DEF Chain!PayFromVault, Chain!TypeOK
    <3>2. /\ entry'[p][m].prediction = entry[p][m].prediction
          /\ entry'[p][m] \in Chain!Entry
      BY <1>0, <3>1 DEF Chain!Entry
    <3>3. entry'[p][m] # Chain!NoEntry
      BY <3>2 DEF Chain!Entry, Chain!NoEntry
    <3> QED
      BY <1>0, <3>2, <3>3 DEF Chain!Entrants
  <2>3. CASE ~(q = p /\ k = m)
    <3>1. entry'[p][m] = entry[p][m]
      BY <2>1, <2>3 DEF Chain!PayFromVault, Chain!TypeOK
    <3> QED
      BY <1>1, <3>1
  <2> QED
    BY <2>2, <2>3
<1>7. ASSUME NEW q \in Pool, Chain!ResolveNext(q)
      PROVE  entry'[p][m] = entry[p][m]
  BY <1>7 DEF Chain!ResolveNext, Chain!ResolvePool, Chain!ResolveToVoid, Chain!ResolveToWinners
<1>8. ASSUME NEW q \in Pool, Chain!PoolNext(q)
      PROVE  /\ m \in Chain!Entrants(p)'
             /\ entry'[p][m].prediction = entry[p][m].prediction
  BY <1>1, <1>3, <1>4, <1>5, <1>6, <1>8 DEF Chain!PoolNext
<1> QED
  BY <1>1, <1>2, <1>7, <1>8 DEF Chain!Next

\* The count of a pool past its lock is stable: the entries of FrozenStep.
LEMMA CountKept ==
    ASSUME Chain!TypeOK, Chain!Next, NEW p \in Pool, PastLock(p), NEW w
    PROVE  Chain!AuditedCount(p, w)' = Chain!AuditedCount(p, w)
<1>1. \A m \in Member : CP!FrozenStep(p, m)
  BY ProgramArguments, SameTypes, SameNext, CP!StepIsFrozen DEF CP!ArgumentTypes
<1>2. \A m \in Member \ Chain!Entrants(p) : entry'[p][m] = entry[p][m]
  BY <1>1, SameEntries DEF CP!FrozenStep, PastLock
<1>3. Chain!Entrants(p)' = Chain!Entrants(p)
  BY <1>2, EntriesStep DEF EntriesKept, Chain!Entrants
<1>4. Chain!Winners(p, w)' = Chain!Winners(p, w)
  BY <1>3, EntriesStep DEF EntriesKept, Chain!Winners
<1> QED
  BY <1>4, SameCardinality DEF Chain!AuditedCount

\* A claim is made once and for all: there is none before the pool is terminal.
LEMMA ClaimsKept ==
    ASSUME Chain!IInv, [Chain!Next]_chainVars, NEW p \in Pool
    PROVE  Chain!Claimed(p) \subseteq Chain!Claimed(p)'
<1> SUFFICES ASSUME Chain!Next, NEW m \in Chain!Claimed(p)
             PROVE  m \in Chain!Claimed(p)'
  BY DEF chainVars, Chain!Claimed, Chain!Entrants
<1>1. m \in Member /\ m \in Chain!Entrants(p)
  BY DEF Chain!Claimed, Chain!Entrants
<1>2. pool[p].status \notin {"Absent", "Open"}
  BY <1>1 DEF Chain!IInv, Chain!PoolInvOf, Chain!EntryLedgerOf
<1>3. CP!FrozenStep(p, m)
  BY <1>1, ProgramArguments, SameTypes, SameNext, CP!StepIsFrozen
  DEF Chain!IInv, CP!ArgumentTypes
<1>4. entry'[p][m] = entry[p][m]
  BY <1>2, <1>3, SameEntries DEF CP!FrozenStep
<1> QED
  BY <1>1, <1>4 DEF Chain!Claimed, Chain!Entrants

LEMMA ProgramKeeps ==
    ASSUME Chain!TypeOK, [Chain!Next]_chainVars, NEW p \in Pool
    PROVE  ChainKeeps(p)
<1>1. CASE Chain!Next
  <2>1. CP!FinalStep(p)
    BY <1>1, ProgramArguments, SameTypes, SameNext, CP!StepIsFinal DEF CP!ArgumentTypes
  <2>2. pool[p].status \in Chain!Terminal => pool'[p] = pool[p]
    BY <2>1 DEF CP!FinalStep, CP!Terminal, Chain!Terminal
  <2> QED
    BY <1>1, <2>2, ConfigKept, ProgressStep, EntriesStep, CountKept DEF ChainKeeps
<1>2. CASE UNCHANGED chainVars
  BY <1>2 DEF chainVars, ChainKeeps, ProgressKept, EntriesKept, PastLock, Chain!Entrants,
     Chain!AuditedCount, Chain!Winners
<1> QED
  BY <1>1, <1>2

-----------------------------------------------------------------------------
(* The bundled creation *)

LEMMA MemberTypes ==
    ASSUME MirrorTypes, NEW p \in Pool
    PROVE  /\ record[p] # NoRecord =>
                /\ record[p].status \in RecordStatus
                /\ record[p].hostWallet \in Member /\ record[p].terms \in Terms
           /\ \A m \in Member : pick[p][m] # NoPick =>
                /\ pick[p][m].status \in PickStatus
                /\ pick[p][m].prediction \in OutcomeArg
                /\ pick[p][m].prediction \in Chain!U16
<1>1. record[p] # NoRecord => record[p] \in Record(Terms, OutcomeArg)
  BY DEF MirrorTypes
<1>2. \A m \in Member : pick[p][m] # NoPick => pick[p][m] \in Pick(OutcomeArg)
  BY DEF MirrorTypes
<1>3. OutcomeArg \subseteq Chain!U16
  BY ChainArguments DEF Chain!ArgumentTypes
<1> QED
  BY <1>1, <1>2, <1>3 DEF Record, Pick

LEMMA TermsTypes ==
    ASSUME NEW terms \in Terms
    PROVE  /\ terms.outcome_count \in Chain!U16 /\ terms.rake_bps \in Chain!U16
           /\ terms.stake_amount \in Nat /\ terms.max_entries \in Nat
           /\ terms.deadline \in Nat
BY ChainArguments DEF Chain!ArgumentTypes

\* What create_pool and enter_pool leave when they run in one transaction.
LEMMA BundleEffect ==
    ASSUME MirrorTypes, Chain!IInv, NEW p \in Pool, CreateWithEntry(p)
    PROVE  LET host == record[p].hostWallet
               terms == record[p].terms
           IN  /\ record[p] # NoRecord /\ host \in Member /\ terms \in Terms
               /\ pick[p][host] # NoPick
               /\ pool[p].status = "Absent" /\ pool[p] = Chain!NoPool
               /\ Chain!Entrants(p) = {} /\ Chain!ValidTerms(terms)
               /\ pool'[p] \in Chain!PoolAccount
               /\ pool'[p].status = "Open" /\ pool'[p].entry_count = 1
               /\ pool'[p].stake_amount = terms.stake_amount
               /\ pool'[p].total_pool = terms.stake_amount
               /\ pool'[p].outcome_count = terms.outcome_count
               /\ pool'[p].rake_bps = terms.rake_bps
               /\ pool'[p].max_entries = terms.max_entries
               /\ vault'[p] = terms.stake_amount
               /\ entry'[p][host] \in Chain!Entry
               /\ entry'[p][host].prediction = pick[p][host].prediction
               /\ entry'[p][host].stake_paid = terms.stake_amount
               /\ Chain!Entrants(p)' = {host} /\ Chain!Claimed(p)' = {}
<1> DEFINE host == record[p].hostWallet
           terms == record[p].terms
<1>0. Chain!TypeOK
  BY DEF Chain!IInv
<1>1. /\ record[p] # NoRecord /\ host \in Member /\ terms \in Terms
      /\ pick[p][host] # NoPick /\ pool[p] = Chain!NoPool /\ Chain!ValidTerms(terms)
      /\ pick[p][host].prediction \in Chain!U16
  BY MemberTypes DEF CreateWithEntry
<1>2. pool[p].status = "Absent"
  BY <1>1 DEF Chain!NoPool
<1>3. Chain!Entrants(p) = {} /\ vault[p] = 0
  BY <1>2 DEF Chain!IInv, Chain!PoolInvOf, Chain!EntryLedgerOf
<1>4. /\ terms.outcome_count \in Chain!U16 /\ terms.rake_bps \in Chain!U16
      /\ terms.stake_amount \in Nat /\ terms.max_entries \in Nat
      /\ terms.deadline \in Nat
  BY <1>1, TermsTypes
<1>5. "Open" \in Chain!PoolStatus /\ Chain!UNRESOLVED \in Chain!U16
  BY DEF Chain!PoolStatus, Chain!UNRESOLVED, Chain!U16, Chain!U16Max
<1>6. pool'[p] = [Chain!OpenAccount(host, terms) EXCEPT
                    !.entry_count = 1, !.total_pool = terms.stake_amount]
  BY <1>0 DEF CreateWithEntry, Chain!TypeOK
<1>7. Chain!OpenAccount(host, terms) \in Chain!PoolAccount
  BY <1>1, <1>4, <1>5 DEF Chain!OpenAccount, Chain!PoolAccount
<1>8. /\ pool'[p] \in Chain!PoolAccount
      /\ pool'[p].status = "Open" /\ pool'[p].entry_count = 1
      /\ pool'[p].stake_amount = terms.stake_amount
      /\ pool'[p].total_pool = terms.stake_amount
      /\ pool'[p].outcome_count = terms.outcome_count
      /\ pool'[p].rake_bps = terms.rake_bps
      /\ pool'[p].max_entries = terms.max_entries
  <2> DEFINE open == Chain!OpenAccount(host, terms)
             stake == terms.stake_amount
             account == pool'[p]
  <2>1. /\ open.status = "Open" /\ open.stake_amount = terms.stake_amount
        /\ open.outcome_count = terms.outcome_count
        /\ open.rake_bps = terms.rake_bps /\ open.max_entries = terms.max_entries
    BY DEF Chain!OpenAccount
  <2>2. open \in Chain!PoolAccount /\ stake \in Nat
    BY <1>4, <1>7
  <2>3. account = [open EXCEPT !.entry_count = 1, !.total_pool = stake]
    BY <1>6
  <2>4. /\ account \in Chain!PoolAccount
        /\ account.status = open.status /\ account.entry_count = 1
        /\ account.stake_amount = open.stake_amount /\ account.total_pool = stake
        /\ account.outcome_count = open.outcome_count
        /\ account.rake_bps = open.rake_bps /\ account.max_entries = open.max_entries
    <3> HIDE DEF open, stake, account
    <3> QED
      BY <2>2, <2>3 DEF Chain!PoolAccount
  <2> HIDE DEF open
  <2> QED
    BY <2>1, <2>4
<1>9. vault'[p] = terms.stake_amount
  BY <1>0, <1>3, <1>4 DEF CreateWithEntry, Chain!TypeOK
<1>10. entry'[p] = [entry[p] EXCEPT ![host] =
            [prediction |-> pick[p][host].prediction,
             stake_paid |-> terms.stake_amount, claimed |-> FALSE]]
  BY <1>0 DEF CreateWithEntry, Chain!TypeOK
<1>11. /\ entry'[p][host] = [prediction |-> pick[p][host].prediction,
                             stake_paid |-> terms.stake_amount, claimed |-> FALSE]
       /\ \A m \in Member : m # host => entry'[p][m] = entry[p][m]
  BY <1>0, <1>1, <1>10 DEF Chain!TypeOK
<1>12. /\ entry'[p][host] \in Chain!Entry /\ entry'[p][host].claimed = FALSE
       /\ entry'[p][host].prediction = pick[p][host].prediction
       /\ entry'[p][host].stake_paid = terms.stake_amount
  BY <1>1, <1>4, <1>11 DEF Chain!Entry
<1>13. entry'[p][host] # Chain!NoEntry
  BY <1>12 DEF Chain!Entry, Chain!NoEntry
<1>14. \A m \in Member : entry[p][m] = Chain!NoEntry
  BY <1>3 DEF Chain!Entrants
<1>15. Chain!Entrants(p)' = {host}
  BY <1>1, <1>11, <1>13, <1>14 DEF Chain!Entrants
<1>16. Chain!Claimed(p)' = {}
  BY <1>12, <1>15 DEF Chain!Claimed
<1> QED
  BY <1>1, <1>2, <1>3, <1>8, <1>9, <1>11, <1>12, <1>15, <1>16

LEMMA BundleOthers ==
    ASSUME Chain!TypeOK, NEW p, CreateWithEntry(p), NEW q \in Pool, q # p
    PROVE  pool'[q] = pool[q] /\ entry'[q] = entry[q] /\ vault'[q] = vault[q]
BY DEF CreateWithEntry, Chain!TypeOK

LEMMA BundleTypes ==
    ASSUME MirrorTypes, Chain!IInv, NEW p \in Pool, CreateWithEntry(p)
    PROVE  Chain!TypeOK'
<1>0. Chain!TypeOK
  BY DEF Chain!IInv
<1>1. /\ record[p].hostWallet \in Member /\ record[p].terms \in Terms
      /\ pool'[p] \in Chain!PoolAccount
      /\ entry'[p][record[p].hostWallet] \in Chain!Entry
      /\ record[p].terms.stake_amount \in Nat
  BY BundleEffect, TermsTypes
<1>2. pool' \in [Pool -> Chain!PoolAccount \cup {Chain!NoPool}]
  BY <1>0, <1>1 DEF CreateWithEntry, Chain!TypeOK
<1>3. entry' \in [Pool -> [Member -> Chain!Entry \cup {Chain!NoEntry}]]
  BY <1>0, <1>1 DEF CreateWithEntry, Chain!TypeOK
<1>4. vault' \in [Pool -> Nat] /\ wallet' \in [Chain!Account -> Nat]
  BY <1>0, <1>1 DEF CreateWithEntry, Chain!TypeOK, Chain!Account
<1>5. config' = config /\ now' = now
  BY DEF CreateWithEntry
<1> QED
  BY <1>0, <1>2, <1>3, <1>4, <1>5 DEF Chain!TypeOK

LEMMA OtherLedger ==
    ASSUME NEW q \in Pool, Chain!PoolInvOf(q),
           pool'[q] = pool[q], entry'[q] = entry[q], vault'[q] = vault[q]
    PROVE  Chain!PoolInvOf(q)'
<1>1. /\ Chain!Entrants(q)' = Chain!Entrants(q) /\ Chain!Claimed(q)' = Chain!Claimed(q)
      /\ \A w : Chain!Winners(q, w)' = Chain!Winners(q, w)
  BY DEF Chain!Entrants, Chain!Claimed, Chain!Winners
<1>2. Chain!Rake(q)' = Chain!Rake(q)
  BY DEF Chain!Rake
<1>3. Chain!EntryLedgerOf(q)' /\ Chain!TermsKeptOf(q)'
  BY <1>1 DEF Chain!PoolInvOf, Chain!TermsKeptOf, Chain!EntryLedgerOf
<1>4. Chain!RefundableOf(q)' /\ Chain!ShareBudgetOf(q)'
  BY <1>1 DEF Chain!PoolInvOf, Chain!RefundableOf, Chain!ShareBudgetOf
<1>5. Chain!RakeBoundedOf(q)'
  BY <1>2 DEF Chain!PoolInvOf, Chain!RakeBoundedOf
<1> QED
  BY <1>3, <1>4, <1>5 DEF Chain!PoolInvOf

LEMMA BundleInv ==
    ASSUME MirrorTypes, Chain!IInv, NEW p \in Pool, CreateWithEntry(p)
    PROVE  Chain!IInv'
<1>1. Chain!TypeOK /\ \A q \in Pool : Chain!PoolInvOf(q)
  BY DEF Chain!IInv
<1>2. ASSUME NEW q \in Pool, q # p PROVE Chain!PoolInvOf(q)'
  BY <1>1, <1>2, BundleOthers, OtherLedger
<1>3. Chain!PoolInvOf(p)'
  <2> DEFINE host == record[p].hostWallet
             terms == record[p].terms
  <2>1. /\ host \in Member /\ terms \in Terms /\ Chain!ValidTerms(terms)
        /\ pool'[p].status = "Open" /\ pool'[p].entry_count = 1
        /\ pool'[p].stake_amount = terms.stake_amount
        /\ pool'[p].total_pool = terms.stake_amount
        /\ pool'[p].outcome_count = terms.outcome_count
        /\ pool'[p].rake_bps = terms.rake_bps
        /\ pool'[p].max_entries = terms.max_entries
        /\ vault'[p] = terms.stake_amount
        /\ entry'[p][host].stake_paid = terms.stake_amount
        /\ Chain!Entrants(p)' = {host} /\ Chain!Claimed(p)' = {}
    BY BundleEffect
  <2>2. terms.stake_amount \in Nat /\ terms.max_entries \in Nat
    BY <2>1, TermsTypes
  <2>3. Chain!Cardinality({host}) = 1 /\ {host} \ {} = {host}
    BY FS_Singleton, SameCardinality
  <2> HIDE DEF host, terms
  <2>4. Chain!TermsKeptOf(p)'
    BY <2>1, <2>2 DEF Chain!TermsKeptOf, Chain!ValidTerms
  <2>5. Chain!EntryLedgerOf(p)'
    BY <2>1, <2>2, <2>3 DEF Chain!EntryLedgerOf
  <2>6. Chain!RefundableOf(p)'
    BY <2>1, <2>2, <2>3 DEF Chain!RefundableOf
  <2> QED
    BY <2>1, <2>4, <2>5, <2>6 DEF Chain!PoolInvOf, Chain!ShareBudgetOf, Chain!RakeBoundedOf
<1> QED
  BY <1>2, <1>3, BundleTypes DEF Chain!IInv

LEMMA BundleCoverage ==
    ASSUME MirrorTypes, Chain!IInv, Chain!WinnersCovered, NEW p \in Pool, CreateWithEntry(p)
    PROVE  Chain!WinnersCovered'
<1>1. Chain!WinnersCoveredOf(p)'
  BY BundleEffect DEF Chain!WinnersCoveredOf
<1>2. ASSUME NEW q \in Pool, q # p PROVE Chain!WinnersCoveredOf(q)'
  <2>1. pool'[q] = pool[q] /\ entry'[q] = entry[q] /\ vault'[q] = vault[q]
    BY <1>2, BundleOthers DEF Chain!IInv
  <2>2. Chain!WinnersCoveredOf(q)
    BY DEF Chain!WinnersCovered
  <2> QED
    BY <2>1, <2>2
    DEF Chain!WinnersCoveredOf, Chain!AuditedCount, Chain!Winners, Chain!Entrants, Chain!Claimed
<1> QED
  BY <1>1, <1>2 DEF Chain!WinnersCovered

LEMMA BundleKeeps ==
    ASSUME MirrorTypes, Chain!IInv, NEW p \in Pool, CreateWithEntry(p), NEW q \in Pool
    PROVE  ChainKeeps(q)
<1>1. config' = config /\ Chain!TypeOK
  BY DEF CreateWithEntry, Chain!IInv
<1>2. CASE q # p
  <2>1. pool'[q] = pool[q] /\ entry'[q] = entry[q]
    BY <1>1, <1>2, BundleOthers
  <2> QED
    BY <1>1, <2>1 DEF ChainKeeps, ProgressKept, EntriesKept, PastLock, Chain!Entrants,
       Chain!AuditedCount, Chain!Winners
<1>3. CASE q = p
  <2>1. /\ pool[p] = Chain!NoPool /\ pool[p].status = "Absent" /\ Chain!Entrants(p) = {}
    BY BundleEffect
  <2> QED
    BY <1>1, <1>3, <2>1
    DEF ChainKeeps, ProgressKept, EntriesKept, PastLock, Chain!Terminal
<1> QED
  BY <1>2, <1>3

-----------------------------------------------------------------------------
(* A step of the deployment on the chain *)

LEMMA AuditedIsNext == Chain!AuditedNext => Chain!Next
<1>1. ASSUME NEW p, NEW w PROVE Chain!AuditedCount(p, w) \in CountArg
  <2>1. Chain!Winners(p, w) \in SUBSET Member
    BY DEF Chain!Winners, Chain!Entrants
  <2>2. IsFiniteSet(Member) /\ 0 .. Cardinality(Member) \subseteq CountArg
    BY ChainArguments, SameFiniteSet, SameCardinality DEF Chain!ArgumentTypes
  <2>3. /\ Cardinality(Chain!Winners(p, w)) \in Nat /\ Cardinality(Member) \in Nat
        /\ Cardinality(Chain!Winners(p, w)) <= Cardinality(Member)
    BY <2>1, <2>2, FS_Subset, FS_CardinalityType
  <2>4. Cardinality(Chain!Winners(p, w)) \in 0 .. Cardinality(Member)
    BY <2>3
  <2> QED
    BY <2>2, <2>4, SameCardinality DEF Chain!AuditedCount
<1>2. \A p \in Pool : Chain!AuditedResolve(p) => Chain!ResolveNext(p)
  BY <1>1 DEF Chain!AuditedResolve, Chain!ResolveNext
<1> QED
  BY <1>2 DEF Chain!AuditedNext, Chain!Next

\* Whatever the deployment does on the chain keeps the ledger of ClubPool, the
\* coverage of its winners, and what the tasks of the worker have read.
LEMMA DeploymentStep ==
    ASSUME MirrorTypes, Chain!IInv, Chain!WinnersCovered, [AuditedStep]_chainVars
    PROVE  /\ Chain!IInv' /\ Chain!WinnersCovered'
           /\ \A p \in Pool : ChainKeeps(p)
<1>1. CASE [Chain!AuditedNext]_chainVars
  <2>1. [Chain!Next]_chainVars
    BY <1>1, AuditedIsNext
  <2> QED
    BY <1>1, <2>1, ChainStepInv, AuditedCoverage, ProgramKeeps DEF Chain!IInv
<1>2. CASE \E p \in Pool : CreateWithEntry(p)
  BY <1>2, BundleInv, BundleCoverage, BundleKeeps
<1> QED
  BY <1>1, <1>2 DEF AuditedStep

LEMMA DeploymentClaims ==
    ASSUME MirrorTypes, Chain!IInv, [AuditedStep]_chainVars, NEW p \in Pool
    PROVE  Chain!Claimed(p) \subseteq Chain!Claimed(p)'
<1>1. CASE [Chain!AuditedNext]_chainVars
  <2>1. [Chain!Next]_chainVars
    BY <1>1, AuditedIsNext
  <2> QED
    BY <2>1, ClaimsKept
<1>2. ASSUME NEW q \in Pool, CreateWithEntry(q)
      PROVE  Chain!Claimed(p) \subseteq Chain!Claimed(p)'
  <2>1. CASE p # q
    <3>1. entry'[p] = entry[p]
      BY <1>2, <2>1, BundleOthers DEF Chain!IInv
    <3> QED
      BY <3>1 DEF Chain!Claimed, Chain!Entrants
  <2>2. CASE p = q
    <3>1. Chain!Entrants(p) = {}
      BY <1>2, <2>2, BundleEffect
    <3> QED
      BY <3>1 DEF Chain!Claimed
  <2> QED
    BY <2>1, <2>2
<1> QED
  BY <1>1, <1>2 DEF AuditedStep

-----------------------------------------------------------------------------
(* Tokens *)

LEMMA SameSums ==
    \A f : /\ Chain!SumFunction(f) = CP!SumFunction(f)
           /\ \A S : Chain!SumFunctionOnSet(f, S) = CP!SumFunctionOnSet(f, S)
BY DEF Chain!SumFunction, CP!SumFunction, Chain!SumFunctionOnSet, CP!SumFunctionOnSet,
   Chain!FoldFunctionOnSet, CP!FoldFunctionOnSet, Chain!MapThenFoldSet, CP!MapThenFoldSet

LEMMA SameMoved == \A m, p : Chain!Moved(m, p) = CP!Moved(m, p)
BY SameEntries DEF Chain!Moved, CP!Moved

LEMMA SameFunds == Chain!FundsConserved <=> CP!FundsConserved
<1>1. \A m : [p \in Pool |-> Chain!Moved(m, p)] = [p \in Pool |-> CP!Moved(m, p)]
  BY SameMoved
<1> QED
  BY <1>1, SameSums, SameCardinality DEF Chain!FundsConserved, CP!FundsConserved

\* There are finitely many accounts that hold tokens.
FiniteLedger == IsFiniteSet(Pool) /\ IsFiniteSet(Treasury)

LEMMA FiniteProgram == ASSUME FiniteLedger PROVE CP!FiniteAccounts
BY SameFiniteSet DEF FiniteLedger, CP!FiniteAccounts

LEMMA FundsAtStart ==
    ASSUME FiniteLedger,
           entry = [p \in Pool |-> [m \in Member |-> Chain!NoEntry]], vault = [p \in Pool |-> 0],
           wallet = [a \in Chain!Account |-> IF a \in Member THEN Endowment ELSE 0]
    PROVE  Chain!FundsConserved
<1>1. Chain!NoEntry = CP!NoEntry /\ Chain!Account = CP!Account
  BY DEF Chain!NoEntry, CP!NoEntry, Chain!Account, CP!Account
<1>2. CP!FundsConserved
  BY <1>1, FiniteProgram, ProgramArguments, CP!FundsInitially DEF CP!ArgumentTypes
<1> QED
  BY <1>2, SameFunds

LEMMA ProgramFunds ==
    ASSUME FiniteLedger, Chain!IInv, Chain!FundsConserved, [Chain!Next]_chainVars
    PROVE  Chain!FundsConserved'
<1>1. CP!IInv /\ CP!FundsConserved /\ CP!FiniteAccounts
  BY SameInv, SameFunds, FiniteProgram
<1>2. [CP!Next]_(CP!vars)
  BY SameNext DEF chainVars, CP!vars
<1>3. CP!FundsConserved'
  BY <1>1, <1>2, ProgramArguments, CP!FundsStep DEF CP!ArgumentTypes
<1>4. Chain!FundsConserved' <=> CP!FundsConserved'
  BY SameFunds, PTL
<1> QED
  BY <1>3, <1>4

LEMMA BundleTransfers ==
    ASSUME MirrorTypes, Chain!IInv, NEW p \in Pool, CreateWithEntry(p)
    PROVE  \E a \in CP!Account, d \in Int : CP!Transfer(p, a, d)
<1> DEFINE host == record[p].hostWallet
           stake == record[p].terms.stake_amount
<1>1. /\ host \in Member /\ record[p].terms \in Terms /\ Chain!Entrants(p) = {}
      /\ entry'[p][host].stake_paid = stake
      /\ Chain!Entrants(p)' = {host} /\ Chain!Claimed(p)' = {}
  BY BundleEffect
<1>2. stake \in Nat /\ -stake \in Int /\ host \in CP!Account
  BY <1>1, TermsTypes DEF CP!Account
<1>3. Chain!TypeOK /\ CP!TypeOK
  BY SameTypes DEF Chain!IInv
<1>4. /\ vault' = [vault EXCEPT ![p] = vault[p] + stake]
      /\ wallet' = [wallet EXCEPT ![host] = wallet[host] - stake]
  BY DEF CreateWithEntry
<1>5. vault[p] - (-stake) = vault[p] + stake /\ wallet[host] + (-stake) = wallet[host] - stake
  BY <1>1, <1>2, <1>3 DEF Chain!TypeOK, Chain!Account
<1>6. ASSUME NEW q \in Pool, NEW m \in Member
      PROVE  CP!Moved(m, q)' = CP!Moved(m, q) + (IF q = p /\ m = host THEN -stake ELSE 0)
  <2>0. Chain!Moved(m, q)' = CP!Moved(m, q)' /\ Chain!Moved(m, q) = CP!Moved(m, q)
    <3>1. Chain!Moved(m, q)' = CP!Moved(m, q)'
      <4>1. /\ Chain!Entrants(q)' = CP!Entrants(q)' /\ Chain!Claimed(q)' = CP!Claimed(q)'
        BY DEF Chain!Entrants, CP!Entrants, Chain!Claimed, CP!Claimed, Chain!NoEntry, CP!NoEntry
      <4> QED
        BY <4>1 DEF Chain!Moved, CP!Moved
    <3> QED
      BY <3>1, SameMoved
  <2>1. CP!Moved(m, q) \in Int
    BY <1>3, ProgramArguments, CP!MovedType DEF CP!ArgumentTypes
  <2>2. CASE q # p
    <3>1. pool'[q] = pool[q] /\ entry'[q] = entry[q]
      BY <1>3, <2>2, BundleOthers
    <3>2. /\ m \in Chain!Entrants(q)' <=> m \in Chain!Entrants(q)
          /\ m \in Chain!Claimed(q)' <=> m \in Chain!Claimed(q)
      BY <3>1 DEF Chain!Entrants, Chain!Claimed
    <3>3. Chain!Moved(m, q)' = Chain!Moved(m, q)
      BY <3>1, <3>2 DEF Chain!Moved
    <3> QED
      BY <2>0, <2>1, <2>2, <3>3
  <2>3. CASE q = p
    <3>1. Chain!Moved(m, q) = 0
      BY <1>1, <2>3 DEF Chain!Moved
    <3>2. Chain!Moved(m, q)' = IF m = host THEN 0 - stake ELSE 0
      BY <1>1, <2>3 DEF Chain!Moved
    <3> HIDE DEF host, stake
    <3> QED
      BY <1>2, <2>0, <2>3, <3>1, <3>2
  <2> QED
    BY <2>2, <2>3
<1> HIDE DEF host, stake
<1>7. CP!Transfer(p, host, -stake)
  BY <1>4, <1>5, <1>6 DEF CP!Transfer
<1> QED
  BY <1>2, <1>7

\* The program makes and loses no token, bundled creations included.
LEMMA DeploymentFunds ==
    ASSUME FiniteLedger, MirrorTypes, Chain!IInv, Chain!FundsConserved,
           [AuditedStep]_chainVars
    PROVE  Chain!FundsConserved'
<1>1. CASE [Chain!AuditedNext]_chainVars
  BY <1>1, AuditedIsNext, ProgramFunds
<1>2. ASSUME NEW p \in Pool, CreateWithEntry(p) PROVE Chain!FundsConserved'
  <2>1. PICK a \in CP!Account, d \in Int : CP!Transfer(p, a, d)
    BY <1>2, BundleTransfers
  <2>2. CP!TypeOK /\ CP!FundsConserved /\ CP!FiniteAccounts
    BY SameTypes, SameFunds, FiniteProgram DEF Chain!IInv
  <2>3. CP!FundsConserved'
    BY <2>1, <2>2, ProgramArguments, CP!TransferConserves DEF CP!ArgumentTypes
  <2>4. Chain!FundsConserved' <=> CP!FundsConserved'
    BY SameFunds, PTL
  <2> QED
    BY <2>3, <2>4
<1> QED
  BY <1>1, <1>2 DEF AuditedStep

-----------------------------------------------------------------------------
(* What is new on the chain after a step *)

\* A new pool has its record, a new entry its pick.
News(p) ==
    /\ pool'[p] # Chain!NoPool =>
        \/ pool[p] # Chain!NoPool
        \/ record[p] # NoRecord /\ config # Chain!NoConfig
    /\ \A m \in Chain!Entrants(p)' :
        \/ m \in Chain!Entrants(p)
        \/ pick[p][m] # NoPick /\ entry'[p][m].prediction = pick[p][m].prediction
NoResult(p) == pool'[p].status \in {"Resolved", "Voided"} => pool'[p] = pool[p]

LEMMA NoNews ==
    ASSUME NEW p, pool'[p] = pool[p], entry'[p] = entry[p]
    PROVE  News(p) /\ NoResult(p)
BY DEF News, NoResult, Chain!Entrants

LEMMA CreateNews ==
    ASSUME Chain!TypeOK, NEW q \in Pool, NEW p \in Pool, NEW host, NEW terms,
           record[q] # NoRecord, Chain!CreatePool(host, q, terms)
    PROVE  News(p) /\ NoResult(p)
<1>1. entry' = entry
  BY DEF Chain!CreatePool
<1>2. CASE p # q
  <2>1. pool'[p] = pool[p]
    BY <1>2 DEF Chain!CreatePool, Chain!TypeOK
  <2> QED
    BY <1>1, <2>1, NoNews
<1>3. CASE p = q
  <2>1. pool'[p].status = "Open"
    BY <1>3 DEF Chain!CreatePool, Chain!OpenAccount, Chain!TypeOK
  <2>2. record[p] # NoRecord /\ config # Chain!NoConfig
    BY <1>3 DEF Chain!CreatePool
  <2> QED
    BY <1>1, <2>1, <2>2 DEF News, NoResult, Chain!Entrants
<1> QED
  BY <1>2, <1>3

LEMMA BundleNews ==
    ASSUME MirrorTypes, Chain!IInv, NEW q \in Pool, NEW p \in Pool, CreateWithEntry(q)
    PROVE  News(p) /\ NoResult(p)
<1>1. CASE p # q
  BY <1>1, BundleOthers, NoNews DEF Chain!IInv
<1>2. CASE p = q
  <2>1. /\ record[p] # NoRecord /\ pick[p][record[p].hostWallet] # NoPick
        /\ Chain!Entrants(p)' = {record[p].hostWallet}
        /\ entry'[p][record[p].hostWallet].prediction
              = pick[p][record[p].hostWallet].prediction
        /\ pool'[p].status = "Open"
    BY <1>2, BundleEffect
  <2>2. config # Chain!NoConfig
    BY DEF CreateWithEntry
  <2> QED
    BY <2>1, <2>2 DEF News, NoResult
<1> QED
  BY <1>1, <1>2

LEMMA EnterNews ==
    ASSUME Chain!TypeOK, NEW q \in Pool, NEW k \in Member, NEW p \in Pool,
           pick[q][k] # NoPick, Chain!EnterPool(k, q, pick[q][k].prediction)
    PROVE  News(p) /\ NoResult(p)
<1>1. CASE p # q
  <2>1. pool'[p] = pool[p] /\ entry'[p] = entry[p]
    BY <1>1 DEF Chain!EnterPool, Chain!TypeOK
  <2> QED
    BY <2>1, NoNews
<1>2. CASE p = q
  <2>1. pool[p] # Chain!NoPool /\ pool[p] \in Chain!PoolAccount
    BY <1>2, PresentAccount DEF Chain!EnterPool
  <2>2. pool'[p].status = "Open"
    BY <1>2, <2>1 DEF Chain!EnterPool, Chain!TypeOK, Chain!PoolAccount
  <2>3. ASSUME NEW m \in Chain!Entrants(p)', m \notin Chain!Entrants(p)
        PROVE  pick[p][m] # NoPick /\ entry'[p][m].prediction = pick[p][m].prediction
    <3>1. m \in Member /\ entry'[p][m] # Chain!NoEntry /\ entry[p][m] = Chain!NoEntry
      BY <2>3 DEF Chain!Entrants
    <3>2. m = k
      BY <1>2, <3>1 DEF Chain!EnterPool, Chain!TypeOK
    <3>3. entry'[p][m].prediction = pick[p][m].prediction
      BY <1>2, <3>2 DEF Chain!EnterPool, Chain!TypeOK
    <3> QED
      BY <1>2, <3>2, <3>3
  <2> QED
    BY <2>1, <2>2, <2>3 DEF News, NoResult
<1> QED
  BY <1>1, <1>2

LEMMA ClaimNews ==
    ASSUME Chain!TypeOK, NEW q \in Pool, NEW k \in Member, NEW p \in Pool,
           Chain!ClaimWinnings(k, q) \/ Chain!ClaimRefund(k, q)
    PROVE  News(p) /\ NoResult(p)
<1>1. PICK amount : Chain!PayFromVault(q, k, amount) /\ k \in Chain!Entrants(q)
  BY DEF Chain!ClaimWinnings, Chain!ClaimRefund
<1>2. pool' = pool
  BY <1>1 DEF Chain!PayFromVault
<1>3. \A m \in Member : entry'[p][m] # entry[p][m] => p = q /\ m = k
  BY <1>1 DEF Chain!PayFromVault, Chain!TypeOK
<1>4. Chain!Entrants(p)' \subseteq Chain!Entrants(p)
  BY <1>1, <1>3 DEF Chain!Entrants
<1> QED
  BY <1>2, <1>4 DEF News, NoResult

LEMMA LockOrCancelNews ==
    ASSUME Chain!TypeOK, NEW q \in Pool, NEW signer, NEW p \in Pool,
           Chain!LockPool(signer, q) \/ Chain!CancelPool(signer, q)
    PROVE  News(p) /\ NoResult(p)
<1>1. entry' = entry
  BY DEF Chain!LockPool, Chain!CancelPool
<1>2. CASE p # q
  <2>1. pool'[p] = pool[p]
    BY <1>2 DEF Chain!LockPool, Chain!CancelPool, Chain!TypeOK
  <2> QED
    BY <1>1, <2>1, NoNews
<1>3. CASE p = q
  <2>1. pool[p] # Chain!NoPool /\ pool[p] \in Chain!PoolAccount
    BY <1>3, PresentAccount DEF Chain!LockPool, Chain!CancelPool
  <2>2. pool'[p].status \in {"Locked", "Cancelled"}
    BY <1>3, <2>1 DEF Chain!LockPool, Chain!CancelPool, Chain!TypeOK, Chain!PoolAccount
  <2> QED
    BY <1>1, <2>1, <2>2 DEF News, NoResult, Chain!Entrants
<1> QED
  BY <1>2, <1>3

LEMMA ResolveNews ==
    ASSUME Chain!TypeOK, NEW q \in Pool, NEW signer, NEW w, NEW n, NEW t, NEW p \in Pool,
           Chain!ResolvePool(signer, q, w, n, t)
    PROVE  /\ News(p)
           /\ p # q => NoResult(p)
           /\ p = q =>
                /\ pool'[p].winning_outcome = w
                /\ pool'[p].status = "Voided" =>
                    pool'[p].winner_count = 0 /\ pool'[p].share_amount = 0
<1>1. entry' = entry
  BY DEF Chain!ResolvePool, Chain!ResolveToVoid, Chain!ResolveToWinners
<1>2. CASE p # q
  <2>1. pool'[p] = pool[p]
    BY <1>2 DEF Chain!ResolvePool, Chain!ResolveToVoid, Chain!ResolveToWinners, Chain!TypeOK
  <2> QED
    BY <1>1, <1>2, <2>1, NoNews
<1>3. CASE p = q
  <2>1. /\ pool'[p].winning_outcome = w /\ PastLock(p)
        /\ pool'[p].status = "Voided" =>
            pool'[p].winner_count = 0 /\ pool'[p].share_amount = 0
    BY <1>3, VoidAccount, WinnersAccount DEF Chain!ResolvePool
  <2>2. pool[p] # Chain!NoPool
    BY <2>1 DEF PastLock, Chain!NoPool
  <2> QED
    BY <1>1, <1>3, <2>1, <2>2 DEF News, Chain!Entrants
<1> QED
  BY <1>2, <1>3

-----------------------------------------------------------------------------
(* The mirror of a pool *)

\* What a step does not take back from the mirror, and what it keeps of it.
RecordsKept == \A p \in Pool : record[p] # NoRecord => record'[p] # NoRecord
MirrorStays == MirrorTypes' /\ RecordsKept /\ \A p \in Pool : MirrorOf(p)'

LEMMA SettledIsTerminal ==
    ASSUME NEW p \in Pool, MirrorOf(p), record[p].status \in Settled
    PROVE  pool[p].status \in Chain!Terminal
BY DEF MirrorOf, NeverAhead, Settled, ChainStatus, Chain!Terminal

\* What happens on the chain alone: the mirror was not ahead, and a terminal pool
\* stays what it is.
LEMMA MirrorKept ==
    ASSUME MirrorTypes, NEW p \in Pool, MirrorOf(p), News(p), ChainKeeps(p),
           record'[p] = record[p], pick'[p] = pick[p]
    PROVE  MirrorOf(p)'
<1>1. /\ pool'[p] # Chain!NoPool => record'[p] # NoRecord /\ config' # Chain!NoConfig
      /\ \A m \in Member :
            /\ pick'[p][m] # NoPick => record'[p] # NoRecord
            /\ m \in Chain!Entrants(p)' =>
                pick'[p][m] # NoPick /\ pick'[p][m].prediction = entry'[p][m].prediction
  BY DEF MirrorOf, MirrorBehind, News, ChainKeeps, EntriesKept
<1>2. record[p].status \in Settled => pool'[p] = pool[p]
  BY SettledIsTerminal DEF ChainKeeps
<1>3. record'[p].status \in Settled =>
        /\ pool'[p].status = ChainStatus[record'[p].status]
        /\ record'[p].status # "cancelled" =>
            /\ record'[p].winningOutcome = pool'[p].winning_outcome
            /\ record'[p].winnerCount = pool'[p].winner_count
            /\ record'[p].shareAmount = pool'[p].share_amount
  BY <1>2 DEF MirrorOf, NeverAhead
<1>4. ShareHolds(p)'
  BY DEF MirrorOf, ShareHolds, ChainKeeps, Chain!Terminal
<1>5. ASSUME NEW m \in Member PROVE PickHolds(p, m)'
  <2>0. pick[p][m] # NoPick => pick[p][m].status \in PickStatus
    BY MemberTypes
  <2>1. CASE pick[p][m] = NoPick
    BY <2>1 DEF PickHolds
  <2>2. CASE pool[p].status \in Chain!Terminal
    BY <2>2 DEF MirrorOf, PickHolds, ChainKeeps
  <2>3. CASE pick[p][m] # NoPick /\ pool[p].status \notin Chain!Terminal
    BY <2>0, <2>3, SettledIsTerminal DEF MirrorOf, PickHolds, PickStatus, Chain!Terminal
  <2> QED
    BY <2>1, <2>2, <2>3
<1> QED
  BY <1>1, <1>3, <1>4, <1>5 DEF MirrorOf, MirrorBehind, NeverAhead

\* A pool that a step does not touch.
LEMMA MirrorUntouched ==
    ASSUME NEW p \in Pool, MirrorOf(p), record'[p] = record[p], pick'[p] = pick[p],
           UNCHANGED chainVars
    PROVE  MirrorOf(p)'
BY DEF MirrorOf, MirrorBehind, NeverAhead, ShareHolds, PickHolds, chainVars, Chain!Entrants

\* A step that does not write the mirror, whatever it does on the chain.
LEMMA MirrorUnwritten ==
    ASSUME MirrorTypes, \A p \in Pool : MirrorOf(p) /\ News(p) /\ ChainKeeps(p),
           UNCHANGED mirrorVars
    PROVE  MirrorStays
<1>1. record' = record /\ pick' = pick
  BY DEF mirrorVars
<1>2. \A p \in Pool : MirrorOf(p)'
  BY <1>1, MirrorKept
<1> QED
  BY <1>1, <1>2 DEF MirrorStays, MirrorTypes, RecordsKept

-----------------------------------------------------------------------------
(* The operations of the mirror *)

LEMMA RecordIsTyped ==
    ASSUME NEW r \in Record(Terms, OutcomeArg)
    PROVE  /\ r # NoRecord /\ r.status \in RecordStatus /\ r.onChain \in BOOLEAN
           /\ r.hostWallet \in Member /\ r.terms \in Terms
           /\ r.winningOutcome \in OutcomeArg \cup {NoOutcome}
           /\ r.winnerCount \in Nat /\ r.shareAmount \in Nat
<1>1. r.status \in RecordStatus
  BY DEF Record
<1>2. r # NoRecord
  BY <1>1 DEF RecordStatus, NoRecord
<1> QED
  BY <1>1, <1>2 DEF Record

LEMMA PickIsTyped ==
    ASSUME NEW k \in Pick(OutcomeArg)
    PROVE  /\ k # NoPick /\ k.status \in PickStatus /\ k.prediction \in OutcomeArg
           /\ k.paid \in BOOLEAN
<1>1. k.status \in PickStatus
  BY DEF Pick
<1>2. k # NoPick
  BY <1>1 DEF PickStatus, NoPick
<1> QED
  BY <1>1, <1>2 DEF Pick

\* createPool, with or without the host's pick.
LEMMA CreateRecordMirror ==
    ASSUME MirrorTypes, \A q \in Pool : MirrorOf(q), UNCHANGED chainVars,
           NEW host \in Member, NEW p \in Pool, NEW terms \in Terms,
           record[p] = NoRecord, record' = [record EXCEPT ![p] = NewRecord(host, terms)],
           \/ pick' = pick
           \/ \E x \in OutcomeArg : pick' = [pick EXCEPT ![p][host] = NewPick(x)]
    PROVE  MirrorStays
<1>1. NewRecord(host, terms) \in Record(Terms, OutcomeArg)
  BY DEF NewRecord, Record, RecordStatus
<1>2. \A x \in OutcomeArg :
        NewPick(x) \in Pick(OutcomeArg) /\ NewPick(x).status = "active"
  BY DEF NewPick, Pick, PickStatus
<1>3. MirrorTypes' /\ record'[p] = NewRecord(host, terms)
  BY <1>1, <1>2 DEF MirrorTypes
<1>4. record'[p] # NoRecord /\ record'[p].status = "open" /\ record'[p].shareAmount = 0
  <2>1. record'[p] # NoRecord
    BY <1>1, <1>3, RecordIsTyped
  <2> QED
    BY <1>3, <2>1 DEF NewRecord
<1>5. ASSUME NEW q \in Pool, q # p PROVE MirrorOf(q)' /\ record'[q] = record[q]
  <2>1. record'[q] = record[q] /\ pick'[q] = pick[q]
    BY <1>5 DEF MirrorTypes
  <2> QED
    BY <2>1, MirrorUntouched
<1>6. \A k \in Member : pick'[p][k] = NoPick \/ pick'[p][k].status = "active"
  <2>1. \A k \in Member : pick[p][k] = NoPick
    BY DEF MirrorOf, MirrorBehind
  <2> QED
    BY <1>2, <2>1 DEF MirrorTypes
<1>7. MirrorOf(p)'
  <2>1. /\ pool[p] = Chain!NoPool
        /\ \A k \in Member : k \notin Chain!Entrants(p)
    BY DEF MirrorOf, MirrorBehind
  <2>2. \A k \in Member : PickHolds(p, k)'
    BY <1>4, <1>6 DEF PickHolds, Settled
  <2> QED
    BY <1>4, <2>1, <2>2
    DEF MirrorOf, MirrorBehind, NeverAhead, ShareHolds, chainVars, Chain!Entrants, Settled
<1> QED
  BY <1>3, <1>4, <1>5, <1>7 DEF MirrorStays, RecordsKept

\* createEntry: the record is open, so no verdict is out.
LEMMA CreateEntryMirror ==
    ASSUME MirrorTypes, \A q \in Pool : MirrorOf(q), UNCHANGED chainVars,
           NEW m \in Member, NEW p \in Pool, NEW x \in OutcomeArg, NEW time,
           CreateEntry(m, p, x, time)
    PROVE  MirrorStays
<1>1. /\ record[p].status = "open" /\ pick[p][m] = NoPick
      /\ record' = record
      /\ pick' = [pick EXCEPT ![p][m] = NewPick(x)]
  BY DEF CreateEntry
<1>2. NewPick(x) \in Pick(OutcomeArg) /\ NewPick(x).status = "active"
  BY DEF NewPick, Pick, PickStatus
<1>3. MirrorTypes' /\ pick'[p][m] = NewPick(x)
  BY <1>1, <1>2 DEF MirrorTypes
<1>4. \A k \in Member : k # m => pick'[p][k] = pick[p][k]
  BY <1>1 DEF MirrorTypes
<1>5. ASSUME NEW q \in Pool, q # p PROVE MirrorOf(q)'
  <2>1. pick'[q] = pick[q]
    BY <1>1, <1>5
  <2> QED
    BY <1>1, <2>1, MirrorUntouched
<1>6. MirrorOf(p)'
  <2>1. m \notin Chain!Entrants(p)
    BY <1>1 DEF MirrorOf, MirrorBehind
  <2>2. record[p] # NoRecord
    BY <1>1 DEF NoRecord
  <2>3. ASSUME NEW k \in Member PROVE PickHolds(p, k)'
    <3>1. CASE k = m
      BY <1>1, <1>2, <1>3, <3>1 DEF PickHolds, Settled
    <3>2. CASE k # m
      BY <1>1, <1>4, <3>2 DEF MirrorOf, PickHolds, chainVars
    <3> QED
      BY <3>1, <3>2
  <2> QED
    BY <1>1, <1>4, <2>1, <2>2, <2>3
    DEF MirrorOf, MirrorBehind, NeverAhead, ShareHolds, chainVars, Chain!Entrants
<1> QED
  BY <1>1, <1>3, <1>5, <1>6 DEF MirrorStays, RecordsKept

\* What does not show in a status, a result or a prediction does not matter.
LEMMA MirrorRelabelled ==
    ASSUME NEW p \in Pool, MirrorOf(p), UNCHANGED chainVars,
           record[p] # NoRecord, record'[p] # NoRecord,
           record'[p].status = record[p].status \/ record'[p].status \notin Settled,
           record'[p].winningOutcome = record[p].winningOutcome,
           record'[p].winnerCount = record[p].winnerCount,
           record'[p].shareAmount = record[p].shareAmount,
           \A m \in Member :
                /\ pick[p][m] = NoPick => pick'[p][m] = NoPick
                /\ pick[p][m] # NoPick =>
                    /\ pick'[p][m] # NoPick
                    /\ pick'[p][m].status = pick[p][m].status
                    /\ pick'[p][m].prediction = pick[p][m].prediction
    PROVE  MirrorOf(p)'
<1>1. \A m \in Member : PickHolds(p, m)'
  BY DEF MirrorOf, PickHolds, chainVars
<1> QED
  BY <1>1 DEF MirrorOf, MirrorBehind, NeverAhead, ShareHolds, chainVars, Chain!Entrants

\* recordTxSignature
LEMMA RecordCreateMirror ==
    ASSUME MirrorTypes, \A q \in Pool : MirrorOf(q), UNCHANGED chainVars,
           NEW p \in Pool, RecordCreateTx(p)
    PROVE  MirrorStays
<1>1. /\ record[p] # NoRecord
      /\ record' = [record EXCEPT ![p].onChain = TRUE]
      /\ pick' = [pick EXCEPT ![p] =
            [m \in Member |-> IF m = record[p].hostWallet /\ pick[p][m] # NoPick
                              THEN [pick[p][m] EXCEPT !.paid = TRUE]
                              ELSE pick[p][m]]]
  BY DEF RecordCreateTx
<1>2. record[p] \in Record(Terms, OutcomeArg)
  BY <1>1 DEF MirrorTypes
<1>3. record'[p] = [record[p] EXCEPT !.onChain = TRUE]
  BY <1>1 DEF MirrorTypes
<1>4. /\ record'[p] \in Record(Terms, OutcomeArg)
      /\ record'[p].status = record[p].status
      /\ record'[p].winningOutcome = record[p].winningOutcome
      /\ record'[p].winnerCount = record[p].winnerCount
      /\ record'[p].shareAmount = record[p].shareAmount
  BY <1>2, <1>3 DEF Record
<1>5. ASSUME NEW m \in Member
      PROVE  /\ pick[p][m] = NoPick => pick'[p][m] = NoPick
             /\ pick[p][m] # NoPick =>
                    /\ pick'[p][m] \in Pick(OutcomeArg)
                    /\ pick'[p][m].status = pick[p][m].status
                    /\ pick'[p][m].prediction = pick[p][m].prediction
  <2>1. pick'[p][m] = IF m = record[p].hostWallet /\ pick[p][m] # NoPick
                      THEN [pick[p][m] EXCEPT !.paid = TRUE] ELSE pick[p][m]
    BY <1>1 DEF MirrorTypes
  <2>2. pick[p][m] # NoPick => pick[p][m] \in Pick(OutcomeArg)
    BY DEF MirrorTypes
  <2> QED
    BY <2>1, <2>2 DEF Pick
<1>6. record' \in [Pool -> Record(Terms, OutcomeArg) \cup {NoRecord}]
  BY <1>1, <1>3, <1>4 DEF MirrorTypes
<1>7. pick' \in [Pool -> [Member -> Pick(OutcomeArg) \cup {NoPick}]]
  <2>1. pick'[p] \in [Member -> Pick(OutcomeArg) \cup {NoPick}]
    <3>1. pick'[p] = [m \in Member |-> IF m = record[p].hostWallet /\ pick[p][m] # NoPick
                                       THEN [pick[p][m] EXCEPT !.paid = TRUE]
                                       ELSE pick[p][m]]
      BY <1>1 DEF MirrorTypes
    <3>2. \A m \in Member : pick'[p][m] \in Pick(OutcomeArg) \cup {NoPick}
      BY <1>5
    <3> QED
      BY <3>1, <3>2
  <2> QED
    BY <1>1, <2>1 DEF MirrorTypes
<1>8. ASSUME NEW q \in Pool, q # p PROVE MirrorOf(q)'
  <2>1. record'[q] = record[q] /\ pick'[q] = pick[q]
    BY <1>1, <1>8 DEF MirrorTypes
  <2> QED
    BY <1>1, <2>1, MirrorUntouched
<1>9. MirrorOf(p)' /\ record'[p] # NoRecord
  <2>1. record'[p] # NoRecord /\ \A m \in Member : pick[p][m] # NoPick => pick'[p][m] # NoPick
    BY <1>4, <1>5, RecordIsTyped, PickIsTyped
  <2> QED
    BY <1>1, <1>4, <1>5, <2>1, MirrorRelabelled
<1> QED
  BY <1>1, <1>6, <1>7, <1>8, <1>9 DEF MirrorStays, MirrorTypes, RecordsKept

LEMMA RecordEnterMirror ==
    ASSUME MirrorTypes, \A q \in Pool : MirrorOf(q), UNCHANGED chainVars,
           NEW m \in Member, NEW p \in Pool, RecordEnterTx(m, p)
    PROVE  MirrorStays
<1>1. /\ pick[p][m] # NoPick /\ record' = record
      /\ pick' = [pick EXCEPT ![p][m].paid = TRUE]
  BY DEF RecordEnterTx
<1>2. pick[p][m] \in Pick(OutcomeArg) /\ pick'[p][m] = [pick[p][m] EXCEPT !.paid = TRUE]
  BY <1>1 DEF MirrorTypes
<1>3. /\ pick'[p][m] \in Pick(OutcomeArg)
      /\ pick'[p][m].status = pick[p][m].status
      /\ pick'[p][m].prediction = pick[p][m].prediction
  BY <1>2 DEF Pick
<1>4. \A k \in Member : k # m => pick'[p][k] = pick[p][k]
  BY <1>1 DEF MirrorTypes
<1>5. MirrorTypes'
  BY <1>1, <1>2, <1>3 DEF MirrorTypes
<1>6. ASSUME NEW q \in Pool, q # p PROVE MirrorOf(q)'
  <2>1. pick'[q] = pick[q]
    BY <1>1, <1>6 DEF MirrorTypes
  <2> QED
    BY <1>1, <2>1, MirrorUntouched
<1>7. MirrorOf(p)'
  <2>1. record[p] # NoRecord
    BY <1>1 DEF MirrorOf, MirrorBehind
  <2>2. pick'[p][m] # NoPick
    BY <1>3, PickIsTyped
  <2> QED
    BY <1>1, <1>3, <1>4, <2>1, <2>2, MirrorRelabelled
<1> QED
  BY <1>1, <1>5, <1>6, <1>7 DEF MirrorStays, RecordsKept

\* MarkLocked may reopen a settled record; it says nothing then.
LEMMA MarkLockedMirror ==
    ASSUME MirrorTypes, \A q \in Pool : MirrorOf(q), UNCHANGED chainVars,
           NEW p \in Pool, record[p] # NoRecord, MarkLocked(p)
    PROVE  MirrorStays
<1>1. record[p] \in Record(Terms, OutcomeArg) /\ pick' = pick
  BY DEF MirrorTypes, MarkLocked
<1>2. record'[p] = [record[p] EXCEPT !.status = "locked"]
  BY DEF MarkLocked, MirrorTypes
<1>3. /\ record'[p] \in Record(Terms, OutcomeArg) /\ record'[p].status \notin Settled
      /\ record'[p].winningOutcome = record[p].winningOutcome
      /\ record'[p].winnerCount = record[p].winnerCount
      /\ record'[p].shareAmount = record[p].shareAmount
  BY <1>1, <1>2 DEF Record, RecordStatus, Settled
<1>4. record'[p] # NoRecord
  BY <1>3, RecordIsTyped
<1>5. MirrorTypes'
  BY <1>1, <1>2, <1>3 DEF MirrorTypes, MarkLocked
<1>6. ASSUME NEW q \in Pool, q # p PROVE MirrorOf(q)' /\ record'[q] = record[q]
  <2>1. record'[q] = record[q]
    BY <1>6 DEF MarkLocked, MirrorTypes
  <2> QED
    BY <1>1, <2>1, MirrorUntouched
<1>7. MirrorOf(p)'
  BY <1>1, <1>3, <1>4, MirrorRelabelled
<1> QED
  BY <1>4, <1>5, <1>6, <1>7 DEF MirrorStays, RecordsKept

\* updateEntryStatuses gives every active pick its verdict and no other one.
LEMMA SettlePicksEffect ==
    ASSUME MirrorTypes, NEW p \in Pool, NEW verdict, SettlePicks(p, verdict),
           \A m \in Pickers(p) : verdict[m] \in {"won", "lost", "refunded"}
    PROVE  /\ pick' \in [Pool -> [Member -> Pick(OutcomeArg) \cup {NoPick}]]
           /\ \A q \in Pool : q # p => pick'[q] = pick[q]
           /\ \A m \in Member :
                /\ pick[p][m] = NoPick => pick'[p][m] = NoPick
                /\ pick[p][m] # NoPick =>
                    /\ pick'[p][m] # NoPick
                    /\ pick'[p][m].prediction = pick[p][m].prediction
                    /\ pick'[p][m].paid = pick[p][m].paid
                    /\ pick'[p][m].status # "active"
                    /\ \/ pick'[p][m].status = pick[p][m].status
                       \/ m \in Pickers(p) /\ pick'[p][m].status = verdict[m]
<1>1. pick' = [pick EXCEPT ![p] =
        [m \in Member |-> IF pick[p][m].status = "active"
                          THEN [pick[p][m] EXCEPT !.status = verdict[m]]
                          ELSE pick[p][m]]]
  BY DEF SettlePicks
<1>2. pick'[p] = [m \in Member |-> IF pick[p][m].status = "active"
                          THEN [pick[p][m] EXCEPT !.status = verdict[m]]
                          ELSE pick[p][m]]
  BY <1>1 DEF MirrorTypes
<1>3. ASSUME NEW m \in Member
      PROVE  /\ pick'[p][m] \in Pick(OutcomeArg) \cup {NoPick}
             /\ pick[p][m] = NoPick => pick'[p][m] = NoPick
             /\ pick[p][m] # NoPick =>
                    /\ pick'[p][m] # NoPick
                    /\ pick'[p][m].prediction = pick[p][m].prediction
                    /\ pick'[p][m].paid = pick[p][m].paid
                    /\ pick'[p][m].status # "active"
                    /\ \/ pick'[p][m].status = pick[p][m].status
                       \/ m \in Pickers(p) /\ pick'[p][m].status = verdict[m]
  <2>1. pick'[p][m] = IF pick[p][m].status = "active"
                      THEN [pick[p][m] EXCEPT !.status = verdict[m]]
                      ELSE pick[p][m]
    BY <1>2
  <2>2. CASE pick[p][m] = NoPick
    <3>1. pick[p][m].status # "active"
      BY <2>2 DEF NoPick
    <3> QED
      BY <2>1, <2>2, <3>1
  <2>3. CASE pick[p][m] # NoPick
    <3>1. pick[p][m] \in Pick(OutcomeArg) /\ m \in Pickers(p)
      BY <2>3 DEF MirrorTypes, Pickers
    <3>2. CASE pick[p][m].status = "active"
      <4>1. pick'[p][m] = [pick[p][m] EXCEPT !.status = verdict[m]]
        BY <2>1, <3>2
      <4>2. verdict[m] \in {"won", "lost", "refunded"}
        BY <3>1
      <4>3. /\ pick'[p][m] \in Pick(OutcomeArg)
            /\ pick'[p][m].prediction = pick[p][m].prediction
            /\ pick'[p][m].paid = pick[p][m].paid
            /\ pick'[p][m].status = verdict[m]
        BY <3>1, <4>1, <4>2 DEF Pick, PickStatus
      <4> QED
        BY <2>3, <3>1, <4>2, <4>3, PickIsTyped
    <3>3. CASE pick[p][m].status # "active"
      BY <2>1, <2>3, <3>1, <3>3
    <3> QED
      BY <3>2, <3>3
  <2> QED
    BY <2>2, <2>3
<1>4. pick'[p] \in [Member -> Pick(OutcomeArg) \cup {NoPick}]
  BY <1>2, <1>3
<1>5. pick' \in [Pool -> [Member -> Pick(OutcomeArg) \cup {NoPick}]]
  BY <1>1, <1>4 DEF MirrorTypes
<1>6. \A q \in Pool : q # p => pick'[q] = pick[q]
  BY <1>1 DEF MirrorTypes
<1> QED
  BY <1>3, <1>5, <1>6

\* What the three ways to copy a result into the mirror have in common.
LEMMA ResultEffect ==
    ASSUME MirrorTypes, \A q \in Pool : MirrorOf(q), UNCHANGED chainVars,
           NEW p \in Pool, record[p] # NoRecord,
           record'[p] \in Record(Terms, OutcomeArg),
           \A q \in Pool : q # p => record'[q] = record[q],
           record' \in [Pool -> Record(Terms, OutcomeArg) \cup {NoRecord}],
           record'[p].status \in Settled,
           pool[p].status = ChainStatus[record'[p].status],
           record'[p].status # "cancelled" =>
              /\ record'[p].winningOutcome = pool[p].winning_outcome
              /\ record'[p].winnerCount = pool[p].winner_count
              /\ record'[p].shareAmount = pool[p].share_amount,
           pool[p].status # "Resolved" => record'[p].shareAmount = 0,
           NEW verdict, SettlePicks(p, verdict),
           \A m \in Pickers(p) :
              \/ /\ verdict[m] = "won" /\ pool[p].status = "Resolved"
                 /\ pick[p][m].prediction = pool[p].winning_outcome
              \/ /\ verdict[m] = "lost" /\ pool[p].status = "Resolved"
                 /\ pick[p][m].prediction # pool[p].winning_outcome
              \/ verdict[m] = "refunded" /\ pool[p].status \in {"Voided", "Cancelled"}
    PROVE  MirrorStays
<1>1. /\ pick' \in [Pool -> [Member -> Pick(OutcomeArg) \cup {NoPick}]]
      /\ \A q \in Pool : q # p => pick'[q] = pick[q]
      /\ \A m \in Member :
              /\ pick[p][m] = NoPick => pick'[p][m] = NoPick
              /\ pick[p][m] # NoPick =>
                  /\ pick'[p][m] # NoPick
                  /\ pick'[p][m].prediction = pick[p][m].prediction
                  /\ pick'[p][m].status # "active"
                  /\ \/ pick'[p][m].status = pick[p][m].status
                     \/ m \in Pickers(p) /\ pick'[p][m].status = verdict[m]
  BY SettlePicksEffect
<1>2. record'[p] # NoRecord
  BY RecordIsTyped
<1>3. ASSUME NEW q \in Pool, q # p PROVE MirrorOf(q)'
  BY <1>1, <1>3, MirrorUntouched
<1>4. ASSUME NEW m \in Member PROVE PickHolds(p, m)'
  <2>1. CASE pick[p][m] = NoPick
    BY <1>1, <2>1 DEF PickHolds
  <2>2. CASE pick[p][m] # NoPick
    <3>1. PickHolds(p, m) /\ pool' = pool
      BY DEF MirrorOf, chainVars
    <3>2. \/ /\ pick'[p][m].status = "won" /\ pool[p].status = "Resolved"
             /\ pick[p][m].prediction = pool[p].winning_outcome
          \/ /\ pick'[p][m].status = "lost" /\ pool[p].status = "Resolved"
             /\ pick[p][m].prediction # pool[p].winning_outcome
          \/ pick'[p][m].status = "refunded" /\ pool[p].status \in {"Voided", "Cancelled"}
          \/ pick'[p][m].status = pick[p][m].status
      BY <1>1, <2>2
    <3>3. /\ pick'[p][m].prediction = pick[p][m].prediction
          /\ pick'[p][m].status # "active"
      BY <1>1, <2>2
    <3> QED
      BY <2>2, <3>1, <3>2, <3>3 DEF PickHolds
  <2> QED
    BY <2>1, <2>2
<1>5. pool' = pool /\ entry' = entry /\ config' = config
  BY DEF chainVars
<1>6. MirrorOf(p)'
  <2>1. ShareHolds(p)'
    BY <1>5 DEF ShareHolds
  <2>2. ASSUME NEW m \in Member, m \in Chain!Entrants(p)'
        PROVE  pick'[p][m] # NoPick /\ pick'[p][m].prediction = entry'[p][m].prediction
    <3>1. m \in Chain!Entrants(p)
      BY <1>5, <2>2 DEF Chain!Entrants
    <3> QED
      BY <1>1, <1>5, <3>1 DEF MirrorOf, MirrorBehind
  <2>3. pool'[p] # Chain!NoPool => config' # Chain!NoConfig
    BY <1>5 DEF MirrorOf, MirrorBehind
  <2> QED
    BY <1>2, <1>4, <1>5, <2>1, <2>2, <2>3 DEF MirrorOf, MirrorBehind, NeverAhead
<1> QED
  BY <1>1, <1>2, <1>3, <1>6 DEF MirrorStays, MirrorTypes, RecordsKept

LEMMA MarkResolvedMirror ==
    ASSUME MirrorTypes, \A q \in Pool : MirrorOf(q), UNCHANGED chainVars,
           NEW p \in Pool, record[p] \in Record(Terms, OutcomeArg),
           NEW w \in OutcomeArg, NEW n \in Nat, NEW share \in Nat,
           pool[p].status = "Resolved", pool[p].winning_outcome = w,
           pool[p].winner_count = n, pool[p].share_amount = share,
           MarkResolved(p, w, n, share)
    PROVE  MirrorStays
<1>1. /\ record' = [record EXCEPT ![p].status = "resolved", ![p].winningOutcome = w,
                                  ![p].winnerCount = n, ![p].shareAmount = share]
      /\ SettlePicks(p, [m \in Pickers(p) |->
                            IF pick[p][m].prediction = w THEN "won" ELSE "lost"])
  BY DEF MarkResolved
<1>2. record'[p] = [record[p] EXCEPT !.status = "resolved", !.winningOutcome = w,
                                     !.winnerCount = n, !.shareAmount = share]
  BY <1>1 DEF MirrorTypes
<1>3. /\ record'[p] \in Record(Terms, OutcomeArg) /\ record'[p].status = "resolved"
      /\ record'[p].winningOutcome = w /\ record'[p].winnerCount = n
      /\ record'[p].shareAmount = share
  BY <1>2 DEF Record, RecordStatus
<1>4. /\ \A q \in Pool : q # p => record'[q] = record[q]
      /\ record' \in [Pool -> Record(Terms, OutcomeArg) \cup {NoRecord}]
  BY <1>1, <1>2, <1>3 DEF MirrorTypes
<1>5. PICK verdict : /\ SettlePicks(p, verdict)
                     /\ \A m \in Pickers(p) :
                            verdict[m] = IF pick[p][m].prediction = w THEN "won" ELSE "lost"
  BY <1>1
<1>6. "resolved" \in Settled /\ ChainStatus["resolved"] = "Resolved"
  BY DEF Settled, ChainStatus
<1>7. record[p] # NoRecord
  BY RecordIsTyped
<1>8. \A m \in Pickers(p) :
              \/ /\ verdict[m] = "won" /\ pool[p].status = "Resolved"
                 /\ pick[p][m].prediction = pool[p].winning_outcome
              \/ /\ verdict[m] = "lost" /\ pool[p].status = "Resolved"
                 /\ pick[p][m].prediction # pool[p].winning_outcome
  BY <1>5
<1> QED
  BY <1>3, <1>4, <1>5, <1>6, <1>7, <1>8, ResultEffect

LEMMA VoidedRecord ==
    ASSUME MirrorTypes, NEW p \in Pool, record[p] \in Record(Terms, OutcomeArg),
           NEW w \in OutcomeArg, MarkVoided(p, w)
    PROVE  /\ record'[p] \in Record(Terms, OutcomeArg) /\ record'[p].status = "voided"
           /\ record'[p].winningOutcome = w /\ record'[p].winnerCount = 0
           /\ record'[p].shareAmount = record[p].shareAmount
<1>0. PICK none \in Nat : none = 0
  OBVIOUS
<1>1. record'[p] = [record[p] EXCEPT !.status = "voided", !.winningOutcome = w,
                                     !.winnerCount = none]
  BY <1>0 DEF MirrorTypes, MarkVoided
<1>2. /\ record'[p] \in Record(Terms, OutcomeArg) /\ record'[p].status = "voided"
      /\ record'[p].winningOutcome = w /\ record'[p].winnerCount = none
      /\ record'[p].shareAmount = record[p].shareAmount
  BY <1>1 DEF Record, RecordStatus
<1> QED
  BY <1>0, <1>2

\* markVoided and markCancelled: refunds.
LEMMA MarkRefundMirror ==
    ASSUME MirrorTypes, \A q \in Pool : MirrorOf(q), UNCHANGED chainVars,
           NEW p \in Pool, record[p] \in Record(Terms, OutcomeArg),
           \/ /\ pool[p].status = "Voided" /\ pool[p].winner_count = 0
              /\ pool[p].share_amount = 0 /\ pool[p].winning_outcome \in OutcomeArg
              /\ MarkVoided(p, pool[p].winning_outcome)
           \/ pool[p].status = "Cancelled" /\ MarkCancelled(p)
    PROVE  MirrorStays
<1>1. SettlePicks(p, Refunds) /\ \A m \in Pickers(p) : Refunds[m] = "refunded"
  BY DEF MarkVoided, MarkCancelled, Refunds, Pickers
<1>2. record[p] # NoRecord
  BY RecordIsTyped
<1>3. record[p].shareAmount = 0
  BY <1>2 DEF MirrorOf, MirrorBehind, NeverAhead, ShareHolds
<1>4. /\ record'[p] \in Record(Terms, OutcomeArg)
      /\ record'[p].shareAmount = record[p].shareAmount
      /\ record'[p].status \in Settled
      /\ pool[p].status = ChainStatus[record'[p].status]
      /\ record'[p].status # "cancelled" =>
              /\ record'[p].winningOutcome = pool[p].winning_outcome
              /\ record'[p].winnerCount = pool[p].winner_count
              /\ record'[p].shareAmount = pool[p].share_amount
  <2>1. ASSUME NEW w \in OutcomeArg, pool[p].winning_outcome = w, pool[p].winner_count = 0,
               pool[p].share_amount = 0, pool[p].status = "Voided", MarkVoided(p, w)
        PROVE  /\ record'[p] \in Record(Terms, OutcomeArg)
               /\ record'[p].shareAmount = record[p].shareAmount
               /\ record'[p].status \in Settled
               /\ pool[p].status = ChainStatus[record'[p].status]
               /\ record'[p].status # "cancelled" =>
                    /\ record'[p].winningOutcome = pool[p].winning_outcome
                    /\ record'[p].winnerCount = pool[p].winner_count
                    /\ record'[p].shareAmount = pool[p].share_amount
    <3>1. /\ record'[p] \in Record(Terms, OutcomeArg) /\ record'[p].status = "voided"
          /\ record'[p].winningOutcome = w /\ record'[p].winnerCount = 0
          /\ record'[p].shareAmount = record[p].shareAmount
      BY <2>1, VoidedRecord
    <3> QED
      BY <1>3, <2>1, <3>1 DEF Settled, ChainStatus
  <2>2. CASE pool[p].status = "Cancelled" /\ MarkCancelled(p)
    <3>1. record'[p] = [record[p] EXCEPT !.status = "cancelled"]
      BY <2>2 DEF MirrorTypes, MarkCancelled
    <3>2. /\ record'[p] \in Record(Terms, OutcomeArg) /\ record'[p].status = "cancelled"
          /\ record'[p].shareAmount = record[p].shareAmount
      BY <3>1 DEF Record, RecordStatus
    <3> QED
      BY <2>2, <3>2 DEF Settled, ChainStatus
  <2> QED
    BY <2>1, <2>2
<1>5. /\ \A q \in Pool : q # p => record'[q] = record[q]
      /\ record' \in [Pool -> Record(Terms, OutcomeArg) \cup {NoRecord}]
  BY <1>4 DEF MirrorTypes, MarkVoided, MarkCancelled
<1> QED
  BY <1>1, <1>2, <1>3, <1>4, <1>5, ResultEffect

-----------------------------------------------------------------------------
(* What the invariant says to members *)

LEMMA JointVerdicts == JointInv => VerdictsHold
<1> SUFFICES ASSUME JointInv, NEW p \in Pool, NEW m \in Chain!Entrants(p)
             PROVE  LET verdict == pick[p][m].status
                        wins == entry[p][m].prediction = pool[p].winning_outcome
                        Covers(amount) == m \in Chain!Claimed(p) \/ vault[p] >= amount
                    IN  /\ verdict = "won" =>
                            /\ pool[p].status = "Resolved" /\ wins
                            /\ Covers(pool[p].share_amount)
                        /\ verdict = "lost" => pool[p].status = "Resolved" /\ ~wins
                        /\ verdict = "refunded" =>
                            /\ pool[p].status \in {"Voided", "Cancelled"}
                            /\ Covers(entry[p][m].stake_paid)
                        /\ record[p].status \in Settled => verdict # "active"
  BY DEF VerdictsHold
<1>1. m \in Member
  BY DEF Chain!Entrants
<1>2. pick[p][m] # NoPick /\ pick[p][m].prediction = entry[p][m].prediction /\ PickHolds(p, m)
  BY <1>1 DEF JointInv, MirrorOf, MirrorBehind
<1>3. Chain!ClaimsCovered
  BY CoveredClaims DEF JointInv
<1>4. m \notin Chain!Claimed(p) =>
        /\ pool[p].status = "Resolved" /\ m \in Chain!Winners(p, pool[p].winning_outcome)
            => vault[p] >= pool[p].share_amount
        /\ pool[p].status \in {"Voided", "Cancelled"} => vault[p] >= entry[p][m].stake_paid
  BY <1>3 DEF Chain!ClaimsCovered
<1>5. entry[p][m].prediction = pool[p].winning_outcome
        => m \in Chain!Winners(p, pool[p].winning_outcome)
  BY DEF Chain!Winners
<1> QED
  BY <1>2, <1>4, <1>5 DEF PickHolds

=============================================================================
