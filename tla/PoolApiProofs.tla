--------------------------- MODULE PoolApiProofs ---------------------------
(***************************************************************************)
(* Proofs about PoolApi: what the pages offer a member agrees with what    *)
(* the program on the chain would accept.  The transactions that are under *)
(* way carry the argument: what one of them was built from, and what the   *)
(* chain owes the mirror until it is reported.                             *)
(***************************************************************************)
EXTENDS PoolApi, MirroredChainProofs

-----------------------------------------------------------------------------
(* What no step takes back *)

\* A record keeps its host and its terms; onChain and paid are never cleared.
RecordKept(p) ==
    record[p] # NoRecord =>
        /\ record'[p] # NoRecord
        /\ record'[p].hostWallet = record[p].hostWallet
        /\ record'[p].terms = record[p].terms
        /\ record[p].onChain => record'[p].onChain
PicksKept(p) ==
    \A m \in Member : pick[p][m] # NoPick =>
        /\ pick'[p][m] # NoPick
        /\ pick[p][m].paid => pick'[p][m].paid
MirrorGrows == \A p \in Pool : RecordKept(p) /\ PicksKept(p)

\* Accounts and claims are never removed.
ChainGrows ==
    \A p \in Pool :
        /\ ProgressKept(p)
        /\ EntriesKept(p)
        /\ Chain!Claimed(p) \subseteq Chain!Claimed(p)'

\* A report that is on its way stays under way.
ReportsKept == \A m \in Member : \A t \in tx[m] : t.at = "report" => t \in tx'[m]

LEMMA BuiltKept ==
    ASSUME NEW m \in Member, NEW t, t.pool \in Pool, MirrorGrows, Built(m, t)
    PROVE  Built(m, t)'
BY DEF Built, MirrorGrows, RecordKept, PicksKept

LEMMA EffectKept ==
    ASSUME NEW m \in Member, NEW t, t.pool \in Pool, ChainGrows, TookEffect(m, t)
    PROVE  TookEffect(m, t)'
BY DEF TookEffect, ChainGrows, ProgressKept, EntriesKept

\* A step that starts no mutation.
LEMMA MutationsKept ==
    ASSUME TypeOK, MirrorGrows, ChainGrows, NEW m \in Member, MutationsHold(m),
           tx'[m] \subseteq tx[m]
    PROVE  MutationsHold(m)'
<1>1. ASSUME NEW t \in tx'[m]
      PROVE  /\ t.bundled => t.kind = "create"
             /\ Built(m, t)'
             /\ t.at = "report" => TookEffect(m, t)'
  <2>1. t \in tx[m] /\ t.pool \in Pool
    BY DEF TypeOK, Mutation
  <2> QED
    BY <2>1, BuiltKept, EffectKept DEF MutationsHold
<1>2. \A t, u \in tx'[m] : t.by = u.by => t = u
  BY DEF MutationsHold
<1> QED
  BY <1>1, <1>2 DEF MutationsHold

\* What tryBuild may add to the mutations of a member.
LEMMA OffersEffect ==
    ASSUME TypeOK, NEW m \in Member, NEW t \in Mutation, Offers(m, t)
    PROVE  /\ tx' \in [Member -> SUBSET Mutation]
           /\ ReportsKept
           /\ \A k \in Member : k # m => tx'[k] = tx[k]
           /\ tx'[m] \subseteq tx[m] \cup {t}
BY DEF TypeOK, Offers, ReportsKept

\* The button of a mutation is disabled while the mutation is under way.
LEMMA OffersHold ==
    ASSUME TypeOK, MirrorGrows, ChainGrows, \A k \in Member : MutationsHold(k),
           NEW m \in Member, NEW t \in Mutation, Offers(m, t), Free(m, t.by),
           t.at = "wallet", t.bundled => t.kind = "create", Built(m, t)'
    PROVE  \A k \in Member : MutationsHold(k)'
<1>1. /\ \A k \in Member : k # m => tx'[k] = tx[k]
      /\ tx'[m] \subseteq tx[m] \cup {t}
  BY OffersEffect
<1>2. ASSUME NEW k \in Member, k # m PROVE MutationsHold(k)'
  <2>1. tx'[k] \subseteq tx[k]
    BY <1>1, <1>2
  <2> QED
    BY <2>1, MutationsKept
<1>3. MutationsHold(m)'
  <2>1. ASSUME NEW u \in tx'[m]
        PROVE  /\ u.bundled => u.kind = "create"
               /\ Built(m, u)'
               /\ u.at = "report" => TookEffect(m, u)'
    <3>1. CASE u = t
      BY <3>1
    <3>2. CASE u \in tx[m]
      <4>1. u.pool \in Pool
        BY <3>2 DEF TypeOK, Mutation
      <4> QED
        BY <3>2, <4>1, BuiltKept, EffectKept DEF MutationsHold
    <3> QED
      BY <1>1, <3>1, <3>2
  <2>2. \A u, v \in tx'[m] : u.by = v.by => u = v
    BY <1>1 DEF MutationsHold, Free
  <2> QED
    BY <2>1, <2>2 DEF MutationsHold
<1> QED
  BY <1>2, <1>3

\* What the mirror does not know stays on its way.
LEMMA KnownKept ==
    ASSUME MirrorGrows, NEW p \in Pool, ReportsKept,
           MirrorBehind(p), ChainKnown(p),
           pool'[p] # Chain!NoPool => pool[p] # Chain!NoPool,
           Chain!Entrants(p)' \subseteq Chain!Entrants(p)
    PROVE  ChainKnown(p)'
<1>1. ASSUME pool'[p] # Chain!NoPool
      PROVE  \/ record'[p].onChain
             \/ \E m \in Member : \E t \in tx'[m] :
                    t.at = "report" /\ t.pool = p /\ t.kind = "create"
  <2>1. pool[p] # Chain!NoPool /\ record[p] # NoRecord
    BY <1>1 DEF MirrorBehind
  <2> QED
    BY <2>1 DEF ChainKnown, MirrorGrows, RecordKept, ReportsKept
<1>2. ASSUME NEW m \in Chain!Entrants(p)'
      PROVE  pick'[p][m].paid \/ Reporting(m, p)'
  <2>1. m \in Member /\ m \in Chain!Entrants(p)
    BY DEF Chain!Entrants
  <2>2. pick[p][m] # NoPick
    BY <2>1 DEF MirrorBehind
  <2>3. CASE pick[p][m].paid
    BY <2>1, <2>2, <2>3 DEF MirrorGrows, PicksKept
  <2>4. CASE Reporting(m, p)
    BY <2>1, <2>4 DEF Reporting, ReportsKept
  <2> QED
    BY <2>1, <2>3, <2>4 DEF ChainKnown
<1> QED
  BY <1>1, <1>2 DEF ChainKnown

\* The seats of a pool whose picks a step does not change.
LEMMA AgreesKept ==
    ASSUME NEW p \in Pool, MirrorBehind(p), PoolAgrees(p), RecordKept(p), ProgressKept(p),
           record[p] = NoRecord => record'[p] = NoRecord,
           Pickers(p)' = Pickers(p),
           record[p] # NoRecord /\ record'[p].onChain =>
                record[p].onChain \/ pool'[p] # Chain!NoPool,
           pool[p] = Chain!NoPool /\ pool'[p] # Chain!NoPool =>
                /\ record[p] # NoRecord
                /\ pool'[p].max_entries = record[p].terms.max_entries
                /\ pool'[p].stake_amount = record[p].terms.stake_amount,
           pool'[p].status \in {"Resolved", "Voided"} =>
                /\ pool'[p].winning_outcome \in OutcomeArg
                /\ pool'[p].status = "Voided" =>
                    pool'[p].winner_count = 0 /\ pool'[p].share_amount = 0,
           collected'[p] \subseteq Chain!Claimed(p)'
    PROVE  PoolAgrees(p)'
<1>1. record'[p] # NoRecord =>
        /\ Cardinality(Pickers(p)') <= record'[p].terms.max_entries
        /\ record'[p].onChain => pool'[p] # Chain!NoPool
  BY DEF PoolAgrees, RecordKept, ProgressKept
<1>2. pool'[p] # Chain!NoPool =>
        /\ pool'[p].max_entries = record'[p].terms.max_entries
        /\ pool'[p].stake_amount = record'[p].terms.stake_amount
  BY DEF PoolAgrees, RecordKept, ProgressKept, MirrorBehind
<1> QED
  BY <1>1, <1>2 DEF PoolAgrees

-----------------------------------------------------------------------------
(* The steps of the API *)

LEMMA ChainStill ==
    ASSUME IInv, UNCHANGED chainVars
    PROVE  /\ ChainGrows /\ Chain!IInv' /\ Chain!WinnersCovered'
           /\ \A p \in Pool : /\ pool'[p] = pool[p]
                              /\ Chain!Entrants(p)' = Chain!Entrants(p)
                              /\ Chain!Claimed(p)' = Chain!Claimed(p)
<1>1. /\ MirrorTypes /\ Chain!IInv /\ Chain!WinnersCovered /\ [AuditedStep]_chainVars
  BY DEF IInv, JointInv
<1>2. /\ Chain!IInv' /\ Chain!WinnersCovered' /\ \A p \in Pool : ChainKeeps(p)
  BY <1>1, DeploymentStep
<1>3. pool' = pool /\ entry' = entry
  BY DEF chainVars
<1>4. \A p \in Pool : /\ pool'[p] = pool[p]
                     /\ Chain!Entrants(p)' = Chain!Entrants(p)
                     /\ Chain!Claimed(p)' = Chain!Claimed(p)
  BY <1>3 DEF Chain!Entrants, Chain!Claimed
<1> QED
  BY <1>2, <1>4 DEF ChainGrows, ChainKeeps

LEMMA MirrorStill ==
    ASSUME IInv, UNCHANGED chainVars, UNCHANGED mirrorVars
    PROVE  MirrorGrows /\ MirrorStays
<1>1. record' = record /\ pick' = pick
  BY DEF mirrorVars
<1>2. \A p \in Pool : MirrorOf(p)'
  BY <1>1, MirrorUntouched DEF IInv, JointInv
<1> QED
  BY <1>1, <1>2
  DEF IInv, JointInv, MirrorGrows, RecordKept, PicksKept, MirrorStays, MirrorTypes, RecordsKept

\* What is left to show of a step that leaves the chain alone.
LEMMA ApiStep ==
    ASSUME IInv, UNCHANGED chainVars, MirrorStays,
           collected' \in [Pool -> SUBSET Member],
           tx' \in [Member -> SUBSET Mutation],
           lost' \in 0 .. MaxLost,
           \A m \in Member : MutationsHold(m)',
           \A p \in Pool : PoolAgrees(p)',
           lost' = 0 => \A p \in Pool : ChainKnown(p)'
    PROVE  IInv'
<1>1. Chain!IInv' /\ Chain!WinnersCovered' /\ Chain!TypeOK'
  BY ChainStill DEF Chain!IInv
<1> QED
  BY <1>1 DEF IInv, TypeOK, JointInv, MirrorStays

\* Of the pools and the reports when a step adds no pick and marks nothing.
LEMMA QuietStep ==
    ASSUME IInv, UNCHANGED chainVars, MirrorGrows, ReportsKept,
           collected' = collected, lost' = lost
    PROVE  /\ collected' \in [Pool -> SUBSET Member] /\ lost' \in 0 .. MaxLost
           /\ lost' = 0 => \A p \in Pool : ChainKnown(p)'
           /\ \A p \in Pool :
                /\ record[p] = NoRecord => record'[p] = NoRecord
                /\ Pickers(p)' = Pickers(p)
                /\ record[p] # NoRecord => record'[p].onChain = record[p].onChain
                => PoolAgrees(p)'
<1>1. /\ ChainGrows
      /\ \A p \in Pool : /\ pool'[p] = pool[p]
                         /\ Chain!Entrants(p)' = Chain!Entrants(p)
                         /\ Chain!Claimed(p)' = Chain!Claimed(p)
  BY ChainStill
<1>2. \A p \in Pool : MirrorBehind(p) /\ PoolAgrees(p)
  BY DEF IInv, JointInv, MirrorOf
<1>3. lost' = 0 => \A p \in Pool : ChainKnown(p)'
  BY <1>1, <1>2, KnownKept DEF IInv
<1>4. ASSUME NEW p \in Pool, record[p] = NoRecord => record'[p] = NoRecord,
             Pickers(p)' = Pickers(p),
             record[p] # NoRecord => record'[p].onChain = record[p].onChain
      PROVE  PoolAgrees(p)'
  <2>1. /\ RecordKept(p) /\ ProgressKept(p)
        /\ collected'[p] \subseteq Chain!Claimed(p)'
        /\ pool'[p].status \in {"Resolved", "Voided"} =>
                /\ pool'[p].winning_outcome \in OutcomeArg
                /\ pool'[p].status = "Voided" =>
                    pool'[p].winner_count = 0 /\ pool'[p].share_amount = 0
    BY <1>1, <1>2 DEF MirrorGrows, ChainGrows, PoolAgrees
  <2> QED
    BY <1>1, <1>2, <1>4, <2>1, AgreesKept
<1> QED
  BY <1>3, <1>4 DEF IInv, TypeOK

\* A step that only starts a mutation.
LEMMA OfferStep ==
    ASSUME IInv, UNCHANGED <<mirrorVars, chainVars, collected, lost>>,
           NEW m \in Member, NEW t \in Mutation, Offers(m, t), Free(m, t.by),
           t.at = "wallet", t.bundled => t.kind = "create", Built(m, t)
    PROVE  IInv'
<1>1. MirrorGrows /\ MirrorStays /\ ChainGrows
  BY MirrorStill, ChainStill
<1>2. record' = record /\ pick' = pick /\ TypeOK /\ t.pool \in Pool
  BY DEF mirrorVars, IInv, Mutation
<1>3. tx' \in [Member -> SUBSET Mutation] /\ ReportsKept
  BY <1>2, OffersEffect
<1>4. Built(m, t)'
  BY <1>1, <1>2, BuiltKept
<1>5. \A k \in Member : MutationsHold(k)'
  BY <1>1, <1>2, <1>4, OffersHold DEF IInv
<1>6. \A p \in Pool : Pickers(p)' = Pickers(p)
  BY <1>2 DEF Pickers
<1>7. /\ collected' \in [Pool -> SUBSET Member] /\ lost' \in 0 .. MaxLost
      /\ lost' = 0 => \A p \in Pool : ChainKnown(p)'
      /\ \A p \in Pool : PoolAgrees(p)'
  BY <1>1, <1>2, <1>3, <1>6, QuietStep
<1> QED
  BY <1>1, <1>3, <1>5, <1>7, ApiStep

LEMMA FinishCreateStep ==
    ASSUME IInv, NEW m \in Member, NEW p \in Pool, FinishCreate(m, p)
    PROVE  IInv'
<1> DEFINE t == Tx("finishCreate", "create", p, pick[p][m] # NoPick /\ ~pick[p][m].paid)
<1>1. pick[p][m] # NoPick => pick[p][m].paid \in BOOLEAN
  BY PickIsTyped DEF IInv, TypeOK, MirrorTypes
<1>2. /\ t \in Mutation /\ t.at = "wallet" /\ t.kind = "create" /\ t.by = "finishCreate"
      /\ t.pool = p /\ t.bundled = (pick[p][m] # NoPick /\ ~pick[p][m].paid)
  BY <1>1 DEF Tx, Mutation
<1>3. /\ UNCHANGED <<mirrorVars, chainVars, collected, lost>>
      /\ Offers(m, t) /\ Free(m, "finishCreate")
      /\ record[p] # NoRecord /\ record[p].hostWallet = m
  BY DEF FinishCreate, HostMayCreate
<1> HIDE DEF t
<1>4. Built(m, t)
  BY <1>2, <1>3 DEF Built
<1> QED
  BY <1>2, <1>3, <1>4, OfferStep

LEMMA FinishPaymentStep ==
    ASSUME IInv, NEW m \in Member, NEW p \in Pool, FinishPayment(m, p)
    PROVE  IInv'
<1> DEFINE t == Tx("finishPayment", "enter", p, FALSE)
<1>1. /\ t \in Mutation /\ t.at = "wallet" /\ t.kind = "enter" /\ t.by = "finishPayment"
      /\ t.pool = p /\ t.bundled = FALSE
  BY DEF Tx, Mutation
<1>2. /\ UNCHANGED <<mirrorVars, chainVars, collected, lost>>
      /\ Offers(m, t) /\ Free(m, "finishPayment") /\ pick[p][m] # NoPick
  BY DEF FinishPayment
<1> HIDE DEF t
<1>3. Built(m, t)
  BY <1>1, <1>2 DEF Built
<1> QED
  BY <1>1, <1>2, <1>3, OfferStep

LEMMA PayoutStep ==
    ASSUME IInv, NEW m \in Member, NEW p \in Pool, Payout(m, p)
    PROVE  IInv'
<1> DEFINE t == Tx("payout", PayoutButton(m, p), p, FALSE)
<1>1. PayoutButton(m, p) \in {"claim", "refund"}
  BY DEF Payout, PayoutButton
<1>2. /\ t \in Mutation /\ t.at = "wallet" /\ t.kind \in {"claim", "refund"}
      /\ t.by = "payout" /\ t.pool = p /\ t.bundled = FALSE
  BY <1>1 DEF Tx, Mutation
<1>3. /\ UNCHANGED <<mirrorVars, chainVars, collected, lost>>
      /\ Offers(m, t) /\ Free(m, "payout")
  BY DEF Payout
<1> HIDE DEF t
<1>4. Built(m, t)
  BY <1>2 DEF Built
<1> QED
  BY <1>2, <1>3, <1>4, OfferStep

LEMMA PickersFinite ==
    ASSUME NEW p \in Pool
    PROVE  IsFiniteSet(Pickers(p)) /\ Cardinality(Pickers(p)) \in Nat
<1>1. Pickers(p) \in SUBSET Member /\ IsFiniteSet(Member)
  BY ChainArguments, SameFiniteSet DEF Pickers, Chain!ArgumentTypes
<1> QED
  BY <1>1, FS_Subset, FS_CardinalityType

\* POST /pools: no pick was made of a pool that had no record.
LEMMA HostPoolMirror ==
    ASSUME IInv, NEW m \in Member, NEW p \in Pool, NEW terms \in Terms, NEW x \in OutcomeArg,
           HostPool(m, p, terms, x)
    PROVE  /\ MirrorStays /\ MirrorGrows
           /\ record'[p] # NoRecord /\ record'[p].hostWallet = m
           /\ record'[p].terms = terms /\ record'[p].onChain = FALSE
           /\ \A q \in Pool : q # p => record'[q] = record[q] /\ pick'[q] = pick[q]
           /\ Chain!Entrants(p) = {} /\ pool[p] = Chain!NoPool
           /\ \A k \in Member : k # m => pick'[p][k] = NoPick
           /\ \/ pick'[p][m] = NoPick
              \/ pick'[p][m] # NoPick /\ pick'[p][m].paid = FALSE
<1>0. /\ TypeOK /\ MirrorTypes /\ \A q \in Pool : MirrorOf(q)
  BY DEF IInv, JointInv
<1>1. /\ record[p] = NoRecord
      /\ record' = [record EXCEPT ![p] = NewRecord(m, terms)]
      /\ UNCHANGED <<chainVars, collected, lost>>
      /\ \/ pick' = pick
         \/ pick' = [pick EXCEPT ![p][m] = NewPick(x)]
  BY DEF HostPool
<1>2. MirrorStays
  BY <1>0, <1>1, CreateRecordMirror
<1>3. /\ record'[p] # NoRecord /\ record'[p].hostWallet = m
      /\ record'[p].terms = terms /\ record'[p].onChain = FALSE
  <2>1. record'[p] = NewRecord(m, terms)
    BY <1>0, <1>1 DEF MirrorTypes
  <2>2. NewRecord(m, terms) \in Record(Terms, OutcomeArg)
    BY DEF NewRecord, Record, RecordStatus
  <2>3. record'[p] # NoRecord
    BY <2>1, <2>2, RecordIsTyped
  <2> QED
    BY <2>1, <2>3 DEF NewRecord
<1>4. \A q \in Pool : q # p => record'[q] = record[q] /\ pick'[q] = pick[q]
  BY <1>0, <1>1 DEF MirrorTypes
<1>5. /\ \A k \in Member : pick[p][k] = NoPick
      /\ Chain!Entrants(p) = {} /\ pool[p] = Chain!NoPool
  BY <1>0, <1>1 DEF MirrorOf, MirrorBehind, Chain!Entrants
<1>6. MirrorGrows
  BY <1>1, <1>4, <1>5 DEF MirrorGrows, RecordKept, PicksKept
<1>7. /\ \A k \in Member : k # m => pick'[p][k] = NoPick
      /\ \/ pick'[p][m] = NoPick
         \/ pick'[p][m] # NoPick /\ pick'[p][m].paid = FALSE
  <2>1. NewPick(x) # NoPick /\ NewPick(x).paid = FALSE
    BY DEF NewPick, NoPick
  <2> QED
    BY <1>0, <1>1, <1>5, <2>1 DEF MirrorTypes
<1> QED
  BY <1>2, <1>3, <1>4, <1>5, <1>6, <1>7

LEMMA HostPoolStep ==
    ASSUME IInv, NEW m \in Member, NEW p \in Pool, NEW terms \in Terms, NEW x \in OutcomeArg,
           HostPool(m, p, terms, x)
    PROVE  IInv'
<1>0. TypeOK /\ ChainGrows
  BY ChainStill DEF IInv, HostPool
<1>1. /\ record[p] = NoRecord /\ Free(m, "createPool") /\ terms.max_entries >= 2
      /\ UNCHANGED <<chainVars, collected, lost>>
  BY DEF HostPool, ParseCreatePool
<1>2. /\ MirrorStays /\ MirrorGrows
      /\ record'[p] # NoRecord /\ record'[p].hostWallet = m
      /\ record'[p].terms = terms /\ record'[p].onChain = FALSE
      /\ \A q \in Pool : q # p => record'[q] = record[q] /\ pick'[q] = pick[q]
      /\ Chain!Entrants(p) = {} /\ pool[p] = Chain!NoPool
      /\ \A k \in Member : k # m => pick'[p][k] = NoPick
      /\ \/ pick'[p][m] = NoPick
         \/ pick'[p][m] # NoPick /\ pick'[p][m].paid = FALSE
  BY HostPoolMirror, Zenon
<1>3. /\ tx' \in [Member -> SUBSET Mutation] /\ ReportsKept
      /\ \A k \in Member : MutationsHold(k)'
  <2>1. CASE UNCHANGED tx
    BY <1>0, <1>2, <2>1, MutationsKept DEF IInv, TypeOK, ReportsKept
  <2>2. ASSUME NEW b \in BOOLEAN, Offers(m, Tx("createPool", "create", p, b)),
               b => pick'[p][m] # NoPick
        PROVE  /\ tx' \in [Member -> SUBSET Mutation] /\ ReportsKept
               /\ \A k \in Member : MutationsHold(k)'
    <3> DEFINE t == Tx("createPool", "create", p, b)
    <3>1. /\ t \in Mutation /\ t.at = "wallet" /\ t.kind = "create" /\ t.by = "createPool"
          /\ t.pool = p /\ t.bundled = b /\ Offers(m, t)
      BY <2>2 DEF Tx, Mutation
    <3> HIDE DEF t
    <3>2. Built(m, t)'
      BY <1>2, <2>2, <3>1 DEF Built
    <3> QED
      BY <1>0, <1>1, <1>2, <3>1, <3>2, OffersEffect, OffersHold DEF IInv
  <2>3. pick' = [pick EXCEPT ![p][m] = NewPick(x)] => pick'[p][m] # NoPick
    BY DEF IInv, JointInv, MirrorTypes, NewPick, NoPick
  <2> QED
    BY <2>1, <2>2, <2>3 DEF HostPool
<1>4. /\ collected' \in [Pool -> SUBSET Member] /\ lost' \in 0 .. MaxLost
      /\ lost' = 0 => \A q \in Pool : ChainKnown(q)'
      /\ \A q \in Pool :
            /\ record[q] = NoRecord => record'[q] = NoRecord
            /\ Pickers(q)' = Pickers(q)
            /\ record[q] # NoRecord => record'[q].onChain = record[q].onChain
            => PoolAgrees(q)'
  BY <1>1, <1>2, <1>3, QuietStep
<1>5. ASSUME NEW q \in Pool, q # p PROVE PoolAgrees(q)'
  <2>1. Pickers(q)' = Pickers(q)
    BY <1>2, <1>5 DEF Pickers
  <2> QED
    BY <1>2, <1>4, <1>5, <2>1
<1>6. PoolAgrees(p)'
  <2>1. Pickers(p)' \subseteq {m}
    BY <1>2 DEF Pickers
  <2>2. Cardinality(Pickers(p)') <= 1 /\ Cardinality(Pickers(p)') \in Nat
    <3>1. IsFiniteSet({m}) /\ Cardinality({m}) = 1
      BY FS_Singleton
    <3>2. /\ IsFiniteSet(Pickers(p)')
          /\ Cardinality(Pickers(p)') <= Cardinality({m})
      BY <2>1, <3>1, FS_Subset
    <3> QED
      BY <3>1, <3>2, FS_CardinalityType
  <2>3. terms.max_entries \in Nat
    BY TermsTypes
  <2>4. Cardinality(Pickers(p)') <= record'[p].terms.max_entries
    BY <1>1, <1>2, <2>2, <2>3
  <2>5. collected'[p] \subseteq Chain!Claimed(p)' /\ pool'[p] = Chain!NoPool
    BY <1>1, <1>2, ChainStill DEF IInv, PoolAgrees
  <2> QED
    BY <1>2, <2>4, <2>5 DEF PoolAgrees, Chain!NoPool
<1> QED
  BY <1>1, <1>2, <1>3, <1>4, <1>5, <1>6, ApiStep

\* POST /pools/:id/entries: the pick takes a seat of the record.
LEMMA EnterStep ==
    ASSUME IInv, NEW m \in Member, NEW p \in Pool, NEW x \in OutcomeArg, Enter(m, p, x)
    PROVE  IInv'
<1>0. /\ TypeOK /\ MirrorTypes /\ \A q \in Pool : MirrorOf(q)
  BY DEF IInv, JointInv
<1>1. /\ CreateEntry(m, p, x, now) /\ Free(m, "enterPool")
      /\ Cardinality(Pickers(p)) < record[p].terms.max_entries
      /\ record[p].status = "open" /\ pick[p][m] = NoPick
      /\ record' = record /\ pick' = [pick EXCEPT ![p][m] = NewPick(x)]
      /\ UNCHANGED <<chainVars, collected, lost>>
  <2>1. /\ CreateEntry(m, p, x, now) /\ Free(m, "enterPool")
        /\ UNCHANGED <<chainVars, collected, lost>>
    BY DEF Enter
  <2> QED
    BY <2>1 DEF CreateEntry
<1>2. MirrorStays /\ ChainGrows
  BY <1>0, <1>1, CreateEntryMirror, ChainStill
<1>3. /\ \A q \in Pool : q # p => pick'[q] = pick[q]
      /\ \A k \in Member : k # m => pick'[p][k] = pick[p][k]
      /\ pick'[p][m] # NoPick
  BY <1>0, <1>1 DEF MirrorTypes, NewPick, NoPick
<1>4. MirrorGrows
  BY <1>1, <1>3 DEF MirrorGrows, RecordKept, PicksKept
<1>5. /\ tx' \in [Member -> SUBSET Mutation] /\ ReportsKept
      /\ \A k \in Member : MutationsHold(k)'
  <2>1. CASE UNCHANGED tx
    BY <1>0, <1>2, <1>4, <2>1, MutationsKept DEF IInv, TypeOK, ReportsKept
  <2>2. CASE Offers(m, Tx("enterPool", "enter", p, FALSE))
    <3> DEFINE t == Tx("enterPool", "enter", p, FALSE)
    <3>1. /\ t \in Mutation /\ t.at = "wallet" /\ t.kind = "enter" /\ t.by = "enterPool"
          /\ t.pool = p /\ t.bundled = FALSE /\ Offers(m, t)
      BY <2>2 DEF Tx, Mutation
    <3> HIDE DEF t
    <3>2. Built(m, t)'
      BY <1>3, <3>1 DEF Built
    <3> QED
      BY <1>0, <1>1, <1>2, <1>4, <3>1, <3>2, OffersEffect, OffersHold DEF IInv
  <2> QED
    BY <2>1, <2>2 DEF Enter
<1>6. /\ collected' \in [Pool -> SUBSET Member] /\ lost' \in 0 .. MaxLost
      /\ lost' = 0 => \A q \in Pool : ChainKnown(q)'
      /\ \A q \in Pool : Pickers(q)' = Pickers(q) => PoolAgrees(q)'
  BY <1>1, <1>4, <1>5, QuietStep
<1>7. ASSUME NEW q \in Pool, q # p PROVE PoolAgrees(q)'
  BY <1>3, <1>6, <1>7 DEF Pickers
<1>8. PoolAgrees(p)'
  <2>1. Pickers(p)' = Pickers(p) \cup {m} /\ m \notin Pickers(p)
    BY <1>1, <1>3 DEF Pickers
  <2>2. /\ IsFiniteSet(Pickers(p)) /\ Cardinality(Pickers(p)) \in Nat
        /\ Cardinality(Pickers(p)') = Cardinality(Pickers(p)) + 1
    BY <2>1, PickersFinite, FS_AddElement
  <2>3. record[p] # NoRecord
    BY <1>1 DEF NoRecord
  <2>4. record[p].terms.max_entries \in Nat
    BY <1>0, <2>3, MemberTypes, TermsTypes
  <2>5. Cardinality(Pickers(p)') <= record[p].terms.max_entries
    BY <1>1, <2>2, <2>4
  <2>6. /\ pool'[p] = pool[p] /\ Chain!Claimed(p)' = Chain!Claimed(p) /\ PoolAgrees(p)
    BY <1>1, ChainStill DEF IInv
  <2> QED
    BY <1>1, <2>5, <2>6 DEF PoolAgrees
<1> QED
  BY <1>1, <1>2, <1>5, <1>6, <1>7, <1>8, ApiStep

-----------------------------------------------------------------------------
(* What the chain owes the mirror: reports and their loss *)

\* What a report leaves alone.
LEMMA RecordCreateEffect ==
    ASSUME MirrorTypes, NEW p \in Pool, RecordCreateTx(p)
    PROVE  /\ \A q \in Pool : q # p => record'[q] = record[q]
           /\ record'[p] # NoRecord /\ record'[p].onChain = TRUE
           /\ record'[p].hostWallet = record[p].hostWallet
           /\ record'[p].terms = record[p].terms
           /\ \A q \in Pool : Pickers(q)' = Pickers(q) /\ PicksKept(q)
           /\ pick[p][record[p].hostWallet] # NoPick => pick'[p][record[p].hostWallet].paid
           /\ \A q \in Pool, m \in Member :
                pick'[q][m] # NoPick /\ pick'[q][m].paid =>
                    pick[q][m].paid \/ (q = p /\ m = record[p].hostWallet)
<1>1. /\ record[p] \in Record(Terms, OutcomeArg)
      /\ record'[p] = [record[p] EXCEPT !.onChain = TRUE]
      /\ \A q \in Pool : q # p => record'[q] = record[q]
  BY DEF RecordCreateTx, MirrorTypes
<1>2. /\ record'[p] \in Record(Terms, OutcomeArg) /\ record'[p].onChain = TRUE
      /\ record'[p].hostWallet = record[p].hostWallet
      /\ record'[p].terms = record[p].terms
  BY <1>1 DEF Record
<1>3. record'[p] # NoRecord /\ record[p].hostWallet \in Member
  BY <1>1, <1>2, RecordIsTyped
<1>4. ASSUME NEW m \in Member
      PROVE  /\ pick[p][m] = NoPick => pick'[p][m] = NoPick
             /\ pick[p][m] # NoPick =>
                    /\ pick'[p][m] # NoPick
                    /\ pick'[p][m].paid = (m = record[p].hostWallet \/ pick[p][m].paid)
  <2>1. pick'[p][m] = IF m = record[p].hostWallet /\ pick[p][m] # NoPick
                      THEN [pick[p][m] EXCEPT !.paid = TRUE] ELSE pick[p][m]
    BY DEF RecordCreateTx, MirrorTypes
  <2>2. CASE pick[p][m] # NoPick /\ m = record[p].hostWallet
    <3>1. /\ pick[p][m] \in Pick(OutcomeArg)
          /\ pick'[p][m] = [pick[p][m] EXCEPT !.paid = TRUE]
      BY <2>1, <2>2 DEF MirrorTypes
    <3>2. pick'[p][m] \in Pick(OutcomeArg) /\ pick'[p][m].paid = TRUE
      BY <3>1 DEF Pick
    <3> QED
      BY <2>2, <3>2, PickIsTyped
  <2>3. CASE ~(pick[p][m] # NoPick /\ m = record[p].hostWallet)
    <3>1. pick'[p][m] = pick[p][m]
      BY <2>1, <2>3
    <3>2. pick[p][m] # NoPick => pick[p][m].paid \in BOOLEAN
      BY PickIsTyped DEF MirrorTypes
    <3> QED
      BY <2>3, <3>1, <3>2
  <2> QED
    BY <2>2, <2>3
<1>5. \A q \in Pool : q # p => pick'[q] = pick[q]
  BY DEF RecordCreateTx, MirrorTypes
<1>6. ASSUME NEW q \in Pool PROVE Pickers(q)' = Pickers(q) /\ PicksKept(q)
  <2>1. CASE q = p
    BY <1>4, <2>1 DEF Pickers, PicksKept
  <2>2. CASE q # p
    BY <1>5, <2>2 DEF Pickers, PicksKept
  <2> QED
    BY <2>1, <2>2
<1> QED
  BY <1>1, <1>2, <1>3, <1>4, <1>5, <1>6

LEMMA RecordEnterEffect ==
    ASSUME MirrorTypes, NEW p \in Pool, NEW m \in Member, RecordEnterTx(m, p)
    PROVE  /\ record' = record
           /\ \A q \in Pool : Pickers(q)' = Pickers(q) /\ PicksKept(q)
           /\ pick'[p][m].paid
           /\ \A q \in Pool, k \in Member :
                pick'[q][k].paid => pick[q][k].paid \/ (q = p /\ k = m)
<1>1. /\ pick[p][m] \in Pick(OutcomeArg) /\ record' = record /\ pick[p][m] # NoPick
      /\ pick'[p][m] = [pick[p][m] EXCEPT !.paid = TRUE]
  BY DEF RecordEnterTx, MirrorTypes
<1>2. pick'[p][m] \in Pick(OutcomeArg) /\ pick'[p][m].paid = TRUE
  BY <1>1 DEF Pick
<1>3. pick'[p][m] # NoPick
  BY <1>2, PickIsTyped
<1>4. \A q \in Pool, k \in Member : ~(q = p /\ k = m) => pick'[q][k] = pick[q][k]
  BY DEF RecordEnterTx, MirrorTypes
<1>5. ASSUME NEW q \in Pool PROVE Pickers(q)' = Pickers(q) /\ PicksKept(q)
  BY <1>1, <1>2, <1>3, <1>4 DEF Pickers, PicksKept
<1> QED
  BY <1>1, <1>2, <1>4, <1>5

\* The mutations of a member once one of them is over.
LEMMA EndsEffect ==
    ASSUME IInv, UNCHANGED chainVars, MirrorGrows, NEW m \in Member, NEW t \in tx[m],
           tx' = [tx EXCEPT ![m] = @ \ {t}]
    PROVE  /\ tx' \in [Member -> SUBSET Mutation]
           /\ \A k \in Member : MutationsHold(k)'
           /\ \A k \in Member : \A u \in tx[k] : (k # m \/ u # t) => u \in tx'[k]
<1>1. TypeOK /\ ChainGrows
  BY ChainStill DEF IInv
<1>2. /\ tx' \in [Member -> SUBSET Mutation] /\ \A k \in Member : tx'[k] \subseteq tx[k]
      /\ \A k \in Member : \A u \in tx[k] : (k # m \/ u # t) => u \in tx'[k]
  BY <1>1 DEF TypeOK
<1> QED
  BY <1>1, <1>2, MutationsKept DEF IInv

\* What the chain has of a pool is known once its transactions are reported.
LEMMA KnownReported ==
    ASSUME IInv, UNCHANGED chainVars, MirrorGrows, lost = 0, NEW m \in Member, NEW t \in tx[m],
           \A k \in Member : \A u \in tx[k] : (k # m \/ u # t) => u \in tx'[k],
           t.kind = "create" => record'[t.pool].onChain,
           t.kind = "enter" \/ t.bundled => pick'[t.pool][m].paid,
           NEW p \in Pool
    PROVE  ChainKnown(p)'
<1>0. MirrorBehind(p) /\ ChainKnown(p)
  BY DEF IInv, JointInv, MirrorOf
<1>1. pool'[p] = pool[p] /\ Chain!Entrants(p)' = Chain!Entrants(p)
  BY ChainStill
<1>2. ASSUME pool[p] # Chain!NoPool
      PROVE  \/ record'[p].onChain
             \/ \E k \in Member : \E u \in tx'[k] :
                    u.at = "report" /\ u.pool = p /\ u.kind = "create"
  <2>1. CASE record[p].onChain
    BY <1>0, <1>2, <2>1 DEF MirrorBehind, MirrorGrows, RecordKept
  <2>2. ASSUME NEW k \in Member, NEW u \in tx[k],
               u.at = "report", u.pool = p, u.kind = "create"
        PROVE  \/ record'[p].onChain
               \/ \E l \in Member : \E v \in tx'[l] :
                      v.at = "report" /\ v.pool = p /\ v.kind = "create"
    <3>1. CASE k = m /\ u = t
      BY <2>2, <3>1
    <3>2. CASE k # m \/ u # t
      BY <2>2, <3>2
    <3> QED
      BY <3>1, <3>2
  <2> QED
    BY <1>0, <1>2, <2>1, <2>2 DEF ChainKnown
<1>3. ASSUME NEW k \in Chain!Entrants(p)
      PROVE  pick'[p][k].paid \/ Reporting(k, p)'
  <2>1. k \in Member /\ pick[p][k] # NoPick
    BY <1>0 DEF MirrorBehind, Chain!Entrants
  <2>2. CASE pick[p][k].paid
    BY <2>1, <2>2 DEF MirrorGrows, PicksKept
  <2>3. ASSUME NEW u \in tx[k], u.at = "report", u.pool = p, u.kind = "enter" \/ u.bundled
        PROVE  pick'[p][k].paid \/ Reporting(k, p)'
    <3>1. CASE k = m /\ u = t
      BY <2>3, <3>1
    <3>2. CASE k # m \/ u # t
      BY <2>1, <2>3, <3>2 DEF Reporting
    <3> QED
      BY <3>1, <3>2
  <2> QED
    BY <1>0, <2>2, <2>3 DEF ChainKnown, Reporting
<1> QED
  BY <1>1, <1>2, <1>3 DEF ChainKnown

\* A mutation that ends without a trace: what was not signed has no effect, and
\* what is lost is counted.
LEMMA EndStep ==
    ASSUME IInv, NEW m \in Member, NEW t \in tx[m], WalletFails(m, t) \/ ReportLost(m, t)
    PROVE  IInv'
<1>1. /\ UNCHANGED <<mirrorVars, chainVars, collected>>
      /\ tx' = [tx EXCEPT ![m] = @ \ {t}]
  BY DEF WalletFails, ReportLost
<1>2. MirrorGrows /\ MirrorStays /\ record' = record /\ pick' = pick
  BY <1>1, MirrorStill DEF mirrorVars
<1>3. /\ tx' \in [Member -> SUBSET Mutation]
      /\ \A k \in Member : MutationsHold(k)'
      /\ \A k \in Member : \A u \in tx[k] : (k # m \/ u # t) => u \in tx'[k]
  BY <1>1, <1>2, EndsEffect
<1>4. lost' \in 0 .. MaxLost /\ (lost' = 0 => WalletFails(m, t) /\ lost' = lost)
  BY PoolApiTypes DEF WalletFails, ReportLost, IInv, TypeOK
<1>5. lost' = 0 => ReportsKept
  BY <1>3, <1>4 DEF WalletFails, ReportsKept
<1>6. /\ ChainGrows
      /\ \A p \in Pool : /\ pool'[p] = pool[p]
                         /\ Chain!Entrants(p)' = Chain!Entrants(p)
                         /\ Chain!Claimed(p)' = Chain!Claimed(p)
  BY <1>1, ChainStill
<1>7. \A p \in Pool : MirrorBehind(p) /\ PoolAgrees(p)
  BY DEF IInv, JointInv, MirrorOf
<1>8. lost' = 0 => \A p \in Pool : ChainKnown(p)'
  BY <1>2, <1>4, <1>5, <1>6, <1>7, KnownKept DEF IInv
<1>9. \A p \in Pool : PoolAgrees(p)'
  BY <1>1, <1>2, <1>6, <1>7 DEF PoolAgrees, Pickers
<1> QED
  BY <1>1, <1>2, <1>3, <1>4, <1>8, <1>9, ApiStep DEF IInv, TypeOK

\* POST /pools/:id/tx: the mirror learns of an effect that the chain has.
LEMMA ReportStep ==
    ASSUME IInv, NEW m \in Member, NEW t \in tx[m], Report(m, t)
    PROVE  IInv'
<1> DEFINE p == t.pool
<1>0. /\ TypeOK /\ MirrorTypes /\ \A q \in Pool : MirrorOf(q) /\ PoolAgrees(q)
      /\ t \in Mutation /\ MutationsHold(m) /\ t.at = "report"
  BY DEF IInv, JointInv, TypeOK, Report
<1>1. /\ UNCHANGED <<chainVars, lost>> /\ p \in Pool
      /\ tx' = [tx EXCEPT ![m] = @ \ {t}]
      /\ t.kind \in {"create", "enter", "claim", "refund"}
      /\ t.bundled => t.kind = "create"
      /\ Built(m, t) /\ TookEffect(m, t)
  BY <1>0 DEF Report, MutationsHold, Mutation
<1>2. \/ t.kind = "create" /\ RecordCreateTx(p) /\ UNCHANGED collected
      \/ t.kind = "enter" /\ RecordEnterTx(m, p) /\ UNCHANGED collected
      \/ /\ t.kind \in {"claim", "refund"} /\ UNCHANGED mirrorVars
         /\ collected' = [collected EXCEPT ![p] = @ \cup {m}]
  BY DEF Report
<1> HIDE DEF p
<1>3. /\ MirrorStays /\ MirrorGrows
      /\ \A q \in Pool : /\ record[q] = NoRecord => record'[q] = NoRecord
                         /\ Pickers(q)' = Pickers(q)
                         /\ record[q] # NoRecord /\ record'[q].onChain =>
                                record[q].onChain \/ pool[q] # Chain!NoPool
      /\ t.kind = "create" => record'[p].onChain
      /\ t.kind = "enter" \/ t.bundled => pick'[p][m].paid
  <2>1. CASE t.kind = "create" /\ RecordCreateTx(p)
    <3>1. MirrorStays
      BY <1>0, <1>1, <2>1, RecordCreateMirror
    <3>2. /\ \A q \in Pool : q # p => record'[q] = record[q]
          /\ record'[p] # NoRecord /\ record'[p].onChain = TRUE
          /\ record'[p].hostWallet = record[p].hostWallet
          /\ record'[p].terms = record[p].terms
          /\ \A q \in Pool : Pickers(q)' = Pickers(q) /\ PicksKept(q)
          /\ pick[p][record[p].hostWallet] # NoPick => pick'[p][record[p].hostWallet].paid
      BY <1>0, <1>1, <2>1, RecordCreateEffect
    <3>3. record[p] # NoRecord /\ record[p].hostWallet = m /\ pool[p] # Chain!NoPool
      BY <1>1, <2>1 DEF Built, TookEffect, p
    <3>4. MirrorGrows
      BY <3>2 DEF MirrorGrows, RecordKept
    <3>5. t.bundled => pick[p][m] # NoPick
      BY <1>1 DEF Built, p
    <3> QED
      BY <2>1, <3>1, <3>2, <3>3, <3>4, <3>5
  <2>2. CASE t.kind = "enter" /\ RecordEnterTx(m, p)
    <3>1. MirrorStays
      BY <1>0, <1>1, <2>2, RecordEnterMirror
    <3>2. /\ record' = record /\ pick'[p][m].paid
          /\ \A q \in Pool : Pickers(q)' = Pickers(q) /\ PicksKept(q)
      BY <1>0, <1>1, <2>2, RecordEnterEffect
    <3>3. MirrorGrows
      BY <3>2 DEF MirrorGrows, RecordKept
    <3> QED
      BY <2>2, <3>1, <3>2, <3>3
  <2>3. CASE t.kind \in {"claim", "refund"} /\ UNCHANGED mirrorVars
    <3>1. MirrorStays /\ MirrorGrows /\ record' = record /\ pick' = pick
      BY <1>1, <2>3, MirrorStill DEF mirrorVars
    <3> QED
      BY <1>1, <2>3, <3>1 DEF Pickers
  <2> QED
    BY <1>2, <2>1, <2>2, <2>3
<1>4. /\ tx' \in [Member -> SUBSET Mutation]
      /\ \A k \in Member : MutationsHold(k)'
      /\ \A k \in Member : \A u \in tx[k] : (k # m \/ u # t) => u \in tx'[k]
  BY <1>1, <1>3, EndsEffect
<1>5. lost' = 0 => \A q \in Pool : ChainKnown(q)'
  BY <1>1, <1>3, <1>4, KnownReported DEF p
<1>6. /\ ChainGrows
      /\ \A q \in Pool : pool'[q] = pool[q] /\ Chain!Claimed(q)' = Chain!Claimed(q)
  BY <1>1, ChainStill
<1>7. /\ collected' \in [Pool -> SUBSET Member]
      /\ \A q \in Pool : collected'[q] \subseteq Chain!Claimed(q)
  <2>1. t.kind \in {"claim", "refund"} => m \in Chain!Claimed(p)
    BY <1>1 DEF TookEffect, p
  <2>2. collected \in [Pool -> SUBSET Member]
        /\ \A q \in Pool : collected[q] \subseteq Chain!Claimed(q)
    BY <1>0 DEF TypeOK, PoolAgrees
  <2> QED
    BY <1>2, <2>1, <2>2
<1>8. ASSUME NEW q \in Pool PROVE PoolAgrees(q)'
  <2>1. /\ MirrorBehind(q) /\ PoolAgrees(q) /\ RecordKept(q) /\ ProgressKept(q)
        /\ collected'[q] \subseteq Chain!Claimed(q)'
    BY <1>0, <1>3, <1>6, <1>7 DEF MirrorOf, MirrorGrows, ChainGrows
  <2>2. pool'[q].status \in {"Resolved", "Voided"} =>
                /\ pool'[q].winning_outcome \in OutcomeArg
                /\ pool'[q].status = "Voided" =>
                    pool'[q].winner_count = 0 /\ pool'[q].share_amount = 0
    BY <1>6, <2>1 DEF PoolAgrees
  <2> QED
    BY <1>3, <1>6, <2>1, <2>2, AgreesKept
<1> QED
  BY <1>1, <1>3, <1>4, <1>5, <1>7, <1>8, ApiStep DEF IInv, TypeOK

-----------------------------------------------------------------------------
(* The settlement worker on the mirror *)

\* The worker's marks leave what the API wrote.
LEMMA MarkEffect ==
    ASSUME MirrorTypes, NEW p \in Pool, record[p] \in Record(Terms, OutcomeArg),
           \/ MarkLocked(p) \/ MarkCancelled(p)
           \/ \E w, n, share : MarkResolved(p, w, n, share) \/ MarkVoided(p, w)
    PROVE  /\ \A q \in Pool : q # p => record'[q] = record[q]
           /\ record'[p].hostWallet = record[p].hostWallet
           /\ record'[p].terms = record[p].terms
           /\ record'[p].onChain = record[p].onChain
           /\ \A q \in Pool : Pickers(q)' = Pickers(q) /\ PicksKept(q)
           /\ \A q \in Pool : \A m \in Pickers(q) : pick'[q][m].paid = pick[q][m].paid
<1>1. /\ \A q \in Pool : q # p => record'[q] = record[q]
      /\ record'[p].hostWallet = record[p].hostWallet
      /\ record'[p].terms = record[p].terms
      /\ record'[p].onChain = record[p].onChain
  <2> DEFINE Kept == /\ \A q \in Pool : q # p => record'[q] = record[q]
                     /\ record'[p].hostWallet = record[p].hostWallet
                     /\ record'[p].terms = record[p].terms
                     /\ record'[p].onChain = record[p].onChain
  <2>1. CASE MarkLocked(p) \/ MarkCancelled(p)
    <3>1. PICK s : /\ \A q \in Pool : q # p => record'[q] = record[q]
                   /\ record'[p] = [record[p] EXCEPT !.status = s]
      BY <2>1 DEF MarkLocked, MarkCancelled, MirrorTypes
    <3> QED
      BY <3>1 DEF Record
  <2>2. ASSUME NEW w, MarkVoided(p, w) PROVE Kept
    <3>1. /\ \A q \in Pool : q # p => record'[q] = record[q]
          /\ record'[p] = [record[p] EXCEPT !.status = "voided", !.winningOutcome = w,
                                            !.winnerCount = 0]
      BY <2>2 DEF MarkVoided, MirrorTypes
    <3> QED
      BY <3>1 DEF Record
  <2>3. ASSUME NEW w, NEW n, NEW share, MarkResolved(p, w, n, share) PROVE Kept
    <3>1. /\ \A q \in Pool : q # p => record'[q] = record[q]
          /\ record'[p] = [record[p] EXCEPT !.status = "resolved", !.winningOutcome = w,
                                            !.winnerCount = n, !.shareAmount = share]
      BY <2>3 DEF MarkResolved, MirrorTypes
    <3> QED
      BY <3>1 DEF Record
  <2> QED
    BY <2>1, <2>2, <2>3
<1>2. /\ \A q \in Pool : q # p => pick'[q] = pick[q]
      /\ \A m \in Member :
            /\ pick[p][m] = NoPick => pick'[p][m] = NoPick
            /\ pick[p][m] # NoPick =>
                pick'[p][m] # NoPick /\ pick'[p][m].paid = pick[p][m].paid
  <2>1. CASE MarkLocked(p)
    BY <2>1 DEF MarkLocked
  <2>2. ASSUME NEW verdict, SettlePicks(p, verdict),
               \A m \in Pickers(p) : verdict[m] \in {"won", "lost", "refunded"}
        PROVE  /\ \A q \in Pool : q # p => pick'[q] = pick[q]
               /\ \A m \in Member :
                    /\ pick[p][m] = NoPick => pick'[p][m] = NoPick
                    /\ pick[p][m] # NoPick =>
                        pick'[p][m] # NoPick /\ pick'[p][m].paid = pick[p][m].paid
    BY <2>2, SettlePicksEffect
  <2>3. ASSUME NEW w, NEW n, NEW share, MarkResolved(p, w, n, share)
        PROVE  /\ \A q \in Pool : q # p => pick'[q] = pick[q]
               /\ \A m \in Member :
                    /\ pick[p][m] = NoPick => pick'[p][m] = NoPick
                    /\ pick[p][m] # NoPick =>
                        pick'[p][m] # NoPick /\ pick'[p][m].paid = pick[p][m].paid
    <3>1. SettlePicks(p, [m \in Pickers(p) |->
                            IF pick[p][m].prediction = w THEN "won" ELSE "lost"])
      BY <2>3 DEF MarkResolved
    <3>2. PICK verdict : /\ SettlePicks(p, verdict)
                         /\ \A m \in Pickers(p) :
                                verdict[m] = IF pick[p][m].prediction = w THEN "won" ELSE "lost"
      BY <3>1
    <3> QED
      BY <2>2, <3>2
  <2>4. CASE MarkCancelled(p) \/ \E w : MarkVoided(p, w)
    <3>1. SettlePicks(p, Refunds) /\ \A m \in Pickers(p) : Refunds[m] = "refunded"
      BY <2>4 DEF MarkVoided, MarkCancelled, Refunds, Pickers
    <3> QED
      BY <2>2, <3>1
  <2> QED
    BY <2>1, <2>3, <2>4
<1>3. ASSUME NEW q \in Pool
      PROVE  /\ Pickers(q)' = Pickers(q) /\ PicksKept(q)
             /\ \A m \in Pickers(q) : pick'[q][m].paid = pick[q][m].paid
  <2>1. CASE q = p
    BY <1>2, <2>1 DEF Pickers, PicksKept
  <2>2. CASE q # p
    BY <1>2, <2>2 DEF Pickers, PicksKept
  <2> QED
    BY <2>1, <2>2
<1> QED
  BY <1>1, <1>3

\* What the worker writes on the mirror.
WorkerWrites(p) == WorkerLocks(p) \/ WorkerMarks(p)

LEMMA WorkerWritesEffect ==
    ASSUME IInv, NEW p \in Pool, WorkerWrites(p)
    PROVE  /\ MirrorStays /\ MirrorGrows /\ record[p] # NoRecord
           /\ UNCHANGED <<chainVars, collected, tx, lost>>
           /\ \A q \in Pool :
                /\ record[q] = NoRecord => record'[q] = NoRecord
                /\ Pickers(q)' = Pickers(q)
                /\ record[q] # NoRecord =>
                    /\ record'[q].onChain = record[q].onChain
                    /\ record'[q].hostWallet = record[q].hostWallet
                /\ \A m \in Pickers(q) : pick'[q][m].paid = pick[q][m].paid
<1>0. /\ TypeOK /\ MirrorTypes /\ \A q \in Pool : MirrorOf(q)
      /\ Chain!TypeOK /\ PoolAgrees(p)
  BY DEF IInv, JointInv, Chain!IInv
<1>1. /\ UNCHANGED <<chainVars, collected, tx, lost>>
      /\ record[p] # NoRecord /\ record[p] \in Record(Terms, OutcomeArg)
  BY <1>0 DEF WorkerWrites, WorkerLocks, WorkerMarks, NoRecord, MirrorTypes
<1>2. MirrorStays
  <2>0. pool[p].status \in {"Resolved", "Voided"} =>
            /\ pool[p].winning_outcome \in OutcomeArg
            /\ pool[p].winner_count \in Nat /\ pool[p].share_amount \in Nat
            /\ pool[p].status = "Voided" =>
                pool[p].winner_count = 0 /\ pool[p].share_amount = 0
    BY <1>0, PresentAccount DEF PoolAgrees, Chain!NoPool
  <2>1. CASE MarkLocked(p)
    BY <1>0, <1>1, <2>1, MarkLockedMirror
  <2>2. CASE /\ pool[p].status = "Resolved"
             /\ MarkResolved(p, pool[p].winning_outcome, pool[p].winner_count,
                             pool[p].share_amount)
    BY <1>0, <1>1, <2>0, <2>2, MarkResolvedMirror
  <2>3. CASE \/ pool[p].status = "Voided" /\ MarkVoided(p, pool[p].winning_outcome)
             \/ pool[p].status = "Cancelled" /\ MarkCancelled(p)
    BY <1>0, <1>1, <2>0, <2>3, MarkRefundMirror
  <2> QED
    BY <2>1, <2>2, <2>3 DEF WorkerWrites, WorkerLocks, WorkerMarks
<1>3. /\ \A q \in Pool : q # p => record'[q] = record[q]
      /\ record'[p].hostWallet = record[p].hostWallet
      /\ record'[p].terms = record[p].terms
      /\ record'[p].onChain = record[p].onChain
      /\ \A q \in Pool : Pickers(q)' = Pickers(q) /\ PicksKept(q)
      /\ \A q \in Pool : \A m \in Pickers(q) : pick'[q][m].paid = pick[q][m].paid
  <2>1. \/ MarkLocked(p) \/ MarkCancelled(p)
        \/ \E w, n, share : MarkResolved(p, w, n, share) \/ MarkVoided(p, w)
    BY DEF WorkerWrites, WorkerLocks, WorkerMarks
  <2> QED
    BY <1>0, <1>1, <2>1, MarkEffect
<1>4. \A q \in Pool : record[q] # NoRecord => record'[q] # NoRecord
  BY <1>2 DEF MirrorStays, RecordsKept
<1>5. MirrorGrows
  BY <1>3, <1>4 DEF MirrorGrows, RecordKept
<1> QED
  BY <1>1, <1>2, <1>3, <1>5

LEMMA WorkerWritesStep ==
    ASSUME IInv, NEW p \in Pool, WorkerWrites(p)
    PROVE  IInv'
<1>1. /\ MirrorStays /\ MirrorGrows
      /\ UNCHANGED <<chainVars, collected, tx, lost>>
      /\ \A q \in Pool :
            /\ record[q] = NoRecord => record'[q] = NoRecord
            /\ Pickers(q)' = Pickers(q)
            /\ record[q] # NoRecord => record'[q].onChain = record[q].onChain
  BY WorkerWritesEffect
<1>2. /\ tx' \in [Member -> SUBSET Mutation] /\ ReportsKept
      /\ \A k \in Member : MutationsHold(k)'
  BY <1>1, ChainStill, MutationsKept DEF IInv, TypeOK, ReportsKept
<1>3. /\ collected' \in [Pool -> SUBSET Member] /\ lost' \in 0 .. MaxLost
      /\ lost' = 0 => \A q \in Pool : ChainKnown(q)'
      /\ \A q \in Pool : PoolAgrees(q)'
  BY <1>1, <1>2, QuietStep
<1> QED
  BY <1>1, <1>2, <1>3, ApiStep

-----------------------------------------------------------------------------
(* The steps of the chain *)

\* What is left to show of a step on the chain: the mirror was there first.
LEMMA ChainStep ==
    ASSUME IInv, AuditedStep, UNCHANGED <<mirrorVars, collected, lost>>,
           \A p \in Pool : News(p),
           \A p \in Pool : pool'[p].status \in {"Resolved", "Voided"} =>
                /\ pool'[p].winning_outcome \in OutcomeArg
                /\ pool'[p].status = "Voided" =>
                    pool'[p].winner_count = 0 /\ pool'[p].share_amount = 0,
           \A p \in Pool : pool[p] = Chain!NoPool /\ pool'[p] # Chain!NoPool =>
                /\ pool'[p].max_entries = record[p].terms.max_entries
                /\ pool'[p].stake_amount = record[p].terms.stake_amount,
           tx' \in [Member -> SUBSET Mutation],
           \A m \in Member : MutationsHold(m)',
           lost = 0 => \A p \in Pool : ChainKnown(p)'
    PROVE  IInv'
<1>0. /\ TypeOK /\ MirrorTypes /\ Chain!IInv /\ Chain!WinnersCovered
      /\ \A p \in Pool : MirrorOf(p) /\ PoolAgrees(p)
  BY DEF IInv, JointInv
<1>1. /\ Chain!IInv' /\ Chain!WinnersCovered' /\ Chain!TypeOK'
      /\ \A p \in Pool : ChainKeeps(p) /\ Chain!Claimed(p) \subseteq Chain!Claimed(p)'
  BY <1>0, DeploymentStep, DeploymentClaims DEF Chain!IInv
<1>2. MirrorStays /\ record' = record /\ pick' = pick
  BY <1>0, <1>1, MirrorUnwritten DEF mirrorVars
<1>3. ASSUME NEW p \in Pool PROVE PoolAgrees(p)'
  <2>1. /\ MirrorBehind(p) /\ PoolAgrees(p) /\ ProgressKept(p)
        /\ RecordKept(p) /\ Pickers(p)' = Pickers(p)
        /\ collected'[p] \subseteq Chain!Claimed(p)'
    BY <1>0, <1>1, <1>2 DEF MirrorOf, ChainKeeps, RecordKept, Pickers, PoolAgrees
  <2>2. pool[p] = Chain!NoPool /\ pool'[p] # Chain!NoPool =>
            /\ record[p] # NoRecord
            /\ pool'[p].max_entries = record[p].terms.max_entries
            /\ pool'[p].stake_amount = record[p].terms.stake_amount
    BY DEF News
  <2> QED
    BY <1>2, <2>1, <2>2, AgreesKept
<1> QED
  BY <1>0, <1>1, <1>2, <1>3 DEF IInv, TypeOK, JointInv, MirrorStays

LEMMA ChainMoves ==
    ASSUME IInv, AuditedStep, UNCHANGED mirrorVars
    PROVE  MirrorGrows /\ ChainGrows
<1>1. \A p \in Pool : ChainKeeps(p) /\ Chain!Claimed(p) \subseteq Chain!Claimed(p)'
  BY DeploymentStep, DeploymentClaims DEF IInv, JointInv
<1>2. record' = record /\ pick' = pick
  BY DEF mirrorVars
<1> QED
  BY <1>1, <1>2 DEF ChainGrows, ChainKeeps, MirrorGrows, RecordKept, PicksKept

\* The steps that add no account: the clock's and the worker's.
LEMMA NoAccountStep ==
    ASSUME IInv, AuditedStep, UNCHANGED <<mirrorVars, collected, tx, lost>>,
           \A p \in Pool : pool'[p] # Chain!NoPool => pool[p] # Chain!NoPool,
           entry' = entry,
           \A p \in Pool : pool'[p].status \in {"Resolved", "Voided"} =>
                /\ pool'[p].winning_outcome \in OutcomeArg
                /\ pool'[p].status = "Voided" =>
                    pool'[p].winner_count = 0 /\ pool'[p].share_amount = 0
    PROVE  IInv'
<1>1. MirrorGrows /\ ChainGrows
  BY ChainMoves
<1>2. \A p \in Pool : Chain!Entrants(p)' = Chain!Entrants(p) /\ News(p)
  BY DEF Chain!Entrants, News
<1>3. /\ tx' \in [Member -> SUBSET Mutation] /\ ReportsKept
      /\ \A m \in Member : MutationsHold(m)'
  BY <1>1, MutationsKept DEF IInv, TypeOK, ReportsKept
<1>4. lost = 0 => \A p \in Pool : ChainKnown(p)'
  BY <1>1, <1>2, <1>3, KnownKept DEF IInv, JointInv, MirrorOf
<1> QED
  BY <1>2, <1>3, <1>4, ChainStep

LEMMA TickStep == ASSUME IInv, Tick PROVE IInv'
<1>1. /\ AuditedStep /\ UNCHANGED <<mirrorVars, collected, tx, lost>>
      /\ pool' = pool /\ entry' = entry
  BY DEF Tick, Chain!Tick, AuditedStep, Chain!AuditedNext
<1>2. \A p \in Pool : PoolAgrees(p)
  BY DEF IInv
<1> QED
  BY <1>1, <1>2, NoAccountStep DEF PoolAgrees

LEMMA WorkerSendsStep == ASSUME IInv, NEW p \in Pool, WorkerSends(p) PROVE IInv'
<1>0. /\ Chain!TypeOK /\ ServerKey \in Key /\ ServerKey \in Chain!Signer
      /\ ServerTreasury \in Treasury /\ \A q \in Pool : PoolAgrees(q)
  BY PoolApiTypes DEF IInv, JointInv, Chain!IInv, Chain!Signer
<1>1. UNCHANGED <<mirrorVars, collected, tx, lost>>
  BY DEF WorkerSends
<1>2. CASE Chain!LockPool(ServerKey, p) \/ Chain!CancelPool(ServerKey, p)
  <2>1. AuditedStep
    BY <1>0, <1>2 DEF AuditedStep, Chain!AuditedNext, Chain!PoolNext
  <2>2. pool[p] # Chain!NoPool /\ entry' = entry
    BY <1>2 DEF Chain!LockPool, Chain!CancelPool, Chain!NoPool
  <2>3. \A q \in Pool : q # p => pool'[q] = pool[q]
    BY <1>0, <1>2 DEF Chain!LockPool, Chain!CancelPool, Chain!TypeOK
  <2>4. \A q \in Pool : NoResult(q)
    BY <1>0, <1>2, LockOrCancelNews
  <2> QED
    BY <1>0, <1>1, <2>1, <2>2, <2>3, <2>4, NoAccountStep DEF NoResult, PoolAgrees
<1>3. ASSUME NEW w \in OutcomeArg,
             Chain!ResolvePool(ServerKey, p, w, Chain!AuditedCount(p, w), ServerTreasury)
      PROVE  IInv'
  <2>1. AuditedStep
    BY <1>0, <1>3 DEF AuditedStep, Chain!AuditedNext, Chain!AuditedResolve
  <2>2. pool[p] # Chain!NoPool /\ entry' = entry
    BY <1>3 DEF Chain!ResolvePool, Chain!ResolveToVoid, Chain!ResolveToWinners,
       Chain!MayResolve, Chain!NoPool
  <2>3. \A q \in Pool : q # p => pool'[q] = pool[q]
    BY <1>0, <1>3 DEF Chain!ResolvePool, Chain!ResolveToVoid, Chain!ResolveToWinners,
       Chain!TypeOK
  <2>4. \A q \in Pool : q # p => NoResult(q)
    BY <1>0, <1>3, ResolveNews
  <2>5. /\ pool'[p].winning_outcome = w
        /\ pool'[p].status = "Voided" =>
            pool'[p].winner_count = 0 /\ pool'[p].share_amount = 0
    BY <1>0, <1>3, ResolveNews
  <2> QED
    BY <1>0, <1>1, <2>1, <2>2, <2>3, <2>4, <2>5, NoAccountStep DEF NoResult, PoolAgrees
<1> QED
  BY <1>2, <1>3 DEF WorkerSends

\* What a member's transaction does on the chain, and that nothing else does it.
LEMMA ExecuteEffect ==
    ASSUME IInv, NEW m \in Member, NEW t \in tx[m], Execute(m, t)
    PROVE  /\ AuditedStep /\ TookEffect(m, t)'
           /\ \A p \in Pool : News(p) /\ NoResult(p)
           /\ \A p \in Pool : pool[p] = Chain!NoPool /\ pool'[p] # Chain!NoPool =>
                /\ t.kind = "create" /\ t.pool = p
                /\ pool'[p].max_entries = record[p].terms.max_entries
                /\ pool'[p].stake_amount = record[p].terms.stake_amount
           /\ \A p \in Pool : \A k \in Chain!Entrants(p)' :
                \/ k \in Chain!Entrants(p)
                \/ k = m /\ t.pool = p /\ (t.kind = "enter" \/ t.bundled)
<1> DEFINE q == t.pool
<1>0. /\ MirrorTypes /\ Chain!IInv /\ Chain!TypeOK /\ Built(m, t) /\ q \in Pool
      /\ t.bundled \in BOOLEAN /\ (t.bundled => t.kind = "create")
  BY DEF IInv, JointInv, Chain!IInv, MutationsHold, TypeOK, Mutation
<1>1. CASE t.kind = "create" /\ t.bundled /\ CreateWithEntry(q)
  <2>1. /\ record[q].hostWallet = m /\ record[q] # NoRecord
        /\ pool'[q].max_entries = record[q].terms.max_entries
        /\ pool'[q].stake_amount = record[q].terms.stake_amount
        /\ pool'[q].status = "Open" /\ Chain!Entrants(q)' = {m}
    BY <1>0, <1>1, BundleEffect DEF Built
  <2>2. /\ AuditedStep /\ \A p \in Pool : News(p) /\ NoResult(p)
    BY <1>0, <1>1, BundleNews DEF AuditedStep
  <2>3. \A p \in Pool : p # q => pool'[p] = pool[p] /\ Chain!Entrants(p)' = Chain!Entrants(p)
    BY <1>0, <1>1, BundleOthers DEF Chain!Entrants
  <2>4. TookEffect(m, t)'
    BY <1>1, <2>1 DEF TookEffect, Chain!NoPool
  <2> QED
    BY <1>1, <2>1, <2>2, <2>3, <2>4
<1>2. CASE t.kind = "create" /\ ~t.bundled /\ Chain!CreatePool(m, q, record[q].terms)
  <2>1. record[q] # NoRecord /\ record[q].terms \in Terms
    BY <1>0, <1>2, MemberTypes DEF Built
  <2>2. /\ pool'[q] = Chain!OpenAccount(m, record[q].terms) /\ entry' = entry
        /\ \A p \in Pool : p # q => pool'[p] = pool[p]
    BY <1>0, <1>2 DEF Chain!CreatePool, Chain!TypeOK
  <2>3. /\ pool'[q].max_entries = record[q].terms.max_entries /\ pool'[q].status = "Open"
        /\ pool'[q].stake_amount = record[q].terms.stake_amount
    BY <2>2 DEF Chain!OpenAccount
  <2>4. AuditedStep
    BY <1>0, <1>2, <2>1 DEF AuditedStep, Chain!AuditedNext, Chain!PoolNext
  <2>5. \A p \in Pool : News(p) /\ NoResult(p)
    BY <1>0, <1>2, <2>1, CreateNews
  <2>6. TookEffect(m, t)'
    BY <1>2, <2>3 DEF TookEffect, Chain!NoPool
  <2> QED
    BY <1>2, <2>2, <2>3, <2>4, <2>5, <2>6 DEF Chain!Entrants
<1>3. CASE t.kind = "enter" /\ Chain!EnterPool(m, q, pick[q][m].prediction)
  <2>1. pick[q][m] # NoPick /\ pick[q][m].prediction \in OutcomeArg
    BY <1>0, <1>3, MemberTypes DEF Built
  <2>2. AuditedStep
    BY <1>0, <1>3, <2>1 DEF AuditedStep, Chain!AuditedNext, Chain!PoolNext
  <2>3. \A p \in Pool : News(p) /\ NoResult(p)
    BY <1>0, <1>3, <2>1, EnterNews
  <2>4. /\ pool[q] # Chain!NoPool /\ \A p \in Pool : p # q => pool'[p] = pool[p]
    BY <1>0, <1>3 DEF Chain!EnterPool, Chain!TypeOK, Chain!NoPool
  <2>5. \A p \in Pool, k \in Member : ~(p = q /\ k = m) => entry'[p][k] = entry[p][k]
    BY <1>0, <1>3 DEF Chain!EnterPool, Chain!TypeOK
  <2>6. entry'[q][m] # Chain!NoEntry
    BY <1>0, <1>3 DEF Chain!EnterPool, Chain!TypeOK, Chain!NoEntry
  <2>7. TookEffect(m, t)'
    BY <1>0, <1>3, <2>6 DEF TookEffect, Chain!Entrants
  <2> QED
    BY <1>3, <2>2, <2>3, <2>4, <2>5, <2>7 DEF Chain!Entrants
<1>4. CASE t.kind \in {"claim", "refund"}
           /\ (Chain!ClaimWinnings(m, q) \/ Chain!ClaimRefund(m, q))
  <2>1. AuditedStep
    BY <1>0, <1>4 DEF AuditedStep, Chain!AuditedNext, Chain!PoolNext
  <2>2. \A p \in Pool : News(p) /\ NoResult(p)
    BY <1>0, <1>4, ClaimNews
  <2>3. PICK amount : Chain!PayFromVault(q, m, amount)
    BY <1>4 DEF Chain!ClaimWinnings, Chain!ClaimRefund
  <2>4. /\ pool' = pool
        /\ m \in Chain!Entrants(q) /\ entry[q][m] \in Chain!Entry
    BY <1>0, <1>4, <2>3 DEF Chain!PayFromVault, Chain!ClaimWinnings, Chain!ClaimRefund,
       Chain!Entrants, Chain!TypeOK
  <2>5. \A p \in Pool, k \in Member : ~(p = q /\ k = m) => entry'[p][k] = entry[p][k]
    BY <1>0, <2>3 DEF Chain!PayFromVault, Chain!TypeOK
  <2>6. entry'[q][m] = [entry[q][m] EXCEPT !.claimed = TRUE]
    BY <1>0, <2>3 DEF Chain!PayFromVault, Chain!TypeOK
  <2>7. entry'[q][m] \in Chain!Entry /\ entry'[q][m].claimed = TRUE
    BY <2>4, <2>6 DEF Chain!Entry
  <2>8. entry'[q][m] # Chain!NoEntry
    BY <2>7 DEF Chain!Entry, Chain!NoEntry
  <2>9. TookEffect(m, t)'
    BY <1>0, <1>4, <2>7, <2>8 DEF TookEffect, Chain!Claimed, Chain!Entrants
  <2> QED
    BY <2>1, <2>2, <2>4, <2>5, <2>9 DEF Chain!Entrants
<1> QED
  BY <1>1, <1>2, <1>3, <1>4 DEF Execute

\* A signature that the chain took is to be reported.
LEMMA SignedEffect ==
    ASSUME IInv, NEW m \in Member, NEW t \in tx[m], WalletSends(m, t)
    PROVE  /\ ReportsKept /\ tx' \in [Member -> SUBSET Mutation]
           /\ \A k \in Member : k # m => tx'[k] = tx[k]
           /\ \E u \in Mutation :
                /\ u.at = "report" /\ u.by = t.by /\ u.kind = t.kind
                /\ u.pool = t.pool /\ u.bundled = t.bundled
                /\ u \in tx'[m] /\ tx'[m] \subseteq (tx[m] \ {t}) \cup {u}
<1>1. t \in Mutation /\ tx \in [Member -> SUBSET Mutation]
  BY DEF IInv, TypeOK
<1>2. PICK u : /\ u = [t EXCEPT !.at = "report"]
               /\ tx' = [tx EXCEPT ![m] = (tx[m] \ {t}) \cup {u}]
  BY DEF WalletSends
<1>3. /\ u \in Mutation /\ u.at = "report" /\ u.by = t.by /\ u.kind = t.kind
      /\ u.pool = t.pool /\ u.bundled = t.bundled
  BY <1>1, <1>2 DEF Mutation
<1>4. /\ tx'[m] = (tx[m] \ {t}) \cup {u}
      /\ \A k \in Member : k # m => tx'[k] = tx[k]
  BY <1>1, <1>2
<1>5. ReportsKept
  BY <1>4 DEF ReportsKept, WalletSends
<1>6. tx' \in [Member -> SUBSET Mutation]
  BY <1>1, <1>2, <1>3
<1> QED
  BY <1>3, <1>4, <1>5, <1>6

LEMMA WalletSendsStep ==
    ASSUME IInv, NEW m \in Member, NEW t \in tx[m], WalletSends(m, t)
    PROVE  IInv'
<1>1. Execute(m, t) /\ UNCHANGED <<mirrorVars, collected, lost>>
  BY DEF WalletSends
<1>2. /\ ReportsKept /\ tx' \in [Member -> SUBSET Mutation]
      /\ \A k \in Member : k # m => tx'[k] = tx[k]
  BY SignedEffect
<1>3. PICK u \in Mutation :
        /\ u.at = "report" /\ u.by = t.by /\ u.kind = t.kind
        /\ u.pool = t.pool /\ u.bundled = t.bundled
        /\ u \in tx'[m] /\ tx'[m] \subseteq (tx[m] \ {t}) \cup {u}
  BY SignedEffect
<1>4. /\ AuditedStep /\ TookEffect(m, t)'
      /\ \A p \in Pool : News(p) /\ NoResult(p)
      /\ \A p \in Pool : pool[p] = Chain!NoPool /\ pool'[p] # Chain!NoPool =>
            /\ t.kind = "create" /\ t.pool = p
            /\ pool'[p].max_entries = record[p].terms.max_entries
            /\ pool'[p].stake_amount = record[p].terms.stake_amount
      /\ \A p \in Pool : \A k \in Chain!Entrants(p)' :
            \/ k \in Chain!Entrants(p)
            \/ k = m /\ t.pool = p /\ (t.kind = "enter" \/ t.bundled)
  BY <1>1, ExecuteEffect
<1>5. MirrorGrows /\ ChainGrows /\ record' = record /\ pick' = pick
  BY <1>1, <1>4, ChainMoves DEF mirrorVars
<1>6. TypeOK /\ \A k \in Member : MutationsHold(k)
  BY DEF IInv
<1>7. MutationsHold(m)'
  <2>1. ASSUME NEW v \in tx'[m]
        PROVE  /\ v.bundled => v.kind = "create"
               /\ Built(m, v)'
               /\ v.at = "report" => TookEffect(m, v)'
    <3>1. CASE v \in tx[m]
      <4>1. v.pool \in Pool
        BY <1>6, <3>1 DEF TypeOK, Mutation
      <4> QED
        BY <1>5, <1>6, <3>1, <4>1, BuiltKept, EffectKept DEF MutationsHold
    <3>2. CASE v = u
      <4>1. (t.bundled => t.kind = "create") /\ Built(m, t) /\ t.pool \in Pool
        BY <1>6 DEF MutationsHold, TypeOK, Mutation
      <4>2. Built(m, t)'
        BY <1>5, <4>1, BuiltKept
      <4>3. Built(m, v)' /\ TookEffect(m, v)'
        BY <1>3, <1>4, <3>2, <4>2 DEF Built, TookEffect
      <4> QED
        BY <1>3, <3>2, <4>1, <4>3
    <3> QED
      BY <1>3, <3>1, <3>2
  <2>2. \A v, w \in tx'[m] : v.by = w.by => v = w
    BY <1>3, <1>6 DEF MutationsHold
  <2> QED
    BY <2>1, <2>2 DEF MutationsHold
<1>8. ASSUME NEW k \in Member, k # m PROVE MutationsHold(k)'
  <2>1. tx'[k] \subseteq tx[k]
    BY <1>2, <1>8
  <2> QED
    BY <1>5, <1>6, <2>1, MutationsKept
<1>9. ASSUME lost = 0, NEW p \in Pool PROVE ChainKnown(p)'
  <2>0. ChainKnown(p)
    BY <1>9 DEF IInv
  <2>1. ASSUME pool'[p] # Chain!NoPool
        PROVE  \/ record'[p].onChain
               \/ \E k \in Member : \E v \in tx'[k] :
                      v.at = "report" /\ v.pool = p /\ v.kind = "create"
    <3>1. CASE pool[p] # Chain!NoPool
      BY <1>2, <1>5, <2>0, <3>1 DEF ChainKnown, ReportsKept
    <3>2. CASE pool[p] = Chain!NoPool
      BY <1>3, <1>4, <2>1, <3>2
    <3> QED
      BY <3>1, <3>2
  <2>2. ASSUME NEW k \in Chain!Entrants(p)'
        PROVE  pick'[p][k].paid \/ Reporting(k, p)'
    <3>1. k \in Member
      BY DEF Chain!Entrants
    <3>2. CASE k \in Chain!Entrants(p)
      BY <1>2, <1>5, <2>0, <3>1, <3>2 DEF ChainKnown, Reporting, ReportsKept
    <3>3. CASE k = m /\ t.pool = p /\ (t.kind = "enter" \/ t.bundled)
      BY <1>3, <3>3 DEF Reporting
    <3> QED
      BY <1>4, <3>2, <3>3
  <2> QED
    BY <2>1, <2>2 DEF ChainKnown
<1>10. \A p \in Pool : pool'[p].status \in {"Resolved", "Voided"} =>
            /\ pool'[p].winning_outcome \in OutcomeArg
            /\ pool'[p].status = "Voided" =>
                pool'[p].winner_count = 0 /\ pool'[p].share_amount = 0
  BY <1>4 DEF NoResult, IInv, PoolAgrees
<1> QED
  BY <1>1, <1>2, <1>4, <1>7, <1>8, <1>9, <1>10, ChainStep

-----------------------------------------------------------------------------
(* The inductive invariant *)

LEMMA InitInv == Init => IInv
<1> SUFFICES ASSUME Init PROVE IInv
  OBVIOUS
<1>0. Endowment \in Nat
  BY ChainArguments DEF Chain!ArgumentTypes
<1>1. Chain!TypeOK
  <2>1. config \in Chain!Config
    BY PoolApiTypes DEF Init, Chain!Config, Chain!Signer
  <2> QED
    BY <1>0, <2>1 DEF Init, Chain!TypeOK, Chain!Account
<1>2. ASSUME NEW p \in Pool
      PROVE  /\ pool[p] = Chain!NoPool /\ pool[p].status = "Absent" /\ vault[p] = 0
             /\ record[p] = NoRecord /\ record[p].status = "none"
             /\ Chain!Entrants(p) = {} /\ \A m \in Member : pick[p][m] = NoPick
             /\ collected[p] = {}
  BY DEF Init, MirrorInit, Chain!NoPool, NoRecord, Chain!Entrants
<1>3. Chain!IInv
  BY <1>1, <1>2
  DEF Chain!IInv, Chain!PoolInvOf, Chain!TermsKeptOf, Chain!EntryLedgerOf,
      Chain!RefundableOf, Chain!ShareBudgetOf, Chain!RakeBoundedOf, Chain!Claimed
<1>4. Chain!WinnersCovered
  BY <1>2 DEF Chain!WinnersCovered, Chain!WinnersCoveredOf
<1>5. MirrorTypes
  BY DEF Init, MirrorInit, MirrorTypes
<1>6. TypeOK
  BY <1>1, <1>5, PoolApiTypes DEF Init, TypeOK
<1>7. ASSUME NEW p \in Pool PROVE MirrorOf(p) /\ PoolAgrees(p) /\ ChainKnown(p)
  BY <1>2
  DEF MirrorOf, MirrorBehind, NeverAhead, ShareHolds, PickHolds, PoolAgrees, ChainKnown, Settled
<1>8. \A m \in Member : MutationsHold(m)
  BY DEF Init, MutationsHold
<1> QED
  BY <1>3, <1>4, <1>5, <1>6, <1>7, <1>8 DEF IInv, JointInv

LEMMA StillStep == IInv /\ UNCHANGED vars => IInv'
<1> SUFFICES ASSUME IInv, UNCHANGED vars PROVE IInv'
  OBVIOUS
<1>1. UNCHANGED <<mirrorVars, chainVars, collected, tx, lost>>
  BY DEF vars, mirrorVars, chainVars
<1>2. MirrorGrows /\ MirrorStays /\ record' = record /\ pick' = pick
  BY <1>1, MirrorStill DEF mirrorVars
<1>3. /\ tx' \in [Member -> SUBSET Mutation] /\ ReportsKept
      /\ \A k \in Member : MutationsHold(k)'
  BY <1>1, <1>2, ChainStill, MutationsKept DEF IInv, TypeOK, ReportsKept
<1>4. /\ collected' \in [Pool -> SUBSET Member] /\ lost' \in 0 .. MaxLost
      /\ lost' = 0 => \A q \in Pool : ChainKnown(q)'
      /\ \A q \in Pool : PoolAgrees(q)'
  BY <1>1, <1>2, <1>3, QuietStep DEF Pickers
<1> QED
  BY <1>1, <1>2, <1>3, <1>4, ApiStep

LEMMA StepInv == IInv /\ [Next]_vars => IInv'
<1> SUFFICES ASSUME IInv, Next PROVE IInv'
  BY StillStep
<1>1. ASSUME NEW p \in Pool, WorkerLocks(p) \/ WorkerSends(p) \/ WorkerMarks(p)
      PROVE  IInv'
  BY <1>1, WorkerSendsStep, WorkerWritesStep DEF WorkerWrites
<1>2. ASSUME NEW p \in Pool, NEW m \in Member,
             \/ \E terms \in Terms, x \in OutcomeArg : HostPool(m, p, terms, x)
             \/ \E x \in OutcomeArg : Enter(m, p, x)
             \/ FinishCreate(m, p) \/ FinishPayment(m, p) \/ Payout(m, p)
      PROVE  IInv'
  BY <1>2, HostPoolStep, EnterStep, FinishCreateStep, FinishPaymentStep, PayoutStep
<1>3. ASSUME NEW m \in Member, NEW t \in tx[m],
             WalletSends(m, t) \/ WalletFails(m, t) \/ Report(m, t) \/ ReportLost(m, t)
      PROVE  IInv'
  BY <1>3, WalletSendsStep, EndStep, ReportStep
<1> QED
  BY <1>1, <1>2, <1>3, TickStep DEF Next

\* The mirror stays behind the chain, and every difference between them has its
\* report on the way, whatever the members and the worker do.
THEOREM Invariance == Spec => []IInv
BY InitInv, StepInv, PTL DEF Spec

-----------------------------------------------------------------------------
(* What follows for the members *)

\* Whoever has a pick that is not paid yet finds a seat when paying, however the
\* picks, the payments and their reports interleave.
LEMMA SeatInv == IInv => SeatKept
<1> SUFFICES ASSUME IInv, NEW p \in Pool, pool[p] # Chain!NoPool,
                    NEW m \in Pickers(p) \ Chain!Entrants(p)
             PROVE  pool[p].entry_count < pool[p].max_entries
  BY DEF SeatKept
<1>1. /\ Chain!TypeOK /\ Chain!EntryLedgerOf(p) /\ MirrorTypes /\ MirrorBehind(p)
      /\ PoolAgrees(p)
  BY DEF IInv, JointInv, Chain!IInv, Chain!PoolInvOf, MirrorOf
<1>2. pool[p].status # "Absent" /\ record[p] # NoRecord
  BY <1>1, PresentAccount DEF MirrorBehind
<1>3. /\ pool[p].entry_count = Cardinality(Chain!Entrants(p))
      /\ Cardinality(Pickers(p)) <= pool[p].max_entries
  BY <1>1, <1>2, SameCardinality DEF Chain!EntryLedgerOf, PoolAgrees
<1>4. pool[p].max_entries \in Nat
  BY <1>1, PresentAccount DEF Chain!PoolAccount
<1>5. Chain!Entrants(p) \subseteq Pickers(p) \ {m}
  BY <1>1 DEF MirrorBehind, Pickers, Chain!Entrants
<1>6. /\ IsFiniteSet(Pickers(p)) /\ Cardinality(Pickers(p)) \in Nat
      /\ IsFiniteSet(Pickers(p) \ {m})
      /\ Cardinality(Pickers(p) \ {m}) = Cardinality(Pickers(p)) - 1
  BY PickersFinite, FS_RemoveElement
<1>7. /\ Cardinality(Chain!Entrants(p)) <= Cardinality(Pickers(p) \ {m})
      /\ IsFiniteSet(Chain!Entrants(p))
  BY <1>5, <1>6, FS_Subset
<1>8. Cardinality(Chain!Entrants(p)) \in Nat
  BY <1>7, FS_CardinalityType
<1> QED
  BY <1>3, <1>4, <1>6, <1>7, <1>8

THEOREM SeatAlwaysKept == Spec => []SeatKept
BY Invariance, SeatInv, PTL

\* Money the chain owes a member can be collected in the app, as long as no
\* report was lost.
LEMMA CollectInv == IInv => (lost = 0 => CollectOffered)
<1> SUFFICES ASSUME IInv, lost = 0, NEW p \in Pool, NEW m \in Member,
                    record[p].status \in Settled, Owed(m, p) > 0, Reported
             PROVE  PayoutButton(m, p) # "none" /\ ClaimHandler(m, p, PayoutButton(m, p))
  BY DEF CollectOffered
<1>1. /\ MirrorTypes /\ MirrorBehind(p) /\ NeverAhead(p) /\ PickHolds(p, m)
      /\ PoolAgrees(p) /\ ChainKnown(p) /\ Chain!TypeOK
  BY DEF IInv, JointInv, MirrorOf, Chain!IInv
<1>2. /\ m \in Chain!Entrants(p) \ Chain!Claimed(p)
      /\ pool[p].status = "Resolved" => m \in Chain!Winners(p, pool[p].winning_outcome)
  BY DEF Owed
<1>3. /\ pick[p][m] # NoPick /\ pick[p][m].prediction = entry[p][m].prediction
      /\ pick[p][m].status \in PickStatus
  BY <1>1, <1>2, MemberTypes DEF MirrorBehind
<1>4. m \notin collected[p]
  BY <1>1, <1>2 DEF PoolAgrees
<1>5. pool[p].status = ChainStatus[record[p].status]
  BY <1>1 DEF NeverAhead
<1>6. pool[p] # Chain!NoPool
  BY <1>1, <1>5, PresentAccount DEF Settled, ChainStatus
<1>7. record[p].onChain
  BY <1>1, <1>6 DEF ChainKnown, Reported
<1>8. CASE record[p].status = "resolved"
  <2>1. pool[p].status = "Resolved" /\ pick[p][m].prediction = pool[p].winning_outcome
    BY <1>2, <1>3, <1>5, <1>8 DEF ChainStatus, Chain!Winners
  <2>2. pick[p][m].status = "won"
    BY <1>1, <1>3, <2>1 DEF PickHolds, PickStatus
  <2>3. PayoutButton(m, p) = "claim"
    BY <1>3, <1>4, <1>8, <2>2 DEF PayoutButton
  <2> QED
    BY <1>3, <1>7, <1>8, <2>3 DEF ClaimHandler
<1>9. CASE record[p].status \in {"voided", "cancelled"}
  <2>1. PayoutButton(m, p) = "refund"
    BY <1>3, <1>4, <1>9 DEF PayoutButton
  <2> QED
    BY <1>3, <1>7, <1>9, <2>1 DEF ClaimHandler
<1> QED
  BY <1>8, <1>9 DEF Settled

THEOREM CollectAlwaysOffered == Spec => [](lost = 0 => CollectOffered)
BY Invariance, CollectInv, PTL

\* A pick that the page calls unpaid is not paid, as long as no report was lost.
LEMMA UnpaidInv == IInv => (lost = 0 => UnpaidIsUnpaid)
<1> SUFFICES ASSUME IInv, lost = 0, NEW p \in Pool, NEW m \in Member,
                    ~pick[p][m].paid, Reported
             PROVE  m \notin Chain!Entrants(p)
  BY DEF UnpaidIsUnpaid
<1>1. ChainKnown(p) /\ ~Reporting(m, p)
  BY DEF IInv, Reporting, Reported
<1> QED
  BY <1>1 DEF ChainKnown

THEOREM UnpaidAlwaysUnpaid == Spec => [](lost = 0 => UnpaidIsUnpaid)
BY Invariance, UnpaidInv, PTL

-----------------------------------------------------------------------------
(* The pools that the app's page creates *)

\* What a step may do to what the mirror calls paid: a record is born with its
\* host's pick, a pick becomes paid after its entry, and a creation without the
\* host's stake comes after it.
LEMMA PageKept ==
    ASSUME IInv, PageInv, MirrorGrows, ChainGrows, MirrorTypes',
           tx' \in [Member -> SUBSET Mutation],
           \A p \in Pool : record[p] = NoRecord /\ record'[p] # NoRecord =>
                pick'[p][record'[p].hostWallet] # NoPick,
           \A p \in Pool : \A k \in Pickers(p)' : pick'[p][k].paid =>
                (k \in Pickers(p) /\ pick[p][k].paid) \/ k \in Chain!Entrants(p)',
           \A k \in Member : \A u \in tx'[k] : u.kind = "create" =>
                \/ u.bundled \/ k \in Chain!Entrants(u.pool)
                \/ \E v \in tx[k] :
                    v.kind = "create" /\ v.pool = u.pool /\ v.bundled = u.bundled
    PROVE  PageInv'
<1>1. \A p \in Pool : Chain!Entrants(p) \subseteq Chain!Entrants(p)'
  BY DEF ChainGrows, EntriesKept
<1>2. ASSUME NEW p \in Pool
      PROVE  /\ record'[p] # NoRecord => pick'[p][record'[p].hostWallet] # NoPick
             /\ \A k \in Pickers(p)' : pick'[p][k].paid => k \in Chain!Entrants(p)'
  <2>1. record[p] # NoRecord => record[p].hostWallet \in Member
    BY MemberTypes DEF IInv, TypeOK
  <2>2. record'[p] # NoRecord => pick'[p][record'[p].hostWallet] # NoPick
    BY <2>1 DEF PageInv, MirrorGrows, RecordKept, PicksKept
  <2>3. \A k \in Pickers(p)' : pick'[p][k].paid => k \in Chain!Entrants(p)'
    BY <1>1 DEF PageInv
  <2> QED
    BY <2>2, <2>3
<1>3. ASSUME NEW k \in Member, NEW u \in tx'[k], u.kind = "create"
      PROVE  u.bundled \/ k \in Chain!Entrants(u.pool)'
  <2>1. u.pool \in Pool
    BY DEF Mutation
  <2>2. CASE u.bundled \/ k \in Chain!Entrants(u.pool)
    BY <1>1, <2>1, <2>2
  <2>3. ASSUME NEW v \in tx[k], v.kind = "create", v.pool = u.pool, v.bundled = u.bundled
        PROVE  u.bundled \/ k \in Chain!Entrants(u.pool)'
    BY <1>1, <2>1, <2>3 DEF PageInv
  <2> QED
    BY <1>3, <2>2, <2>3
<1> QED
  BY <1>2, <1>3 DEF PageInv

\* A step that leaves the mirror alone: the new transactions are all there is.
LEMMA PageUnwritten ==
    ASSUME IInv, PageInv, UNCHANGED mirrorVars, ChainGrows,
           tx' \in [Member -> SUBSET Mutation],
           \A k \in Member : \A u \in tx'[k] : u.kind = "create" =>
                \/ u.bundled \/ k \in Chain!Entrants(u.pool)
                \/ \E v \in tx[k] :
                    v.kind = "create" /\ v.pool = u.pool /\ v.bundled = u.bundled
    PROVE  PageInv'
<1>1. record' = record /\ pick' = pick
  BY DEF mirrorVars
<1>2. /\ MirrorTypes' /\ MirrorGrows
      /\ \A p \in Pool : Pickers(p)' = Pickers(p)
  BY <1>1 DEF IInv, TypeOK, MirrorTypes, MirrorGrows, RecordKept, PicksKept, Pickers
<1> QED
  BY <1>1, <1>2, PageKept

\* The pages offer the host's stake with the creation, or it is paid already.
LEMMA PageOffers ==
    ASSUME IInv, PageInv, NEW m \in Member, NEW p \in Pool,
           FinishCreate(m, p) \/ FinishPayment(m, p) \/ Payout(m, p)
    PROVE  PageInv'
<1>1. PICK t :
        /\ UNCHANGED <<mirrorVars, chainVars, collected, lost>>
        /\ Offers(m, t) /\ t \in Mutation
        /\ t.kind = "create" => t.bundled \/ m \in Chain!Entrants(t.pool)
  <2>1. CASE FinishCreate(m, p)
    <3> DEFINE t == Tx("finishCreate", "create", p, pick[p][m] # NoPick /\ ~pick[p][m].paid)
    <3>1. /\ UNCHANGED <<mirrorVars, chainVars, collected, lost>> /\ Offers(m, t)
          /\ record[p] # NoRecord /\ record[p].hostWallet = m
      BY <2>1 DEF FinishCreate, HostMayCreate
    <3>2. pick[p][m] # NoPick /\ pick[p][m].paid \in BOOLEAN
      BY <3>1, PickIsTyped DEF PageInv, IInv, TypeOK, MirrorTypes
    <3>3. /\ t \in Mutation /\ t.pool = p
          /\ t.bundled = ~pick[p][m].paid
      BY <3>2 DEF Tx, Mutation
    <3>4. pick[p][m].paid => m \in Chain!Entrants(p)
      BY <3>2 DEF PageInv, Pickers
    <3> HIDE DEF t
    <3> QED
      BY <3>1, <3>2, <3>3, <3>4
  <2>2. CASE FinishPayment(m, p)
    <3>1. /\ Tx("finishPayment", "enter", p, FALSE) \in Mutation
          /\ Tx("finishPayment", "enter", p, FALSE).kind = "enter"
      BY DEF Tx, Mutation
    <3> QED
      BY <2>2, <3>1 DEF FinishPayment
  <2>3. CASE Payout(m, p)
    <3>1. PayoutButton(m, p) \in {"claim", "refund"}
      BY <2>3 DEF Payout, PayoutButton
    <3>2. /\ Tx("payout", PayoutButton(m, p), p, FALSE) \in Mutation
          /\ Tx("payout", PayoutButton(m, p), p, FALSE).kind # "create"
      BY <3>1 DEF Tx, Mutation
    <3> QED
      BY <2>3, <3>2 DEF Payout
  <2> QED
    BY <2>1, <2>2, <2>3
<1>2. /\ tx' \in [Member -> SUBSET Mutation]
      /\ \A k \in Member : k # m => tx'[k] = tx[k]
      /\ tx'[m] \subseteq tx[m] \cup {t}
  BY <1>1, OffersEffect DEF IInv
<1>3. ChainGrows
  BY <1>1, ChainStill
<1> QED
  BY <1>1, <1>2, <1>3, PageUnwritten

\* POST /pools: the page sends the host's pick, and its stake is in the creation.
LEMMA PageHostPool ==
    ASSUME PageBets, IInv, PageInv, NEW m \in Member, NEW p \in Pool, NEW terms \in Terms,
           NEW x \in OutcomeArg, HostPool(m, p, terms, x)
    PROVE  PageInv'
<1>1. /\ MirrorStays /\ MirrorGrows
      /\ record'[p] # NoRecord /\ record'[p].hostWallet = m
      /\ record'[p].terms = terms /\ record'[p].onChain = FALSE
      /\ \A q \in Pool : q # p => record'[q] = record[q] /\ pick'[q] = pick[q]
      /\ Chain!Entrants(p) = {} /\ pool[p] = Chain!NoPool
      /\ \A k \in Member : k # m => pick'[p][k] = NoPick
      /\ \/ pick'[p][m] = NoPick
         \/ pick'[p][m] # NoPick /\ pick'[p][m].paid = FALSE
  BY HostPoolMirror, Zenon
<1>2. /\ pick' = [pick EXCEPT ![p][m] = NewPick(x)]
      /\ Offers(m, Tx("createPool", "create", p, TRUE))
  <2>1. x \in Nat /\ terms.outcome_count \in Nat
    BY TermsTypes, ChainArguments DEF Chain!ArgumentTypes, Chain!U16
  <2>2. ~(x >= terms.outcome_count)
    BY <2>1 DEF PageBets
  <2> QED
    BY <2>2 DEF PageBets, HostPool
<1>3. pick'[p][m] # NoPick
  BY <1>2 DEF IInv, TypeOK, MirrorTypes, NewPick, NoPick
<1>4. ChainGrows /\ MirrorTypes'
  BY <1>1, ChainStill DEF HostPool, MirrorStays
<1>5. /\ Tx("createPool", "create", p, TRUE) \in Mutation
      /\ Tx("createPool", "create", p, TRUE).bundled = TRUE
  BY DEF Tx, Mutation
<1>6. /\ tx' \in [Member -> SUBSET Mutation]
      /\ \A k \in Member : k # m => tx'[k] = tx[k]
      /\ tx'[m] \subseteq tx[m] \cup {Tx("createPool", "create", p, TRUE)}
  BY <1>2, <1>5, OffersEffect DEF IInv
<1>7. \A q \in Pool : record[q] = NoRecord /\ record'[q] # NoRecord =>
            pick'[q][record'[q].hostWallet] # NoPick
  BY <1>1, <1>3
<1>8. \A q \in Pool : \A k \in Pickers(q)' : pick'[q][k].paid =>
            k \in Pickers(q) /\ pick[q][k].paid
  BY <1>1 DEF Pickers
<1> QED
  BY <1>1, <1>4, <1>5, <1>6, <1>7, <1>8, PageKept

\* POST /pools/:id/entries: a new pick is unpaid.
LEMMA PageEnter ==
    ASSUME IInv, PageInv, NEW m \in Member, NEW p \in Pool, NEW x \in OutcomeArg,
           Enter(m, p, x)
    PROVE  PageInv'
<1>1. /\ CreateEntry(m, p, x, now) /\ UNCHANGED chainVars
      /\ Offers(m, Tx("enterPool", "enter", p, FALSE)) \/ UNCHANGED tx
  BY DEF Enter
<1>2. /\ record' = record /\ pick[p][m] = NoPick
      /\ pick' = [pick EXCEPT ![p][m] = NewPick(x)]
  BY <1>1 DEF CreateEntry
<1>3. /\ \A q \in Pool : q # p => pick'[q] = pick[q]
      /\ \A k \in Member : k # m => pick'[p][k] = pick[p][k]
      /\ pick'[p][m] # NoPick /\ pick'[p][m].paid = FALSE
  BY <1>2 DEF IInv, TypeOK, MirrorTypes, NewPick, NoPick
<1>4. MirrorGrows
  BY <1>2, <1>3 DEF MirrorGrows, RecordKept, PicksKept
<1>5. ChainGrows /\ MirrorTypes'
  BY <1>1, ChainStill, CreateEntryMirror DEF IInv, JointInv, MirrorStays
<1>6. /\ Tx("enterPool", "enter", p, FALSE) \in Mutation
      /\ Tx("enterPool", "enter", p, FALSE).kind = "enter"
  BY DEF Tx, Mutation
<1>7. /\ tx' \in [Member -> SUBSET Mutation]
      /\ \A k \in Member : k # m => tx'[k] = tx[k]
      /\ tx'[m] \subseteq tx[m] \cup {Tx("enterPool", "enter", p, FALSE)}
  BY <1>1, <1>6, OffersEffect DEF IInv, TypeOK
<1>8. \A q \in Pool : \A k \in Pickers(q)' : pick'[q][k].paid =>
            k \in Pickers(q) /\ pick[q][k].paid
  BY <1>3 DEF Pickers
<1> QED
  BY <1>2, <1>4, <1>5, <1>6, <1>7, <1>8, PageKept

\* POST /pools/:id/tx: what is marked as paid has its entry on the chain.
LEMMA PageReport ==
    ASSUME IInv, PageInv, NEW m \in Member, NEW t \in tx[m], Report(m, t)
    PROVE  PageInv'
<1>0. /\ MirrorTypes /\ t \in Mutation /\ t.pool \in Pool
      /\ Built(m, t) /\ TookEffect(m, t)
  BY DEF IInv, TypeOK, MutationsHold, Report, Mutation
<1>1. /\ UNCHANGED <<chainVars, lost>> /\ tx' = [tx EXCEPT ![m] = @ \ {t}]
      /\ \/ t.kind = "create" /\ RecordCreateTx(t.pool)
         \/ t.kind = "enter" /\ RecordEnterTx(m, t.pool)
         \/ UNCHANGED mirrorVars
  BY DEF Report
<1>2. tx' \in [Member -> SUBSET Mutation] /\ \A k \in Member : tx'[k] \subseteq tx[k]
  BY <1>1 DEF IInv, TypeOK
<1>3. /\ ChainGrows
      /\ \A q \in Pool : Chain!Entrants(q)' = Chain!Entrants(q)
  BY <1>1, ChainStill
<1>4. CASE UNCHANGED mirrorVars
  BY <1>2, <1>3, <1>4, PageUnwritten
<1>5. CASE t.kind = "create" /\ RecordCreateTx(t.pool)
  <2>1. MirrorStays
    BY <1>0, <1>1, <1>5, RecordCreateMirror DEF IInv, JointInv, TookEffect
  <2>2. /\ \A q \in Pool : q # t.pool => record'[q] = record[q]
        /\ record'[t.pool] # NoRecord /\ record'[t.pool].onChain = TRUE
        /\ record'[t.pool].hostWallet = record[t.pool].hostWallet
        /\ record'[t.pool].terms = record[t.pool].terms
        /\ \A q \in Pool : Pickers(q)' = Pickers(q) /\ PicksKept(q)
    BY <1>0, <1>5, RecordCreateEffect
  <2>3. \A q \in Pool, k \in Member :
            pick'[q][k] # NoPick /\ pick'[q][k].paid =>
                pick[q][k].paid \/ (q = t.pool /\ k = record[t.pool].hostWallet)
    BY <1>0, <1>5, RecordCreateEffect
  <2>4. record[t.pool] # NoRecord /\ record[t.pool].hostWallet = m
    BY <1>0, <1>5 DEF Built
  <2>5. m \in Chain!Entrants(t.pool)
    BY <1>0, <1>5 DEF TookEffect, PageInv
  <2>6. \A q \in Pool : \A k \in Pickers(q)' : pick'[q][k].paid =>
            (k \in Pickers(q) /\ pick[q][k].paid) \/ k \in Chain!Entrants(q)'
    BY <1>3, <2>2, <2>3, <2>4, <2>5 DEF Pickers
  <2>7. MirrorGrows /\ MirrorTypes'
    BY <2>1, <2>2 DEF MirrorGrows, RecordKept, MirrorStays
  <2> QED
    BY <1>2, <1>3, <2>2, <2>4, <2>6, <2>7, PageKept
<1>6. CASE t.kind = "enter" /\ RecordEnterTx(m, t.pool)
  <2>1. MirrorStays
    BY <1>0, <1>1, <1>6, RecordEnterMirror DEF IInv, JointInv
  <2>2. /\ record' = record
        /\ \A q \in Pool : Pickers(q)' = Pickers(q) /\ PicksKept(q)
        /\ \A q \in Pool, k \in Member :
            pick'[q][k].paid => pick[q][k].paid \/ (q = t.pool /\ k = m)
    BY <1>0, <1>6, RecordEnterEffect
  <2>3. m \in Chain!Entrants(t.pool)
    BY <1>0, <1>6 DEF TookEffect
  <2>4. \A q \in Pool : \A k \in Pickers(q)' : pick'[q][k].paid =>
            (k \in Pickers(q) /\ pick[q][k].paid) \/ k \in Chain!Entrants(q)'
    BY <1>3, <2>2, <2>3 DEF Pickers
  <2>5. MirrorGrows /\ MirrorTypes'
    BY <2>1, <2>2 DEF MirrorGrows, RecordKept, MirrorStays
  <2> QED
    BY <1>2, <1>3, <2>2, <2>4, <2>5, PageKept
<1> QED
  BY <1>1, <1>4, <1>5, <1>6

\* The wallet, the chain and the worker mark no pick as paid.
LEMMA PageMutationEnds ==
    ASSUME IInv, PageInv, NEW m \in Member, NEW t \in tx[m],
           WalletSends(m, t) \/ WalletFails(m, t) \/ ReportLost(m, t)
    PROVE  PageInv'
<1>1. CASE WalletSends(m, t)
  <2>1. Execute(m, t) /\ UNCHANGED mirrorVars
    BY <1>1 DEF WalletSends
  <2>2. ChainGrows
    BY <2>1, ExecuteEffect, ChainMoves
  <2>3. /\ tx' \in [Member -> SUBSET Mutation] /\ \A k \in Member : k # m => tx'[k] = tx[k]
    BY <1>1, SignedEffect
  <2>4. PICK u \in Mutation :
            /\ u.kind = t.kind /\ u.pool = t.pool /\ u.bundled = t.bundled
            /\ tx'[m] \subseteq (tx[m] \ {t}) \cup {u}
    BY <1>1, SignedEffect
  <2> QED
    BY <2>1, <2>2, <2>3, <2>4, PageUnwritten
<1>2. CASE WalletFails(m, t) \/ ReportLost(m, t)
  <2>1. UNCHANGED <<mirrorVars, chainVars>> /\ tx' = [tx EXCEPT ![m] = @ \ {t}]
    BY <1>2 DEF WalletFails, ReportLost
  <2>2. tx' \in [Member -> SUBSET Mutation] /\ \A k \in Member : tx'[k] \subseteq tx[k]
    BY <2>1 DEF IInv, TypeOK
  <2> QED
    BY <2>1, <2>2, ChainStill, PageUnwritten
<1> QED
  BY <1>1, <1>2

LEMMA PageWorker ==
    ASSUME IInv, PageInv, NEW p \in Pool, WorkerWrites(p)
    PROVE  PageInv'
<1>1. /\ MirrorStays /\ MirrorGrows
      /\ UNCHANGED <<chainVars, collected, tx, lost>>
      /\ \A q \in Pool :
            /\ record[q] = NoRecord => record'[q] = NoRecord
            /\ Pickers(q)' = Pickers(q)
            /\ \A m \in Pickers(q) : pick'[q][m].paid = pick[q][m].paid
  BY WorkerWritesEffect
<1>2. ChainGrows /\ MirrorTypes' /\ tx' \in [Member -> SUBSET Mutation]
  BY <1>1, ChainStill DEF MirrorStays, IInv, TypeOK
<1> QED
  BY <1>1, <1>2, PageKept

LEMMA PageChain ==
    ASSUME IInv, PageInv, Tick \/ \E p \in Pool : WorkerSends(p)
    PROVE  PageInv'
<1>1. AuditedStep /\ UNCHANGED <<mirrorVars, tx>>
  <2>1. CASE Tick
    BY <2>1 DEF Tick, AuditedStep, Chain!AuditedNext
  <2>2. ASSUME NEW p \in Pool, WorkerSends(p)
        PROVE  AuditedStep /\ UNCHANGED <<mirrorVars, tx>>
    <3>1. ServerKey \in Chain!Signer /\ ServerTreasury \in Treasury
      BY PoolApiTypes DEF Chain!Signer
    <3> QED
      BY <2>2, <3>1
      DEF WorkerSends, AuditedStep, Chain!AuditedNext, Chain!PoolNext, Chain!AuditedResolve
  <2> QED
    BY <2>1, <2>2
<1>2. ChainGrows /\ tx' \in [Member -> SUBSET Mutation]
  BY <1>1, ChainMoves DEF IInv, TypeOK
<1> QED
  BY <1>1, <1>2, PageUnwritten

LEMMA PageStep ==
    ASSUME PageBets PROVE IInv /\ PageInv /\ [Next]_vars => PageInv'
<1> SUFFICES ASSUME IInv, PageInv, [Next]_vars PROVE PageInv'
  OBVIOUS
<1>1. CASE UNCHANGED vars
  BY <1>1, ChainStill, PageUnwritten DEF vars, mirrorVars, chainVars, IInv, TypeOK
<1>2. CASE Next
  <2>1. ASSUME NEW p \in Pool, WorkerLocks(p) \/ WorkerSends(p) \/ WorkerMarks(p)
        PROVE  PageInv'
    BY <2>1, PageWorker, PageChain DEF WorkerWrites
  <2>2. ASSUME NEW p \in Pool, NEW m \in Member,
               \/ \E terms \in Terms, x \in OutcomeArg : HostPool(m, p, terms, x)
               \/ \E x \in OutcomeArg : Enter(m, p, x)
               \/ FinishCreate(m, p) \/ FinishPayment(m, p) \/ Payout(m, p)
        PROVE  PageInv'
    BY <2>2, PageHostPool, PageEnter, PageOffers
  <2>3. ASSUME NEW m \in Member, NEW t \in tx[m],
               WalletSends(m, t) \/ WalletFails(m, t) \/ Report(m, t) \/ ReportLost(m, t)
        PROVE  PageInv'
    BY <2>3, PageMutationEnds, PageReport
  <2> QED
    BY <1>2, <2>1, <2>2, <2>3, PageChain DEF Next
<1> QED
  BY <1>1, <1>2

LEMMA FlagsInv == IInv /\ PageInv => FlagsTrue
BY DEF IInv, PoolAgrees, PageInv, FlagsTrue

\* What the mirror was told of the chain is so, when the pools are created by the
\* page: no creation reports a stake that was not in it.
THEOREM FlagsAlwaysTrue == ASSUME PageBets PROVE Spec => []FlagsTrue
<1>1. Init => PageInv
  BY DEF Init, MirrorInit, PageInv, Pickers
<1>2. IInv /\ PageInv /\ [Next]_vars => PageInv'
  BY PageStep
<1>3. Spec => [](IInv /\ PageInv)
  BY <1>1, <1>2, Invariance, PTL DEF Spec
<1> QED
  BY <1>3, FlagsInv, PTL

\* The mirror is never ahead of the chain and its verdicts are the chain's, whatever
\* the members do between two passes of the worker.
THEOREM MirrorStaysBehind == Spec => [](MirrorNeverAhead /\ VerdictsHold)
<1>1. IInv => MirrorNeverAhead /\ VerdictsHold
  BY JointVerdicts DEF IInv, JointInv, MirrorOf, MirrorNeverAhead
<1> QED
  BY <1>1, Invariance, PTL

-----------------------------------------------------------------------------
(* "My record" *)

LEMMA StepIsAudited == ASSUME IInv, [Next]_vars PROVE [AuditedStep]_chainVars
<1>1. CASE UNCHANGED vars
  BY <1>1 DEF vars, chainVars
<1>2. CASE Tick
  BY <1>2 DEF Tick, AuditedStep, Chain!AuditedNext
<1>3. ASSUME NEW p \in Pool, WorkerSends(p) PROVE AuditedStep
  <2>1. /\ ServerKey \in Key /\ ServerKey \in Chain!Signer /\ ServerTreasury \in Treasury
    BY PoolApiTypes DEF Chain!Signer
  <2> QED
    BY <1>3, <2>1
    DEF WorkerSends, AuditedStep, Chain!AuditedNext, Chain!PoolNext, Chain!AuditedResolve
<1>4. ASSUME NEW p \in Pool, WorkerLocks(p) \/ WorkerMarks(p) PROVE UNCHANGED chainVars
  BY <1>4 DEF WorkerLocks, WorkerMarks
<1>5. ASSUME NEW p \in Pool, NEW m \in Member,
             \/ \E terms \in Terms, x \in OutcomeArg : HostPool(m, p, terms, x)
             \/ \E x \in OutcomeArg : Enter(m, p, x)
             \/ FinishCreate(m, p) \/ FinishPayment(m, p) \/ Payout(m, p)
      PROVE  UNCHANGED chainVars
  BY <1>5 DEF HostPool, Enter, FinishCreate, FinishPayment, Payout
<1>6. ASSUME NEW m \in Member, NEW t \in tx[m], WalletSends(m, t) PROVE AuditedStep
  BY <1>6, ExecuteEffect DEF WalletSends
<1>7. ASSUME NEW m \in Member, NEW t \in tx[m],
             WalletFails(m, t) \/ Report(m, t) \/ ReportLost(m, t)
      PROVE  UNCHANGED chainVars
  BY <1>7 DEF WalletFails, Report, ReportLost
<1> QED
  BY <1>1, <1>2, <1>3, <1>4, <1>5, <1>6, <1>7 DEF Next

\* A verdict is given with the result, so it stays with a result.
LEMMA VerdictKept ==
    ASSUME NEW p \in Pool, VerdictRecorded(p),
           record'[p].status = record[p].status \/ record[p].status \notin Settled
                \/ record'[p].status \in Settled,
           \A m \in Pickers(p)' :
                \/ pick'[p][m].status = "active"
                \/ m \in Pickers(p) /\ pick'[p][m].status = pick[p][m].status
    PROVE  VerdictRecorded(p)'
BY DEF VerdictRecorded

LEMMA VerdictMarked ==
    ASSUME IInv, NEW p \in Pool, WorkerMarks(p), \A q \in Pool : VerdictRecorded(q)
    PROVE  \A q \in Pool : VerdictRecorded(q)'
<1>1. record[p] \in Record(Terms, OutcomeArg) /\ MirrorTypes
  BY DEF WorkerMarks, IInv, JointInv, MirrorTypes, NoRecord
<1>2. record'[p].status \in Settled /\ \A q \in Pool : q # p => record'[q] = record[q]
  <2>2. CASE MarkCancelled(p)
    BY <1>1, <2>2 DEF MarkCancelled, MirrorTypes, Record, Settled
  <2>3. ASSUME NEW w, MarkVoided(p, w)
        PROVE  record'[p].status \in Settled /\ \A q \in Pool : q # p => record'[q] = record[q]
    BY <1>1, <2>3 DEF MarkVoided, MirrorTypes, Record, Settled
  <2>4. ASSUME NEW w, NEW n, NEW share, MarkResolved(p, w, n, share)
        PROVE  record'[p].status \in Settled /\ \A q \in Pool : q # p => record'[q] = record[q]
    BY <1>1, <2>4 DEF MarkResolved, MirrorTypes, Record, Settled
  <2> QED
    BY <2>2, <2>3, <2>4 DEF WorkerMarks
<1>3. \A q \in Pool : q # p => pick'[q] = pick[q]
  BY <1>1 DEF WorkerMarks, MarkCancelled, MarkVoided, MarkResolved, SettlePicks, MirrorTypes
<1>4. VerdictRecorded(p)'
  BY <1>2 DEF VerdictRecorded
<1>5. ASSUME NEW q \in Pool, q # p PROVE VerdictRecorded(q)'
  <2>1. record'[q] = record[q] /\ pick'[q] = pick[q]
    BY <1>2, <1>3, <1>5
  <2> QED
    BY <2>1 DEF VerdictRecorded, Pickers
<1> QED
  BY <1>4, <1>5

LEMMA VerdictReported ==
    ASSUME IInv, NEW m \in Member, NEW t \in tx[m], Report(m, t),
           \A q \in Pool : VerdictRecorded(q)
    PROVE  \A q \in Pool : VerdictRecorded(q)'
<1> DEFINE p == t.pool
<1>1. MirrorTypes /\ p \in Pool
  BY DEF IInv, JointInv, TypeOK, Mutation
<1>2. \/ RecordCreateTx(p) \/ RecordEnterTx(m, p) \/ UNCHANGED mirrorVars
  BY DEF Report
<1> HIDE DEF p
<1>3. ASSUME NEW q \in Pool
      PROVE  record'[q].status = record[q].status
  <2>1. CASE RecordCreateTx(p)
    <3>1. record[p] \in Record(Terms, OutcomeArg)
      BY <1>1, <2>1 DEF RecordCreateTx, MirrorTypes
    <3> QED
      BY <1>1, <2>1, <3>1 DEF RecordCreateTx, MirrorTypes, Record
  <2> QED
    BY <1>2, <2>1 DEF RecordEnterTx, mirrorVars
<1>4. ASSUME NEW q \in Pool, NEW k \in Member
      PROVE  /\ pick[q][k] = NoPick => pick'[q][k] = NoPick
             /\ pick[q][k] # NoPick => pick'[q][k].status = pick[q][k].status
  <2>0. pick[q][k] # NoPick => pick[q][k] \in Pick(OutcomeArg)
    BY <1>1 DEF MirrorTypes
  <2>1. CASE RecordCreateTx(p)
    <3>1. pick'[q][k] = pick[q][k] \/ (pick[q][k] # NoPick /\ pick'[q][k] = [pick[q][k] EXCEPT !.paid = TRUE])
      BY <1>1, <2>1 DEF RecordCreateTx, MirrorTypes
    <3> QED
      BY <2>0, <3>1 DEF Pick
  <2>2. CASE RecordEnterTx(m, p)
    <3>1. pick'[q][k] = pick[q][k] \/ (pick[q][k] # NoPick /\ pick'[q][k] = [pick[q][k] EXCEPT !.paid = TRUE])
      BY <1>1, <2>2 DEF RecordEnterTx, MirrorTypes
    <3> QED
      BY <2>0, <3>1 DEF Pick
  <2> QED
    BY <1>2, <2>1, <2>2 DEF mirrorVars
<1> QED
  BY <1>3, <1>4, VerdictKept DEF Pickers

LEMMA VerdictStep ==
    ASSUME IInv, [Next]_vars, \A p \in Pool : VerdictRecorded(p)
    PROVE  \A p \in Pool : VerdictRecorded(p)'
<1>0. MirrorTypes /\ \A p \in Pool : MirrorBehind(p)
  BY DEF IInv, JointInv, MirrorOf
<1>1. CASE UNCHANGED mirrorVars
  BY <1>1 DEF mirrorVars, VerdictRecorded, Pickers
<1>2. ASSUME NEW p \in Pool, WorkerLocks(p) PROVE \A q \in Pool : VerdictRecorded(q)'
  <2>1. /\ record[p].status = "open" /\ pick' = pick
        /\ \A q \in Pool : q # p => record'[q] = record[q]
    BY <1>0, <1>2 DEF WorkerLocks, MarkLocked, MirrorTypes
  <2>2. record[p].status \notin Settled
    BY <2>1 DEF Settled
  <2> QED
    BY <2>1, <2>2, VerdictKept DEF Pickers
<1>3. ASSUME NEW p \in Pool, NEW m \in Member, NEW terms \in Terms, NEW x \in OutcomeArg,
             HostPool(m, p, terms, x)
      PROVE  \A q \in Pool : VerdictRecorded(q)'
  <2>1. record[p] = NoRecord /\ \A k \in Member : pick[p][k] = NoPick
    BY <1>0, <1>3 DEF HostPool, MirrorBehind
  <2>2. record[p].status \notin Settled
    BY <2>1 DEF NoRecord, Settled
  <2>3. \A q \in Pool : q # p => record'[q] = record[q]
    BY <1>0, <1>3 DEF HostPool, MirrorTypes
  <2>4. pick' = pick \/ pick' = [pick EXCEPT ![p][m] = NewPick(x)]
    BY <1>3 DEF HostPool
  <2>5. \A q \in Pool, k \in Member : pick'[q][k] = pick[q][k] \/ pick'[q][k].status = "active"
    BY <1>0, <2>4 DEF MirrorTypes, NewPick
  <2> QED
    BY <2>2, <2>3, <2>5, VerdictKept DEF Pickers
<1>4. ASSUME NEW p \in Pool, NEW m \in Member, NEW x \in OutcomeArg, Enter(m, p, x)
      PROVE  \A q \in Pool : VerdictRecorded(q)'
  <2>1. record' = record /\ pick' = [pick EXCEPT ![p][m] = NewPick(x)]
    BY <1>4 DEF Enter, CreateEntry
  <2>2. \A q \in Pool, k \in Member : pick'[q][k] = pick[q][k] \/ pick'[q][k].status = "active"
    BY <1>0, <2>1 DEF MirrorTypes, NewPick
  <2> QED
    BY <2>1, <2>2, VerdictKept DEF Pickers
<1>5. ASSUME NEW p \in Pool, NEW m \in Member,
             FinishCreate(m, p) \/ FinishPayment(m, p) \/ Payout(m, p) \/ WorkerSends(p)
      PROVE  UNCHANGED mirrorVars
  BY <1>5 DEF FinishCreate, FinishPayment, Payout, WorkerSends
<1>6. ASSUME NEW m \in Member, NEW t \in tx[m],
             WalletSends(m, t) \/ WalletFails(m, t) \/ ReportLost(m, t)
      PROVE  UNCHANGED mirrorVars
  BY <1>6 DEF WalletSends, WalletFails, ReportLost
<1>7. CASE Tick \/ UNCHANGED vars
  BY <1>1, <1>7 DEF Tick, vars, mirrorVars
<1>8. ASSUME NEW p \in Pool, WorkerSends(p) PROVE UNCHANGED mirrorVars
  BY <1>8 DEF WorkerSends
<1> QED
  BY <1>1, <1>2, <1>3, <1>4, <1>5, <1>6, <1>7, <1>8, VerdictMarked, VerdictReported DEF Next

\* What is claimed is on the chain by a member's own transaction.
LEMMA ExecuteClaims ==
    ASSUME IInv, NEW m \in Member, NEW t \in tx[m], Execute(m, t), NEW p \in Pool,
           NEW k \in Chain!Claimed(p)'
    PROVE  \/ k \in Chain!Claimed(p)
           \/ k = m /\ t.pool = p /\ t.kind \in {"claim", "refund"}
<1> DEFINE q == t.pool
<1>0. /\ MirrorTypes /\ Chain!IInv /\ Chain!TypeOK /\ q \in Pool /\ k \in Member
  BY DEF IInv, JointInv, Chain!IInv, TypeOK, Mutation, Chain!Claimed, Chain!Entrants
<1>1. CASE t.kind = "create" /\ t.bundled /\ CreateWithEntry(q)
  <2>1. Chain!Claimed(q)' = {}
    BY <1>0, <1>1, BundleEffect
  <2>2. p # q => entry'[p] = entry[p]
    BY <1>0, <1>1, BundleOthers
  <2> QED
    BY <2>1, <2>2 DEF Chain!Claimed, Chain!Entrants
<1>2. CASE t.kind = "create" /\ Chain!CreatePool(m, q, record[q].terms)
  BY <1>2 DEF Chain!CreatePool, Chain!Claimed, Chain!Entrants
<1>3. CASE t.kind = "enter" /\ Chain!EnterPool(m, q, pick[q][m].prediction)
  <2>1. \/ entry'[p][k] = entry[p][k]
        \/ entry'[p][k].claimed = FALSE
    BY <1>0, <1>3 DEF Chain!EnterPool, Chain!TypeOK
  <2> QED
    BY <1>0, <2>1 DEF Chain!Claimed, Chain!Entrants
<1>4. CASE t.kind \in {"claim", "refund"}
           /\ (Chain!ClaimWinnings(m, q) \/ Chain!ClaimRefund(m, q))
  <2>1. PICK amount : Chain!PayFromVault(q, m, amount)
    BY <1>4 DEF Chain!ClaimWinnings, Chain!ClaimRefund
  <2>2. ~(p = q /\ k = m) => entry'[p][k] = entry[p][k]
    BY <1>0, <2>1 DEF Chain!PayFromVault, Chain!TypeOK
  <2> QED
    BY <1>0, <1>4, <2>2 DEF Chain!Claimed, Chain!Entrants
<1> QED
  BY <1>1, <1>2, <1>3, <1>4 DEF Execute

LEMMA ClaimKept ==
    ASSUME NEW p \in Pool, ClaimKnown(p), ReportsKept,
           Chain!Claimed(p)' \subseteq Chain!Claimed(p), collected[p] \subseteq collected'[p]
    PROVE  ClaimKnown(p)'
<1>1. Chain!Claimed(p) \subseteq Member
  BY DEF Chain!Claimed, Chain!Entrants
<1> QED
  BY <1>1 DEF ClaimKnown, ReportsKept

LEMMA ClaimStep ==
    ASSUME IInv, [Next]_vars, lost = 0 => \A p \in Pool : ClaimKnown(p)
    PROVE  lost' = 0 => \A p \in Pool : ClaimKnown(p)'
<1>0. TypeOK /\ lost \in Nat
  BY PoolApiTypes DEF IInv, TypeOK
<1>1. ASSUME entry' = entry, UNCHANGED <<collected, lost>>, ReportsKept
      PROVE  lost' = 0 => \A p \in Pool : ClaimKnown(p)'
  BY <1>1, ClaimKept DEF Chain!Claimed, Chain!Entrants
<1>2. CASE Tick \/ UNCHANGED vars
  BY <1>1, <1>2 DEF Tick, Chain!Tick, vars, ReportsKept
<1>3. ASSUME NEW p \in Pool, WorkerLocks(p) \/ WorkerSends(p) \/ WorkerMarks(p)
      PROVE  lost' = 0 => \A q \in Pool : ClaimKnown(q)'
  <2>1. entry' = entry
    BY <1>3 DEF WorkerLocks, WorkerSends, WorkerMarks, chainVars, Chain!LockPool,
       Chain!CancelPool, Chain!ResolvePool, Chain!ResolveToVoid, Chain!ResolveToWinners
  <2> QED
    BY <1>1, <1>3, <2>1 DEF WorkerLocks, WorkerSends, WorkerMarks, ReportsKept
<1>4. ASSUME NEW p \in Pool, NEW m \in Member,
             \/ \E terms \in Terms, x \in OutcomeArg : HostPool(m, p, terms, x)
             \/ \E x \in OutcomeArg : Enter(m, p, x)
             \/ FinishCreate(m, p) \/ FinishPayment(m, p) \/ Payout(m, p)
      PROVE  lost' = 0 => \A q \in Pool : ClaimKnown(q)'
  <2>1. entry' = entry /\ UNCHANGED <<collected, lost>>
    BY <1>4 DEF HostPool, Enter, FinishCreate, FinishPayment, Payout, chainVars
  <2>2. tx' = tx \/ \E t : Offers(m, t)
    BY <1>4 DEF HostPool, Enter, FinishCreate, FinishPayment, Payout
  <2>3. ReportsKept
    BY <1>0, <2>2 DEF Offers, ReportsKept, TypeOK
  <2> QED
    BY <1>1, <2>1, <2>3
<1>5. ASSUME NEW m \in Member, NEW t \in tx[m], WalletFails(m, t)
      PROVE  lost' = 0 => \A q \in Pool : ClaimKnown(q)'
  <2>1. entry' = entry /\ UNCHANGED <<collected, lost>>
    BY <1>5 DEF WalletFails, chainVars
  <2>2. ReportsKept
    BY <1>0, <1>5 DEF WalletFails, ReportsKept, TypeOK
  <2> QED
    BY <1>1, <2>1, <2>2
<1>6. ASSUME NEW m \in Member, NEW t \in tx[m], ReportLost(m, t) PROVE lost' # 0
  BY <1>0, <1>6 DEF ReportLost
<1>7. ASSUME NEW m \in Member, NEW t \in tx[m], Report(m, t), lost' = 0, NEW p \in Pool
      PROVE  ClaimKnown(p)'
  <2>1. /\ entry' = entry /\ lost = 0 /\ ClaimKnown(p)
        /\ tx' = [tx EXCEPT ![m] = tx[m] \ {t}]
    BY <1>7 DEF Report, chainVars
  <2>2. /\ collected[p] \subseteq collected'[p]
        /\ t.pool = p /\ t.kind \in {"claim", "refund"} => m \in collected'[p]
    BY <1>0, <1>7 DEF Report, TypeOK
  <2>3. ASSUME NEW k \in Chain!Claimed(p)', k \notin collected'[p]
        PROVE  \E u \in tx'[k] : u.at = "report" /\ u.pool = p /\ u.kind \in {"claim", "refund"}
    <3>1. k \in Chain!Claimed(p) /\ k \in Member /\ k \notin collected[p]
      BY <2>1, <2>2, <2>3 DEF Chain!Claimed, Chain!Entrants
    <3>2. PICK u \in tx[k] : u.at = "report" /\ u.pool = p /\ u.kind \in {"claim", "refund"}
      BY <2>1, <3>1 DEF ClaimKnown
    <3>3. u \in tx'[k]
      BY <1>0, <2>1, <2>2, <2>3, <3>1, <3>2 DEF TypeOK
    <3> QED
      BY <3>2, <3>3
  <2> QED
    BY <2>3 DEF ClaimKnown
<1>8. ASSUME NEW m \in Member, NEW t \in tx[m], WalletSends(m, t), lost' = 0, NEW p \in Pool
      PROVE  ClaimKnown(p)'
  <2>1. Execute(m, t) /\ UNCHANGED <<collected, lost>> /\ ClaimKnown(p)
    BY <1>8 DEF WalletSends
  <2>2. ReportsKept /\ \E u \in tx'[m] : u.at = "report" /\ u.kind = t.kind /\ u.pool = t.pool
    BY <1>8, SignedEffect
  <2>3. ASSUME NEW k \in Chain!Claimed(p)', k \notin collected'[p]
        PROVE  \E u \in tx'[k] : u.at = "report" /\ u.pool = p /\ u.kind \in {"claim", "refund"}
    <3>1. CASE k \in Chain!Claimed(p)
      <4>1. k \in Member
        BY <3>1 DEF Chain!Claimed, Chain!Entrants
      <4> QED
        BY <2>1, <2>2, <2>3, <3>1, <4>1 DEF ClaimKnown, ReportsKept
    <3>2. CASE k = m /\ t.pool = p /\ t.kind \in {"claim", "refund"}
      BY <2>2, <3>2
    <3> QED
      BY <2>1, <3>1, <3>2, ExecuteClaims
  <2> QED
    BY <2>3 DEF ClaimKnown
<1> QED
  BY <1>2, <1>3, <1>4, <1>5, <1>6, <1>7, <1>8 DEF Next

LEMMA RecordInit == ASSUME FiniteLedger, Init PROVE RecordInv
<1>1. Chain!FundsConserved
  BY FundsAtStart DEF Init
<1>2. \A p \in Pool : VerdictRecorded(p) /\ ClaimKnown(p)
  BY DEF Init, MirrorInit, VerdictRecorded, Pickers, ClaimKnown, Chain!Claimed, Chain!Entrants
<1> QED
  BY <1>1, <1>2 DEF RecordInv

LEMMA RecordStep == ASSUME FiniteLedger, IInv, RecordInv, [Next]_vars PROVE RecordInv'
<1>1. Chain!FundsConserved'
  BY StepIsAudited, DeploymentFunds DEF IInv, JointInv, RecordInv
<1> QED
  BY <1>1, VerdictStep, ClaimStep DEF RecordInv

\* Of the tokens of a deployment none is made or lost, bundled creations included, and
\* what the record of a member rests on holds.
THEOREM RecordInvariance ==
    ASSUME FiniteLedger
    PROVE  Spec => []RecordInv
<1>1. Init => RecordInv
  BY RecordInit
<1>2. IInv /\ RecordInv /\ [Next]_vars => RecordInv'
  BY RecordStep
<1> QED
  BY <1>1, <1>2, Invariance, PTL DEF Spec

LEMMA SameSum == \A f : SumFunction(f) = CP!SumFunctionOnSet(f, DOMAIN f)
BY DEF SumFunction, SumFunctionOnSet, FoldFunctionOnSet, MapThenFoldSet,
   CP!SumFunctionOnSet, CP!FoldFunctionOnSet, CP!MapThenFoldSet

\* What "My record" adds up of some pools is a sum over all of them.
LEMMA SumWhere ==
    ASSUME FiniteLedger, NEW T \in SUBSET Pool, NEW f, DOMAIN f = T, NEW g \in [Pool -> Int],
           \A p \in T : f[p] = g[p], \A p \in Pool \ T : g[p] = 0
    PROVE  SumFunction(f) = CP!SumFunctionOnSet(g, Pool)
<1>1. IsFiniteSet(Pool) /\ IsFiniteSet(T)
  BY FS_Subset DEF FiniteLedger
<1>2. CP!IsFiniteSet(Pool) /\ CP!IsFiniteSet(T)
  BY <1>1, SameFiniteSet
<1>3. CP!SumFunctionOnSet(f, T) = CP!SumFunctionOnSet(g, T)
  BY <1>2, ProgramArguments, CP!SumSame DEF CP!ArgumentTypes
<1>4. CP!SumFunctionOnSet(g, T) = CP!SumFunctionOnSet(g, Pool)
  BY <1>2, ProgramArguments, CP!SumPart DEF CP!ArgumentTypes
<1> QED
  BY <1>3, <1>4, SameSum

\* The chain as the mirror knows it, for a member whose pools are all settled.
LEMMA SettledPick ==
    ASSUME IInv, RecordInv, NEW p \in Pool, NEW m \in Member, pick[p][m] # NoPick,
           SettledFor(m, p), m \in Chain!Entrants(p)
    PROVE  /\ pool[p] # Chain!NoPool /\ record[p].terms.stake_amount = pool[p].stake_amount
           /\ pool[p].stake_amount \in Nat /\ entry[p][m].stake_paid = pool[p].stake_amount
           /\ \/ /\ pick[p][m].status = "won" /\ record[p].status = "resolved"
                 /\ pool[p].status = "Resolved" /\ pool[p].share_amount \in Nat
                 /\ m \in Chain!Winners(p, pool[p].winning_outcome)
                 /\ record[p].shareAmount = pool[p].share_amount
              \/ /\ pick[p][m].status = "lost" /\ pool[p].status = "Resolved"
                 /\ m \notin Chain!Winners(p, pool[p].winning_outcome)
                 /\ m \notin Chain!Claimed(p)
              \/ /\ pick[p][m].status = "refunded" /\ pool[p].status \in {"Voided", "Cancelled"}
                 /\ record[p].status # "resolved"
<1>1. /\ MirrorTypes /\ MirrorBehind(p) /\ NeverAhead(p) /\ PickHolds(p, m)
      /\ PoolAgrees(p) /\ VerdictRecorded(p) /\ Chain!TypeOK /\ Chain!PoolInvOf(p)
  BY DEF IInv, JointInv, MirrorOf, Chain!IInv, RecordInv
<1>2. /\ pick[p][m].prediction = entry[p][m].prediction
      /\ pick[p][m].status \in PickStatus
  BY <1>1, MemberTypes DEF MirrorBehind
<1>3. pick[p][m].status # "active"
  BY <1>1 DEF SettledFor, ViewerStatus, PickHolds, Settled
<1>4. record[p].status \in Settled /\ pool[p].status = ChainStatus[record[p].status]
  BY <1>1, <1>3 DEF VerdictRecorded, NeverAhead, Pickers
<1>5. pool[p] # Chain!NoPool /\ pool[p] \in Chain!PoolAccount
  BY <1>1, <1>4, PresentAccount DEF Settled, ChainStatus, Chain!TypeOK
<1>6. /\ pool[p].stake_amount \in Nat /\ pool[p].share_amount \in Nat
      /\ pool[p].status # "Absent"
  BY <1>5 DEF Chain!PoolAccount, Chain!PoolStatus
<1>7. /\ record[p].terms.stake_amount = pool[p].stake_amount
      /\ entry[p][m].stake_paid = pool[p].stake_amount
  BY <1>1, <1>5, <1>6 DEF PoolAgrees, Chain!PoolInvOf, Chain!EntryLedgerOf
<1>8. CASE pick[p][m].status = "won"
  <2>1. pool[p].status = "Resolved" /\ pick[p][m].prediction = pool[p].winning_outcome
    BY <1>1, <1>8 DEF PickHolds
  <2>2. record[p].status = "resolved"
    BY <1>4, <2>1 DEF ChainStatus, Settled
  <2>3. record[p].shareAmount = pool[p].share_amount
    BY <1>1, <1>4, <2>2 DEF NeverAhead
  <2>4. m \in Chain!Winners(p, pool[p].winning_outcome)
    BY <1>2, <2>1 DEF Chain!Winners
  <2> QED
    BY <1>5, <1>6, <1>7, <1>8, <2>1, <2>2, <2>3, <2>4
<1>9. CASE pick[p][m].status = "lost"
  <2>1. pool[p].status = "Resolved" /\ pick[p][m].prediction # pool[p].winning_outcome
    BY <1>1, <1>9 DEF PickHolds
  <2>2. m \notin Chain!Winners(p, pool[p].winning_outcome)
    BY <1>2, <2>1 DEF Chain!Winners
  <2>3. m \notin Chain!Claimed(p)
    BY <1>1, <2>1, <2>2 DEF Chain!PoolInvOf, Chain!ShareBudgetOf
  <2> QED
    BY <1>5, <1>6, <1>7, <1>9, <2>1, <2>2, <2>3
<1>10. CASE pick[p][m].status = "refunded"
  <2>1. pool[p].status \in {"Voided", "Cancelled"}
    BY <1>1, <1>10 DEF PickHolds
  <2>2. record[p].status # "resolved"
    BY <1>4, <2>1 DEF ChainStatus, Settled
  <2> QED
    BY <1>5, <1>6, <1>7, <1>10, <2>1, <2>2
<1> QED
  BY <1>2, <1>3, <1>8, <1>9, <1>10 DEF PickStatus

\* A member without a pick has no entry: nothing moved and nothing is owed.
LEMMA NoPickNoMoney ==
    ASSUME IInv, NEW p \in Pool, NEW m \in Member, pick[p][m] = NoPick
    PROVE  ViewerStatus(m, p) = "none" /\ Chain!Moved(m, p) = 0 /\ Owed(m, p) = 0
<1>1. m \notin Chain!Entrants(p)
  BY DEF IInv, JointInv, MirrorOf, MirrorBehind
<1> QED
  BY <1>1 DEF ViewerStatus, NoPick, Chain!Moved, Owed

\* What the net counts of a pool is what the pool moved and what it still owes.
LEMMA NetMoved ==
    ASSUME IInv, RecordInv, NEW p \in Pool, NEW m \in Member,
           pick[p][m] # NoPick => SettledFor(m, p) /\ m \in Chain!Entrants(p)
    PROVE  /\ Chain!Moved(m, p) \in Int /\ Owed(m, p) \in Int
           /\ SettledFor(m, p) => NetAt(m, p) = Chain!Moved(m, p) + Owed(m, p)
           /\ ~SettledFor(m, p) => Chain!Moved(m, p) + Owed(m, p) = 0
<1>1. CASE pick[p][m] = NoPick
  BY <1>1, NoPickNoMoney DEF NetAt
<1>2. CASE pick[p][m] # NoPick
  <2> DEFINE stake == pool[p].stake_amount
             share == pool[p].share_amount
  <2>1. /\ record[p].terms.stake_amount = stake /\ stake \in Nat
        /\ entry[p][m].stake_paid = stake /\ m \in Chain!Entrants(p) /\ SettledFor(m, p)
    BY <1>2, SettledPick
  <2>2. CASE pick[p][m].status = "won"
    <3>1. /\ pool[p].status = "Resolved" /\ share \in Nat
          /\ m \in Chain!Winners(p, pool[p].winning_outcome)
          /\ record[p].shareAmount = share
      BY <1>2, <2>1, <2>2, SettledPick
    <3>2. NetAt(m, p) = share - stake
      BY <2>1, <2>2, <3>1 DEF NetAt, ViewerStatus
    <3>3. Chain!Moved(m, p) = (IF m \in Chain!Claimed(p) THEN share ELSE 0) - stake
      BY <2>1, <3>1 DEF Chain!Moved
    <3>4. Owed(m, p) = IF m \in Chain!Claimed(p) THEN 0 ELSE share
      BY <2>1, <3>1 DEF Owed
    <3> HIDE DEF stake, share
    <3> QED
      BY <2>1, <3>1, <3>2, <3>3, <3>4
  <2>3. CASE pick[p][m].status = "lost"
    <3>1. /\ pool[p].status = "Resolved" /\ m \notin Chain!Claimed(p)
          /\ m \notin Chain!Winners(p, pool[p].winning_outcome)
      BY <1>2, <2>1, <2>3, SettledPick
    <3>2. NetAt(m, p) = -stake
      BY <2>1, <2>3 DEF NetAt, ViewerStatus
    <3>3. Chain!Moved(m, p) = 0 - stake
      BY <2>1, <3>1 DEF Chain!Moved
    <3>4. Owed(m, p) = 0
      BY <2>1, <3>1 DEF Owed
    <3> HIDE DEF stake, share
    <3> QED
      BY <2>1, <3>2, <3>3, <3>4
  <2>4. CASE pick[p][m].status = "refunded"
    <3>1. pool[p].status \in {"Voided", "Cancelled"}
      BY <1>2, <2>1, <2>4, SettledPick
    <3>2. NetAt(m, p) = 0
      BY <2>4 DEF NetAt, ViewerStatus
    <3>3. Chain!Moved(m, p) = (IF m \in Chain!Claimed(p) THEN stake ELSE 0) - stake
      BY <2>1, <3>1 DEF Chain!Moved
    <3>4. Owed(m, p) = IF m \in Chain!Claimed(p) THEN 0 ELSE stake
      BY <2>1, <3>1 DEF Owed
    <3> HIDE DEF stake, share
    <3> QED
      BY <2>1, <3>2, <3>3, <3>4
  <2> QED
    BY <1>2, <2>1, <2>2, <2>3, <2>4, SettledPick
<1> QED
  BY <1>1, <1>2

\* The net of a member is what the member has more than at the start, with what the
\* chain still owes.
LEMMA NetInv ==
    ASSUME FiniteLedger, IInv, RecordInv, NEW m \in Member \ Treasury,
           AllSettled(m), AllPaid(m)
    PROVE  Net(m) = wallet[m] + Total(m) - Endowment
<1> DEFINE moved == [p \in Pool |-> Chain!Moved(m, p)]
           owed == [p \in Pool |-> Owed(m, p)]
           both == [p \in Pool |-> Chain!Moved(m, p) + Owed(m, p)]
           here == {p \in Pool : SettledFor(m, p)}
           net == [p \in here |-> NetAt(m, p)]
<1>1. ASSUME NEW p \in Pool
      PROVE  /\ Chain!Moved(m, p) \in Int /\ Owed(m, p) \in Int
             /\ SettledFor(m, p) => NetAt(m, p) = Chain!Moved(m, p) + Owed(m, p)
             /\ ~SettledFor(m, p) => Chain!Moved(m, p) + Owed(m, p) = 0
  BY NetMoved DEF AllSettled, AllPaid
<1>2. /\ moved \in [Pool -> Int] /\ owed \in [Pool -> Int] /\ both \in [Pool -> Int]
      /\ \A p \in Pool : moved[p] \in Int /\ owed[p] \in Int /\ both[p] = moved[p] + owed[p]
  BY <1>1
<1>3. /\ here \in SUBSET Pool /\ DOMAIN net = here
      /\ \A p \in here : net[p] = both[p]
      /\ \A p \in Pool \ here : both[p] = 0
  BY <1>1
<1>4. /\ Net(m) = SumFunction(net) /\ Total(m) = SumFunction(owed)
      /\ wallet[m] = Endowment + Chain!SumFunction(moved)
  BY DEF Net, Total, RecordInv, Chain!FundsConserved
<1>5. DOMAIN moved = Pool /\ DOMAIN owed = Pool
  OBVIOUS
<1> HIDE DEF moved, owed, both, here, net
<1>6. SumFunction(net) = CP!SumFunctionOnSet(both, Pool)
  BY <1>2, <1>3, SumWhere
<1>7. CP!IsFiniteSet(Pool)
  BY SameFiniteSet DEF FiniteLedger
<1>8. CP!SumFunctionOnSet(both, Pool)
        = CP!SumFunctionOnSet(moved, Pool) + CP!SumFunctionOnSet(owed, Pool)
  BY <1>2, <1>7, ProgramArguments, CP!SumAdd DEF CP!ArgumentTypes
<1>9. /\ Chain!SumFunction(moved) = CP!SumFunctionOnSet(moved, Pool)
      /\ SumFunction(owed) = CP!SumFunctionOnSet(owed, Pool)
  BY <1>5, SameSums, SameSum DEF CP!SumFunction
<1>10. /\ CP!SumFunctionOnSet(moved, Pool) \in Int /\ CP!SumFunctionOnSet(owed, Pool) \in Int
       /\ Endowment \in Int
  BY <1>2, <1>7, ProgramArguments, CP!SumType DEF CP!ArgumentTypes
<1> QED
  BY <1>4, <1>6, <1>8, <1>9, <1>10

\* What is called unclaimed is owed, pool by pool.
LEMMA UnclaimedOwed ==
    ASSUME IInv, RecordInv, lost = 0, Reported, NEW p \in Pool, NEW m \in Member,
           pick[p][m] # NoPick => SettledFor(m, p) /\ m \in Chain!Entrants(p),
           record[p].status = "resolved"
    PROVE  Owed(m, p) = IF ViewerStatus(m, p) = "won" /\ m \notin collected[p]
                        THEN record[p].shareAmount ELSE 0
<1>1. CASE pick[p][m] = NoPick
  BY <1>1, NoPickNoMoney
<1>2. CASE pick[p][m] # NoPick
  <2>1. m \in collected[p] <=> m \in Chain!Claimed(p)
    BY DEF IInv, PoolAgrees, RecordInv, ClaimKnown, Reported
  <2>2. m \in Chain!Entrants(p)
    BY <1>2
  <2>3. CASE pick[p][m].status = "won"
    <3>1. /\ pool[p].status = "Resolved" /\ record[p].shareAmount = pool[p].share_amount
          /\ m \in Chain!Winners(p, pool[p].winning_outcome)
      BY <1>2, <2>3, SettledPick
    <3> QED
      BY <2>1, <2>2, <2>3, <3>1 DEF Owed, ViewerStatus
  <2>4. CASE pick[p][m].status = "lost"
    <3>1. /\ pool[p].status = "Resolved"
          /\ m \notin Chain!Winners(p, pool[p].winning_outcome)
      BY <1>2, <2>4, SettledPick
    <3> QED
      BY <2>4, <3>1 DEF Owed, ViewerStatus
  <2> QED
    BY <1>2, <2>3, <2>4, SettledPick
<1> QED
  BY <1>1, <1>2

LEMMA UnclaimedInv ==
    ASSUME FiniteLedger, IInv, RecordInv, lost = 0, Reported, NEW m \in Member,
           AllSettled(m), AllPaid(m), \A p \in Pool : record[p].status = "resolved"
    PROVE  Unclaimed(m) = Total(m)
<1> DEFINE owed == [p \in Pool |-> Owed(m, p)]
           here == {p \in Pool : ViewerStatus(m, p) = "won" /\ m \notin collected[p]}
           share == [p \in here |-> record[p].shareAmount]
<1>1. ASSUME NEW p \in Pool
      PROVE  /\ Owed(m, p) \in Int
             /\ Owed(m, p) = IF ViewerStatus(m, p) = "won" /\ m \notin collected[p]
                             THEN record[p].shareAmount ELSE 0
  <2>1. pick[p][m] # NoPick => SettledFor(m, p) /\ m \in Chain!Entrants(p)
    BY DEF AllSettled, AllPaid
  <2> QED
    BY <2>1, NetMoved, UnclaimedOwed
<1>2. /\ owed \in [Pool -> Int] /\ here \in SUBSET Pool /\ DOMAIN share = here
      /\ \A p \in here : share[p] = owed[p]
      /\ \A p \in Pool \ here : owed[p] = 0
  BY <1>1
<1>3. Unclaimed(m) = SumFunction(share) /\ Total(m) = SumFunction(owed)
  BY DEF Unclaimed, Total
<1>4. DOMAIN owed = Pool
  OBVIOUS
<1> HIDE DEF owed, here, share
<1>5. SumFunction(share) = CP!SumFunctionOnSet(owed, Pool)
  BY <1>2, SumWhere
<1> QED
  BY <1>3, <1>4, <1>5, SameSum

\* For a member who paid, the net of "My record" is what the member won or lost, even
\* when reports were lost.
NetRight == \A m \in Member : AllSettled(m) /\ AllPaid(m) =>
                Net(m) = wallet[m] + Total(m) - Endowment

THEOREM NetAlwaysRight ==
    ASSUME FiniteLedger, Member \cap Treasury = {}
    PROVE  Spec => []NetRight
<1>1. IInv /\ RecordInv => NetRight
  BY NetInv DEF NetRight
<1> QED
  BY <1>1, Invariance, RecordInvariance, PTL

\* The record is right and what it calls unclaimed is still owed, as long as no report
\* was lost.
THEOREM RecordAlwaysReal ==
    ASSUME FiniteLedger, Member \cap Treasury = {}
    PROVE  Spec => [](lost = 0 => RecordIsReal)
<1>1. IInv /\ RecordInv => (lost = 0 => RecordIsReal)
  BY NetInv, UnclaimedInv DEF RecordIsReal
<1> QED
  BY <1>1, Invariance, RecordInvariance, PTL

=============================================================================
