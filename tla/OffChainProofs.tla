--------------------------- MODULE OffChainProofs ---------------------------
(***************************************************************************)
(* Proofs about the two ways in which a pool of the mirror is settled      *)
(* beside the chain's own settlement.  They share the mirror and no step,  *)
(* and each theorem is about one of them:                                  *)
(*                                                                         *)
(*  - the worker without a program (LocalSettlement): however the sweep's  *)
(*    copies, the stream and the dev route interleave, a share is the      *)
(*    stakes of all picks less the rake; and without the dev route the     *)
(*    verdicts are those of the match;                                     *)
(*  - finalizeFixture (FinalizeFixture): with any number of calls at once, *)
(*    failed RPCs, late transactions and crashes, the mirror never calls a *)
(*    pool settled that the chain does not; and while nothing fails it has *)
(*    the verdicts, too, as soon as no call runs.                          *)
(***************************************************************************)
EXTENDS LocalSettlement, FiniteSetTheorems, TLAPS

CONSTANTS Call, MaxFaults, MaxCrashes, NoPool    \* of FinalizeFixture
VARIABLES chain, result, call, faults, crashes   \* of FinalizeFixture

Fin == INSTANCE FinalizeFixture

-----------------------------------------------------------------------------
(* Types *)

\* The type invariant, for the mirror and for the worker.
MirrorOK ==
    /\ record \in [Pool -> {NoRecord} \cup Record(Terms, Outcome)]
    /\ pick \in [Pool -> [Member -> {NoPick} \cup Pick(Outcome)]]
    /\ \A p \in Pool : SeatsOK(p)

WorkerOK ==
    /\ now \in 0 .. MaxTime
    /\ match \in {Pending} \cup [phase : {"finished", "abandoned"}, outcome : Outcome \cup {NoOutcome}]
    /\ sweep \in [at : {"idle", "fetch"}, copies : SUBSET CopyState, seen : {Pending, match}]
    /\ loop \in [kind : {"none", "settle", "cancel", "late"}, todo : SUBSET CopyState]

LEMMA TypeParts == TypeOK <=> MirrorOK /\ WorkerOK
BY DEF TypeOK, MirrorOK, WorkerOK

\* Nothing is written, and the work of the server fits.
LEMMA WorkerMoves ==
    ASSUME TypeOK, UNCHANGED mirrorVars, WorkerOK'
    PROVE  TypeOK'
<1>1. MirrorOK'
  BY TypeParts DEF MirrorOK, mirrorVars, SeatsOK, Pickers
<1> QED
  BY <1>1, TypeParts, PTL

LEMMA NoRecordIsNone == \A r \in Record(Terms, Outcome) : r # NoRecord /\ r.status \in RecordStatus
BY DEF Record, RecordStatus, NoRecord

LEMMA RecordTypes ==
    ASSUME LocalTypes, TypeOK, NEW p \in Pool, record[p].status \in RecordStatus
    PROVE  /\ record[p] \in Record(Terms, Outcome) /\ record[p] # NoRecord
           /\ record[p].terms \in Terms /\ record[p].terms.deadline \in Nat
           /\ record[p].terms.stake_amount \in Nat
           /\ record[p].terms.rake_bps \in Nat /\ record[p].terms.rake_bps <= 1000
           /\ record[p].terms.max_entries \in Nat
           /\ record[p].winnerCount \in Nat /\ record[p].shareAmount \in Nat
<1>1. record[p] # NoRecord
  BY DEF NoRecord, RecordStatus
<1>2. record[p] \in Record(Terms, Outcome)
  BY <1>1 DEF TypeOK
<1>3. record[p].terms \in Terms /\ record[p].winnerCount \in Nat /\ record[p].shareAmount \in Nat
  BY <1>2 DEF Record
<1> QED
  BY <1>1, <1>2, <1>3 DEF LocalTypes, TypeOK, SeatsOK

LEMMA RecordedStatus ==
    ASSUME TypeOK, NEW p \in Pool
    PROVE  record[p] # NoRecord <=> record[p].status \in RecordStatus
<1>1. record[p] \in {NoRecord} \cup Record(Terms, Outcome)
  BY DEF TypeOK
<1>2. NoRecord.status \notin RecordStatus
  BY DEF NoRecord, RecordStatus
<1> QED
  BY <1>1, <1>2, NoRecordIsNone

LEMMA PickTypes ==
    ASSUME TypeOK, NEW p \in Pool, NEW m \in Pickers(p)
    PROVE  m \in Member /\ pick[p][m] \in Pick(Outcome) /\ pick[p][m].status \in PickStatus
           /\ pick[p][m].prediction \in Outcome
<1>1. pick[p] \in [Member -> {NoPick} \cup Pick(Outcome)] /\ m \in Member /\ pick[p][m] # NoPick
  BY DEF TypeOK, Pickers
<1>2. pick[p][m] \in Pick(Outcome)
  BY <1>1
<1> QED
  BY <1>1, <1>2 DEF Pick

LEMMA PickersFinite ==
    ASSUME LocalTypes, NEW p, NEW w
    PROVE  /\ IsFiniteSet(Pickers(p)) /\ Cardinality(Pickers(p)) \in Nat
           /\ IsFiniteSet(LocalWinners(p, w)) /\ Cardinality(LocalWinners(p, w)) \in Nat
           /\ Cardinality(LocalWinners(p, w)) = 0 <=> LocalWinners(p, w) = {}
<1>1. Pickers(p) \subseteq Member /\ LocalWinners(p, w) \subseteq Member
  BY DEF Pickers, LocalWinners
<1> QED
  BY <1>1, FS_Subset, FS_CardinalityType, FS_EmptySet DEF LocalTypes

LEMMA CopyTypes ==
    ASSUME LocalTypes, TypeOK, NEW p \in Pool, record[p] # NoRecord
    PROVE  /\ Copy(p) \in CopyState /\ Copy(p).pool = p /\ Copy(p).at = now
           /\ Copy(p).entryCount = Cardinality(Pickers(p))
BY PickersFinite DEF Copy, CopyState, TypeOK

-----------------------------------------------------------------------------
(* The share *)

\* What is left of the stakes after the rake.
LeftAfterRake(count, stake, bps) == count * stake - ((count * stake) * bps) \div 10000

\* An even split of it leaves less than one token per winner.
LEMMA EvenSplit ==
    ASSUME NEW count \in Nat, NEW stake \in Nat, NEW bps \in Nat, bps <= 1000,
           NEW n \in Nat, n > 0
    PROVE  LET d == LeftAfterRake(count, stake, bps)
           IN  d \div n \in Nat /\ 0 <= d - n * (d \div n) /\ d - n * (d \div n) < n
<1> DEFINE total == count * stake
           rake == (total * bps) \div 10000
<1>1. total \in Nat
  BY SMT
<1> HIDE DEF total
<1>2. total * bps \in Nat /\ total * bps <= total * 1000
  BY <1>1, SMT
<1>3. rake \in Nat /\ rake <= total
  BY <1>1, <1>2, SMT
<1> HIDE DEF rake
<1>4. PICK d \in Nat : d = total - rake
  BY <1>1, <1>3
<1>5. d \div n \in Nat /\ n * (d \div n) <= d /\ d - n * (d \div n) < n /\ n * (d \div n) \in Nat
  BY SMT
<1>6. LeftAfterRake(count, stake, bps) = d
  BY <1>4 DEF LeftAfterRake, total, rake
<1> QED
  BY <1>5, <1>6

LeftIn(p, count) == LeftAfterRake(count, record[p].terms.stake_amount, record[p].terms.rake_bps)

LEMMA ShareOfLeft == \A p, count, n : ShareOf(p, count, n) = LeftIn(p, count) \div n
BY DEF ShareOf, LeftIn, LeftAfterRake

LEMMA ShareExactIsLeft ==
    ASSUME NEW p
    PROVE  ShareExactOf(p) <=>
             (record[p].status = "resolved" =>
                LET rest == LeftIn(p, Cardinality(Pickers(p)))
                              - record[p].winnerCount * record[p].shareAmount
                IN  0 <= rest /\ rest < record[p].winnerCount)
BY DEF ShareExactOf, LeftIn, LeftAfterRake

LEMMA ShareSplit ==
    ASSUME LocalTypes, TypeOK, NEW p \in Pool, record[p] # NoRecord,
           NEW count \in Nat, NEW n \in Nat, n > 0
    PROVE  /\ ShareOf(p, count, n) \in Nat
           /\ 0 <= LeftIn(p, count) - n * ShareOf(p, count, n)
           /\ LeftIn(p, count) - n * ShareOf(p, count, n) < n
<1>1. record[p].terms.stake_amount \in Nat /\ record[p].terms.rake_bps \in Nat
      /\ record[p].terms.rake_bps <= 1000
  BY RecordedStatus, RecordTypes
<1>2. LET d == LeftIn(p, count)
      IN  d \div n \in Nat /\ 0 <= d - n * (d \div n) /\ d - n * (d \div n) < n
  BY <1>1, EvenSplit, Zenon DEF LeftIn
<1> QED
  BY <1>2, ShareOfLeft, Zenon

-----------------------------------------------------------------------------
(* The mirror is written *)

\* updateEntryStatuses: who has picked, and what, stays.
LEMMA SettledPicks ==
    ASSUME TypeOK, NEW p \in Pool, NEW verdict, SettlePicks(p, verdict),
           \A m \in Pickers(p) : verdict[m] \in {"won", "lost", "refunded"}
    PROVE  /\ pick' \in [Pool -> [Member -> {NoPick} \cup Pick(Outcome)]]
           /\ \A q \in Pool \ {p} : pick'[q] = pick[q]
           /\ \A m \in Member : pick'[p][m] = NoPick <=> pick[p][m] = NoPick
           /\ \A m \in Pickers(p) :
                /\ pick'[p][m].prediction = pick[p][m].prediction
                /\ pick'[p][m].status = IF pick[p][m].status = "active" THEN verdict[m]
                                        ELSE pick[p][m].status
<1> DEFINE settled(m) == IF pick[p][m].status = "active"
                         THEN [pick[p][m] EXCEPT !.status = verdict[m]]
                         ELSE pick[p][m]
<1>1. pick \in [Pool -> [Member -> {NoPick} \cup Pick(Outcome)]]
  BY DEF TypeOK
<1>2. pick' = [pick EXCEPT ![p] = [m \in Member |-> settled(m)]]
  BY DEF SettlePicks
<1>3. ASSUME NEW m \in Member, m \notin Pickers(p) PROVE settled(m) = NoPick /\ pick[p][m] = NoPick
  BY <1>3 DEF Pickers, NoPick
<1>4. ASSUME NEW m \in Pickers(p)
      PROVE  /\ settled(m) \in Pick(Outcome) /\ settled(m) # NoPick
             /\ settled(m).prediction = pick[p][m].prediction
             /\ settled(m).status = IF pick[p][m].status = "active" THEN verdict[m]
                                    ELSE pick[p][m].status
  <2>1. pick[p][m] \in Pick(Outcome) /\ verdict[m] \in PickStatus
    BY PickTypes DEF PickStatus
  <2>2. settled(m) \in Pick(Outcome)
    BY <2>1 DEF Pick
  <2>3. settled(m) # NoPick
    BY <2>2 DEF Pick, PickStatus, NoPick
  <2> QED
    BY <2>1, <2>2, <2>3 DEF Pick
<1> HIDE DEF settled
<1>5. \A m \in Member : pick'[p][m] = settled(m)
  BY <1>1, <1>2
<1>6. \A m \in Pickers(p) : m \in Member
  BY DEF Pickers
<1>7. \A m \in Member : settled(m) \in {NoPick} \cup Pick(Outcome)
  BY <1>3, <1>4
<1>8. \A m \in Member : settled(m) = NoPick <=> pick[p][m] = NoPick
  BY <1>3, <1>4 DEF Pickers
<1>9. pick' \in [Pool -> [Member -> {NoPick} \cup Pick(Outcome)]]
  BY <1>1, <1>2, <1>7
<1> QED
  BY <1>1, <1>2, <1>4, <1>5, <1>6, <1>8, <1>9

\* A pool's record has been written, and its picks may have got their verdicts.
Written(p, r) ==
    /\ r \in Record(Terms, Outcome) /\ r.terms = record[p].terms /\ r.status # "open"
    /\ record' = [record EXCEPT ![p] = r]
    /\ pick' \in [Pool -> [Member -> {NoPick} \cup Pick(Outcome)]]
    /\ \A q \in Pool \ {p} : pick'[q] = pick[q]
    /\ \A m \in Member : pick'[p][m] = NoPick <=> pick[p][m] = NoPick
    /\ \A m \in Pickers(p) : pick'[p][m].prediction = pick[p][m].prediction

LEMMA SamePickers ==
    ASSUME TypeOK, NEW p \in Pool, NEW r, Written(p, r), NEW q \in Pool
    PROVE  /\ Pickers(q)' = Pickers(q) /\ \A w : LocalWinners(q, w)' = LocalWinners(q, w)
           /\ match' = match => MatchStatus(q)' = MatchStatus(q)
           /\ match' = match => \A m \in Pickers(q) : MatchVerdict(q, m)' = MatchVerdict(q, m)
<1>1. Pickers(q)' = Pickers(q)
  BY DEF Written, Pickers
<1>2. \A m \in Pickers(q) : pick'[q][m].prediction = pick[q][m].prediction
  BY DEF Written
<1>3. \A w : LocalWinners(q, w)' = LocalWinners(q, w)
  BY <1>1, <1>2 DEF LocalWinners
<1>4. match' = match => MatchStatus(q)' = MatchStatus(q)
  BY <1>3 DEF MatchStatus
<1> QED
  BY <1>1, <1>2, <1>3, <1>4 DEF MatchVerdict

\* What a settlement or a lock writes fits, and makes no copy wrong.
LEMMA WrittenFits ==
    ASSUME LocalTypes, TypeOK, CopiesHold, EndsAfterKickoff,
           NEW p \in Pool, record[p] # NoRecord, NEW r, Written(p, r),
           UNCHANGED <<now, match, sweep>>, loop'.kind = loop.kind,
           loop' \in [kind : {"none", "settle", "cancel", "late"}, todo : SUBSET CopyState],
           loop'.todo \subseteq loop.todo
    PROVE  TypeOK' /\ CopiesHold' /\ EndsAfterKickoff'
<1>1. /\ record \in [Pool -> {NoRecord} \cup Record(Terms, Outcome)]
      /\ record' = [record EXCEPT ![p] = r] /\ r \in Record(Terms, Outcome)
      /\ r.terms = record[p].terms /\ r # NoRecord
  BY NoRecordIsNone DEF TypeOK, Written
<1>2. /\ record' \in [Pool -> {NoRecord} \cup Record(Terms, Outcome)]
      /\ \A q \in Pool : /\ record'[q] = NoRecord <=> record[q] = NoRecord
                         /\ record[q] # NoRecord => record'[q].terms = record[q].terms
  BY <1>1
<1>3. \A q \in Pool : Pickers(q)' = Pickers(q)
  BY SamePickers
<1>4. TypeOK'
  <2>1. pick' \in [Pool -> [Member -> {NoPick} \cup Pick(Outcome)]]
    BY DEF Written
  <2>2. \A q \in Pool : SeatsOK(q) => SeatsOK(q)'
    BY <1>2, <1>3 DEF SeatsOK
  <2>3. MirrorOK'
    BY <1>2, <2>1, <2>2, TypeParts DEF MirrorOK
  <2>4. WorkerOK'
    BY TypeParts DEF WorkerOK
  <2> QED
    BY <2>3, <2>4, TypeParts, PTL
<1>5. CopiesHold'
  <2>1. \A c \in sweep.copies \cup loop.todo : c.pool \in Pool
    BY DEF TypeOK, CopyState
  <2> QED
    BY <1>2, <1>3, <2>1 DEF CopiesHold
<1>6. EndsAfterKickoff'
  BY DEF EndsAfterKickoff
<1> QED
  BY <1>4, <1>5, <1>6

-----------------------------------------------------------------------------
(* The four operations of the mirror *)

Verdicts(p, verdict) ==
    \A m \in Pickers(p) : pick'[p][m].status =
        IF pick[p][m].status = "active" THEN verdict[m] ELSE pick[p][m].status

LEMMA LockWrites ==
    ASSUME LocalTypes, TypeOK, NEW p \in Pool, record[p] # NoRecord, MarkLocked(p)
    PROVE  \E r : Written(p, r) /\ r.status = "locked" /\ pick' = pick
<1> DEFINE r == [record[p] EXCEPT !.status = "locked"]
<1>1. record[p] \in Record(Terms, Outcome)
  BY RecordedStatus, RecordTypes
<1>2. r \in Record(Terms, Outcome) /\ r.terms = record[p].terms /\ r.status = "locked"
  BY <1>1 DEF Record, RecordStatus
<1>3. record' = [record EXCEPT ![p] = r] /\ pick' = pick
  BY DEF MarkLocked, TypeOK
<1> HIDE DEF r
<1> QED
  BY <1>2, <1>3 DEF Written, TypeOK

LEMMA CancelWrites ==
    ASSUME LocalTypes, TypeOK, NEW p \in Pool, record[p] # NoRecord, MarkCancelled(p)
    PROVE  \E r : Written(p, r) /\ r.status = "cancelled" /\ Verdicts(p, Refunds)
<1> DEFINE r == [record[p] EXCEPT !.status = "cancelled"]
<1>1. record[p] \in Record(Terms, Outcome)
  BY RecordedStatus, RecordTypes
<1>2. r \in Record(Terms, Outcome) /\ r.terms = record[p].terms /\ r.status = "cancelled"
  BY <1>1 DEF Record, RecordStatus
<1>3. record' = [record EXCEPT ![p] = r] /\ SettlePicks(p, Refunds)
  BY DEF MarkCancelled, TypeOK
<1> HIDE DEF r
<1>4. \A m \in Pickers(p) : Refunds[m] \in {"won", "lost", "refunded"}
  BY DEF Refunds, Pickers
<1> QED
  BY <1>2, <1>3, <1>4, SettledPicks DEF Written, Verdicts

ByOutcome(p, w) == [m \in Pickers(p) |-> IF pick[p][m].prediction = w THEN "won" ELSE "lost"]

\* What Settle writes of a pool, with the number of entries that the copy has.
SettledAs(p, r, w, count) ==
    LET n == Cardinality(LocalWinners(p, w))
    IN  /\ Written(p, r) /\ r.winningOutcome = w
        /\ n = 0 => r.status = "voided" /\ Verdicts(p, Refunds)
        /\ n > 0 => /\ r.status = "resolved" /\ r.winnerCount = n
                    /\ r.shareAmount = ShareOf(p, count, n)
                    /\ Verdicts(p, ByOutcome(p, w))

LEMMA SettleWrites ==
    ASSUME LocalTypes, TypeOK, NEW c \in CopyState, record[c.pool] # NoRecord,
           NEW w \in Outcome, Settle(c, w)
    PROVE  \E r : SettledAs(c.pool, r, w, c.entryCount)
<1> DEFINE n == Cardinality(LocalWinners(c.pool, w))
<1>1. PICK p \in Pool : p = c.pool
  BY DEF CopyState
<1>2. PICK count \in Nat : count = c.entryCount
  BY DEF CopyState
<1>3. n \in Nat
  BY PickersFinite
<1>4. record[p] \in Record(Terms, Outcome)
      /\ record \in [Pool -> {NoRecord} \cup Record(Terms, Outcome)]
  BY <1>1, RecordedStatus, RecordTypes DEF TypeOK
<1>5. CASE n = 0
  <2> DEFINE r == [record[p] EXCEPT !.status = "voided", !.winningOutcome = w, !.winnerCount = 0]
  <2>1. r \in Record(Terms, Outcome) /\ r.terms = record[p].terms /\ r.status = "voided"
        /\ r.winningOutcome = w
    BY <1>4 DEF Record, RecordStatus
  <2>2. MarkVoided(p, w)
    BY <1>1, <1>5 DEF Settle
  <2>3. record' = [record EXCEPT ![p] = r] /\ SettlePicks(p, Refunds)
    BY <1>4, <2>2 DEF MarkVoided
  <2> HIDE DEF r
  <2>4. \A m \in Pickers(p) : Refunds[m] \in {"won", "lost", "refunded"}
    BY DEF Refunds, Pickers
  <2>5. Written(p, r) /\ Verdicts(p, Refunds)
    BY <2>1, <2>3, <2>4, SettledPicks DEF Written, Verdicts
  <2> QED
    BY <1>1, <1>5, <2>1, <2>5 DEF SettledAs
<1>6. CASE n > 0
  <2> DEFINE r == [record[p] EXCEPT !.status = "resolved", !.winningOutcome = w,
                                    !.winnerCount = n, !.shareAmount = ShareOf(p, count, n)]
  <2>0. ShareOf(p, count, n) \in Nat
    BY <1>1, <1>3, <1>6, ShareSplit
  <2> HIDE DEF n
  <2>1. /\ r \in Record(Terms, Outcome) /\ r.terms = record[p].terms /\ r.status = "resolved"
        /\ r.winningOutcome = w /\ r.winnerCount = n /\ r.shareAmount = ShareOf(p, count, n)
    BY <1>3, <1>4, <2>0 DEF Record, RecordStatus
  <2>2. MarkResolved(p, w, n, ShareOf(p, count, n))
    BY <1>1, <1>2, <1>6 DEF Settle, n
  <2>3. record' = [record EXCEPT ![p] = r]
    BY <1>4, <2>2 DEF MarkResolved
  <2>4. SettlePicks(p, ByOutcome(p, w))
    BY <2>2 DEF MarkResolved, ByOutcome
  <2> HIDE DEF r
  <2>5. \A m \in Pickers(p) : ByOutcome(p, w)[m] \in {"won", "lost", "refunded"}
    BY DEF ByOutcome
  <2>6. Written(p, r) /\ Verdicts(p, ByOutcome(p, w))
    BY <2>1, <2>3, <2>4, <2>5, SettledPicks DEF Written, Verdicts
  <2> QED
    BY <1>1, <1>2, <1>6, <2>1, <2>6 DEF SettledAs, n
<1> QED
  BY <1>3, <1>5, <1>6

-----------------------------------------------------------------------------
(* What the operations keep *)

LEMMA ShareKept ==
    ASSUME LocalTypes, TypeOK, ShareExact, NEW p \in Pool, record[p] # NoRecord,
           NEW r, Written(p, r),
           r.status = "resolved" =>
               /\ r.winnerCount > 0
               /\ r.shareAmount = ShareOf(p, Cardinality(Pickers(p)), r.winnerCount)
    PROVE  ShareExact'
<1>1. record'[p] = r /\ \A q \in Pool \ {p} : record'[q] = record[q]
  BY DEF TypeOK, Written
<1>2. \A q \in Pool : Pickers(q)' = Pickers(q)
  BY SamePickers
<1>3. ASSUME NEW q \in Pool \ {p} PROVE ShareExactOf(q)'
  BY <1>1, <1>2, <1>3 DEF ShareExact, ShareExactOf
<1>4. ShareExactOf(p)'
  <2>2. PICK count \in Nat : count = Cardinality(Pickers(p))
    BY PickersFinite
  <2>3. r.status = "resolved" =>
          LET rest == LeftIn(p, count) - r.winnerCount * r.shareAmount
          IN  0 <= rest /\ rest < r.winnerCount
    <3> SUFFICES ASSUME r.status = "resolved"
                 PROVE  LET rest == LeftIn(p, count) - r.winnerCount * r.shareAmount
                        IN  0 <= rest /\ rest < r.winnerCount
      OBVIOUS
    <3>1. PICK n \in Nat : n = r.winnerCount /\ n > 0
      BY DEF Written, Record
    <3>2. r.shareAmount = ShareOf(p, count, n)
      BY <2>2, <3>1
    <3> QED
      BY <3>1, <3>2, ShareSplit, Zenon
  <2>4. ShareExactOf(p)' <=>
          (r.status = "resolved" =>
             LET rest == LeftIn(p, count) - r.winnerCount * r.shareAmount
             IN  0 <= rest /\ rest < r.winnerCount)
    BY <1>1, <1>2, <2>2 DEF ShareExactOf, LeftIn, LeftAfterRake, Written
  <2> QED
    BY <2>3, <2>4
<1> QED
  BY <1>3, <1>4 DEF ShareExact

\* A pool is locked once more, or gets what the match makes of it.
LEMMA MatchKept ==
    ASSUME LocalTypes, TypeOK, SettledByMatch, NEW p \in Pool, record[p] # NoRecord,
           NEW r, Written(p, r), match' = match,
           \/ r.status = "locked" /\ pick' = pick
           \/ /\ match # Pending /\ r.status = MatchStatus(p)
              /\ r.status = "resolved" =>
                   /\ r.winningOutcome = match.outcome
                   /\ r.winnerCount = Cardinality(LocalWinners(p, match.outcome))
              /\ Verdicts(p, [m \in Pickers(p) |-> MatchVerdict(p, m)])
    PROVE  SettledByMatch'
<1>1. record'[p] = r /\ \A q \in Pool \ {p} : record'[q] = record[q] /\ pick'[q] = pick[q]
  BY DEF TypeOK, Written
<1>2. \A q \in Pool : /\ Pickers(q)' = Pickers(q) /\ MatchStatus(q)' = MatchStatus(q)
                      /\ \A w : LocalWinners(q, w)' = LocalWinners(q, w)
                      /\ \A m \in Pickers(q) : MatchVerdict(q, m)' = MatchVerdict(q, m)
  BY SamePickers
<1>3. r.status \in RecordStatus /\ r.status # "open"
  BY DEF Written, Record
<1> DEFINE Fits(q) ==
        /\ record[q].status \in Settled =>
             /\ match # Pending /\ record[q].status = MatchStatus(q)
             /\ \A m \in Pickers(q) : pick[q][m].status # "active"
        /\ record[q].status = "resolved" =>
             /\ record[q].winningOutcome = match.outcome
             /\ record[q].winnerCount = Cardinality(LocalWinners(q, match.outcome))
        /\ \A m \in Pickers(q) : pick[q][m].status # "active" =>
             /\ match # Pending /\ record[q].status # "open"
             /\ pick[q][m].status = MatchVerdict(q, m)
<1>4. \A q \in Pool : Fits(q)
  BY DEF SettledByMatch
<1>5. ASSUME NEW q \in Pool \ {p} PROVE Fits(q)'
  BY <1>1, <1>2, <1>4
<1>6. Fits(p)'
  <2>1. CASE r.status = "locked" /\ pick' = pick
    BY <1>1, <1>2, <1>4, <2>1 DEF Settled
  <2>2. ASSUME match # Pending, r.status = MatchStatus(p),
               r.status = "resolved" =>
                   /\ r.winningOutcome = match.outcome
                   /\ r.winnerCount = Cardinality(LocalWinners(p, match.outcome)),
               Verdicts(p, [m \in Pickers(p) |-> MatchVerdict(p, m)])
        PROVE  Fits(p)'
    <3>1. \A m \in Pickers(p) :
            pick'[p][m].status = MatchVerdict(p, m) /\ pick'[p][m].status # "active"
      BY <1>4, <2>2 DEF Verdicts, MatchVerdict
    <3> QED
      BY <1>1, <1>2, <1>3, <2>2, <3>1
  <2> QED
    BY <2>1, <2>2
<1> QED
  BY <1>5, <1>6 DEF SettledByMatch

-----------------------------------------------------------------------------
(* The steps *)

\* Nothing is written: the mirror's part of the invariant stays.
LEMMA MirrorStays ==
    ASSUME IInv, UNCHANGED mirrorVars, match' = match \/ match = Pending
    PROVE  ShareExact' /\ (~DevTools /\ BlankOnly => SettledByMatch')
<1>1. record' = record /\ pick' = pick
  BY DEF mirrorVars
<1>2. ShareExact'
  BY <1>1 DEF IInv, ShareExact, ShareExactOf, Pickers
<1>3. ASSUME ~DevTools, BlankOnly PROVE SettledByMatch'
  <2>1. SettledByMatch
    BY <1>3 DEF IInv
  <2>2. CASE match' = match
    BY <1>1, <2>1, <2>2
    DEF SettledByMatch, Pickers, LocalWinners, MatchStatus, MatchVerdict
  <2>3. CASE match = Pending
    <3>1. \A q \in Pool : record[q].status \notin Settled
      BY <2>1, <2>3 DEF SettledByMatch
    <3>2. \A q \in Pool : \A m \in Pickers(q) : pick[q][m].status = "active"
      BY <2>1, <2>3 DEF SettledByMatch
    <3> QED
      BY <1>1, <3>1, <3>2 DEF SettledByMatch, Pickers, Settled
  <2> QED
    BY <2>2, <2>3
<1> QED
  BY <1>2, <1>3

LEMMA TickStep == ASSUME LocalTypes, IInv, Tick PROVE IInv'
<1>1. /\ UNCHANGED <<record, pick, match, sweep, loop>> /\ now' = now + 1
      /\ now \in 0 .. MaxTime /\ now' \in 0 .. MaxTime /\ Kickoff \in Nat
  BY DEF Tick, IInv, TypeOK, LocalTypes
<1>2. TypeOK'
  BY <1>1, TypeParts, WorkerMoves DEF IInv, WorkerOK, mirrorVars
<1>3. \A c \in sweep.copies \cup loop.todo : c.at \in Nat
  BY DEF IInv, TypeOK, CopyState
<1>4. CopiesHold' /\ EndsAfterKickoff'
  BY <1>1, <1>3 DEF IInv, CopiesHold, EndsAfterKickoff, Pickers
<1> QED
  BY <1>1, <1>2, <1>4, MirrorStays DEF IInv, mirrorVars

LEMMA MatchEndsStep == ASSUME LocalTypes, IInv, MatchEnds PROVE IInv'
<1>1. /\ UNCHANGED <<record, pick, now, sweep, loop>> /\ match = Pending
      /\ now >= Kickoff /\ \A c \in sweep.copies : c.at >= Kickoff
      /\ match' \in [phase : {"finished"}, outcome : Outcome]
              \cup [phase : {"abandoned"}, outcome : IF BlankOnly THEN {NoOutcome} ELSE Outcome]
  BY DEF MatchEnds
<1>2. loop.todo = {} /\ loop.kind # "settle" /\ loop.kind # "cancel"
  BY <1>1 DEF MatchEnds, Calm, IInv, EndsAfterKickoff, Pending
<1>3. TypeOK'
  <2>1. WorkerOK'
    BY <1>1, TypeParts DEF IInv, WorkerOK
  <2> QED
    BY <1>1, <2>1, WorkerMoves DEF IInv, mirrorVars
<1>4. CopiesHold'
  BY <1>1 DEF IInv, CopiesHold, Pickers
<1>5. /\ match'.phase = "finished" => match'.outcome # NoOutcome
      /\ match'.phase = "abandoned" /\ BlankOnly => match'.outcome = NoOutcome
  BY <1>1 DEF LocalTypes, NoOutcome
<1>6. EndsAfterKickoff'
  BY <1>1, <1>2, <1>5 DEF EndsAfterKickoff
<1> QED
  BY <1>1, <1>3, <1>4, <1>6, MirrorStays DEF IInv, mirrorVars

\* The copies that a sweep or a row of the stream takes.
LEMMA FreshCopies ==
    ASSUME LocalTypes, IInv, NEW c \in {Copy(p) : p \in ActivePools}
    PROVE  /\ c \in CopyState /\ record[c.pool] # NoRecord /\ c.at = now
           /\ c.entryCount = Cardinality(Pickers(c.pool))
<1>1. PICK p \in ActivePools : c = Copy(p)
  OBVIOUS
<1>2. p \in Pool /\ record[p] # NoRecord
  BY RecordedStatus DEF ActivePools, RecordStatus, IInv
<1> QED
  BY <1>1, <1>2, CopyTypes DEF IInv

LEMMA StreamRowStep == ASSUME LocalTypes, IInv, StreamRow PROVE IInv'
<1> DEFINE fresh == {Copy(p) : p \in ActivePools}
           kind == IF match.phase = "finished" THEN "settle" ELSE "cancel"
<1>1. /\ UNCHANGED <<record, pick, now, match, sweep>> /\ loop' = [kind |-> kind, todo |-> fresh]
      /\ match.phase \in {"finished", "abandoned"}
  BY DEF StreamRow
<1>2. \A c \in fresh : /\ c \in CopyState /\ record[c.pool] # NoRecord /\ c.at = now
                        /\ c.entryCount = Cardinality(Pickers(c.pool))
  BY FreshCopies
<1> HIDE DEF fresh
<1>3. TypeOK'
  <2>1. WorkerOK'
    BY <1>1, <1>2, TypeParts DEF IInv, WorkerOK
  <2> QED
    BY <1>1, <2>1, WorkerMoves DEF IInv, mirrorVars
<1>4. CopiesHold'
  <2>1. now <= now
    BY TypeParts DEF IInv, WorkerOK
  <2> QED
    BY <1>1, <1>2, <2>1 DEF IInv, CopiesHold, Pickers
<1>5. now >= Kickoff
  BY <1>1 DEF IInv, EndsAfterKickoff, Pending
<1>6. EndsAfterKickoff'
  BY <1>1, <1>2, <1>5 DEF IInv, EndsAfterKickoff
<1> QED
  BY <1>1, <1>3, <1>4, <1>6, MirrorStays DEF IInv, mirrorVars

LEMMA StartSweepStep == ASSUME LocalTypes, IInv, StartSweep PROVE IInv'
<1> DEFINE fresh == {Copy(p) : p \in ActivePools}
<1>1. /\ UNCHANGED <<record, pick, now, match, loop>>
      /\ sweep' = [at |-> "fetch", copies |-> fresh, seen |-> match]
  BY DEF StartSweep
<1>2. \A c \in fresh : /\ c \in CopyState /\ record[c.pool] # NoRecord /\ c.at = now
                        /\ c.entryCount = Cardinality(Pickers(c.pool))
  BY FreshCopies
<1> HIDE DEF fresh
<1>3. TypeOK'
  <2>1. WorkerOK'
    BY <1>1, <1>2, TypeParts DEF IInv, WorkerOK
  <2> QED
    BY <1>1, <2>1, WorkerMoves DEF IInv, mirrorVars
<1>4. CopiesHold'
  <2>1. now <= now
    BY TypeParts DEF IInv, WorkerOK
  <2> QED
    BY <1>1, <1>2, <2>1 DEF IInv, CopiesHold, Pickers
<1>5. EndsAfterKickoff'
  BY <1>1, <1>2 DEF IInv, EndsAfterKickoff
<1> QED
  BY <1>1, <1>3, <1>4, <1>5, MirrorStays DEF IInv, mirrorVars

LEMMA FetchFixturesStep == ASSUME LocalTypes, IInv, FetchFixtures PROVE IInv'
<1>1. PICK seen \in {sweep.seen, match} :
        loop' = [kind |-> IF seen.outcome # NoOutcome THEN "settle" ELSE "late",
                 todo |-> sweep.copies]
  BY DEF FetchFixtures
<1>2. UNCHANGED <<record, pick, now, match>> /\ sweep' = Idle
  BY DEF FetchFixtures
<1>3. sweep.copies \subseteq CopyState /\ seen \in {Pending, match}
  BY <1>1 DEF IInv, TypeOK
<1>4. seen.outcome # NoOutcome => seen = match /\ match # Pending /\ match.outcome # NoOutcome
  BY <1>3 DEF Pending
<1>5. TypeOK'
  <2>1. WorkerOK'
    BY <1>1, <1>2, <1>3, TypeParts DEF IInv, WorkerOK, Idle
  <2> QED
    BY <1>2, <2>1, WorkerMoves DEF IInv, mirrorVars
<1>6. CopiesHold'
  BY <1>1, <1>2 DEF IInv, CopiesHold, Pickers, Idle
<1>7. loop'.kind = "settle" => match.outcome # NoOutcome /\ \A c \in loop'.todo : c.at >= Kickoff
  BY <1>1, <1>4 DEF IInv, EndsAfterKickoff
<1>8. loop'.kind # "cancel"
  BY <1>1
<1>9. EndsAfterKickoff'
  BY <1>2, <1>7, <1>8 DEF IInv, EndsAfterKickoff, Idle
<1> QED
  BY <1>2, <1>5, <1>6, <1>9, MirrorStays DEF IInv, mirrorVars

LEMMA HostStep ==
    ASSUME LocalTypes, IInv, NEW m \in Member, NEW p \in Pool, NEW terms \in Terms,
           Host(m, p, terms)
    PROVE  IInv'
<1> DEFINE r == NewRecord(m, terms)
<1>1. /\ UNCHANGED <<pick, now, match, sweep, loop>> /\ record[p] = NoRecord
      /\ record' = [record EXCEPT ![p] = r] /\ terms.rake_bps <= 1000
  BY DEF Host, CreateRecord, ParseCreatePool
<1>2. r \in Record(Terms, Outcome) /\ r.status = "open" /\ r.terms = terms
  BY DEF NewRecord, Record, RecordStatus
<1>3. r # NoRecord
  BY <1>2, NoRecordIsNone
<1> HIDE DEF r
<1>4. /\ record \in [Pool -> {NoRecord} \cup Record(Terms, Outcome)]
      /\ record'[p] = r /\ \A q \in Pool \ {p} : record'[q] = record[q]
      /\ record' \in [Pool -> {NoRecord} \cup Record(Terms, Outcome)]
  BY <1>1, <1>2 DEF IInv, TypeOK
<1>5. Pickers(p) = {} /\ \A q : Pickers(q)' = Pickers(q)
  <2>1. SeatsOK(p)
    BY DEF IInv, TypeOK
  <2> QED
    BY <1>1, <2>1 DEF SeatsOK, Pickers
<1>6. Cardinality(Pickers(p)) <= terms.max_entries
  <2>1. terms.max_entries \in Nat
    BY DEF LocalTypes
  <2> QED
    BY <1>5, <2>1, FS_EmptySet
<1>7. TypeOK'
  <2>1. SeatsOK(p)'
    BY <1>1, <1>2, <1>3, <1>4, <1>5, <1>6 DEF SeatsOK
  <2>2. \A q \in Pool \ {p} : SeatsOK(q) => SeatsOK(q)'
    BY <1>4, <1>5 DEF SeatsOK
  <2>3. MirrorOK'
    BY <1>1, <1>4, <2>1, <2>2, TypeParts DEF IInv, MirrorOK
  <2>4. WorkerOK'
    BY <1>1, TypeParts DEF IInv, WorkerOK
  <2> QED
    BY <2>3, <2>4, TypeParts, PTL
<1>8. CopiesHold' /\ EndsAfterKickoff'
  <2>1. \A c \in sweep.copies \cup loop.todo : c.pool \in Pool
    BY DEF IInv, TypeOK, CopyState
  <2> QED
    BY <1>1, <1>3, <1>4, <1>5, <2>1 DEF IInv, CopiesHold, EndsAfterKickoff
<1>9. ShareExact'
  BY <1>1, <1>2, <1>4, <1>5 DEF IInv, ShareExact, ShareExactOf
<1>10. ASSUME ~DevTools, BlankOnly PROVE SettledByMatch'
  <2>1. SettledByMatch /\ \A q : /\ MatchStatus(q)' = MatchStatus(q)
                                 /\ \A w : LocalWinners(q, w)' = LocalWinners(q, w)
                                 /\ \A n : MatchVerdict(q, n)' = MatchVerdict(q, n)
    BY <1>1, <1>10 DEF IInv, LocalWinners, MatchStatus, MatchVerdict, Pickers
  <2> QED
    BY <1>1, <1>2, <1>4, <1>5, <2>1 DEF SettledByMatch, Settled
<1> QED
  BY <1>7, <1>8, <1>9, <1>10 DEF IInv

LEMMA JoinStep ==
    ASSUME LocalTypes, ClosesAtKickoff, IInv, NEW m \in Member, NEW p \in Pool,
           NEW x \in Outcome, Join(m, p, x)
    PROVE  IInv'
<1>1. /\ UNCHANGED <<record, now, match, sweep, loop>>
      /\ pick' = [pick EXCEPT ![p][m] = NewPick(x)] /\ pick[p][m] = NoPick
      /\ record[p].status = "open" /\ now < record[p].terms.deadline
      /\ Cardinality(Pickers(p)) < record[p].terms.max_entries
  BY DEF Join, CreateEntry
<1>2. TypeOK /\ record[p].status \in RecordStatus
  BY <1>1 DEF IInv, RecordStatus
<1>3. now < Kickoff /\ match = Pending
  <2>1. record[p].terms.deadline <= Kickoff /\ record[p].terms.deadline \in Nat
    BY <1>2, RecordTypes DEF ClosesAtKickoff
  <2>2. now \in Int /\ Kickoff \in Int
    BY <1>2 DEF TypeOK, LocalTypes
  <2>3. now < Kickoff
    BY <1>1, <2>1, <2>2
  <2> QED
    BY <2>2, <2>3 DEF IInv, EndsAfterKickoff
<1>4. NewPick(x) \in Pick(Outcome) /\ NewPick(x).status = "active" /\ NewPick(x) # NoPick
  BY DEF NewPick, Pick, PickStatus, NoPick
<1>5. /\ pick' \in [Pool -> [Member -> {NoPick} \cup Pick(Outcome)]]
      /\ pick'[p][m] = NewPick(x) /\ \A n \in Member \ {m} : pick'[p][n] = pick[p][n]
      /\ \A q \in Pool \ {p} : pick'[q] = pick[q]
  BY <1>1, <1>2, <1>4 DEF TypeOK
<1>6. Pickers(p)' = Pickers(p) \cup {m} /\ m \notin Pickers(p)
      /\ \A q \in Pool \ {p} : Pickers(q)' = Pickers(q)
  BY <1>1, <1>4, <1>5 DEF Pickers
<1>7. Cardinality(Pickers(p)') <= record[p].terms.max_entries
  <2>1. Cardinality(Pickers(p)') = Cardinality(Pickers(p)) + 1
    BY <1>6, PickersFinite, FS_AddElement
  <2> QED
    BY <1>1, <1>2, <2>1, PickersFinite, RecordTypes
<1>8. TypeOK'
  <2>1. record[p] # NoRecord
    BY <1>2, RecordTypes
  <2>2. SeatsOK(p) => SeatsOK(p)'
    BY <1>1, <1>7, <2>1 DEF SeatsOK
  <2>3. \A q \in Pool \ {p} : SeatsOK(q) => SeatsOK(q)'
    BY <1>1, <1>6 DEF SeatsOK
  <2>4. MirrorOK'
    BY <1>1, <1>2, <1>5, <2>2, <2>3, TypeParts DEF MirrorOK
  <2>5. WorkerOK'
    BY <1>1, <1>2, TypeParts DEF WorkerOK
  <2> QED
    BY <2>4, <2>5, TypeParts, PTL
<1>9. CopiesHold'
  <2>1. \A c \in sweep.copies \cup loop.todo : ~(c.at >= Kickoff) /\ c.pool \in Pool
    <3>1. \A c \in sweep.copies \cup loop.todo : c.at \in Int /\ c.pool \in Pool
      BY <1>2 DEF TypeOK, CopyState
    <3>2. now \in Int /\ Kickoff \in Int
      BY <1>2 DEF TypeOK, LocalTypes
    <3> QED
      BY <1>3, <3>1, <3>2 DEF IInv, CopiesHold
  <2> QED
    BY <1>1, <2>1 DEF IInv, CopiesHold
<1>10. EndsAfterKickoff'
  BY <1>1 DEF IInv, EndsAfterKickoff
<1>11. ShareExact'
  BY <1>1, <1>6 DEF IInv, ShareExact, ShareExactOf
<1>12. ASSUME ~DevTools, BlankOnly PROVE SettledByMatch'
  <2>1. SettledByMatch
    BY <1>12 DEF IInv
  <2>2. \A q \in Pool : record[q].status \notin Settled
    BY <1>3, <2>1 DEF SettledByMatch
  <2>3. \A q \in Pool : \A n \in Pickers(q) : pick[q][n].status = "active"
    BY <1>3, <2>1 DEF SettledByMatch
  <2>4. \A q \in Pool : \A n \in Pickers(q)' : pick'[q][n].status = "active"
    <3>1. ASSUME NEW n \in Pickers(p)' PROVE pick'[p][n].status = "active"
      BY <1>4, <1>5, <1>6, <2>3, <3>1 DEF Pickers
    <3> QED
      BY <1>5, <1>6, <2>3, <3>1
  <2> QED
    BY <1>1, <2>2, <2>4 DEF SettledByMatch, Settled
<1> QED
  BY <1>8, <1>9, <1>10, <1>11, <1>12 DEF IInv

LEMMA DevResolveStep ==
    ASSUME LocalTypes, IInv, NEW p \in Pool, NEW w \in Outcome, DevResolve(p, w)
    PROVE  IInv'
<1>1. /\ DevTools /\ UNCHANGED <<now, match, sweep, loop>>
      /\ record[p].status \in {"open", "locked"} /\ Settle(Copy(p), w)
  BY DEF DevResolve
<1>2. TypeOK /\ record[p] # NoRecord
  BY <1>1, RecordedStatus DEF IInv, RecordStatus
<1>3. /\ Copy(p) \in CopyState /\ Copy(p).pool = p
      /\ Copy(p).entryCount = Cardinality(Pickers(p))
  BY <1>2, CopyTypes
<1>4. PICK r : SettledAs(p, r, w, Cardinality(Pickers(p)))
  BY <1>1, <1>2, <1>3, SettleWrites
<1>5. Written(p, r) /\ (r.status = "resolved" =>
        r.winnerCount > 0 /\ r.shareAmount = ShareOf(p, Cardinality(Pickers(p)), r.winnerCount))
  BY <1>4, PickersFinite DEF SettledAs
<1>6. TypeOK' /\ CopiesHold' /\ EndsAfterKickoff'
  <2>1. loop' \in [kind : {"none", "settle", "cancel", "late"}, todo : SUBSET CopyState]
        /\ loop'.kind = loop.kind /\ loop'.todo \subseteq loop.todo
    BY <1>1, <1>2 DEF TypeOK
  <2> QED
    BY <1>1, <1>2, <1>5, <2>1, WrittenFits DEF IInv
<1>7. ShareExact'
  BY <1>2, <1>5, ShareKept DEF IInv
<1> QED
  BY <1>1, <1>6, <1>7 DEF IInv

\* A loop settles a pool to the match's outcome.
LEMMA LoopSettles ==
    ASSUME LocalTypes, IInv, NEW c \in loop.todo, loop.kind = "settle",
           Settle(c, match.outcome), match' = match
    PROVE  \E r : /\ Written(c.pool, r) /\ ShareExact'
                  /\ ~DevTools /\ BlankOnly => SettledByMatch'
<1>1. TypeOK /\ c \in CopyState
  BY DEF IInv, TypeOK
<1>2. PICK p \in Pool : p = c.pool
  BY <1>1 DEF CopyState
<1>3. record[p] # NoRecord /\ c.entryCount = Cardinality(Pickers(p))
  BY <1>2 DEF IInv, CopiesHold, EndsAfterKickoff
<1>4. PICK w \in Outcome : w = match.outcome
  BY <1>1 DEF IInv, EndsAfterKickoff, TypeOK, Pending
<1>5. w # NoOutcome /\ match # Pending
  BY <1>4 DEF IInv, EndsAfterKickoff, Pending
<1>6. PICK r : SettledAs(p, r, w, Cardinality(Pickers(p)))
  BY <1>1, <1>2, <1>3, <1>4, SettleWrites
<1>7. Written(p, r) /\ (r.status = "resolved" =>
        r.winnerCount > 0 /\ r.shareAmount = ShareOf(p, Cardinality(Pickers(p)), r.winnerCount))
  BY <1>6, PickersFinite DEF SettledAs
<1>8. ShareExact'
  BY <1>1, <1>3, <1>7, ShareKept DEF IInv
<1>9. ASSUME ~DevTools, BlankOnly PROVE SettledByMatch'
  <2>1. /\ r.status = MatchStatus(p)
        /\ r.status = "resolved" =>
             /\ r.winningOutcome = match.outcome
             /\ r.winnerCount = Cardinality(LocalWinners(p, match.outcome))
    BY <1>4, <1>5, <1>6, PickersFinite DEF SettledAs, MatchStatus
  <2>2. Verdicts(p, [m \in Pickers(p) |-> MatchVerdict(p, m)])
    <3>1. CASE r.status = "voided"
      <4>1. Verdicts(p, Refunds)
        BY <1>6, <3>1, PickersFinite DEF SettledAs
      <4>2. \A m \in Pickers(p) : MatchVerdict(p, m) = "refunded" /\ Refunds[m] = "refunded"
        BY <2>1, <3>1 DEF MatchVerdict, Refunds, Pickers
      <4> QED
        BY <4>1, <4>2 DEF Verdicts
    <3>2. CASE r.status = "resolved"
      <4>1. Verdicts(p, ByOutcome(p, w))
        BY <1>6, <3>2, PickersFinite DEF SettledAs
      <4>2. \A m \in Pickers(p) : ByOutcome(p, w)[m] = MatchVerdict(p, m)
        BY <1>4, <2>1, <3>2 DEF MatchVerdict, ByOutcome
      <4> QED
        BY <4>1, <4>2 DEF Verdicts
    <3> QED
      BY <1>6, <3>1, <3>2, PickersFinite DEF SettledAs
  <2> QED
    BY <1>1, <1>3, <1>5, <1>7, <1>9, <2>1, <2>2, MatchKept DEF IInv
<1> QED
  BY <1>2, <1>7, <1>8, <1>9

\* A loop cancels the pools of a match that was abandoned.
LEMMA LoopCancels ==
    ASSUME LocalTypes, IInv, NEW c \in loop.todo, loop.kind = "cancel",
           MarkCancelled(c.pool), match' = match
    PROVE  \E r : /\ Written(c.pool, r) /\ ShareExact'
                  /\ ~DevTools /\ BlankOnly => SettledByMatch'
<1>1. TypeOK /\ c \in CopyState
  BY DEF IInv, TypeOK
<1>2. PICK p \in Pool : p = c.pool
  BY <1>1 DEF CopyState
<1>3. record[p] # NoRecord /\ match.phase = "abandoned"
  BY <1>2 DEF IInv, CopiesHold, EndsAfterKickoff
<1>4. PICK r : Written(p, r) /\ r.status = "cancelled" /\ Verdicts(p, Refunds)
  BY <1>1, <1>2, <1>3, CancelWrites
<1>5. ShareExact'
  BY <1>1, <1>3, <1>4, ShareKept DEF IInv
<1>6. ASSUME ~DevTools, BlankOnly PROVE SettledByMatch'
  <2>1. match # Pending /\ MatchStatus(p) = "cancelled"
    BY <1>3, <1>6 DEF IInv, EndsAfterKickoff, Pending, MatchStatus
  <2>2. \A m \in Pickers(p) : MatchVerdict(p, m) = "refunded" /\ Refunds[m] = "refunded"
    BY <2>1 DEF MatchVerdict, Refunds, Pickers
  <2>3. Verdicts(p, [m \in Pickers(p) |-> MatchVerdict(p, m)])
    BY <1>4, <2>2 DEF Verdicts
  <2> QED
    BY <1>1, <1>3, <1>4, <1>6, <2>1, <2>3, MatchKept DEF IInv
<1> QED
  BY <1>2, <1>4, <1>5, <1>6

\* A loop of the sweep locks a pool whose match is not over.
LEMMA LoopLocks ==
    ASSUME LocalTypes, IInv, NEW c \in loop.todo, MarkLocked(c.pool), match' = match
    PROVE  \E r : /\ Written(c.pool, r) /\ ShareExact'
                  /\ ~DevTools /\ BlankOnly => SettledByMatch'
<1>1. TypeOK /\ c \in CopyState
  BY DEF IInv, TypeOK
<1>2. PICK p \in Pool : p = c.pool
  BY <1>1 DEF CopyState
<1>3. record[p] # NoRecord
  BY <1>2 DEF IInv, CopiesHold
<1>4. PICK r : Written(p, r) /\ r.status = "locked" /\ pick' = pick
  BY <1>1, <1>2, <1>3, LockWrites
<1>5. ShareExact'
  BY <1>1, <1>3, <1>4, ShareKept DEF IInv
<1>6. ASSUME ~DevTools, BlankOnly PROVE SettledByMatch'
  BY <1>1, <1>3, <1>4, <1>6, MatchKept DEF IInv
<1> QED
  BY <1>2, <1>4, <1>5, <1>6

LEMMA LoopStepStep == ASSUME LocalTypes, IInv, LoopStep PROVE IInv'
<1>1. PICK c \in loop.todo :
        /\ loop' = [loop EXCEPT !.todo = @ \ {c}]
        /\ \/ loop.kind = "settle" /\ Settle(c, match.outcome)
           \/ loop.kind = "cancel" /\ MarkCancelled(c.pool)
           \/ MarkLocked(c.pool)
           \/ UNCHANGED mirrorVars
        /\ UNCHANGED <<now, match, sweep>>
  BY DEF LoopStep
<1>2. TypeOK /\ c \in CopyState /\ c.pool \in Pool /\ record[c.pool] # NoRecord
  BY DEF IInv, TypeOK, CopyState, CopiesHold
<1>3. loop \in [kind : {"none", "settle", "cancel", "late"}, todo : SUBSET CopyState]
  BY <1>2 DEF TypeOK
<1>4. /\ loop'.kind = loop.kind /\ loop'.todo \subseteq loop.todo
      /\ loop' \in [kind : {"none", "settle", "cancel", "late"}, todo : SUBSET CopyState]
  BY <1>1, <1>3
<1>5. CASE UNCHANGED mirrorVars
  <2>1. WorkerOK'
    BY <1>1, <1>2, <1>4, TypeParts DEF WorkerOK
  <2>2. TypeOK'
    BY <1>2, <1>5, <2>1, WorkerMoves
  <2>3. CopiesHold' /\ EndsAfterKickoff'
    BY <1>1, <1>4, <1>5 DEF IInv, CopiesHold, EndsAfterKickoff, Pickers, mirrorVars
  <2> QED
    BY <1>1, <1>5, <2>2, <2>3, MirrorStays DEF IInv
<1>6. CASE ~UNCHANGED mirrorVars
  <2>1. PICK r : /\ Written(c.pool, r) /\ ShareExact'
                 /\ ~DevTools /\ BlankOnly => SettledByMatch'
    BY <1>1, <1>6, LoopSettles, LoopCancels, LoopLocks
  <2>2. TypeOK' /\ CopiesHold' /\ EndsAfterKickoff'
    BY <1>1, <1>2, <1>4, <2>1, WrittenFits DEF IInv
  <2> QED
    BY <2>1, <2>2 DEF IInv
<1> QED
  BY <1>5, <1>6

-----------------------------------------------------------------------------
(* The theorems *)

LEMMA Initially == ASSUME LocalTypes, Init PROVE IInv
<1>1. /\ record = [p \in Pool |-> NoRecord] /\ pick = [p \in Pool |-> [m \in Member |-> NoPick]]
      /\ now = 0 /\ match = Pending /\ sweep = Idle /\ loop = NoLoop
  BY DEF Init, MirrorInit
<1>2. \A p \in Pool : Pickers(p) = {} /\ record[p].status = "none"
  BY <1>1 DEF Pickers, NoRecord
<1>3. TypeOK
  <2>1. MirrorOK
    BY <1>1, <1>2 DEF MirrorOK, SeatsOK
  <2>2. WorkerOK
    BY <1>1 DEF WorkerOK, LocalTypes, Idle, NoLoop
  <2> QED
    BY <2>1, <2>2, TypeParts
<1>4. CopiesHold /\ EndsAfterKickoff
  BY <1>1 DEF CopiesHold, EndsAfterKickoff, Idle, NoLoop, Pending
<1>5. ShareExact /\ SettledByMatch
  BY <1>2 DEF ShareExact, ShareExactOf, SettledByMatch, Settled
<1> QED
  BY <1>3, <1>4, <1>5 DEF IInv

LEMMA Consecution == ASSUME LocalTypes, ClosesAtKickoff PROVE IInv /\ [Next]_vars => IInv'
<1> SUFFICES ASSUME IInv, [Next]_vars PROVE IInv'
  OBVIOUS
<1>1. CASE UNCHANGED vars
  <2>1. UNCHANGED <<record, pick, now, match, sweep, loop>>
    BY <1>1 DEF vars
  <2>2. WorkerOK'
    BY <2>1, TypeParts DEF IInv, WorkerOK
  <2>3. TypeOK'
    BY <2>1, <2>2, WorkerMoves DEF IInv, mirrorVars
  <2>4. CopiesHold' /\ EndsAfterKickoff'
    BY <2>1 DEF IInv, CopiesHold, EndsAfterKickoff, Pickers
  <2> QED
    BY <2>1, <2>3, <2>4, MirrorStays DEF IInv, mirrorVars
<1>2. CASE Next
  BY <1>2, TickStep, MatchEndsStep, StreamRowStep, StartSweepStep, FetchFixturesStep,
     LoopStepStep, HostStep, JoinStep, DevResolveStep
  DEF Next
<1> QED
  BY <1>1, <1>2

\* In every state the copies that a sweep or a loop holds are right in what is read
\* of them, and what is settled has what the match makes of it.
THEOREM Invariance == ASSUME LocalTypes, ClosesAtKickoff PROVE Spec => []IInv
<1> QED
  BY Initially, Consecution, PTL DEF Spec

\* A share is the stakes of all picks less the rake, split evenly, however old the
\* copies are that the sweep settles from, and with the dev route too (worker.ts:91).
THEOREM ShareAlwaysExact == ASSUME LocalTypes, ClosesAtKickoff PROVE Spec => []ShareExact
<1>1. IInv => ShareExact
  BY DEF IInv
<1> QED
  BY <1>1, Invariance, PTL

LEMMA MatchGivesVerdicts ==
    ASSUME TypeOK, SettledByMatch
    PROVE  VerdictsMatch
<1> SUFFICES ASSUME NEW p \in Pool, record[p].status \in Settled
             PROVE  /\ \A m \in Pickers(p) : pick[p][m].status =
                         IF record[p].status # "resolved" THEN "refunded"
                         ELSE IF pick[p][m].prediction = record[p].winningOutcome THEN "won" ELSE "lost"
                    /\ record[p].status = "resolved" =>
                         record[p].winnerCount = Cardinality({m \in Pickers(p) : pick[p][m].status = "won"})
  BY DEF VerdictsMatch
<1>1. /\ record[p].status = MatchStatus(p)
      /\ record[p].status = "resolved" =>
           /\ record[p].winningOutcome = match.outcome
           /\ record[p].winnerCount = Cardinality(LocalWinners(p, match.outcome))
      /\ \A m \in Pickers(p) : pick[p][m].status = MatchVerdict(p, m)
  BY DEF SettledByMatch
<1>2. ASSUME record[p].status = "resolved"
      PROVE  {m \in Pickers(p) : pick[p][m].status = "won"} = LocalWinners(p, match.outcome)
  BY <1>1, <1>2 DEF LocalWinners, MatchVerdict
<1> QED
  BY <1>1, <1>2 DEF MatchVerdict

\* Without the dev route, and when an abandoned match has no score, every pick of a
\* settled pool has the verdict that the record shows, however the stream, the sweep
\* and its old copies interleave (routes.ts:143).
THEOREM VerdictsAlwaysMatch ==
    ASSUME LocalTypes, ClosesAtKickoff, ~DevTools, BlankOnly
    PROVE  Spec => []VerdictsMatch
<1>1. IInv => VerdictsMatch
  BY MatchGivesVerdicts DEF IInv
<1> QED
  BY <1>1, Invariance, PTL

-----------------------------------------------------------------------------
(* finalizeFixture *)

\* Finite sets and their sizes are the same in both.
LEMMA SameSizes ==
    \A S : /\ Fin!IsFiniteSet(S) <=> IsFiniteSet(S)
           /\ Fin!Cardinality(S) = Cardinality(S)
BY DEF Fin!IsFiniteSet, IsFiniteSet, Fin!Cardinality, Cardinality

-----------------------------------------------------------------------------
(* Types *)

LEMMA CallTypes ==
    ASSUME Fin!TypeOK, NEW c \in Call
    PROVE  /\ call[c] \in Fin!CallState
           /\ call[c].todo \subseteq Pool /\ call[c].pool \in Pool \cup {NoPool}
           /\ call[c].winners \in Nat
           /\ call[c].pc \notin {"idle", "work"} => call[c].pool \in Pool
BY DEF Fin!TypeOK, Fin!CallState

LEMMA PoolTypes ==
    ASSUME Fin!TypeOK, NEW p \in Pool
    PROVE  /\ record[p] \in Fin!Record(Terms, Outcome) /\ record[p].status \in Fin!RecordStatus
           /\ pick[p] \in [Member -> {Fin!NoPick} \cup Fin!Pick(Outcome)]
           /\ chain[p] \in Fin!ChainState /\ chain[p].status \in Fin!RecordStatus
           /\ result.outcome \in Outcome /\ result.action \in {"resolve", "cancel"}
<1>1. record[p] \in Fin!Record(Terms, Outcome) /\ chain[p] \in Fin!ChainState
      /\ pick[p] \in [Member -> {Fin!NoPick} \cup Fin!Pick(Outcome)]
      /\ result \in [action : {"resolve", "cancel"}, outcome : Outcome]
  BY DEF Fin!TypeOK
<1> QED
  BY <1>1 DEF Fin!Record, Fin!ChainState

LEMMA WinnersType ==
    ASSUME Fin!FinalizeTypes, NEW p, NEW w
    PROVE  Cardinality(Fin!Winners(p, w)) \in Nat
BY SameSizes, FS_Subset, FS_CardinalityType DEF Fin!Winners, Fin!FinalizeTypes

LEMMA TerminalIsSettled ==
    /\ Fin!Terminal = Fin!Settled /\ Fin!MarkPc = Fin!Settled
    /\ Fin!Settled \subseteq Fin!RecordStatus
BY DEF Fin!Terminal, Fin!Settled, Fin!MarkPc, Fin!RecordStatus

\* The states a call may be in.
GoodCall(s) ==
    /\ s \in Fin!CallState
    /\ s.pool = NoPool <=> s.pc \in {"idle", "work"}
    /\ s.pool # NoPool => (s.pc \in {"cancel", "cancelled"} <=> result.action = "cancel")

\* A call has taken a step, and its state is a good one.
LEMMA CallMoves ==
    ASSUME Fin!TypeOK, NEW c \in Call, NEW s, GoodCall(s), call' = [call EXCEPT ![c] = s],
           UNCHANGED result
    PROVE  /\ call' \in [Call -> Fin!CallState]
           /\ \A d \in Call :
                /\ call'[d].pool = NoPool <=> call'[d].pc \in {"idle", "work"}
                /\ call'[d].pool # NoPool =>
                     (call'[d].pc \in {"cancel", "cancelled"} <=> result'.action = "cancel")
           /\ call'[c] = s /\ \A d \in Call \ {c} : call'[d] = call[d]
<1>1. call \in [Call -> Fin!CallState]
  BY DEF Fin!TypeOK
<1>2. call'[c] = s /\ \A d \in Call \ {c} : call'[d] = call[d]
  BY <1>1
<1>3. call' \in [Call -> Fin!CallState]
  BY <1>1 DEF GoodCall
<1> QED
  BY <1>2, <1>3 DEF GoodCall, Fin!TypeOK

LEMMA Between ==
    ASSUME Fin!FinalizeTypes, NEW s \in Fin!CallState, s.pc \in {"idle", "work"},
           s.pool = NoPool
    PROVE  GoodCall(s)
BY DEF GoodCall

LEMMA IdleIsGood ==
    ASSUME Fin!FinalizeTypes
    PROVE  GoodCall(Fin!Idle) /\ Fin!Idle \in Fin!CallState /\ Fin!Idle.pc = "idle"
<1>1. Fin!Idle \in Fin!CallState /\ Fin!Idle.pc = "idle" /\ Fin!Idle.pool = NoPool
  BY DEF Fin!Idle, Fin!CallState
<1> QED
  BY <1>1, Between

-----------------------------------------------------------------------------
(* The chain stays, the mirror stays *)

\* A call moves, without touching chain or mirror, to a pc that marks nothing.
LEMMA QuietStep ==
    ASSUME Fin!FinalizeTypes, Fin!IInv, NEW c \in Call, NEW s, GoodCall(s),
           s.pc \notin Fin!MarkPc,
           call' = [call EXCEPT ![c] = s], UNCHANGED <<Fin!mirrorVars, chain, result>>,
           faults' \in 0 .. MaxFaults, crashes' \in 0 .. MaxCrashes,
           call[c].pc \in Fin!MarkPc => MaxFaults # 0
    PROVE  Fin!IInv'
<1>1. /\ call' \in [Call -> Fin!CallState]
      /\ \A d \in Call :
           /\ call'[d].pool = NoPool <=> call'[d].pc \in {"idle", "work"}
           /\ call'[d].pool # NoPool =>
                (call'[d].pc \in {"cancel", "cancelled"} <=> result'.action = "cancel")
      /\ call'[c] = s /\ \A d \in Call \ {c} : call'[d] = call[d]
  BY CallMoves DEF Fin!IInv
<1>2. Fin!TypeOK'
  BY <1>1 DEF Fin!IInv, Fin!TypeOK, Fin!mirrorVars
<1>3. Fin!MirrorNeverAhead' /\ Fin!OutcomeOfFeed'
  BY DEF Fin!IInv, Fin!MirrorNeverAhead, Fin!OutcomeOfFeed, Fin!mirrorVars
<1>4. Fin!MarksAreReal'
  BY <1>1 DEF Fin!IInv, Fin!MarksAreReal
<1>5. \A p : Fin!Whole(p)' = Fin!Whole(p)
  BY DEF Fin!Whole, Fin!Pickers, Fin!mirrorVars
<1>6. Fin!WholeOrMarking'
  BY <1>1, <1>5 DEF Fin!IInv, Fin!WholeOrMarking
<1> QED
  BY <1>2, <1>3, <1>4, <1>6 DEF Fin!IInv

LEMMA DeliverStep ==
    ASSUME Fin!FinalizeTypes, Fin!IInv, NEW c \in Call, Fin!Deliver(c)
    PROVE  Fin!IInv'
<1> DEFINE s == [Fin!Idle EXCEPT !.pc = "work", !.todo = Fin!ActivePools]
<1>1. s \in Fin!CallState /\ s.pc = "work" /\ s.pool = NoPool
  BY DEF Fin!Idle, Fin!CallState, Fin!ActivePools
<1>2. GoodCall(s)
  BY <1>1, Between
<1> HIDE DEF s
<1>3. call' = [call EXCEPT ![c] = s] /\ UNCHANGED <<Fin!mirrorVars, chain, result, faults, crashes>>
      /\ call[c].pc = "idle"
  BY DEF Fin!Deliver, Fin!Budgets, s
<1> QED
  BY <1>1, <1>2, <1>3, QuietStep DEF Fin!MarkPc, Fin!IInv, Fin!TypeOK

LEMMA FinishStep ==
    ASSUME Fin!FinalizeTypes, Fin!IInv, NEW c \in Call, Fin!Finish(c)
    PROVE  Fin!IInv'
<1>1. GoodCall(Fin!Idle) /\ Fin!Idle.pc = "idle"
  BY IdleIsGood
<1>2. call' = [call EXCEPT ![c] = Fin!Idle] /\ UNCHANGED <<Fin!mirrorVars, chain, result, faults, crashes>>
      /\ call[c].pc = "work"
  BY DEF Fin!Finish, Fin!Budgets
<1> QED
  BY <1>1, <1>2, QuietStep DEF Fin!MarkPc, Fin!IInv, Fin!TypeOK

\* The state of a call that goes on to its next pool.
Onward(c) == [call[c] EXCEPT !.pc = "work", !.pool = NoPool, !.winners = 0]

LEMMA NextPoolState ==
    ASSUME Fin!FinalizeTypes, Fin!TypeOK, NEW c \in Call
    PROVE  /\ GoodCall(Onward(c)) /\ Onward(c).pc = "work"
           /\ Fin!NextPool(c) => call' = [call EXCEPT ![c] = Onward(c)]
<1>1. call[c] \in Fin!CallState /\ call \in [Call -> Fin!CallState]
  BY DEF Fin!TypeOK
<1>2. Onward(c) \in Fin!CallState /\ Onward(c).pc = "work" /\ Onward(c).pool = NoPool
  BY <1>1 DEF Onward, Fin!CallState
<1>3. Fin!NextPool(c) => call' = [call EXCEPT ![c] = Onward(c)]
  BY <1>1 DEF Fin!NextPool, Onward
<1> QED
  BY <1>2, <1>3, Between

LEMMA RefusedStep ==
    ASSUME Fin!FinalizeTypes, Fin!IInv, NEW c \in Call, Fin!Refused(c)
    PROVE  Fin!IInv'
<1>1. call' = [call EXCEPT ![c] = Onward(c)] /\ GoodCall(Onward(c)) /\ Onward(c).pc = "work"
  BY NextPoolState DEF Fin!Refused, Fin!IInv
<1>2. UNCHANGED <<Fin!mirrorVars, chain, result, faults, crashes>>
      /\ call[c].pc \in {"lock", "cancel", "resolve"}
  BY DEF Fin!Refused, Fin!Budgets
<1> QED
  BY <1>1, <1>2, QuietStep DEF Fin!MarkPc, Fin!IInv, Fin!TypeOK

LEMMA CountWinnersStep ==
    ASSUME Fin!FinalizeTypes, Fin!IInv, NEW c \in Call, Fin!CountWinners(c)
    PROVE  Fin!IInv'
<1> DEFINE n == Fin!Cardinality(Fin!Winners(call[c].pool, result.outcome))
           s == [call[c] EXCEPT !.winners = n, !.pc = "resolve"]
<1>1. call \in [Call -> Fin!CallState] /\ call[c] \in Fin!CallState
  BY DEF Fin!IInv, Fin!TypeOK
<1>2. n \in Nat
  BY SameSizes, WinnersType
<1>3. call[c].pc = "count" /\ UNCHANGED <<Fin!mirrorVars, chain, result, faults, crashes>>
  BY DEF Fin!CountWinners, Fin!Budgets
<1>4. call' = [call EXCEPT ![c] = s]
  BY <1>1 DEF Fin!CountWinners
<1> HIDE DEF n
<1>5. s \in Fin!CallState /\ s.pc = "resolve" /\ s.pool = call[c].pool
  BY <1>1, <1>2 DEF Fin!CallState
<1>6. call[c].pool # NoPool /\ result.action # "cancel"
  BY <1>3 DEF Fin!IInv, Fin!TypeOK
<1>7. GoodCall(s)
  BY <1>5, <1>6 DEF GoodCall
<1> HIDE DEF s
<1> QED
  BY <1>3, <1>4, <1>5, <1>7, QuietStep DEF Fin!MarkPc, Fin!IInv, Fin!TypeOK

LEMMA CrashStep == ASSUME Fin!FinalizeTypes, Fin!IInv, Fin!Crash PROVE Fin!IInv'
<1>1. /\ call' = [c \in Call |-> Fin!Idle] /\ UNCHANGED <<Fin!mirrorVars, chain, result, faults>>
      /\ crashes' \in 0 .. MaxCrashes /\ MaxCrashes # 0
  BY DEF Fin!Crash, Fin!IInv, Fin!TypeOK, Fin!FinalizeTypes
<1>2. GoodCall(Fin!Idle) /\ Fin!Idle.pc = "idle"
  BY IdleIsGood
<1>3. Fin!TypeOK'
  BY <1>1, <1>2 DEF Fin!IInv, Fin!TypeOK, GoodCall, Fin!mirrorVars
<1>4. Fin!MirrorNeverAhead' /\ Fin!OutcomeOfFeed'
  BY <1>1 DEF Fin!IInv, Fin!MirrorNeverAhead, Fin!OutcomeOfFeed, Fin!mirrorVars
<1>5. Fin!MarksAreReal' /\ Fin!WholeOrMarking'
  BY <1>1, <1>2 DEF Fin!MarksAreReal, Fin!WholeOrMarking, Fin!MarkPc
<1> QED
  BY <1>3, <1>4, <1>5 DEF Fin!IInv

-----------------------------------------------------------------------------
(* A transaction lands *)

LEMMA EffectOn ==
    ASSUME Fin!FinalizeTypes, Fin!IInv, NEW c \in Call, Fin!Accepts(c), Fin!Effect(c),
           NEW p, p = call[c].pool
    PROVE  /\ p \in Pool /\ chain[p].status \in {"open", "locked"}
           /\ chain' \in [Pool -> Fin!ChainState] /\ \A q \in Pool \ {p} : chain'[q] = chain[q]
           /\ call[c].pc \in {"lock", "cancel", "resolve"}
           /\ call[c].pc = "lock" => chain'[p].status = "locked"
           /\ call[c].pc = "cancel" => chain'[p].status = "cancelled"
           /\ call[c].pc = "resolve" =>
                /\ chain'[p].status = IF call[c].winners = 0 THEN "voided" ELSE "resolved"
                /\ chain'[p].outcome = result.outcome
<1>1. Fin!TypeOK /\ chain \in [Pool -> Fin!ChainState]
  BY DEF Fin!IInv, Fin!TypeOK
<1>2. call[c].pc \in {"lock", "cancel", "resolve"} /\ chain[p].status \in {"open", "locked"}
  BY DEF Fin!Accepts
<1>3. p \in Pool /\ call[c].winners \in Nat
  BY <1>1, <1>2, CallTypes
<1>4. chain[p] \in Fin!ChainState /\ result.outcome \in Outcome
  BY <1>1, <1>3, PoolTypes
<1>5. CASE call[c].pc = "lock"
  <2>1. chain' = [chain EXCEPT ![p] = [chain[p] EXCEPT !.status = "locked"]]
    BY <1>1, <1>3, <1>5 DEF Fin!Effect
  <2>2. [chain[p] EXCEPT !.status = "locked"] \in Fin!ChainState
    BY <1>4 DEF Fin!ChainState, Fin!RecordStatus
  <2> QED
    BY <1>1, <1>2, <1>3, <1>4, <1>5, <2>1, <2>2 DEF Fin!ChainState
<1>6. CASE call[c].pc = "cancel"
  <2>1. chain' = [chain EXCEPT ![p] = [chain[p] EXCEPT !.status = "cancelled"]]
    BY <1>1, <1>3, <1>6 DEF Fin!Effect
  <2>2. [chain[p] EXCEPT !.status = "cancelled"] \in Fin!ChainState
    BY <1>4 DEF Fin!ChainState, Fin!RecordStatus
  <2> QED
    BY <1>1, <1>2, <1>3, <1>4, <1>6, <2>1, <2>2 DEF Fin!ChainState
<1>7. CASE call[c].pc = "resolve"
  <2> DEFINE r == [status |-> IF call[c].winners = 0 THEN "voided" ELSE "resolved",
                   outcome |-> result.outcome, winners |-> call[c].winners]
  <2>1. chain' = [chain EXCEPT ![p] = r]
    BY <1>1, <1>3, <1>7 DEF Fin!Effect
  <2>2. r \in Fin!ChainState
    BY <1>3, <1>4 DEF Fin!ChainState, Fin!RecordStatus
  <2> QED
    BY <1>1, <1>2, <1>3, <1>7, <2>1, <2>2
<1> QED
  BY <1>2, <1>5, <1>6, <1>7

\* A transaction of a call lands, and the call goes on to mark it or, when its
\* answer is lost, to the next pool.
LEMMA EffectStep ==
    ASSUME Fin!FinalizeTypes, Fin!IInv, NEW c \in Call, Fin!Accepts(c), Fin!Effect(c),
           NEW s, GoodCall(s),
           call' = [call EXCEPT ![c] = s], UNCHANGED <<Fin!mirrorVars, result>>,
           faults' \in 0 .. MaxFaults, crashes' \in 0 .. MaxCrashes,
           s.pc \in Fin!MarkPc => s.pool = call[c].pool /\ chain'[call[c].pool].status = s.pc,
           MaxFaults = 0 /\ chain'[call[c].pool].status \in Fin!Terminal =>
               s.pc \in Fin!MarkPc
    PROVE  Fin!IInv'
<1> DEFINE p == call[c].pool
<1>1. /\ p \in Pool /\ chain[p].status \in {"open", "locked"}
      /\ chain' \in [Pool -> Fin!ChainState] /\ \A q \in Pool \ {p} : chain'[q] = chain[q]
      /\ call[c].pc \in {"lock", "cancel", "resolve"}
      /\ chain'[p].status \in {"resolved", "voided"} => chain'[p].outcome = result.outcome
  BY EffectOn
<1>2. /\ call' \in [Call -> Fin!CallState]
      /\ \A d \in Call :
           /\ call'[d].pool = NoPool <=> call'[d].pc \in {"idle", "work"}
           /\ call'[d].pool # NoPool =>
                (call'[d].pc \in {"cancel", "cancelled"} <=> result'.action = "cancel")
      /\ call'[c] = s /\ \A d \in Call \ {c} : call'[d] = call[d]
  BY CallMoves DEF Fin!IInv
<1>3. Fin!TypeOK'
  BY <1>1, <1>2 DEF Fin!IInv, Fin!TypeOK, Fin!mirrorVars
<1>4. s.pc \in Fin!MarkPc => s.pool = p /\ chain'[p].status = s.pc
  OBVIOUS
<1>5. MaxFaults = 0 /\ chain'[p].status \in Fin!Terminal => s.pc \in Fin!MarkPc
  OBVIOUS
<1> HIDE DEF p
<1>6. Fin!MirrorNeverAhead'
  <2>1. record' = record
    BY DEF Fin!mirrorVars
  <2>2. record[p].status \notin Fin!Settled
    BY <1>1 DEF Fin!IInv, Fin!MirrorNeverAhead, Fin!Settled
  <2> QED
    BY <1>1, <2>1, <2>2 DEF Fin!IInv, Fin!MirrorNeverAhead
<1>7. Fin!OutcomeOfFeed'
  BY <1>1 DEF Fin!IInv, Fin!OutcomeOfFeed
<1>8. Fin!MarksAreReal'
  <2> SUFFICES ASSUME NEW d \in Call, call'[d].pc \in Fin!MarkPc
               PROVE  chain'[call'[d].pool].status = call'[d].pc
    BY DEF Fin!MarksAreReal
  <2>1. CASE d = c
    BY <1>2, <1>4, <2>1
  <2>2. CASE d # c
    <3>1. call'[d] = call[d] /\ chain[call[d].pool].status = call[d].pc
      BY <1>2, <2>2 DEF Fin!IInv, Fin!MarksAreReal
    <3>2. call[d].pool \in Pool /\ call[d].pool # p
      BY <1>1, <3>1, CallTypes DEF Fin!IInv, Fin!MarkPc
    <3> QED
      BY <1>1, <3>1, <3>2
  <2> QED
    BY <2>1, <2>2
<1>9. Fin!WholeOrMarking'
  <2> SUFFICES ASSUME MaxFaults = 0, MaxCrashes = 0, NEW q \in Pool,
                      chain'[q].status \in Fin!Terminal
               PROVE  Fin!Whole(q)' \/ \E d \in Call : call'[d].pc \in Fin!MarkPc /\ call'[d].pool = q
    BY DEF Fin!WholeOrMarking
  <2>1. CASE q = p
    BY <1>2, <1>4, <1>5, <2>1
  <2>2. CASE q # p
    <3>1. chain'[q] = chain[q] /\ Fin!Whole(q)' = Fin!Whole(q)
      BY <1>1, <2>2 DEF Fin!Whole, Fin!Pickers, Fin!mirrorVars
    <3>2. Fin!Whole(q) \/ \E d \in Call : call[d].pc \in Fin!MarkPc /\ call[d].pool = q
      BY <3>1 DEF Fin!IInv, Fin!WholeOrMarking
    <3>3. call[c].pc \notin Fin!MarkPc
      BY <1>1 DEF Fin!MarkPc
    <3> QED
      BY <1>2, <3>1, <3>2, <3>3
  <2> QED
    BY <2>1, <2>2
<1> QED
  BY <1>3, <1>6, <1>7, <1>8, <1>9 DEF Fin!IInv

LEMMA ConfirmedStep ==
    ASSUME Fin!FinalizeTypes, Fin!IInv, NEW c \in Call, Fin!Confirmed(c)
    PROVE  Fin!IInv'
<1> DEFINE pc == CASE call[c].pc = "lock" -> "count"
                   [] call[c].pc = "cancel" -> "cancelled"
                   [] call[c].pc = "resolve" -> IF call[c].winners = 0 THEN "voided" ELSE "resolved"
           s == [call[c] EXCEPT !.pc = pc]
<1>1. Fin!Accepts(c) /\ Fin!Effect(c) /\ UNCHANGED <<Fin!mirrorVars, result, faults, crashes>>
  BY DEF Fin!Confirmed, Fin!Budgets
<1>2. call \in [Call -> Fin!CallState] /\ call[c] \in Fin!CallState
  BY DEF Fin!IInv, Fin!TypeOK
<1>3. call' = [call EXCEPT ![c] = s]
  BY <1>2 DEF Fin!Confirmed, Fin!Step
<1>4. call[c].pc \in {"lock", "cancel", "resolve"}
  BY <1>1 DEF Fin!Accepts
<1>5. /\ call[c].pc = "lock" => pc = "count"
      /\ call[c].pc = "cancel" => pc = "cancelled"
      /\ call[c].pc = "resolve" => pc = IF call[c].winners = 0 THEN "voided" ELSE "resolved"
      /\ pc \in {"count"} \cup Fin!MarkPc
  BY <1>4 DEF Fin!MarkPc
<1> HIDE DEF pc
<1>6. s \in Fin!CallState /\ s.pc = pc /\ s.pool = call[c].pool
  BY <1>2, <1>5 DEF Fin!CallState
<1>7. call[c].pool # NoPool
      /\ (call[c].pc \in {"cancel", "cancelled"} <=> result.action = "cancel")
  BY <1>4 DEF Fin!IInv, Fin!TypeOK
<1>8. GoodCall(s)
  BY <1>4, <1>5, <1>6, <1>7 DEF GoodCall, Fin!MarkPc
<1>9. /\ pc \in Fin!MarkPc => chain'[call[c].pool].status = pc
      /\ chain'[call[c].pool].status \in Fin!Terminal => pc \in Fin!MarkPc
  BY <1>1, <1>4, <1>5, EffectOn DEF Fin!MarkPc, Fin!Terminal
<1>10. faults' \in 0 .. MaxFaults /\ crashes' \in 0 .. MaxCrashes
  BY <1>1 DEF Fin!IInv, Fin!TypeOK
<1> HIDE DEF s
<1> QED
  BY <1>1, <1>3, <1>6, <1>8, <1>9, <1>10, EffectStep

LEMMA FailsStep ==
    ASSUME Fin!FinalizeTypes, Fin!IInv, NEW c \in Call, Fin!Fails(c)
    PROVE  Fin!IInv'
<1>1. /\ faults' \in 0 .. MaxFaults /\ MaxFaults # 0
      /\ crashes' \in 0 .. MaxCrashes /\ UNCHANGED <<Fin!mirrorVars, result, crashes>>
  BY DEF Fin!Fails, Fin!IInv, Fin!TypeOK, Fin!FinalizeTypes
<1>2. Fin!TypeOK /\ call \in [Call -> Fin!CallState] /\ call[c] \in Fin!CallState
  BY DEF Fin!IInv, Fin!TypeOK
<1>3. GoodCall(Onward(c)) /\ Onward(c).pc = "work" /\ Onward(c).pc \notin Fin!MarkPc
  BY <1>2, NextPoolState DEF Fin!MarkPc
<1>4. ASSUME call[c].pc = "work", UNCHANGED chain,
             NEW p \in call[c].todo, call' = [call EXCEPT ![c].todo = @ \ {p}]
      PROVE  Fin!IInv'
  <2> DEFINE s == [call[c] EXCEPT !.todo = @ \ {p}]
  <2>1. s \in Fin!CallState /\ s.pc = "work" /\ s.pool = call[c].pool
    BY <1>2, <1>4 DEF Fin!CallState
  <2>2. call' = [call EXCEPT ![c] = s] /\ call[c].pool = NoPool
    BY <1>2, <1>4 DEF Fin!TypeOK
  <2> HIDE DEF s
  <2>3. GoodCall(s)
    BY <2>1, <2>2, Between
  <2> QED
    BY <1>1, <1>4, <2>1, <2>2, <2>3, QuietStep DEF Fin!MarkPc
<1>5. ASSUME Fin!NextPool(c), UNCHANGED chain PROVE Fin!IInv'
  BY <1>1, <1>2, <1>3, <1>5, NextPoolState, QuietStep
<1>6. ASSUME Fin!Accepts(c), Fin!Effect(c), Fin!NextPool(c) PROVE Fin!IInv'
  <2>1. call' = [call EXCEPT ![c] = Onward(c)]
    BY <1>2, <1>6, NextPoolState
  <2> QED
    BY <1>1, <1>3, <1>6, <2>1, EffectStep
<1> QED
  BY <1>4, <1>5, <1>6 DEF Fin!Fails

-----------------------------------------------------------------------------
(* The mirror is written *)

\* One pool's record and picks are written, and say what is so on the chain; a
\* call that was to mark that pool has done so.
LEMMA MirrorStep ==
    ASSUME Fin!FinalizeTypes, Fin!IInv, NEW c \in Call, NEW s, GoodCall(s),
           s.pc \notin Fin!MarkPc,
           call' = [call EXCEPT ![c] = s], UNCHANGED <<chain, result, faults, crashes>>,
           NEW p \in Pool,
           record' \in [Pool -> Fin!Record(Terms, Outcome)],
           pick' \in [Pool -> [Member -> {Fin!NoPick} \cup Fin!Pick(Outcome)]],
           \A q \in Pool \ {p} : record'[q] = record[q] /\ pick'[q] = pick[q],
           record'[p].status \in Fin!Settled => record'[p].status = chain[p].status,
           \/ call[c].pc \in Fin!MarkPc /\ call[c].pool = p /\ Fin!Whole(p)'
           \/ call[c].pc \notin Fin!MarkPc /\ (Fin!Whole(p) => Fin!Whole(p)')
    PROVE  Fin!IInv'
<1>1. /\ call' \in [Call -> Fin!CallState]
      /\ \A d \in Call :
           /\ call'[d].pool = NoPool <=> call'[d].pc \in {"idle", "work"}
           /\ call'[d].pool # NoPool =>
                (call'[d].pc \in {"cancel", "cancelled"} <=> result'.action = "cancel")
      /\ call'[c] = s /\ \A d \in Call \ {c} : call'[d] = call[d]
  BY CallMoves DEF Fin!IInv
<1>2. Fin!TypeOK'
  BY <1>1 DEF Fin!IInv, Fin!TypeOK
<1>3. Fin!MirrorNeverAhead' /\ Fin!OutcomeOfFeed'
  BY DEF Fin!IInv, Fin!MirrorNeverAhead, Fin!OutcomeOfFeed
<1>4. Fin!MarksAreReal'
  BY <1>1 DEF Fin!IInv, Fin!MarksAreReal
<1>5. \A q \in Pool \ {p} : Fin!Whole(q)' = Fin!Whole(q)
  BY DEF Fin!Whole, Fin!Pickers
<1>6. Fin!WholeOrMarking'
  <2> SUFFICES ASSUME MaxFaults = 0, MaxCrashes = 0, NEW q \in Pool,
                      chain[q].status \in Fin!Terminal
               PROVE  Fin!Whole(q)' \/ \E d \in Call : call'[d].pc \in Fin!MarkPc /\ call'[d].pool = q
    BY DEF Fin!WholeOrMarking
  <2>1. Fin!Whole(q) \/ \E d \in Call : call[d].pc \in Fin!MarkPc /\ call[d].pool = q
    BY DEF Fin!IInv, Fin!WholeOrMarking
  <2>2. CASE q = p
    BY <1>1, <2>1, <2>2
  <2>3. CASE q # p
    BY <1>1, <1>5, <2>1, <2>3
  <2> QED
    BY <2>2, <2>3
<1> QED
  BY <1>2, <1>3, <1>4, <1>6 DEF Fin!IInv

\* updateEntryStatuses leaves no pick without a verdict.
LEMMA EntitledCount ==
    ASSUME Fin!TypeOK, NEW p \in Pool, NEW verdict, Fin!SettlePicks(p, verdict),
           \A m \in Fin!Pickers(p) : verdict[m] \in {"won", "lost", "refunded"}
    PROVE  /\ pick' \in [Pool -> [Member -> {Fin!NoPick} \cup Fin!Pick(Outcome)]]
           /\ \A q \in Pool \ {p} : pick'[q] = pick[q]
           /\ \A m \in Member : pick'[p][m].status # "active"
<1> DEFINE settled(m) == IF pick[p][m].status = "active"
                         THEN [pick[p][m] EXCEPT !.status = verdict[m]]
                         ELSE pick[p][m]
<1>1. pick \in [Pool -> [Member -> {Fin!NoPick} \cup Fin!Pick(Outcome)]]
  BY DEF Fin!TypeOK
<1>2. pick' = [pick EXCEPT ![p] = [m \in Member |-> settled(m)]]
  BY DEF Fin!SettlePicks
<1>3. ASSUME NEW m \in Member
      PROVE  settled(m) \in {Fin!NoPick} \cup Fin!Pick(Outcome) /\ settled(m).status # "active"
  <2>1. pick[p][m] \in {Fin!NoPick} \cup Fin!Pick(Outcome)
    BY <1>1
  <2>2. CASE pick[p][m].status = "active"
    <3>1. pick[p][m] # Fin!NoPick
      BY <2>2 DEF Fin!NoPick
    <3>2. pick[p][m] \in Fin!Pick(Outcome) /\ verdict[m] \in {"won", "lost", "refunded"}
      BY <2>1, <3>1 DEF Fin!Pickers
    <3>3. [pick[p][m] EXCEPT !.status = verdict[m]] \in Fin!Pick(Outcome)
          /\ [pick[p][m] EXCEPT !.status = verdict[m]].status = verdict[m]
      BY <3>2 DEF Fin!Pick, Fin!PickStatus
    <3> QED
      BY <2>2, <3>2, <3>3
  <2>3. CASE pick[p][m].status # "active"
    BY <2>1, <2>3
  <2> QED
    BY <2>2, <2>3
<1> HIDE DEF settled
<1> QED
  BY <1>1, <1>2, <1>3

\* A record with another status, outcome, winners or share.
LEMMA RecordWritten ==
    ASSUME Fin!TypeOK, NEW p \in Pool, NEW r \in Fin!Record(Terms, Outcome),
           record' = [record EXCEPT ![p] = r]
    PROVE  /\ record' \in [Pool -> Fin!Record(Terms, Outcome)]
           /\ record'[p] = r /\ \A q \in Pool \ {p} : record'[q] = record[q]
BY DEF Fin!TypeOK

LEMMA MarkStep ==
    ASSUME Fin!FinalizeTypes, Fin!IInv, NEW c \in Call, Fin!Mark(c)
    PROVE  Fin!IInv'
<1>1. Fin!TypeOK /\ UNCHANGED <<chain, result, faults, crashes>> /\ call[c].pc \in Fin!MarkPc
  BY DEF Fin!IInv, Fin!Mark, Fin!Budgets, Fin!MarkPc
<1>2. PICK p \in Pool : p = call[c].pool
  BY <1>1, CallTypes DEF Fin!MarkPc
<1>3. chain[p].status = call[c].pc /\ call[c].winners \in Nat
  BY <1>2, <1>1, CallTypes DEF Fin!IInv, Fin!MarksAreReal
<1>4. /\ record[p] \in Fin!Record(Terms, Outcome) /\ record \in [Pool -> Fin!Record(Terms, Outcome)]
      /\ \E w \in Outcome : w = result.outcome
  BY <1>1, PoolTypes DEF Fin!TypeOK
<1>5. PICK w \in Outcome : w = result.outcome
  BY <1>4
<1>6. chain[p].status \in {"resolved", "voided"} => chain[p].outcome = w
  BY <1>5 DEF Fin!IInv, Fin!OutcomeOfFeed
<1>7. /\ call' = [call EXCEPT ![c] = Onward(c)]
      /\ GoodCall(Onward(c)) /\ Onward(c).pc \notin Fin!MarkPc
  BY <1>1, NextPoolState DEF Fin!Mark, Fin!MarkPc
<1> DEFINE Fits(r) ==
             /\ r \in Fin!Record(Terms, Outcome) /\ r.status = call[c].pc
             /\ r.status = "resolved" => r.winningOutcome = w
             /\ record' = [record EXCEPT ![p] = r]
<1>8. ASSUME NEW r, Fits(r), NEW verdict, Fin!SettlePicks(p, verdict),
             \A m \in Fin!Pickers(p) : verdict[m] \in {"won", "lost", "refunded"}
      PROVE  Fin!IInv'
  <2>1. /\ record' \in [Pool -> Fin!Record(Terms, Outcome)]
        /\ record'[p] = r /\ \A q \in Pool \ {p} : record'[q] = record[q]
    BY <1>1, <1>3, <1>8, RecordWritten
  <2>2. /\ pick' \in [Pool -> [Member -> {Fin!NoPick} \cup Fin!Pick(Outcome)]]
        /\ \A q \in Pool \ {p} : pick'[q] = pick[q]
        /\ \A m \in Member : pick'[p][m].status # "active"
    BY <1>1, <1>3, <1>8, EntitledCount
  <2>3. r.status = chain[p].status
    BY <1>3, <1>8
  <2>4. Fin!Whole(p)'
    BY <1>1, <1>6, <1>8, <2>1, <2>2, <2>3 DEF Fin!Whole, Fin!Pickers
  <2> QED
    BY <1>2, <1>1, <1>7, <2>1, <2>2, <2>3, <2>4, MirrorStep
<1>9. ASSUME call[c].pc = "cancelled", Fin!MarkCancelled(p) PROVE Fin!IInv'
  <2> DEFINE r == [record[p] EXCEPT !.status = "cancelled"]
  <2>1. Fits(r)
    <3>1. record' = [record EXCEPT ![p] = r]
      BY <1>4, <1>9 DEF Fin!MarkCancelled
    <3> QED
      BY <1>4, <1>9, <3>1 DEF Fin!Record, Fin!RecordStatus
  <2>2. Fin!SettlePicks(p, Fin!Refunds) /\ \A m \in Fin!Pickers(p) : Fin!Refunds[m] = "refunded"
    BY <1>9 DEF Fin!MarkCancelled, Fin!Refunds, Fin!Pickers
  <2> HIDE DEF r, Fits
  <2> QED
    BY <1>8, <2>1, <2>2
<1>10. ASSUME call[c].pc = "voided", Fin!MarkVoided(p, w) PROVE Fin!IInv'
  <2> DEFINE r == [record[p] EXCEPT !.status = "voided", !.winningOutcome = w, !.winnerCount = 0]
  <2>1. Fits(r)
    <3>1. record' = [record EXCEPT ![p] = r]
      BY <1>4, <1>10 DEF Fin!MarkVoided
    <3> QED
      BY <1>4, <1>10, <3>1 DEF Fin!Record, Fin!RecordStatus
  <2>2. Fin!SettlePicks(p, Fin!Refunds) /\ \A m \in Fin!Pickers(p) : Fin!Refunds[m] = "refunded"
    BY <1>10 DEF Fin!MarkVoided, Fin!Refunds, Fin!Pickers
  <2> HIDE DEF r, Fits
  <2> QED
    BY <1>8, <2>1, <2>2
<1>11. ASSUME call[c].pc = "resolved", Fin!MarkResolved(p, w, call[c].winners, 1)
       PROVE  Fin!IInv'
  <2> DEFINE r == [record[p] EXCEPT !.status = "resolved", !.winningOutcome = w,
                                    !.winnerCount = call[c].winners, !.shareAmount = 1]
             verdict == [m \in Fin!Pickers(p) |-> IF pick[p][m].prediction = w THEN "won" ELSE "lost"]
  <2>1. Fits(r)
    <3>1. record' = [record EXCEPT ![p] = r]
      BY <1>4, <1>11 DEF Fin!MarkResolved
    <3> QED
      BY <1>3, <1>4, <1>11, <3>1 DEF Fin!Record, Fin!RecordStatus
  <2>2. Fin!SettlePicks(p, verdict) /\ \A m \in Fin!Pickers(p) : verdict[m] \in {"won", "lost"}
    BY <1>11 DEF Fin!MarkResolved
  <2> HIDE DEF r, Fits, verdict
  <2> QED
    BY <1>8, <2>1, <2>2
<1> QED
  BY <1>2, <1>9, <1>10, <1>11, <1>5 DEF Fin!Mark

LEMMA FetchStatusStep ==
    ASSUME Fin!FinalizeTypes, Fin!IInv, NEW c \in Call, NEW p \in Pool,
           Fin!FetchStatus(c, p)
    PROVE  Fin!IInv'
<1> DEFINE next == Fin!AfterStatus(chain[p].status)
           s == [call[c] EXCEPT !.todo = call[c].todo \ {p}, !.pc = next,
                                !.pool = IF next = "work" THEN NoPool ELSE p]
<1>1. Fin!TypeOK /\ UNCHANGED <<chain, result, faults, crashes>> /\ call[c].pc = "work"
  BY DEF Fin!IInv, Fin!FetchStatus, Fin!Budgets
<1>2. call[c] \in Fin!CallState /\ call \in [Call -> Fin!CallState]
  BY <1>1 DEF Fin!TypeOK
<1>3. call' = [call EXCEPT ![c] = s]
  BY <1>2 DEF Fin!FetchStatus
<1>4. /\ next \in {"work", "cancel", "lock", "count"}
      /\ next # "work" => (next = "cancel" <=> result.action = "cancel")
      /\ chain[p].status \in Fin!Terminal => next = "work"
  BY DEF Fin!AfterStatus
<1> HIDE DEF next
<1>5. s \in Fin!CallState /\ s.pc = next /\ s.pool = IF next = "work" THEN NoPool ELSE p
  BY <1>2, <1>4 DEF Fin!CallState
<1> HIDE DEF s
<1>6. GoodCall(s) /\ s.pc \notin Fin!MarkPc /\ call[c].pc \notin Fin!MarkPc
  BY <1>1, <1>4, <1>5 DEF GoodCall, Fin!MarkPc, Fin!FinalizeTypes
<1>7. CASE chain[p].status \in Fin!Terminal
  <2> DEFINE r == [record[p] EXCEPT !.status = chain[p].status]
  <2>1. record \in [Pool -> Fin!Record(Terms, Outcome)] /\ record[p] \in Fin!Record(Terms, Outcome)
        /\ pick \in [Pool -> [Member -> {Fin!NoPick} \cup Fin!Pick(Outcome)]]
        /\ chain[p].status \in Fin!RecordStatus
    BY <1>1, PoolTypes DEF Fin!TypeOK
  <2>2. record' = [record EXCEPT ![p] = r] /\ pick' = pick
    BY <1>7, <2>1 DEF Fin!FetchStatus, Fin!Reconcile, Fin!SyncTerminal
  <2>3. r \in Fin!Record(Terms, Outcome) /\ r.status = chain[p].status
        /\ r.winningOutcome = record[p].winningOutcome
    BY <2>1 DEF Fin!Record
  <2> HIDE DEF r
  <2>4. /\ record' \in [Pool -> Fin!Record(Terms, Outcome)]
        /\ record'[p] = r /\ \A q \in Pool \ {p} : record'[q] = record[q]
    BY <1>1, <2>2, <2>3, RecordWritten
  <2>5. Fin!Whole(p) => Fin!Whole(p)'
    BY <1>1, <2>2, <2>3, <2>4 DEF Fin!Whole, Fin!Pickers
  <2> QED
    BY <1>1, <1>3, <1>6, <2>1, <2>2, <2>3, <2>4, <2>5, MirrorStep
<1>8. CASE chain[p].status \notin Fin!Terminal
  <2>1. UNCHANGED Fin!mirrorVars
    BY <1>8 DEF Fin!FetchStatus, Fin!Reconcile
  <2>2. faults' \in 0 .. MaxFaults /\ crashes' \in 0 .. MaxCrashes
    BY <1>1 DEF Fin!TypeOK
  <2> QED
    BY <1>1, <1>3, <1>6, <2>1, <2>2, QuietStep
<1> QED
  BY <1>7, <1>8

-----------------------------------------------------------------------------
(* The theorems *)

LEMMA FinalizeInitially == Fin!FinalizeTypes /\ Fin!Init => Fin!IInv
<1> SUFFICES ASSUME Fin!FinalizeTypes, Fin!Init PROVE Fin!IInv
  OBVIOUS
<1>1. PICK host \in Member, terms \in Terms :
        record = [p \in Pool |-> [Fin!NewRecord(host, terms) EXCEPT !.onChain = TRUE]]
  BY DEF Fin!Init
<1> DEFINE r == [Fin!NewRecord(host, terms) EXCEPT !.onChain = TRUE]
           ch == [status |-> "open", outcome |-> Fin!NoOutcome, winners |-> 0]
<1>2. r \in Fin!Record(Terms, Outcome) /\ r.status = "open"
  BY DEF Fin!NewRecord, Fin!Record, Fin!RecordStatus
<1>3. ch \in Fin!ChainState /\ ch.status = "open"
  BY DEF Fin!ChainState, Fin!RecordStatus
<1>4. Fin!Idle \in Fin!CallState /\ Fin!Idle.pc = "idle" /\ Fin!Idle.pool = NoPool
  BY DEF Fin!Idle, Fin!CallState
<1> HIDE DEF r, ch
<1>5. /\ record = [p \in Pool |-> r] /\ chain = [p \in Pool |-> ch]
      /\ call = [c \in Call |-> Fin!Idle] /\ faults = 0 /\ crashes = 0
      /\ result \in [action : {"resolve", "cancel"}, outcome : Outcome]
  BY <1>1 DEF Fin!Init, r, ch
<1>6. pick \in [Pool -> [Member -> {Fin!NoPick} \cup Fin!Pick(Outcome)]]
  <2>1. [status : {"active"}, prediction : Outcome, paid : BOOLEAN] \subseteq Fin!Pick(Outcome)
    BY DEF Fin!Pick, Fin!PickStatus
  <2>2. pick \in [Pool -> [Member -> {Fin!NoPick} \cup [status : {"active"}, prediction : Outcome, paid : BOOLEAN]]]
    BY DEF Fin!Init
  <2> QED
    BY <2>1, <2>2
<1>7. Fin!TypeOK
  BY <1>2, <1>3, <1>4, <1>5, <1>6 DEF Fin!TypeOK, Fin!FinalizeTypes
<1>8. Fin!MirrorNeverAhead /\ Fin!MarksAreReal /\ Fin!OutcomeOfFeed /\ Fin!WholeOrMarking
  BY <1>2, <1>3, <1>4, <1>5
  DEF Fin!MirrorNeverAhead, Fin!MarksAreReal, Fin!OutcomeOfFeed, Fin!WholeOrMarking, Fin!Settled, Fin!MarkPc, Fin!Terminal
<1> QED
  BY <1>7, <1>8 DEF Fin!IInv

LEMMA FinalizeConsecution == Fin!FinalizeTypes /\ Fin!IInv /\ [Fin!Next]_Fin!vars => Fin!IInv'
<1> SUFFICES ASSUME Fin!FinalizeTypes, Fin!IInv, [Fin!Next]_Fin!vars PROVE Fin!IInv'
  OBVIOUS
<1>1. ASSUME NEW c \in Call, Fin!CallSteps(c) PROVE Fin!IInv'
  BY <1>1, FinishStep, CountWinnersStep, ConfirmedStep, RefusedStep, MarkStep,
     FetchStatusStep
  DEF Fin!CallSteps
<1>2. ASSUME NEW c \in Call, Fin!Deliver(c) \/ Fin!Fails(c) PROVE Fin!IInv'
  BY <1>2, DeliverStep, FailsStep
<1>3. CASE Fin!Crash
  BY <1>3, CrashStep
<1>4. CASE UNCHANGED Fin!vars
  <2>1. /\ Fin!TypeOK' = Fin!TypeOK /\ Fin!MirrorNeverAhead' = Fin!MirrorNeverAhead
        /\ Fin!MarksAreReal' = Fin!MarksAreReal /\ Fin!OutcomeOfFeed' = Fin!OutcomeOfFeed
        /\ \A p : Fin!Whole(p)' = Fin!Whole(p)
    BY <1>4
       DEF Fin!vars, Fin!TypeOK, Fin!MirrorNeverAhead, Fin!MarksAreReal,
           Fin!OutcomeOfFeed, Fin!Whole, Fin!Pickers
  <2>2. Fin!WholeOrMarking' = Fin!WholeOrMarking
    BY <1>4, <2>1 DEF Fin!vars, Fin!WholeOrMarking
  <2> QED
    BY <2>1, <2>2 DEF Fin!IInv
<1> QED
  BY <1>1, <1>2, <1>3, <1>4 DEF Fin!Next

\* In every state the calls that are about to mark a pool have its status on the
\* chain, and what has ended there is marked or about to be.
THEOREM FinalizeInvariance == ASSUME Fin!FinalizeTypes PROVE Fin!Spec => []Fin!IInv
<1> QED
  BY FinalizeInitially, FinalizeConsecution, PTL DEF Fin!Spec

\* When no call runs a pool that the mirror calls settled has its verdicts.
LEMMA WholeWhenIdle ==
    ASSUME Fin!IInv, MaxFaults = 0, MaxCrashes = 0
    PROVE  Fin!NothingPartial
<1> SUFFICES ASSUME \A c \in Call : call[c].pc = "idle", NEW p \in Pool,
                    record[p].status \in Fin!Settled
             PROVE  /\ \A m \in Fin!Pickers(p) : pick[p][m].status # "active"
                    /\ record[p].status = "resolved" => record[p].winningOutcome = chain[p].outcome
  BY DEF Fin!NothingPartial
<1>1. chain[p].status \in Fin!Terminal
  BY TerminalIsSettled DEF Fin!IInv, Fin!MirrorNeverAhead
<1>2. Fin!Whole(p)
  BY <1>1 DEF Fin!IInv, Fin!WholeOrMarking, Fin!MarkPc
<1> QED
  BY <1>2 DEF Fin!Whole

\* The mirror never calls a pool settled that the chain does not, however calls,
\* failures and crashes interleave; and without failures no partial state is left
\* (resolveWorker.ts:118).
THEOREM AlwaysWhole == ASSUME Fin!FinalizeTypes PROVE Fin!Spec => []Fin!FinalizeWhole
<1>1. Fin!IInv => Fin!FinalizeWhole
  BY WholeWhenIdle DEF Fin!IInv, Fin!FinalizeWhole
<1> QED
  BY <1>1, FinalizeInvariance, PTL

=============================================================================
