-------------------------- MODULE MatchFeedProofs --------------------------
(***************************************************************************)
(* Proofs about a match, as the server settles it and as a page shows it.  *)
(* They share no state, and each theorem is about one of them:             *)
(*                                                                         *)
(*  - the settlement (MatchFeed): for a match of any length and any rows,  *)
(*    what the stream and the sweep decide is the score of the two halves  *)
(*    of a match that is over;                                             *)
(*  - the live pitch (LiveStage): whatever its rows lack and whatever is   *)
(*    lost, no goal is shown that was not scored; if the rows are whole,   *)
(*    and come one after another and in time, what pops up is the last     *)
(*    goals, and full time is claimed with the goals of the match.         *)
(***************************************************************************)
EXTENDS MatchFeed, SequenceTheorems, WellFoundedInduction, TLAPS

CONSTANTS MaxScore, RowShape, MayDisallow, MayMiss, MayRunLate, MaxLate \* of LiveStage
VARIABLES
    match, scorers, half, secondHalf, over, homeFirst,                  \* of LiveStage
    queue, score, snapshot, prev, pops                                  \* of LiveStage

Stage == INSTANCE LiveStage WITH MaxGoals <- MaxScore, goals <- match

-----------------------------------------------------------------------------
(* The latest row *)

LEMMA Smallest ==
    ASSUME NEW S \in SUBSET Nat, S # {}
    PROVE  \E x \in S : \A y \in S : x <= y
<1> DEFINE R == {ss \in Nat \X Nat : ss[1] < ss[2]}
<1>1. IsWellFoundedOn(R, Nat)
  BY NatLessThanWellFounded DEF OpToRel
<1>2. \E x \in S : \A y \in S : ~(<<y, x>> \in R)
  <2> HIDE DEF R
  <2> QED
    BY <1>1, WFMin
<1>3. \A x, y \in Nat : ~(<<y, x>> \in R) => x <= y
  OBVIOUS
<1> QED
  BY <1>2, <1>3

LEMMA Largest ==
    ASSUME NEW n \in Nat, NEW S \in SUBSET (1 .. n), S # {}
    PROVE  Max(S) \in S
<1> DEFINE T == {m \in Nat : n - m \in S}
<1>1. T \in SUBSET Nat /\ \A y \in S : n - y \in T
  OBVIOUS
<1> HIDE DEF T
<1>2. PICK t \in T : \A u \in T : t <= u
  BY <1>1, Smallest
<1>3. n - t \in S /\ t \in Nat
  BY <1>2 DEF T
<1>4. \A y \in S : n - t >= y
  <2> TAKE y \in S
  <2>1. t <= n - y
    BY <1>1, <1>2
  <2> QED
    BY <2>1, <1>3
<1>5. \E x \in S : \A y \in S : x >= y
  BY <1>3, <1>4
<1> QED
  BY <1>5 DEF Max

\* The sweep reads a row that the feed has sent.
LEMMA LatestIsARow ==
    ASSUME NEW S, NEW seq \in Seq(S), seq # <<>>
    PROVE  \E i \in DOMAIN seq : LatestRow(seq) = seq[i]
<1> DEFINE W == {i \in DOMAIN seq : HasGoals(seq[i])}
           I == IF W # {} THEN W ELSE DOMAIN seq
<1>1. DOMAIN seq = 1 .. Len(seq) /\ Len(seq) \in Nat /\ DOMAIN seq # {}
  OBVIOUS
<1>2. I \in SUBSET (1 .. Len(seq)) /\ I # {}
  BY <1>1
<1>3. Max(I) \in I
  <2> HIDE DEF I
  <2> QED
    BY <1>1, <1>2, Largest
<1>4. LatestRow(seq) = seq[Max(I)]
  BY DEF LatestRow
<1> QED
  BY <1>1, <1>2, <1>3, <1>4

-----------------------------------------------------------------------------
(* Rows *)

LEMMA BlockTypes ==
    ASSUME NEW block \in GoalsOfBlock, NEW f \in DOMAIN block
    PROVE  DOMAIN block \subseteq Field /\ block[f] \in 0 .. 3 * MaxGoals
BY DEF GoalsOfBlock

LEMMA FieldType ==
    ASSUME TypeOK, NEW s \in Side, NEW f \in Field
    PROVE  FieldValue(s, f) \in 0 .. 3 * MaxGoals
<1>1. \A p \in Period : goals[s][p] \in 0 .. MaxGoals
  BY DEF TypeOK
<1>2. goals[s]["H1"] \in 0 .. MaxGoals /\ goals[s]["H2"] \in 0 .. MaxGoals
      /\ goals[s]["ET"] \in 0 .. MaxGoals
  BY <1>1 DEF Period
<1> QED
  BY <1>2, FeedTypes DEF FieldValue, Field

LEMMA RowType ==
    ASSUME TypeOK, NEW shape \in Shape, NEW says \in Flag
    PROVE  /\ Row(shape, says) \in FeedRow
           /\ Row(shape, says).state = phase
           /\ \A s \in Side : \A f \in DOMAIN Row(shape, says).goals[s] :
                  Row(shape, says).goals[s][f] = FieldValue(s, f)
           /\ says => Row(shape, says).flag = IF p1IsHome THEN "home" ELSE "away"
<1> DEFINE G == [s \in Side |-> [f \in shape[s] |-> FieldValue(s, f)]]
<1>1. \A s \in Side : shape[s] \in SUBSET Field
  BY FeedTypes
<1>2. ASSUME NEW s \in Side PROVE G[s] \in GoalsOfBlock
  <2>1. G[s] \in [shape[s] -> 0 .. 3 * MaxGoals]
    BY <1>1, FieldType
  <2> QED
    BY <2>1, <1>1 DEF GoalsOfBlock
<1>3. G \in [Side -> GoalsOfBlock]
  BY <1>2
<1>4. \A s \in Side : \A f \in DOMAIN G[s] : G[s][f] = FieldValue(s, f)
  OBVIOUS
<1>5. Row(shape, says).goals = G
  BY DEF Row
<1>6. phase \in Phase /\ p1IsHome \in BOOLEAN
  BY DEF TypeOK
<1> HIDE DEF G
<1>7. Row(shape, says) = [state |-> phase, goals |-> G, flag |-> Row(shape, says).flag]
  BY <1>5 DEF Row
<1>8. Row(shape, says).flag \in {NoFlag, "home", "away"}
      /\ (says => Row(shape, says).flag = IF p1IsHome THEN "home" ELSE "away")
  BY <1>6, FeedTypes DEF Row
<1> QED
  BY <1>3, <1>4, <1>5, <1>6, <1>7, <1>8 DEF FeedRow

\* A row whose goals are those of the match.
Truthful(row) ==
    \A s \in Side : \A f \in DOMAIN row.goals[s] : row.goals[s][f] = FieldValue(s, f)

LEMMA RowParts ==
    ASSUME NEW row \in FeedRow, NEW s \in Side
    PROVE  /\ row.state \in Phase /\ row.flag \in {NoFlag, "home", "away"}
           /\ row.goals[s] \in GoalsOfBlock
BY DEF FeedRow

\* The fields of the two halves, and the total.
LEMMA Halves ==
    ASSUME TypeOK, NEW s \in Side
    PROVE  /\ goals[s]["H1"] \in Nat /\ goals[s]["H2"] \in Nat /\ goals[s]["ET"] \in Nat
           /\ FieldValue(s, "H1") = goals[s]["H1"] /\ FieldValue(s, "H2") = goals[s]["H2"]
           /\ FieldValue(s, "Total") = goals[s]["H1"] + goals[s]["H2"] + goals[s]["ET"]
<1>1. \A p \in Period : goals[s][p] \in 0 .. MaxGoals
  BY DEF TypeOK
<1>2. goals[s]["H1"] \in 0 .. MaxGoals /\ goals[s]["H2"] \in 0 .. MaxGoals
      /\ goals[s]["ET"] \in 0 .. MaxGoals
  BY <1>1 DEF Period
<1> QED
  BY <1>2, FeedTypes DEF FieldValue

\* What the stream makes of the goals of a participant.
LEMMA StreamGoals ==
    ASSUME TypeOK, NEW row \in FeedRow, Truthful(row), NEW s \in Side,
           {"H1", "H2"} \subseteq DOMAIN row.goals[s]
    PROVE  ParticipantGoals(row.goals[s]) = goals[s]["H1"] + goals[s]["H2"]
<1>1. row.goals[s]["H1"] = goals[s]["H1"] /\ row.goals[s]["H2"] = goals[s]["H2"]
  BY Halves DEF Truthful
<1> QED
  BY <1>1 DEF ParticipantGoals, FieldOr

LEMMA StreamScore ==
    ASSUME TypeOK, NEW row \in FeedRow, Truthful(row),
           row.flag = IF p1IsHome THEN "home" ELSE "away",
           \A s \in Side : {"H1", "H2"} \subseteq DOMAIN row.goals[s]
    PROVE  ScoreFromRow(row) = NinetyMinutes /\ ScoreFromRow(row) # NoScore
<1> DEFINE h(s) == goals[s]["H1"] + goals[s]["H2"]
<1>1. \A s \in Side : ParticipantGoals(row.goals[s]) = h(s) /\ h(s) \in Nat
  BY StreamGoals, Halves
<1>2. "P1" \in Side /\ "P2" \in Side
  BY DEF Side
<1>3. ParticipantGoals(row.goals["P1"]) = h("P1") /\ ParticipantGoals(row.goals["P2"]) = h("P2")
      /\ h("P1") \in Nat /\ h("P2") \in Nat
  BY <1>1, <1>2
<1>4. (row.flag # "away") <=> p1IsHome
  BY DEF TypeOK
<1>5. NinetyMinutes = HomeFirst(h("P1"), h("P2"), p1IsHome)
  BY DEF NinetyMinutes
<1> HIDE DEF h
<1>6. ScoreFromRow(row) = HomeFirst(h("P1"), h("P2"), row.flag # "away")
  BY <1>3 DEF ScoreFromRow
<1> QED
  BY <1>3, <1>4, <1>5, <1>6 DEF HomeFirst, NoScore, TypeOK

\* A row that carries nothing of a participant has no score for the stream.
LEMMA NoGoalsNoScore ==
    ASSUME NEW row, NEW s \in Side, DOMAIN row.goals[s] = {}
    PROVE  ScoreFromRow(row) = NoScore
<1>1. ParticipantGoals(row.goals[s]) = -1
  BY DEF ParticipantGoals, FieldOr
<1> QED
  BY <1>1 DEF ScoreFromRow, Side

\* What the snapshot makes of a participant with a total.
LEMMA SnapshotGoals ==
    ASSUME TypeOK, NEW row \in FeedRow, Truthful(row), NEW s \in Side, Complete(row),
           goals[s]["ET"] = 0
    PROVE  /\ ExtractParticipantGoals(row.goals[s]) = goals[s]["H1"] + goals[s]["H2"]
           /\ ExtractParticipantGoals(row.goals[s]) \in Nat
<1>1. "Total" \in DOMAIN row.goals[s]
  BY DEF Complete, Field
<1>2. row.goals[s]["Total"] = goals[s]["H1"] + goals[s]["H2"] + goals[s]["ET"]
  BY <1>1, Halves DEF Truthful
<1> QED
  BY <1>1, <1>2, Halves DEF ExtractParticipantGoals, FieldOr

-----------------------------------------------------------------------------
(* Decisions *)

LEMMA StreamDecides ==
    ASSUME NEW row \in FeedRow
    PROVE  /\ StreamDecision(row).action \in {"none", "resolve", "cancel"}
           /\ StreamDecision(row).action # "none" => row.state \in Over \cup CalledOff
           /\ StreamDecision(row).action = "resolve" =>
                /\ row.state \in Over
                /\ StreamDecision(row).score = ScoreFromRow(row) /\ ScoreFromRow(row) # NoScore
<1> DEFINE a == PhaseAction(PhaseCodeFromScoreRow(row))
<1>1. row.state \in Phase
  BY DEF FeedRow
<1>2. DOMAIN GAME_STATE_PHASE = {"F", "FET", "FPE", "I", "A", "C", "TXCC", "TXCS", "P"}
  BY DEF GAME_STATE_PHASE
<1>3. /\ a \in {"none", "resolve", "cancel", "hold"}
      /\ a = "resolve" => row.state \in Over
      /\ a = "cancel" => row.state \in CalledOff
  BY <1>1, <1>2 DEF PhaseAction, PhaseCodeFromScoreRow, GAME_STATE_PHASE, Phase, Over, CalledOff, Held
<1> HIDE DEF a
<1>4. StreamDecision(row) =
          IF a = "cancel" THEN [action |-> "cancel", score |-> NoScore]
          ELSE IF a = "resolve" /\ ScoreFromRow(row) # NoScore
               THEN [action |-> "resolve", score |-> ScoreFromRow(row)]
               ELSE [action |-> "none", score |-> NoScore]
  BY DEF StreamDecision, a
<1> QED
  BY <1>3, <1>4

\* The fixture the sweep decides on.
SweptFixture == FixtureFromSnapshot(rows, p1IsHome, elapsed)

\* Before the clock is taken for the final whistle the sweep decides on a row
\* that says the match is over or called off.
LEMMA SweepReads ==
    ASSUME TypeOK, SweptFixture.status = "finished", elapsed < 4
    PROVE  \E i \in DOMAIN rows : LatestRow(rows) = rows[i] /\ rows[i].state \in FINISHED_STATES
<1>1. elapsed \in Int /\ rows \in Seq(FeedRow)
  BY FeedTypes DEF TypeOK
<1>2. "" \notin FINISHED_STATES /\ "" \notin LIVE_STATES /\ "" \notin {"NS", "P"}
  BY DEF FINISHED_STATES, LIVE_STATES
<1>3. rows # <<>>
  <2> SUFFICES ASSUME rows = <<>> PROVE FALSE
    OBVIOUS
  <2>1. SweptFixture.status = DeriveStatus("", FALSE, elapsed)
    BY DEF SweptFixture, FixtureFromSnapshot
  <2>2. DeriveStatus("", FALSE, elapsed) = IF elapsed < 0 THEN "scheduled" ELSE "live"
    <3>1. ~(elapsed >= 5 \/ ("" \in {"NS", "P"} /\ FALSE /\ elapsed >= 4))
      BY <1>1
    <3> QED
      BY <1>2, <3>1, Zenon DEF DeriveStatus
  <2> QED
    BY <2>1, <2>2
<1>4. PICK i \in DOMAIN rows : LatestRow(rows) = rows[i]
  BY <1>1, <1>3, LatestIsARow
<1>5. SweptFixture.status = DeriveStatus(rows[i].state, HasGoals(rows[i]), elapsed)
  BY <1>3, <1>4 DEF SweptFixture, FixtureFromSnapshot
<1>6. rows[i].state \in FINISHED_STATES
  BY <1>1, <1>5 DEF DeriveStatus
<1> QED
  BY <1>4, <1>6

LEMMA SweepDecides ==
    /\ SweepDecision(SweptFixture).action \in {"none", "resolve"}
    /\ SweepDecision(SweptFixture).action = "resolve" =>
         /\ SweptFixture.status = "finished"
         /\ SweepDecision(SweptFixture).score = SweptFixture.score
BY DEF SweepDecision

\* The score of a latest row that is complete.
LEMMA SweptScore ==
    ASSUME TypeOK, NEW i \in DOMAIN rows, LatestRow(rows) = rows[i],
           Truthful(rows[i]), Complete(rows[i]), \A s \in Side : goals[s]["ET"] = 0
    PROVE  SweptFixture.score = NinetyMinutes
<1> DEFINE h(s) == goals[s]["H1"] + goals[s]["H2"]
           latest == rows[i]
<1>1. rows \in Seq(FeedRow) /\ latest \in FeedRow /\ rows # <<>>
  BY DEF TypeOK
<1>2. \A s \in Side : ExtractParticipantGoals(latest.goals[s]) = h(s) /\ h(s) \in Nat
  BY <1>1, SnapshotGoals
<1>3. ExtractParticipantGoals(latest.goals["P1"]) = h("P1")
      /\ ExtractParticipantGoals(latest.goals["P2"]) = h("P2")
      /\ h("P1") # -1 /\ h("P2") # -1
  BY <1>2 DEF Side
<1>4. NinetyMinutes = HomeFirst(h("P1"), h("P2"), p1IsHome)
  BY DEF NinetyMinutes
<1> HIDE DEF h
<1> QED
  BY <1>1, <1>3, <1>4 DEF SweptFixture, FixtureFromSnapshot

-----------------------------------------------------------------------------
(* The inductive invariant *)

LEMMA FinishedIsFinal ==
    FINISHED_STATES \subseteq Over \cup CalledOff
BY DEF FINISHED_STATES, Over, CalledOff

LEMMA Initially == Init => IInv
<1> SUFFICES ASSUME Init PROVE IInv
  OBVIOUS
<1> USE DEF Init
<1>1. TypeOK
  BY FeedTypes DEF TypeOK, Phase, Undecided
<1>2. FinalRowsTrue /\ FlagsTrue
  BY DEF FinalRowsTrue, FlagsTrue
<1>3. ExtraGoalsInExtraTime
  BY DEF ExtraGoalsInExtraTime, Period
<1>4. StreamSettlesOnNinetyMinutes
  BY DEF StreamSettlesOnNinetyMinutes, Undecided
<1> QED
  BY <1>1, <1>2, <1>3, <1>4 DEF IInv

\* The match goes on only from a phase in which it is neither over nor called off.
LEMMA MatchGoesOn ==
    ASSUME TypeOK, \/ \E next \in Phase : Advance(next)
                   \/ \E s \in Side : Goal(s)
    PROVE  phase \notin Over \cup CalledOff
<1>1. ASSUME NEW next \in Phase, Advance(next) PROVE phase \notin Over \cup CalledOff
  BY <1>1 DEF Advance, Over, CalledOff, Held
<1>2. ASSUME NEW s \in Side, Goal(s) PROVE phase \notin Over \cup CalledOff
  BY <1>2 DEF Goal, Over, CalledOff
<1> QED
  BY <1>1, <1>2

\* A step of the match, before it is over: its rows and the decision stay.
LEMMA MatchStep ==
    ASSUME IInv, phase \notin Over \cup CalledOff, TypeOK',
           UNCHANGED <<rows, p1IsHome, decision>>, ExtraGoalsInExtraTime'
    PROVE  IInv'
<1>1. FinalRowsTrue'
  <2>1. \A i \in DOMAIN rows : rows[i].state \notin Over \cup CalledOff
    BY DEF IInv, FinalRowsTrue
  <2> QED
    BY <2>1 DEF FinalRowsTrue, Over, CalledOff
<1>2. SidesSaid => FlagsTrue'
  BY DEF IInv, FlagsTrue
<1>3. SidesSaid /\ HalvesSaid => StreamSettlesOnNinetyMinutes'
  BY DEF IInv, StreamSettlesOnNinetyMinutes, Over
<1> QED
  BY <1>1, <1>2, <1>3 DEF IInv, SidesSaid, HalvesSaid

LEMMA TickStep == ASSUME IInv, Tick PROVE IInv'
<1> USE DEF Tick
<1>1. TypeOK'
  BY FeedTypes DEF IInv, TypeOK
<1>2. NinetyMinutes' = NinetyMinutes /\ \A s, f : FieldValue(s, f)' = FieldValue(s, f)
  BY DEF NinetyMinutes, FieldValue
<1>3. FinalRowsTrue'
  BY <1>2 DEF IInv, FinalRowsTrue
<1>4. (SidesSaid => FlagsTrue') /\ ExtraGoalsInExtraTime'
  BY DEF IInv, FlagsTrue, ExtraGoalsInExtraTime
<1>5. SidesSaid /\ HalvesSaid => StreamSettlesOnNinetyMinutes'
  BY <1>2 DEF IInv, StreamSettlesOnNinetyMinutes
<1> QED
  BY <1>1, <1>3, <1>4, <1>5 DEF IInv, SidesSaid, HalvesSaid

LEMMA AdvanceStep == ASSUME IInv, NEW next \in Phase, Advance(next) PROVE IInv'
<1>1. UNCHANGED <<goals, rows, p1IsHome, elapsed, decision>> /\ phase' = next
  BY DEF Advance
<1>2. TypeOK'
  BY <1>1 DEF IInv, TypeOK
<1>3. next \notin {"ET1", "PE", "FET", "FPE"} => phase \notin {"ET1", "PE", "FET", "FPE"}
  BY DEF Advance, Held, CalledOff
<1>4. ExtraGoalsInExtraTime'
  BY <1>1, <1>3 DEF IInv, ExtraGoalsInExtraTime
<1> QED
  BY <1>1, <1>2, <1>4, MatchGoesOn, MatchStep DEF IInv

LEMMA GoalStep == ASSUME IInv, NEW s \in Side, Goal(s) PROVE IInv'
<1> DEFINE p == IF phase = "ET1" THEN "ET" ELSE phase
<1>1. /\ UNCHANGED <<phase, rows, p1IsHome, elapsed, decision>>
      /\ phase \in {"H1", "H2", "ET1"} /\ goals[s][p] < MaxGoals
      /\ goals' = [goals EXCEPT ![s][p] = @ + 1]
  BY DEF Goal
<1>2. p \in Period /\ (phase # "ET1" => p # "ET")
  BY <1>1 DEF Period
<1>3. goals \in [Side -> [Period -> 0 .. MaxGoals]]
  BY DEF IInv, TypeOK
<1> HIDE DEF p
<1>4. goals[s][p] \in 0 .. MaxGoals /\ goals[s][p] + 1 \in 0 .. MaxGoals
  BY <1>1, <1>2, <1>3, FeedTypes
<1>5. goals' \in [Side -> [Period -> 0 .. MaxGoals]]
  BY <1>1, <1>2, <1>3, <1>4
<1>6. TypeOK'
  BY <1>1, <1>5 DEF IInv, TypeOK
<1>7. phase # "ET1" => \A t \in Side : goals'[t]["ET"] = goals[t]["ET"]
  BY <1>1, <1>2, <1>3 DEF Period
<1>8. ExtraGoalsInExtraTime'
  BY <1>1, <1>7 DEF IInv, ExtraGoalsInExtraTime
<1> QED
  BY <1>1, <1>6, <1>8, MatchGoesOn, MatchStep DEF IInv

\* A row that is published says what is so: whatever becomes of the decision,
\* the rows stay true.
LEMMA PublishedRow ==
    ASSUME IInv, NEW shape \in Shape, NEW says \in Flag,
           Len(rows) < MaxRows, rows' = Append(rows, Row(shape, says)),
           UNCHANGED <<phase, goals, p1IsHome, elapsed>>
    PROVE  /\ rows' \in Seq(FeedRow) /\ Len(rows') <= MaxRows
           /\ FinalRowsTrue' /\ ExtraGoalsInExtraTime' /\ (SidesSaid => FlagsTrue')
<1> DEFINE row == Row(shape, says)
<1>1. /\ row \in FeedRow /\ row.state = phase
      /\ \A s \in Side : \A f \in DOMAIN row.goals[s] : row.goals[s][f] = FieldValue(s, f)
      /\ says => row.flag = IF p1IsHome THEN "home" ELSE "away"
  BY RowType DEF IInv
<1> HIDE DEF row
<1>2. rows \in Seq(FeedRow) /\ rows' = Append(rows, row)
  BY DEF IInv, TypeOK, row
<1>3. rows' \in Seq(FeedRow) /\ Len(rows') <= MaxRows
  BY <1>1, <1>2, FeedTypes
<1>4. \A i \in DOMAIN rows' : (i \in DOMAIN rows /\ rows'[i] = rows[i]) \/ rows'[i] = row
  BY <1>1, <1>2
<1>5. \A s, f : FieldValue(s, f)' = FieldValue(s, f)
  BY DEF FieldValue
<1>6. FinalRowsTrue'
  <2> SUFFICES ASSUME NEW i \in DOMAIN rows', rows'[i].state \in Over \cup CalledOff
               PROVE  /\ rows'[i].state = phase
                      /\ \A s \in Side : \A f \in DOMAIN rows'[i].goals[s] :
                             rows'[i].goals[s][f] = FieldValue(s, f)
    BY <1>5 DEF FinalRowsTrue
  <2>1. ASSUME i \in DOMAIN rows, rows'[i] = rows[i]
        PROVE  /\ rows'[i].state = phase
               /\ \A s \in Side : \A f \in DOMAIN rows'[i].goals[s] :
                      rows'[i].goals[s][f] = FieldValue(s, f)
    BY <2>1 DEF IInv, FinalRowsTrue
  <2> QED
    BY <2>1, <1>1, <1>4
<1>7. ExtraGoalsInExtraTime'
  BY DEF IInv, ExtraGoalsInExtraTime
<1>8. SidesSaid => FlagsTrue'
  <2> SUFFICES ASSUME SidesSaid, NEW i \in DOMAIN rows'
               PROVE  rows'[i].flag = IF p1IsHome THEN "home" ELSE "away"
    BY DEF FlagsTrue
  <2>1. says
    BY DEF SidesSaid
  <2>2. \A j \in DOMAIN rows : rows[j].flag = IF p1IsHome THEN "home" ELSE "away"
    BY DEF IInv, FlagsTrue
  <2> QED
    BY <2>1, <2>2, <1>1, <1>4
<1> QED
  BY <1>3, <1>6, <1>7, <1>8

\* What the stream resolves is resolved on a row of a match that is over.
LEMMA StreamResolves ==
    ASSUME TypeOK, SidesSaid, HalvesSaid, NEW shape \in Shape, NEW says \in Flag,
           StreamDecision(Row(shape, says)).action = "resolve"
    PROVE  phase \in Over /\ StreamDecision(Row(shape, says)).score = NinetyMinutes
<1> DEFINE row == Row(shape, says)
<1>1. /\ row \in FeedRow /\ row.state = phase /\ Truthful(row)
      /\ row.flag = IF p1IsHome THEN "home" ELSE "away"
  BY RowType DEF SidesSaid, Truthful
<1>2. \A s \in Side : DOMAIN row.goals[s] = shape[s]
  BY DEF Row
<1> HIDE DEF row
<1>3. row.state \in Over /\ StreamDecision(row).score = ScoreFromRow(row)
      /\ ScoreFromRow(row) # NoScore
  BY <1>1, StreamDecides DEF row
<1>4. \A s \in Side : shape[s] # {}
  BY <1>2, <1>3, NoGoalsNoScore
<1>5. \A s \in Side : {"H1", "H2"} \subseteq DOMAIN row.goals[s]
  BY <1>2, <1>4 DEF HalvesSaid
<1>6. ScoreFromRow(row) = NinetyMinutes
  BY <1>1, <1>5, StreamScore
<1> QED
  BY <1>1, <1>3, <1>6 DEF row

LEMMA PublishStep ==
    ASSUME IInv, NEW shape \in Shape, NEW says \in Flag, Publish(Row(shape, says))
    PROVE  IInv'
<1>1. /\ Len(rows) < MaxRows /\ rows' = Append(rows, Row(shape, says))
      /\ UNCHANGED <<phase, goals, p1IsHome, elapsed, decision>>
  BY DEF Publish
<1>2. /\ rows' \in Seq(FeedRow) /\ Len(rows') <= MaxRows
      /\ FinalRowsTrue' /\ ExtraGoalsInExtraTime' /\ (SidesSaid => FlagsTrue')
  BY <1>1, PublishedRow
<1>3. TypeOK'
  BY <1>1, <1>2 DEF IInv, TypeOK
<1>4. SidesSaid /\ HalvesSaid => StreamSettlesOnNinetyMinutes'
  BY <1>1 DEF IInv, StreamSettlesOnNinetyMinutes, NinetyMinutes
<1> QED
  BY <1>2, <1>3, <1>4 DEF IInv, SidesSaid, HalvesSaid

LEMMA PushStep ==
    ASSUME IInv, NEW shape \in Shape, NEW says \in Flag, Push(Row(shape, says))
    PROVE  IInv'
<1> DEFINE d == StreamDecision(Row(shape, says))
<1>1. /\ Len(rows) < MaxRows /\ rows' = Append(rows, Row(shape, says))
      /\ UNCHANGED <<phase, goals, p1IsHome, elapsed>>
      /\ decision' = decision \/ decision' = [by |-> "stream", action |-> d.action, score |-> d.score]
  BY DEF Push, Settle
<1>2. /\ rows' \in Seq(FeedRow) /\ Len(rows') <= MaxRows
      /\ FinalRowsTrue' /\ ExtraGoalsInExtraTime' /\ (SidesSaid => FlagsTrue')
  BY <1>1, PublishedRow
<1>3. d.action \in {"none", "resolve", "cancel"}
  BY RowType, StreamDecides DEF IInv
<1> HIDE DEF d
<1>4. TypeOK'
  BY <1>1, <1>2, <1>3 DEF IInv, TypeOK
<1>5. ASSUME SidesSaid, HalvesSaid PROVE StreamSettlesOnNinetyMinutes'
  <2>1. NinetyMinutes' = NinetyMinutes
    BY <1>1 DEF NinetyMinutes
  <2>2. d.action = "resolve" => phase \in Over /\ d.score = NinetyMinutes
    BY <1>5, StreamResolves DEF IInv, d
  <2> QED
    BY <1>1, <1>5, <2>1, <2>2 DEF IInv, StreamSettlesOnNinetyMinutes
<1> QED
  BY <1>2, <1>4, <1>5 DEF IInv, SidesSaid, HalvesSaid

LEMMA SweepStep == ASSUME IInv, Sweep PROVE IInv'
<1> DEFINE d == SweepDecision(SweptFixture)
<1>1. /\ UNCHANGED <<phase, goals, p1IsHome, rows, elapsed>>
      /\ decision' = decision \/ decision' = [by |-> "sweep", action |-> d.action, score |-> d.score]
  BY DEF Sweep, Settle, SweptFixture
<1>2. d.action \in {"none", "resolve"}
  BY SweepDecides
<1> HIDE DEF d
<1>3. TypeOK'
  BY <1>1, <1>2 DEF IInv, TypeOK
<1>4. \A s, f : FieldValue(s, f)' = FieldValue(s, f)
  BY <1>1 DEF FieldValue
<1>5. FinalRowsTrue' /\ ExtraGoalsInExtraTime' /\ (SidesSaid => FlagsTrue')
  BY <1>1, <1>4 DEF IInv, FinalRowsTrue, ExtraGoalsInExtraTime, FlagsTrue
<1>6. SidesSaid /\ HalvesSaid => StreamSettlesOnNinetyMinutes'
  BY <1>1 DEF IInv, StreamSettlesOnNinetyMinutes, NinetyMinutes
<1> QED
  BY <1>3, <1>5, <1>6 DEF IInv, SidesSaid, HalvesSaid

LEMMA Phases == {"H1", "H2", "ET1", "PE"} \cup Over \cup Held \cup CalledOff \subseteq Phase
BY DEF Phase

LEMMA Consecution == IInv /\ [Next]_vars => IInv'
<1> SUFFICES ASSUME IInv, [Next]_vars PROVE IInv'
  OBVIOUS
<1>1. CASE Tick
  BY <1>1, TickStep
<1>2. CASE \E next \in {"H1", "H2", "ET1", "PE"} \cup Over \cup Held \cup CalledOff : Advance(next)
  BY <1>2, AdvanceStep, Phases
<1>3. CASE \E s \in Side : Goal(s)
  BY <1>3, GoalStep
<1>4. CASE PublishOrPush
  BY <1>4, PublishStep, PushStep DEF PublishOrPush
<1>5. CASE Sweep
  BY <1>5, SweepStep
<1>6. CASE UNCHANGED vars
  <2>1. /\ TypeOK' = TypeOK /\ FinalRowsTrue' = FinalRowsTrue /\ FlagsTrue' = FlagsTrue
        /\ ExtraGoalsInExtraTime' = ExtraGoalsInExtraTime
        /\ StreamSettlesOnNinetyMinutes' = StreamSettlesOnNinetyMinutes
    BY <1>6 DEF vars, TypeOK, FinalRowsTrue, FlagsTrue, ExtraGoalsInExtraTime,
                StreamSettlesOnNinetyMinutes, FieldValue, NinetyMinutes
  <2> QED
    BY <2>1, Zenon DEF IInv, SidesSaid, HalvesSaid
<1> QED
  BY <1>1, <1>2, <1>3, <1>4, <1>5, <1>6 DEF Next

\* In every state the rows of a finished match are true, and the stream has
\* resolved nothing but the ninety minutes of a match that is over.
THEOREM Invariance == Spec => []IInv
<1> QED
  BY Initially, Consecution, PTL DEF Spec

-----------------------------------------------------------------------------
(* Both readers agree *)

LEMMA ReadersAgree == IInv /\ SidesSaid => PathsAgree
<1> SUFFICES ASSUME IInv, SidesSaid, NEW i \in 1 .. Len(rows),
                    rows[i].state = "F", Complete(rows[i]), LatestRow(rows) = rows[i]
             PROVE  SweptFixture = [status |-> "finished", score |-> ScoreFromRow(rows[i])]
  BY DEF PathsAgree, SweptFixture
<1>1. TypeOK /\ i \in DOMAIN rows /\ rows[i] \in FeedRow /\ rows # <<>>
  BY DEF IInv, TypeOK
<1>2. phase = "F" /\ Truthful(rows[i])
  BY <1>1 DEF IInv, FinalRowsTrue, Over, Truthful
<1>3. rows[i].flag = IF p1IsHome THEN "home" ELSE "away"
  BY <1>1 DEF IInv, FlagsTrue
<1>4. \A s \in Side : goals[s]["ET"] = 0 /\ {"H1", "H2"} \subseteq DOMAIN rows[i].goals[s]
  BY <1>2 DEF IInv, ExtraGoalsInExtraTime, Complete, Field
<1>5. SweptFixture.score = NinetyMinutes
  BY <1>1, <1>2, <1>4, SweptScore
<1>6. ScoreFromRow(rows[i]) = NinetyMinutes
  BY <1>1, <1>2, <1>3, <1>4, StreamScore
<1>7. DeriveStatus(rows[i].state, HasGoals(rows[i]), elapsed) = "finished"
  BY DEF DeriveStatus, FINISHED_STATES
<1>8. SweptFixture = [status |-> "finished", score |-> SweptFixture.score]
  BY <1>1, <1>7 DEF SweptFixture, FixtureFromSnapshot
<1> QED
  BY <1>5, <1>6, <1>8

\* When every row says which side is at home, and has the goals of both halves or
\* none: both readers settle a finished match alike, and the stream settles on the
\* goals of ninety minutes (worker.ts: participantGoals).
THEOREM DecisionsAlwaysSound ==
    ASSUME SidesSaid, HalvesSaid
    PROVE  Spec => []DecisionsSound
<1>1. IInv => DecisionsSound
  BY ReadersAgree DEF IInv, DecisionsSound
<1> QED
  BY <1>1, Invariance, PTL

-----------------------------------------------------------------------------
(* At the end of a match *)

\* What decides a match in a step.
LEMMA Decided ==
    ASSUME IInv, [Next]_vars, decision' # decision
    PROVE  /\ UNCHANGED <<phase, goals, p1IsHome, elapsed>>
           /\ \/ \E shape \in Shape, says \in Flag :
                    /\ rows' = Append(rows, Row(shape, says))
                    /\ StreamDecision(Row(shape, says)).action # "none"
                    /\ decision' = [by |-> "stream",
                                    action |-> StreamDecision(Row(shape, says)).action,
                                    score |-> StreamDecision(Row(shape, says)).score]
              \/ /\ SweptFixture.status = "finished" /\ rows' = rows
                 /\ decision' = [by |-> "sweep", action |-> "resolve", score |-> SweptFixture.score]
<1>1. ASSUME NEW shape \in Shape, NEW says \in Flag, Push(Row(shape, says))
      PROVE  /\ UNCHANGED <<phase, goals, p1IsHome, elapsed>>
             /\ rows' = Append(rows, Row(shape, says))
             /\ StreamDecision(Row(shape, says)).action # "none"
             /\ decision' = [by |-> "stream",
                             action |-> StreamDecision(Row(shape, says)).action,
                             score |-> StreamDecision(Row(shape, says)).score]
  BY <1>1 DEF Push, Settle
<1>2. ASSUME Sweep
      PROVE  /\ UNCHANGED <<phase, goals, p1IsHome, elapsed>>
             /\ SweptFixture.status = "finished" /\ rows' = rows
             /\ decision' = [by |-> "sweep", action |-> "resolve", score |-> SweptFixture.score]
  BY <1>2, SweepDecides DEF Sweep, Settle, SweptFixture
<1>3. \/ \E shape \in Shape, says \in Flag : Push(Row(shape, says))
      \/ Sweep
  BY DEF Next, vars, Tick, Advance, Goal, PublishOrPush, Publish
<1> QED
  BY <1>1, <1>2, <1>3

LEMMA NothingBeforeTheEnd ==
    ASSUME IInv, [Next]_vars, decision' # decision, ~ByTheClock
    PROVE  phase \in Over \cup CalledOff
<1>1. CASE \E shape \in Shape, says \in Flag : StreamDecision(Row(shape, says)).action # "none"
  <2>1. PICK shape \in Shape, says \in Flag : StreamDecision(Row(shape, says)).action # "none"
    BY <1>1
  <2>2. TypeOK
    BY DEF IInv
  <2>3. Row(shape, says) \in FeedRow /\ Row(shape, says).state = phase
    BY <2>2, RowType
  <2> QED
    BY <2>1, <2>3, StreamDecides
<1>2. CASE SweptFixture.status = "finished" /\ decision'.by = "sweep"
  <2>1. TypeOK /\ elapsed \in Int /\ elapsed < 4
    BY <1>2, FeedTypes DEF IInv, TypeOK, ByTheClock
  <2>2. PICK i \in DOMAIN rows : rows[i].state \in FINISHED_STATES
    BY <1>2, <2>1, SweepReads
  <2> QED
    BY <2>2, FinishedIsFinal DEF IInv, FinalRowsTrue
<1> QED
  BY <1>1, <1>2, Decided

LEMMA RegulationScore ==
    ASSUME IInv, SidesSaid, [Next]_vars, decision' # decision, decision'.action = "resolve",
           phase = "F", ~ByTheClock, \A i \in 1 .. Len(rows') : Complete(rows'[i])
    PROVE  decision'.score = NinetyMinutes
<1>1. TypeOK /\ rows \in Seq(FeedRow) /\ \A s \in Side : goals[s]["ET"] = 0
  BY DEF IInv, TypeOK, ExtraGoalsInExtraTime
<1>2. ASSUME NEW shape \in Shape, NEW says \in Flag,
             rows' = Append(rows, Row(shape, says)),
             decision' = [by |-> "stream",
                          action |-> StreamDecision(Row(shape, says)).action,
                          score |-> StreamDecision(Row(shape, says)).score]
      PROVE  decision'.score = NinetyMinutes
  <2> DEFINE row == Row(shape, says)
  <2>1. /\ row \in FeedRow /\ Truthful(row)
        /\ row.flag = IF p1IsHome THEN "home" ELSE "away"
    BY <1>1, RowType DEF SidesSaid, Truthful
  <2> HIDE DEF row
  <2>2. rows' = Append(rows, row)
    BY <1>2 DEF row
  <2>3. Len(rows') \in 1 .. Len(rows') /\ rows'[Len(rows')] = row
    BY <1>1, <2>1, <2>2
  <2>4. \A s \in Side : {"H1", "H2"} \subseteq DOMAIN row.goals[s]
    BY <2>3 DEF Complete, Field
  <2>5. StreamDecision(row).score = ScoreFromRow(row)
    BY <1>2, <2>1, StreamDecides DEF row
  <2> QED
    BY <1>1, <1>2, <2>1, <2>4, <2>5, StreamScore DEF row
<1>3. ASSUME SweptFixture.status = "finished", rows' = rows,
             decision' = [by |-> "sweep", action |-> "resolve", score |-> SweptFixture.score]
      PROVE  decision'.score = NinetyMinutes
  <2>1. elapsed \in Int /\ elapsed < 4
    BY <1>1, <1>3, FeedTypes DEF TypeOK, ByTheClock
  <2>2. PICK i \in DOMAIN rows : LatestRow(rows) = rows[i] /\ rows[i].state \in FINISHED_STATES
    BY <1>1, <1>3, <2>1, SweepReads
  <2>3. Truthful(rows[i])
    BY <2>2, FinishedIsFinal DEF IInv, FinalRowsTrue, Truthful
  <2>4. Complete(rows[i])
    BY <1>1, <1>3
  <2> QED
    BY <1>1, <1>3, <2>2, <2>3, <2>4, SweptScore
<1> QED
  BY <1>2, <1>3, Decided

\* When every row says which side is at home: neither reader settles a match that
\* is not over or called off, but by the clock, whatever the rows lack; and without
\* extra time and with complete rows both settle it on the goals of ninety minutes.
THEOREM AlwaysAtFullTime ==
    ASSUME SidesSaid
    PROVE  Spec => SettledAtFullTime
<1>1. IInv /\ [Next]_vars =>
        [decision' # decision /\ ~ByTheClock => phase \in Over \cup CalledOff]_vars
  BY NothingBeforeTheEnd
<1>2. IInv /\ [Next]_vars =>
        [decision' # decision /\ decision'.action = "resolve" /\ phase = "F"
           /\ ~ByTheClock /\ (\A i \in 1 .. Len(rows') : Complete(rows'[i])) =>
             decision'.score = NinetyMinutes]_vars
  BY RegulationScore
<1> QED
  BY <1>1, <1>2, Invariance, PTL DEF Spec, SettledAtFullTime, RegulationSettles, NotBeforeTheEnd

-----------------------------------------------------------------------------
(* The live pitch: scores *)

Pop == [side : Stage!Side, score : [Stage!Side -> Nat]]

LEMMA ScoreParts ==
    ASSUME NEW g \in [Stage!Side -> Nat]
    PROVE  /\ g.home \in Nat /\ g.away \in Nat /\ Stage!Full(g)
           /\ [home |-> g.home, away |-> g.away] = g
BY DEF Stage!Side, Stage!Full, Stage!null

LEMMA PrevParts ==
    ASSUME Stage!TypeOK
    PROVE  /\ prev = [home |-> prev.home, away |-> prev.away]
           /\ prev.home \in Nat \cup {Stage!null} /\ prev.away \in Nat \cup {Stage!null}
BY DEF Stage!TypeOK, Stage!Side

\* What a row of any shape says of a side is none of its goals, or some, or all.
LEMMA SaidParts ==
    ASSUME Stage!LiveStageTypes, NEW shape \in RowShape,
           NEW g \in [Stage!Side -> Nat], NEW h \in [Stage!Side -> Nat],
           \A side \in Stage!Side : h[side] <= g[side]
    PROVE  /\ Stage!Said(shape, g, h) \in [Stage!Side -> Nat \cup {Stage!null}]
           /\ \A side \in Stage!Side : Stage!Said(shape, g, h)[side] <= g[side]
           /\ Stage!CompleteRows => Stage!Said(shape, g, h) = g
<1>1. \A side \in Stage!Side :
         /\ Stage!Reading(shape[side], g[side], h[side]) \in Nat \cup {Stage!null}
         /\ Stage!Reading(shape[side], g[side], h[side]) <= g[side]
  BY DEF Stage!Reading, Stage!null
<1>2. Stage!CompleteRows => \A side \in Stage!Side : Stage!Reading(shape[side], g[side], h[side]) = g[side]
  BY DEF Stage!CompleteRows, Stage!Reading
<1>3. g = [side \in Stage!Side |-> g[side]]
  OBVIOUS
<1> QED
  BY <1>1, <1>2, <1>3 DEF Stage!Said

\* A score of which something may be missing.
Partial == [Stage!Side -> Nat \cup {Stage!null}]

\* The goals of a row, by side.
Sides(row, first) ==
    [home |-> IF first THEN row.p1 ELSE row.p2, away |-> IF first THEN row.p2 ELSE row.p1]

LEMMA RowSides ==
    ASSUME homeFirst \in BOOLEAN, NEW g \in Partial, NEW final \in BOOLEAN
    PROVE  /\ Stage!RowOf(g, final) \in Stage!Row /\ Stage!RowOf(g, final).final = final
           /\ Sides(Stage!RowOf(g, final), homeFirst).home = g.home
           /\ Sides(Stage!RowOf(g, final), homeFirst).away = g.away
<1>1. g.home \in Nat \cup {Stage!null} /\ g.away \in Nat \cup {Stage!null}
  BY DEF Partial, Stage!Side
<1> QED
  BY <1>1 DEF Stage!RowOf, Stage!Row, Sides

\* A row of a score shows that score, whatever was polled.
LEMMA RowShows ==
    ASSUME homeFirst \in BOOLEAN, NEW g \in [Stage!Side -> Nat], NEW final, NEW fixture
    PROVE  Stage!Shown(Stage!RowOf(g, final), fixture) = g
<1>1. g.home \in Nat /\ g.away \in Nat /\ [home |-> g.home, away |-> g.away] = g
  BY ScoreParts
<1>2. \A x \in Nat : \A y : Stage!Or(x, y) = x
  BY DEF Stage!Or, Stage!null
<1> QED
  BY <1>1, <1>2 DEF Stage!Shown, Stage!RowOf

\* Without a row what was polled is shown.
LEMMA PollShows ==
    ASSUME NEW fixture
    PROVE  Stage!Shown(Stage!NoRow, fixture)
             = [home |-> fixture.home, away |-> fixture.away]
BY DEF Stage!Shown, Stage!NoRow, Stage!Or

\* What is on the screen is from a row or from what was polled.
LEMMA ShownParts ==
    ASSUME NEW row \in Stage!Row, NEW fixture \in [home : Nat \cup {Stage!null},
                                                   away : Nat \cup {Stage!null}, finished : BOOLEAN]
    PROVE  /\ Stage!Shown(row, fixture).home \in Nat \cup {Stage!null}
           /\ Stage!Shown(row, fixture).away \in Nat \cup {Stage!null}
           /\ Stage!Shown(row, fixture) = [home |-> Stage!Shown(row, fixture).home,
                                           away |-> Stage!Shown(row, fixture).away]
           /\ Stage!Shown(row, fixture).home \in {Sides(row, homeFirst).home, fixture.home}
           /\ Stage!Shown(row, fixture).away \in {Sides(row, homeFirst).away, fixture.away}
BY DEF Stage!Shown, Stage!Or, Stage!Row, Sides

LEMMA ScreenIsPrev == ASSUME Stage!IInv, Stage!Full(Stage!OnScreen) PROVE Stage!OnScreen = prev
<1>1. Stage!TypeOK /\ homeFirst \in BOOLEAN
  BY DEF Stage!IInv, Stage!TypeOK
<1>2. CASE score = Stage!NoRow
  <2>1. Stage!OnScreen = [home |-> snapshot.home, away |-> snapshot.away]
    BY <1>2, PollShows DEF Stage!OnScreen
  <2>2. snapshot.home = prev.home /\ snapshot.away = prev.away
    <3>1. snapshot.home # Stage!null
      BY <2>1 DEF Stage!Full
    <3>2. score = Stage!RowOf(prev, TRUE) \/ score = Stage!RowOf(prev, FALSE) => ~Stage!Full(prev)
      BY <1>1, <1>2, PrevParts DEF Stage!RowOf, Stage!NoRow, Stage!Full
    <3> QED
      BY <1>2, <3>1, <3>2 DEF Stage!IInv, Stage!SourcesAgree
  <2> QED
    BY <1>1, <2>1, <2>2, PrevParts
<1>3. CASE Stage!Full(prev) /\ \E final \in BOOLEAN : score = Stage!RowOf(prev, final)
  BY <1>1, <1>3, RowShows DEF Stage!OnScreen, Stage!IInv, Stage!OneBehind
<1> QED
  BY <1>2, <1>3 DEF Stage!IInv, Stage!SourcesAgree

-----------------------------------------------------------------------------
(* The live pitch: pops *)

LEMMA KeepThreeOf ==
    ASSUME NEW S, NEW s \in Seq(S)
    PROVE  /\ Stage!KeepThree(s) \in Seq(S) /\ Len(Stage!KeepThree(s)) \in 0 .. 3
           /\ Len(Stage!KeepThree(s)) <= Len(s)
           /\ \A i \in 1 .. Len(Stage!KeepThree(s)) :
                Stage!KeepThree(s)[i] = s[Len(s) - Len(Stage!KeepThree(s)) + i]
<1>1. Len(s) \in Nat
  OBVIOUS
<1>2. CASE Len(s) > 3
  <2>1. Stage!KeepThree(s) = SubSeq(s, Len(s) - 2, Len(s))
    BY <1>2 DEF Stage!KeepThree
  <2>2. /\ SubSeq(s, Len(s) - 2, Len(s)) \in Seq(S) /\ Len(SubSeq(s, Len(s) - 2, Len(s))) = 3
        /\ \A i \in 1 .. 3 : SubSeq(s, Len(s) - 2, Len(s))[i] = s[Len(s) - 3 + i]
    BY <1>1, <1>2, SubSeqProperties
  <2> QED
    BY <1>1, <1>2, <2>1, <2>2
<1>3. CASE Len(s) <= 3
  <2>1. SubSeq(s, 1, Len(s)) = s
    BY SubSeqFull
  <2>2. Stage!KeepThree(s) = SubSeq(s, 1, Len(s))
    <3>1. ~(Len(s) > 3)
      BY <1>1, <1>3
    <3> QED
      BY <3>1, Zenon DEF Stage!KeepThree
  <2>3. Stage!KeepThree(s) = s
    BY <2>1, <2>2
  <2> QED
    <3>1. Len(s) \in 0 .. 3 /\ \A i \in 1 .. Len(s) : Len(s) - Len(s) + i = i
      <4>1. \A n \in Nat : n <= 3 => n \in 0 .. 3 /\ \A i \in 1 .. n : n - n + i = i
        OBVIOUS
      <4> QED
        BY <1>1, <1>3, <4>1, Zenon
    <3>2. \A i \in 1 .. Len(s) : s[i] = s[Len(s) - Len(s) + i]
      BY <3>1
    <3>3. /\ s \in Seq(S) /\ Len(s) \in 0 .. 3 /\ Len(s) <= Len(s)
          /\ \A i \in 1 .. Len(s) : s[i] = s[Len(s) - Len(s) + i]
      BY <1>1, <3>1, <3>2
    <3> QED
      BY <2>3, <3>3, Zenon
<1> QED
  BY <1>1, <1>2, <1>3

LEMMA OneRow ==
    ASSUME NEW r
    PROVE  Append(<<>>, r) = <<r>> /\ Head(<<r>>) = r /\ Tail(<<r>>) = <<>> /\ <<r>> # <<>>
OBVIOUS

-----------------------------------------------------------------------------
(* The live pitch: types, and no goal that was not scored *)

LEMMA TypeParts ==
    ASSUME Stage!TypeOK
    PROVE  /\ match \in [Stage!Side -> Nat] /\ half \in [Stage!Side -> Nat]
           /\ \A side \in Stage!Side : half[side] <= match[side]
           /\ scorers \in Seq(Stage!Side) /\ Len(scorers) \in Nat /\ Len(scorers) <= MaxScore
           /\ secondHalf \in BOOLEAN /\ over \in BOOLEAN /\ homeFirst \in BOOLEAN
           /\ queue \in Seq(Stage!Row) /\ score \in Stage!Row
           /\ pops \in Seq(Pop) /\ Len(pops) \in Nat /\ Len(pops) <= 4
           /\ snapshot \in [home : Nat \cup {Stage!null}, away : Nat \cup {Stage!null}, finished : BOOLEAN]
           /\ prev \in Partial
BY DEF Stage!TypeOK, Pop, Partial

\* What the page keeps, when it shows a score whole or in part.
LEMMA EffectTypes ==
    ASSUME Stage!TypeOK, NEW now, now.home \in Nat \cup {Stage!null}, now.away \in Nat \cup {Stage!null},
           now = [home |-> now.home, away |-> now.away], Stage!Effect(now)
    PROVE  /\ prev' \in Partial /\ pops' \in Seq(Pop) /\ Len(pops') <= 4
           /\ \A i \in 1 .. Len(pops') :
                \/ \E j \in 1 .. Len(pops) : pops'[i] = pops[j]
                \/ pops'[i].score = now
<1>1. pops \in Seq(Pop) /\ Len(pops) \in Nat /\ Len(pops) <= 4 /\ prev \in Partial
  BY TypeParts
<1>2. CASE pops' = pops /\ prev' \in {prev, now}
  <2>1. now \in Partial
    BY DEF Partial, Stage!Side
  <2> QED
    BY <1>1, <1>2, <2>1
<1>3. CASE /\ Stage!Full(now) /\ prev' = now
           /\ pops' = Append(Stage!KeepThree(pops),
                        [side |-> IF now.home > prev.home THEN "home" ELSE "away", score |-> now])
  <2> DEFINE kept == Stage!KeepThree(pops)
             pop == [side |-> IF now.home > prev.home THEN "home" ELSE "away", score |-> now]
  <2>1. now \in [Stage!Side -> Nat] /\ now \in Partial
    BY <1>3 DEF Partial, Stage!Side, Stage!Full
  <2>2. pop \in Pop /\ pop.score = now
    BY <2>1 DEF Pop, Stage!Side
  <2>3. /\ kept \in Seq(Pop) /\ Len(kept) \in 0 .. 3 /\ Len(kept) <= Len(pops)
        /\ \A i \in 1 .. Len(kept) : kept[i] = pops[Len(pops) - Len(kept) + i]
    BY <1>1, KeepThreeOf
  <2>4. pops' = Append(kept, pop)
    BY <1>3
  <2> HIDE DEF kept, pop
  <2>5. /\ pops' \in Seq(Pop) /\ Len(pops') = Len(kept) + 1
        /\ \A i \in 1 .. Len(kept) : pops'[i] = kept[i]
        /\ pops'[Len(kept) + 1] = pop
    BY <2>2, <2>3, <2>4
  <2>6. \A i \in 1 .. Len(kept) : Len(pops) - Len(kept) + i \in 1 .. Len(pops)
    BY <1>1, <2>3
  <2>7. \A i \in 1 .. Len(pops') :
           (\E j \in 1 .. Len(pops) : pops'[i] = pops[j]) \/ pops'[i].score = now
    <3>1. TAKE i \in 1 .. Len(pops')
    <3>2. i \in 1 .. Len(kept) \/ i = Len(kept) + 1
      BY <2>3, <2>5
    <3> QED
      BY <2>2, <2>3, <2>5, <2>6, <3>2
  <2>8. Len(pops') <= 4
    BY <2>3, <2>5
  <2> QED
    BY <1>3, <2>1, <2>5, <2>7, <2>8
<1> QED
  BY <1>2, <1>3 DEF Stage!Effect

\* A row that is sent.
LEMMA SendTypes ==
    ASSUME Stage!TypeOK, NEW row \in Stage!Row, queue' = Append(queue, row)
    PROVE  queue' \in Seq(Stage!Row) /\ Len(queue') = Len(queue) + 1 /\ queue'[Len(queue) + 1] = row
           /\ \A i \in 1 .. Len(queue) : queue'[i] = queue[i]
BY TypeParts

\* The goals of a row are some of the score g.
RowBelow(row, first, g) == Sides(row, first).home <= g.home /\ Sides(row, first).away <= g.away

\* Every goal that is on its way, known or shown is one of the match.
BelowInv ==
    /\ Stage!TypeOK
    /\ RowBelow(score, homeFirst, match)
    /\ \A i \in 1 .. Len(queue) : RowBelow(queue[i], homeFirst, match)
    /\ snapshot.home <= match.home /\ snapshot.away <= match.away
    /\ \A i \in 1 .. Len(pops) : pops[i].score.home <= match.home /\ pops[i].score.away <= match.away

LEMMA BelowInitially == ASSUME Stage!LiveStageTypes, Stage!Init PROVE BelowInv
<1>1. /\ match = [home |-> 0, away |-> 0] /\ half = match /\ scorers = <<>> /\ pops = <<>>
      /\ secondHalf = FALSE /\ over = FALSE /\ homeFirst \in BOOLEAN /\ queue = <<>>
      /\ score = Stage!NoRow /\ snapshot = [home |-> -1, away |-> -1, finished |-> FALSE]
      /\ prev = [home |-> -1, away |-> -1]
  BY DEF Stage!Init, Stage!null
<1>2. match \in [Stage!Side -> Nat] /\ prev \in Partial
  BY <1>1 DEF Stage!Side, Partial, Stage!null
<1>3. score \in Stage!Row /\ Sides(score, homeFirst) = [home |-> -1, away |-> -1]
  BY <1>1 DEF Stage!NoRow, Stage!Row, Stage!null, Sides
<1>4. /\ scorers \in Seq(Stage!Side) /\ Len(scorers) = 0 /\ pops \in Seq(Pop) /\ Len(pops) = 0
      /\ queue \in Seq(Stage!Row) /\ Len(queue) = 0
  BY <1>1
<1>5. snapshot \in [home : Nat \cup {Stage!null}, away : Nat \cup {Stage!null}, finished : BOOLEAN]
  BY <1>1 DEF Stage!null
<1>6. Stage!TypeOK
  <2>1. half \in [Stage!Side -> Nat] /\ \A side \in Stage!Side : half[side] <= match[side]
    BY <1>1, <1>2
  <2>2. Len(scorers) <= MaxScore
    BY <1>4 DEF Stage!LiveStageTypes
  <2>3. {secondHalf, over, homeFirst} \subseteq BOOLEAN
    BY <1>1
  <2>4. Len(pops) <= 4 /\ pops \in Seq([side : Stage!Side, score : [Stage!Side -> Nat]])
    BY <1>4 DEF Pop
  <2>5. prev \in [Stage!Side -> Nat \cup {Stage!null}]
    BY <1>2 DEF Partial
  <2> QED
    BY <1>2, <1>3, <1>4, <1>5, <2>1, <2>2, <2>3, <2>4, <2>5 DEF Stage!TypeOK
<1>7. RowBelow(score, homeFirst, match) /\ snapshot.home <= match.home /\ snapshot.away <= match.away
  BY <1>1, <1>3 DEF RowBelow
<1> QED
  BY <1>4, <1>6, <1>7 DEF BelowInv

\* A row that is of a lower score is of a higher one too.
LEMMA RowBelowHigher ==
    ASSUME NEW row \in Stage!Row, NEW first \in BOOLEAN, NEW g \in [Stage!Side -> Nat],
           NEW h \in [Stage!Side -> Nat], \A side \in Stage!Side : g[side] <= h[side],
           RowBelow(row, first, g)
    PROVE  RowBelow(row, first, h)
<1>1. Sides(row, first).home \in Int /\ Sides(row, first).away \in Int
  BY DEF Sides, Stage!Row, Stage!null
<1>2. /\ g.home \in Nat /\ g.away \in Nat /\ h.home \in Nat /\ h.away \in Nat
      /\ g.home <= h.home /\ g.away <= h.away
  BY DEF Stage!Side
<1> QED
  BY <1>1, <1>2 DEF RowBelow

\* A step of the match, with the row that it sends, if any.
LEMMA EventStep ==
    ASSUME Stage!LiveStageTypes, BelowInv,
           match' \in [Stage!Side -> Nat], half' \in [Stage!Side -> Nat],
           \A side \in Stage!Side : half'[side] <= match'[side] /\ match[side] <= match'[side],
           scorers' \in Seq(Stage!Side), Len(scorers') <= MaxScore,
           secondHalf' \in BOOLEAN, over' \in BOOLEAN,
           queue' = queue \/ \E shape \in RowShape, final \in BOOLEAN :
               queue' = Append(queue, Stage!RowOf(Stage!Said(shape, match', half'), final)),
           UNCHANGED <<homeFirst, score, snapshot, prev, pops>>
    PROVE  BelowInv'
<1>1. Stage!TypeOK /\ homeFirst' = homeFirst /\ homeFirst \in BOOLEAN
  BY DEF BelowInv, Stage!TypeOK
<1>2. /\ match.home \in Nat /\ match.away \in Nat /\ match'.home \in Nat /\ match'.away \in Nat
      /\ match.home <= match'.home /\ match.away <= match'.away
  BY <1>1, TypeParts DEF Stage!Side
<1>3. \A row \in Stage!Row : RowBelow(row, homeFirst, match) => RowBelow(row, homeFirst, match')
  BY <1>1, RowBelowHigher, TypeParts
<1>4. queue' \in Seq(Stage!Row) /\ \A i \in 1 .. Len(queue') : RowBelow(queue'[i], homeFirst, match')
  <2>1. /\ queue \in Seq(Stage!Row) /\ Len(queue) \in Nat
        /\ \A i \in 1 .. Len(queue) : queue[i] \in Stage!Row /\ RowBelow(queue[i], homeFirst, match')
    BY <1>1, <1>3, TypeParts DEF BelowInv
  <2>2. CASE queue' = queue
    BY <2>1, <2>2
  <2>3. ASSUME NEW shape \in RowShape, NEW final \in BOOLEAN,
               queue' = Append(queue, Stage!RowOf(Stage!Said(shape, match', half'), final))
        PROVE  queue' \in Seq(Stage!Row) /\ \A i \in 1 .. Len(queue') : RowBelow(queue'[i], homeFirst, match')
    <3> DEFINE said == Stage!Said(shape, match', half')
               row == Stage!RowOf(said, final)
    <3>1. /\ said \in Partial /\ said.home <= match'.home /\ said.away <= match'.away
      <4>1. said \in Partial /\ \A side \in Stage!Side : said[side] <= match'[side]
        BY SaidParts DEF Partial
      <4> QED
        BY <4>1 DEF Stage!Side
    <3> HIDE DEF said
    <3>2. row \in Stage!Row /\ RowBelow(row, homeFirst, match')
      BY <1>1, <3>1, RowSides DEF RowBelow
    <3>3. queue' = Append(queue, row)
      BY <2>3 DEF said
    <3> HIDE DEF row
    <3>4. /\ queue' \in Seq(Stage!Row) /\ Len(queue') = Len(queue) + 1
          /\ queue'[Len(queue) + 1] = row /\ \A i \in 1 .. Len(queue) : queue'[i] = queue[i]
      BY <1>1, <3>2, <3>3, SendTypes
    <3>5. \A i \in 1 .. Len(queue') : RowBelow(queue'[i], homeFirst, match')
      <4>1. TAKE i \in 1 .. Len(queue')
      <4>2. i = Len(queue) + 1 \/ i \in 1 .. Len(queue)
        BY <2>1, <3>4, <4>1
      <4>3. CASE i = Len(queue) + 1
        BY <3>2, <3>4, <4>3
      <4>4. CASE i \in 1 .. Len(queue)
        BY <2>1, <3>4, <4>4
      <4> QED
        BY <4>2, <4>3, <4>4
    <3> QED
      BY <3>4, <3>5
  <2> QED
    BY <2>2, <2>3
<1>5. Stage!TypeOK'
  BY <1>1, <1>4 DEF Stage!TypeOK
<1>6. RowBelow(score', homeFirst, match')
  BY <1>1, <1>3, TypeParts DEF BelowInv
<1>7. snapshot'.home <= match'.home /\ snapshot'.away <= match'.away
  <2>1. snapshot.home \in Int /\ snapshot.away \in Int
    BY <1>1, TypeParts DEF Stage!null
  <2> QED
    BY <1>2, <2>1 DEF BelowInv
<1>8. \A i \in 1 .. Len(pops') : pops'[i].score.home <= match'.home /\ pops'[i].score.away <= match'.away
  <2>1. TAKE i \in 1 .. Len(pops')
  <2>2. pops'[i] = pops[i] /\ pops[i].score.home <= match.home /\ pops[i].score.away <= match.away
    BY <1>1, <2>1 DEF BelowInv
  <2>3. pops[i] \in Pop
    BY <1>1, <2>1, TypeParts
  <2>4. pops[i].score.home \in Nat /\ pops[i].score.away \in Nat
    BY <2>3 DEF Pop, Stage!Side
  <2>5. match.home <= match'.home /\ match.away <= match'.away
        /\ match.home \in Nat /\ match.away \in Nat /\ match'.home \in Nat /\ match'.away \in Nat
    BY <1>1, <1>2, TypeParts
  <2>6. pops[i].score.home <= match'.home /\ pops[i].score.away <= match'.away
    <3> DEFINE p == pops[i].score
    <3>1. /\ p.home \in Nat /\ p.away \in Nat /\ p.home <= match.home /\ p.away <= match.away
      BY <2>2, <2>4
    <3> HIDE DEF p
    <3>2. p.home <= match'.home /\ p.away <= match'.away
      BY <2>5, <3>1
    <3> QED
      BY <3>2 DEF p
  <2> QED
    BY <2>2, <2>6
<1> QED
  BY <1>1, <1>4, <1>5, <1>6, <1>7, <1>8 DEF BelowInv

\* A step of the page that shows what a row, or a poll, says.
LEMMA PageStep ==
    ASSUME Stage!LiveStageTypes, BelowInv, UNCHANGED Stage!matchVars,
           queue' \in Seq(Stage!Row), \A i \in 1 .. Len(queue') : RowBelow(queue'[i], homeFirst, match),
           score' \in Stage!Row, RowBelow(score', homeFirst, match),
           snapshot' \in [home : Nat \cup {Stage!null}, away : Nat \cup {Stage!null}, finished : BOOLEAN],
           snapshot'.home <= match.home, snapshot'.away <= match.away,
           Stage!Effect(Stage!Shown(score', snapshot'))
    PROVE  BelowInv'
<1> DEFINE now == Stage!Shown(score', snapshot')
<1>1. Stage!TypeOK /\ UNCHANGED <<match, scorers, half, secondHalf, over, homeFirst>>
  BY DEF BelowInv, Stage!matchVars
<1>2. /\ now.home \in Nat \cup {Stage!null} /\ now.away \in Nat \cup {Stage!null}
      /\ now = [home |-> now.home, away |-> now.away]
      /\ now.home <= match.home /\ now.away <= match.away
  BY ShownParts DEF RowBelow
<1> HIDE DEF now
<1>3. /\ prev' \in Partial /\ pops' \in Seq(Pop) /\ Len(pops') <= 4
      /\ \A i \in 1 .. Len(pops') :
           (\E j \in 1 .. Len(pops) : pops'[i] = pops[j]) \/ pops'[i].score = now
  <2>1. Stage!Effect(now)
    BY DEF now
  <2> QED
    BY <1>1, <1>2, <2>1, EffectTypes
<1>4. \A i \in 1 .. Len(pops') : pops'[i].score.home <= match.home /\ pops'[i].score.away <= match.away
  BY <1>2, <1>3 DEF BelowInv
<1>5. Stage!TypeOK'
  BY <1>1, <1>3 DEF Stage!TypeOK, Pop, Partial
<1> QED
  BY <1>1, <1>4, <1>5 DEF BelowInv

LEMMA GoalBelow ==
    ASSUME Stage!LiveStageTypes, BelowInv, NEW side \in Stage!Side, Stage!Goal(side)
    PROVE  BelowInv'
<1>1. Stage!TypeOK
  BY DEF BelowInv
<1>2. /\ Len(scorers) < MaxScore /\ match' = [match EXCEPT ![side] = @ + 1]
      /\ half' = IF secondHalf THEN half ELSE match'
      /\ scorers' = Append(scorers, side)
      /\ \E shape \in RowShape, final \in BOOLEAN :
           queue' = Append(queue, Stage!RowOf(Stage!Said(shape, match', half'), final))
      /\ UNCHANGED <<secondHalf, over, homeFirst, score, snapshot, prev, pops>>
  BY DEF Stage!Goal
<1>3. match' \in [Stage!Side -> Nat] /\ \A s \in Stage!Side : match[s] <= match'[s]
  BY <1>1, <1>2, TypeParts
<1>4. half' \in [Stage!Side -> Nat] /\ \A s \in Stage!Side : half'[s] <= match'[s]
  <2>1. CASE secondHalf
    <3>1. \A s \in Stage!Side : half[s] \in Nat /\ match[s] \in Nat /\ match'[s] \in Nat /\ half[s] <= match[s]
      BY <1>1, <1>3, TypeParts
    <3> QED
      BY <1>1, <1>2, <1>3, <2>1, <3>1, TypeParts
  <2>2. CASE ~secondHalf
    BY <1>2, <1>3, <2>2
  <2> QED
    BY <2>1, <2>2
<1>5. scorers' \in Seq(Stage!Side) /\ Len(scorers') <= MaxScore
  <2>1. MaxScore \in Nat /\ scorers \in Seq(Stage!Side)
    BY <1>1, TypeParts DEF Stage!LiveStageTypes
  <2> QED
    BY <1>2, <2>1
<1>6. secondHalf' \in BOOLEAN /\ over' \in BOOLEAN
  BY <1>1, <1>2, TypeParts
<1> QED
  BY <1>2, <1>3, <1>4, <1>5, <1>6, EventStep

\* The other steps of the match score nothing.
LEMMA OtherBelow ==
    ASSUME Stage!LiveStageTypes, BelowInv, Stage!HalfTime \/ Stage!OtherEvent \/ Stage!MatchEnds
    PROVE  BelowInv'
<1>1. Stage!TypeOK
  BY DEF BelowInv
<1>2. over \in BOOLEAN /\ secondHalf \in BOOLEAN /\ over' \in BOOLEAN /\ secondHalf' \in BOOLEAN
  BY <1>1, TypeParts DEF Stage!HalfTime, Stage!OtherEvent, Stage!MatchEnds
<1>3. UNCHANGED <<match, half, scorers, homeFirst, score, snapshot, prev, pops>>
  BY DEF Stage!HalfTime, Stage!OtherEvent, Stage!MatchEnds
<1>4. queue' = queue \/ \E shape \in RowShape, final \in BOOLEAN :
        queue' = Append(queue, Stage!RowOf(Stage!Said(shape, match, half), final))
  <2>1. CASE Stage!HalfTime
    BY <2>1 DEF Stage!HalfTime
  <2>2. CASE Stage!MatchEnds
    BY <2>2 DEF Stage!MatchEnds
  <2>3. CASE Stage!OtherEvent
    <3>1. PICK shape \in RowShape, final \in {FALSE, over} :
            queue' = <<Stage!RowOf(Stage!Said(shape, match, half), final)>>
      BY <2>3 DEF Stage!OtherEvent
    <3>2. queue = <<>> /\ final \in BOOLEAN
      BY <1>2, <2>3 DEF Stage!OtherEvent
    <3> DEFINE row == Stage!RowOf(Stage!Said(shape, match, half), final)
    <3>3. queue' = <<row>>
      BY <3>1
    <3> HIDE DEF row
    <3>4. queue' = Append(queue, row)
      BY <3>2, <3>3, OneRow
    <3> QED
      BY <3>2, <3>4 DEF row
  <2> QED
    BY <2>1, <2>2, <2>3
<1>5. /\ match' \in [Stage!Side -> Nat] /\ half' \in [Stage!Side -> Nat]
      /\ \A side \in Stage!Side : half'[side] <= match'[side] /\ match[side] <= match'[side]
      /\ scorers' \in Seq(Stage!Side) /\ Len(scorers') <= MaxScore
  BY <1>1, <1>3, TypeParts
<1>6. queue' = queue \/ \E shape \in RowShape, final \in BOOLEAN :
        queue' = Append(queue, Stage!RowOf(Stage!Said(shape, match', half'), final))
  BY <1>3, <1>4
<1> QED
  BY <1>2, <1>3, <1>5, <1>6, EventStep

LEMMA FeedBelow ==
    ASSUME Stage!LiveStageTypes, BelowInv, Stage!RowArrives \/ Stage!RowMissed
    PROVE  BelowInv'
<1>1. /\ Stage!TypeOK /\ queue \in Seq(Stage!Row) /\ score \in Stage!Row
      /\ snapshot \in [home : Nat \cup {Stage!null}, away : Nat \cup {Stage!null}, finished : BOOLEAN]
  BY TypeParts DEF BelowInv
<1>2. /\ queue # <<>> /\ queue' = Tail(queue) /\ UNCHANGED Stage!matchVars /\ snapshot' = snapshot
      /\ score' \in {Head(queue), score}
  BY DEF Stage!RowArrives, Stage!RowMissed
<1>3. /\ queue' \in Seq(Stage!Row) /\ Len(queue') = Len(queue) - 1 /\ Len(queue) \in Nat /\ Len(queue) >= 1
      /\ \A i \in 1 .. Len(queue') : queue'[i] = queue[i + 1]
      /\ Head(queue) = queue[1] /\ Head(queue) \in Stage!Row
  BY <1>1, <1>2
<1>4. \A i \in 1 .. Len(queue') : RowBelow(queue'[i], homeFirst, match)
  <2>1. \A i \in 1 .. Len(queue') : i + 1 \in 1 .. Len(queue)
    BY <1>3
  <2> QED
    BY <1>3, <2>1 DEF BelowInv
<1>5. score' \in Stage!Row /\ RowBelow(score', homeFirst, match)
  <2>1. RowBelow(queue[1], homeFirst, match)
    BY <1>3 DEF BelowInv
  <2> QED
    BY <1>1, <1>2, <1>3, <2>1 DEF BelowInv
<1>6. snapshot'.home <= match.home /\ snapshot'.away <= match.away
  BY <1>2 DEF BelowInv
<1>7. CASE Stage!RowArrives
  <2>1. Stage!Effect(Stage!Shown(score', snapshot'))
    BY <1>2, <1>7 DEF Stage!RowArrives
  <2> QED
    BY <1>1, <1>2, <1>3, <1>4, <1>5, <1>6, <2>1, PageStep
<1>8. CASE Stage!RowMissed
  <2>1. UNCHANGED <<match, scorers, half, secondHalf, over, homeFirst, score, snapshot, prev, pops>>
    BY <1>8 DEF Stage!RowMissed, Stage!matchVars
  <2>2. Stage!TypeOK'
    BY <1>1, <1>3, <2>1 DEF Stage!TypeOK
  <2> QED
    BY <1>4, <2>1, <2>2 DEF BelowInv
<1> QED
  BY <1>7, <1>8

LEMMA PollBelow ==
    ASSUME Stage!LiveStageTypes, BelowInv, Stage!Poll
    PROVE  BelowInv'
<1>1. Stage!TypeOK
  BY DEF BelowInv
<1>2. PICK shape \in RowShape, scored \in BOOLEAN, finished \in BOOLEAN :
        snapshot' = [home |-> Stage!Polled(shape, scored).home,
                     away |-> Stage!Polled(shape, scored).away, finished |-> finished]
  BY DEF Stage!Poll
<1> DEFINE said == Stage!Said(shape, match, half)
           polled == Stage!Polled(shape, scored)
<1>3. said \in Partial /\ \A side \in Stage!Side : said[side] <= match[side] /\ match[side] \in Nat
  BY <1>1, SaidParts, TypeParts DEF Partial
<1>4. polled = [side \in Stage!Side |-> IF scored THEN Stage!Or(said[side], 0) ELSE Stage!null]
  BY DEF Stage!Polled
<1> HIDE DEF said
<1>5. \A side \in Stage!Side : polled[side] \in Nat \cup {Stage!null} /\ polled[side] <= match[side]
  BY <1>3, <1>4 DEF Partial, Stage!Or, Stage!null
<1>6. snapshot' = [home |-> polled.home, away |-> polled.away, finished |-> finished]
  BY <1>2
<1> HIDE DEF polled
<1>7. /\ snapshot' \in [home : Nat \cup {Stage!null}, away : Nat \cup {Stage!null}, finished : BOOLEAN]
      /\ snapshot'.home <= match.home /\ snapshot'.away <= match.away
  BY <1>5, <1>6 DEF Stage!Side
<1>8. /\ UNCHANGED Stage!matchVars /\ UNCHANGED <<queue, score>>
      /\ Stage!Effect(Stage!Shown(score', snapshot'))
  BY DEF Stage!Poll
<1>9. /\ queue' \in Seq(Stage!Row) /\ score' \in Stage!Row
      /\ RowBelow(score', homeFirst, match)
      /\ \A i \in 1 .. Len(queue') : RowBelow(queue'[i], homeFirst, match)
  BY <1>1, <1>8, TypeParts DEF BelowInv
<1> QED
  BY <1>7, <1>8, <1>9, PageStep

LEMMA ExpireBelow ==
    ASSUME BelowInv, Stage!Expire
    PROVE  BelowInv'
<1>1. /\ UNCHANGED <<match, scorers, half, secondHalf, over, homeFirst, queue, score, snapshot, prev>>
      /\ pops # <<>> /\ pops' = Tail(pops)
  BY DEF Stage!Expire, Stage!matchVars
<1>2. Stage!TypeOK /\ pops \in Seq(Pop) /\ Len(pops) \in Nat /\ Len(pops) <= 4
  BY TypeParts DEF BelowInv
<1>3. /\ pops' \in Seq(Pop) /\ Len(pops') = Len(pops) - 1
      /\ \A i \in 1 .. Len(pops') : pops'[i] = pops[i + 1] /\ i + 1 \in 1 .. Len(pops)
  BY <1>1, <1>2
<1>4. Len(pops') <= 4
  BY <1>2, <1>3
<1>5. Stage!TypeOK'
  BY <1>1, <1>2, <1>3, <1>4 DEF Stage!TypeOK, Pop
<1> QED
  BY <1>1, <1>3, <1>5 DEF BelowInv

LEMMA BelowConsecution ==
    ASSUME Stage!LiveStageTypes, ~MayDisallow, BelowInv, [Stage!Next]_Stage!vars
    PROVE  BelowInv'
<1>1. CASE UNCHANGED Stage!vars
  <2>1. UNCHANGED <<match, scorers, half, secondHalf, over, homeFirst, queue, score, snapshot, prev, pops>>
    BY <1>1 DEF Stage!vars
  <2>2. Stage!TypeOK'
    BY <2>1 DEF BelowInv, Stage!TypeOK
  <2> QED
    BY <2>1, <2>2 DEF BelowInv
<1>2. ~Stage!Disallow
  BY DEF Stage!Disallow
<1> QED
  BY <1>1, <1>2, GoalBelow, OtherBelow, FeedBelow, PollBelow, ExpireBelow DEF Stage!Next

\* Whatever rows lack, whatever the stream loses, and though the clock finishes the fixture
\* early, the page shows no goal that was not scored, on the screen or in a pop, unless
\* one is taken back ("nothing on this surface is invented", live-stage.tsx:14).
THEOREM StageInventsNothing ==
    ASSUME Stage!LiveStageTypes
    PROVE  Stage!Spec => []Stage!NoneInvented
<1>1. CASE MayDisallow
  <2>1. Stage!NoneInvented
    BY <1>1 DEF Stage!NoneInvented
  <2> QED
    BY <2>1, PTL
<1>2. CASE ~MayDisallow
  <2>1. Stage!Init => BelowInv
    BY BelowInitially
  <2>2. BelowInv /\ [Stage!Next]_Stage!vars => BelowInv'
    BY <1>2, BelowConsecution
  <2>3. BelowInv => Stage!NoneInvented
    <3> SUFFICES ASSUME BelowInv PROVE Stage!NoneInvented
      OBVIOUS
    <3>1. Stage!Below(Stage!OnScreen)
      <4>1. /\ Stage!OnScreen.home \in {Sides(score, homeFirst).home, snapshot.home}
            /\ Stage!OnScreen.away \in {Sides(score, homeFirst).away, snapshot.away}
        BY ShownParts, TypeParts DEF BelowInv, Stage!OnScreen
      <4> QED
        BY <4>1 DEF BelowInv, RowBelow, Stage!Below, Stage!Side
    <3>2. \A i \in 1 .. Len(pops) : Stage!Below(pops[i].score)
      BY DEF BelowInv, Stage!Below, Stage!Side
    <3> QED
      BY <3>1, <3>2 DEF Stage!NoneInvented
  <2> QED
    BY <2>1, <2>2, <2>3, PTL DEF Stage!Spec
<1> QED
  BY <1>1, <1>2

\* With no row on its way the score shown is the match's.
LEMMA Settled ==
    ASSUME Stage!IInv, queue = <<>>
    PROVE  ~Stage!Pending /\ (Stage!Full(prev) => prev = match)
BY DEF Stage!IInv, Stage!OneBehind, Stage!Pending

\* The side that a goal's pop is for is the last to have scored.
LEMMA ScorerTold ==
    ASSUME NEW before \in [Stage!Side -> Nat], NEW side \in Stage!Side, NEW after,
           after = [before EXCEPT ![side] = @ + 1]
    PROVE  side = IF after.home > before.home THEN "home" ELSE "away"
BY DEF Stage!Side

\* Showing the match's score makes up for the goal that was on its way.
LEMMA Shows ==
    ASSUME Stage!IInv, Stage!Effect(match), queue' = <<>>, UNCHANGED <<match, scorers>>
    PROVE  /\ prev' = match /\ Stage!Full(prev')
           /\ pops' \in Seq(Pop) /\ Len(pops') <= 4
           /\ Stage!OneBehind' /\ Stage!PopsTellShown'
<1>1. /\ match \in [Stage!Side -> Nat] /\ scorers \in Seq(Stage!Side) /\ pops \in Seq(Pop)
      /\ Len(pops) <= 4
      /\ Len(scorers) \in Nat /\ Len(pops) \in Nat
  BY DEF Stage!IInv, Stage!TypeOK, Pop
<1>2. Stage!Full(match)
  BY <1>1, ScoreParts
<1>3. prev' = match
  BY <1>2 DEF Stage!Effect
<1>4. Stage!Full(prev') /\ prev' \in [Stage!Side -> Nat] /\ ~Stage!Pending'
  BY <1>1, <1>2, <1>3 DEF Stage!Pending, Stage!Full
<1>5. Stage!OneBehind'
  BY <1>4 DEF Stage!OneBehind
<1>6. CASE ~Stage!Pending
  <2>1. pops' = pops
    BY <1>2, <1>6 DEF Stage!Effect, Stage!Pending
  <2> QED
    BY <1>1, <1>3, <1>4, <1>5, <1>6, <2>1 DEF Stage!IInv, Stage!PopsTellShown
<1>7. CASE Stage!Pending
  <2>1. /\ Stage!Full(prev) /\ prev # match /\ prev \in [Stage!Side -> Nat] /\ scorers # <<>>
        /\ match = [prev EXCEPT ![scorers[Len(scorers)]] = @ + 1]
    BY <1>7 DEF Stage!IInv, Stage!OneBehind, Stage!Pending
  <2>2. Len(scorers) >= 1 /\ scorers[Len(scorers)] \in Stage!Side
    BY <1>1, <2>1
  <2> DEFINE kept == Stage!KeepThree(pops)
             pop == [side |-> IF match.home > prev.home THEN "home" ELSE "away", score |-> match]
  <2>3. pops' = Append(kept, pop)
    BY <1>2, <2>1 DEF Stage!Effect
  <2>4. pop \in Pop /\ pop.side = scorers[Len(scorers)]
    <3>1. scorers[Len(scorers)] = IF match.home > prev.home THEN "home" ELSE "away"
      BY <2>1, <2>2, ScorerTold
    <3> QED
      BY <1>1, <3>1 DEF Pop, Stage!Side
  <2>5. /\ kept \in Seq(Pop) /\ Len(kept) \in 0 .. 3 /\ Len(kept) <= Len(pops)
        /\ \A i \in 1 .. Len(kept) : kept[i] = pops[Len(pops) - Len(kept) + i]
    BY <1>1, KeepThreeOf
  <2> HIDE DEF kept, pop
  <2>6. /\ pops' \in Seq(Pop) /\ Len(pops') = Len(kept) + 1
        /\ \A i \in 1 .. Len(kept) : pops'[i] = kept[i]
        /\ pops'[Len(kept) + 1] = pop
    BY <2>3, <2>4, <2>5
  <2>7. /\ Len(pops) <= Len(scorers) - 1
        /\ \A i \in 1 .. Len(pops) : pops[i].side = scorers[Len(scorers) - 1 - Len(pops) + i]
    BY <1>7 DEF Stage!IInv, Stage!PopsTellShown
  <2>8. \A i \in 1 .. Len(pops') : pops'[i].side = scorers[Len(scorers) - Len(pops') + i]
    <3>1. TAKE i \in 1 .. Len(pops')
    <3>2. CASE i = Len(kept) + 1
      <4>1. Len(scorers) - Len(pops') + i = Len(scorers)
        BY <1>1, <2>5, <2>6, <3>2
      <4> QED
        BY <2>4, <2>6, <3>2, <4>1
    <3>3. CASE i \in 1 .. Len(kept)
      <4> DEFINE j == Len(pops) - Len(kept) + i
      <4>1. j \in 1 .. Len(pops)
        BY <1>1, <2>5, <3>3
      <4>2. Len(scorers) - 1 - Len(pops) + j = Len(scorers) - Len(pops') + i
        BY <1>1, <2>5, <2>6, <3>3
      <4>3. pops'[i] = pops[j]
        BY <2>5, <2>6, <3>3
      <4> HIDE DEF j
      <4> QED
        BY <2>7, <4>1, <4>2, <4>3
    <3> QED
      BY <2>5, <2>6, <3>1, <3>2, <3>3
  <2>9. Len(pops') <= Len(scorers) /\ Len(pops') <= 4
    <3>1. Len(kept) \in Nat /\ Len(kept) <= 3
      BY <2>5
    <3>2. Len(pops') = Len(kept) + 1 /\ Len(kept) <= Len(pops) /\ Len(pops) <= Len(scorers) - 1
      BY <2>5, <2>6, <2>7
    <3>3. Len(scorers) \in Nat /\ Len(pops) \in Nat
      BY <1>1
    <3> QED
      BY <3>1, <3>2, <3>3
  <2> QED
    BY <1>1, <1>3, <1>4, <1>5, <2>6, <2>8, <2>9 DEF Stage!PopsTellShown
<1> QED
  BY <1>6, <1>7

-----------------------------------------------------------------------------
(* The live pitch: the steps of a match whose rows are whole and in time *)

LEMMA StageInitially == ASSUME Stage!LiveStageTypes, Stage!Init PROVE Stage!IInv
<1>1. Stage!TypeOK
  BY BelowInitially DEF BelowInv
<1>2. ~Stage!Full(prev) /\ Len(pops) = 0 /\ Len(scorers) = 0
  BY DEF Stage!Init, Stage!Full, Stage!null
<1>3. Stage!PopsTellShown
  BY <1>2 DEF Stage!PopsTellShown, Stage!Pending
<1>4. ~score.final /\ ~snapshot.finished
  BY DEF Stage!Init, Stage!NoRow
<1> QED
  BY <1>1, <1>2, <1>3, <1>4
     DEF Stage!Init, Stage!IInv, Stage!RowsTrue, Stage!OneBehind, Stage!SourcesAgree,
         Stage!Pending

LEMMA WholeRow ==
    ASSUME Stage!LiveStageTypes, Stage!InTime, NEW shape \in RowShape,
           NEW g \in [Stage!Side -> Nat], NEW h \in [Stage!Side -> Nat],
           \A side \in Stage!Side : h[side] <= g[side]
    PROVE  Stage!Said(shape, g, h) = g
BY SaidParts DEF Stage!InTime

LEMMA GoalKeeps ==
    ASSUME Stage!LiveStageTypes, Stage!InTime, Stage!IInv, Stage!TypeOK', NEW side \in Stage!Side,
           Stage!Goal(side)
    PROVE  Stage!IInv'
<1>1. /\ queue = <<>> /\ Stage!Full(prev) /\ ~over /\ Len(scorers) < MaxScore
      /\ match' = [match EXCEPT ![side] = @ + 1] /\ scorers' = Append(scorers, side)
      /\ \E shape \in RowShape :
           queue' = Append(queue, Stage!RowOf(Stage!Said(shape, match', half'), FALSE))
      /\ UNCHANGED <<over, homeFirst, score, snapshot, prev, pops>>
  BY DEF Stage!Goal, Stage!Prompt, Stage!InTime
<1>2. prev = match /\ ~Stage!Pending
  BY <1>1, Settled
<1>3. /\ match \in [Stage!Side -> Nat] /\ scorers \in Seq(Stage!Side) /\ pops \in Seq(Pop)
      /\ Len(scorers) \in Nat /\ Len(pops) \in Nat /\ MaxScore \in Nat
  <2>1. Stage!TypeOK
    BY DEF Stage!IInv
  <2> QED
    BY <2>1, TypeParts DEF Stage!LiveStageTypes
<1>4. match' \in [Stage!Side -> Nat] /\ match' # match
  BY <1>1, <1>3
<1>5. /\ scorers' \in Seq(Stage!Side) /\ Len(scorers') = Len(scorers) + 1 /\ scorers' # <<>>
      /\ scorers'[Len(scorers')] = side
      /\ \A i \in 1 .. Len(scorers) : scorers'[i] = scorers[i]
  BY <1>1, <1>3
<1>6. queue' = <<Stage!RowOf(match', FALSE)>> /\ queue' # <<>>
  <2>1. /\ half' \in [Stage!Side -> Nat] /\ \A s \in Stage!Side : half'[s] <= match'[s]
    BY DEF Stage!TypeOK
  <2>2. \A shape \in RowShape : Stage!Said(shape, match', half') = match'
    BY <1>4, <2>1, WholeRow
  <2> QED
    BY <1>1, <2>2, OneRow
<1>7. Stage!RowsTrue'
  <2>1. homeFirst' = homeFirst
    BY <1>1
  <2>2. Stage!RowOf(match', FALSE) = Stage!RowOf(match, FALSE)'
    BY <2>1 DEF Stage!RowOf
  <2>3. queue' = <<Stage!RowOf(match, FALSE)>>'
    BY <1>6, <2>2, Zenon
  <2> QED
    BY <2>3 DEF Stage!RowsTrue
<1>8. Stage!Pending' /\ Stage!OneBehind'
  <2>1. Stage!Pending' /\ Stage!Full(prev')
    BY <1>1, <1>2, <1>4 DEF Stage!Pending, Stage!Full
  <2> QED
    BY <1>1, <1>2, <1>3, <1>5, <1>6, <2>1 DEF Stage!OneBehind
<1>9. Stage!SourcesAgree'
  BY <1>1 DEF Stage!IInv, Stage!SourcesAgree, Stage!Full, Stage!RowOf
<1>10. Stage!PopsTellShown'
  <2>1. /\ Len(pops) <= Len(scorers)
        /\ \A i \in 1 .. Len(pops) : pops[i].side = scorers[Len(scorers) - Len(pops) + i]
    BY <1>2, <1>3 DEF Stage!IInv, Stage!PopsTellShown
  <2>2. \A i \in 1 .. Len(pops) : Len(scorers) - Len(pops) + i \in 1 .. Len(scorers)
    BY <1>3, <2>1
  <2>3. \A i \in 1 .. Len(pops) : pops[i].side = scorers'[Len(scorers) - Len(pops) + i]
    BY <1>5, <2>1, <2>2
  <2>4. Len(scorers') - 1 = Len(scorers)
    BY <1>3, <1>5
  <2> QED
    BY <1>1, <1>8, <2>1, <2>3, <2>4 DEF Stage!PopsTellShown
<1> QED
  BY <1>7, <1>8, <1>9, <1>10 DEF Stage!IInv

\* A row that says the score as it is leaves what is shown alone.
LEMMA SaidKeeps ==
    ASSUME Stage!IInv, Stage!TypeOK', queue = <<>>, NEW final \in BOOLEAN, final => over',
           queue' = <<Stage!RowOf(match, final)>>, over => over',
           UNCHANGED <<match, scorers, homeFirst, score, snapshot, prev, pops>>
    PROVE  Stage!IInv'
<1>1. Stage!RowsTrue'
  BY DEF Stage!RowsTrue, Stage!RowOf
<1>2. ~Stage!Pending /\ ~Stage!Pending' /\ (Stage!Full(prev) <=> Stage!Full(prev'))
  BY Settled DEF Stage!Pending, Stage!Full
<1>3. Stage!OneBehind'
  BY <1>2 DEF Stage!IInv, Stage!OneBehind
<1>4. Stage!SourcesAgree'
  BY <1>2 DEF Stage!IInv, Stage!SourcesAgree, Stage!RowOf
<1>5. Stage!PopsTellShown'
  BY <1>2 DEF Stage!IInv, Stage!PopsTellShown
<1> QED
  BY <1>1, <1>3, <1>4, <1>5 DEF Stage!IInv

\* So does a step that only loses rows, once nothing new can be in them.
LEMMA StillKeeps ==
    ASSUME Stage!IInv, Stage!TypeOK',
           UNCHANGED <<match, scorers, over, homeFirst, score, snapshot, prev, pops>>,
           queue' = queue \/ (over /\ queue' = <<>>)
    PROVE  Stage!IInv'
<1>1. (Stage!Pending <=> Stage!Pending') /\ (Stage!Full(prev) <=> Stage!Full(prev'))
  BY DEF Stage!Pending, Stage!Full
<1>2. Stage!RowsTrue' /\ Stage!OneBehind'
  BY <1>1 DEF Stage!IInv, Stage!RowsTrue, Stage!OneBehind, Stage!RowOf
<1>3. Stage!SourcesAgree' /\ Stage!PopsTellShown'
  BY <1>1 DEF Stage!IInv, Stage!SourcesAgree, Stage!PopsTellShown, Stage!RowOf
<1> QED
  BY <1>2, <1>3 DEF Stage!IInv

LEMMA SaysKeeps ==
    ASSUME Stage!LiveStageTypes, Stage!InTime, Stage!IInv, Stage!TypeOK',
           Stage!OtherEvent \/ Stage!MatchEnds
    PROVE  Stage!IInv'
<1>1. /\ over \in BOOLEAN /\ match \in [Stage!Side -> Nat] /\ half \in [Stage!Side -> Nat]
      /\ \A side \in Stage!Side : half[side] <= match[side]
  BY TypeParts DEF Stage!IInv
<1>2. \A shape \in RowShape : Stage!Said(shape, match, half) = match
  BY <1>1, WholeRow
<1>3. /\ queue = <<>> /\ (over => over')
      /\ UNCHANGED <<match, scorers, homeFirst, score, snapshot, prev, pops>>
  <2>1. CASE Stage!OtherEvent
    BY <2>1 DEF Stage!OtherEvent
  <2>2. CASE Stage!MatchEnds
    BY <2>2 DEF Stage!MatchEnds, Stage!Prompt, Stage!InTime
  <2> QED
    BY <2>1, <2>2
<1>4. \E final \in BOOLEAN : (final => over') /\ queue' = <<Stage!RowOf(match, final)>>
  <2>1. CASE Stage!OtherEvent
    <3>1. PICK shape \in RowShape, final \in {FALSE, over} :
            queue' = <<Stage!RowOf(Stage!Said(shape, match, half), final)>>
      BY <2>1 DEF Stage!OtherEvent
    <3>2. over' = over
      BY <2>1 DEF Stage!OtherEvent
    <3>3. final \in BOOLEAN /\ (final => over)
      <4>1. CASE final = FALSE
        BY <4>1, Zenon
      <4>2. CASE final = over
        BY <1>1, <4>2, Zenon
      <4> QED
        BY <3>1, <4>1, <4>2, Zenon
    <3> QED
      BY <1>2, <3>1, <3>2, <3>3
  <2>2. CASE Stage!MatchEnds
    <3>1. PICK shape \in RowShape, final \in BOOLEAN :
            queue' = Append(queue, Stage!RowOf(Stage!Said(shape, match, half), final))
      BY <2>2 DEF Stage!MatchEnds
    <3>2. Append(queue, Stage!RowOf(match, final)) = <<Stage!RowOf(match, final)>>
      BY <1>3, OneRow
    <3>3. over' = TRUE
      BY <2>2 DEF Stage!MatchEnds
    <3> QED
      BY <1>2, <3>1, <3>2, <3>3
  <2> QED
    BY <2>1, <2>2
<1> QED
  BY <1>3, <1>4, SaidKeeps

LEMMA RowArrivesKeeps ==
    ASSUME Stage!LiveStageTypes, Stage!InTime, Stage!IInv, Stage!TypeOK', Stage!RowArrives
    PROVE  Stage!IInv'
<1>1. /\ queue # <<>> /\ ~snapshot.finished /\ score' = Head(queue) /\ queue' = Tail(queue)
      /\ Stage!Effect(Stage!Shown(score', snapshot))
      /\ UNCHANGED <<match, scorers, over, homeFirst, snapshot>>
  BY DEF Stage!RowArrives, Stage!matchVars
<1>2. PICK final \in BOOLEAN : (final => over) /\ queue = <<Stage!RowOf(match, final)>>
  BY <1>1 DEF Stage!IInv, Stage!RowsTrue
<1>3. score' = Stage!RowOf(match, final) /\ queue' = <<>>
  BY <1>1, <1>2, OneRow
<1>4. match \in [Stage!Side -> Nat] /\ homeFirst \in BOOLEAN
  BY TypeParts DEF Stage!IInv
<1>5. Stage!Effect(match)
  <2>1. Stage!Shown(score', snapshot) = match
    BY <1>3, <1>4, RowShows
  <2> QED
    BY <1>1, <2>1
<1>6. prev' = match /\ Stage!Full(prev') /\ Stage!OneBehind' /\ Stage!PopsTellShown'
  BY <1>1, <1>3, <1>5, Shows
<1>7. Stage!SourcesAgree'
  <2>1. score' = Stage!RowOf(prev, final)'
    BY <1>1, <1>3, <1>6 DEF Stage!RowOf
  <2>2. score'.final = final /\ ~snapshot'.finished /\ over' = over /\ Stage!Full(prev)'
    BY <1>1, <1>3, <1>6 DEF Stage!RowOf, Stage!Full
  <2> QED
    BY <1>2, <2>1, <2>2 DEF Stage!SourcesAgree
<1>8. Stage!RowsTrue'
  BY <1>3 DEF Stage!RowsTrue
<1> QED
  BY <1>6, <1>7, <1>8 DEF Stage!IInv

LEMMA PollKeeps ==
    ASSUME Stage!LiveStageTypes, Stage!InTime, Stage!IInv, Stage!TypeOK', Stage!Poll
    PROVE  Stage!IInv'
<1>1. /\ queue = <<>> /\ Stage!Effect(Stage!Shown(score, snapshot'))
      /\ UNCHANGED <<match, scorers, over, homeFirst, queue, score>>
  BY DEF Stage!Poll, Stage!InTime, Stage!matchVars
<1>2. /\ match \in [Stage!Side -> Nat] /\ half \in [Stage!Side -> Nat] /\ homeFirst \in BOOLEAN
      /\ \A side \in Stage!Side : half[side] <= match[side]
      /\ match.home \in Nat /\ match.away \in Nat
      /\ [home |-> match.home, away |-> match.away] = match
  BY TypeParts, ScoreParts DEF Stage!IInv
<1>3. PICK shape \in RowShape, scored \in BOOLEAN, finished \in BOOLEAN :
        /\ finished => over
        /\ snapshot' = [home |-> Stage!Polled(shape, scored).home,
                        away |-> Stage!Polled(shape, scored).away, finished |-> finished]
  BY DEF Stage!Poll, Stage!InTime
<1>4. /\ Stage!Polled(shape, scored).home = IF scored THEN match.home ELSE Stage!null
      /\ Stage!Polled(shape, scored).away = IF scored THEN match.away ELSE Stage!null
  <2>1. Stage!Said(shape, match, half) = match
    BY <1>2, WholeRow
  <2> QED
    BY <1>2, <2>1 DEF Stage!Polled, Stage!Or, Stage!Side, Stage!null
<1>5. /\ snapshot'.finished => over'
      /\ scored => snapshot'.home = match.home /\ snapshot'.away = match.away
      /\ ~scored => snapshot'.home = Stage!null /\ snapshot'.away = Stage!null
  BY <1>1, <1>3, <1>4
<1>6. /\ score = Stage!NoRow \/ \E final \in BOOLEAN : score = Stage!RowOf(match, final)
      /\ score.final => over
  BY <1>1, Settled DEF Stage!IInv, Stage!SourcesAgree
<1>7. Stage!RowsTrue'
  BY <1>1 DEF Stage!RowsTrue
<1>8. CASE score = Stage!NoRow /\ ~scored
  <2>1. Stage!Shown(score, snapshot') = [home |-> Stage!null, away |-> Stage!null]
    BY <1>5, <1>8, PollShows
  <2>2. UNCHANGED <<prev, pops>>
    BY <1>1, <2>1 DEF Stage!Effect, Stage!Full
  <2>3. (Stage!Pending <=> Stage!Pending') /\ (Stage!Full(prev) <=> Stage!Full(prev'))
    BY <1>1, <2>2 DEF Stage!Pending, Stage!Full
  <2>4. Stage!OneBehind' /\ Stage!PopsTellShown'
    BY <1>1, <2>2, <2>3 DEF Stage!IInv, Stage!OneBehind, Stage!PopsTellShown
  <2>5. Stage!SourcesAgree'
    BY <1>1, <1>5, <1>6, <1>8 DEF Stage!SourcesAgree
  <2> QED
    BY <1>7, <2>4, <2>5 DEF Stage!IInv
<1>9. CASE scored \/ \E final \in BOOLEAN : score = Stage!RowOf(match, final)
  <2>1. Stage!Shown(score, snapshot') = match
    <3>1. CASE score = Stage!NoRow /\ scored
      BY <1>2, <1>5, <3>1, PollShows
    <3>2. CASE \E final \in BOOLEAN : score = Stage!RowOf(match, final)
      BY <1>2, <3>2, RowShows
    <3> QED
      BY <1>6, <1>9, <3>1, <3>2
  <2>2. prev' = match /\ Stage!Full(prev') /\ Stage!OneBehind' /\ Stage!PopsTellShown'
    BY <1>1, <2>1, Shows
  <2>3. Stage!SourcesAgree'
    <3>1. CASE score = Stage!NoRow
      BY <1>1, <1>5, <1>6, <2>2, <3>1 DEF Stage!SourcesAgree
    <3>2. ASSUME NEW final \in BOOLEAN, score = Stage!RowOf(match, final) PROVE Stage!SourcesAgree'
      <4>1. score' = Stage!RowOf(prev, final)' /\ Stage!Full(prev)'
        BY <1>1, <2>2, <3>2 DEF Stage!RowOf, Stage!Full
      <4> QED
        BY <1>1, <1>5, <1>6, <4>1 DEF Stage!SourcesAgree
    <3> QED
      BY <1>6, <3>1, <3>2
  <2> QED
    BY <1>7, <2>2, <2>3 DEF Stage!IInv
<1> QED
  BY <1>6, <1>8, <1>9

LEMMA ExpireKeeps ==
    ASSUME Stage!IInv, Stage!TypeOK', Stage!Expire
    PROVE  Stage!IInv'
<1>1. /\ pops # <<>> /\ pops' = Tail(pops)
      /\ UNCHANGED <<match, scorers, over, homeFirst, queue, score, snapshot, prev>>
  BY DEF Stage!Expire, Stage!matchVars
<1>2. pops \in Seq(Pop) /\ Len(pops) \in Nat /\ Len(pops) <= 4 /\ Len(scorers) \in Nat
  BY DEF Stage!IInv, Stage!TypeOK, Pop
<1>3. /\ pops' \in Seq(Pop) /\ Len(pops') = Len(pops) - 1
      /\ \A i \in 1 .. Len(pops') : pops'[i] = pops[i + 1]
  BY <1>1, <1>2
<1>5. (Stage!Pending <=> Stage!Pending') /\ (Stage!Full(prev) <=> Stage!Full(prev'))
  BY <1>1 DEF Stage!Pending, Stage!Full
<1>6. Stage!RowsTrue' /\ Stage!SourcesAgree'
  BY <1>1, <1>5 DEF Stage!IInv, Stage!RowsTrue, Stage!SourcesAgree, Stage!RowOf
<1>7. Stage!OneBehind'
  <2>1. ~Stage!Full(prev) => pops = <<>>
    BY DEF Stage!IInv, Stage!OneBehind
  <2> QED
    BY <1>1, <1>5, <2>1 DEF Stage!IInv, Stage!OneBehind
<1>8. Stage!PopsTellShown'
  <2> DEFINE shown == Len(scorers) - (IF Stage!Pending THEN 1 ELSE 0)
  <2>1. shown \in Int /\ shown' = shown
    BY <1>1, <1>2, <1>5
  <2>2. /\ Len(pops) <= shown
        /\ \A i \in 1 .. Len(pops) : pops[i].side = scorers[shown - Len(pops) + i]
    BY DEF Stage!IInv, Stage!PopsTellShown
  <2> HIDE DEF shown
  <2>3. Len(pops') <= shown
    BY <1>2, <1>3, <2>1, <2>2
  <2>4. \A i \in 1 .. Len(pops') : pops'[i].side = scorers[shown - Len(pops') + i]
    <3>1. TAKE i \in 1 .. Len(pops')
    <3>2. i + 1 \in 1 .. Len(pops) /\ shown - Len(pops) + (i + 1) = shown - Len(pops') + i
      BY <1>2, <1>3, <2>1, <3>1
    <3>3. pops'[i] = pops[i + 1]
      BY <1>3, <3>1
    <3> QED
      BY <2>2, <3>2, <3>3
  <2> QED
    BY <1>1, <2>1, <2>3, <2>4 DEF Stage!PopsTellShown, shown
<1> QED
  BY <1>6, <1>7, <1>8 DEF Stage!IInv

LEMMA StageConsecution ==
    ASSUME Stage!LiveStageTypes, Stage!InTime, Stage!IInv, Stage!TypeOK', [Stage!Next]_Stage!vars
    PROVE  Stage!IInv'
<1>1. CASE UNCHANGED Stage!vars
  BY <1>1, StillKeeps DEF Stage!vars
<1>2. CASE Stage!HalfTime
  BY <1>2, StillKeeps DEF Stage!HalfTime
<1>3. CASE Stage!RowMissed
  <2>1. over /\ UNCHANGED <<match, scorers, over, homeFirst, score, snapshot, prev, pops>>
    BY <1>3 DEF Stage!RowMissed, Stage!InTime, Stage!IInv, Stage!SourcesAgree, Stage!matchVars
  <2>2. queue' = <<>>
    BY <1>3, OneRow DEF Stage!RowMissed, Stage!IInv, Stage!RowsTrue
  <2> QED
    BY <2>1, <2>2, StillKeeps
<1>4. ~Stage!Disallow
  BY DEF Stage!Disallow, Stage!InTime
<1> QED
  BY <1>1, <1>2, <1>3, <1>4, GoalKeeps, SaysKeeps, RowArrivesKeeps, PollKeeps, ExpireKeeps
     DEF Stage!Next

LEMMA StageTells == ASSUME Stage!IInv PROVE Stage!PopsTellGoals /\ Stage!FinalShown
<1>1. Len(scorers) \in Nat /\ Len(pops) \in Nat
  BY DEF Stage!IInv, Stage!TypeOK
<1>2. ASSUME queue = <<>>
      PROVE  Len(scorers) - (IF Stage!Pending THEN 1 ELSE 0) = Len(scorers)
  BY <1>1, <1>2, Settled
<1>3. Stage!PopsTellGoals
  BY <1>2 DEF Stage!IInv, Stage!PopsTellShown, Stage!PopsTellGoals
<1>4. Stage!FinalShown
  <2> SUFFICES ASSUME Stage!FullTime PROVE Stage!OnScreen = match
    BY DEF Stage!FinalShown
  <2>1. Stage!OnScreen = prev /\ Stage!Full(prev)
    BY ScreenIsPrev DEF Stage!FullTime
  <2>2. over
    BY DEF Stage!FullTime, Stage!IInv, Stage!SourcesAgree
  <2> QED
    BY <2>1, <2>2 DEF Stage!IInv, Stage!OneBehind, Stage!Pending
<1> QED
  BY <1>3, <1>4

\* What pops up is the last goals, each for the side that scored it, and full time is
\* claimed with the goals of the match (the effect and the badge of live-stage.tsx), for
\* every number of goals, with either participant at home, and though the fixture may be
\* polled without a score: as long as each row has a Total of both sides, rows come in
\* time, the clock does not finish the match early, and no goal is taken back.
THEOREM StageTellsTrue ==
    ASSUME Stage!LiveStageTypes, Stage!InTime
    PROVE  Stage!Spec => [](Stage!PopsTellGoals /\ Stage!FinalShown)
<1>1. Stage!Init => BelowInv /\ Stage!IInv
  BY BelowInitially, StageInitially
<1>2. BelowInv /\ Stage!IInv /\ [Stage!Next]_Stage!vars => (BelowInv /\ Stage!IInv)'
  <2> SUFFICES ASSUME BelowInv, Stage!IInv, [Stage!Next]_Stage!vars PROVE BelowInv' /\ Stage!IInv'
    OBVIOUS
  <2>1. BelowInv' /\ Stage!TypeOK'
    BY BelowConsecution DEF BelowInv, Stage!InTime
  <2> QED
    BY <2>1, StageConsecution
<1>3. BelowInv /\ Stage!IInv => Stage!PopsTellGoals /\ Stage!FinalShown
  BY StageTells
<1> QED
  BY <1>1, <1>2, <1>3, PTL DEF Stage!Spec

=============================================================================
