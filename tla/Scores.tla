------------------------------- MODULE Scores -------------------------------
(***************************************************************************)
(* What a match means for a pool: the game phase and the score reported by *)
(* the feed, turned into a settlement action, a status and an outcome      *)
(* index (src/server/src/workers/resolve/settlement.ts, the row readers of *)
(* settlement/worker.ts and of txline/normalize-fixtures.ts).              *)
(*                                                                         *)
(* A row of the feed is a record [state, goals, flag]: goals[side] is a    *)
(* function whose domain is the set of fields (H1, H2, Total) the row      *)
(* carries for that participant, for all of them are optional; flag is the *)
(* side of Participant1 ("home", "away"), or NoFlag when the row does not  *)
(* say.  Time is counted in half hours since the kick-off.                 *)
(***************************************************************************)
EXTENDS Integers, Sequences, SequencesExt

Side == {"P1", "P2"}
Field == {"H1", "H2", "Total"}
NoFlag == "absent"
NoScore == [home |-> -1, away |-> -1]    \* a score that is null or undefined

HomeFirst(p1, p2, p1IsHome) ==
    IF p1IsHome THEN [home |-> p1, away |-> p2] ELSE [home |-> p2, away |-> p1]

-----------------------------------------------------------------------------
(* settlement.ts *)

\* Mutant: an interruption counts as an abandonment.
PhaseActionNoHold(code) ==
    CASE code \in {5, 10, 13} -> "resolve"
      [] code \in {14, 15, 16, 17, 18, 19} -> "cancel"
      [] OTHER -> "none"

PhaseAction(code) ==
    CASE code \in {5, 10, 13} -> "resolve"
      [] code \in {15, 16, 17, 19} -> "cancel"
      [] code \in {14, 18} -> "hold"
      [] OTHER -> "none"

MATCH_RESULT == 0
OVER_UNDER == 1
CORRECT_SCORE == 2
BTTS == 3
ODD_EVEN == 4
DEFAULT_CS_CAP == 4

Least(a, b) == IF a <= b THEN a ELSE b

CorrectScoreIndex(home, away, cap) ==
    Least(home, cap) * (cap + 1) + Least(away, cap)

\* The line of an OVER_UNDER market is ten times the number of goals.
WinningOutcome(type, param, score) ==
    CASE type = MATCH_RESULT ->
            IF score.home > score.away THEN 0 ELSE IF score.home = score.away THEN 1 ELSE 2
      [] type = OVER_UNDER -> IF 10 * (score.home + score.away) > param THEN 1 ELSE 0
      [] type = CORRECT_SCORE ->
            CorrectScoreIndex(score.home, score.away, IF param > 0 THEN param ELSE DEFAULT_CS_CAP)
      [] type = BTTS -> IF score.home >= 1 /\ score.away >= 1 THEN 1 ELSE 0
      [] type = ODD_EVEN -> (score.home + score.away) % 2

-----------------------------------------------------------------------------
(* The stream: worker.ts *)

GAME_STATE_PHASE == [F |-> 5, FET |-> 10, FPE |-> 13, I |-> 14, A |-> 15,
                     C |-> 16, TXCC |-> 17, TXCS |-> 18, P |-> 19]

PhaseCodeFromScoreRow(row) ==
    IF row.state \in DOMAIN GAME_STATE_PHASE THEN GAME_STATE_PHASE[row.state] ELSE 0

\* A field of a participant's block, or another value when it is missing (??).
FieldOr(block, f, other) == IF f \in DOMAIN block THEN block[f] ELSE other

\* Mutant: the later half is preferred to the sum.
ParticipantGoalsLastHalf(block) ==
    FieldOr(block, "H2", FieldOr(block, "H1", FieldOr(block, "Total", -1)))

\* The two halves when either is there, else the total; -1 when nothing is.
ParticipantGoals(block) ==
    IF DOMAIN block \cap {"H1", "H2"} # {}
    THEN FieldOr(block, "H1", 0) + FieldOr(block, "H2", 0)
    ELSE FieldOr(block, "Total", -1)

ScoreFromRow(row) ==
    LET p1 == ParticipantGoals(row.goals["P1"])
        p2 == ParticipantGoals(row.goals["P2"])
    IN  IF p1 = -1 \/ p2 = -1 THEN NoScore
        ELSE HomeFirst(p1, p2, row.flag # "away")

\* Mutant: the phases that mean wait are not returned from.
StreamDecisionNoReturn(row) ==
    [action |-> PhaseAction(PhaseCodeFromScoreRow(row)), score |-> ScoreFromRow(row)]

\* settleFixture's early returns.
StreamDecision(row) ==
    LET action == PhaseAction(PhaseCodeFromScoreRow(row))
        score == ScoreFromRow(row)
    IN  IF action = "cancel" THEN [action |-> "cancel", score |-> NoScore]
        ELSE IF action = "resolve" /\ score # NoScore THEN [action |-> "resolve", score |-> score]
        ELSE [action |-> "none", score |-> NoScore]

-----------------------------------------------------------------------------
(* The snapshot: normalize-fixtures.ts *)

FINISHED_STATES == {"F", "FET", "FPE", "A", "C"}
LIVE_STATES == {"H1", "HT", "H2", "ET1", "HTET", "ET2", "WET", "WPE", "PE", "I"}

ExtractParticipantGoals(block) ==
    FieldOr(block, "Total", FieldOr(block, "H2", FieldOr(block, "H1", -1)))

HasGoals(row) == \E s \in Side : ExtractParticipantGoals(row.goals[s]) # -1

\* elapsed counts half hours, negative before the kick-off: at 4 more than two
\* hours have passed, at 5 more than two and a half.
DeriveStatus(state, hasScore, elapsed) ==
    IF state \in FINISHED_STATES THEN "finished"
    ELSE IF state \in LIVE_STATES THEN "live"
    ELSE IF elapsed < 0 THEN "scheduled"
    ELSE IF elapsed >= 5 \/ (state \in {"NS", "P"} /\ hasScore /\ elapsed >= 4) THEN "finished"
    ELSE "live"

\* rows are ordered by their time-stamps; the latest one with goals counts, or
\* the latest one when none has goals.
LatestRow(rows) ==
    LET withGoals == {i \in DOMAIN rows : HasGoals(rows[i])}
    IN  rows[Max(IF withGoals # {} THEN withGoals ELSE DOMAIN rows)]

\* The status and the score of a fixture: scoresFromSnapshot when there is a
\* row, toOddtasyFixture's default when there is none.
FixtureFromSnapshot(rows, p1IsHome, elapsed) ==
    IF rows = <<>>
    THEN [status |-> DeriveStatus("", FALSE, elapsed), score |-> NoScore]
    ELSE LET latest == LatestRow(rows)
             p1 == ExtractParticipantGoals(latest.goals["P1"])
             p2 == ExtractParticipantGoals(latest.goals["P2"])
         IN  [status |-> DeriveStatus(latest.state, HasGoals(latest), elapsed),
              score |-> HomeFirst(IF p1 = -1 THEN 0 ELSE p1, IF p2 = -1 THEN 0 ELSE p2, p1IsHome)]

\* What reconcilePools makes of a fixture.
SweepDecision(fx) ==
    IF fx.status = "finished" /\ fx.score # NoScore
    THEN [action |-> "resolve", score |-> fx.score]
    ELSE [action |-> "none", score |-> NoScore]

=============================================================================
