----------------------------- MODULE LiveStage -----------------------------
(***************************************************************************)
(* The live pitch of a pool's page (src/web/src/components/live-stage.tsx): *)
(* what it shows of a match from two sources, the rows of the score stream *)
(* (hooks/use-live-score.ts, extractLiveScore of lib/types.ts) and the     *)
(* fixtures it polls, and the goals it pops up.  A row has the goals of    *)
(* the two participants, of whom either may be at home: of the match, of   *)
(* its halves, or none.  Extra time is left out: its goals are in a Total  *)
(* and in neither half.                                                    *)
(***************************************************************************)
EXTENDS Integers, Sequences

LOCAL INSTANCE SequencesExt

CONSTANTS
    MaxGoals,
    RowShape,     \* the fields a row may have of each side: Total, H2, H1
    MayDisallow,  \* a goal may be taken back
    MayMiss,      \* rows may be late, or lost while the stream is down
    MayRunLate,   \* the clock may finish the fixture while the match is on
    MaxLate       \* rows on their way at a time

VARIABLES
    goals, scorers,  \* the match: its score, the sides in the order they scored
    half,            \* the goals of its first half
    secondHalf, over,
    homeFirst,       \* Participant1IsHome
    queue,           \* rows on their way
    score,           \* useLiveScore's last row, or NoRow
    snapshot,        \* the polled fixture: [home, away, finished]
    prev, pops

vars == <<goals, scorers, half, secondHalf, over, homeFirst, queue, score, snapshot, prev, pops>>
matchVars == <<goals, scorers, half, secondHalf, over, homeFirst>>

Side == {"home", "away"}
null == -1

LiveStageTypes ==
    /\ MaxGoals \in Nat /\ MaxLate \in Nat
    /\ RowShape \subseteq [Side -> SUBSET {"Total", "H2", "H1"}]
    /\ {MayDisallow, MayMiss, MayRunLate} \subseteq BOOLEAN

Row == [p1 : Nat \cup {null}, p2 : Nat \cup {null}, final : BOOLEAN]
NoRow == [p1 |-> null, p2 |-> null, final |-> FALSE]

\* The goals read from the fields of one side: Total ?? H2 ?? H1 ?? null.
Reading(fields, all, first) ==
    IF "Total" \in fields THEN all
    ELSE IF "H2" \in fields THEN all - first
    ELSE IF "H1" \in fields THEN first ELSE null

\* What a row of a shape says of the score g with h in the first half.
Said(shape, g, h) == [side \in Side |-> Reading(shape[side], g[side], h[side])]

\* extractLiveScore, of a row that says the score g in a phase that is final or not.
RowOf(g, final) ==
    [p1 |-> IF homeFirst THEN g.home ELSE g.away, p2 |-> IF homeFirst THEN g.away ELSE g.home,
     final |-> final]

Or(a, b) == IF a = null THEN b ELSE a

\* homeScore and awayScore: the stream first, the fixture second, side by side.
Shown(row, fixture) ==
    [home |-> Or(IF homeFirst THEN row.p1 ELSE row.p2, fixture.home),
     away |-> Or(IF homeFirst THEN row.p2 ELSE row.p1, fixture.away)]

OnScreen == Shown(score, snapshot)

Full(g) == g.home # null /\ g.away # null
KeepThree(s) == SubSeq(s, IF Len(s) > 3 THEN Len(s) - 2 ELSE 1, Len(s))

\* FINAL_PHASES has the phase of the row (or of the fixture, whose status then is
\* "finished" too), and resultKnown: full time is claimed with what is on the screen.
FullTime == (score.final \/ snapshot.finished) /\ Full(OnScreen)


\* The effect on homeScore and awayScore.
Effect(now) ==
    IF ~Full(now) THEN UNCHANGED <<prev, pops>>
    ELSE /\ prev' = now
         /\ pops' = IF ~Full(prev) \/ now = prev THEN pops
                    ELSE Append(KeepThree(pops),
                           [side |-> IF now.home > prev.home THEN "home" ELSE "away", score |-> now])

Init ==
    /\ goals = [home |-> 0, away |-> 0] /\ scorers = <<>>
    /\ half = goals /\ secondHalf = FALSE /\ over = FALSE
    /\ homeFirst \in BOOLEAN
    /\ queue = <<>> /\ score = NoRow
    /\ snapshot = [home |-> null, away |-> null, finished |-> FALSE]
    /\ prev = [home |-> null, away |-> null] /\ pops = <<>>

-----------------------------------------------------------------------------
(* The match and its feed *)

\* The row of the last event has arrived, and the page has opened with a score.
Prompt ==
    /\ Len(queue) < MaxLate
    /\ MayMiss \/ (queue = <<>> /\ Full(prev))

Goal(side) ==
    /\ ~over /\ Len(scorers) < MaxGoals /\ Prompt
    /\ goals' = [goals EXCEPT ![side] = @ + 1]
    /\ half' = IF secondHalf THEN half ELSE goals'
    /\ scorers' = Append(scorers, side)
    /\ \E shape \in RowShape : queue' = Append(queue, RowOf(Said(shape, goals', half'), FALSE))
    /\ UNCHANGED <<secondHalf, over, homeFirst, score, snapshot, prev, pops>>

\* The last goal is taken back, in its own half.
Disallow ==
    /\ MayDisallow /\ ~over /\ scorers # <<>> /\ Prompt
    /\ secondHalf => goals[Last(scorers)] > half[Last(scorers)]
    /\ goals' = [goals EXCEPT ![Last(scorers)] = @ - 1]
    /\ half' = IF secondHalf THEN half ELSE goals'
    /\ scorers' = Front(scorers)
    /\ \E shape \in RowShape : queue' = Append(queue, RowOf(Said(shape, goals', half'), FALSE))
    /\ UNCHANGED <<secondHalf, over, homeFirst, score, snapshot, prev, pops>>

HalfTime ==
    /\ ~secondHalf /\ ~over /\ secondHalf' = TRUE
    /\ UNCHANGED <<goals, scorers, half, over, homeFirst, queue, score, snapshot, prev, pops>>

\* A row about anything else; of a match that is over, in a final phase or without one.
OtherEvent ==
    /\ queue = <<>>
    /\ \E shape \in RowShape, final \in {FALSE, over} :
         queue' = <<RowOf(Said(shape, goals, half), final)>>
    /\ UNCHANGED <<goals, scorers, half, secondHalf, over, homeFirst, score, snapshot, prev, pops>>

\* The match is played out, or abandoned, which is no final phase.
MatchEnds ==
    /\ ~over /\ Prompt /\ over' = TRUE
    /\ \E shape \in RowShape, final \in BOOLEAN :
         queue' = Append(queue, RowOf(Said(shape, goals, half), final))
    /\ UNCHANGED <<goals, scorers, half, secondHalf, homeFirst, score, snapshot, prev, pops>>

-----------------------------------------------------------------------------
(* The page *)

\* The stream is open until the fixture is finished.
RowArrives ==
    /\ queue # <<>> /\ ~snapshot.finished
    /\ score' = Head(queue) /\ queue' = Tail(queue)
    /\ Effect(Shown(score', snapshot))
    /\ UNCHANGED matchVars /\ UNCHANGED snapshot

\* The stream was down, or is closed, and its rows are not sent again.
RowMissed ==
    /\ (MayMiss \/ snapshot.finished) /\ queue # <<>> /\ queue' = Tail(queue)
    /\ UNCHANGED matchVars /\ UNCHANGED <<score, snapshot, prev, pops>>

\* scoresFromSnapshot: a missing score is 0; no score at all when there are no rows.
Polled(shape, scored) ==
    [side \in Side |-> IF scored THEN Or(Said(shape, goals, half)[side], 0) ELSE null]

\* useFixtures: the list is fetched again and again.  A fixture is finished some time
\* after its match, or by the clock, 2.5 hours after kick-off, when no row says it is on.
Poll ==
    /\ MayMiss \/ queue = <<>>
    /\ \E shape \in RowShape, scored \in BOOLEAN, finished \in BOOLEAN :
         /\ finished => over \/ MayRunLate
         /\ snapshot' = [home |-> Polled(shape, scored).home, away |-> Polled(shape, scored).away,
                         finished |-> finished]
    /\ Effect(Shown(score, snapshot'))
    /\ UNCHANGED matchVars /\ UNCHANGED <<queue, score>>

\* A pop is taken away after 8.2 seconds.
Expire ==
    /\ pops # <<>> /\ pops' = Tail(pops)
    /\ UNCHANGED matchVars /\ UNCHANGED <<queue, score, snapshot, prev>>

Next ==
    \/ \E side \in Side : Goal(side)
    \/ Disallow \/ HalfTime \/ OtherEvent \/ MatchEnds \/ RowArrives \/ RowMissed \/ Poll \/ Expire

Spec == Init /\ [][Next]_vars

-----------------------------------------------------------------------------
(* Properties *)

\* Scores are counts, and the screen has room for the pops.
TypeOK ==
    /\ goals \in [Side -> Nat] /\ scorers \in Seq(Side) /\ Len(scorers) <= MaxGoals
    /\ half \in [Side -> Nat] /\ \A side \in Side : half[side] <= goals[side]
    /\ {secondHalf, over, homeFirst} \subseteq BOOLEAN
    /\ queue \in Seq(Row) /\ score \in Row
    /\ pops \in Seq([side : Side, score : [Side -> Nat]]) /\ Len(pops) <= 4
    /\ snapshot \in [home : Nat \cup {null}, away : Nat \cup {null}, finished : BOOLEAN]
    /\ prev \in [Side -> Nat \cup {null}]

\* "Nothing on this surface is invented": what pops up is the last goals, each
\* for the side that scored it, in their order.
PopsTellGoals ==
    Full(prev) /\ queue = <<>> =>
        /\ Len(pops) <= Len(scorers)
        /\ \A i \in 1 .. Len(pops) : pops[i].side = scorers[Len(scorers) - Len(pops) + i]

\* Full time is only claimed with the goals of the match (live-stage.tsx:177).
FinalShown == FullTime => OnScreen = goals

Below(g) == \A side \in Side : g[side] <= goals[side]

\* "Nothing on this surface is invented" (live-stage.tsx:14): whatever a row lacks and
\* whatever is lost, the page shows no goal that was not scored, unless one is taken back.
NoneInvented ==
    MayDisallow \/ (Below(OnScreen) /\ \A i \in 1 .. Len(pops) : Below(pops[i].score))

-----------------------------------------------------------------------------
(* The inductive invariant, of a match whose rows have a Total, come one after another *)
(* and in time, and none of whose goals is taken back                                  *)

CompleteRows == \A shape \in RowShape : \A side \in Side : "Total" \in shape[side]
InTime == CompleteRows /\ ~MayDisallow /\ ~MayMiss /\ ~MayRunLate

RowsTrue ==
    \/ queue = <<>>
    \/ \E final \in BOOLEAN : (final => over) /\ queue = <<RowOf(goals, final)>>

\* The score last shown: of the match, or all but the goal whose row is on its way.
Pending == Full(prev) /\ prev # goals

OneBehind ==
    /\ ~Full(prev) => scorers = <<>> /\ pops = <<>>
    /\ Full(prev) => prev \in [Side -> Nat]
    /\ Pending =>
         /\ queue # <<>> /\ scorers # <<>> /\ ~over
         /\ goals = [prev EXCEPT ![scorers[Len(scorers)]] = @ + 1]

\* Both sources give what was shown last, or nothing, and are final only in the end.
SourcesAgree ==
    /\ \/ /\ score = NoRow
          /\ \/ snapshot.home = prev.home /\ snapshot.away = prev.away
             \/ snapshot.home = null /\ snapshot.away = null
       \/ Full(prev) /\ \E final \in BOOLEAN : score = RowOf(prev, final)
    /\ score.final \/ snapshot.finished => over

\* The pops are of the last goals that were shown.
PopsTellShown ==
    LET shown == Len(scorers) - (IF Pending THEN 1 ELSE 0)
    IN  /\ Len(pops) <= shown
        /\ \A i \in 1 .. Len(pops) : pops[i].side = scorers[shown - Len(pops) + i]

IInv == TypeOK /\ RowsTrue /\ OneBehind /\ SourcesAgree /\ PopsTellShown

=============================================================================
