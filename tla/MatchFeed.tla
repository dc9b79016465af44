----------------------------- MODULE MatchFeed -----------------------------
(***************************************************************************)
(* One match, the rows its feed publishes, and the two paths by which the  *)
(* server settles the pools on it: the stream handler, which sees a row    *)
(* when it is pushed, and the sweep, which reads the snapshot of all rows  *)
(* (settlement/worker.ts, txline/normalize-fixtures.ts).                   *)
(*                                                                         *)
(* The match is the world: it goes through its phases, goals are scored in *)
(* the first half, the second half and extra time, and it may be           *)
(* interrupted, abandoned, postponed or lose its coverage.  The feed       *)
(* publishes truthful rows, of which any field may be missing: Shape says  *)
(* which fields a row may carry.  A row may be pushed, or only appear in   *)
(* the snapshot.                                                           *)
(***************************************************************************)
EXTENDS Scores

CONSTANTS
    Shape,        \* the fields a row may carry for each participant
    Flag,         \* what a row may say of the home side: TRUE (it says), FALSE (absent)
    Ending,       \* game states in which the match may end without a final whistle
    ExtraTime,    \* may the match go to extra time?
    MaxGoals,     \* goals of one side in one period
    MaxRows,      \* rows published
    MaxElapsed    \* half hours since the kick-off

VARIABLES
    phase,      \* the game state of the match
    goals,      \* goals by side and period
    p1IsHome,   \* the fixture's Participant1IsHome
    rows,       \* the scores snapshot, oldest row first
    elapsed,    \* half hours since the kick-off, -1 before it
    decision    \* what the server settled the match's pools to, and by which path

vars == <<phase, goals, p1IsHome, rows, elapsed, decision>>

Period == {"H1", "H2", "ET"}
Undecided == [by |-> "nobody", action |-> "none", score |-> NoScore]
Held == {"I", "TXCS"}                 \* interrupted; coverage suspended
CalledOff == {"A", "C", "P", "TXCC"}  \* abandoned, cancelled, postponed, coverage cancelled
Over == {"F", "FET", "FPE"}

ASSUME FeedTypes ==
    /\ Shape \subseteq [Side -> SUBSET Field] /\ Flag \subseteq BOOLEAN
    /\ Ending \subseteq Held \cup CalledOff /\ ExtraTime \in BOOLEAN
    /\ MaxGoals \in Nat /\ MaxRows \in Nat /\ MaxElapsed \in Nat

Init ==
    /\ phase = "NS" /\ elapsed = -1
    /\ goals = [s \in Side |-> [p \in Period |-> 0]]
    /\ p1IsHome \in BOOLEAN
    /\ rows = <<>>
    /\ decision = Undecided

-----------------------------------------------------------------------------
(* The match *)

Tick ==
    /\ elapsed < MaxElapsed
    /\ elapsed' = elapsed + 1
    /\ UNCHANGED <<phase, goals, p1IsHome, rows, decision>>

\* The states a match goes through, and when it may: HT, WET, HTET and WPE,
\* which the code treats like the halves around them, are left out.
Advance(next) ==
    /\ \/ phase = "NS" /\ next = "H1" /\ elapsed >= 0
       \/ phase = "H1" /\ next = "H2" /\ elapsed >= 1
       \/ phase = "H2" /\ next = "F" /\ elapsed >= 3
       \/ phase = "H2" /\ next = "ET1" /\ elapsed >= 3 /\ ExtraTime
       \/ phase = "ET1" /\ next \in {"FET", "PE"}
       \/ phase = "PE" /\ next = "FPE"
       \/ phase \in {"H1", "H2"} /\ next \in Ending \cap (Held \cup {"A", "TXCC"})
       \/ phase = "NS" /\ next \in Ending \cap {"C", "P"}
       \/ phase \in Held /\ next = "H2"
    /\ phase' = next
    /\ UNCHANGED <<goals, p1IsHome, rows, elapsed, decision>>

Goal(s) ==
    LET p == IF phase = "ET1" THEN "ET" ELSE phase
    IN  /\ phase \in {"H1", "H2", "ET1"}
        /\ goals[s][p] < MaxGoals
        /\ goals' = [goals EXCEPT ![s][p] = @ + 1]
        /\ UNCHANGED <<phase, p1IsHome, rows, elapsed, decision>>

\* What a field says of a side: Total counts every goal of the match.
FieldValue(s, f) ==
    IF f = "Total" THEN goals[s]["H1"] + goals[s]["H2"] + goals[s]["ET"] ELSE goals[s][f]

Row(shape, says) ==
    [state |-> phase,
     goals |-> [s \in Side |-> [f \in shape[s] |-> FieldValue(s, f)]],
     flag |-> IF ~says THEN NoFlag ELSE IF p1IsHome THEN "home" ELSE "away"]

Settle(path, d) ==
    decision' = IF decision = Undecided /\ d.action # "none"
                THEN [by |-> path, action |-> d.action, score |-> d.score]
                ELSE decision

\* A row is published in the snapshot only.
Publish(row) ==
    /\ Len(rows) < MaxRows
    /\ rows' = Append(rows, row)
    /\ UNCHANGED <<phase, goals, p1IsHome, elapsed, decision>>

\* A row is published and pushed: the worker's listener hands it to
\* settleFixture, which settles the pools that are not settled yet.
Push(row) ==
    /\ Len(rows) < MaxRows
    /\ rows' = Append(rows, row)
    /\ Settle("stream", StreamDecision(row))
    /\ UNCHANGED <<phase, goals, p1IsHome, elapsed>>

\* reconcilePools reads the snapshot of a match that should have started.
Sweep ==
    /\ elapsed >= 0
    /\ Settle("sweep", SweepDecision(FixtureFromSnapshot(rows, p1IsHome, elapsed)))
    /\ UNCHANGED <<phase, goals, p1IsHome, rows, elapsed>>

PublishOrPush ==
    \E shape \in Shape, says \in Flag :
        LET row == Row(shape, says) IN Publish(row) \/ Push(row)

Next ==
    \/ Tick
    \/ \E next \in {"H1", "H2", "ET1", "PE"} \cup Over \cup Held \cup CalledOff : Advance(next)
    \/ \E s \in Side : Goal(s)
    \/ PublishOrPush
    \/ Sweep

Spec == Init /\ [][Next]_vars

-----------------------------------------------------------------------------

Phase == {"NS", "H1", "H2", "ET1", "PE"} \cup Over \cup Held \cup CalledOff
GoalsOfBlock == UNION {[fields -> 0 .. 3 * MaxGoals] : fields \in SUBSET Field}
FeedRow == [state : Phase, goals : [Side -> GoalsOfBlock], flag : {NoFlag, "home", "away"}]

TypeOK ==
    /\ phase \in Phase
    /\ goals \in [Side -> [Period -> 0 .. MaxGoals]]
    /\ p1IsHome \in BOOLEAN /\ elapsed \in -1 .. MaxElapsed
    /\ rows \in Seq(FeedRow) /\ Len(rows) <= MaxRows
    /\ decision.by \in {"nobody", "stream", "sweep"}
    /\ decision.action \in {"none", "resolve", "cancel"}

\* The score at the end of the second half.
NinetyMinutes ==
    HomeFirst(goals["P1"]["H1"] + goals["P1"]["H2"], goals["P2"]["H1"] + goals["P2"]["H2"], p1IsHome)

\* The sweep settles at a time when deriveStatus takes a match for finished
\* whatever its last row says.
ByTheClock == decision'.by = "sweep" /\ elapsed >= 4

\* A row has all the goals of both sides.
Complete(row) == \A s \in Side : DOMAIN row.goals[s] = Field

Reported == \E i \in 1 .. Len(rows) : HasGoals(rows[i])

\* Once the match is over, a pool is resolved to the goals of its two halves
\* and no others, by whichever path comes first (settlement.ts: "All MVP markets
\* settle on this"; worker.ts: participantGoals; normalize-fixtures.ts:
\* extractParticipantGoals).
SettlesOnNinetyMinutes ==
    [][decision' # decision /\ decision'.action = "resolve" /\ phase \in Over =>
           decision'.score = NinetyMinutes]_vars

\* The same of a match without extra time, when every row has all the goals of
\* both sides and the clock is not taken for the final whistle: the stream and the
\* sweep, which read other fields, then agree with the match.
RegulationSettles ==
    [][decision' # decision /\ decision'.action = "resolve" /\ phase = "F"
         /\ ~ByTheClock /\ (\A i \in 1 .. Len(rows') : Complete(rows'[i])) =>
           decision'.score = NinetyMinutes]_vars

\* What the stream resolves is the 90-minute score of a match that is over,
\* penalties and extra time or not.
StreamSettlesOnNinetyMinutes ==
    decision.by = "stream" /\ decision.action = "resolve" =>
        phase \in Over /\ decision.score = NinetyMinutes

\* While the last row says interrupted or suspended, neither path settles
\* (settlement.ts:18: hold means wait).
\* The code does not keep this: README, "Where the code and its documents disagree".
HoldWaits ==
    [][decision' # decision => rows' = <<>> \/ LatestRow(rows').state \notin Held]_vars

\* While a match is being played, held up or has not begun nothing is settled,
\* with whatever rows: by the stream never, and by the sweep not before the time
\* at which deriveStatus takes any match for finished.
NotBeforeTheEnd ==
    [][decision' # decision /\ ~ByTheClock =>
           phase \in Over \cup CalledOff]_vars

\* Nobody is paid for a match whose score the feed never sent.
\* The code does not keep this: README, "Where the code and its documents disagree".
NoScoreNoResult == decision.action = "resolve" => Reported

\* Both paths read one row of a finished match alike, when the row carries all
\* the goals of both sides: a match is not settled two ways (the stream counts
\* H1 + H2, the snapshot takes Total, else H2: worker.ts:51).
PathsAgree ==
    \A i \in 1 .. Len(rows) :
        /\ rows[i].state = "F"
        /\ Complete(rows[i])
        /\ LatestRow(rows) = rows[i]
        => FixtureFromSnapshot(rows, p1IsHome, elapsed) =
               [status |-> "finished", score |-> ScoreFromRow(rows[i])]

\* A match is decided alike by both readers of its rows, and by the stream on
\* the goals of ninety minutes (worker.ts:51, normalize-fixtures.ts:30).
DecisionsSound == PathsAgree /\ StreamSettlesOnNinetyMinutes

\* Without extra time the sweep, too, settles on the ninety minutes, and neither
\* reader settles a match that is not over, but by the clock.
SettledAtFullTime == RegulationSettles /\ NotBeforeTheEnd

-----------------------------------------------------------------------------
(* What the feed is taken to say, and the inductive invariant *)

\* Every row says which side is at home: without it the stream takes
\* Participant1 for the home side (worker.ts: participant1IsHome ?? true).
SidesSaid == Flag \subseteq {TRUE}

\* A row that has goals of a participant has those of both halves: without them
\* the stream takes a half, or the total, for the ninety minutes.
HalvesSaid ==
    \A shape \in Shape, s \in Side : shape[s] # {} => {"H1", "H2"} \subseteq shape[s]

\* Nothing happens in a match after a row that says it is over or called off:
\* the row stays true.
FinalRowsTrue ==
    \A i \in DOMAIN rows : rows[i].state \in Over \cup CalledOff =>
        /\ rows[i].state = phase
        /\ \A s \in Side : \A f \in DOMAIN rows[i].goals[s] :
               rows[i].goals[s][f] = FieldValue(s, f)

FlagsTrue == \A i \in DOMAIN rows : rows[i].flag = IF p1IsHome THEN "home" ELSE "away"

ExtraGoalsInExtraTime ==
    phase \notin {"ET1", "PE", "FET", "FPE"} => \A s \in Side : goals[s]["ET"] = 0

\* The inductive invariant.
IInv ==
    /\ TypeOK /\ FinalRowsTrue /\ ExtraGoalsInExtraTime
    /\ SidesSaid => FlagsTrue
    /\ SidesSaid /\ HalvesSaid => StreamSettlesOnNinetyMinutes

=============================================================================
