------------------------------- MODULE MCFeed -------------------------------
(***************************************************************************)
(* What the server and the pages make of the feed: a match and its         *)
(* settlement (MatchFeed), the cache of the fixtures (Fixtures), the       *)
(* markets (Markets) and the live pitch (LiveStage).                       *)
(*                                                                         *)
(* These parts share no state, so one run checks them side by side: part   *)
(* says which of them a behaviour is about, and the others stand still.    *)
(* A part that is checked with two sets of bounds appears twice.           *)
(***************************************************************************)
EXTENDS MCMatchFeed, TLC

CONSTANTS wc, fr, l1, l2

VARIABLES
    part,
    now, raw, score, past, cache, jwt, valid, load, served, faults,   \* of Fixtures
    odds, source, offered, selection, result,                         \* of Markets
    match, scorers, half, secondHalf, over, homeFirst, queue, row, polled, prev, pops \* of LiveStage

fixturesVars == <<now, raw, score, past, cache, jwt, valid, load, served, faults>>
marketsVars == <<odds, source, offered, selection, result>>
liveVars == <<match, scorers, half, secondHalf, over, homeFirst, queue, row, polled, prev, pops>>
matchVars == <<phase, goals, p1IsHome, rows, elapsed, decision>>

-----------------------------------------------------------------------------
(* Fixtures: the age of the cache, and the faults of a load. *)

Fresh == INSTANCE Fixtures WITH
    Load <- {l1, l2}, Fixture <- {wc}, WorldCup <- {wc}, Friendly <- {}, CacheMs <- 2,
    MaxTime <- 4, MaxChanges <- 1, MaxFaults <- 0, MaxExpiries <- 0

Faulty == INSTANCE Fixtures WITH
    Load <- {l1, l2}, Fixture <- {wc, fr}, WorldCup <- {wc}, Friendly <- {fr}, CacheMs <- 1,
    MaxTime <- 0, MaxChanges <- 1, MaxFaults <- 1, MaxExpiries <- 1

-----------------------------------------------------------------------------
(* Markets: a pick and its result, and the prices of two snapshots. *)

Outcome(name, pct) == [name |-> name, pct |-> pct, price |-> 1000000 \div pct]
NoPct(outcome) == [outcome EXCEPT !.pct = 0]
Quoted(type, period, line, outcomes) ==
    [type |-> type, period |-> period, line |-> line, outcomes |-> outcomes]
MatchOdds(a, b, c) == <<Outcome("PART1", a), Outcome("DRAW", b), Outcome("PART2", c)>>
Totals(upper, lower) == <<Outcome("OVER", upper), Outcome("UNDER", lower)>>
Unshared(upper, lower) == <<NoPct(Outcome("OVER", upper)), NoPct(Outcome("UNDER", lower))>>

\* Two books of the match result and one that is not full, one of a half, two
\* lines of goals, one of which has no Pct, a handicap, and correct scores of
\* which one is not named.
HalfLines ==
    {Quoted("1X2", "null", 0, MatchOdds(500, 300, 200)),
     Quoted("1X2", "null", 0, MatchOdds(600, 250, 150)),
     Quoted("1X2", "null", 0, <<Outcome("PART1", 550), Outcome("OTHER", 450)>>),
     Quoted("1X2", "H1", 0, MatchOdds(400, 400, 200)),
     Quoted("OU", "null", 25, Unshared(510, 490)),
     Quoted("OU", "null", 75, Totals(20, 980)),
     Quoted("AH", "null", 5, Totals(600, 400)),
     Quoted("CS", "null", 0, <<Outcome("s30", 30), Outcome("s10", 120), Outcome("s02", 90), Outcome("OTHER", 20)>>)}

Picks == INSTANCE Markets WITH
    Quotable <- HalfLines, MaxRows <- 1, Cap <- {1, 2, 4}, Source <- {"hybrid", "txline"},
    MaxGoals <- 5, P1IsHome <- TRUE, snapshot <- odds

Prices == INSTANCE Markets WITH
    Quotable <- HalfLines, MaxRows <- 2, Cap <- {1, 4, 6}, Source <- {"txline", "model", "hybrid"},
    MaxGoals <- 0, P1IsHome <- TRUE, snapshot <- odds

-----------------------------------------------------------------------------
(* LiveStage: a match whose rows all come with a Total, one of which a goal  *)
(* is taken back, and one whose rows lack things, come late or are lost.     *)

Of(h, w) == [home |-> h, away |-> w]
WholeRows == {Of({"Total", "H2", "H1"}, {"Total", "H2", "H1"})}
PartialRows == {Of({"Total"}, {"Total"}), Of({"H2", "H1"}, {"H1"}), Of({}, {})}

Prompt == INSTANCE LiveStage WITH
    MaxGoals <- 5, RowShape <- WholeRows, MayDisallow <- FALSE, MayMiss <- FALSE,
    MayRunLate <- FALSE, MaxLate <- 1, goals <- match, score <- row, snapshot <- polled

Disallowed == INSTANCE LiveStage WITH
    MaxGoals <- 2, RowShape <- WholeRows, MayDisallow <- TRUE, MayMiss <- FALSE,
    MayRunLate <- FALSE, MaxLate <- 1, goals <- match, score <- row, snapshot <- polled

Lacking == INSTANCE LiveStage WITH
    MaxGoals <- 1, RowShape <- PartialRows, MayDisallow <- FALSE, MayMiss <- TRUE,
    MayRunLate <- TRUE, MaxLate <- 1, goals <- match, score <- row, snapshot <- polled

ASSUME FeedParts ==
    /\ SidesSaid /\ HalvesSaid
    /\ Fresh!FixturesTypes /\ Faulty!FixturesTypes
    /\ Picks!MarketTypes /\ Picks!QuotableTypes /\ Picks!HalfLines /\ Picks!GridsHaveCells
    /\ Prices!MarketTypes /\ Prices!QuotableTypes /\ Prices!HalfLines /\ Prices!GridsHaveCells
    /\ Prompt!LiveStageTypes /\ Disallowed!LiveStageTypes /\ Lacking!LiveStageTypes

-----------------------------------------------------------------------------

FeedInit ==
    /\ part \in {"match", "fresh", "faulty", "picks", "prices", "prompt", "disallowed", "lacking"}
    /\ Init /\ (part # "match" => p1IsHome)
    /\ IF part = "faulty" THEN Faulty!Init ELSE Fresh!Init
    /\ Picks!Init
    /\ Prompt!Init /\ (part \notin {"prompt", "disallowed", "lacking"} => homeFirst)

FeedNext ==
    /\ UNCHANGED part
    /\ \/ /\ part = "match" /\ Next
          /\ UNCHANGED <<now, raw, score, past, cache, jwt, valid, load, served, faults>>
          /\ UNCHANGED marketsVars /\ UNCHANGED liveVars
       \/ /\ \/ part = "fresh" /\ Fresh!Next
             \/ part = "faulty" /\ Faulty!Next
          /\ UNCHANGED matchVars /\ UNCHANGED marketsVars /\ UNCHANGED liveVars
       \/ /\ \/ part = "picks" /\ Picks!Next
             \/ part = "prices" /\ Prices!Next
          /\ UNCHANGED matchVars /\ UNCHANGED fixturesVars /\ UNCHANGED liveVars
       \/ /\ \/ part = "prompt" /\ Prompt!Next
             \/ part = "disallowed" /\ Disallowed!Next
             \/ part = "lacking" /\ Lacking!Next
          /\ UNCHANGED matchVars /\ UNCHANGED fixturesVars /\ UNCHANGED marketsVars

FeedSpec == FeedInit /\ [][FeedNext]_<<part, matchVars, fixturesVars, marketsVars, liveVars>>

Symmetry == Permutations({l1, l2})

-----------------------------------------------------------------------------
(* The properties of the parts. *)

\* Every part's variables hold what its operations write, and its inductive
\* invariant holds where it is stated.
FeedTypeOK ==
    /\ part = "match" => IInv
    /\ part = "fresh" => Fresh!IInv
    /\ part = "faulty" => Faulty!IInv
    /\ part = "picks" => Picks!IInv
    /\ part = "prices" => Prices!IInv
    /\ part = "prompt" => Prompt!IInv
    /\ part = "disallowed" => Disallowed!TypeOK
    /\ part = "lacking" => Lacking!TypeOK

\* What the cache serves is fresh enough, however loads overlap (index.ts:31),
\* has every fixture though a score could not be had, and survives a token that
\* expires during a load (client.ts:36).
FixturesServed ==
    /\ part = "fresh" => Fresh!FreshEnough
    /\ part = "faulty" => Faulty!AllFixtures /\ Faulty!ExpirySurvived

\* A pick wins exactly when its button says so (settlement.ts:44), and the model
\* prices an option by the scores it is settled to (engine.ts).
MarketsAgree == Picks!PickWinsAsNamed /\ Prices!PricedAsSettled

\* Of the rows of a fixture a load takes the newest (normalize-fixtures.ts:143),
\* and a book of TxLINE overrides the model with its newest row (routes.ts).
NewestRowWins == Faulty!NewestRow /\ Prices!BookOverrides


=============================================================================
