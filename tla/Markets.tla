------------------------------ MODULE Markets ------------------------------
(***************************************************************************)
(* The markets a fixture is offered with and what a pick on one of them    *)
(* wins: the odds rows of TxLINE (txline/normalize-markets.ts), their      *)
(* mapping to the program's predictions and the model's prices             *)
(* (markets/engine.ts), the merge of the two (markets/routes.ts), the      *)
(* buttons of the page (web components/market-picker.tsx) and, when the    *)
(* match is over, WinningOutcome of module Scores.                         *)
(*                                                                         *)
(* A probability is the set of the cells of the score matrix that are      *)
(* summed up for it.  A share of the feed (Pct, 0 if there is none) is in  *)
(* tenths of a percent, a price is the raw one, and impliedPct is in units *)
(* of 1/100000.  A line is ten times its goals, as in market_param.        *)
(***************************************************************************)
EXTENDS Scores, FiniteSets

CONSTANTS
    Quotable,   \* rows the feed may send: [type, period, line, outcomes]
    MaxRows,
    Cap,        \* correctScoreCap of a request
    Source,     \* "txline", "model" or "hybrid"
    MaxGoals,   \* goals of a side in a result
    P1IsHome

VARIABLES
    snapshot,   \* the odds snapshot, in any order of the time-stamps
    source,     \* the source of the last request
    offered,    \* socialMarkets as the page has them
    selection,  \* the page's selection
    result

vars == <<snapshot, source, offered, selection, result>>

MarketTypes ==
    /\ MaxRows \in Nat /\ MaxGoals \in Nat /\ Cap \subseteq Nat
    /\ Source \subseteq {"txline", "model", "hybrid"} /\ P1IsHome \in BOOLEAN

MAXG == 8
DEFAULT_OU_LINES == {5, 15, 25, 35, 45}
NoSelection == [type |-> -1]

-----------------------------------------------------------------------------
(* normalize-markets.ts *)

MarketKey(row) == <<row.type, row.period, row.line>>

\* The newest row of every market; a market stands where its first row does.
NormalizeMarkets(rows) ==
    LET firsts == {i \in DOMAIN rows : \A j \in 1 .. i - 1 : MarketKey(rows[j]) # MarketKey(rows[i])}
        mine(i) == {r \in ToSet(rows) : MarketKey(r) = MarketKey(rows[i])}
    IN  [i \in firsts |-> CHOOSE r \in mine(i) : \A q \in mine(i) : q.ts <= r.ts]

\* toOutcome: above 1 it is taken for a percentage, else for a fraction; without a
\* share it is that of the price.
ImpliedPct(outcome) ==
    IF outcome.pct > 10 THEN 100 * outcome.pct
    ELSE IF outcome.pct > 0 THEN 10000 * outcome.pct
    ELSE IF outcome.price > 0 THEN 100000000 \div outcome.price ELSE 0

-----------------------------------------------------------------------------
(* engine.ts: TxLINE's markets *)

IsFullTime(row) == row.period \in {"null", "FT"}

\* The full-time markets of a type, the first of which is the one the code finds.
Found(markets, type) ==
    {i \in DOMAIN markets : markets[i].type = type /\ IsFullTime(markets[i])}

TxlineOption(prediction, outcome) ==
    [prediction |-> prediction, src |-> "txline", name |-> outcome.name,
     implied |-> ImpliedPct(outcome)]

PredictionFor1x2 == [PART1 |-> 0, DRAW |-> 1, PART2 |-> 2]
PredictionForOverUnder == [UNDER |-> 0, OVER |-> 1]

\* The options of the outcomes whose names are known.
TxlineOptions(names, row) ==
    {TxlineOption(names[o.name], o) : o \in {x \in ToSet(row.outcomes) : x.name \in DOMAIN names}}

TxlineMatchResult(markets) ==
    LET found == Found(markets, "1X2")
        options == TxlineOptions(PredictionFor1x2, markets[Min(found)])
    IN  IF found = {} \/ Cardinality(options) # 3 THEN {}
        ELSE {[type |-> MATCH_RESULT, param |-> 0, line |-> 0, count |-> 3, options |-> options]}

\* The totals with a book of two.
Totals(markets) ==
    {i \in Found(markets, "OU") : Cardinality(TxlineOptions(PredictionForOverUnder, markets[i])) = 2}

\* Mutant: the line is not turned into tenths of a goal.
TxlineOverUnderInGoals(markets) ==
    {[type |-> OVER_UNDER, param |-> markets[i].line \div 10, line |-> markets[i].line, count |-> 2,
      options |-> TxlineOptions(PredictionForOverUnder, markets[i])] : i \in Totals(markets)}

TxlineOverUnder(markets) ==
    {[type |-> OVER_UNDER, param |-> markets[i].line, line |-> markets[i].line, count |-> 2,
      options |-> TxlineOptions(PredictionForOverUnder, markets[i])] : i \in Totals(markets)}

\* parseCorrectScoreOutcome, for the names that the instances use.
ScoreNamed == [s00 |-> [home |-> 0, away |-> 0], s10 |-> [home |-> 1, away |-> 0],
               s02 |-> [home |-> 0, away |-> 2], s30 |-> [home |-> 3, away |-> 0]]

CorrectScorePrediction(home, away, cap) == Least(home, cap) * (cap + 1) + Least(away, cap)

\* Of the outcomes that fall into one cell of the grid the first one counts.
CorrectScoreOptions(outcomes, cap) ==
    LET known == {i \in DOMAIN outcomes : outcomes[i].name \in DOMAIN ScoreNamed}
        cell(i) == LET s == ScoreNamed[outcomes[i].name] IN CorrectScorePrediction(s.home, s.away, cap)
    IN  {TxlineOption(cell(i), outcomes[i]) :
            i \in {x \in known : \A j \in known : j < x => cell(j) # cell(x)}}

TxlineCorrectScore(markets, cap) ==
    LET found == Found(markets, "CS")
        options == CorrectScoreOptions(markets[Min(found)].outcomes, cap)
    IN  IF found = {} \/ options = {} THEN {}
        ELSE {[type |-> CORRECT_SCORE, param |-> cap, line |-> 0, count |-> (cap + 1) * (cap + 1),
               options |-> options]}

TxlineSocialMarkets(markets, cap) ==
    TxlineMatchResult(markets) \cup TxlineOverUnder(markets) \cup TxlineCorrectScore(markets, cap)

-----------------------------------------------------------------------------
(* engine.ts: the model's markets and the unpriced ones *)

Matrix == (0 .. MAXG) \X (0 .. MAXG)
Cells(Test(_, _)) == {c \in Matrix : Test(c[1], c[2])}

OverUnderCells(line, p) ==
    LET over == Cells(LAMBDA h, a : 10 * (h + a) > line)
    IN  IF p = 1 THEN over ELSE Matrix \ over

OutcomeCells(p) ==
    CASE p = 0 -> Cells(LAMBDA h, a : h > a)
      [] p = 1 -> Cells(LAMBDA h, a : h = a)
      [] p = 2 -> Cells(LAMBDA h, a : h < a)

BothTeamsToScoreCells(p) ==
    LET yes == Cells(LAMBDA h, a : h >= 1 /\ a >= 1)
    IN  IF p = 1 THEN yes ELSE Matrix \ yes

OddEvenCells(p) ==
    LET even == Cells(LAMBDA h, a : (h + a) % 2 = 0)
    IN  IF p = 0 THEN even ELSE Matrix \ even

\* foldMatrix: goals of cap and more share the last row and the last column.
\* The option of row home and column away is the one with this prediction.
FoldedCells(cap, p) ==
    UNION {Cells(LAMBDA h, a : Least(h, cap) = ha[1] /\ Least(a, cap) = ha[2]) :
        ha \in {x \in (0 .. cap) \X (0 .. cap) : CorrectScorePrediction(x[1], x[2], cap) = p}}

\* The cells that the model sums up for an option of a market.
ModelCells(m, p) ==
    CASE m.type = MATCH_RESULT -> OutcomeCells(p)
      [] m.type = OVER_UNDER -> OverUnderCells(m.param, p)
      [] m.type = CORRECT_SCORE -> FoldedCells(m.param, p)
      [] m.type = BTTS -> BothTeamsToScoreCells(p)
      [] m.type = ODD_EVEN -> OddEvenCells(p)

\* modelSocialMarkets and blankSocialMarkets offer the same options.
EveryMarket(cap, src) ==
    LET market(type, param, predictions, count) ==
            [type |-> type, param |-> param, line |-> IF type = OVER_UNDER THEN param ELSE 0, count |-> count,
             options |-> {[prediction |-> p, src |-> src, name |-> "", implied |-> 0] : p \in predictions}]
        grid == {CorrectScorePrediction(x[1], x[2], cap) : x \in (0 .. cap) \X (0 .. cap)}
    IN  {market(MATCH_RESULT, 0, 0 .. 2, 3), market(BTTS, 0, 0 .. 1, 2), market(ODD_EVEN, 0, 0 .. 1, 2),
         market(CORRECT_SCORE, cap, grid, (cap + 1) * (cap + 1))}
        \cup {market(OVER_UNDER, line, 0 .. 1, 2) : line \in DEFAULT_OU_LINES}

ModelSocialMarkets(cap) == EveryMarket(cap, "model_fair")
BlankSocialMarkets(cap) == EveryMarket(cap, "unpriced")

-----------------------------------------------------------------------------
(* markets/routes.ts: GET /fixtures/:id/social-options *)

\* Source "hybrid": the model fills in what TxLINE does not price.
Merged(txline, model) ==
    txline \cup {m \in model : \A t \in txline : t.type # m.type \/ t.param # m.param}

\* modelled: the request comes with the two teams' lambdas.
SocialOptions(rows, src, cap, modelled) ==
    LET txline == IF src = "model" THEN {} ELSE TxlineSocialMarkets(NormalizeMarkets(rows), cap)
        model == IF modelled THEN ModelSocialMarkets(cap) ELSE {}
        markets == CASE src = "txline" -> txline [] src = "model" -> model
                     [] src = "hybrid" -> Merged(txline, model)
    IN  IF markets = {} THEN BlankSocialMarkets(cap) ELSE markets

-----------------------------------------------------------------------------
(* The page *)

\* market-picker.tsx, prob: the implied probability is taken for a percentage.
Prob(option) == option.implied \div 100

\* What the buttons of each picker say of a score.
SaysMatchResult(p, s) ==
    (p = 0 /\ s.home > s.away) \/ (p = 1 /\ s.home = s.away) \/ (p = 2 /\ s.home < s.away)

SaysOverUnder(line, p, s) ==
    LET goals == 10 * (s.home + s.away) IN (p = 1 /\ goals > line) \/ (p = 0 /\ goals < line)

SaysBinary(type, p, s) ==
    (p = 1) = IF type = BTTS THEN s.home >= 1 /\ s.away >= 1 ELSE (s.home + s.away) % 2 = 1

SaysCorrectScore(cap, p, s) ==
    LET gl(n, goals) == IF n >= cap THEN goals >= cap ELSE goals = n
    IN  gl(p \div (cap + 1), s.home) /\ gl(p % (cap + 1), s.away)

\* What the button of an option says: that the score s makes it win.
Says(m, p, s) ==
    CASE m.type = MATCH_RESULT -> SaysMatchResult(p, s)
      [] m.type = OVER_UNDER -> SaysOverUnder(m.line, p, s)
      [] m.type = CORRECT_SCORE -> SaysCorrectScore(m.param, p, s)
      [] m.type \in {BTTS, ODD_EVEN} -> SaysBinary(m.type, p, s)

-----------------------------------------------------------------------------

Init ==
    /\ snapshot = <<>> /\ source = "hybrid" /\ offered = {}
    /\ selection = NoSelection /\ result = NoScore

\* TxLINE prices a market anew.
Quote(r) ==
    /\ Len(snapshot) < MaxRows
    /\ LET row == [type |-> r.type, period |-> r.period, line |-> r.line,
                   outcomes |-> r.outcomes, ts |-> Len(snapshot) + 1]
       IN  snapshot' \in {Append(snapshot, row), <<row>> \o snapshot}
    /\ UNCHANGED <<source, offered, selection, result>>

\* The page loads the options before anything is picked.
Load(src, cap, modelled) ==
    /\ selection = NoSelection
    /\ offered' = SocialOptions(snapshot, src, cap, modelled)
    /\ source' = src
    /\ UNCHANGED <<snapshot, selection, result>>

Select(m, option) ==
    /\ selection = NoSelection
    /\ selection' = [type |-> m.type, param |-> m.param, line |-> m.line, prediction |-> option.prediction]
    /\ UNCHANGED <<snapshot, source, offered, result>>

FullTime(s) ==
    /\ selection # NoSelection /\ result = NoScore
    /\ result' = s
    /\ UNCHANGED <<snapshot, source, offered, selection>>

Results == [home : 0 .. MaxGoals, away : 0 .. MaxGoals]

Next ==
    \/ \E r \in Quotable : Quote(r)
    \/ \E src \in Source, cap \in Cap, modelled \in BOOLEAN : Load(src, cap, modelled)
    \/ \E m \in offered : \E option \in m.options : Select(m, option)
    \/ \E s \in Results : FullTime(s)

Spec == Init /\ [][Next]_vars

-----------------------------------------------------------------------------

OddsRow ==
    {[type |-> r.type, period |-> r.period, line |-> r.line, outcomes |-> r.outcomes, ts |-> n] :
        r \in Quotable, n \in 1 .. MaxRows}

\* Every option has a prediction of its own that the program takes
\* (enter_pool: prediction < outcome_count).
TypeOK ==
    /\ snapshot \in Seq(OddsRow) /\ Len(snapshot) <= MaxRows
    /\ source \in Source \cup {"hybrid"}
    /\ result \in {NoScore} \cup Results
    /\ \A m \in offered :
         /\ \A o \in m.options : o.prediction \in 0 .. m.count - 1
         /\ \A o, q \in m.options : o.prediction = q.prediction => o = q

\* A pick wins exactly when its button says so: the page and settlement.ts use
\* one encoding (settlement.ts:44), and exactly one outcome wins
\* (TECHNICAL-DOC.md:72).
PickWinsAsNamed ==
    selection # NoSelection /\ result # NoScore =>
        ((WinningOutcome(selection.type, selection.param, result) = selection.prediction)
            <=> Says(selection, selection.prediction, result))

\* The model prices an option by just the scores it is settled to, for every
\* market, line and cap.
PricedAsSettled ==
    selection = NoSelection =>
        \A m \in offered : \A o \in m.options : o.src = "model_fair" =>
            ModelCells(m, o.prediction) =
                {c \in Matrix : WinningOutcome(m.type, m.param, [home |-> c[1], away |-> c[2]]) = o.prediction}

\* A row of the feed that has all the outcomes of a market of the program.
FullBook(r) ==
    /\ r \in ToSet(snapshot) /\ IsFullTime(r)
    /\ \A q \in ToSet(snapshot) : MarketKey(q) = MarketKey(r) => q.ts <= r.ts
    /\ \/ r.type = "1X2" /\ DOMAIN PredictionFor1x2 \subseteq {o.name : o \in ToSet(r.outcomes)}
       \/ r.type = "OU" /\ DOMAIN PredictionForOverUnder \subseteq {o.name : o \in ToSet(r.outcomes)}

\* A book of TxLINE overrides the model's price (TECHNICAL-DOC.md:86), with
\* its newest row, and no market is offered twice.
BookOverrides ==
    [][source' = "hybrid" /\ offered' # offered =>
         /\ \A m, n \in offered' : m.type = n.type /\ m.param = n.param => m = n
         /\ \A r \in ToSet(snapshot) : FullBook(r) =>
                \E m \in offered' :
                    /\ m.type = (IF r.type = "1X2" THEN MATCH_RESULT ELSE OVER_UNDER) /\ m.param = r.line
                    /\ {o.implied : o \in m.options} = {ImpliedPct(o) : o \in ToSet(r.outcomes)}]_vars

\* The share of the feed is a percentage (normalize-markets.ts:19).
\* The code does not keep this: README, "Where the code and its documents disagree".
ImpliedMatchesFeed ==
    \A m \in offered : \A o \in m.options : o.src = "txline" =>
        \E r \in ToSet(snapshot) : \E x \in ToSet(r.outcomes) :
            x.name = o.name /\ (x.pct = 0 \/ o.implied = 100 * x.pct)

\* The page shows the probability that the server sends.
\* The code does not keep this: README, "Where the code and its documents disagree".
ShownProbability ==
    \A m \in offered : \A o \in m.options : o.src = "txline" => Prob(o) = o.implied

\* Prediction 0 carries the home team's price (engine.ts:270).
\* The code does not keep this: README, "Where the code and its documents disagree".
PricedForItsSide ==
    \A m \in offered : \A o \in m.options :
        m.type = MATCH_RESULT /\ o.src = "txline" =>
            (o.prediction = 0 <=> o.name = IF P1IsHome THEN "PART1" ELSE "PART2")

-----------------------------------------------------------------------------
(* What the feed and the requests are taken to say, and the inductive invariant *)

\* A row names an outcome once.
QuotableTypes ==
    \A r \in Quotable :
        /\ r.line \in Nat /\ r.outcomes \in Seq([name : STRING, pct : Nat, price : Nat])
        /\ \A i, j \in DOMAIN r.outcomes : r.outcomes[i].name = r.outcomes[j].name => i = j

\* A total is a half, so that it is not hit: one that is hit is neither over nor
\* under to the page, and under to settlement.ts.
HalfLines == \A r \in Quotable : r.type = "OU" => r.line % 10 = 5

\* A grid of one cell would be settled as the default one (settlement.ts:90); no
\* pool can be created on it (pools/routes.ts:82).
GridsHaveCells == 0 \notin Cap

\* The encoding of a market that is offered.
Encoded(m) ==
    /\ m.type \in {MATCH_RESULT, OVER_UNDER, CORRECT_SCORE, BTTS, ODD_EVEN}
    /\ m.type = MATCH_RESULT => m.count = 3
    /\ m.type = OVER_UNDER => m.count = 2 /\ m.param \in Nat /\ m.param % 10 = 5 /\ m.line = m.param
    /\ m.type = CORRECT_SCORE => m.param \in Cap /\ m.count = (m.param + 1) * (m.param + 1)
    /\ m.type \in {BTTS, ODD_EVEN} => m.count = 2

\* What is picked is on offer.
PickIsOffered ==
    selection # NoSelection =>
        \E m \in offered : \E o \in m.options :
            selection = [type |-> m.type, param |-> m.param, line |-> m.line, prediction |-> o.prediction]

IInv == TypeOK /\ (\A m \in offered : Encoded(m)) /\ PickIsOffered

=============================================================================
