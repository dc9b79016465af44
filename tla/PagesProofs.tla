--------------------------- MODULE PagesProofs ---------------------------
(***************************************************************************)
(* Proofs about what a page is sent and shows.  The parts share no state,  *)
(* and each theorem is about one of them:                                  *)
(*                                                                         *)
(*  - the markets (Markets): for any rows of the feed whose totals are     *)
(*    halves, any grids and any score, a pick wins exactly when its button *)
(*    says so, and the model prices an option by the scores it wins with;  *)
(*  - the events (Sse): for any blocks and any chunks, the events of a     *)
(*    response are got whole and in order however it is cut, and what the  *)
(*    hub writes reads as the event it received;                           *)
(*  - the chat (Chat): for any number of pools, pages and messages, a full *)
(*    pool keeps its newest messages, and a page shows each message once,  *)
(*    in order while it keeps up.                                          *)
(***************************************************************************)
EXTENDS Markets, Filtering, SequenceTheorems, WellFoundedInduction, TLAPS

CONSTANTS
    Block, MaxBlocks, Empty,                                         \* of Sse
    Pool, Page, PoolOf, MaxPerPool, HistoryLimit, ViewCap, MaxMessages, MaxDrops   \* of Chat

VARIABLES
    wire, buffer, got, sent,                                         \* of Sse
    posted, store, clients, stream, inbox, history, view, drops      \* of Chat

Wire == INSTANCE Sse
Talk == INSTANCE Chat

-----------------------------------------------------------------------------
(* Numbers *)

LEMMA Smallest ==
    ASSUME NEW S \in SUBSET Nat, S # {}
    PROVE  /\ \E x \in S : \A y \in S : x <= y
           /\ Min(S) \in S
<1> DEFINE R == {ss \in Nat \X Nat : ss[1] < ss[2]}
<1>1. IsWellFoundedOn(R, Nat)
  BY NatLessThanWellFounded DEF OpToRel
<1>2. \E x \in S : \A y \in S : ~(<<y, x>> \in R)
  <2> HIDE DEF R
  <2> QED
    BY <1>1, WFMin
<1>3. \A x, y \in Nat : ~(<<y, x>> \in R) => x <= y
  OBVIOUS
<1>4. \E x \in S : \A y \in S : x <= y
  BY <1>2, <1>3
<1> QED
  BY <1>4 DEF Min

\* A number of two digits to the base of n shows both.
LEMMA Digits ==
    ASSUME NEW n \in Nat \ {0}, NEW p \in 0 .. n * n - 1
    PROVE  /\ p \div n \in 0 .. n - 1 /\ p % n \in 0 .. n - 1
           /\ p = (p \div n) * n + (p % n)
<1> DEFINE q == p \div n
           r == p % n
<1>1. q \in Nat /\ r \in 0 .. n - 1 /\ p = q * n + r
  OBVIOUS
<1> HIDE DEF q, r
<1>2. q < n
  <2> SUFFICES ASSUME q >= n PROVE FALSE
    BY <1>1
  <2>1. q * n >= n * n
    BY <1>1
  <2> QED
    BY <1>1, <2>1
<1> QED
  BY <1>1, <1>2 DEF q, r

\* Two digits make one number only.
LEMMA OneNumber ==
    ASSUME NEW n \in Nat \ {0}, NEW a \in Nat, NEW b \in 0 .. n - 1, NEW c \in Nat, NEW d \in 0 .. n - 1
    PROVE  a * n + b = c * n + d <=> a = c /\ b = d
<1>1. ASSUME a * n + b = c * n + d, a < c PROVE FALSE
  <2>1. (a + 1) * n <= c * n
    BY <1>1
  <2>2. (a + 1) * n = a * n + n
    OBVIOUS
  <2> QED
    BY <1>1, <2>1, <2>2
<1>2. ASSUME a * n + b = c * n + d, c < a PROVE FALSE
  <2>1. (c + 1) * n <= a * n
    BY <1>2
  <2>2. (c + 1) * n = c * n + n
    OBVIOUS
  <2> QED
    BY <1>2, <2>1, <2>2
<1> QED
  BY <1>1, <1>2

-----------------------------------------------------------------------------
(* The settlement of an option *)

\* The scores of a match.
Score == [home : Nat, away : Nat]

\* A cell of the grid of correct scores, read from its number as the page does.
LEMMA CellOfPrediction ==
    ASSUME NEW cap \in Nat, NEW p \in 0 .. (cap + 1) * (cap + 1) - 1, NEW h \in Nat, NEW a \in Nat
    PROVE  CorrectScoreIndex(h, a, cap) = p
               <=> Least(h, cap) = p \div (cap + 1) /\ Least(a, cap) = p % (cap + 1)
<1> DEFINE n == cap + 1
<1>1. n \in Nat \ {0} /\ p \in 0 .. n * n - 1
  OBVIOUS
<1>2. Least(h, cap) \in 0 .. n - 1 /\ Least(a, cap) \in 0 .. n - 1
  BY DEF Least
<1> HIDE DEF n
<1>3. /\ p \div n \in 0 .. n - 1 /\ p % n \in 0 .. n - 1
      /\ p = (p \div n) * n + (p % n)
  BY <1>1, Digits
<1>4. Least(h, cap) * n + Least(a, cap) = (p \div n) * n + (p % n)
        <=> Least(h, cap) = p \div n /\ Least(a, cap) = p % n
  <2> DEFINE q == p \div n
             r == p % n
             x == Least(h, cap)
             y == Least(a, cap)
  <2>1. q \in Nat /\ r \in 0 .. n - 1 /\ x \in Nat /\ y \in 0 .. n - 1
    BY <1>1, <1>2, <1>3
  <2> HIDE DEF q, r, x, y
  <2>2. x * n + y = q * n + r <=> x = q /\ y = r
    BY <1>1, <2>1, OneNumber
  <2> QED
    BY <2>2 DEF q, r, x, y
<1>5. CorrectScoreIndex(h, a, cap) = Least(h, cap) * n + Least(a, cap)
  BY DEF CorrectScoreIndex, n
<1> QED
  BY <1>3, <1>4, <1>5 DEF n

\* The page's reading of a row or a column of the grid.
LEMMA GoalsSaid ==
    ASSUME NEW cap \in Nat, NEW n \in 0 .. cap, NEW goals \in Nat
    PROVE  Least(goals, cap) = n <=> IF n >= cap THEN goals >= cap ELSE goals = n
BY DEF Least

\* An option of an offered market wins with the scores that its button names.
LEMMA WinsAsNamed ==
    ASSUME MarketTypes, GridsHaveCells, NEW m, Encoded(m),
           NEW p \in 0 .. m.count - 1, NEW s \in Score
    PROVE  WinningOutcome(m.type, m.param, s) = p <=> Says(m, p, s)
<1>1. s.home \in Nat /\ s.away \in Nat
  BY DEF Score
<1>2. CASE m.type = MATCH_RESULT
  <2>1. p \in {0, 1, 2}
    BY <1>2 DEF Encoded
  <2>2. WinningOutcome(m.type, m.param, s) =
          IF s.home > s.away THEN 0 ELSE IF s.home = s.away THEN 1 ELSE 2
    BY <1>2 DEF WinningOutcome, MATCH_RESULT, OVER_UNDER, CORRECT_SCORE, BTTS, ODD_EVEN
  <2>3. Says(m, p, s) <=> SaysMatchResult(p, s)
    BY <1>2 DEF Says, MATCH_RESULT, OVER_UNDER, CORRECT_SCORE, BTTS, ODD_EVEN
  <2> QED
    BY <1>1, <2>1, <2>2, <2>3 DEF SaysMatchResult
<1>3. CASE m.type = OVER_UNDER
  <2>1. p \in {0, 1} /\ m.param \in Nat /\ m.param % 10 = 5 /\ m.line = m.param
    BY <1>3 DEF Encoded
  <2>2. WinningOutcome(m.type, m.param, s) = IF 10 * (s.home + s.away) > m.param THEN 1 ELSE 0
    BY <1>3 DEF WinningOutcome, MATCH_RESULT, OVER_UNDER, CORRECT_SCORE, BTTS, ODD_EVEN
  <2>3. Says(m, p, s) <=> SaysOverUnder(m.line, p, s)
    BY <1>3 DEF Says, MATCH_RESULT, OVER_UNDER, CORRECT_SCORE, BTTS, ODD_EVEN
  <2>4. 10 * (s.home + s.away) # m.param
    BY <1>1, <2>1
  <2> QED
    BY <1>1, <2>1, <2>2, <2>3, <2>4 DEF SaysOverUnder
<1>4. CASE m.type = CORRECT_SCORE
  <2> DEFINE cap == m.param
  <2>1. cap \in Nat \ {0} /\ p \in 0 .. (cap + 1) * (cap + 1) - 1
    BY <1>4 DEF Encoded, MarketTypes, GridsHaveCells
  <2>2. WinningOutcome(m.type, m.param, s) = CorrectScoreIndex(s.home, s.away, cap)
    BY <1>4, <2>1 DEF WinningOutcome, MATCH_RESULT, OVER_UNDER, CORRECT_SCORE, BTTS, ODD_EVEN
  <2>3. Says(m, p, s) <=> SaysCorrectScore(cap, p, s)
    BY <1>4 DEF Says, MATCH_RESULT, OVER_UNDER, CORRECT_SCORE, BTTS, ODD_EVEN
  <2> HIDE DEF cap
  <2>4. p \div (cap + 1) \in 0 .. cap /\ p % (cap + 1) \in 0 .. cap
    <3>1. cap + 1 \in Nat \ {0}
      BY <2>1
    <3>2. p \div (cap + 1) \in 0 .. (cap + 1) - 1 /\ p % (cap + 1) \in 0 .. (cap + 1) - 1
      BY <3>1, <2>1, Digits
    <3> QED
      BY <3>2, <2>1
  <2>5. CorrectScoreIndex(s.home, s.away, cap) = p
          <=> Least(s.home, cap) = p \div (cap + 1) /\ Least(s.away, cap) = p % (cap + 1)
    BY <1>1, <2>1, CellOfPrediction
  <2> DEFINE q == p \div (cap + 1)
             r == p % (cap + 1)
  <2>6. /\ Least(s.home, cap) = q <=> IF q >= cap THEN s.home >= cap ELSE s.home = q
        /\ Least(s.away, cap) = r <=> IF r >= cap THEN s.away >= cap ELSE s.away = r
    <3>1. q \in 0 .. cap /\ r \in 0 .. cap
      BY <2>4
    <3> HIDE DEF q, r
    <3> QED
      BY <1>1, <2>1, <3>1, GoalsSaid
  <2> QED
    BY <2>2, <2>3, <2>5, <2>6 DEF SaysCorrectScore
<1>5. CASE m.type = BTTS
  <2>1. p \in {0, 1}
    BY <1>5 DEF Encoded
  <2>2. WinningOutcome(m.type, m.param, s) = IF s.home >= 1 /\ s.away >= 1 THEN 1 ELSE 0
    BY <1>5 DEF WinningOutcome, MATCH_RESULT, OVER_UNDER, CORRECT_SCORE, BTTS, ODD_EVEN
  <2>3. Says(m, p, s) <=> SaysBinary(BTTS, p, s)
    BY <1>5 DEF Says, MATCH_RESULT, OVER_UNDER, CORRECT_SCORE, BTTS, ODD_EVEN
  <2> QED
    BY <1>1, <2>1, <2>2, <2>3 DEF SaysBinary
<1>6. CASE m.type = ODD_EVEN
  <2>1. p \in {0, 1}
    BY <1>6 DEF Encoded
  <2>2. WinningOutcome(m.type, m.param, s) = (s.home + s.away) % 2
    BY <1>6 DEF WinningOutcome, MATCH_RESULT, OVER_UNDER, CORRECT_SCORE, BTTS, ODD_EVEN
  <2>3. Says(m, p, s) <=> SaysBinary(ODD_EVEN, p, s)
    BY <1>6 DEF Says, MATCH_RESULT, OVER_UNDER, CORRECT_SCORE, BTTS, ODD_EVEN
  <2>4. (s.home + s.away) % 2 \in {0, 1}
    BY <1>1
  <2> QED
    BY <1>1, <2>1, <2>2, <2>3, <2>4 DEF SaysBinary, BTTS, ODD_EVEN
<1> QED
  BY <1>2, <1>3, <1>4, <1>5, <1>6 DEF Encoded

-----------------------------------------------------------------------------
(* The model's price of an option *)

LEMMA CellTypes ==
    ASSUME NEW c \in Matrix
    PROVE  c[1] \in Nat /\ c[2] \in Nat /\ c = <<c[1], c[2]>>
           /\ [home |-> c[1], away |-> c[2]] \in Score
BY DEF Matrix, MAXG, Score

\* The cells folded into a cell of the grid are those that are settled to it.
LEMMA FoldedIsSettled ==
    ASSUME NEW cap \in Nat, NEW p, NEW c \in Matrix
    PROVE  c \in FoldedCells(cap, p) <=> CorrectScoreIndex(c[1], c[2], cap) = p
<1>1. c[1] \in Nat /\ c[2] \in Nat
  BY CellTypes
<1> DEFINE grid == (0 .. cap) \X (0 .. cap)
           at(x) == {d \in Matrix : Least(d[1], cap) = x[1] /\ Least(d[2], cap) = x[2]}
<1>2. FoldedCells(cap, p) = UNION {at(x) : x \in {y \in grid : CorrectScorePrediction(y[1], y[2], cap) = p}}
  BY DEF FoldedCells, Cells
<1>3. ASSUME NEW x \in grid, CorrectScorePrediction(x[1], x[2], cap) = p, c \in at(x)
      PROVE  CorrectScoreIndex(c[1], c[2], cap) = p
  <2>1. x[1] \in 0 .. cap /\ x[2] \in 0 .. cap
    OBVIOUS
  <2>2. Least(x[1], cap) = x[1] /\ Least(x[2], cap) = x[2]
    BY <2>1 DEF Least
  <2> QED
    BY <1>3, <2>2 DEF CorrectScoreIndex, CorrectScorePrediction
<1>4. ASSUME CorrectScoreIndex(c[1], c[2], cap) = p
      PROVE  \E x \in grid : CorrectScorePrediction(x[1], x[2], cap) = p /\ c \in at(x)
  <2> DEFINE x == <<Least(c[1], cap), Least(c[2], cap)>>
  <2>1. x \in grid /\ x[1] = Least(c[1], cap) /\ x[2] = Least(c[2], cap)
    BY <1>1 DEF Least
  <2>2. Least(x[1], cap) = Least(c[1], cap) /\ Least(x[2], cap) = Least(c[2], cap)
    BY <1>1 DEF Least
  <2>3. CorrectScorePrediction(x[1], x[2], cap) = p
    BY <1>4, <2>2 DEF CorrectScoreIndex, CorrectScorePrediction
  <2>4. c \in at(x)
    BY <2>1
  <2> QED
    BY <2>1, <2>3, <2>4
<1> HIDE DEF grid, at
<1> QED
  BY <1>2, <1>3, <1>4

LEMMA OptionPricedAsSettled ==
    ASSUME MarketTypes, GridsHaveCells, NEW m, Encoded(m), NEW p \in 0 .. m.count - 1
    PROVE  ModelCells(m, p) =
             {c \in Matrix : WinningOutcome(m.type, m.param, [home |-> c[1], away |-> c[2]]) = p}
<1> DEFINE won(c) == WinningOutcome(m.type, m.param, [home |-> c[1], away |-> c[2]])
<1>1. SUFFICES ASSUME NEW c \in Matrix
               PROVE  c \in ModelCells(m, p) <=> won(c) = p
  <2>1. ModelCells(m, p) \subseteq Matrix
    BY DEF ModelCells, OutcomeCells, OverUnderCells, FoldedCells, BothTeamsToScoreCells, OddEvenCells,
           Cells, Encoded, MATCH_RESULT, OVER_UNDER, CORRECT_SCORE, BTTS, ODD_EVEN
  <2> QED
    BY <2>1
<1>2. c[1] \in Nat /\ c[2] \in Nat
  BY CellTypes
<1>3. CASE m.type = MATCH_RESULT
  <2>1. p \in {0, 1, 2}
    BY <1>3 DEF Encoded
  <2>2. won(c) = IF c[1] > c[2] THEN 0 ELSE IF c[1] = c[2] THEN 1 ELSE 2
    BY <1>3 DEF WinningOutcome, MATCH_RESULT, OVER_UNDER, CORRECT_SCORE, BTTS, ODD_EVEN
  <2>3. ModelCells(m, p) = OutcomeCells(p)
    BY <1>3 DEF ModelCells, MATCH_RESULT, OVER_UNDER, CORRECT_SCORE, BTTS, ODD_EVEN
  <2> HIDE DEF won
  <2> QED
    BY <1>2, <2>1, <2>2, <2>3 DEF OutcomeCells, Cells
<1>4. CASE m.type = OVER_UNDER
  <2>1. p \in {0, 1} /\ m.param \in Nat
    BY <1>4 DEF Encoded
  <2>2. won(c) = IF 10 * (c[1] + c[2]) > m.param THEN 1 ELSE 0
    BY <1>4 DEF WinningOutcome, MATCH_RESULT, OVER_UNDER, CORRECT_SCORE, BTTS, ODD_EVEN
  <2>3. ModelCells(m, p) = OverUnderCells(m.param, p)
    BY <1>4 DEF ModelCells, MATCH_RESULT, OVER_UNDER, CORRECT_SCORE, BTTS, ODD_EVEN
  <2> HIDE DEF won
  <2> QED
    BY <1>2, <2>1, <2>2, <2>3 DEF OverUnderCells, Cells
<1>5. CASE m.type = CORRECT_SCORE
  <2>1. m.param \in Nat \ {0}
    BY <1>5 DEF Encoded, MarketTypes, GridsHaveCells
  <2>2. won(c) = CorrectScoreIndex(c[1], c[2], m.param)
    BY <1>5, <2>1 DEF WinningOutcome, MATCH_RESULT, OVER_UNDER, CORRECT_SCORE, BTTS, ODD_EVEN
  <2>3. ModelCells(m, p) = FoldedCells(m.param, p)
    BY <1>5 DEF ModelCells, MATCH_RESULT, OVER_UNDER, CORRECT_SCORE, BTTS, ODD_EVEN
  <2> HIDE DEF won
  <2> QED
    BY <2>1, <2>2, <2>3, FoldedIsSettled
<1>6. CASE m.type = BTTS
  <2>1. p \in {0, 1}
    BY <1>6 DEF Encoded
  <2>2. won(c) = IF c[1] >= 1 /\ c[2] >= 1 THEN 1 ELSE 0
    BY <1>6 DEF WinningOutcome, MATCH_RESULT, OVER_UNDER, CORRECT_SCORE, BTTS, ODD_EVEN
  <2>3. ModelCells(m, p) = BothTeamsToScoreCells(p)
    BY <1>6 DEF ModelCells, MATCH_RESULT, OVER_UNDER, CORRECT_SCORE, BTTS, ODD_EVEN
  <2> HIDE DEF won
  <2> QED
    BY <1>2, <2>1, <2>2, <2>3 DEF BothTeamsToScoreCells, Cells
<1>7. CASE m.type = ODD_EVEN
  <2>1. p \in {0, 1} /\ (c[1] + c[2]) % 2 \in {0, 1}
    BY <1>2, <1>7 DEF Encoded
  <2>2. won(c) = (c[1] + c[2]) % 2
    BY <1>7 DEF WinningOutcome, MATCH_RESULT, OVER_UNDER, CORRECT_SCORE, BTTS, ODD_EVEN
  <2>3. ModelCells(m, p) = OddEvenCells(p)
    BY <1>7 DEF ModelCells, MATCH_RESULT, OVER_UNDER, CORRECT_SCORE, BTTS, ODD_EVEN
  <2> HIDE DEF won
  <2> QED
    BY <1>2, <2>1, <2>2, <2>3 DEF OddEvenCells, Cells
<1> QED
  BY <1>3, <1>4, <1>5, <1>6, <1>7 DEF Encoded

-----------------------------------------------------------------------------
(* TxLINE's markets *)

LEMMA RowTypes ==
    ASSUME MarketTypes, QuotableTypes, HalfLines, NEW row \in OddsRow
    PROVE  /\ row.ts \in 1 .. MaxRows /\ row.line \in Nat
           /\ row.outcomes \in Seq([name : STRING, pct : Nat, price : Nat])
           /\ \A i, j \in DOMAIN row.outcomes : row.outcomes[i].name = row.outcomes[j].name => i = j
           /\ row.type = "OU" => row.line % 10 = 5
<1>1. PICK r \in Quotable, n \in 1 .. MaxRows :
        row = [type |-> r.type, period |-> r.period, line |-> r.line, outcomes |-> r.outcomes, ts |-> n]
  BY DEF OddsRow
<1>2. row.ts = n /\ row.line = r.line /\ row.outcomes = r.outcomes /\ row.type = r.type
  BY <1>1
<1> QED
  BY <1>2 DEF QuotableTypes, HalfLines

\* Of some rows one is the newest.
LEMMA Newest ==
    ASSUME MarketTypes, QuotableTypes, HalfLines, NEW S \in SUBSET OddsRow, S # {}
    PROVE  \E r \in S : \A q \in S : q.ts <= r.ts
<1>1. \A r \in S : r.ts \in 1 .. MaxRows
  BY RowTypes
<1> DEFINE T == {n \in Nat : \E r \in S : n = MaxRows - r.ts}
<1>2. T \in SUBSET Nat /\ \A q \in S : MaxRows - q.ts \in T
  BY <1>1 DEF MarketTypes
<1> HIDE DEF T
<1>3. PICK t \in T : \A u \in T : t <= u
  BY <1>2, Smallest
<1>4. PICK r \in S : t = MaxRows - r.ts
  BY DEF T
<1>5. \A q \in S : q.ts <= r.ts
  BY <1>1, <1>2, <1>3, <1>4 DEF MarketTypes
<1> QED
  BY <1>5

\* A normalised market is a row of the feed.
LEMMA NormalizedRows ==
    ASSUME MarketTypes, QuotableTypes, HalfLines, NEW rows \in Seq(OddsRow)
    PROVE  /\ DOMAIN NormalizeMarkets(rows) \subseteq Nat
           /\ \A i \in DOMAIN NormalizeMarkets(rows) : NormalizeMarkets(rows)[i] \in OddsRow
<1> DEFINE firsts == {i \in DOMAIN rows : \A j \in 1 .. i - 1 : MarketKey(rows[j]) # MarketKey(rows[i])}
           mine(i) == {r \in ToSet(rows) : MarketKey(r) = MarketKey(rows[i])}
           newest(i) == CHOOSE r \in mine(i) : \A q \in mine(i) : q.ts <= r.ts
<1>1. NormalizeMarkets(rows) = [i \in firsts |-> newest(i)]
  BY DEF NormalizeMarkets
<1>2. DOMAIN rows = 1 .. Len(rows) /\ Len(rows) \in Nat /\ \A i \in DOMAIN rows : rows[i] \in OddsRow
  OBVIOUS
<1>3. ASSUME NEW i \in firsts
      PROVE  newest(i) \in OddsRow
  <2>1. mine(i) \in SUBSET OddsRow /\ rows[i] \in mine(i)
    BY <1>2 DEF ToSet
  <2> HIDE DEF mine
  <2>2. \E r \in mine(i) : \A q \in mine(i) : q.ts <= r.ts
    BY <2>1, Newest
  <2> QED
    BY <2>1, <2>2
<1>4. firsts \subseteq Nat
  BY <1>2
<1> HIDE DEF firsts, newest
<1> QED
  BY <1>1, <1>3, <1>4

\* The market that the code finds, if there is one, is a normalised one.
LEMMA FirstFound ==
    ASSUME MarketTypes, QuotableTypes, HalfLines, NEW rows \in Seq(OddsRow), NEW type,
           Found(NormalizeMarkets(rows), type) # {}
    PROVE  NormalizeMarkets(rows)[Min(Found(NormalizeMarkets(rows), type))] \in OddsRow
<1> DEFINE markets == NormalizeMarkets(rows)
           found == Found(markets, type)
<1>1. DOMAIN markets \subseteq Nat /\ \A i \in DOMAIN markets : markets[i] \in OddsRow
  BY NormalizedRows
<1>2. found \subseteq DOMAIN markets
  BY DEF Found
<1> HIDE DEF markets, found
<1>3. Min(found) \in found
  <2>1. found \in SUBSET Nat /\ found # {}
    BY <1>1, <1>2 DEF found, markets
  <2> QED
    BY <2>1, Smallest
<1> QED
  BY <1>1, <1>2, <1>3 DEF found, markets

\* The options of a row have predictions of their own, for each name has.
LEMMA OptionsOfNames ==
    ASSUME MarketTypes, QuotableTypes, HalfLines, NEW row \in OddsRow, NEW names,
           \A a, b \in DOMAIN names : names[a] = names[b] => a = b
    PROVE  /\ \A o \in TxlineOptions(names, row) :
                \E a \in DOMAIN names : o.prediction = names[a]
           /\ \A o, q \in TxlineOptions(names, row) : o.prediction = q.prediction => o = q
<1>1. ASSUME NEW o \in TxlineOptions(names, row)
      PROVE  \E i \in DOMAIN row.outcomes :
               LET x == row.outcomes[i]
               IN  x.name \in DOMAIN names /\ o = TxlineOption(names[x.name], x) /\ o.prediction = names[x.name]
  <2>1. PICK x \in ToSet(row.outcomes) : x.name \in DOMAIN names /\ o = TxlineOption(names[x.name], x)
    BY DEF TxlineOptions
  <2>2. PICK i \in DOMAIN row.outcomes : x = row.outcomes[i]
    BY DEF ToSet
  <2>3. o.prediction = names[x.name]
    BY <2>1 DEF TxlineOption
  <2> QED
    BY <2>1, <2>2, <2>3
<1>2. ASSUME NEW o \in TxlineOptions(names, row), NEW q \in TxlineOptions(names, row),
             o.prediction = q.prediction
      PROVE  o = q
  <2>1. PICK i \in DOMAIN row.outcomes :
          /\ row.outcomes[i].name \in DOMAIN names
          /\ o = TxlineOption(names[row.outcomes[i].name], row.outcomes[i])
          /\ o.prediction = names[row.outcomes[i].name]
    BY <1>1
  <2>2. PICK j \in DOMAIN row.outcomes :
          /\ row.outcomes[j].name \in DOMAIN names
          /\ q = TxlineOption(names[row.outcomes[j].name], row.outcomes[j])
          /\ q.prediction = names[row.outcomes[j].name]
    BY <1>1
  <2>3. row.outcomes[i].name = row.outcomes[j].name
    BY <1>2, <2>1, <2>2
  <2>4. i = j
    BY <2>3, RowTypes
  <2> QED
    BY <2>1, <2>2, <2>4
<1> QED
  BY <1>1, <1>2

\* A market as it has to be offered: with an encoding that settlement.ts knows, and
\* a prediction of its own for every option.
WellFormed(m) ==
    /\ Encoded(m)
    /\ \A o \in m.options : o.prediction \in 0 .. m.count - 1
    /\ \A o, q \in m.options : o.prediction = q.prediction => o = q

LEMMA MatchResultWellFormed ==
    ASSUME MarketTypes, QuotableTypes, HalfLines, NEW rows \in Seq(OddsRow),
           NEW m \in TxlineMatchResult(NormalizeMarkets(rows))
    PROVE  WellFormed(m)
<1> DEFINE found == Found(NormalizeMarkets(rows), "1X2")
           row == NormalizeMarkets(rows)[Min(found)]
           options == TxlineOptions(PredictionFor1x2, row)
<1>1. found # {} /\ m = [type |-> MATCH_RESULT, param |-> 0, line |-> 0, count |-> 3, options |-> options]
  BY DEF TxlineMatchResult
<1>2. row \in OddsRow
  BY <1>1, FirstFound
<1>3. /\ \A a, b \in DOMAIN PredictionFor1x2 : PredictionFor1x2[a] = PredictionFor1x2[b] => a = b
      /\ \A a \in DOMAIN PredictionFor1x2 : PredictionFor1x2[a] \in 0 .. 2
  BY DEF PredictionFor1x2
<1> HIDE DEF row
<1>4. /\ \A o \in options : o.prediction \in 0 .. 2
      /\ \A o, q \in options : o.prediction = q.prediction => o = q
  BY <1>2, <1>3, OptionsOfNames
<1> HIDE DEF options, found
<1>5. m.type = MATCH_RESULT /\ m.count = 3 /\ m.options = options
  BY <1>1
<1> QED
  BY <1>4, <1>5 DEF WellFormed, Encoded, MATCH_RESULT, OVER_UNDER, CORRECT_SCORE, BTTS, ODD_EVEN

LEMMA OverUnderWellFormed ==
    ASSUME MarketTypes, QuotableTypes, HalfLines, NEW rows \in Seq(OddsRow),
           NEW m \in TxlineOverUnder(NormalizeMarkets(rows))
    PROVE  WellFormed(m)
<1> DEFINE markets == NormalizeMarkets(rows)
<1>1. PICK i \in Totals(markets) :
        m = [type |-> OVER_UNDER, param |-> markets[i].line, line |-> markets[i].line, count |-> 2,
             options |-> TxlineOptions(PredictionForOverUnder, markets[i])]
  BY DEF TxlineOverUnder
<1>2. i \in DOMAIN markets /\ markets[i].type = "OU"
  BY DEF Totals, Found
<1>3. markets[i] \in OddsRow
  BY <1>2, NormalizedRows
<1>4. markets[i].line \in Nat /\ markets[i].line % 10 = 5
  BY <1>2, <1>3, RowTypes
<1> DEFINE row == markets[i]
           options == TxlineOptions(PredictionForOverUnder, row)
<1>5. /\ \A a, b \in DOMAIN PredictionForOverUnder :
            PredictionForOverUnder[a] = PredictionForOverUnder[b] => a = b
      /\ \A a \in DOMAIN PredictionForOverUnder : PredictionForOverUnder[a] \in 0 .. 1
  BY DEF PredictionForOverUnder
<1>6. m.type = OVER_UNDER /\ m.count = 2 /\ m.param = row.line /\ m.line = row.line /\ m.options = options
  BY <1>1
<1>7. row \in OddsRow /\ row.line \in Nat /\ row.line % 10 = 5
  BY <1>3, <1>4
<1> HIDE DEF row
<1>8. /\ \A o \in options : o.prediction \in 0 .. 1
      /\ \A o, q \in options : o.prediction = q.prediction => o = q
  BY <1>5, <1>7, OptionsOfNames
<1> HIDE DEF options
<1> QED
  BY <1>6, <1>7, <1>8 DEF WellFormed, Encoded, MATCH_RESULT, OVER_UNDER, CORRECT_SCORE, BTTS, ODD_EVEN

\* A cell of the grid has a number of the grid.
LEMMA PredictionInGrid ==
    ASSUME NEW cap \in Nat, NEW h \in Nat, NEW a \in Nat
    PROVE  CorrectScorePrediction(h, a, cap) \in 0 .. (cap + 1) * (cap + 1) - 1
<1> DEFINE x == Least(h, cap)
           y == Least(a, cap)
           n == cap + 1
<1>1. x \in 0 .. n - 1 /\ y \in 0 .. n - 1 /\ n \in Nat
  BY DEF Least
<1>2. CorrectScorePrediction(h, a, cap) = x * n + y
  BY DEF CorrectScorePrediction
<1> HIDE DEF x, y, n
<1>3. (x + 1) * n <= n * n /\ (x + 1) * n = x * n + n /\ 0 <= x * n
  BY <1>1
<1>4. x * n \in Int /\ n * n \in Int
  BY <1>1
<1>5. x * n + y \in 0 .. n * n - 1
  BY <1>1, <1>3, <1>4
<1> QED
  BY <1>2, <1>5 DEF n

LEMMA CorrectScoreOptionsWellFormed ==
    ASSUME NEW cap \in Nat, NEW outcomes \in Seq([name : STRING, pct : Nat, price : Nat])
    PROVE  /\ \A o \in CorrectScoreOptions(outcomes, cap) :
                o.prediction \in 0 .. (cap + 1) * (cap + 1) - 1
           /\ \A o, q \in CorrectScoreOptions(outcomes, cap) : o.prediction = q.prediction => o = q
<1> DEFINE known == {i \in DOMAIN outcomes : outcomes[i].name \in DOMAIN ScoreNamed}
           cell(i) == CorrectScorePrediction(ScoreNamed[outcomes[i].name].home,
                                             ScoreNamed[outcomes[i].name].away, cap)
           firsts == {x \in known : \A j \in known : j < x => cell(j) # cell(x)}
<1>1. CorrectScoreOptions(outcomes, cap) = {TxlineOption(cell(i), outcomes[i]) : i \in firsts}
  BY Zenon DEF CorrectScoreOptions
<1>2. known \subseteq Nat
  OBVIOUS
<1>3. ASSUME NEW i \in known PROVE cell(i) \in 0 .. (cap + 1) * (cap + 1) - 1
  <2>1. \A n \in DOMAIN ScoreNamed : ScoreNamed[n].home \in Nat /\ ScoreNamed[n].away \in Nat
    BY DEF ScoreNamed
  <2> QED
    BY <2>1, PredictionInGrid
<1> HIDE DEF known, cell
<1>4. \A i \in firsts : TxlineOption(cell(i), outcomes[i]).prediction = cell(i)
  BY DEF TxlineOption
<1>5. \A i, j \in firsts : cell(i) = cell(j) => i = j
  BY <1>2
<1>6. firsts \subseteq known
  OBVIOUS
<1> HIDE DEF firsts
<1> QED
  BY <1>1, <1>3, <1>4, <1>5, <1>6

LEMMA CorrectScoreWellFormed ==
    ASSUME MarketTypes, QuotableTypes, HalfLines, NEW rows \in Seq(OddsRow), NEW cap \in Cap,
           NEW m \in TxlineCorrectScore(NormalizeMarkets(rows), cap)
    PROVE  WellFormed(m)
<1> DEFINE found == Found(NormalizeMarkets(rows), "CS")
           row == NormalizeMarkets(rows)[Min(found)]
           options == CorrectScoreOptions(row.outcomes, cap)
<1>1. /\ found # {}
      /\ m = [type |-> CORRECT_SCORE, param |-> cap, line |-> 0, count |-> (cap + 1) * (cap + 1),
              options |-> options]
  BY DEF TxlineCorrectScore
<1>2. row \in OddsRow
  BY <1>1, FirstFound
<1> HIDE DEF row, found
<1>3. cap \in Nat /\ row.outcomes \in Seq([name : STRING, pct : Nat, price : Nat])
  BY <1>2, RowTypes DEF MarketTypes
<1>4. /\ \A o \in options : o.prediction \in 0 .. (cap + 1) * (cap + 1) - 1
      /\ \A o, q \in options : o.prediction = q.prediction => o = q
  BY <1>3, CorrectScoreOptionsWellFormed
<1>5. /\ m.type = CORRECT_SCORE /\ m.param = cap /\ m.count = (cap + 1) * (cap + 1)
      /\ m.options = options
  BY <1>1
<1> HIDE DEF options
<1>6. Encoded(m)
  BY <1>5 DEF Encoded, MATCH_RESULT, OVER_UNDER, CORRECT_SCORE, BTTS, ODD_EVEN
<1> QED
  BY <1>4, <1>5, <1>6 DEF WellFormed

-----------------------------------------------------------------------------
(* The model's markets, and what is offered *)

LEMMA EveryMarketWellFormed ==
    ASSUME MarketTypes, NEW cap \in Cap, NEW src, NEW m \in EveryMarket(cap, src)
    PROVE  WellFormed(m)
<1> DEFINE option(p) == [prediction |-> p, src |-> src, name |-> "", implied |-> 0]
           options(predictions) == {option(p) : p \in predictions}
           market(type, param, predictions, count) ==
             [type |-> type, param |-> param, line |-> IF type = OVER_UNDER THEN param ELSE 0,
              count |-> count, options |-> options(predictions)]
           grid == {CorrectScorePrediction(x[1], x[2], cap) : x \in (0 .. cap) \X (0 .. cap)}
<1>1. /\ cap \in Nat
      /\ grid \subseteq 0 .. (cap + 1) * (cap + 1) - 1
  <2>1. cap \in Nat
    BY DEF MarketTypes
  <2> QED
    BY <2>1, PredictionInGrid
<1>2. \/ m = market(MATCH_RESULT, 0, 0 .. 2, 3)
      \/ m = market(BTTS, 0, 0 .. 1, 2)
      \/ m = market(ODD_EVEN, 0, 0 .. 1, 2)
      \/ m = market(CORRECT_SCORE, cap, grid, (cap + 1) * (cap + 1))
      \/ \E line \in DEFAULT_OU_LINES : m = market(OVER_UNDER, line, 0 .. 1, 2)
  BY DEF EveryMarket
<1>3. ASSUME NEW P, NEW n, P \subseteq 0 .. n - 1, m.options = options(P), m.count = n, Encoded(m)
      PROVE  WellFormed(m)
  <2>0. \A p : option(p).prediction = p
    OBVIOUS
  <2> HIDE DEF option
  <2>1. \A o \in options(P) : o.prediction \in P
    BY <2>0
  <2>2. \A o, q \in options(P) : o.prediction = q.prediction => o = q
    BY <2>0
  <2> QED
    BY <1>3, <2>1, <2>2 DEF WellFormed
<1> HIDE DEF grid, options
<1>4. CASE m = market(MATCH_RESULT, 0, 0 .. 2, 3)
  <2>1. m.options = options(0 .. 2) /\ m.count = 3 /\ m.type = MATCH_RESULT
    BY <1>4
  <2>2. Encoded(m)
    BY <2>1 DEF Encoded, MATCH_RESULT, OVER_UNDER, CORRECT_SCORE, BTTS, ODD_EVEN
  <2> QED
    BY <1>3, <2>1, <2>2
<1>5. CASE m = market(BTTS, 0, 0 .. 1, 2) \/ m = market(ODD_EVEN, 0, 0 .. 1, 2)
  <2>1. m.options = options(0 .. 1) /\ m.count = 2 /\ m.type \in {BTTS, ODD_EVEN}
    BY <1>5
  <2>2. Encoded(m)
    BY <2>1 DEF Encoded, MATCH_RESULT, OVER_UNDER, CORRECT_SCORE, BTTS, ODD_EVEN
  <2> QED
    BY <1>3, <2>1, <2>2
<1>6. CASE m = market(CORRECT_SCORE, cap, grid, (cap + 1) * (cap + 1))
  <2>1. /\ m.options = options(grid) /\ m.count = (cap + 1) * (cap + 1)
        /\ m.type = CORRECT_SCORE /\ m.param = cap
    BY <1>6
  <2>2. Encoded(m)
    BY <2>1 DEF Encoded, MATCH_RESULT, OVER_UNDER, CORRECT_SCORE, BTTS, ODD_EVEN
  <2> QED
    BY <1>1, <1>3, <2>1, <2>2
<1>7. CASE \E line \in DEFAULT_OU_LINES : m = market(OVER_UNDER, line, 0 .. 1, 2)
  <2>1. PICK line \in DEFAULT_OU_LINES : m = market(OVER_UNDER, line, 0 .. 1, 2)
    BY <1>7
  <2>2. m.options = options(0 .. 1) /\ m.count = 2 /\ m.type = OVER_UNDER /\ m.param = line /\ m.line = line
    BY <2>1
  <2>3. line \in Nat /\ line % 10 = 5
    BY DEF DEFAULT_OU_LINES
  <2>4. Encoded(m)
    BY <2>2, <2>3 DEF Encoded, MATCH_RESULT, OVER_UNDER, CORRECT_SCORE, BTTS, ODD_EVEN
  <2> QED
    BY <1>3, <2>2, <2>4
<1> QED
  BY <1>2, <1>4, <1>5, <1>6, <1>7

\* Whatever the feed has sent and the request asks for, what is offered is well formed.
LEMMA OfferWellFormed ==
    ASSUME MarketTypes, QuotableTypes, HalfLines, NEW rows \in Seq(OddsRow),
           NEW src \in Source, NEW cap \in Cap, NEW modelled \in BOOLEAN,
           NEW m \in SocialOptions(rows, src, cap, modelled)
    PROVE  WellFormed(m)
<1> DEFINE quoted == TxlineSocialMarkets(NormalizeMarkets(rows), cap)
           txline == IF src = "model" THEN {} ELSE quoted
           model == IF modelled THEN ModelSocialMarkets(cap) ELSE {}
           markets == CASE src = "txline" -> txline [] src = "model" -> model
                        [] src = "hybrid" -> Merged(txline, model)
<1>1. \A x \in quoted : WellFormed(x)
  BY MatchResultWellFormed, OverUnderWellFormed, CorrectScoreWellFormed DEF TxlineSocialMarkets
<1>2. \A x \in ModelSocialMarkets(cap) \cup BlankSocialMarkets(cap) : WellFormed(x)
  BY EveryMarketWellFormed DEF ModelSocialMarkets, BlankSocialMarkets
<1>3. m \in markets \cup BlankSocialMarkets(cap)
  BY DEF SocialOptions
<1>4. src \in {"txline", "model", "hybrid"}
  BY DEF MarketTypes
<1>5. markets \subseteq quoted \cup ModelSocialMarkets(cap)
  <2>1. txline \subseteq quoted /\ model \subseteq ModelSocialMarkets(cap)
    OBVIOUS
  <2>2. markets \in {txline, model, Merged(txline, model)}
    BY <1>4
  <2> HIDE DEF txline, model, markets, quoted
  <2> QED
    BY <2>1, <2>2 DEF Merged
<1> HIDE DEF markets, quoted
<1> QED
  BY <1>1, <1>2, <1>3, <1>5

-----------------------------------------------------------------------------
(* The invariant *)

LEMMA Initially == ASSUME MarketTypes, Init PROVE IInv
<1>1. snapshot \in Seq(OddsRow) /\ Len(snapshot) = 0
  BY DEF Init
<1> QED
  BY <1>1 DEF Init, IInv, TypeOK, PickIsOffered, MarketTypes

LEMMA QuoteStep ==
    ASSUME MarketTypes, IInv, NEW r \in Quotable, Quote(r) PROVE IInv'
<1>1. snapshot \in Seq(OddsRow) /\ Len(snapshot) < MaxRows
  BY DEF IInv, TypeOK, Quote
<1> DEFINE row == [type |-> r.type, period |-> r.period, line |-> r.line,
                   outcomes |-> r.outcomes, ts |-> Len(snapshot) + 1]
<1>2. row \in OddsRow
  BY <1>1 DEF OddsRow, MarketTypes
<1>3. snapshot' \in {Append(snapshot, row), <<row>> \o snapshot}
  BY DEF Quote
<1> HIDE DEF row
<1>4. snapshot' \in Seq(OddsRow) /\ Len(snapshot') = Len(snapshot) + 1
  <2>1. CASE snapshot' = Append(snapshot, row)
    BY <1>1, <1>2, <2>1
  <2>2. CASE snapshot' = <<row>> \o snapshot
    <3>1. <<row>> \in Seq(OddsRow) /\ Len(<<row>>) = 1
      BY <1>2
    <3> QED
      BY <1>1, <2>2, <3>1, ConcatProperties
  <2> QED
    BY <1>3, <2>1, <2>2
<1>5. UNCHANGED <<source, offered, selection, result>>
  BY DEF Quote
<1> QED
  BY <1>1, <1>4, <1>5 DEF IInv, TypeOK, PickIsOffered, Encoded, MarketTypes

LEMMA LoadStep ==
    ASSUME MarketTypes, QuotableTypes, HalfLines, IInv,
           NEW src \in Source, NEW cap \in Cap, NEW modelled \in BOOLEAN, Load(src, cap, modelled)
    PROVE  IInv'
<1>1. snapshot \in Seq(OddsRow)
  BY DEF IInv, TypeOK
<1>2. /\ selection = NoSelection /\ selection' = selection
      /\ offered' = SocialOptions(snapshot, src, cap, modelled)
      /\ source' = src /\ UNCHANGED <<snapshot, result>>
  BY DEF Load
<1>3. \A m \in offered' : WellFormed(m)
  BY <1>1, <1>2, OfferWellFormed
<1> QED
  BY <1>2, <1>3 DEF IInv, TypeOK, PickIsOffered, WellFormed, Encoded

LEMMA SelectStep ==
    ASSUME IInv, NEW m \in offered, NEW option \in m.options, Select(m, option) PROVE IInv'
<1>1. UNCHANGED <<snapshot, source, offered, result>>
      /\ selection' = [type |-> m.type, param |-> m.param, line |-> m.line, prediction |-> option.prediction]
  BY DEF Select
<1> QED
  BY <1>1 DEF IInv, TypeOK, PickIsOffered, Encoded

LEMMA FullTimeStep ==
    ASSUME IInv, NEW s \in Results, FullTime(s) PROVE IInv'
BY DEF FullTime, IInv, TypeOK, PickIsOffered, Encoded

LEMMA Consecution ==
    ASSUME MarketTypes, QuotableTypes, HalfLines, IInv, [Next]_vars PROVE IInv'
<1>1. CASE UNCHANGED vars
  BY <1>1 DEF vars, IInv, TypeOK, PickIsOffered, Encoded
<1>2. CASE Next
  BY <1>2, QuoteStep, LoadStep, SelectStep, FullTimeStep DEF Next
<1> QED
  BY <1>1, <1>2

\* In every state what is offered has an encoding that settlement.ts knows, with a
\* prediction for each option that the program takes, and what is picked is on offer.
THEOREM Invariance == ASSUME MarketTypes, QuotableTypes, HalfLines PROVE Spec => []IInv
<1> QED
  BY Initially, Consecution, PTL DEF Spec

LEMMA PickWins ==
    ASSUME MarketTypes, GridsHaveCells, IInv PROVE PickWinsAsNamed
<1> SUFFICES ASSUME selection # NoSelection, result # NoScore
             PROVE  (WinningOutcome(selection.type, selection.param, result) = selection.prediction)
                      <=> Says(selection, selection.prediction, result)
  BY DEF PickWinsAsNamed
<1> DEFINE picked(m, o) ==
             [type |-> m.type, param |-> m.param, line |-> m.line, prediction |-> o.prediction]
<1>0. PICK m \in offered : \E o \in m.options : selection = picked(m, o)
  BY DEF IInv, PickIsOffered
<1>1. PICK o \in m.options : selection = picked(m, o)
  BY <1>0
<1>2. Encoded(m) /\ o.prediction \in 0 .. m.count - 1
  BY DEF IInv, TypeOK
<1>3. result \in Score
  BY DEF IInv, TypeOK, Results, Score, MarketTypes
<1>4. WinningOutcome(m.type, m.param, result) = o.prediction <=> Says(m, o.prediction, result)
  BY <1>2, <1>3, WinsAsNamed
<1>5. Says(selection, o.prediction, result) <=> Says(m, o.prediction, result)
  <2>1. selection.type = m.type /\ selection.param = m.param /\ selection.line = m.line
    BY <1>1
  <2> QED
    BY <2>1, Zenon DEF Says
<1> QED
  BY <1>1, <1>4, <1>5

\* For any rows of the feed, any grid and any score: a pick wins exactly when its
\* button says so (settlement.ts:44, market-picker.tsx).
THEOREM PicksAlwaysWinAsNamed ==
    ASSUME MarketTypes, QuotableTypes, HalfLines, GridsHaveCells
    PROVE  Spec => []PickWinsAsNamed
<1>1. IInv => PickWinsAsNamed
  BY PickWins
<1> QED
  BY <1>1, Invariance, PTL

\* For any grid and any line: the model prices an option by the scores that it is
\* settled to (engine.ts, settlement.ts:68).
THEOREM PricesAlwaysAsSettled ==
    ASSUME MarketTypes, QuotableTypes, HalfLines, GridsHaveCells
    PROVE  Spec => []PricedAsSettled
<1>1. IInv => PricedAsSettled
  BY OptionPricedAsSettled DEF IInv, TypeOK, PricedAsSettled
<1> QED
  BY <1>1, Invariance, PTL

-----------------------------------------------------------------------------
(* Filters *)

\* F is the recursive function of Those, up to the n-th element.
Builds(s, T, n, F) ==
    F = [i \in 0 .. n |-> IF i = 0 THEN <<>>
                          ELSE IF s[i] \in T THEN Append(F[i - 1], s[i]) ELSE F[i - 1]]

LEMMA SomeBuilds ==
    ASSUME NEW S, NEW s \in Seq(S), NEW T
    PROVE  \A n \in 0 .. Len(s) : \E F : Builds(s, T, n, F)
<1> DEFINE Bad == {n \in 0 .. Len(s) : ~\E F : Builds(s, T, n, F)}
<1> SUFFICES ASSUME Bad # {} PROVE FALSE
  OBVIOUS
<1>1. PICK n \in Bad : \A m \in Bad : n <= m
  <2>1. Bad \in SUBSET Nat
    OBVIOUS
  <2> HIDE DEF Bad
  <2> QED
    BY <2>1, Smallest
<1>2. Builds(s, T, 0, [i \in 0 .. 0 |-> <<>>])
  BY DEF Builds
<1>3. n # 0
  BY <1>1, <1>2
<1>4. n - 1 \in 0 .. Len(s) /\ n - 1 \notin Bad
  BY <1>1, <1>3
<1>5. PICK G : Builds(s, T, n - 1, G)
  BY <1>4
<1> DEFINE F == [i \in 0 .. n |-> IF i < n THEN G[i]
                                  ELSE IF s[n] \in T THEN Append(G[n - 1], s[n]) ELSE G[n - 1]]
<1>6. Builds(s, T, n, F)
  <2>1. n \in Nat /\ n > 0
    BY <1>1, <1>3
  <2>2. \A i \in 0 .. n - 1 : G[i] = IF i = 0 THEN <<>>
            ELSE IF s[i] \in T THEN Append(G[i - 1], s[i]) ELSE G[i - 1]
    BY <1>5, <2>1 DEF Builds
  <2>3. \A i \in 0 .. n : F[i] = IF i = 0 THEN <<>>
            ELSE IF s[i] \in T THEN Append(F[i - 1], s[i]) ELSE F[i - 1]
    BY <2>1, <2>2
  <2> QED
    BY <2>3 DEF Builds
<1> QED
  BY <1>1, <1>6

LEMMA ThoseBuilt ==
    ASSUME NEW S, NEW s \in Seq(S), NEW T
    PROVE  \E F : Builds(s, T, Len(s), F) /\ Those(s, T) = F[Len(s)]
<1> DEFINE F == CHOOSE F : Builds(s, T, Len(s), F)
<1>1. Those(s, T) = F[Len(s)]
  BY DEF Those, Builds
<1>2. Builds(s, T, Len(s), F)
  <2>1. Len(s) \in 0 .. Len(s)
    OBVIOUS
  <2>2. \E G : Builds(s, T, Len(s), G)
    BY <2>1, SomeBuilds
  <2> QED
    BY <2>2
<1> QED
  BY <1>1, <1>2

\* One more element.
LEMMA ThoseAppend ==
    ASSUME NEW S, NEW s \in Seq(S), NEW x \in S, NEW T
    PROVE  /\ x \in T => Those(Append(s, x), T) = Append(Those(s, T), x)
           /\ x \notin T => Those(Append(s, x), T) = Those(s, T)
<1> DEFINE u == Append(s, x)
           n == Len(s)
<1>1. u \in Seq(S) /\ Len(u) = n + 1 /\ n \in Nat /\ u[n + 1] = x /\ \A i \in 1 .. n : u[i] = s[i]
  OBVIOUS
<1>2. PICK F : Builds(s, T, n, F) /\ Those(s, T) = F[n]
  BY ThoseBuilt
<1> HIDE DEF u
<1>3. PICK G : Builds(u, T, Len(u), G) /\ Those(u, T) = G[Len(u)]
  BY <1>1, ThoseBuilt
<1> HIDE DEF n
<1>4. \A i \in 0 .. n : F[i] = IF i = 0 THEN <<>>
          ELSE IF s[i] \in T THEN Append(F[i - 1], s[i]) ELSE F[i - 1]
  BY <1>2 DEF Builds
<1>5. \A i \in 0 .. n + 1 : G[i] = IF i = 0 THEN <<>>
          ELSE IF u[i] \in T THEN Append(G[i - 1], u[i]) ELSE G[i - 1]
  BY <1>1, <1>3 DEF Builds
<1> DEFINE Bad == {i \in 0 .. n : F[i] # G[i]}
<1>6. Bad = {}
  <2> SUFFICES ASSUME Bad # {} PROVE FALSE
    OBVIOUS
  <2>1. PICK k \in Bad : \A m \in Bad : k <= m
    <3>1. Bad \in SUBSET Nat
      BY <1>1
    <3> HIDE DEF Bad
    <3> QED
      BY <3>1, Smallest
  <2>2. k \in 1 .. n
    <3>1. 0 \in 0 .. n /\ 0 \in 0 .. n + 1
      BY <1>1
    <3>2. F[0] = G[0]
      BY <3>1, <1>4, <1>5
    <3> QED
      BY <2>1, <3>2, <1>1
  <2>3. F[k - 1] = G[k - 1]
    <3>1. k - 1 \in 0 .. n /\ ~(k <= k - 1)
      BY <2>2, <1>1
    <3> QED
      BY <2>1, <3>1
  <2>4. F[k] = G[k]
    <3>1. k \in 0 .. n /\ k \in 0 .. n + 1 /\ k # 0 /\ u[k] = s[k]
      BY <2>2, <1>1
    <3>2. F[k] = IF s[k] \in T THEN Append(F[k - 1], s[k]) ELSE F[k - 1]
      BY <3>1, <1>4
    <3>3. G[k] = IF u[k] \in T THEN Append(G[k - 1], u[k]) ELSE G[k - 1]
      BY <3>1, <1>5
    <3> QED
      BY <2>3, <3>1, <3>2, <3>3
  <2> QED
    BY <2>1, <2>4
<1>7. F[n] = G[n]
  BY <1>1, <1>6
<1>8. G[n + 1] = IF x \in T THEN Append(G[n], x) ELSE G[n]
  <2>1. n + 1 \in 0 .. n + 1 /\ n + 1 # 0 /\ (n + 1) - 1 = n
    BY <1>1
  <2>2. G[n + 1] = IF u[n + 1] \in T THEN Append(G[(n + 1) - 1], u[n + 1]) ELSE G[(n + 1) - 1]
    BY <2>1, <1>5
  <2> QED
    BY <2>1, <2>2, <1>1
<1> QED
  BY <1>1, <1>2, <1>3, <1>7, <1>8 DEF u

LEMMA ThoseNothing == ASSUME NEW T PROVE Those(<<>>, T) = <<>>
<1>1. <<>> \in Seq({})
  OBVIOUS
<1>2. \E F : Builds(<<>>, T, Len(<<>>), F) /\ Those(<<>>, T) = F[Len(<<>>)]
  BY <1>1, ThoseBuilt
<1>3. PICK F : Builds(<<>>, T, 0, F) /\ Those(<<>>, T) = F[0]
  BY <1>2
<1> QED
  BY <1>3 DEF Builds

LEMMA ThoseInSeq ==
    ASSUME NEW S, NEW s \in Seq(S), NEW T
    PROVE  Those(s, T) \in Seq(S)
<1>1. PICK F : Builds(s, T, Len(s), F) /\ Those(s, T) = F[Len(s)]
  BY ThoseBuilt
<1>2. \A i \in 0 .. Len(s) : F[i] = IF i = 0 THEN <<>>
          ELSE IF s[i] \in T THEN Append(F[i - 1], s[i]) ELSE F[i - 1]
  BY <1>1 DEF Builds
<1> DEFINE Bad == {i \in 0 .. Len(s) : F[i] \notin Seq(S)}
<1>3. Bad = {}
  <2> SUFFICES ASSUME Bad # {} PROVE FALSE
    OBVIOUS
  <2>1. PICK k \in Bad : \A m \in Bad : k <= m
    <3>1. Bad \in SUBSET Nat
      OBVIOUS
    <3> HIDE DEF Bad
    <3> QED
      BY <3>1, Smallest
  <2>2. k \in 0 .. Len(s) /\ F[k] \notin Seq(S)
    BY <2>1
  <2>3. k # 0
    <3>1. 0 \in 0 .. Len(s) /\ <<>> \in Seq(S)
      OBVIOUS
    <3>2. F[0] = <<>>
      BY <3>1, <1>2
    <3> QED
      BY <3>1, <3>2, <2>2
  <2>4. F[k - 1] \in Seq(S)
    <3>1. k - 1 \in 0 .. Len(s) /\ ~(k <= k - 1)
      BY <2>2, <2>3
    <3> QED
      BY <2>1, <3>1
  <2>5. F[k] = IF s[k] \in T THEN Append(F[k - 1], s[k]) ELSE F[k - 1]
    BY <2>2, <2>3, <1>2
  <2>6. s[k] \in S
    BY <2>2, <2>3
  <2> QED
    BY <2>2, <2>4, <2>5, <2>6
<1> QED
  <2>1. Len(s) \in 0 .. Len(s)
    OBVIOUS
  <2> QED
    BY <2>1, <1>1, <1>3

LEMMA ThoseConcat ==
    ASSUME NEW S, NEW a \in Seq(S), NEW b \in Seq(S), NEW T
    PROVE  Those(a \o b, T) = Those(a, T) \o Those(b, T)
<1> DEFINE Bad == {n \in 0 .. Len(b) :
                     Those(a \o SubSeq(b, 1, n), T) # Those(a, T) \o Those(SubSeq(b, 1, n), T)}
<1>1. Bad = {}
  <2> SUFFICES ASSUME Bad # {} PROVE FALSE
    OBVIOUS
  <2>1. PICK k \in Bad : \A m \in Bad : k <= m
    <3>1. Bad \in SUBSET Nat
      OBVIOUS
    <3> HIDE DEF Bad
    <3> QED
      BY <3>1, Smallest
  <2>2. k \in 0 .. Len(b)
    BY <2>1
  <2> DEFINE c(n) == SubSeq(b, 1, n)
  <2>3. Those(a \o c(k), T) # Those(a, T) \o Those(c(k), T)
    BY <2>1
  <2>4. k # 0
    <3> SUFFICES ASSUME k = 0 PROVE FALSE
      OBVIOUS
    <3>1. c(k) = <<>>
      OBVIOUS
    <3>2. a \o c(k) = a
      BY <3>1
    <3>3. Those(c(k), T) = <<>>
      BY <3>1, ThoseNothing
    <3>4. Those(a, T) \in Seq(S)
      BY ThoseInSeq
    <3>5. Those(a, T) \o <<>> = Those(a, T)
      BY <3>4
    <3> QED
      BY <2>3, <3>2, <3>3, <3>5
  <2>5. Those(a \o c(k - 1), T) = Those(a, T) \o Those(c(k - 1), T)
    <3>1. k - 1 \in 0 .. Len(b) /\ ~(k <= k - 1)
      BY <2>2, <2>4
    <3> QED
      BY <2>1, <3>1
  <2>6. c(k) = Append(c(k - 1), b[k]) /\ c(k - 1) \in Seq(S) /\ b[k] \in S
    BY <2>2, <2>4
  <2> HIDE DEF c, Bad
  <2>7. a \o c(k) = Append(a \o c(k - 1), b[k]) /\ a \o c(k - 1) \in Seq(S)
    BY <2>6
  <2>8. /\ b[k] \in T => Those(Append(a \o c(k - 1), b[k]), T) = Append(Those(a \o c(k - 1), T), b[k])
        /\ b[k] \notin T => Those(Append(a \o c(k - 1), b[k]), T) = Those(a \o c(k - 1), T)
    BY <2>6, <2>7, ThoseAppend
  <2>9. /\ b[k] \in T => Those(Append(c(k - 1), b[k]), T) = Append(Those(c(k - 1), T), b[k])
        /\ b[k] \notin T => Those(Append(c(k - 1), b[k]), T) = Those(c(k - 1), T)
    BY <2>6, ThoseAppend
  <2>10. Those(a, T) \in Seq(S) /\ Those(c(k - 1), T) \in Seq(S)
    BY <2>6, ThoseInSeq
  <2>11. Those(a, T) \o Append(Those(c(k - 1), T), b[k]) = Append(Those(a, T) \o Those(c(k - 1), T), b[k])
    BY <2>10, <2>6
  <2> QED
    BY <2>3, <2>5, <2>6, <2>7, <2>8, <2>9, <2>11
<1>2. Len(b) \in 0 .. Len(b) /\ SubSeq(b, 1, Len(b)) = b
  OBVIOUS
<1> QED
  BY <1>1, <1>2

\* The same with a name for the joined sequence.
Together(x, y) == x \o y

LEMMA ThoseTogether ==
    ASSUME NEW S, NEW a \in Seq(S), NEW b \in Seq(S), NEW T
    PROVE  Those(Together(a, b), T) = Together(Those(a, T), Those(b, T))
<1>1. Those(a \o b, T) = Those(a, T) \o Those(b, T)
  BY ThoseConcat
<1> QED
  BY <1>1, Zenon DEF Together

LEMMA ThoseAll ==
    ASSUME NEW S, NEW s \in Seq(S), NEW T, \A i \in 1 .. Len(s) : s[i] \in T
    PROVE  Those(s, T) = s
<1> DEFINE Bad == {n \in 0 .. Len(s) : Those(SubSeq(s, 1, n), T) # SubSeq(s, 1, n)}
<1>1. Bad = {}
  <2> SUFFICES ASSUME Bad # {} PROVE FALSE
    OBVIOUS
  <2>1. PICK k \in Bad : \A m \in Bad : k <= m
    <3>1. Bad \in SUBSET Nat
      OBVIOUS
    <3> HIDE DEF Bad
    <3> QED
      BY <3>1, Smallest
  <2> DEFINE c(n) == SubSeq(s, 1, n)
  <2>2. k \in 0 .. Len(s) /\ Those(c(k), T) # c(k)
    BY <2>1
  <2>3. k # 0
    <3>1. k = 0 => c(k) = <<>>
      OBVIOUS
    <3> QED
      BY <3>1, <2>2, ThoseNothing
  <2>4. Those(c(k - 1), T) = c(k - 1)
    <3>1. k - 1 \in 0 .. Len(s) /\ ~(k <= k - 1)
      BY <2>2, <2>3
    <3> QED
      BY <2>1, <3>1
  <2>5. c(k) = Append(c(k - 1), s[k]) /\ c(k - 1) \in Seq(S) /\ s[k] \in S /\ s[k] \in T
    BY <2>2, <2>3
  <2> HIDE DEF c, Bad
  <2>6. Those(c(k), T) = Append(Those(c(k - 1), T), s[k])
    BY <2>5, ThoseAppend
  <2> QED
    BY <2>2, <2>4, <2>5, <2>6
<1>2. Len(s) \in 0 .. Len(s) /\ SubSeq(s, 1, Len(s)) = s
  OBVIOUS
<1> QED
  BY <1>1, <1>2

LEMMA ThoseNone ==
    ASSUME NEW S, NEW s \in Seq(S), NEW T, \A i \in 1 .. Len(s) : s[i] \notin T
    PROVE  Those(s, T) = <<>>
<1> DEFINE Bad == {n \in 0 .. Len(s) : Those(SubSeq(s, 1, n), T) # <<>>}
<1>1. Bad = {}
  <2> SUFFICES ASSUME Bad # {} PROVE FALSE
    OBVIOUS
  <2>1. PICK k \in Bad : \A m \in Bad : k <= m
    <3>1. Bad \in SUBSET Nat
      OBVIOUS
    <3> HIDE DEF Bad
    <3> QED
      BY <3>1, Smallest
  <2> DEFINE c(n) == SubSeq(s, 1, n)
  <2>2. k \in 0 .. Len(s) /\ Those(c(k), T) # <<>>
    BY <2>1
  <2>3. k # 0
    <3>1. k = 0 => c(k) = <<>>
      OBVIOUS
    <3> QED
      BY <3>1, <2>2, ThoseNothing
  <2>4. Those(c(k - 1), T) = <<>>
    <3>1. k - 1 \in 0 .. Len(s) /\ ~(k <= k - 1)
      BY <2>2, <2>3
    <3> QED
      BY <2>1, <3>1
  <2>5. c(k) = Append(c(k - 1), s[k]) /\ c(k - 1) \in Seq(S) /\ s[k] \in S /\ s[k] \notin T
    BY <2>2, <2>3
  <2> HIDE DEF c, Bad
  <2>6. Those(c(k), T) = Those(c(k - 1), T)
    BY <2>5, ThoseAppend
  <2> QED
    BY <2>2, <2>4, <2>6
<1>2. Len(s) \in 0 .. Len(s) /\ SubSeq(s, 1, Len(s)) = s
  OBVIOUS
<1> QED
  BY <1>1, <1>2

-----------------------------------------------------------------------------
(* Server-sent events: joining sequences *)

\* F is the recursive function of FlattenSeq, up to the n-th sequence.
Joined(ss, n, F) == F = [i \in 1 .. n |-> IF i = 1 THEN ss[i] ELSE F[i - 1] \o ss[i]]

LEMMA SomeJoined ==
    ASSUME NEW S, NEW ss \in Seq(Seq(S)), Len(ss) # 0
    PROVE  \A n \in 1 .. Len(ss) : \E F : Joined(ss, n, F)
<1> DEFINE Bad == {n \in 1 .. Len(ss) : ~\E F : Joined(ss, n, F)}
<1> SUFFICES ASSUME Bad # {} PROVE FALSE
  OBVIOUS
<1>1. PICK n \in Bad : \A m \in Bad : n <= m
  <2>1. Bad \in SUBSET Nat
    OBVIOUS
  <2> HIDE DEF Bad
  <2> QED
    BY <2>1, Smallest
<1>2. Joined(ss, 1, [i \in 1 .. 1 |-> ss[1]])
  BY DEF Joined
<1>3. n # 1
  BY <1>1, <1>2
<1>4. n - 1 \in 1 .. Len(ss) /\ n - 1 \notin Bad
  <2>1. n \in 1 .. Len(ss)
    BY <1>1
  <2>2. n - 1 \in 1 .. Len(ss) /\ ~(n <= n - 1)
    BY <2>1, <1>3
  <2> QED
    BY <1>1, <2>2
<1>5. PICK G : Joined(ss, n - 1, G)
  BY <1>4
<1> DEFINE F == [i \in 1 .. n |-> IF i < n THEN G[i] ELSE G[n - 1] \o ss[n]]
<1>6. Joined(ss, n, F)
  <2>1. n \in Nat /\ n > 1
    BY <1>1, <1>3
  <2>2. \A i \in 1 .. n - 1 : G[i] = IF i = 1 THEN ss[i] ELSE G[i - 1] \o ss[i]
    BY <1>5, <2>1 DEF Joined
  <2>3. \A i \in 1 .. n : F[i] = IF i = 1 THEN ss[i] ELSE F[i - 1] \o ss[i]
    <3> SUFFICES ASSUME NEW i \in 1 .. n
                 PROVE  F[i] = IF i = 1 THEN ss[i] ELSE F[i - 1] \o ss[i]
      OBVIOUS
    <3>1. CASE i = n
      BY <2>1, <3>1
    <3>2. CASE i # n
      <4>1. i \in 1 .. n - 1 /\ i < n /\ i - 1 < n
        BY <2>1, <3>2
      <4>2. i # 1 => i - 1 \in 1 .. n
        BY <2>1
      <4> QED
        BY <2>1, <2>2, <4>1, <4>2
    <3> QED
      BY <3>1, <3>2
  <2> QED
    BY <2>3 DEF Joined
<1> QED
  BY <1>1, <1>6

LEMMA FlatBuilt ==
    ASSUME NEW S, NEW ss \in Seq(Seq(S)), Len(ss) # 0
    PROVE  \E F : Joined(ss, Len(ss), F) /\ Wire!FlattenSeq(ss) = F[Len(ss)]
<1> DEFINE F == CHOOSE F : Joined(ss, Len(ss), F)
<1>1. Wire!FlattenSeq(ss) = F[Len(ss)]
  BY DEF Wire!FlattenSeq, Joined
<1>2. Joined(ss, Len(ss), F)
  <2>1. Len(ss) \in 1 .. Len(ss)
    OBVIOUS
  <2>2. \E G : Joined(ss, Len(ss), G)
    BY <2>1, SomeJoined
  <2> QED
    BY <2>2
<1> QED
  BY <1>1, <1>2

LEMMA FlatNothing == Wire!FlattenSeq(<<>>) = <<>>
BY DEF Wire!FlattenSeq

LEMMA FlatInSeq ==
    ASSUME NEW S, NEW ss \in Seq(Seq(S))
    PROVE  Wire!FlattenSeq(ss) \in Seq(S)
<1>1. CASE Len(ss) = 0
  <2>1. ss = <<>> /\ <<>> \in Seq(S)
    BY <1>1
  <2> QED
    BY <2>1, FlatNothing
<1>2. CASE Len(ss) # 0
  <2>1. PICK F : Joined(ss, Len(ss), F) /\ Wire!FlattenSeq(ss) = F[Len(ss)]
    BY <1>2, FlatBuilt
  <2>2. \A i \in 1 .. Len(ss) : F[i] = IF i = 1 THEN ss[i] ELSE F[i - 1] \o ss[i]
    BY <2>1 DEF Joined
  <2> DEFINE Bad == {i \in 1 .. Len(ss) : F[i] \notin Seq(S)}
  <2>3. Bad = {}
    <3> SUFFICES ASSUME Bad # {} PROVE FALSE
      OBVIOUS
    <3>1. PICK k \in Bad : \A m \in Bad : k <= m
      <4>1. Bad \in SUBSET Nat
        OBVIOUS
      <4> HIDE DEF Bad
      <4> QED
        BY <4>1, Smallest
    <3>2. k \in 1 .. Len(ss) /\ F[k] \notin Seq(S) /\ ss[k] \in Seq(S)
      BY <3>1
    <3>3. k # 1
      BY <3>2, <2>2
    <3>4. F[k - 1] \in Seq(S)
      <4>1. k - 1 \in 1 .. Len(ss) /\ ~(k <= k - 1)
        BY <3>2, <3>3
      <4> QED
        BY <3>1, <4>1
    <3>5. F[k] = F[k - 1] \o ss[k]
      BY <3>2, <3>3, <2>2
    <3> QED
      BY <3>2, <3>4, <3>5
  <2> QED
    <3>1. Len(ss) \in 1 .. Len(ss)
      BY <1>2
    <3> QED
      BY <3>1, <2>1, <2>3
<1> QED
  BY <1>1, <1>2

LEMMA FlatAppend ==
    ASSUME NEW S, NEW ss \in Seq(Seq(S)), NEW x \in Seq(S)
    PROVE  Wire!FlattenSeq(Append(ss, x)) = Wire!FlattenSeq(ss) \o x
<1> DEFINE u == Append(ss, x)
           n == Len(ss)
<1>1. /\ u \in Seq(Seq(S)) /\ Len(u) = n + 1 /\ n \in Nat /\ u[n + 1] = x
      /\ \A i \in 1 .. n : u[i] = ss[i]
  OBVIOUS
<1>2. n # 0 => \E F : Joined(ss, n, F) /\ Wire!FlattenSeq(ss) = F[n]
  BY FlatBuilt
<1> HIDE DEF u
<1>3. PICK G : Joined(u, Len(u), G) /\ Wire!FlattenSeq(u) = G[Len(u)]
  BY <1>1, FlatBuilt
<1>4. n = 0 => Wire!FlattenSeq(ss) = <<>>
  <2>1. n = 0 => ss = <<>>
    OBVIOUS
  <2> QED
    BY <2>1, FlatNothing
<1> HIDE DEF n
<1>5. \A i \in 1 .. n + 1 : G[i] = IF i = 1 THEN u[i] ELSE G[i - 1] \o u[i]
  BY <1>1, <1>3 DEF Joined
<1>6. CASE n = 0
  <2>1. G[1] = x
    BY <1>1, <1>5, <1>6
  <2> QED
    BY <2>1, <1>1, <1>3, <1>4, <1>6 DEF u
<1>7. CASE n # 0
  <2>1. PICK F : Joined(ss, n, F) /\ Wire!FlattenSeq(ss) = F[n]
    BY <1>2, <1>7
  <2>2. \A i \in 1 .. n : F[i] = IF i = 1 THEN ss[i] ELSE F[i - 1] \o ss[i]
    BY <2>1 DEF Joined
  <2> DEFINE Bad == {i \in 1 .. n : F[i] # G[i]}
  <2>3. Bad = {}
    <3> SUFFICES ASSUME Bad # {} PROVE FALSE
      OBVIOUS
    <3>1. PICK k \in Bad : \A m \in Bad : k <= m
      <4>1. Bad \in SUBSET Nat
        BY <1>1
      <4> HIDE DEF Bad
      <4> QED
        BY <4>1, Smallest
    <3>2. k \in 1 .. n /\ k \in 1 .. n + 1 /\ F[k] # G[k] /\ u[k] = ss[k]
      BY <3>1, <1>1
    <3>3. k # 1
      BY <3>2, <2>2, <1>5
    <3>4. F[k - 1] = G[k - 1]
      <4>1. k - 1 \in 1 .. n /\ ~(k <= k - 1)
        BY <3>2, <3>3, <1>1
      <4> QED
        BY <3>1, <4>1
    <3>5. F[k] = F[k - 1] \o ss[k]
      BY <3>2, <3>3, <2>2
    <3>6. G[k] = G[k - 1] \o u[k]
      BY <3>2, <3>3, <1>5
    <3> QED
      BY <3>2, <3>4, <3>5, <3>6
  <2>4. F[n] = G[n]
    BY <1>1, <1>7, <2>3
  <2>5. G[n + 1] = G[n] \o x
    <3>1. n + 1 \in 1 .. n + 1 /\ n + 1 # 1 /\ (n + 1) - 1 = n
      BY <1>1, <1>7
    <3>2. G[n + 1] = G[(n + 1) - 1] \o u[n + 1]
      BY <3>1, <1>5
    <3> QED
      BY <3>1, <3>2, <1>1
  <2> QED
    BY <2>1, <2>4, <2>5, <1>1, <1>3 DEF u
<1> QED
  BY <1>6, <1>7

-----------------------------------------------------------------------------
(* Server-sent events: the events of a text *)

\* The body of the loop of consumeSseResponse, for the events of shorter texts.
DrainBody(D, text) ==
    LET at == Wire!SeparatorIn(text)
        more == D[SubSeq(text, at + 2, Len(text))]
    IN  IF at = 0 THEN [events |-> <<>>, rest |-> text]
        ELSE [events |-> Wire!EventIn(Wire!LinesOf(SubSeq(text, 1, at - 1))) \o more.events, rest |-> more.rest]

\* The texts up to a length, and Drain as a function on them.
Short(n) == {text \in Seq(Wire!Item) : Len(text) <= n}

Drains(n, D) == D = [text \in Short(n) |-> DrainBody(D, text)]

LEMMA SeparatorFound ==
    ASSUME NEW text \in Seq(Wire!Item)
    PROVE  LET at == Wire!SeparatorIn(text)
           IN  \/ /\ at = 0
                  /\ \A i \in 1 .. Len(text) - 1 : ~(text[i] = Wire!NL /\ text[i + 1] = Wire!NL)
               \/ /\ at \in 1 .. Len(text) - 1
                  /\ text[at] = Wire!NL /\ text[at + 1] = Wire!NL
                  /\ \A i \in 1 .. at - 1 : ~(text[i] = Wire!NL /\ text[i + 1] = Wire!NL)
<1> DEFINE at == {i \in 1 .. Len(text) - 1 : text[i] = Wire!NL /\ text[i + 1] = Wire!NL}
<1>1. CASE at = {}
  <2>1. Wire!SeparatorIn(text) = 0
    BY <1>1 DEF Wire!SeparatorIn
  <2> QED
    BY <1>1, <2>1
<1>2. CASE at # {}
  <2> DEFINE k == CHOOSE i \in at : \A j \in at : i <= j
  <2>1. Wire!SeparatorIn(text) = k
    BY <1>2 DEF Wire!SeparatorIn
  <2>2. at \in SUBSET Nat
    OBVIOUS
  <2>3. k \in at /\ \A j \in at : k <= j
    <3> HIDE DEF at
    <3>1. \E i \in at : \A j \in at : i <= j
      BY <1>2, <2>2, Smallest
    <3> QED
      BY <3>1
  <2> HIDE DEF k
  <2>4. k \in 1 .. Len(text) - 1 /\ text[k] = Wire!NL /\ text[k + 1] = Wire!NL
    BY <2>3
  <2>5. \A i \in 1 .. k - 1 : ~(text[i] = Wire!NL /\ text[i + 1] = Wire!NL)
    <3> SUFFICES ASSUME NEW i \in 1 .. k - 1, text[i] = Wire!NL /\ text[i + 1] = Wire!NL
                 PROVE  FALSE
      OBVIOUS
    <3>1. i \in at
      BY <2>4
    <3> HIDE DEF at
    <3>2. k <= i
      BY <3>1, <2>3
    <3> QED
      BY <3>2, <2>4
  <2> QED
    BY <2>1, <2>4, <2>5
<1> QED
  BY <1>1, <1>2

\* A position is the one found when it is the first.
LEMMA SeparatorIs ==
    ASSUME NEW text \in Seq(Wire!Item), NEW at \in 1 .. Len(text) - 1,
           text[at] = Wire!NL, text[at + 1] = Wire!NL,
           \A i \in 1 .. at - 1 : ~(text[i] = Wire!NL /\ text[i + 1] = Wire!NL)
    PROVE  Wire!SeparatorIn(text) = at
<1> DEFINE k == Wire!SeparatorIn(text)
<1>1. \/ /\ k = 0
         /\ \A i \in 1 .. Len(text) - 1 : ~(text[i] = Wire!NL /\ text[i + 1] = Wire!NL)
      \/ /\ k \in 1 .. Len(text) - 1
         /\ text[k] = Wire!NL /\ text[k + 1] = Wire!NL
         /\ \A i \in 1 .. k - 1 : ~(text[i] = Wire!NL /\ text[i + 1] = Wire!NL)
  BY SeparatorFound
<1> HIDE DEF k
<1>2. k \in 1 .. Len(text) - 1
  BY <1>1
<1>3. ~(k < at) /\ ~(at < k)
  BY <1>1, <1>2
<1> QED
  BY <1>2, <1>3 DEF k

\* What follows the first empty line is a shorter text.
LEMMA AfterSeparator ==
    ASSUME NEW text \in Seq(Wire!Item), Wire!SeparatorIn(text) # 0
    PROVE  /\ SubSeq(text, Wire!SeparatorIn(text) + 2, Len(text)) \in Seq(Wire!Item)
           /\ Len(SubSeq(text, Wire!SeparatorIn(text) + 2, Len(text))) = Len(text) - Wire!SeparatorIn(text) - 1
           /\ Wire!SeparatorIn(text) \in 1 .. Len(text) - 1
<1> DEFINE k == Wire!SeparatorIn(text)
<1>1. k \in 1 .. Len(text) - 1
  BY SeparatorFound
<1> HIDE DEF k
<1>2. /\ SubSeq(text, k + 2, Len(text)) \in Seq(Wire!Item)
      /\ Len(SubSeq(text, k + 2, Len(text))) = Len(text) - k - 1
  BY <1>1
<1> QED
  BY <1>1, <1>2 DEF k

LEMMA DrainBodySame ==
    ASSUME NEW D, NEW E, NEW text \in Seq(Wire!Item),
           \A t \in Short(Len(text) - 1) : D[t] = E[t]
    PROVE  DrainBody(D, text) = DrainBody(E, text)
<1>1. CASE Wire!SeparatorIn(text) = 0
  BY <1>1 DEF DrainBody
<1>2. CASE Wire!SeparatorIn(text) # 0
  <2> DEFINE t == SubSeq(text, Wire!SeparatorIn(text) + 2, Len(text))
  <2>1. t \in Seq(Wire!Item) /\ Len(t) <= Len(text) - 1
    BY <1>2, AfterSeparator
  <2>2. D[t] = E[t]
    <3> HIDE DEF t
    <3> QED
      BY <2>1 DEF Short
  <2> QED
    BY <2>2 DEF DrainBody
<1> QED
  BY <1>1, <1>2

LEMMA SomeDrains == \A n \in Nat : \E D : Drains(n, D)
<1> DEFINE Bad == {n \in Nat : ~\E D : Drains(n, D)}
<1> SUFFICES ASSUME Bad # {} PROVE FALSE
  OBVIOUS
<1>1. PICK n \in Bad : \A m \in Bad : n <= m
  <2>1. Bad \in SUBSET Nat
    OBVIOUS
  <2> HIDE DEF Bad
  <2> QED
    BY <2>1, Smallest
<1> DEFINE D0 == [text \in Short(0) |-> [events |-> <<>>, rest |-> text]]
<1>2. Drains(0, D0)
  <2>1. ASSUME NEW text \in Short(0) PROVE DrainBody(D0, text) = [events |-> <<>>, rest |-> text]
    <3>1. text \in Seq(Wire!Item) /\ Len(text) = 0
      BY DEF Short
    <3>2. Wire!SeparatorIn(text) = 0
      <4>1. Wire!SeparatorIn(text) # 0 => Wire!SeparatorIn(text) \in 1 .. Len(text) - 1
        BY <3>1, SeparatorFound
      <4> QED
        BY <3>1, <4>1
    <3> QED
      BY <3>2 DEF DrainBody
  <2> QED
    BY <2>1 DEF Drains
<1>3. n # 0 /\ n \in Nat
  BY <1>1, <1>2
<1>4. n - 1 \in Nat /\ n - 1 \notin Bad
  <2>1. n - 1 \in Nat /\ ~(n <= n - 1)
    BY <1>3
  <2> QED
    BY <1>1, <2>1
<1>5. PICK G : Drains(n - 1, G)
  BY <1>4
<1> DEFINE F == [text \in Short(n) |-> DrainBody(G, text)]
<1>6. \A t \in Short(n - 1) : G[t] = F[t]
  <2>1. \A t \in Short(n - 1) : t \in Short(n) /\ G[t] = DrainBody(G, t)
    BY <1>3, <1>5 DEF Drains, Short
  <2> QED
    BY <2>1
<1>7. Drains(n, F)
  <2>1. ASSUME NEW text \in Short(n) PROVE DrainBody(G, text) = DrainBody(F, text)
    <3>1. text \in Seq(Wire!Item) /\ \A t \in Short(Len(text) - 1) : t \in Short(n - 1)
      BY <1>3 DEF Short
    <3>2. \A t \in Short(Len(text) - 1) : G[t] = F[t]
      BY <3>1, <1>6
    <3> HIDE DEF F
    <3> QED
      BY <3>1, <3>2, DrainBodySame
  <2> QED
    BY <2>1 DEF Drains
<1> QED
  BY <1>1, <1>3, <1>7

\* The events of a short text do not depend on the longer ones.
LEMMA DrainsAgree ==
    ASSUME NEW n \in Nat, NEW m \in Nat, n <= m, NEW D, NEW E, Drains(n, D), Drains(m, E)
    PROVE  \A text \in Short(n) : D[text] = E[text]
<1> DEFINE Bad == {l \in 0 .. n : \E text \in Short(l) : D[text] # E[text]}
<1>1. Bad = {}
  <2> SUFFICES ASSUME Bad # {} PROVE FALSE
    OBVIOUS
  <2>1. PICK k \in Bad : \A l \in Bad : k <= l
    <3>1. Bad \in SUBSET Nat
      OBVIOUS
    <3> HIDE DEF Bad
    <3> QED
      BY <3>1, Smallest
  <2>2. k \in 0 .. n
    BY <2>1
  <2>3. PICK text \in Short(k) : D[text] # E[text]
    BY <2>1
  <2>4. text \in Seq(Wire!Item) /\ text \in Short(n) /\ text \in Short(m)
    BY <2>2, <2>3 DEF Short
  <2>5. \A t \in Short(Len(text) - 1) : D[t] = E[t]
    <3>1. CASE k = 0
      BY <3>1, <2>3 DEF Short
    <3>2. CASE k # 0
      <4>1. k - 1 \in 0 .. n /\ ~(k <= k - 1)
        BY <3>2, <2>2
      <4>2. k - 1 \notin Bad
        BY <2>1, <4>1
      <4>3. \A t \in Short(Len(text) - 1) : t \in Short(k - 1)
        BY <2>2, <2>3 DEF Short
      <4> QED
        BY <4>1, <4>2, <4>3
    <3> QED
      BY <3>1, <3>2
  <2>6. DrainBody(D, text) = DrainBody(E, text)
    BY <2>4, <2>5, DrainBodySame
  <2>7. D[text] = DrainBody(D, text) /\ E[text] = DrainBody(E, text)
    BY <2>4 DEF Drains
  <2> QED
    BY <2>3, <2>6, <2>7
<1>2. n \in 0 .. n
  OBVIOUS
<1> QED
  BY <1>1, <1>2

LEMMA DrainForm ==
    ASSUME NEW text \in Seq(Wire!Item)
    PROVE  Wire!Drain[text] = DrainBody(Wire!Drain, text)
<1> DEFINE Of(n) == CHOOSE D : Drains(n, D)
           G == [t \in Seq(Wire!Item) |-> Of(Len(t))[t]]
<1>1. \A n \in Nat : Drains(n, Of(n))
  BY SomeDrains
<1> HIDE DEF Of
<1>2. ASSUME NEW t \in Seq(Wire!Item) PROVE G[t] = DrainBody(G, t)
  <2> DEFINE D == Of(Len(t))
  <2>1. Len(t) \in Nat /\ t \in Short(Len(t))
    BY DEF Short
  <2>2. G[t] = D[t] /\ Drains(Len(t), D)
    BY <1>1, <2>1
  <2>3. D[t] = DrainBody(D, t)
    BY <2>1, <2>2 DEF Drains
  <2>4. \A s \in Short(Len(t) - 1) : G[s] = D[s]
    <3> SUFFICES ASSUME NEW s \in Short(Len(t) - 1) PROVE G[s] = D[s]
      OBVIOUS
    <3>1. s \in Seq(Wire!Item) /\ Len(s) \in Nat /\ Len(s) <= Len(t) /\ s \in Short(Len(s))
      BY DEF Short
    <3>2. G[s] = Of(Len(s))[s] /\ Drains(Len(s), Of(Len(s)))
      BY <3>1, <1>1
    <3> HIDE DEF G, D
    <3>3. Of(Len(s))[s] = D[s]
      BY <2>1, <2>2, <3>1, <3>2, DrainsAgree
    <3> QED
      BY <3>2, <3>3
  <2>5. DrainBody(G, t) = DrainBody(D, t)
    <3> HIDE DEF G, D
    <3> QED
      BY <2>4, DrainBodySame
  <2> QED
    BY <2>2, <2>3, <2>5
<1>3. G = [t \in Seq(Wire!Item) |-> DrainBody(G, t)]
  BY <1>2
<1> HIDE DEF G
<1>4. \E F : F = [t \in Seq(Wire!Item) |-> DrainBody(F, t)]
  BY <1>3
<1>5. Wire!Drain = CHOOSE F : F = [t \in Seq(Wire!Item) |-> DrainBody(F, t)]
  BY DEF Wire!Drain, DrainBody
<1>6. Wire!Drain = [t \in Seq(Wire!Item) |-> DrainBody(Wire!Drain, t)]
  BY <1>4, <1>5
<1> QED
  BY <1>6

LEMMA WireThose == ASSUME NEW s, NEW T PROVE Wire!Those(s, T) = Those(s, T)
BY DEF Wire!Those, Those

LEMMA ValuesInSeq ==
    ASSUME Wire!SseTypes, NEW lines \in Seq(Wire!Item), NEW field
    PROVE  Wire!ValuesOf(lines, field) \in Seq(STRING)
<1> DEFINE those == Wire!Those(lines, {l \in Wire!ToSet(lines) : l.field = field})
<1>1. those \in Seq(Wire!Item)
  BY ThoseInSeq, WireThose
<1>2. Wire!ValuesOf(lines, field) = [i \in 1 .. Len(those) |-> those[i].value]
  BY DEF Wire!ValuesOf
<1> HIDE DEF those
<1>3. \A i \in 1 .. Len(those) : those[i].value \in STRING
  <2> SUFFICES ASSUME NEW i \in 1 .. Len(those) PROVE those[i].value \in STRING
    OBVIOUS
  <2>1. those[i] \in Wire!Item
    BY <1>1
  <2>2. Empty \in STRING
    BY DEF Wire!SseTypes
  <2>3. CASE those[i] \in Wire!Line
    BY <2>3 DEF Wire!Line
  <2>4. CASE those[i] = Wire!NL
    <3>1. Wire!NL.value = Empty
      BY DEF Wire!NL
    <3> QED
      BY <2>2, <2>4, <3>1
  <2> QED
    BY <2>1, <2>3, <2>4 DEF Wire!Item
<1> QED
  BY <1>1, <1>2, <1>3

LEMMA LastInSet ==
    ASSUME NEW seq \in Seq(STRING)
    PROVE  Wire!LastOr(seq, Wire!Absent) \in STRING \cup {Wire!Absent}
<1>2. CASE seq = <<>>
  BY <1>2 DEF Wire!LastOr
<1>3. CASE seq # <<>>
  <2>1. seq[Len(seq)] \in STRING
    BY <1>3
  <2> QED
    BY <1>3, <2>1 DEF Wire!LastOr, Wire!Last
<1> QED
  BY <1>2, <1>3

LEMMA EventTypes ==
    ASSUME Wire!SseTypes, NEW lines \in Seq(Wire!Item)
    PROVE  Wire!ParseSseBlock(lines) \in Wire!Event /\ Wire!EventIn(lines) \in Seq(Wire!Event)
<1>1. Wire!ValuesOf(lines, "data") \in Seq(STRING)
  BY ValuesInSeq
<1>2. Wire!LastOr(Wire!ValuesOf(lines, "id"), Wire!Absent) \in STRING \cup {Wire!Absent}
  BY ValuesInSeq, LastInSet
<1>3. Wire!LastOr(Wire!ValuesOf(lines, "event"), Wire!Absent) \in STRING \cup {Wire!Absent}
  BY ValuesInSeq, LastInSet
<1>4. Wire!ParseSseBlock(lines) \in Wire!Event
  BY <1>1, <1>2, <1>3 DEF Wire!ParseSseBlock, Wire!Event
<1> QED
  BY <1>4 DEF Wire!EventIn

LEMMA LinesInSeq ==
    ASSUME NEW text \in Seq(Wire!Item)
    PROVE  Wire!LinesOf(text) \in Seq(Wire!Item)
BY ThoseInSeq, WireThose DEF Wire!LinesOf

LEMMA DrainNothing ==
    ASSUME NEW text \in Seq(Wire!Item), Wire!SeparatorIn(text) = 0
    PROVE  Wire!Drain[text] = [events |-> <<>>, rest |-> text]
BY DrainForm DEF DrainBody

\* A text with a complete block: the events of the first, and what follows it.
FirstBlock(text) == Wire!EventIn(Wire!LinesOf(SubSeq(text, 1, Wire!SeparatorIn(text) - 1)))

AfterBlock(text) == SubSeq(text, Wire!SeparatorIn(text) + 2, Len(text))

LEMMA DrainBlock ==
    ASSUME NEW text \in Seq(Wire!Item), Wire!SeparatorIn(text) # 0
    PROVE  /\ Wire!Drain[text].events = FirstBlock(text) \o Wire!Drain[AfterBlock(text)].events
           /\ Wire!Drain[text].rest = Wire!Drain[AfterBlock(text)].rest
<1>1. Wire!Drain[text] = DrainBody(Wire!Drain, text)
  BY DrainForm
<1>2. DrainBody(Wire!Drain, text) = [events |-> FirstBlock(text) \o Wire!Drain[AfterBlock(text)].events,
                                     rest |-> Wire!Drain[AfterBlock(text)].rest]
  BY DEF DrainBody, FirstBlock, AfterBlock
<1> QED
  BY <1>1, <1>2

LEMMA BlockTypes ==
    ASSUME Wire!SseTypes, NEW text \in Seq(Wire!Item), Wire!SeparatorIn(text) # 0
    PROVE  /\ FirstBlock(text) \in Seq(Wire!Event)
           /\ AfterBlock(text) \in Seq(Wire!Item)
           /\ Len(AfterBlock(text)) \in Nat /\ Len(AfterBlock(text)) < Len(text)
<1> DEFINE k == Wire!SeparatorIn(text)
           t == SubSeq(text, 1, k - 1)
<1>1. /\ AfterBlock(text) \in Seq(Wire!Item) /\ Len(AfterBlock(text)) = Len(text) - k - 1
      /\ k \in 1 .. Len(text) - 1
  BY AfterSeparator DEF AfterBlock
<1>2. t \in Seq(Wire!Item)
  <2> HIDE DEF k
  <2> QED
    BY <1>1
<1>3. FirstBlock(text) = Wire!EventIn(Wire!LinesOf(t))
  BY DEF FirstBlock
<1> HIDE DEF t, k
<1>4. Wire!EventIn(Wire!LinesOf(t)) \in Seq(Wire!Event)
  BY <1>2, LinesInSeq, EventTypes
<1> QED
  BY <1>1, <1>3, <1>4

\* What draining a text leaves: events, and a rest without a complete block.
Drained(text) ==
    /\ Wire!Drain[text].events \in Seq(Wire!Event)
    /\ Wire!Drain[text].rest \in Seq(Wire!Item)
    /\ Wire!SeparatorIn(Wire!Drain[text].rest) = 0

LEMMA DrainTypes == ASSUME Wire!SseTypes, NEW text \in Seq(Wire!Item) PROVE Drained(text)
<1> DEFINE Bad == {n \in Nat : \E t \in Seq(Wire!Item) : Len(t) = n /\ ~Drained(t)}
<1>1. Bad = {}
  <2> SUFFICES ASSUME Bad # {} PROVE FALSE
    OBVIOUS
  <2>1. PICK n \in Bad : \A m \in Bad : n <= m
    <3>1. Bad \in SUBSET Nat
      OBVIOUS
    <3> HIDE DEF Bad
    <3> QED
      BY <3>1, Smallest
  <2>2. PICK t \in Seq(Wire!Item) : Len(t) = n /\ ~Drained(t)
    BY <2>1
  <2>3. CASE Wire!SeparatorIn(t) = 0
    <3>1. Wire!Drain[t] = [events |-> <<>>, rest |-> t]
      BY <2>3, DrainNothing
    <3> QED
      BY <2>2, <2>3, <3>1 DEF Drained
  <2>4. CASE Wire!SeparatorIn(t) # 0
    <3> DEFINE tail == AfterBlock(t)
    <3>1. FirstBlock(t) \in Seq(Wire!Event) /\ tail \in Seq(Wire!Item) /\ Len(tail) \in Nat /\ Len(tail) < Len(t)
      BY <2>4, BlockTypes
    <3>2. /\ Wire!Drain[t].events = FirstBlock(t) \o Wire!Drain[tail].events
          /\ Wire!Drain[t].rest = Wire!Drain[tail].rest
      BY <2>4, DrainBlock
    <3> HIDE DEF tail
    <3>3. Drained(tail)
      <4>1. ~(n <= Len(tail))
        BY <3>1, <2>2
      <4>2. Len(tail) \notin Bad
        BY <2>1, <4>1
      <4> QED
        BY <3>1, <4>2
    <3>5. Drained(t)
      BY <3>1, <3>2, <3>3 DEF Drained
    <3> QED
      BY <2>2, <3>5
  <2> QED
    BY <2>3, <2>4
<1> QED
  <2>1. Len(text) \in Nat
    OBVIOUS
  <2> QED
    BY <1>1, <2>1

\* A separator of the beginning is one of the whole.
LEMMA SeparatorStays ==
    ASSUME NEW a \in Seq(Wire!Item), NEW b \in Seq(Wire!Item), Wire!SeparatorIn(a) # 0
    PROVE  Wire!SeparatorIn(a \o b) = Wire!SeparatorIn(a)
<1> DEFINE k == Wire!SeparatorIn(a)
           c == a \o b
<1>1. /\ k \in 1 .. Len(a) - 1 /\ a[k] = Wire!NL /\ a[k + 1] = Wire!NL
      /\ \A i \in 1 .. k - 1 : ~(a[i] = Wire!NL /\ a[i + 1] = Wire!NL)
  BY SeparatorFound
<1>2. c \in Seq(Wire!Item) /\ Len(c) = Len(a) + Len(b) /\ \A i \in 1 .. Len(a) : c[i] = a[i]
  OBVIOUS
<1> HIDE DEF k, c
<1>3. k \in 1 .. Len(c) - 1
  BY <1>1, <1>2
<1>4. \A i \in 1 .. k : c[i] = a[i] /\ c[i + 1] = a[i + 1]
  <2> SUFFICES ASSUME NEW i \in 1 .. k PROVE c[i] = a[i] /\ c[i + 1] = a[i + 1]
    OBVIOUS
  <2>1. i \in 1 .. Len(a) /\ i + 1 \in 1 .. Len(a)
    BY <1>1
  <2> QED
    BY <1>2, <2>1
<1>5. c[k] = Wire!NL /\ c[k + 1] = Wire!NL
  BY <1>1, <1>4
<1>6. \A i \in 1 .. k - 1 : ~(c[i] = Wire!NL /\ c[i + 1] = Wire!NL)
  <2>1. \A i \in 1 .. k - 1 : i \in 1 .. k
    BY <1>1
  <2> QED
    BY <1>1, <1>4, <2>1
<1>7. Wire!SeparatorIn(c) = k
  BY <1>2, <1>3, <1>5, <1>6, SeparatorIs
<1> QED
  BY <1>7 DEF k, c

LEMMA ConcatIn ==
    ASSUME NEW S, NEW a \in Seq(S), NEW b \in Seq(S)
    PROVE  a \o b \in Seq(S)
OBVIOUS

LEMMA EndOfBoth ==
    ASSUME NEW S, NEW a \in Seq(S), NEW b \in Seq(S), NEW k \in 1 .. Len(a) - 1
    PROVE  /\ SubSeq(a \o b, k + 2, Len(a \o b)) = SubSeq(a, k + 2, Len(a)) \o b
           /\ SubSeq(a \o b, 1, k - 1) = SubSeq(a, 1, k - 1)
<1> DEFINE c == a \o b
           m == Len(a) - k - 1
           L == SubSeq(c, k + 2, Len(c))
           e == SubSeq(a, k + 2, Len(a))
           R == e \o b
<1>1. c \in Seq(S) /\ Len(c) = Len(a) + Len(b) /\ m \in Nat /\ k \in Nat
  OBVIOUS
<1>2. (\A i \in 1 .. Len(a) : c[i] = a[i]) /\ (\A i \in 1 .. Len(b) : c[Len(a) + i] = b[i])
  OBVIOUS
<1>3. e \in Seq(S) /\ Len(e) = m /\ \A i \in 1 .. m : e[i] = a[k + 1 + i]
  OBVIOUS
<1> HIDE DEF c, e
<1>4. L \in Seq(S) /\ Len(L) = m + Len(b) /\ \A i \in 1 .. m + Len(b) : L[i] = c[k + 1 + i]
  BY <1>1
<1>5. /\ R \in Seq(S) /\ Len(R) = m + Len(b)
      /\ \A i \in 1 .. m : R[i] = e[i]
      /\ \A i \in 1 .. Len(b) : R[m + i] = b[i]
  <2>1. /\ R \in Seq(S) /\ Len(R) = Len(e) + Len(b)
        /\ \A i \in 1 .. Len(e) : R[i] = e[i]
        /\ \A i \in 1 .. Len(b) : R[Len(e) + i] = b[i]
    <3>1. e \in Seq(S)
      BY <1>3
    <3> QED
      BY <3>1
  <2> HIDE DEF R
  <2> QED
    BY <1>3, <2>1
<1> HIDE DEF L, R
<1>6. ASSUME NEW i \in 1 .. m + Len(b) PROVE L[i] = R[i]
  <2>1. CASE i <= m
    <3>1. i \in 1 .. m /\ k + 1 + i \in 1 .. Len(a)
      BY <2>1, <1>1
    <3> QED
      BY <3>1, <1>2, <1>3, <1>4, <1>5
  <2>2. CASE i > m
    <3> DEFINE j == i - m
    <3>1. j \in 1 .. Len(b) /\ i = m + j /\ k + 1 + i = Len(a) + j
      BY <2>2, <1>1
    <3>2. L[i] = c[Len(a) + j]
      BY <3>1, <1>4
    <3>3. c[Len(a) + j] = b[j]
      BY <3>1, <1>2
    <3>4. R[m + j] = b[j]
      BY <3>1, <1>5
    <3> QED
      BY <3>1, <3>2, <3>3, <3>4
  <2> QED
    BY <1>1, <2>1, <2>2
<1>7. L = R
  BY <1>4, <1>5, <1>6
<1>8. SubSeq(c, 1, k - 1) = SubSeq(a, 1, k - 1)
  BY <1>1, <1>2
<1> QED
  BY <1>7, <1>8 DEF L, R, c, e

\* What a text of two parts gives: the events of the first, then those of the
\* second put after what is left of the first.
Splits(a, b) ==
    /\ Wire!Drain[a \o b].events = Wire!Drain[a].events \o Wire!Drain[Wire!Drain[a].rest \o b].events
    /\ Wire!Drain[a \o b].rest = Wire!Drain[Wire!Drain[a].rest \o b].rest

LEMMA DrainSplit ==
    ASSUME Wire!SseTypes, NEW a \in Seq(Wire!Item), NEW b \in Seq(Wire!Item)
    PROVE  Splits(a, b)
<1> DEFINE Bad == {n \in Nat : \E t \in Seq(Wire!Item) : Len(t) = n /\ ~Splits(t, b)}
<1>1. Bad = {}
  <2> SUFFICES ASSUME Bad # {} PROVE FALSE
    OBVIOUS
  <2>1. PICK n \in Bad : \A m \in Bad : n <= m
    <3>1. Bad \in SUBSET Nat
      OBVIOUS
    <3> HIDE DEF Bad
    <3> QED
      BY <3>1, Smallest
  <2>2. PICK t \in Seq(Wire!Item) : Len(t) = n /\ ~Splits(t, b)
    BY <2>1
  <2>3. t \o b \in Seq(Wire!Item)
    OBVIOUS
  <2>4. CASE Wire!SeparatorIn(t) = 0
    <3> DEFINE events == Wire!Drain[t \o b].events
    <3>1. Wire!Drain[t] = [events |-> <<>>, rest |-> t]
      BY <2>4, DrainNothing
    <3>2. events \in Seq(Wire!Event)
      BY <2>3, DrainTypes DEF Drained
    <3>3. <<>> \o events = events
      <4> HIDE DEF events
      <4> QED
        BY <3>2
    <3>4. Wire!Drain[t].events = <<>> /\ Wire!Drain[t].rest = t
      BY <3>1
    <3>5. Splits(t, b)
      BY <3>3, <3>4 DEF Splits
    <3> QED
      BY <2>2, <3>5
  <2>5. CASE Wire!SeparatorIn(t) # 0
    <3> DEFINE k == Wire!SeparatorIn(t)
               u == t \o b
               tail == AfterBlock(t)
               first == FirstBlock(t)
               mid == Wire!Drain[tail].events
               left == Wire!Drain[tail].rest
               last == Wire!Drain[left \o b].events
    <3>1. first \in Seq(Wire!Event) /\ tail \in Seq(Wire!Item) /\ Len(tail) \in Nat /\ Len(tail) < Len(t)
      BY <2>5, BlockTypes
    <3>2. Wire!Drain[t].events = first \o mid /\ Wire!Drain[t].rest = left
      BY <2>5, DrainBlock
    <3>3. Wire!SeparatorIn(u) = k /\ k \in 1 .. Len(t) - 1
      BY <2>5, SeparatorStays, AfterSeparator
    <3>4. SubSeq(u, k + 2, Len(u)) = SubSeq(t, k + 2, Len(t)) \o b /\ SubSeq(u, 1, k - 1) = SubSeq(t, 1, k - 1)
      <4> HIDE DEF k
      <4> QED
        BY <3>3, EndOfBoth
    <3>5. AfterBlock(u) = tail \o b /\ FirstBlock(u) = first
      BY <3>3, <3>4 DEF AfterBlock, FirstBlock
    <3>6. /\ Wire!Drain[u].events = first \o Wire!Drain[tail \o b].events
          /\ Wire!Drain[u].rest = Wire!Drain[tail \o b].rest
      <4>1. Wire!SeparatorIn(u) # 0
        BY <2>5, <3>3
      <4> HIDE DEF u, tail, first, k
      <4>2. u \in Seq(Wire!Item)
        BY <2>3 DEF u
      <4> QED
        BY <4>1, <4>2, <3>5, DrainBlock
    <3> HIDE DEF k, tail, first
    <3>7. Splits(tail, b)
      <4>1. ~(n <= Len(tail))
        BY <3>1, <2>2
      <4>2. Len(tail) \notin Bad
        BY <2>1, <4>1
      <4> QED
        BY <3>1, <4>2
    <3>8. mid \in Seq(Wire!Event) /\ left \in Seq(Wire!Item)
      BY <3>1, DrainTypes DEF Drained
    <3>9. last \in Seq(Wire!Event)
      <4> DEFINE v == left \o b
      <4> HIDE DEF left
      <4>1. v \in Seq(Wire!Item)
        BY <3>8, ConcatIn
      <4> HIDE DEF v
      <4>2. Wire!Drain[v].events \in Seq(Wire!Event)
        BY <4>1, DrainTypes DEF Drained
      <4> QED
        BY <4>2 DEF v
    <3>10. Wire!Drain[tail \o b].events = mid \o last /\ Wire!Drain[tail \o b].rest = Wire!Drain[left \o b].rest
      BY <3>7 DEF Splits
    <3> HIDE DEF mid, left, last
    <3>11. first \o (mid \o last) = (first \o mid) \o last
      <4>1. first \in Seq(Wire!Event) /\ mid \in Seq(Wire!Event) /\ last \in Seq(Wire!Event)
        BY <3>1, <3>8, <3>9
      <4> HIDE DEF Bad
      <4> QED
        BY <4>1
    <3>12. Wire!Drain[u].events = Wire!Drain[t].events \o last
      BY <3>2, <3>6, <3>10, <3>11
    <3>13. Splits(t, b)
      BY <3>2, <3>6, <3>10, <3>12 DEF Splits, last
    <3> QED
      BY <2>2, <3>13
  <2> QED
    BY <2>4, <2>5
<1> QED
  <2>1. Len(a) \in Nat
    OBVIOUS
  <2> QED
    BY <1>1, <2>1

-----------------------------------------------------------------------------
(* Server-sent events: what a chunk does *)

\* Joining texts, or events, in either order gives the same.
LEMMA TextsJoin ==
    ASSUME NEW x \in Seq(Wire!Item), NEW y \in Seq(Wire!Item), NEW z \in Seq(Wire!Item)
    PROVE  x \o (y \o z) = (x \o y) \o z
OBVIOUS

LEMMA EventsJoin ==
    ASSUME NEW x \in Seq(Wire!Event), NEW y \in Seq(Wire!Event), NEW z \in Seq(Wire!Event)
    PROVE  (x \o y) \o z = x \o (y \o z)
OBVIOUS

LEMMA ChunkStep ==
    ASSUME Wire!SseTypes, Wire!IInv, NEW n \in 1 .. Len(wire), Wire!ReadChunk(n)
    PROVE  Wire!IInv'
<1> DEFINE chunk == SubSeq(wire, 1, n)
           after == SubSeq(wire, n + 1, Len(wire))
           a == buffer \o chunk
           left == Wire!Drain[a].rest
<1>1. /\ sent \in Seq(Block) /\ wire \in Seq(Wire!Item) /\ buffer \in Seq(Wire!Item) /\ got \in Seq(Wire!Event)
      /\ got \o Wire!Drain[buffer \o wire].events = Wire!EventsOf(sent)
      /\ Wire!Drain[buffer \o wire].rest = <<>>
  BY DEF Wire!IInv
<1>2. got' = got \o Wire!Drain[a].events /\ buffer' = left /\ wire' = after /\ sent' = sent
  BY DEF Wire!ReadChunk
<1>3. chunk \in Seq(Wire!Item) /\ after \in Seq(Wire!Item) /\ wire = chunk \o after
  BY <1>1
<1> HIDE DEF chunk, after
<1>4. a \in Seq(Wire!Item) /\ buffer \o wire = a \o after
  <2>1. buffer \in Seq(Wire!Item)
    BY <1>1
  <2>2. buffer \o (chunk \o after) = (buffer \o chunk) \o after
    BY <2>1, <1>3, TextsJoin, Zenon
  <2> QED
    BY <2>1, <2>2, <1>3
<1> HIDE DEF a
<1>5. /\ Wire!Drain[a].events \in Seq(Wire!Event) /\ left \in Seq(Wire!Item)
      /\ Wire!SeparatorIn(left) = 0
  BY <1>4, DrainTypes DEF Drained
<1>6. /\ Wire!Drain[a \o after].events = Wire!Drain[a].events \o Wire!Drain[left \o after].events
      /\ Wire!Drain[a \o after].rest = Wire!Drain[left \o after].rest
  BY <1>3, <1>4, DrainSplit DEF Splits
<1> HIDE DEF left
<1>7. Wire!Drain[left \o after].events \in Seq(Wire!Event)
  <2>1. left \o after \in Seq(Wire!Item)
    BY <1>3, <1>5
  <2> QED
    BY <2>1, DrainTypes DEF Drained
<1>8. (got \o Wire!Drain[a].events) \o Wire!Drain[left \o after].events = Wire!EventsOf(sent)
  <2>1. (got \o Wire!Drain[a].events) \o Wire!Drain[left \o after].events
          = got \o (Wire!Drain[a].events \o Wire!Drain[left \o after].events)
    <3> DEFINE x == Wire!Drain[a].events
               y == Wire!Drain[left \o after].events
    <3>1. got \in Seq(Wire!Event) /\ x \in Seq(Wire!Event) /\ y \in Seq(Wire!Event)
      BY <1>1, <1>5, <1>7
    <3> HIDE DEF x, y
    <3>2. (got \o x) \o y = got \o (x \o y)
      BY <3>1, EventsJoin, Zenon
    <3> QED
      BY <3>2 DEF x, y
  <2> QED
    BY <2>1, <1>1, <1>4, <1>6
<1>9. Wire!Drain[left \o after].rest = <<>>
  BY <1>1, <1>4, <1>6
<1>10. got' \in Seq(Wire!Event)
  BY <1>1, <1>2, <1>5
<1>11. Wire!EventsOf(sent)' = Wire!EventsOf(sent)
  BY <1>2 DEF Wire!EventsOf
<1>12. buffer' \o wire' = left \o after
  BY <1>2
<1> QED
  BY <1>1, <1>2, <1>3, <1>5, <1>8, <1>9, <1>10, <1>11, <1>12 DEF Wire!IInv

-----------------------------------------------------------------------------
(* Server-sent events: what the server sends *)

LEMMA Halves == ASSUME NEW i \in Nat, i # 0 PROVE \E j \in Nat \ {0} : i = 2 * j - 1 \/ i = 2 * j
<1> DEFINE j == (i + 1) \div 2
<1>1. j \in Nat \ {0} /\ (i = 2 * j - 1 \/ i = 2 * j)
  OBVIOUS
<1> QED
  BY <1>1

\* The first lines of a block, each with its end.
Pairs(b, n) == [i \in 1 .. n |-> <<b[i], Wire!NL>>]

\* The text of a block's first lines.
Ended(b, n) == Wire!FlattenSeq(Pairs(b, n))

LEMMA EndedNext ==
    ASSUME NEW b \in Seq(Wire!Line), NEW n \in 1 .. Len(b)
    PROVE  /\ Ended(b, n - 1) \in Seq(Wire!Item)
           /\ Ended(b, n) = Ended(b, n - 1) \o <<b[n], Wire!NL>>
<1> DEFINE ss == Pairs(b, n - 1)
           x == <<b[n], Wire!NL>>
<1>1. \A i \in 1 .. Len(b) : <<b[i], Wire!NL>> \in Seq(Wire!Item)
  <2> SUFFICES ASSUME NEW i \in 1 .. Len(b) PROVE <<b[i], Wire!NL>> \in Seq(Wire!Item)
    OBVIOUS
  <2>1. b[i] \in Wire!Item /\ Wire!NL \in Wire!Item
    BY DEF Wire!Item
  <2> QED
    BY <2>1
<1>2. ss \in Seq(Seq(Wire!Item)) /\ Len(ss) = n - 1
  <2>1. n - 1 \in Nat /\ \A i \in 1 .. n - 1 : i \in 1 .. Len(b)
    OBVIOUS
  <2>2. \A i \in 1 .. n - 1 : ss[i] \in Seq(Wire!Item)
    BY <1>1, <2>1 DEF Pairs
  <2> QED
    BY <2>1, <2>2 DEF Pairs
<1>3. x \in Seq(Wire!Item)
  BY <1>1
<1>4. Pairs(b, n) = Append(ss, x)
  BY DEF Pairs
<1> HIDE DEF ss, x
<1>5. Wire!FlattenSeq(Append(ss, x)) = Wire!FlattenSeq(ss) \o x
  BY <1>2, <1>3, FlatAppend
<1>6. Wire!FlattenSeq(ss) \in Seq(Wire!Item)
  BY <1>2, FlatInSeq
<1> QED
  BY <1>4, <1>5, <1>6 DEF Ended, ss, x

LEMMA EndedNone == ASSUME NEW b PROVE Ended(b, 0) = <<>>
<1>1. Pairs(b, 0) = <<>>
  BY DEF Pairs
<1> QED
  BY <1>1, FlatNothing DEF Ended

\* Line by line, and what a filter without the line ends leaves of it.
EndedAs(b, n, T) ==
    /\ Ended(b, n) \in Seq(Wire!Item) /\ Len(Ended(b, n)) = 2 * n
    /\ \A i \in 1 .. n : Ended(b, n)[2 * i - 1] = b[i] /\ Ended(b, n)[2 * i] = Wire!NL
    /\ Those(Ended(b, n), T) = SubSeq(b, 1, n)

LEMMA EndedForm ==
    ASSUME NEW b \in Seq(Wire!Line), NEW T, Wire!NL \notin T, \A i \in 1 .. Len(b) : b[i] \in T,
           NEW n \in 0 .. Len(b)
    PROVE  EndedAs(b, n, T)
<1> DEFINE Bad == {m \in 0 .. Len(b) : ~EndedAs(b, m, T)}
<1> SUFFICES ASSUME Bad # {} PROVE FALSE
  OBVIOUS
<1>1. PICK k \in Bad : \A m \in Bad : k <= m
  <2>1. Bad \in SUBSET Nat
    OBVIOUS
  <2> HIDE DEF Bad
  <2> QED
    BY <2>1, Smallest
<1>2. k \in 0 .. Len(b) /\ ~EndedAs(b, k, T)
  BY <1>1
<1>3. k # 0
  <2>1. EndedAs(b, 0, T)
    <3>1. SubSeq(b, 1, 0) = <<>>
      OBVIOUS
    <3> QED
      <4>1. Ended(b, 0) = <<>> /\ Those(<<>>, T) = <<>>
        BY EndedNone, ThoseNothing
      <4>2. <<>> \in Seq(Wire!Item) /\ Len(<<>>) = 2 * 0
        OBVIOUS
      <4>3. \A i \in 1 .. 0 : FALSE
        OBVIOUS
      <4> HIDE DEF Bad
      <4> QED
        BY <3>1, <4>1, <4>2, <4>3 DEF EndedAs
  <2> QED
    BY <1>2, <2>1
<1>4. EndedAs(b, k - 1, T)
  <2>1. k - 1 \in 0 .. Len(b) /\ ~(k <= k - 1)
    BY <1>2, <1>3
  <2> QED
    BY <1>1, <2>1
<1> HIDE DEF Bad
<1> DEFINE x == <<b[k], Wire!NL>>
           p == Ended(b, k - 1)
           q == Ended(b, k)
<1>5. /\ k \in 1 .. Len(b) /\ k \in Nat /\ b[k] \in T /\ b[k] \in Wire!Item /\ Wire!NL \in Wire!Item
      /\ x \in Seq(Wire!Item) /\ Len(x) = 2 /\ x[1] = b[k] /\ x[2] = Wire!NL
  <2>1. k \in 1 .. Len(b)
    BY <1>2, <1>3
  <2>2. b[k] \in Wire!Item /\ Wire!NL \in Wire!Item
    BY <2>1 DEF Wire!Item
  <2> QED
    BY <2>1, <2>2
<1>6. q = p \o x
  BY <1>5, EndedNext
<1>7. /\ p \in Seq(Wire!Item) /\ Len(p) = 2 * (k - 1)
      /\ \A i \in 1 .. k - 1 : p[2 * i - 1] = b[i] /\ p[2 * i] = Wire!NL
      /\ Those(p, T) = SubSeq(b, 1, k - 1)
  BY <1>4 DEF EndedAs
<1>8. Those(x, T) = <<b[k]>>
  <2> DEFINE e == <<b[k]>>
  <2>1. e \in Seq(Wire!Item) /\ x = Append(e, Wire!NL) /\ \A i \in 1 .. Len(e) : e[i] \in T
    BY <1>5
  <2> HIDE DEF e, x
  <2>2. Those(Append(e, Wire!NL), T) = Those(e, T)
    BY <2>1, <1>5, ThoseAppend
  <2>3. Those(e, T) = e
    BY <2>1, ThoseAll
  <2> QED
    BY <2>1, <2>2, <2>3 DEF e
<1> HIDE DEF x, p, q
<1>9. Those(q, T) = SubSeq(b, 1, k)
  <2>1. Those(p \o x, T) = Those(p, T) \o Those(x, T)
    <3>1. p \in Seq(Wire!Item) /\ x \in Seq(Wire!Item)
      BY <1>5, <1>7
    <3>2. Those(Together(p, x), T) = Together(Those(p, T), Those(x, T))
      BY <3>1, ThoseTogether
    <3> QED
      BY <3>2, Zenon DEF Together
  <2>2. SubSeq(b, 1, k) = SubSeq(b, 1, k - 1) \o <<b[k]>>
    <3>1. k \in 1 .. Len(b)
      BY <1>5
    <3> QED
      BY <3>1
  <2> QED
    BY <2>1, <2>2, <1>6, <1>7, <1>8
<1>10. /\ q \in Seq(Wire!Item) /\ Len(q) = Len(p) + Len(x)
       /\ \A i \in 1 .. Len(p) : q[i] = p[i]
       /\ \A i \in 1 .. Len(x) : q[Len(p) + i] = x[i]
  <2>1. p \in Seq(Wire!Item) /\ x \in Seq(Wire!Item)
    BY <1>5, <1>7
  <2> QED
    BY <2>1, <1>6
<1>11. Len(q) = 2 * k /\ q[2 * k - 1] = b[k] /\ q[2 * k] = Wire!NL
  <2>1. 1 \in 1 .. Len(x) /\ 2 \in 1 .. Len(x) /\ Len(p) + 1 = 2 * k - 1 /\ Len(p) + 2 = 2 * k
    BY <1>5, <1>7
  <2>2. q[Len(p) + 1] = x[1] /\ q[Len(p) + 2] = x[2]
    BY <2>1, <1>10
  <2> QED
    BY <2>1, <2>2, <1>5, <1>7, <1>10
<1>12. ASSUME NEW i \in 1 .. k PROVE q[2 * i - 1] = b[i] /\ q[2 * i] = Wire!NL
  <2>1. CASE i = k
    BY <2>1, <1>11
  <2>2. CASE i # k
    <3>1. i \in 1 .. k - 1 /\ 2 * i - 1 \in 1 .. Len(p) /\ 2 * i \in 1 .. Len(p)
      BY <2>2, <1>5, <1>7
    <3> QED
      BY <3>1, <1>7, <1>10
  <2> QED
    BY <2>1, <2>2
<1>13. EndedAs(b, k, T)
  BY <1>9, <1>10, <1>11, <1>12 DEF EndedAs, q
<1> QED
  BY <1>2, <1>13

\* A block on the wire reads as its event, with nothing left.
LEMMA DrainTokens ==
    ASSUME Wire!SseTypes, NEW b \in Block
    PROVE  /\ Wire!Tokens(b) \in Seq(Wire!Item)
           /\ Wire!Drain[Wire!Tokens(b)].events = Wire!EventIn(b)
           /\ Wire!Drain[Wire!Tokens(b)].rest = <<>>
           /\ Wire!EventIn(b) \in Seq(Wire!Event)
<1> DEFINE L == Len(b)
           t == Wire!Tokens(b)
           U == Ended(b, L - 1) \o <<b[L]>>
           T == Wire!ToSet(U) \ {Wire!NL}
           T0 == {b[i] : i \in 1 .. L}
           p == Ended(b, L)
           q == Ended(b, L - 1)
<1>1. b \in Seq(Wire!Line) /\ L \in Nat \ {0} /\ \A i \in 1 .. L : b[i] # Wire!NL
  <2>1. b \in Seq(Wire!Line \ {Wire!NL}) /\ b # <<>>
    BY DEF Wire!SseTypes
  <2> QED
    BY <2>1
<1>2. t = p \o <<Wire!NL>>
  BY DEF Wire!Tokens, Ended, Pairs
<1>3. p = q \o <<b[L], Wire!NL>>
  <2>1. L \in 1 .. Len(b)
    BY <1>1
  <2> HIDE DEF L
  <2> QED
    BY <1>1, <2>1, EndedNext
<1>4. EndedAs(b, L, T0) /\ EndedAs(b, L - 1, T0)
  <2>1. Wire!NL \notin T0 /\ (\A i \in 1 .. Len(b) : b[i] \in T0) /\ L \in 0 .. Len(b) /\ L - 1 \in 0 .. Len(b)
    BY <1>1
  <2> HIDE DEF T0, L
  <2> QED
    BY <1>1, <2>1, EndedForm
<1>5. /\ p \in Seq(Wire!Item) /\ Len(p) = 2 * L
      /\ \A i \in 1 .. L : p[2 * i - 1] = b[i] /\ p[2 * i] = Wire!NL
      /\ q \in Seq(Wire!Item) /\ Len(q) = 2 * (L - 1)
      /\ \A i \in 1 .. L - 1 : q[2 * i - 1] = b[i] /\ q[2 * i] = Wire!NL
  BY <1>4 DEF EndedAs
<1>6. b[L] \in Wire!Item /\ Wire!NL \in Wire!Item
  BY <1>1 DEF Wire!Item
<1> HIDE DEF L, t, p, q
<1>7. /\ t \in Seq(Wire!Item) /\ Len(t) = 2 * L + 1 /\ t[2 * L + 1] = Wire!NL
      /\ \A i \in 1 .. 2 * L : t[i] = p[i]
  <2>1. p \in Seq(Wire!Item)
    BY <1>5
  <2>2. /\ t \in Seq(Wire!Item) /\ Len(t) = Len(p) + 1 /\ t[Len(p) + 1] = Wire!NL
        /\ \A i \in 1 .. Len(p) : t[i] = p[i]
    BY <2>1, <1>2, <1>6
  <2> QED
    BY <2>2, <1>5
<1>8. Wire!SeparatorIn(t) = 2 * L
  <2>1. 2 * L \in 1 .. Len(t) - 1 /\ t[2 * L] = Wire!NL /\ t[2 * L + 1] = Wire!NL
    <3>1. L \in 1 .. L /\ 2 * L \in 1 .. 2 * L /\ 2 * L \in 1 .. Len(t) - 1
      BY <1>1, <1>7
    <3>2. p[2 * L] = Wire!NL
      BY <3>1, <1>5
    <3> QED
      BY <3>1, <3>2, <1>7
  <2>2. ASSUME NEW i \in 1 .. 2 * L - 1 PROVE ~(t[i] = Wire!NL /\ t[i + 1] = Wire!NL)
    <3>1. i \in Nat /\ i # 0
      BY <1>1
    <3>2. PICK j \in Nat \ {0} : i = 2 * j - 1 \/ i = 2 * j
      BY <3>1, Halves
    <3>3. CASE i = 2 * j - 1
      <4>1. j \in 1 .. L /\ i \in 1 .. 2 * L
        BY <3>3, <1>1
      <4>2. t[i] = p[2 * j - 1]
        BY <4>1, <3>3, <1>7
      <4> QED
        BY <4>1, <4>2, <1>1, <1>5
    <3>4. CASE i = 2 * j
      <4>1. j + 1 \in 1 .. L /\ i + 1 \in 1 .. 2 * L /\ i + 1 = 2 * (j + 1) - 1
        BY <3>4, <1>1
      <4>2. t[i + 1] = p[2 * (j + 1) - 1]
        BY <4>1, <1>7
      <4> QED
        BY <4>1, <4>2, <1>1, <1>5
    <3> QED
      BY <3>2, <3>3, <3>4
  <2> QED
    BY <2>1, <2>2, <1>7, SeparatorIs
<1>9. /\ U \in Seq(Wire!Item) /\ Len(U) = 2 * L - 1 /\ U[2 * L - 1] = b[L]
      /\ \A i \in 1 .. 2 * L - 2 : U[i] = q[i]
  <2>1. q \in Seq(Wire!Item)
    BY <1>5
  <2>2. /\ U \in Seq(Wire!Item) /\ Len(U) = Len(q) + 1 /\ U[Len(q) + 1] = b[L]
        /\ \A i \in 1 .. Len(q) : U[i] = q[i]
    BY <2>1, <1>6 DEF q
  <2>3. Len(q) = 2 * L - 2 /\ L \in Nat \ {0}
    BY <1>1, <1>5
  <2> HIDE DEF U
  <2>4. Len(q) + 1 = 2 * L - 1
    BY <2>3
  <2> QED
    BY <2>2, <2>3, <2>4
<1> HIDE DEF U
<1>10. SubSeq(t, 1, 2 * L - 1) = U
  <2>1. \A i \in 1 .. 2 * L - 2 : p[i] = q[i]
    <3>1. q \in Seq(Wire!Item)
      BY <1>5
    <3>2. \A i \in 1 .. Len(q) : p[i] = q[i]
      BY <3>1, <1>3, <1>6
    <3> QED
      BY <3>2, <1>1, <1>5
  <2>2. p[2 * L - 1] = b[L]
    <3>1. L \in 1 .. L
      BY <1>1
    <3> QED
      BY <3>1, <1>5
  <2>3. \A i \in 1 .. 2 * L - 1 : t[i] = U[i]
    <3> SUFFICES ASSUME NEW i \in 1 .. 2 * L - 1 PROVE t[i] = U[i]
      OBVIOUS
    <3>1. t[i] = p[i]
      BY <1>1, <1>7
    <3>2. CASE i = 2 * L - 1
      BY <3>1, <3>2, <2>2, <1>9
    <3>3. CASE i # 2 * L - 1
      <4>1. i \in 1 .. 2 * L - 2
        BY <3>3, <1>1
      <4> QED
        BY <3>1, <4>1, <2>1, <1>9
    <3> QED
      BY <3>2, <3>3
  <2>4. 2 * L - 1 \in Nat /\ 2 * L - 1 <= Len(t)
    BY <1>1, <1>7
  <2> DEFINE m == 2 * L - 1
  <2>5. m \in Nat /\ m <= Len(t) /\ Len(U) = m /\ \A i \in 1 .. m : t[i] = U[i]
    BY <2>3, <2>4, <1>9
  <2>6. t \in Seq(Wire!Item) /\ U \in Seq(Wire!Item)
    BY <1>7, <1>9
  <2> HIDE DEF m
  <2>7. SubSeq(t, 1, m) = U
    BY <2>5, <2>6
  <2> QED
    BY <2>7 DEF m
<1>11. Wire!LinesOf(U) = b
  <2>1. \A i \in 1 .. Len(b) : b[i] \in T
    <3> SUFFICES ASSUME NEW i \in 1 .. Len(b) PROVE b[i] \in Wire!ToSet(U)
      BY <1>1 DEF L
    <3>1. \E j \in 1 .. Len(U) : U[j] = b[i]
      <4>1. CASE i = L
        <5>1. 2 * L - 1 \in 1 .. Len(U)
          BY <1>1, <1>9
        <5> QED
          BY <4>1, <5>1, <1>9
      <4>2. CASE i # L
        <5>1. i \in 1 .. L - 1 /\ 2 * i - 1 \in 1 .. 2 * L - 2 /\ 2 * i - 1 \in 1 .. Len(U)
          BY <4>2, <1>1, <1>9 DEF L
        <5>2. U[2 * i - 1] = b[i]
          BY <5>1, <1>5, <1>9
        <5> QED
          BY <5>1, <5>2
      <4> QED
        BY <4>1, <4>2
    <3>2. 1 .. Len(U) = DOMAIN U
      BY <1>9
    <3> QED
      BY <3>1, <3>2 DEF Wire!ToSet
  <2>2. Wire!NL \notin T
    OBVIOUS
  <2> HIDE DEF T
  <2>3. L - 1 \in 0 .. Len(b) /\ L \in 1 .. Len(b)
    BY <1>1 DEF L
  <2>4. Those(q, T) = SubSeq(b, 1, L - 1)
    <3>1. EndedAs(b, L - 1, T)
      BY <1>1, <2>1, <2>2, <2>3, EndedForm
    <3> QED
      BY <3>1 DEF EndedAs, q
  <2> DEFINE e == <<b[L]>>
  <2>5. e \in Seq(Wire!Item) /\ \A i \in 1 .. Len(e) : e[i] \in T
    BY <1>6, <2>1, <2>3
  <2>6. U = q \o e
    BY DEF U, q
  <2> HIDE DEF e
  <2>7. Those(e, T) = e
    BY <2>5, ThoseAll
  <2>8. Those(q \o e, T) = Those(q, T) \o Those(e, T)
    <3>1. Those(Together(q, e), T) = Together(Those(q, T), Those(e, T))
      BY <1>5, <2>5, ThoseTogether
    <3> QED
      BY <3>1, Zenon DEF Together
  <2>9. SubSeq(b, 1, L - 1) \o e = b
    BY <1>1, <2>3 DEF e, L
  <2> QED
    BY <2>4, <2>6, <2>7, <2>8, <2>9, WireThose DEF Wire!LinesOf, T
<1>12. FirstBlock(t) = Wire!EventIn(b) /\ AfterBlock(t) = <<>>
  <2>1. FirstBlock(t) = Wire!EventIn(b)
    BY <1>8, <1>10, <1>11 DEF FirstBlock
  <2>2. AfterBlock(t) = SubSeq(t, 2 * L + 2, 2 * L + 1)
    BY <1>7, <1>8 DEF AfterBlock
  <2>3. SubSeq(t, 2 * L + 2, 2 * L + 1) = <<>>
    BY <1>1, <1>7
  <2> QED
    BY <2>1, <2>2, <2>3
<1>13. Wire!Drain[<<>>] = [events |-> <<>>, rest |-> <<>>]
  <2>1. <<>> \in Seq(Wire!Item) /\ Len(<<>>) = 0
    OBVIOUS
  <2>2. Wire!SeparatorIn(<<>>) = 0
    BY DEF Wire!SeparatorIn
  <2> QED
    BY <2>1, <2>2, DrainNothing
<1>14. b \in Seq(Wire!Item)
  BY <1>1 DEF Wire!Item
<1>15. Wire!EventIn(b) \in Seq(Wire!Event)
  BY <1>14, EventTypes
<1>16. /\ Wire!Drain[t].events = FirstBlock(t) \o Wire!Drain[AfterBlock(t)].events
       /\ Wire!Drain[t].rest = Wire!Drain[AfterBlock(t)].rest
  <2>1. Wire!SeparatorIn(t) # 0
    BY <1>1, <1>8
  <2> QED
    BY <2>1, <1>7, DrainBlock
<1>17. Wire!EventIn(b) \o <<>> = Wire!EventIn(b)
  BY <1>15
<1> QED
  BY <1>7, <1>12, <1>13, <1>15, <1>16, <1>17 DEF t

\* The first blocks of a response: as text, as events, and that the text reads as the events.
WireOf(blocks, n) == Wire!FlattenSeq([i \in 1 .. n |-> Wire!Tokens(blocks[i])])

Told(blocks, n) == Wire!FlattenSeq([i \in 1 .. n |-> Wire!EventIn(blocks[i])])

ReadAs(blocks, n) ==
    /\ WireOf(blocks, n) \in Seq(Wire!Item) /\ Told(blocks, n) \in Seq(Wire!Event)
    /\ Wire!Drain[WireOf(blocks, n)].events = Told(blocks, n)
    /\ Wire!Drain[WireOf(blocks, n)].rest = <<>>

LEMMA DrainEmpty == Wire!SeparatorIn(<<>>) = 0 /\ Wire!Drain[<<>>] = [events |-> <<>>, rest |-> <<>>]
<1>1. <<>> \in Seq(Wire!Item) /\ Len(<<>>) = 0
  OBVIOUS
<1>2. Wire!SeparatorIn(<<>>) = 0
  BY DEF Wire!SeparatorIn
<1> QED
  BY <1>1, <1>2, DrainNothing

LEMMA FlatMore ==
    ASSUME NEW S, NEW g, NEW n \in Nat \ {0}, \A i \in 1 .. n : g[i] \in Seq(S)
    PROVE  /\ Wire!FlattenSeq([i \in 1 .. n - 1 |-> g[i]]) \in Seq(S)
           /\ Wire!FlattenSeq([i \in 1 .. n |-> g[i]]) = Wire!FlattenSeq([i \in 1 .. n - 1 |-> g[i]]) \o g[n]
<1> DEFINE ss == [i \in 1 .. n - 1 |-> g[i]]
           x == g[n]
<1>1. n - 1 \in Nat /\ n \in 1 .. n /\ \A i \in 1 .. n - 1 : i \in 1 .. n
  OBVIOUS
<1>2. ss \in Seq(Seq(S)) /\ Len(ss) = n - 1 /\ x \in Seq(S)
  BY <1>1
<1>3. [i \in 1 .. n |-> g[i]] = Append(ss, x)
  BY <1>1
<1> HIDE DEF ss, x
<1>4. Wire!FlattenSeq(Append(ss, x)) = Wire!FlattenSeq(ss) \o x
  BY <1>2, FlatAppend
<1>5. Wire!FlattenSeq(ss) \in Seq(S)
  BY <1>2, FlatInSeq
<1> QED
  BY <1>3, <1>4, <1>5 DEF ss, x

LEMMA ReadNext ==
    ASSUME Wire!SseTypes, NEW blocks \in Seq(Block), NEW n \in 1 .. Len(blocks), ReadAs(blocks, n - 1)
    PROVE  ReadAs(blocks, n)
<1> DEFINE b == blocks[n]
           w == WireOf(blocks, n - 1)
           x == Told(blocks, n - 1)
<1>1. n \in Nat \ {0} /\ b \in Block /\ \A i \in 1 .. n : blocks[i] \in Block
  OBVIOUS
<1>2. /\ Wire!Tokens(b) \in Seq(Wire!Item)
      /\ Wire!Drain[Wire!Tokens(b)].events = Wire!EventIn(b)
      /\ Wire!Drain[Wire!Tokens(b)].rest = <<>>
      /\ Wire!EventIn(b) \in Seq(Wire!Event)
  BY <1>1, DrainTokens
<1>3. WireOf(blocks, n) = w \o Wire!Tokens(b)
  <2> DEFINE g == [i \in 1 .. n |-> Wire!Tokens(blocks[i])]
             f == [i \in 1 .. n |-> g[i]]
  <2>1. \A i \in 1 .. n : g[i] \in Seq(Wire!Item)
    BY <1>1, DrainTokens
  <2>2. Wire!FlattenSeq(f) = Wire!FlattenSeq([i \in 1 .. n - 1 |-> g[i]]) \o g[n]
    <3> HIDE DEF g
    <3>1. n \in Nat \ {0}
      BY <1>1
    <3> QED
      BY <2>1, <3>1, FlatMore
  <2>3. [i \in 1 .. n - 1 |-> g[i]] = [i \in 1 .. n - 1 |-> Wire!Tokens(blocks[i])] /\ g[n] = Wire!Tokens(b)
    BY <1>1
  <2>4. f = [i \in 1 .. n |-> Wire!Tokens(blocks[i])]
    OBVIOUS
  <2> HIDE DEF f, g
  <2> QED
    BY <2>2, <2>3, <2>4 DEF WireOf
<1>4. Told(blocks, n) = x \o Wire!EventIn(b)
  <2> DEFINE g == [i \in 1 .. n |-> Wire!EventIn(blocks[i])]
             f == [i \in 1 .. n |-> g[i]]
  <2>1. \A i \in 1 .. n : g[i] \in Seq(Wire!Event)
    BY <1>1, DrainTokens
  <2>2. Wire!FlattenSeq(f) = Wire!FlattenSeq([i \in 1 .. n - 1 |-> g[i]]) \o g[n]
    <3> HIDE DEF g
    <3>1. n \in Nat \ {0}
      BY <1>1
    <3> QED
      BY <2>1, <3>1, FlatMore
  <2>3. [i \in 1 .. n - 1 |-> g[i]] = [i \in 1 .. n - 1 |-> Wire!EventIn(blocks[i])] /\ g[n] = Wire!EventIn(b)
    BY <1>1
  <2>4. f = [i \in 1 .. n |-> Wire!EventIn(blocks[i])]
    OBVIOUS
  <2> HIDE DEF f, g
  <2> QED
    BY <2>2, <2>3, <2>4 DEF Told
<1>5. w \in Seq(Wire!Item) /\ x \in Seq(Wire!Event) /\ Wire!Drain[w].events = x /\ Wire!Drain[w].rest = <<>>
  BY DEF ReadAs
<1> HIDE DEF b, w, x
<1> DEFINE t == Wire!Tokens(b)
<1>6. t \in Seq(Wire!Item) /\ <<>> \o t = t
  <2>1. t \in Seq(Wire!Item)
    BY <1>2
  <2> HIDE DEF t
  <2> QED
    BY <2>1
<1>7. /\ Wire!Drain[w \o t].events = Wire!Drain[w].events \o Wire!Drain[Wire!Drain[w].rest \o t].events
      /\ Wire!Drain[w \o t].rest = Wire!Drain[Wire!Drain[w].rest \o t].rest
  BY <1>5, <1>6, DrainSplit DEF Splits
<1>8. w \o t \in Seq(Wire!Item)
  BY <1>5, <1>6, ConcatIn
<1>9. x \o Wire!EventIn(b) \in Seq(Wire!Event)
  BY <1>2, <1>5, ConcatIn
<1> QED
  BY <1>2, <1>3, <1>4, <1>5, <1>6, <1>7, <1>8, <1>9 DEF ReadAs

LEMMA ReadWhole ==
    ASSUME Wire!SseTypes, NEW blocks \in Seq(Block)
    PROVE  ReadAs(blocks, Len(blocks))
<1> DEFINE Bad == {n \in 0 .. Len(blocks) : ~ReadAs(blocks, n)}
<1>1. Bad = {}
  <2> SUFFICES ASSUME Bad # {} PROVE FALSE
    OBVIOUS
  <2>1. PICK k \in Bad : \A m \in Bad : k <= m
    <3>1. Bad \in SUBSET Nat
      OBVIOUS
    <3> HIDE DEF Bad
    <3> QED
      BY <3>1, Smallest
  <2>2. k \in 0 .. Len(blocks) /\ ~ReadAs(blocks, k)
    BY <2>1
  <2>3. k # 0
    <3>1. ReadAs(blocks, 0)
      <4>1. WireOf(blocks, 0) = <<>> /\ Told(blocks, 0) = <<>>
        <5>1. [i \in 1 .. 0 |-> Wire!Tokens(blocks[i])] = <<>> /\ [i \in 1 .. 0 |-> Wire!EventIn(blocks[i])] = <<>>
          OBVIOUS
        <5> QED
          BY <5>1, FlatNothing DEF WireOf, Told
      <4>2. <<>> \in Seq(Wire!Item) /\ <<>> \in Seq(Wire!Event)
        OBVIOUS
      <4>3. Wire!Drain[<<>>].events = <<>> /\ Wire!Drain[<<>>].rest = <<>>
        BY DrainEmpty
      <4> HIDE DEF Bad
      <4> QED
        BY <4>1, <4>2, <4>3 DEF ReadAs
    <3> QED
      BY <2>2, <3>1
  <2>4. ReadAs(blocks, k - 1)
    <3>1. k - 1 \in 0 .. Len(blocks) /\ ~(k <= k - 1)
      BY <2>2, <2>3
    <3> QED
      BY <2>1, <3>1
  <2>5. k \in 1 .. Len(blocks)
    BY <2>2, <2>3
  <2> HIDE DEF Bad
  <2> QED
    BY <2>2, <2>4, <2>5, ReadNext
<1>2. Len(blocks) \in 0 .. Len(blocks)
  OBVIOUS
<1> QED
  BY <1>1, <1>2

LEMMA WireInitially == ASSUME Wire!SseTypes, Wire!Init PROVE Wire!IInv
<1>1. sent \in Seq(Block)
  BY DEF Wire!Init, Wire!SseTypes
<1>2. wire = WireOf(sent, Len(sent)) /\ buffer = <<>> /\ got = <<>>
  BY DEF Wire!Init, WireOf
<1>3. ReadAs(sent, Len(sent))
  BY <1>1, ReadWhole
<1>4. Told(sent, Len(sent)) = Wire!EventsOf(sent)
  BY DEF Told, Wire!EventsOf
<1>5. wire \in Seq(Wire!Item) /\ <<>> \o wire = wire
  <2>1. wire \in Seq(Wire!Item)
    BY <1>2, <1>3 DEF ReadAs
  <2> QED
    BY <2>1
<1>6. Wire!EventsOf(sent) \in Seq(Wire!Event) /\ <<>> \o Wire!EventsOf(sent) = Wire!EventsOf(sent)
  <2> DEFINE e == Wire!EventsOf(sent)
  <2>1. e \in Seq(Wire!Event)
    BY <1>3, <1>4 DEF ReadAs
  <2> HIDE DEF e
  <2>2. <<>> \o e = e
    BY <2>1
  <2> QED
    BY <2>1, <2>2 DEF e
<1>7. buffer \in Seq(Wire!Item) /\ got \in Seq(Wire!Event)
  BY <1>2
<1> QED
  BY <1>1, <1>2, <1>3, <1>4, <1>5, <1>6, <1>7, DrainEmpty DEF Wire!IInv, ReadAs

\* What was read, what is in the buffer and what is still to come make up the response,
\* in every state, for any blocks and any chunks (sse.ts: consumeSseResponse).
THEOREM WireInvariance == ASSUME Wire!SseTypes PROVE Wire!Spec => []Wire!IInv
<1>1. Wire!Init => Wire!IInv
  BY WireInitially
<1>2. Wire!IInv /\ [Wire!Next]_Wire!vars => Wire!IInv'
  <2> SUFFICES ASSUME Wire!IInv, [Wire!Next]_Wire!vars PROVE Wire!IInv'
    OBVIOUS
  <2>1. CASE Wire!Next
    BY <2>1, ChunkStep DEF Wire!Next
  <2>2. CASE UNCHANGED Wire!vars
    <3>1. wire' = wire /\ buffer' = buffer /\ got' = got /\ sent' = sent
      BY <2>2 DEF Wire!vars
    <3>2. Wire!EventsOf(sent)' = Wire!EventsOf(sent)
      BY <3>1 DEF Wire!EventsOf
    <3> QED
      BY <3>1, <3>2 DEF Wire!IInv
  <2> QED
    BY <2>1, <2>2
<1> QED
  BY <1>1, <1>2, PTL DEF Wire!Spec

\* However a response is cut into chunks, its events are given in order, each once, and all
\* of them by its end (sse.ts: consumeSseResponse).
THEOREM AlwaysReassembled == ASSUME Wire!SseTypes PROVE Wire!Spec => []Wire!Reassembled
<1>1. ASSUME Wire!IInv PROVE Wire!Reassembled
  <2> DEFINE later == Wire!Drain[buffer \o wire].events
             all == Wire!EventsOf(sent)
  <2>1. /\ wire \in Seq(Wire!Item) /\ buffer \in Seq(Wire!Item) /\ got \in Seq(Wire!Event)
        /\ Wire!SeparatorIn(buffer) = 0 /\ got \o later = all /\ Wire!Drain[buffer \o wire].rest = <<>>
    BY <1>1 DEF Wire!IInv
  <2>2. later \in Seq(Wire!Event)
    <3>1. buffer \o wire \in Seq(Wire!Item)
      BY <2>1
    <3> QED
      BY <3>1, DrainTypes, <1>1 DEF Drained
  <2>3. wire = <<>> => got = all /\ buffer = <<>>
    <3> SUFFICES ASSUME wire = <<>> PROVE got = all /\ buffer = <<>>
      OBVIOUS
    <3>1. buffer \o wire = buffer
      BY <2>1
    <3>2. Wire!Drain[buffer] = [events |-> <<>>, rest |-> buffer]
      BY <2>1, DrainNothing
    <3>3. later = <<>> /\ buffer = <<>>
      BY <2>1, <3>1, <3>2
    <3> HIDE DEF later, all
    <3>4. got \o <<>> = got
      BY <2>1
    <3> QED
      BY <2>1, <3>3, <3>4
  <2>4. Wire!IsPrefix(got, all)
    <3> HIDE DEF later, all
    <3>1. got \in Seq(Wire!Event) /\ later \in Seq(Wire!Event) /\ all = got \o later
      BY <2>1, <2>2
    <3>2. Len(got) <= Len(all) /\ SubSeq(got, 1, Len(got)) = SubSeq(all, 1, Len(got))
      BY <3>1
    <3> QED
      BY <3>2 DEF Wire!IsPrefix
  <2> QED
    BY <2>3, <2>4 DEF Wire!Reassembled
<1> QED
  BY <1>1, WireInvariance, PTL

-----------------------------------------------------------------------------
(* Server-sent events: what the hub writes *)

\* The lines of a written event: of three fields, each with a known value.
Written == [field : {"id", "event", "data"}, value : STRING \cup {Wire!Absent}]

\* The lines of one field, and a part of the lines that has one field only.
FieldOf(lines, f) == {l \in Wire!ToSet(lines) : l.field = f}

PartOf(x, lines, g) ==
    \A i \in 1 .. Len(x) : x[i].field = g /\ \E j \in 1 .. Len(lines) : lines[j] = x[i]

\* A part of the lines is all of one field: all or nothing of it is kept.
LEMMA PartKept ==
    ASSUME NEW lines \in Seq(Written), NEW x \in Seq(Written), NEW f, NEW g, PartOf(x, lines, g)
    PROVE  /\ f = g => Those(x, FieldOf(lines, f)) = x
           /\ f # g => Those(x, FieldOf(lines, f)) = <<>>
<1>1. DOMAIN lines = 1 .. Len(lines)
  OBVIOUS
<1>2. \A i \in 1 .. Len(x) : x[i] \in Wire!ToSet(lines)
  BY <1>1 DEF Wire!ToSet, PartOf
<1>3. f = g => \A i \in 1 .. Len(x) : x[i] \in FieldOf(lines, f)
  BY <1>2 DEF FieldOf, PartOf
<1>4. f # g => \A i \in 1 .. Len(x) : x[i] \notin FieldOf(lines, f)
  BY DEF FieldOf, PartOf
<1> QED
  BY <1>3, <1>4, ThoseAll, ThoseNone

LEMMA ThoseThree ==
    ASSUME NEW a \in Seq(Written), NEW b \in Seq(Written), NEW c \in Seq(Written), NEW T
    PROVE  /\ Those(a \o b, T) = Those(a, T) \o Those(b, T)
           /\ Those((a \o b) \o c, T) = Those(a \o b, T) \o Those(c, T)
<1> DEFINE ab == a \o b
<1>1. ab \in Seq(Written)
  OBVIOUS
<1>2. Those(Together(a, b), T) = Together(Those(a, T), Those(b, T))
  BY ThoseTogether
<1> HIDE DEF ab
<1>3. Those(Together(ab, c), T) = Together(Those(ab, T), Those(c, T))
  BY <1>1, ThoseTogether
<1> QED
  BY <1>2, <1>3, Zenon DEF ab, Together

\* The values of one field among three.
LEMMA ThreeParts ==
    ASSUME NEW a \in Seq(Written), NEW b \in Seq(Written), NEW c \in Seq(Written), NEW f,
           \A i \in 1 .. Len(a) : a[i].field = "id",
           \A i \in 1 .. Len(b) : b[i].field = "event",
           \A i \in 1 .. Len(c) : c[i].field = "data"
    PROVE  /\ f = "id" => Those((a \o b) \o c, FieldOf((a \o b) \o c, f)) = a
           /\ f = "event" => Those((a \o b) \o c, FieldOf((a \o b) \o c, f)) = b
           /\ f = "data" => Those((a \o b) \o c, FieldOf((a \o b) \o c, f)) = c
<1> DEFINE ab == a \o b
           l == ab \o c
           T == FieldOf(l, f)
<1>1. /\ ab \in Seq(Written) /\ Len(ab) = Len(a) + Len(b)
      /\ \A i \in 1 .. Len(a) : ab[i] = a[i]
      /\ \A i \in 1 .. Len(b) : ab[Len(a) + i] = b[i]
  OBVIOUS
<1>2. /\ Those(ab, T) = Those(a, T) \o Those(b, T)
      /\ Those(l, T) = Those(ab, T) \o Those(c, T)
  <2>1. \A T0 : /\ Those(a \o b, T0) = Those(a, T0) \o Those(b, T0)
                /\ Those((a \o b) \o c, T0) = Those(a \o b, T0) \o Those(c, T0)
    BY ThoseThree, Zenon
  <2> HIDE DEF T
  <2> QED
    BY <2>1, Zenon DEF ab, l
<1> HIDE DEF ab
<1>3. /\ l \in Seq(Written) /\ Len(l) = Len(ab) + Len(c)
      /\ \A i \in 1 .. Len(ab) : l[i] = ab[i]
      /\ \A i \in 1 .. Len(c) : l[Len(ab) + i] = c[i]
  <2>1. ab \in Seq(Written)
    BY <1>1
  <2> QED
    BY <2>1
<1>4. Those(l, T) = Those(ab, T) \o Those(c, T)
  BY <1>2
<1> HIDE DEF l
<1>5. PartOf(a, l, "id")
  <2> SUFFICES ASSUME NEW i \in 1 .. Len(a) PROVE \E j \in 1 .. Len(l) : l[j] = a[i]
    BY DEF PartOf
  <2>1. i \in 1 .. Len(ab) /\ i \in 1 .. Len(l)
    BY <1>1, <1>3
  <2>2. l[i] = a[i]
    BY <2>1, <1>1, <1>3
  <2> QED
    BY <2>1, <2>2
<1>6. PartOf(b, l, "event")
  <2> SUFFICES ASSUME NEW i \in 1 .. Len(b) PROVE \E j \in 1 .. Len(l) : l[j] = b[i]
    BY DEF PartOf
  <2> DEFINE j == Len(a) + i
  <2>1. j \in 1 .. Len(ab) /\ j \in 1 .. Len(l)
    BY <1>1, <1>3
  <2>2. ab[j] = b[i]
    BY <1>1
  <2>3. l[j] = ab[j]
    BY <2>1, <1>3
  <2> QED
    BY <2>1, <2>2, <2>3
<1>7. PartOf(c, l, "data")
  <2> SUFFICES ASSUME NEW i \in 1 .. Len(c) PROVE \E j \in 1 .. Len(l) : l[j] = c[i]
    BY DEF PartOf
  <2> DEFINE j == Len(ab) + i
  <2>1. j \in 1 .. Len(l)
    BY <1>1, <1>3
  <2>2. l[j] = c[i]
    BY <1>3
  <2> QED
    BY <2>1, <2>2
<1>8. l \in Seq(Written)
  BY <1>3
<1>9. /\ f = "id" => Those(a, T) = a
      /\ f # "id" => Those(a, T) = <<>>
  BY <1>5, <1>8, PartKept
<1>10. /\ f = "event" => Those(b, T) = b
       /\ f # "event" => Those(b, T) = <<>>
  BY <1>6, <1>8, PartKept
<1>11. /\ f = "data" => Those(c, T) = c
       /\ f # "data" => Those(c, T) = <<>>
  BY <1>7, <1>8, PartKept
<1> HIDE DEF T
<1>12. Those(l, T) = (Those(a, T) \o Those(b, T)) \o Those(c, T)
  BY <1>2, <1>4
<1>13. /\ (a \o <<>>) \o <<>> = a
       /\ (<<>> \o b) \o <<>> = b
       /\ (<<>> \o <<>>) \o c = c
  OBVIOUS
<1>14. /\ f = "id" => Those(l, T) = a
       /\ f = "event" => Those(l, T) = b
       /\ f = "data" => Those(l, T) = c
  <2>1. f = "id" => f # "event" /\ f # "data"
    OBVIOUS
  <2>2. f = "event" => f # "id" /\ f # "data"
    OBVIOUS
  <2>3. f = "data" => f # "id" /\ f # "event"
    OBVIOUS
  <2> QED
    BY <2>1, <2>2, <2>3, <1>9, <1>10, <1>11, <1>12, <1>13
<1> QED
  BY <1>14 DEF l, ab, T

\* An event written is read again, but for an empty name.
Again(e) ==
    LET again == Wire!ParseSseBlock(Wire!WriteSseEvent(e))
        name(v) == IF v = Empty THEN Wire!Absent ELSE v
    IN  again.data = e.data /\ again.id = name(e.id) /\ again.event = name(e.event)

LEMMA FieldLineForm ==
    ASSUME NEW f \in {"id", "event"}, NEW v \in STRING \cup {Wire!Absent}
    PROVE  /\ Wire!FieldLine(f, v) \in Seq(Written)
           /\ \A i \in 1 .. Len(Wire!FieldLine(f, v)) : Wire!FieldLine(f, v)[i].field = f
           /\ Wire!LastOr([i \in 1 .. Len(Wire!FieldLine(f, v)) |-> Wire!FieldLine(f, v)[i].value], Wire!Absent) =
                IF v = Empty THEN Wire!Absent ELSE v
<1> DEFINE x == Wire!FieldLine(f, v)
           w == [i \in 1 .. Len(x) |-> x[i].value]
<1>1. CASE v \in {Wire!Absent, Empty}
  <2>1. x = <<>>
    BY <1>1 DEF Wire!FieldLine
  <2>2. w = <<>>
    BY <2>1
  <2> HIDE DEF x, w
  <2>3. Wire!LastOr(w, Wire!Absent) = Wire!Absent
    BY <2>2 DEF Wire!LastOr
  <2>4. x \in Seq(Written) /\ \A i \in 1 .. Len(x) : x[i].field = f
    BY <2>1
  <2> QED
    BY <2>3, <2>4, <1>1 DEF x, w
<1>2. CASE v \notin {Wire!Absent, Empty}
  <2> DEFINE r == [field |-> f, value |-> v]
  <2>1. x = <<r>>
    BY <1>2 DEF Wire!FieldLine
  <2>2. r \in Written /\ r.field = f /\ r.value = v
    BY DEF Written
  <2> HIDE DEF x, r
  <2>3. Len(x) = 1 /\ x[1] = r /\ x \in Seq(Written)
    BY <2>1, <2>2
  <2>4. w \in Seq(STRING \cup {Wire!Absent}) /\ Len(w) = 1 /\ w[1] = v
    BY <2>2, <2>3
  <2> HIDE DEF w
  <2>5. w # <<>>
    BY <2>4
  <2>6. Wire!LastOr(w, Wire!Absent) = v
    BY <2>4, <2>5 DEF Wire!LastOr, Wire!Last
  <2>7. \A i \in 1 .. Len(x) : x[i].field = f
    BY <2>2, <2>3
  <2> QED
    BY <2>3, <2>6, <2>7, <1>2 DEF x, w
<1> QED
  BY <1>1, <1>2

LEMMA ReadAgain == ASSUME NEW e \in Wire!Event PROVE Again(e)
<1> DEFINE a == Wire!FieldLine("id", e.id)
           b == Wire!FieldLine("event", e.event)
           c == [i \in 1 .. Len(e.data) |-> [field |-> "data", value |-> e.data[i]]]
           l == (a \o b) \o c
           valuesOf(s) == [i \in 1 .. Len(s) |-> s[i].value]
<1>1. e.id \in STRING \cup {Wire!Absent} /\ e.event \in STRING \cup {Wire!Absent} /\ e.data \in Seq(STRING)
  BY DEF Wire!Event
<1>2. /\ a \in Seq(Written) /\ \A i \in 1 .. Len(a) : a[i].field = "id"
      /\ Wire!LastOr(valuesOf(a), Wire!Absent) = IF e.id = Empty THEN Wire!Absent ELSE e.id
  BY <1>1, FieldLineForm
<1>3. /\ b \in Seq(Written) /\ \A i \in 1 .. Len(b) : b[i].field = "event"
      /\ Wire!LastOr(valuesOf(b), Wire!Absent) = IF e.event = Empty THEN Wire!Absent ELSE e.event
  BY <1>1, FieldLineForm
<1>4. /\ c \in Seq(Written) /\ \A i \in 1 .. Len(c) : c[i].field = "data"
      /\ valuesOf(c) = e.data
  <2>1. \A i \in 1 .. Len(e.data) : [field |-> "data", value |-> e.data[i]] \in Written
    BY <1>1 DEF Written
  <2>2. Len(c) = Len(e.data) /\ c \in Seq(Written)
    BY <1>1, <2>1
  <2>3. \A i \in 1 .. Len(e.data) : c[i].field = "data" /\ c[i].value = e.data[i]
    OBVIOUS
  <2>4. valuesOf(c) = [i \in 1 .. Len(e.data) |-> e.data[i]]
    BY <2>2, <2>3
  <2>5. [i \in 1 .. Len(e.data) |-> e.data[i]] = e.data
    BY <1>1
  <2> QED
    BY <2>2, <2>3, <2>4, <2>5
<1>5. Wire!WriteSseEvent(e) = l
  <2>1. Wire!WriteSseEvent(e) = a \o b \o c
    BY DEF Wire!WriteSseEvent
  <2> QED
    BY <2>1
<1> HIDE DEF a, b, c
<1>6. /\ Those(l, FieldOf(l, "id")) = a
      /\ Those(l, FieldOf(l, "event")) = b
      /\ Those(l, FieldOf(l, "data")) = c
  BY <1>2, <1>3, <1>4, ThreeParts
<1> HIDE DEF l
<1>7. /\ Wire!ValuesOf(l, "id") = valuesOf(a)
      /\ Wire!ValuesOf(l, "event") = valuesOf(b)
      /\ Wire!ValuesOf(l, "data") = valuesOf(c)
  BY <1>6, WireThose DEF Wire!ValuesOf, FieldOf
<1> HIDE DEF valuesOf
<1> QED
  BY <1>2, <1>3, <1>4, <1>5, <1>7 DEF Again, Wire!ParseSseBlock

\* What the hub writes to a page for an event reads as that event (sse.ts: writeSseEvent,
\* parseSseBlock).
THEOREM AlwaysForwarded == ASSUME Wire!SseTypes PROVE Wire!Spec => []Wire!Forwarded
<1>1. ASSUME Wire!IInv PROVE Wire!Forwarded
  <2>1. got \in Seq(Wire!Event)
    BY <1>1 DEF Wire!IInv
  <2>2. \A i \in 1 .. Len(got) : Again(got[i])
    BY <2>1, ReadAgain
  <2> QED
    BY <2>2 DEF Again, Wire!Forwarded
<1> QED
  BY <1>1, WireInvariance, PTL

-----------------------------------------------------------------------------
(* The chat: sequences of messages *)

\* What is in a sequence.
Values(s) == {s[i] : i \in 1 .. Len(s)}

LEMMA ToSetIsValues == ASSUME NEW s \in Seq(Nat) PROVE Talk!ToSet(s) = Values(s)
BY DEF Talk!ToSet, Values

LEMMA TalkThose == ASSUME NEW s, NEW T PROVE Talk!Those(s, T) = Those(s, T)
BY DEF Talk!Those, Those

\* What a filter of an increasing sequence is.
LEMMA ThoseFine ==
    ASSUME NEW s \in Seq(Nat), Talk!Increasing(s), NEW T
    PROVE  /\ Talk!Those(s, T) \in Seq(Nat)
           /\ Talk!Increasing(Talk!Those(s, T))
           /\ Values(Talk!Those(s, T)) = Values(s) \cap T
<1>1. PICK F : Builds(s, T, Len(s), F) /\ Talk!Those(s, T) = F[Len(s)]
  BY ThoseBuilt, TalkThose
<1> DEFINE Good(i) ==
        /\ F[i] \in Seq(Nat)
        /\ \A k, l \in 1 .. Len(F[i]) : k < l => F[i][k] < F[i][l]
        /\ \A k \in 1 .. Len(F[i]) : F[i][k] \in T /\ \E j \in 1 .. i : F[i][k] = s[j]
        /\ \A j \in 1 .. i : s[j] \in T => \E k \in 1 .. Len(F[i]) : F[i][k] = s[j]
<1> DEFINE Bad == {i \in 0 .. Len(s) : ~Good(i)}
<1>2. \A i \in 0 .. Len(s) : F[i] = IF i = 0 THEN <<>>
          ELSE IF s[i] \in T THEN Append(F[i - 1], s[i]) ELSE F[i - 1]
  BY <1>1 DEF Builds
<1>3. Bad = {}
  <2> SUFFICES ASSUME Bad # {} PROVE FALSE
    OBVIOUS
  <2>1. PICK n \in Bad : \A m \in Bad : n <= m
    <3>1. Bad \in SUBSET Nat
      OBVIOUS
    <3> HIDE DEF Bad
    <3> QED
      BY <3>1, Smallest
  <2>2. F[0] = <<>>
    BY <1>2
  <2>3. Good(0)
    BY <2>2
  <2>4. n # 0 /\ n \in 1 .. Len(s)
    BY <2>1, <2>3
  <2>5. Good(n - 1)
    <3>1. n - 1 \in 0 .. Len(s) /\ ~(n <= n - 1)
      BY <2>4
    <3>2. n - 1 \notin Bad
      BY <2>1, <3>1
    <3> HIDE DEF Good
    <3> QED
      BY <3>1, <3>2
  <2>6. F[n] = IF s[n] \in T THEN Append(F[n - 1], s[n]) ELSE F[n - 1]
    BY <1>2, <2>4
  <2>7. \A j \in 1 .. n - 1 : s[j] < s[n] /\ s[j] \in Nat /\ s[n] \in Nat
    <3> HIDE DEF Good, Bad
    <3>1. \A j \in 1 .. n - 1 : j \in 1 .. Len(s) /\ j < n
      BY <2>4
    <3> QED
      BY <2>4, <3>1 DEF Talk!Increasing
  <2>8. CASE s[n] \in T
    <3> DEFINE B == F[n - 1]
    <3>1. F[n] = Append(B, s[n]) /\ B \in Seq(Nat) /\ s[n] \in Nat
      <4>1. B \in Seq(Nat)
        BY <2>5
      <4>2. F[n] = Append(B, s[n])
        <5> HIDE DEF Good, Bad
        <5> QED
          BY <2>6, <2>8
      <4>3. s[n] \in Nat
        <5> HIDE DEF Good, Bad, B
        <5> QED
          BY <2>4
      <4> QED
        BY <4>1, <4>2, <4>3
    <3>2. /\ Len(F[n]) = Len(B) + 1 /\ F[n] \in Seq(Nat)
          /\ F[n][Len(B) + 1] = s[n]
          /\ \A k \in 1 .. Len(B) : F[n][k] = B[k] /\ B[k] \in Nat
      <4> HIDE DEF B, Good, Bad
      <4> QED
        BY <3>1
    <3>3. \A k \in 1 .. Len(B) : B[k] \in T /\ \E j \in 1 .. n - 1 : B[k] = s[j]
      BY <2>5
    <3>4. \A k \in 1 .. Len(B) : B[k] < s[n]
      BY <3>3, <2>7
    <3>5. \A k, l \in 1 .. Len(B) : k < l => B[k] < B[l]
      BY <2>5
    <3>6. \A j \in 1 .. n - 1 : s[j] \in T => \E k \in 1 .. Len(B) : B[k] = s[j]
      BY <2>5
    <3> HIDE DEF B
    <3>7. Len(B) \in Nat
      BY <3>1
    <3>8. \A k, l \in 1 .. Len(F[n]) : k < l => F[n][k] < F[n][l]
      <4> SUFFICES ASSUME NEW k \in 1 .. Len(F[n]), NEW l \in 1 .. Len(F[n]), k < l
                   PROVE  F[n][k] < F[n][l]
        OBVIOUS
      <4> HIDE DEF Good, Bad
      <4>1. k \in 1 .. Len(B) /\ (l = Len(B) + 1 \/ l \in 1 .. Len(B))
        BY <3>2, <3>7
      <4> QED
        BY <4>1, <3>2, <3>4, <3>5
    <3>9. \A k \in 1 .. Len(F[n]) : F[n][k] \in T /\ \E j \in 1 .. n : F[n][k] = s[j]
      <4> SUFFICES ASSUME NEW k \in 1 .. Len(F[n])
                   PROVE  F[n][k] \in T /\ \E j \in 1 .. n : F[n][k] = s[j]
        OBVIOUS
      <4>1. CASE k = Len(B) + 1
        BY <4>1, <3>2, <2>8, <2>4
      <4>2. CASE k \in 1 .. Len(B)
        <5>1. PICK j \in 1 .. n - 1 : B[k] = s[j]
          BY <4>2, <3>3
        <5>2. j \in 1 .. n
          BY <2>4
        <5> QED
          BY <4>2, <5>1, <5>2, <3>2, <3>3
      <4> QED
        BY <3>2, <3>7, <4>1, <4>2
    <3>10. \A j \in 1 .. n : s[j] \in T => \E k \in 1 .. Len(F[n]) : F[n][k] = s[j]
      <4> SUFFICES ASSUME NEW j \in 1 .. n, s[j] \in T
                   PROVE  \E k \in 1 .. Len(F[n]) : F[n][k] = s[j]
        OBVIOUS
      <4>1. CASE j = n
        BY <4>1, <3>2, <3>7
      <4>2. CASE j \in 1 .. n - 1
        BY <4>2, <3>2, <3>6, <3>7
      <4> QED
        BY <2>4, <4>1, <4>2
    <3>11. Good(n)
      BY <3>2, <3>8, <3>9, <3>10
    <3> QED
      BY <2>1, <3>11
  <2>9. CASE s[n] \notin T
    <3>1. F[n] = F[n - 1]
      BY <2>6, <2>9
    <3>2. \A k \in 1 .. Len(F[n]) : F[n][k] \in T /\ \E j \in 1 .. n : F[n][k] = s[j]
      <4> SUFFICES ASSUME NEW k \in 1 .. Len(F[n])
                   PROVE  F[n][k] \in T /\ \E j \in 1 .. n : F[n][k] = s[j]
        OBVIOUS
      <4>1. F[n][k] \in T /\ \E j \in 1 .. n - 1 : F[n][k] = s[j]
        BY <2>5, <3>1
      <4>2. PICK j \in 1 .. n - 1 : F[n][k] = s[j]
        BY <4>1
      <4>3. j \in 1 .. n
        BY <2>4
      <4> QED
        BY <4>1, <4>2, <4>3
    <3>3. \A j \in 1 .. n : s[j] \in T => j \in 1 .. n - 1
      BY <2>4, <2>9
    <3>4. \A j \in 1 .. n : s[j] \in T => \E k \in 1 .. Len(F[n]) : F[n][k] = s[j]
      BY <2>5, <3>1, <3>3
    <3>5. Good(n)
      BY <2>5, <3>1, <3>2, <3>4
    <3> QED
      BY <2>1, <3>5
  <2> QED
    BY <2>8, <2>9
<1>4. Good(Len(s))
  <2>1. Len(s) \in 0 .. Len(s)
    OBVIOUS
  <2> HIDE DEF Good
  <2> QED
    BY <1>3, <2>1
<1> DEFINE B == Talk!Those(s, T)
<1>5. /\ B \in Seq(Nat)
      /\ \A k, l \in 1 .. Len(B) : k < l => B[k] < B[l]
      /\ \A k \in 1 .. Len(B) : B[k] \in T /\ \E j \in 1 .. Len(s) : B[k] = s[j]
      /\ \A j \in 1 .. Len(s) : s[j] \in T => \E k \in 1 .. Len(B) : B[k] = s[j]
  BY <1>1, <1>4
<1> HIDE DEF B, Good, Bad
<1>6. Values(B) = Values(s) \cap T
  <2>1. ASSUME NEW v \in Values(B) PROVE v \in Values(s) \cap T
    BY <1>5 DEF Values
  <2>2. ASSUME NEW v \in Values(s) \cap T PROVE v \in Values(B)
    <3>1. PICK j \in 1 .. Len(s) : v = s[j] /\ s[j] \in T
      BY DEF Values
    <3> QED
      BY <1>5, <3>1 DEF Values
  <2> QED
    BY <2>1, <2>2
<1>7. Talk!Increasing(B)
  BY <1>5 DEF Talk!Increasing
<1> QED
  BY <1>5, <1>6, <1>7 DEF B

LEMMA SameMessages ==
    ASSUME NEW a \in Seq(Nat), NEW b \in Seq(Nat), Len(a) = Len(b),
           \A i \in 1 .. Len(a) : a[i] = b[i]
    PROVE  a = b
OBVIOUS

\* An increasing sequence is known by its values.
LEMMA SameValues ==
    ASSUME NEW a \in Seq(Nat), NEW b \in Seq(Nat),
           Talk!Increasing(a), Talk!Increasing(b), Values(a) = Values(b)
    PROVE  a = b
<1>1. /\ \A i \in 1 .. Len(a) : \E j \in 1 .. Len(b) : a[i] = b[j]
      /\ \A i \in 1 .. Len(b) : \E j \in 1 .. Len(a) : b[i] = a[j]
  BY DEF Values
<1>2. \A i \in 1 .. Len(a) : a[i] \in Nat
  OBVIOUS
<1>3. \A i \in 1 .. Len(b) : b[i] \in Nat
  OBVIOUS
<1> DEFINE Bad == {i \in 1 .. Len(a) : i \in 1 .. Len(b) /\ a[i] # b[i]}
<1>4. Bad = {}
  <2> SUFFICES ASSUME Bad # {} PROVE FALSE
    OBVIOUS
  <2>1. PICK n \in Bad : \A m \in Bad : n <= m
    <3>1. Bad \in SUBSET Nat
      OBVIOUS
    <3> HIDE DEF Bad
    <3> QED
      BY <3>1, Smallest
  <2>2. n \in 1 .. Len(a) /\ n \in 1 .. Len(b) /\ a[n] # b[n]
    BY <2>1
  <2>3. \A m \in 1 .. n - 1 : a[m] = b[m]
    <3> SUFFICES ASSUME NEW m \in 1 .. n - 1 PROVE a[m] = b[m]
      OBVIOUS
    <3>1. m \in 1 .. Len(a) /\ m \in 1 .. Len(b) /\ ~(n <= m)
      <4>1. Len(a) \in Nat /\ Len(b) \in Nat
        OBVIOUS
      <4> HIDE DEF Bad
      <4> QED
        BY <2>2, <4>1
    <3> QED
      BY <2>1, <3>1
  <2>4. PICK j \in 1 .. Len(b) : a[n] = b[j]
    BY <1>1, <2>2
  <2>5. PICK i \in 1 .. Len(a) : b[n] = a[i]
    BY <1>1, <2>2
  <2> HIDE DEF Bad
  <2>6. a[n] \in Nat /\ b[n] \in Nat /\ j \in Nat /\ i \in Nat /\ n \in Nat
    BY <2>2, <1>2, <1>3
  <2>7. CASE j < n \/ i < n
    <3>1. j < n => a[j] = b[j] /\ a[j] < a[n]
      <4>1. j < n => j \in 1 .. n - 1 /\ j \in 1 .. Len(a)
        BY <2>2, <2>4
      <4> QED
        BY <4>1, <2>2, <2>3 DEF Talk!Increasing
    <3>2. i < n => a[i] = b[i] /\ b[i] < b[n]
      <4>1. i < n => i \in 1 .. n - 1 /\ i \in 1 .. Len(b)
        BY <2>2, <2>5
      <4> QED
        BY <4>1, <2>2, <2>3 DEF Talk!Increasing
    <3>3. CASE j < n
      <4>1. a[n] < a[n]
        BY <2>4, <3>1, <3>3
      <4> QED
        BY <2>6, <4>1
    <3>4. CASE i < n
      <4>1. b[n] < b[n]
        BY <2>5, <3>2, <3>4
      <4> QED
        BY <2>6, <4>1
    <3> QED
      BY <2>7, <3>3, <3>4
  <2>8. CASE j >= n /\ i >= n
    <3>1. j # n /\ i # n
      BY <2>2, <2>4, <2>5
    <3>2. b[n] < b[j] /\ a[n] < a[i]
      BY <2>2, <2>4, <2>5, <2>6, <2>8, <3>1 DEF Talk!Increasing
    <3> QED
      BY <2>4, <2>5, <2>6, <3>2
  <2> QED
    BY <2>6, <2>7, <2>8
<1>5. ~(Len(a) < Len(b))
  <2> SUFFICES ASSUME Len(a) < Len(b) PROVE FALSE
    OBVIOUS
  <2>1. Len(a) + 1 \in 1 .. Len(b)
    OBVIOUS
  <2>2. PICK j \in 1 .. Len(a) : b[Len(a) + 1] = a[j]
    BY <1>1, <2>1
  <2>3. a[j] = b[j] /\ j \in 1 .. Len(b) /\ j < Len(a) + 1
    <3>1. Len(a) \in Nat /\ Len(b) \in Nat
      OBVIOUS
    <3>2. j \in 1 .. Len(b) /\ j < Len(a) + 1
      BY <3>1
    <3> QED
      BY <3>2, <1>4
  <2> QED
    BY <2>1, <2>2, <2>3, <1>3 DEF Talk!Increasing
<1>6. ~(Len(b) < Len(a))
  <2> SUFFICES ASSUME Len(b) < Len(a) PROVE FALSE
    OBVIOUS
  <2>1. Len(b) + 1 \in 1 .. Len(a)
    OBVIOUS
  <2>2. PICK j \in 1 .. Len(b) : a[Len(b) + 1] = b[j]
    BY <1>1, <2>1
  <2>3. a[j] = b[j] /\ j \in 1 .. Len(a) /\ j < Len(b) + 1
    <3>1. Len(a) \in Nat /\ Len(b) \in Nat
      OBVIOUS
    <3>2. j \in 1 .. Len(a) /\ j < Len(b) + 1
      BY <3>1
    <3> QED
      BY <3>2, <1>4
  <2> QED
    BY <2>1, <2>2, <2>3, <1>2 DEF Talk!Increasing
<1>7. Len(a) = Len(b) /\ \A i \in 1 .. Len(a) : a[i] = b[i]
  <2>1. Len(a) \in Nat /\ Len(b) \in Nat
    OBVIOUS
  <2>2. Len(a) = Len(b)
    BY <2>1, <1>5, <1>6
  <2>3. \A i \in 1 .. Len(a) : i \in 1 .. Len(b)
    BY <2>2
  <2> QED
    BY <2>2, <2>3, <1>4
<1> QED
  <2>1. Len(a) = Len(b)
    BY <1>7
  <2>2. \A i \in 1 .. Len(a) : a[i] = b[i]
    BY <1>7
  <2> QED
    BY <2>1, <2>2, SameMessages

\* The last messages of a sequence, position by position.
LEMMA LastOfForm ==
    ASSUME NEW s \in Seq(Nat), NEW n \in Nat
    PROVE  /\ Talk!LastOf(n, s) \in Seq(Nat)
           /\ Len(Talk!LastOf(n, s)) = IF Len(s) > n THEN n ELSE Len(s)
           /\ \A i \in 1 .. Len(Talk!LastOf(n, s)) :
                /\ i + (Len(s) - Len(Talk!LastOf(n, s))) \in 1 .. Len(s)
                /\ Talk!LastOf(n, s)[i] = s[i + (Len(s) - Len(Talk!LastOf(n, s)))]
<1>1. CASE Len(s) > n
  <2> DEFINE l == SubSeq(s, Len(s) - n + 1, Len(s))
  <2>1. Talk!LastOf(n, s) = l
    BY <1>1 DEF Talk!LastOf
  <2>2. l \in Seq(Nat) /\ Len(l) = n
    BY <1>1
  <2>3. \A i \in 1 .. n : i + (Len(s) - n) \in 1 .. Len(s) /\ l[i] = s[i + (Len(s) - n)]
    BY <1>1
  <2> HIDE DEF l
  <2>4. Len(Talk!LastOf(n, s)) = n /\ Talk!LastOf(n, s) \in Seq(Nat)
    BY <2>1, <2>2
  <2>5. \A i \in 1 .. n : Talk!LastOf(n, s)[i] = s[i + (Len(s) - n)]
    BY <2>1, <2>3
  <2> QED
    BY <1>1, <2>3, <2>4, <2>5
<1>2. CASE ~(Len(s) > n)
  <2>1. Talk!LastOf(n, s) = SubSeq(s, 1, Len(s))
    BY <1>2 DEF Talk!LastOf
  <2>2. SubSeq(s, 1, Len(s)) = s
    OBVIOUS
  <2>3. Talk!LastOf(n, s) = s /\ Len(s) \in Nat
    BY <2>1, <2>2
  <2>4. \A i \in 1 .. Len(s) : i + (Len(s) - Len(s)) = i
    BY <2>3
  <2> QED
    BY <1>2, <2>3, <2>4
<1> QED
  BY <1>1, <1>2

\* Sequences are equal that are equal position by position.
LEMMA LastOfAppend ==
    ASSUME NEW s \in Seq(Nat), NEW n \in Nat, NEW x \in Nat
    PROVE  /\ Talk!LastOf(n, Append(Talk!LastOf(n, s), x)) = Talk!LastOf(n, Append(s, x))
           /\ Talk!LastOf(n + 1, Append(s, x)) = Append(Talk!LastOf(n, s), x)
<1> DEFINE l == Talk!LastOf(n, s)
           a == Append(s, x)
           al == Append(l, x)
           left == Talk!LastOf(n, al)
           right == Talk!LastOf(n, a)
           more == Talk!LastOf(n + 1, a)
<1>1. /\ l \in Seq(Nat) /\ Len(l) = (IF Len(s) > n THEN n ELSE Len(s))
      /\ \A i \in 1 .. Len(l) : i + (Len(s) - Len(l)) \in 1 .. Len(s) /\ l[i] = s[i + (Len(s) - Len(l))]
  BY LastOfForm
<1>2. /\ a \in Seq(Nat) /\ Len(a) = Len(s) + 1 /\ a[Len(s) + 1] = x
      /\ \A i \in 1 .. Len(s) : a[i] = s[i]
  OBVIOUS
<1> HIDE DEF l, a
<1>3. /\ al \in Seq(Nat) /\ Len(al) = Len(l) + 1 /\ al[Len(l) + 1] = x
      /\ \A i \in 1 .. Len(l) : al[i] = l[i]
  BY <1>1
<1> HIDE DEF al
<1>4. /\ left \in Seq(Nat) /\ Len(left) = (IF Len(al) > n THEN n ELSE Len(al))
      /\ \A i \in 1 .. Len(left) : i + (Len(al) - Len(left)) \in 1 .. Len(al) /\ left[i] = al[i + (Len(al) - Len(left))]
  BY <1>3, LastOfForm
<1>5. /\ right \in Seq(Nat) /\ Len(right) = (IF Len(a) > n THEN n ELSE Len(a))
      /\ \A i \in 1 .. Len(right) : i + (Len(a) - Len(right)) \in 1 .. Len(a) /\ right[i] = a[i + (Len(a) - Len(right))]
  BY <1>2, LastOfForm
<1>6. /\ more \in Seq(Nat) /\ Len(more) = (IF Len(a) > n + 1 THEN n + 1 ELSE Len(a))
      /\ \A i \in 1 .. Len(more) : i + (Len(a) - Len(more)) \in 1 .. Len(a) /\ more[i] = a[i + (Len(a) - Len(more))]
  <2>1. n + 1 \in Nat
    OBVIOUS
  <2> QED
    BY <1>2, <2>1, LastOfForm
<1>7. Len(s) \in Nat /\ Len(l) \in Nat
  BY <1>1
<1> HIDE DEF left, right, more
<1>8. left = right
  <2>1. Len(left) = Len(right)
    BY <1>1, <1>2, <1>3, <1>4, <1>5, <1>7
  <2>2. ASSUME NEW i \in 1 .. Len(left) PROVE left[i] = right[i]
    <3>1. /\ left[i] = al[i + (Len(al) - Len(left))] /\ i + (Len(al) - Len(left)) \in 1 .. Len(al)
          /\ right[i] = a[i + (Len(a) - Len(right))] /\ i + (Len(a) - Len(right)) \in 1 .. Len(a)
      BY <1>4, <1>5, <2>1
    <3> DEFINE k == i + (Len(al) - Len(left))
    <3>2. k \in 1 .. Len(l) + 1 /\ i + (Len(a) - Len(right)) = k + (Len(s) - Len(l))
      BY <1>2, <1>3, <1>7, <2>1, <3>1, <1>4
    <3> HIDE DEF k
    <3>3. CASE k = Len(l) + 1
      <4>1. k + (Len(s) - Len(l)) = Len(s) + 1
        BY <3>3, <1>7
      <4>2. left[i] = x /\ right[i] = x
        BY <3>1, <3>2, <3>3, <4>1, <1>2, <1>3 DEF k
      <4> QED
        BY <4>2
    <3>4. CASE k \in 1 .. Len(l)
      <4>1. left[i] = l[k]
        BY <3>1, <3>4, <1>3 DEF k
      <4>2. k + (Len(s) - Len(l)) \in 1 .. Len(s) /\ l[k] = s[k + (Len(s) - Len(l))]
        BY <3>4, <1>1
      <4>3. right[i] = a[k + (Len(s) - Len(l))]
        BY <3>1, <3>2
      <4>4. a[k + (Len(s) - Len(l))] = s[k + (Len(s) - Len(l))]
        BY <4>2, <1>2
      <4> QED
        BY <4>1, <4>2, <4>3, <4>4
    <3> QED
      BY <3>2, <3>3, <3>4, <1>7
  <2> QED
    BY <2>1, <2>2, <1>4, <1>5, SameMessages
<1>9. more = al
  <2>1. Len(more) = Len(al)
    BY <1>1, <1>2, <1>3, <1>6, <1>7
  <2>2. ASSUME NEW i \in 1 .. Len(more) PROVE more[i] = al[i]
    <3>1. more[i] = a[i + (Len(s) - Len(l))] /\ i \in 1 .. Len(l) + 1
      <4>1. Len(a) - Len(more) = Len(s) - Len(l) /\ Len(more) = Len(l) + 1
        <5>1. Len(more) = Len(l) + 1
          BY <1>3, <2>1
        <5> QED
          BY <1>2, <1>7, <5>1
      <4> QED
        BY <4>1, <1>6
    <3>2. CASE i = Len(l) + 1
      BY <3>1, <3>2, <1>2, <1>3, <1>7
    <3>3. CASE i \in 1 .. Len(l)
      BY <3>1, <3>3, <1>1, <1>2, <1>3, <1>7
    <3> QED
      BY <3>1, <3>2, <3>3, <1>7
  <2> QED
    BY <2>1, <2>2, <1>3, <1>6, SameMessages
<1> QED
  BY <1>8, <1>9 DEF left, right, more, al, a, l

LEMMA LastOfLast ==
    ASSUME NEW s \in Seq(Nat), NEW n \in Nat, NEW m \in Nat, m <= n
    PROVE  Talk!LastOf(m, Talk!LastOf(n, s)) = Talk!LastOf(m, s)
<1> DEFINE l == Talk!LastOf(n, s)
           ll == Talk!LastOf(m, l)
           r == Talk!LastOf(m, s)
<1>1. /\ l \in Seq(Nat) /\ Len(l) = (IF Len(s) > n THEN n ELSE Len(s))
      /\ \A i \in 1 .. Len(l) : i + (Len(s) - Len(l)) \in 1 .. Len(s) /\ l[i] = s[i + (Len(s) - Len(l))]
  BY LastOfForm
<1>2. /\ r \in Seq(Nat) /\ Len(r) = (IF Len(s) > m THEN m ELSE Len(s))
      /\ \A i \in 1 .. Len(r) : i + (Len(s) - Len(r)) \in 1 .. Len(s) /\ r[i] = s[i + (Len(s) - Len(r))]
  BY LastOfForm
<1> HIDE DEF l
<1>3. /\ ll \in Seq(Nat) /\ Len(ll) = (IF Len(l) > m THEN m ELSE Len(l))
      /\ \A i \in 1 .. Len(ll) : i + (Len(l) - Len(ll)) \in 1 .. Len(l) /\ ll[i] = l[i + (Len(l) - Len(ll))]
  BY <1>1, LastOfForm
<1> HIDE DEF ll, r
<1>4. Len(ll) = Len(r) /\ Len(s) \in Nat /\ Len(l) \in Nat /\ Len(r) \in Nat
  BY <1>1, <1>2, <1>3
<1>5. ASSUME NEW i \in 1 .. Len(ll) PROVE ll[i] = r[i]
  <2>1. ll[i] = l[i + (Len(l) - Len(ll))] /\ i + (Len(l) - Len(ll)) \in 1 .. Len(l)
    BY <1>3
  <2>2. l[i + (Len(l) - Len(ll))] = s[(i + (Len(l) - Len(ll))) + (Len(s) - Len(l))]
    BY <1>1, <2>1
  <2>3. (i + (Len(l) - Len(ll))) + (Len(s) - Len(l)) = i + (Len(s) - Len(r))
    BY <1>4
  <2> QED
    BY <1>2, <1>4, <2>1, <2>2, <2>3
<1> QED
  BY <1>2, <1>3, <1>4, <1>5, SameMessages DEF ll, r, l

LEMMA LastOfTail ==
    ASSUME NEW s \in Seq(Nat), NEW n \in 1 .. Len(s)
    PROVE  Tail(Talk!LastOf(n, s)) = Talk!LastOf(n - 1, s)
<1> DEFINE l == Talk!LastOf(n, s)
           r == Talk!LastOf(n - 1, s)
<1>1. /\ l \in Seq(Nat) /\ Len(l) = n
      /\ \A i \in 1 .. Len(l) : l[i] = s[i + (Len(s) - Len(l))]
  <2>1. n \in Nat /\ Len(s) \in Nat /\ (Len(s) > n => n < Len(s)) /\ (~(Len(s) > n) => n = Len(s))
    OBVIOUS
  <2>2. /\ l \in Seq(Nat) /\ Len(l) = (IF Len(s) > n THEN n ELSE Len(s))
        /\ \A i \in 1 .. Len(l) : i + (Len(s) - Len(l)) \in 1 .. Len(s) /\ l[i] = s[i + (Len(s) - Len(l))]
    BY <2>1, LastOfForm
  <2> HIDE DEF l
  <2>3. Len(l) = n
    BY <2>1, <2>2
  <2> QED
    BY <2>2, <2>3
<1>2. /\ r \in Seq(Nat) /\ Len(r) = n - 1
      /\ \A i \in 1 .. Len(r) : r[i] = s[i + (Len(s) - Len(r))]
  <2>1. n - 1 \in Nat /\ Len(s) \in Nat /\ Len(s) > n - 1
    OBVIOUS
  <2>2. /\ r \in Seq(Nat) /\ Len(r) = (IF Len(s) > n - 1 THEN n - 1 ELSE Len(s))
        /\ \A i \in 1 .. Len(r) : i + (Len(s) - Len(r)) \in 1 .. Len(s) /\ r[i] = s[i + (Len(s) - Len(r))]
    BY <2>1, LastOfForm
  <2> HIDE DEF r
  <2>3. Len(r) = n - 1
    BY <2>1, <2>2
  <2> QED
    BY <2>2, <2>3
<1> HIDE DEF l, r
<1>3. l # <<>> /\ Tail(l) \in Seq(Nat) /\ Len(Tail(l)) = n - 1
  BY <1>1
<1>4. ASSUME NEW i \in 1 .. n - 1 PROVE Tail(l)[i] = r[i]
  <2>1. Tail(l)[i] = l[i + 1]
    BY <1>1, <1>3
  <2>2. l[i + 1] = s[(i + 1) + (Len(s) - n)]
    <3>1. i + 1 \in 1 .. Len(l)
      BY <1>1
    <3> QED
      BY <1>1, <3>1
  <2>3. (i + 1) + (Len(s) - n) = i + (Len(s) - (n - 1)) /\ Len(s) \in Nat
    OBVIOUS
  <2> QED
    BY <1>2, <2>1, <2>2, <2>3
<1> QED
  BY <1>2, <1>3, <1>4, SameMessages DEF l, r

LEMMA LastOfFine ==
    ASSUME NEW s \in Seq(Nat), NEW n \in Nat
    PROVE  /\ Values(Talk!LastOf(n, s)) \subseteq Values(s)
           /\ Talk!Increasing(s) => Talk!Increasing(Talk!LastOf(n, s))
           /\ (\A i, j \in 1 .. Len(s) : i < j => s[i] # s[j]) =>
                \A i, j \in 1 .. Len(Talk!LastOf(n, s)) :
                    i < j => Talk!LastOf(n, s)[i] # Talk!LastOf(n, s)[j]
           /\ Talk!LastOf(0, s) = <<>>
<1> DEFINE l == Talk!LastOf(n, s)
           d == Len(s) - Len(l)
<1>1. /\ l \in Seq(Nat) /\ Len(l) = (IF Len(s) > n THEN n ELSE Len(s))
      /\ \A i \in 1 .. Len(l) : i + d \in 1 .. Len(s) /\ l[i] = s[i + d]
  BY LastOfForm
<1>2. Len(s) \in Nat /\ Len(l) \in Nat /\ d \in Int
  BY <1>1
<1>3. Len(Talk!LastOf(0, s)) = 0 /\ Talk!LastOf(0, s) \in Seq(Nat)
  BY LastOfForm
<1> HIDE DEF l, d
<1>4. Values(l) \subseteq Values(s)
  BY <1>1 DEF Values
<1>5. \A i, j \in 1 .. Len(l) : i < j => i + d < j + d
  BY <1>2
<1>6. Talk!Increasing(s) => Talk!Increasing(l)
  BY <1>1, <1>5 DEF Talk!Increasing
<1>7. (\A i, j \in 1 .. Len(s) : i < j => s[i] # s[j]) =>
          \A i, j \in 1 .. Len(l) : i < j => l[i] # l[j]
  <2> SUFFICES ASSUME \A i, j \in 1 .. Len(s) : i < j => s[i] # s[j],
                      NEW i \in 1 .. Len(l), NEW j \in 1 .. Len(l), i < j
               PROVE  l[i] # l[j]
    OBVIOUS
  <2>1. i + d < j + d
    BY <1>5
  <2>2. i + d \in 1 .. Len(s) /\ j + d \in 1 .. Len(s) /\ l[i] = s[i + d] /\ l[j] = s[j + d]
    BY <1>1
  <2> QED
    BY <2>1, <2>2
<1>8. Talk!LastOf(0, s) = <<>>
  BY <1>3
<1> QED
  BY <1>4, <1>6, <1>7, <1>8 DEF l

LEMMA AppendFine ==
    ASSUME NEW s \in Seq(Nat), NEW x \in Nat
    PROVE  /\ Append(s, x) \in Seq(Nat)
           /\ Values(Append(s, x)) = Values(s) \cup {x}
           /\ Talk!Increasing(s) /\ (\A n \in Values(s) : n < x) => Talk!Increasing(Append(s, x))
           /\ x \notin Values(s) /\ (\A i, j \in 1 .. Len(s) : i < j => s[i] # s[j]) =>
                \A i, j \in 1 .. Len(Append(s, x)) : i < j => Append(s, x)[i] # Append(s, x)[j]
<1> DEFINE a == Append(s, x)
<1>1. /\ a \in Seq(Nat) /\ Len(a) = Len(s) + 1 /\ a[Len(s) + 1] = x
      /\ \A i \in 1 .. Len(s) : a[i] = s[i]
      /\ Len(s) \in Nat
  OBVIOUS
<1> HIDE DEF a
<1>2. Values(a) = Values(s) \cup {x}
  <2>1. ASSUME NEW v \in Values(a) PROVE v \in Values(s) \cup {x}
    <3>1. PICK i \in 1 .. Len(a) : v = a[i]
      BY DEF Values
    <3>2. i = Len(s) + 1 \/ i \in 1 .. Len(s)
      BY <1>1
    <3> QED
      BY <1>1, <3>1, <3>2 DEF Values
  <2>2. ASSUME NEW v \in Values(s) PROVE v \in Values(a)
    <3>1. PICK i \in 1 .. Len(s) : v = s[i]
      BY DEF Values
    <3>2. i \in 1 .. Len(a) /\ v = a[i]
      BY <1>1, <3>1
    <3> QED
      BY <3>2 DEF Values
  <2>3. x \in Values(a)
    <3>1. Len(s) + 1 \in 1 .. Len(a)
      BY <1>1
    <3> QED
      BY <1>1, <3>1 DEF Values
  <2> QED
    BY <2>1, <2>2, <2>3
<1>3. \A i, j \in 1 .. Len(a) : i < j =>
          i \in 1 .. Len(s) /\ a[i] = s[i] /\ s[i] \in Values(s)
          /\ ((j \in 1 .. Len(s) /\ a[j] = s[j]) \/ a[j] = x)
  <2> SUFFICES ASSUME NEW i \in 1 .. Len(a), NEW j \in 1 .. Len(a), i < j
               PROVE  /\ i \in 1 .. Len(s) /\ a[i] = s[i] /\ s[i] \in Values(s)
                      /\ ((j \in 1 .. Len(s) /\ a[j] = s[j]) \/ a[j] = x)
    OBVIOUS
  <2>1. i \in 1 .. Len(s) /\ (j \in 1 .. Len(s) \/ j = Len(s) + 1)
    <3>1. Len(a) = Len(s) + 1 /\ Len(s) \in Nat
      BY <1>1
    <3>2. i \in Nat /\ j \in Nat /\ 1 <= i /\ j <= Len(s) + 1
      BY <3>1
    <3> QED
      BY <3>1, <3>2
  <2>2. a[i] = s[i] /\ s[i] \in Values(s)
    BY <1>1, <2>1 DEF Values
  <2>3. (j \in 1 .. Len(s) /\ a[j] = s[j]) \/ a[j] = x
    BY <1>1, <2>1
  <2> QED
    BY <2>1, <2>2, <2>3
<1>4. Talk!Increasing(s) /\ (\A n \in Values(s) : n < x) => Talk!Increasing(a)
  BY <1>3 DEF Talk!Increasing
<1>5. x \notin Values(s) /\ (\A i, j \in 1 .. Len(s) : i < j => s[i] # s[j]) =>
          \A i, j \in 1 .. Len(a) : i < j => a[i] # a[j]
  BY <1>3
<1> QED
  BY <1>1, <1>2, <1>4, <1>5 DEF a

LEMMA OfPoolFine ==
    ASSUME NEW s \in Seq(Nat), Talk!Increasing(s), NEW pool, NEW of
    PROVE  /\ Talk!OfPool(s, pool, of) \in Seq(Nat)
           /\ Talk!Increasing(Talk!OfPool(s, pool, of))
           /\ Values(Talk!OfPool(s, pool, of)) = {n \in Values(s) : of[n] = pool}
<1>1. Talk!OfPool(s, pool, of) = Talk!Those(s, {n \in Values(s) : of[n] = pool})
  BY ToSetIsValues DEF Talk!OfPool
<1> QED
  BY <1>1, ThoseFine

\* All, of any sequence of posted messages.
Numbered(of, pool) == Talk!OfPool([n \in 1 .. Len(of) |-> n], pool, of)

LEMMA NumberedFine ==
    ASSUME NEW of \in Seq(Pool), NEW pool
    PROVE  /\ Numbered(of, pool) \in Seq(Nat)
           /\ Talk!Increasing(Numbered(of, pool))
           /\ Values(Numbered(of, pool)) = {n \in 1 .. Len(of) : of[n] = pool}
<1> DEFINE s == [n \in 1 .. Len(of) |-> n]
<1>1. s \in Seq(Nat) /\ Len(s) = Len(of) /\ \A i \in 1 .. Len(of) : s[i] = i
  OBVIOUS
<1> HIDE DEF s
<1>2. Talk!Increasing(s)
  BY <1>1 DEF Talk!Increasing
<1>3. Values(s) = 1 .. Len(of)
  BY <1>1 DEF Values
<1> QED
  BY <1>1, <1>2, <1>3, OfPoolFine DEF Numbered, s

-----------------------------------------------------------------------------
(* The chat: what is kept, and what is under way *)

\* What IInv says of one page.
ChatFine(p) ==
    /\ p \notin clients => inbox[p] = <<>>
    /\ inbox[p] = Talk!LastOf(Len(inbox[p]), Numbered(posted, PoolOf[p]))
    /\ Talk!OwnOnce(p, view[p]) /\ Talk!OwnOnce(p, history[p].messages)
    /\ Talk!Increasing(history[p].messages)

\* The inductive invariant, with what it says of each page put together.
ChatParts ==
    /\ Talk!TypeOK /\ Talk!CapKeepsNewest
    /\ Talk!Increasing(store) /\ Talk!ToSet(store) \subseteq 1 .. Len(posted)
    /\ \A p \in Page : ChatFine(p)

LEMMA IInvForm == Talk!IInv <=> ChatParts
BY DEF ChatParts, Talk!IInv, Talk!NewestUnderWay, Talk!ShownOnce, Talk!All, Numbered, ChatFine

LEMMA EmptyFine ==
    ASSUME NEW p \in Page, NEW s \in Seq(Nat)
    PROVE  /\ Talk!OwnOnce(p, <<>>) /\ Talk!Increasing(<<>>)
           /\ <<>> = Talk!LastOf(Len(<<>>), s)
<1>1. Talk!ToSet(<<>>) = {}
  BY DEF Talk!ToSet
<1>2. Len(<<>>) = 0
  OBVIOUS
<1> QED
  BY <1>1, <1>2, LastOfFine DEF Talk!OwnOnce, Talk!Increasing

LEMMA ChatInitially == ASSUME Talk!ChatTypes, Talk!Init PROVE Talk!IInv
<1> USE DEF Talk!Init
<1>1. Talk!TypeOK
  BY DEF Talk!TypeOK, Talk!ChatTypes, Talk!NoHistory
<1>2. posted \in Seq(Pool) /\ store \in Seq(Nat) /\ Values(store) = {} /\ Len(posted) = 0
      /\ Len(store) = 0
  BY DEF Values
<1>3. Talk!Increasing(store) /\ Talk!ToSet(store) \subseteq 1 .. Len(posted)
  <2>1. Talk!ToSet(store) = {}
    BY <1>2, ToSetIsValues
  <2> QED
    BY <1>2, <2>1 DEF Talk!Increasing
<1>4. Talk!CapKeepsNewest
  <2> SUFFICES ASSUME NEW pool \in Pool
               PROVE  Talk!OfPool(store, pool, posted) = Talk!LastOf(MaxPerPool, Numbered(posted, pool))
    BY DEF Talk!CapKeepsNewest, Talk!All, Numbered
  <2> DEFINE a == Talk!OfPool(store, pool, posted)
             b == Talk!LastOf(MaxPerPool, Numbered(posted, pool))
  <2>1. a \in Seq(Nat) /\ Talk!Increasing(a) /\ Values(a) = {}
    BY <1>2, <1>3, OfPoolFine
  <2>2. Numbered(posted, pool) \in Seq(Nat) /\ Talk!Increasing(Numbered(posted, pool))
        /\ Values(Numbered(posted, pool)) = {}
    <3>1. posted \in Seq(Pool) /\ 1 .. Len(posted) = {}
      BY <1>2
    <3> HIDE DEF Talk!Init
    <3> QED
      BY <3>1, NumberedFine
  <2>3. MaxPerPool \in Nat
    BY DEF Talk!ChatTypes
  <2>4. b \in Seq(Nat) /\ Talk!Increasing(b) /\ Values(b) = {}
    BY <2>2, <2>3, LastOfForm, LastOfFine
  <2> HIDE DEF a, b
  <2> QED
    BY <2>1, <2>4, SameValues DEF a, b
<1>5. ASSUME NEW p \in Page PROVE ChatFine(p)
  <2>1. Numbered(posted, PoolOf[p]) \in Seq(Nat)
    BY <1>2, NumberedFine
  <2>2. inbox[p] = <<>> /\ view[p] = <<>> /\ history[p].messages = <<>>
    BY DEF Talk!NoHistory
  <2> QED
    BY <2>1, <2>2, EmptyFine DEF ChatFine
<1> QED
  BY <1>1, <1>3, <1>4, <1>5, IInvForm DEF ChatParts

\* A message posted: the pool has one more, the others have what they had.
LEMMA PostNumbers ==
    ASSUME NEW of \in Seq(Pool), NEW pool \in Pool, NEW q
    PROVE  Numbered(Append(of, pool), q) =
             IF q = pool THEN Append(Numbered(of, q), Len(of) + 1) ELSE Numbered(of, q)
<1> DEFINE n == Len(of) + 1
           new == Append(of, pool)
           a == Numbered(new, q)
           b == Numbered(of, q)
           c == IF q = pool THEN Append(b, n) ELSE b
<1>1. /\ new \in Seq(Pool) /\ Len(new) = n /\ n \in Nat /\ new[n] = pool
      /\ \A i \in 1 .. Len(of) : new[i] = of[i]
      /\ 1 .. n = (1 .. Len(of)) \cup {n} /\ n \notin 1 .. Len(of)
  OBVIOUS
<1> HIDE DEF new
<1>2. a \in Seq(Nat) /\ Talk!Increasing(a) /\ Values(a) = {i \in 1 .. n : new[i] = q}
  BY <1>1, NumberedFine
<1>3. b \in Seq(Nat) /\ Talk!Increasing(b) /\ Values(b) = {i \in 1 .. Len(of) : of[i] = q}
  BY NumberedFine
<1>4. \A i \in Values(b) : i < n
  BY <1>3
<1> HIDE DEF a, b
<1>5. CASE q = pool
  <2>1. Append(b, n) \in Seq(Nat) /\ Talk!Increasing(Append(b, n))
        /\ Values(Append(b, n)) = Values(b) \cup {n}
    BY <1>1, <1>3, <1>4, AppendFine
  <2>2. Values(a) = Values(b) \cup {n}
    BY <1>1, <1>2, <1>3, <1>5
  <2> QED
    BY <1>2, <1>5, <2>1, <2>2, SameValues DEF a, b, new
<1>6. CASE q # pool
  <2>1. Values(a) = Values(b)
    BY <1>1, <1>2, <1>3, <1>6
  <2> QED
    BY <1>2, <1>3, <1>6, <2>1, SameValues DEF a, b, new
<1> QED
  BY <1>5, <1>6

\* The store after a message: its cap takes the oldest of the pool only.
LEMMA PostStore ==
    ASSUME NEW old \in Seq(Nat), Talk!Increasing(old), NEW of \in Seq(Pool),
           Values(old) \subseteq 1 .. Len(of), NEW pool \in Pool, MaxPerPool \in Nat,
           \A q \in Pool : Talk!OfPool(old, q, of) = Talk!LastOf(MaxPerPool, Numbered(of, q)),
           NEW new, new = Talk!Capped(Append(old, Len(of) + 1), pool, Append(of, pool))
    PROVE  /\ new \in Seq(Nat) /\ Talk!Increasing(new)
           /\ Values(new) \subseteq 1 .. Len(of) + 1
           /\ \A q \in Pool : Talk!OfPool(new, q, Append(of, pool)) =
                                  Talk!LastOf(MaxPerPool, Numbered(Append(of, pool), q))
<1> DEFINE n == Len(of) + 1
           to == Append(of, pool)
           all == Append(old, n)
           x == Talk!OfPool(old, pool, of)
           last == Talk!LastOf(MaxPerPool, Append(x, n))
<1>1. /\ to \in Seq(Pool) /\ Len(to) = n /\ n \in Nat /\ to[n] = pool
      /\ \A i \in 1 .. Len(of) : to[i] = of[i]
      /\ 1 .. n = (1 .. Len(of)) \cup {n} /\ n \notin 1 .. Len(of)
      /\ \A i \in 1 .. Len(of) : i < n
  OBVIOUS
<1>2. /\ all \in Seq(Nat) /\ Talk!Increasing(all) /\ Values(all) = Values(old) \cup {n}
  BY <1>1, AppendFine
<1>3. /\ x \in Seq(Nat) /\ Talk!Increasing(x) /\ Values(x) = {i \in Values(old) : of[i] = pool}
  BY OfPoolFine
<1> HIDE DEF to, x
<1>4. /\ Append(x, n) \in Seq(Nat) /\ Talk!Increasing(Append(x, n))
      /\ Values(Append(x, n)) = Values(x) \cup {n}
  BY <1>1, <1>3, AppendFine
<1> HIDE DEF all
<1>5. Talk!OfPool(all, pool, to) = Append(x, n)
  <2> DEFINE a == Talk!OfPool(all, pool, to)
  <2>1. a \in Seq(Nat) /\ Talk!Increasing(a) /\ Values(a) = {i \in Values(all) : to[i] = pool}
    BY <1>2, OfPoolFine
  <2>2. Values(a) = Values(Append(x, n))
    BY <1>1, <1>2, <1>3, <1>4, <2>1
  <2> HIDE DEF a
  <2> QED
    BY <1>4, <2>1, <2>2, SameValues DEF a
<1>6. last \in Seq(Nat) /\ Talk!Increasing(last) /\ Values(last) \subseteq Values(Append(x, n))
  BY <1>4, LastOfForm, LastOfFine
<1> HIDE DEF last
<1>7. new = Talk!Those(all, {i \in Values(all) : to[i] # pool} \cup Values(last))
  BY <1>2, <1>5, <1>6, ToSetIsValues DEF Talk!Capped, last, all, to
<1>8. /\ new \in Seq(Nat) /\ Talk!Increasing(new)
      /\ Values(new) = Values(all) \cap ({i \in Values(all) : to[i] # pool} \cup Values(last))
  BY <1>2, <1>7, ThoseFine
<1>9. \A i \in Values(last) : i \in Values(all) /\ to[i] = pool
  BY <1>1, <1>2, <1>3, <1>4, <1>6
<1>10. Values(new) \subseteq 1 .. n
  BY <1>1, <1>2, <1>8
<1>11. ASSUME NEW q \in Pool
       PROVE  Talk!OfPool(new, q, to) = Talk!LastOf(MaxPerPool, Numbered(to, q))
  <2> DEFINE a == Talk!OfPool(new, q, to)
  <2>1. a \in Seq(Nat) /\ Talk!Increasing(a) /\ Values(a) = {i \in Values(new) : to[i] = q}
    BY <1>8, OfPoolFine
  <2> HIDE DEF a
  <2>2. CASE q = pool
    <3>1. Values(a) = Values(last)
      BY <1>8, <1>9, <2>1, <2>2
    <3>2. a = last
      BY <1>6, <2>1, <3>1, SameValues
    <3>3. x = Talk!LastOf(MaxPerPool, Numbered(of, pool))
      BY DEF x
    <3>4. Numbered(of, pool) \in Seq(Nat)
      BY NumberedFine
    <3>5. last = Talk!LastOf(MaxPerPool, Append(Numbered(of, pool), n))
      BY <1>1, <3>3, <3>4, LastOfAppend DEF last
    <3>6. Numbered(to, pool) = Append(Numbered(of, pool), n)
      BY PostNumbers DEF to
    <3> QED
      BY <2>2, <3>2, <3>5, <3>6 DEF a
  <2>3. CASE q # pool
    <3> DEFINE b == Talk!OfPool(old, q, of)
    <3>1. b \in Seq(Nat) /\ Talk!Increasing(b) /\ Values(b) = {i \in Values(old) : of[i] = q}
      BY OfPoolFine
    <3>2. b = Talk!LastOf(MaxPerPool, Numbered(of, q))
      OBVIOUS
    <3> HIDE DEF b
    <3>3. Values(a) = Values(b)
      BY <1>1, <1>2, <1>8, <1>9, <2>1, <2>3, <3>1
    <3>4. a = b
      BY <2>1, <3>1, <3>3, SameValues
    <3>5. Numbered(to, q) = Numbered(of, q)
      BY <2>3, PostNumbers DEF to
    <3> QED
      BY <3>2, <3>4, <3>5 DEF a
  <2> QED
    BY <2>2, <2>3
<1> QED
  BY <1>8, <1>10, <1>11 DEF to

\* OwnOnce, for any posted messages.
OwnSeen(of, p, seq) ==
    /\ \A i, j \in 1 .. Len(seq) : i < j => seq[i] # seq[j]
    /\ \A n \in Values(seq) : n \in 1 .. Len(of) /\ of[n] = PoolOf[p]

LEMMA OwnOnceForm ==
    ASSUME NEW p, NEW s \in Seq(Nat)
    PROVE  Talk!OwnOnce(p, s) <=> OwnSeen(posted, p, s)
BY ToSetIsValues DEF Talk!OwnOnce, OwnSeen

LEMMA ChatTypeStep ==
    ASSUME Talk!ChatTypes, Talk!TypeOK, Talk!Next
    PROVE  /\ posted' \in Seq(Pool) /\ clients' \subseteq Page
           /\ stream' \in [Page -> {"off", "connecting", "open", "waiting"}]
           /\ drops' \in 0 .. MaxDrops
<1> USE DEF Talk!TypeOK, Talk!ChatTypes
<1>1. ASSUME NEW pool \in Pool, Talk!PostMessage(pool)
      PROVE  posted' \in Seq(Pool) /\ UNCHANGED <<clients, stream, drops>>
  BY <1>1 DEF Talk!PostMessage
<1>2. ASSUME NEW p \in Page, Talk!Mount(p) \/ Talk!Unmount(p) \/ Talk!Open(p) \/ Talk!Reconnect(p)
      PROVE  /\ UNCHANGED <<posted, drops>> /\ clients' \subseteq Page
             /\ stream' \in [Page -> {"off", "connecting", "open", "waiting"}]
  BY <1>2 DEF Talk!Mount, Talk!Unmount, Talk!Open, Talk!Reconnect
<1>3. ASSUME NEW p \in Page, Talk!StreamDrops(p)
      PROVE  /\ UNCHANGED posted /\ clients' \subseteq Page /\ drops' \in 0 .. MaxDrops
             /\ stream' \in [Page -> {"off", "connecting", "open", "waiting"}]
  BY <1>3 DEF Talk!StreamDrops
<1>4. ASSUME NEW p \in Page, Talk!HistoryFails(p)
      PROVE  UNCHANGED <<posted, clients, stream>> /\ drops' \in 0 .. MaxDrops
  BY <1>4 DEF Talk!HistoryFails
<1>5. ASSUME NEW p \in Page, Talk!AnswerHistory(p) \/ Talk!ShowHistory(p) \/ Talk!Receive(p)
      PROVE  UNCHANGED <<posted, clients, stream, drops>>
  BY <1>5 DEF Talk!AnswerHistory, Talk!ShowHistory, Talk!Receive
<1> QED
  BY <1>1, <1>2, <1>3, <1>4, <1>5 DEF Talk!Next

\* What a page's own step leaves alone.
OtherPages(p) ==
    /\ UNCHANGED <<posted, store>>
    /\ \A q \in Page \ {p} :
         /\ inbox'[q] = inbox[q] /\ view'[q] = view[q] /\ history'[q] = history[q]
         /\ q \in clients' <=> q \in clients

LEMMA PageStep ==
    ASSUME Talk!ChatTypes, Talk!IInv, Talk!Next, NEW p \in Page, OtherPages(p),
           inbox' = [inbox EXCEPT ![p] = inbox'[p]], view' = [view EXCEPT ![p] = view'[p]],
           history' = [history EXCEPT ![p] = history'[p]],
           inbox'[p] \in Seq(Nat), view'[p] \in Seq(Nat),
           history'[p] \in [pc : {"off", "asked", "answered", "done"}, messages : Seq(Nat)],
           ChatFine(p)'
    PROVE  Talk!IInv'
<1>1. Talk!TypeOK
  BY DEF Talk!IInv
<1>2. Talk!TypeOK'
  <2>1. /\ inbox' \in [Page -> Seq(Nat)] /\ view' \in [Page -> Seq(Nat)]
        /\ history' \in [Page -> [pc : {"off", "asked", "answered", "done"}, messages : Seq(Nat)]]
    <3>1. /\ inbox \in [Page -> Seq(Nat)] /\ view \in [Page -> Seq(Nat)]
          /\ history \in [Page -> [pc : {"off", "asked", "answered", "done"}, messages : Seq(Nat)]]
      BY <1>1 DEF Talk!TypeOK
    <3>2. \A S : \A f \in [Page -> S], x \in S : [f EXCEPT ![p] = x] \in [Page -> S]
      OBVIOUS
    <3>3. [inbox EXCEPT ![p] = inbox'[p]] \in [Page -> Seq(Nat)]
      BY <3>1
    <3>4. [view EXCEPT ![p] = view'[p]] \in [Page -> Seq(Nat)]
      BY <3>1
    <3>5. [history EXCEPT ![p] = history'[p]]
             \in [Page -> [pc : {"off", "asked", "answered", "done"}, messages : Seq(Nat)]]
      BY <3>1, <3>2
    <3> QED
      BY <3>3, <3>4, <3>5
  <2>2. store' = store
    BY DEF OtherPages
  <2> QED
    BY <1>1, <2>1, <2>2, ChatTypeStep DEF Talk!TypeOK
<1>3. \A q \in Page : ChatFine(q)
  BY IInvForm DEF ChatParts
<1>4. ASSUME NEW q \in Page PROVE ChatFine(q)'
  <2>1. CASE q = p
    BY <2>1
  <2>2. CASE q # p
    <3>1. ChatFine(q) /\ q \in Page \ {p}
      BY <1>3, <2>2
    <3>2. /\ posted' = posted /\ inbox'[q] = inbox[q] /\ view'[q] = view[q]
          /\ history'[q] = history[q] /\ (q \in clients' <=> q \in clients)
      BY <3>1 DEF OtherPages
    <3> QED
      BY <3>1, <3>2 DEF ChatFine, Talk!OwnOnce
  <2> QED
    BY <2>1, <2>2
<1>5. (Talk!CapKeepsNewest /\ Talk!Increasing(store) /\ Talk!ToSet(store) \subseteq 1 .. Len(posted))'
  BY DEF Talk!IInv, Talk!CapKeepsNewest, Talk!All, OtherPages
<1>6. (\A q \in Page : ChatFine(q))'
  BY <1>4
<1>7. Talk!IInv' <=> ChatParts'
  BY DEF ChatParts, Talk!IInv, Talk!NewestUnderWay, Talk!ShownOnce, Talk!All, Numbered, ChatFine
<1> QED
  BY <1>2, <1>5, <1>6, <1>7 DEF ChatParts

LEMMA MountSteps ==
    ASSUME Talk!ChatTypes, Talk!IInv, Talk!Next, NEW p \in Page,
           Talk!Mount(p) \/ Talk!Open(p) \/ Talk!Reconnect(p) \/ Talk!Unmount(p) \/ Talk!StreamDrops(p)
    PROVE  Talk!IInv'
<1>1. Talk!TypeOK /\ ChatFine(p)
  BY IInvForm DEF ChatParts
<1>2. OtherPages(p)
  BY <1>1 DEF OtherPages, Talk!TypeOK, Talk!Mount, Talk!Open, Talk!Reconnect, Talk!Unmount, Talk!StreamDrops
<1>3. /\ inbox' = [inbox EXCEPT ![p] = inbox'[p]] /\ view' = [view EXCEPT ![p] = view'[p]]
      /\ history' = [history EXCEPT ![p] = history'[p]]
      /\ history'[p] \in [pc : {"off", "asked", "answered", "done"}, messages : Seq(Nat)]
      /\ inbox'[p] = inbox[p] \/ inbox'[p] = <<>>
      /\ view'[p] = view[p] \/ view'[p] = <<>>
      /\ history'[p].messages = history[p].messages \/ history'[p].messages = <<>>
      /\ p \notin clients' => p \notin clients \/ inbox'[p] = <<>>
  <2>1. CASE Talk!Mount(p)
    <3>1. history' = [history EXCEPT ![p].pc = "asked"] /\ UNCHANGED <<inbox, view, clients>>
      BY <2>1 DEF Talk!Mount
    <3> QED
      BY <1>1, <3>1 DEF Talk!TypeOK
  <2>2. CASE Talk!Open(p) \/ Talk!Reconnect(p)
    <3>1. UNCHANGED <<history, inbox, view>> /\ (p \notin clients' => p \notin clients)
      BY <2>2 DEF Talk!Open, Talk!Reconnect
    <3> QED
      BY <1>1, <3>1 DEF Talk!TypeOK
  <2>3. CASE Talk!Unmount(p)
    <3>1. /\ history' = [history EXCEPT ![p] = [pc |-> "off", messages |-> <<>>]]
          /\ inbox' = [inbox EXCEPT ![p] = <<>>] /\ view' = [view EXCEPT ![p] = <<>>]
      BY <2>3 DEF Talk!Unmount, Talk!NoHistory
    <3>2. <<>> \in Seq(Nat)
      OBVIOUS
    <3> QED
      BY <1>1, <3>1, <3>2 DEF Talk!TypeOK
  <2>4. CASE Talk!StreamDrops(p)
    <3>1. inbox' = [inbox EXCEPT ![p] = <<>>] /\ UNCHANGED <<history, view>>
      BY <2>4 DEF Talk!StreamDrops
    <3> QED
      BY <1>1, <3>1 DEF Talk!TypeOK
  <2> QED
    BY <2>1, <2>2, <2>3, <2>4
<1>4. inbox'[p] \in Seq(Nat) /\ view'[p] \in Seq(Nat)
  <2>1. inbox[p] \in Seq(Nat) /\ view[p] \in Seq(Nat) /\ <<>> \in Seq(Nat)
    BY <1>1 DEF Talk!TypeOK
  <2> QED
    BY <1>3, <2>1
<1>5. UNCHANGED posted /\ Numbered(posted, PoolOf[p]) \in Seq(Nat)
  BY <1>1, <1>2, NumberedFine DEF Talk!TypeOK, OtherPages
<1>6. ChatFine(p)'
  <2>1. /\ inbox'[p] = Talk!LastOf(Len(inbox'[p]), Numbered(posted, PoolOf[p]))
        /\ p \notin clients' => inbox'[p] = <<>>
    BY <1>1, <1>3, <1>5, EmptyFine DEF ChatFine
  <2>2. Talk!OwnOnce(p, view'[p]) /\ Talk!OwnOnce(p, history'[p].messages)
        /\ Talk!Increasing(history'[p].messages)
    BY <1>1, <1>3, <1>5, EmptyFine DEF ChatFine
  <2> QED
    BY <1>5, <2>1, <2>2 DEF ChatFine, Talk!OwnOnce
<1> QED
  BY <1>2, <1>3, <1>4, <1>6, PageStep

\* What is under way, and what a history is, are messages of the pool in order.
LEMMA NewestFine ==
    ASSUME Talk!ChatTypes, Talk!TypeOK, NEW p \in Page, NEW n \in Nat
    PROVE  LET l == Talk!LastOf(n, Numbered(posted, PoolOf[p]))
           IN  l \in Seq(Nat) /\ Talk!Increasing(l) /\ OwnSeen(posted, p, l)
<1> DEFINE a == Numbered(posted, PoolOf[p])
           l == Talk!LastOf(n, a)
<1>1. a \in Seq(Nat) /\ Talk!Increasing(a) /\ Values(a) = {i \in 1 .. Len(posted) : posted[i] = PoolOf[p]}
  BY NumberedFine DEF Talk!TypeOK
<1> HIDE DEF a
<1>2. l \in Seq(Nat) /\ Talk!Increasing(l) /\ Values(l) \subseteq Values(a)
  BY <1>1, LastOfForm, LastOfFine
<1> HIDE DEF l
<1>3. \A i, j \in 1 .. Len(l) : i < j => l[i] # l[j]
  <2>1. \A i \in 1 .. Len(l) : l[i] \in Nat
    BY <1>2
  <2> QED
    BY <1>2, <2>1 DEF Talk!Increasing
<1>4. OwnSeen(posted, p, l)
  BY <1>1, <1>2, <1>3 DEF OwnSeen
<1> QED
  BY <1>2, <1>4 DEF l, a

\* The history that the server answers with.
LEMMA HistoryIsNewest ==
    ASSUME Talk!ChatTypes, Talk!IInv, NEW p \in Page
    PROVE  Talk!ListMessages(PoolOf[p]) = Talk!LastOf(HistoryLimit, Numbered(posted, PoolOf[p]))
<1>1. PoolOf[p] \in Pool /\ HistoryLimit \in Nat /\ MaxPerPool \in Nat /\ HistoryLimit <= MaxPerPool
  BY DEF Talk!ChatTypes
<1>2. Talk!OfPool(store, PoolOf[p], posted) = Talk!LastOf(MaxPerPool, Numbered(posted, PoolOf[p]))
  BY <1>1 DEF Talk!IInv, Talk!CapKeepsNewest, Talk!All, Numbered
<1>3. Numbered(posted, PoolOf[p]) \in Seq(Nat)
  BY NumberedFine DEF Talk!IInv, Talk!TypeOK
<1> QED
  BY <1>1, <1>2, <1>3, LastOfLast DEF Talk!ListMessages

LEMMA HistorySteps ==
    ASSUME Talk!ChatTypes, Talk!IInv, Talk!Next, NEW p \in Page,
           Talk!AnswerHistory(p) \/ Talk!ShowHistory(p) \/ Talk!HistoryFails(p)
    PROVE  Talk!IInv'
<1>1. Talk!TypeOK /\ ChatFine(p)
  BY IInvForm DEF ChatParts
<1>2. OtherPages(p) /\ UNCHANGED <<posted, inbox, clients>>
  BY <1>1 DEF OtherPages, Talk!TypeOK, Talk!AnswerHistory, Talk!ShowHistory, Talk!HistoryFails
<1> DEFINE h == Talk!LastOf(HistoryLimit, Numbered(posted, PoolOf[p]))
<1>3. HistoryLimit \in Nat
  BY DEF Talk!ChatTypes
<1>4. h \in Seq(Nat) /\ Talk!Increasing(h) /\ Talk!OwnOnce(p, h)
  BY <1>1, <1>3, NewestFine, OwnOnceForm
<1> HIDE DEF h
<1>5. /\ history[p] \in [pc : {"off", "asked", "answered", "done"}, messages : Seq(Nat)]
      /\ view[p] \in Seq(Nat) /\ inbox[p] \in Seq(Nat) /\ <<>> \in Seq(Nat)
  BY <1>1 DEF Talk!TypeOK
<1>6. /\ view' = [view EXCEPT ![p] = view'[p]]
      /\ history' = [history EXCEPT ![p] = history'[p]]
      /\ history'[p] \in [pc : {"off", "asked", "answered", "done"}, messages : Seq(Nat)]
      /\ view'[p] = view[p] \/ view'[p] = history[p].messages
      /\ history'[p].messages = h \/ history'[p].messages = <<>>
  <2>1. CASE Talk!AnswerHistory(p)
    <3>1. history' = [history EXCEPT ![p] = [pc |-> "answered", messages |-> h]] /\ view' = view
      BY <2>1, HistoryIsNewest DEF Talk!AnswerHistory, h
    <3> QED
      BY <1>1, <1>4, <3>1 DEF Talk!TypeOK
  <2>2. CASE Talk!ShowHistory(p) \/ Talk!HistoryFails(p)
    <3>1. history' = [history EXCEPT ![p] = [pc |-> "done", messages |-> <<>>]]
      BY <2>2 DEF Talk!ShowHistory, Talk!HistoryFails
    <3>2. view' = [view EXCEPT ![p] = history[p].messages] \/ view' = view
      BY <2>2 DEF Talk!ShowHistory, Talk!HistoryFails
    <3>3. /\ history' = [history EXCEPT ![p] = history'[p]]
          /\ history'[p] \in [pc : {"off", "asked", "answered", "done"}, messages : Seq(Nat)]
          /\ history'[p].messages = <<>>
      BY <1>1, <1>5, <3>1 DEF Talk!TypeOK
    <3>4. /\ view' = [view EXCEPT ![p] = view'[p]]
          /\ view'[p] = view[p] \/ view'[p] = history[p].messages
      BY <1>1, <1>5, <3>2 DEF Talk!TypeOK
    <3> QED
      BY <3>3, <3>4
  <2> QED
    BY <2>1, <2>2
<1>7. view'[p] \in Seq(Nat) /\ inbox'[p] \in Seq(Nat) /\ inbox' = [inbox EXCEPT ![p] = inbox'[p]]
  BY <1>1, <1>2, <1>5, <1>6 DEF Talk!TypeOK
<1>8. ChatFine(p)'
  <2>1. Talk!OwnOnce(p, view'[p]) /\ Talk!OwnOnce(p, history'[p].messages)
        /\ Talk!Increasing(history'[p].messages)
    BY <1>1, <1>4, <1>6, <1>5, EmptyFine DEF ChatFine
  <2> QED
    BY <1>1, <1>2, <2>1 DEF ChatFine, Talk!OwnOnce
<1> QED
  BY <1>2, <1>6, <1>7, <1>8, PageStep

\* A page takes the first event that is under way to it.
LEMMA ReceiveForm ==
    ASSUME Talk!ChatTypes, Talk!IInv, NEW p \in Page, Talk!Receive(p)
    PROVE  LET k == Len(inbox[p])
               m == Head(inbox[p])
           IN  /\ k \in Nat /\ k > 0 /\ m \in Values(inbox[p])
               /\ inbox[p] \in Seq(Nat) /\ Talk!Increasing(inbox[p]) /\ OwnSeen(posted, p, inbox[p])
               /\ inbox' = [inbox EXCEPT ![p] = Tail(inbox[p])]
               /\ inbox'[p] = Talk!LastOf(k - 1, Numbered(posted, PoolOf[p]))
               /\ inbox'[p] \in Seq(Nat) /\ Len(inbox'[p]) = k - 1
               /\ \A n \in Values(inbox'[p]) : n \in Values(inbox[p]) /\ m < n
               /\ view' = [view EXCEPT ![p] =
                      IF m \in Values(view[p]) THEN view[p]
                      ELSE Talk!LastOf(ViewCap, Append(view[p], m))]
               /\ UNCHANGED <<posted, store, clients, history>>
<1> DEFINE a == Numbered(posted, PoolOf[p])
           b == inbox[p]
           k == Len(b)
           m == Head(b)
           t == Tail(b)
<1>1. Talk!TypeOK /\ ChatFine(p)
  BY IInvForm DEF ChatParts
<1>2. b \in Seq(Nat) /\ b # <<>> /\ view[p] \in Seq(Nat) /\ inbox' = [inbox EXCEPT ![p] = t]
      /\ inbox'[p] = t
  BY <1>1 DEF Talk!TypeOK, Talk!Receive
<1>3. a \in Seq(Nat)
  BY <1>1, NumberedFine DEF Talk!TypeOK
<1>4. b = Talk!LastOf(k, a)
  BY <1>1 DEF ChatFine
<1>5. Talk!Increasing(b) /\ OwnSeen(posted, p, b)
  <2>1. k \in Nat
    BY <1>2
  <2> HIDE DEF k, b
  <2> QED
    BY <1>1, <1>4, <2>1, NewestFine
<1>6. /\ view' = [view EXCEPT ![p] = IF m \in Values(view[p]) THEN view[p]
                                     ELSE Talk!LastOf(ViewCap, Append(view[p], m))]
      /\ UNCHANGED <<posted, store, clients, history>>
  <2>1. Talk!ToSet(view[p]) = Values(view[p])
    BY <1>2, ToSetIsValues
  <2>2. view' = [view EXCEPT ![p] = IF m \in Talk!ToSet(view[p]) THEN view[p]
                                     ELSE Talk!LastOf(ViewCap, Append(view[p], m))]
    BY DEF Talk!Receive
  <2> QED
    BY <2>1, <2>2 DEF Talk!Receive
<1> HIDE DEF a, b
<1>7. k \in Nat /\ k > 0 /\ k \in 1 .. k /\ m = b[1] /\ t \in Seq(Nat) /\ Len(t) = k - 1
      /\ \A i \in 1 .. k - 1 : t[i] = b[i + 1]
  BY <1>2
<1>8. k <= Len(a)
  BY <1>3, <1>4, <1>7, LastOfForm
<1>9. t = Talk!LastOf(k - 1, a)
  <2>1. k \in 1 .. Len(a) /\ Tail(Talk!LastOf(k, a)) = t
    <3>1. Len(a) \in Nat
      BY <1>3
    <3>2. k \in 1 .. Len(a)
      <4> HIDE DEF k
      <4> QED
        BY <3>1, <1>7, <1>8
    <3>3. Tail(b) = t
      OBVIOUS
    <3> QED
      BY <3>2, <3>3, <1>4
  <2> HIDE DEF k, t
  <2>2. Tail(Talk!LastOf(k, a)) = Talk!LastOf(k - 1, a)
    BY <1>3, <2>1, LastOfTail
  <2> QED
    BY <2>1, <2>2
<1>10. m \in Values(b)
  BY <1>7 DEF Values
<1>11. \A n \in Values(t) : n \in Values(b) /\ m < n
  <2> SUFFICES ASSUME NEW i \in 1 .. k - 1 PROVE t[i] \in Values(b) /\ m < t[i]
    BY <1>7 DEF Values
  <2>1. i + 1 \in 1 .. k /\ 1 \in 1 .. k /\ 1 < i + 1
    BY <1>7
  <2> QED
    BY <1>5, <1>7, <2>1 DEF Talk!Increasing, Values
<1> QED
  BY <1>2, <1>5, <1>6, <1>7, <1>9, <1>10, <1>11 DEF a, b

LEMMA ReceiveStep ==
    ASSUME Talk!ChatTypes, Talk!IInv, Talk!Next, NEW p \in Page, Talk!Receive(p)
    PROVE  Talk!IInv'
<1> DEFINE m == Head(inbox[p])
           v == IF m \in Values(view[p]) THEN view[p] ELSE Talk!LastOf(ViewCap, Append(view[p], m))
<1>1. Talk!TypeOK /\ ChatFine(p)
  BY IInvForm DEF ChatParts
<1>2. /\ m \in Values(inbox[p]) /\ OwnSeen(posted, p, inbox[p])
      /\ inbox' = [inbox EXCEPT ![p] = inbox'[p]] /\ inbox'[p] \in Seq(Nat)
      /\ inbox'[p] = Talk!LastOf(Len(inbox'[p]), Numbered(posted, PoolOf[p]))
      /\ view' = [view EXCEPT ![p] = v]
      /\ UNCHANGED <<posted, store, clients, history>>
  BY <1>1, ReceiveForm DEF Talk!TypeOK
<1>3. OtherPages(p) /\ view'[p] = v
  BY <1>1, <1>2 DEF OtherPages, Talk!TypeOK
<1>4. view[p] \in Seq(Nat) /\ OwnSeen(posted, p, view[p]) /\ ViewCap \in Nat /\ m \in Nat
  BY <1>1, <1>2, OwnOnceForm DEF ChatFine, Talk!TypeOK, Talk!ChatTypes, OwnSeen
<1>5. v \in Seq(Nat) /\ OwnSeen(posted, p, v)
  <2>1. CASE m \in Values(view[p])
    BY <1>4, <2>1
  <2>2. CASE m \notin Values(view[p])
    <3> DEFINE a == Append(view[p], m)
               l == Talk!LastOf(ViewCap, a)
    <3>1. /\ a \in Seq(Nat) /\ Values(a) = Values(view[p]) \cup {m}
          /\ \A i, j \in 1 .. Len(a) : i < j => a[i] # a[j]
      BY <1>4, <2>2, AppendFine DEF OwnSeen
    <3> HIDE DEF a
    <3>2. /\ l \in Seq(Nat) /\ Values(l) \subseteq Values(a)
          /\ \A i, j \in 1 .. Len(l) : i < j => l[i] # l[j]
      BY <1>4, <3>1, LastOfForm, LastOfFine
    <3> HIDE DEF l
    <3>3. OwnSeen(posted, p, l)
      BY <1>2, <1>4, <3>1, <3>2 DEF OwnSeen
    <3> QED
      BY <2>2, <3>2, <3>3 DEF l, a
  <2> QED
    BY <2>1, <2>2
<1> HIDE DEF v, m
<1>6. Talk!OwnOnce(p, v)
  BY <1>5, OwnOnceForm
<1>7. ChatFine(p)'
  <2>1. p \notin clients => inbox'[p] = <<>>
    BY <1>1 DEF ChatFine, Talk!Receive
  <2> QED
    BY <1>1, <1>2, <1>3, <1>6, <2>1 DEF ChatFine, Talk!OwnOnce
<1>8. history' = [history EXCEPT ![p] = history'[p]]
      /\ history'[p] \in [pc : {"off", "asked", "answered", "done"}, messages : Seq(Nat)]
  BY <1>1, <1>2 DEF Talk!TypeOK
<1> QED
  BY <1>2, <1>3, <1>5, <1>7, <1>8, PageStep

LEMMA PostStep ==
    ASSUME Talk!ChatTypes, Talk!IInv, Talk!Next, NEW pool \in Pool, Talk!PostMessage(pool)
    PROVE  Talk!IInv'
<1> DEFINE n == Len(posted) + 1
<1>1. /\ Talk!TypeOK /\ posted \in Seq(Pool) /\ store \in Seq(Nat) /\ n \in Nat
      /\ inbox \in [Page -> Seq(Nat)] /\ MaxPerPool \in Nat
  BY DEF Talk!IInv, Talk!TypeOK, Talk!ChatTypes
<1>2. /\ posted' = Append(posted, pool)
      /\ store' = Talk!Capped(Append(store, n), pool, Append(posted, pool))
      /\ inbox' = [q \in Page |-> IF q \in clients /\ PoolOf[q] = pool
                                  THEN Append(inbox[q], n) ELSE inbox[q]]
      /\ UNCHANGED <<clients, stream, history, view, drops>>
  BY DEF Talk!PostMessage
<1>3. /\ Talk!Increasing(store) /\ Values(store) \subseteq 1 .. Len(posted)
      /\ \A q \in Pool : Talk!OfPool(store, q, posted) = Talk!LastOf(MaxPerPool, Numbered(posted, q))
  BY <1>1, ToSetIsValues DEF Talk!IInv, Talk!CapKeepsNewest, Talk!All, Numbered
<1>4. /\ store' \in Seq(Nat) /\ Talk!Increasing(store') /\ Values(store') \subseteq 1 .. n
      /\ \A q \in Pool : Talk!OfPool(store', q, Append(posted, pool)) =
                             Talk!LastOf(MaxPerPool, Numbered(Append(posted, pool), q))
  BY <1>1, <1>2, <1>3, PostStore
<1>5. Len(posted') = n /\ \A i \in 1 .. Len(posted) : i \in 1 .. n /\ posted'[i] = posted[i]
  BY <1>1, <1>2
<1>6. inbox' \in [Page -> Seq(Nat)]
  BY <1>1, <1>2, AppendFine
<1>7. Talk!TypeOK'
  BY <1>1, <1>2, <1>4, <1>6, ChatTypeStep DEF Talk!TypeOK
<1>8. (Talk!CapKeepsNewest /\ Talk!Increasing(store) /\ Talk!ToSet(store) \subseteq 1 .. Len(posted))'
  <2>1. Talk!ToSet(store') = Values(store')
    BY <1>4, ToSetIsValues
  <2> QED
    BY <1>2, <1>4, <1>5, <2>1 DEF Talk!CapKeepsNewest, Talk!All, Numbered
<1>9. ASSUME NEW p \in Page PROVE ChatFine(p)'
  <2>1. ChatFine(p) /\ view[p] \in Seq(Nat) /\ history[p].messages \in Seq(Nat) /\ inbox[p] \in Seq(Nat)
    BY <1>1, IInvForm DEF ChatParts, Talk!TypeOK
  <2>2. \A s \in Seq(Nat) : Talk!OwnOnce(p, s) => OwnSeen(posted', p, s)
    <3> SUFFICES ASSUME NEW s \in Seq(Nat), Talk!OwnOnce(p, s) PROVE OwnSeen(posted', p, s)
      OBVIOUS
    <3>1. OwnSeen(posted, p, s)
      BY OwnOnceForm
    <3> QED
      BY <1>5, <3>1 DEF OwnSeen
  <2> DEFINE a == Numbered(posted, PoolOf[p])
             k == Len(inbox[p])
  <2>3. a \in Seq(Nat) /\ inbox[p] = Talk!LastOf(k, a) /\ k \in Nat
    BY <1>1, <2>1, NumberedFine DEF ChatFine
  <2>4. Numbered(posted', PoolOf[p]) = IF PoolOf[p] = pool THEN Append(a, n) ELSE a
    BY <1>1, <1>2, PostNumbers
  <2>5. inbox'[p] = Talk!LastOf(Len(inbox'[p]), Numbered(posted', PoolOf[p]))
    <3>1. CASE p \in clients /\ PoolOf[p] = pool
      <4>1. inbox'[p] = Append(inbox[p], n) /\ Len(inbox'[p]) = k + 1
        BY <1>2, <2>1, <3>1
      <4>2. Talk!LastOf(k + 1, Append(a, n)) = Append(Talk!LastOf(k, a), n)
        BY <1>1, <2>3, LastOfAppend
      <4> QED
        BY <2>3, <2>4, <3>1, <4>1, <4>2
    <3>2. CASE p \notin clients
      <4>1. inbox'[p] = <<>>
        BY <1>2, <2>1, <3>2 DEF ChatFine
      <4>2. Append(a, n) \in Seq(Nat)
        BY <1>1, <2>3
      <4> QED
        BY <2>3, <2>4, <4>1, <4>2, EmptyFine
    <3>3. CASE PoolOf[p] # pool
      BY <1>2, <2>3, <2>4, <3>3
    <3> QED
      BY <3>1, <3>2, <3>3
  <2>6. p \notin clients' => inbox'[p] = <<>>
    BY <1>2, <2>1 DEF ChatFine
  <2>7. Talk!OwnOnce(p, view[p])' /\ Talk!OwnOnce(p, history[p].messages)'
    <3>1. OwnSeen(posted', p, view[p]) /\ OwnSeen(posted', p, history[p].messages)
      BY <2>1, <2>2 DEF ChatFine
    <3>2. Talk!ToSet(view[p]) = Values(view[p])
          /\ Talk!ToSet(history[p].messages) = Values(history[p].messages)
      BY <2>1, ToSetIsValues
    <3> QED
      BY <1>2, <3>1, <3>2 DEF OwnSeen, Talk!OwnOnce
  <2> QED
    BY <1>2, <2>1, <2>5, <2>6, <2>7 DEF ChatFine
<1>10. Talk!IInv' <=> ChatParts'
  BY DEF ChatParts, Talk!IInv, Talk!NewestUnderWay, Talk!ShownOnce, Talk!All, Numbered, ChatFine
<1>11. (\A q \in Page : ChatFine(q))'
  BY <1>9
<1> QED
  BY <1>7, <1>8, <1>10, <1>11 DEF ChatParts

LEMMA ChatStutter ==
    ASSUME Talk!IInv, UNCHANGED Talk!vars
    PROVE  Talk!IInv'
BY DEF Talk!vars, Talk!IInv, Talk!TypeOK, Talk!CapKeepsNewest, Talk!All, Talk!NewestUnderWay,
       Talk!ShownOnce, Talk!OwnOnce

LEMMA ChatConsecution ==
    ASSUME Talk!ChatTypes, Talk!IInv, [Talk!Next]_(Talk!vars)
    PROVE  Talk!IInv'
<1>1. CASE Talk!Next
  BY <1>1, PostStep, MountSteps, HistorySteps, ReceiveStep DEF Talk!Next
<1>2. CASE UNCHANGED Talk!vars
  BY <1>2, ChatStutter
<1> QED
  BY <1>1, <1>2

\* In every state what is on its way to a page are the newest messages of its pool, and what
\* the store and the pages have are messages of the pool, each once (chat/hub.ts, store.ts).
THEOREM ChatInvariance == ASSUME Talk!ChatTypes PROVE Talk!Spec => []Talk!IInv
<1>1. Talk!Init => Talk!IInv
  BY ChatInitially
<1>2. Talk!IInv /\ [Talk!Next]_(Talk!vars) => Talk!IInv'
  BY ChatConsecution
<1> QED
  BY <1>1, <1>2, PTL DEF Talk!Spec

\* The store keeps the newest messages of every pool, and posting in one pool costs no other
\* a message (chat/store.ts: addMessage).
THEOREM NewestAlwaysKept == ASSUME Talk!ChatTypes PROVE Talk!Spec => []Talk!CapKeepsNewest
<1>1. Talk!IInv => Talk!CapKeepsNewest
  BY DEF Talk!IInv
<1> QED
  BY <1>1, ChatInvariance, PTL

\* A page shows messages of its own pool, each once, whichever of the history and the stream
\* brings them and however far it is behind (use-chat.ts:36).
THEOREM AlwaysShownOnce == ASSUME Talk!ChatTypes PROVE Talk!Spec => []Talk!ShownOnce
<1>1. Talk!IInv => Talk!ShownOnce
  BY DEF Talk!IInv
<1> QED
  BY <1>1, ChatInvariance, PTL

-----------------------------------------------------------------------------
(* The chat: the order *)

\* What OrderInv says of one page.
Follows(in, list) == \A m \in Values(in), n \in Values(list) : m <= n => m \in Values(list)

\* OrderInv of one page.
PageOrdered(p) ==
    /\ Talk!Increasing(view[p])
    /\ Follows(inbox[p], view[p]) /\ Follows(inbox[p], history[p].messages)

LEMMA JoinsForm ==
    ASSUME NEW p \in Page, inbox \in [Page -> Seq(Nat)], NEW s \in Seq(Nat)
    PROVE  Talk!Joins(p, s) <=> Follows(inbox[p], s)
<1>1. Talk!ToSet(s) = Values(s) /\ Talk!ToSet(inbox[p]) = Values(inbox[p])
  BY ToSetIsValues
<1> QED
  BY <1>1 DEF Talk!Joins, Follows

LEMMA OrderForm ==
    ASSUME Talk!TypeOK
    PROVE  Talk!OrderInv <=> \A p \in Page : PageOrdered(p)
<1>1. /\ inbox \in [Page -> Seq(Nat)]
      /\ \A p \in Page : view[p] \in Seq(Nat) /\ history[p].messages \in Seq(Nat)
  BY DEF Talk!TypeOK
<1>2. \A p \in Page : /\ Talk!Joins(p, view[p]) <=> Follows(inbox[p], view[p])
                      /\ Talk!Joins(p, history[p].messages) <=> Follows(inbox[p], history[p].messages)
  BY <1>1, JoinsForm
<1> QED
  BY <1>2 DEF Talk!OrderInv, PageOrdered

LEMMA OrderFormNext ==
    ASSUME Talk!TypeOK'
    PROVE  Talk!OrderInv' <=> \A p \in Page : PageOrdered(p)'
<1>1. \A p \in Page : inbox'[p] \in Seq(Nat) /\ view'[p] \in Seq(Nat) /\ history'[p].messages \in Seq(Nat)
  BY DEF Talk!TypeOK
<1>2. \A p \in Page : /\ Talk!ToSet(inbox'[p]) = Values(inbox'[p])
                      /\ Talk!ToSet(view'[p]) = Values(view'[p])
                      /\ Talk!ToSet(history'[p].messages) = Values(history'[p].messages)
  BY <1>1, ToSetIsValues
<1> QED
  BY <1>2 DEF Talk!OrderInv, PageOrdered, Talk!Joins, Follows

LEMMA NothingFollows ==
    ASSUME NEW s
    PROVE  /\ Values(<<>>) = {} /\ Follows(<<>>, s) /\ Follows(s, <<>>)
           /\ Talk!Increasing(<<>>)
<1>1. Values(<<>>) = {}
  BY DEF Values
<1> QED
  BY <1>1 DEF Follows, Talk!Increasing

\* A page's own step, when what it changes is in order afterwards.
LEMMA OrderElsewhere ==
    ASSUME Talk!TypeOK, Talk!TypeOK', Talk!OrderInv, NEW p \in Page, OtherPages(p), PageOrdered(p)'
    PROVE  Talk!OrderInv'
<1>1. ASSUME NEW q \in Page, q # p PROVE PageOrdered(q)'
  BY <1>1, OrderForm DEF PageOrdered, OtherPages
<1> QED
  BY <1>1, OrderFormNext

LEMMA OrderMount ==
    ASSUME Talk!TypeOK, Talk!TypeOK', Talk!OrderInv, NEW p \in Page,
           Talk!Mount(p) \/ Talk!Open(p) \/ Talk!Reconnect(p) \/ Talk!Unmount(p) \/ Talk!StreamDrops(p)
             \/ Talk!HistoryFails(p)
    PROVE  Talk!OrderInv'
<1>1. OtherPages(p)
  <2>1. CASE Talk!Mount(p)
    BY <2>1 DEF OtherPages, Talk!TypeOK, Talk!Mount
  <2>2. CASE Talk!Open(p)
    BY <2>2 DEF OtherPages, Talk!TypeOK, Talk!Open
  <2>3. CASE Talk!Reconnect(p)
    BY <2>3 DEF OtherPages, Talk!TypeOK, Talk!Reconnect
  <2>4. CASE Talk!Unmount(p)
    BY <2>4 DEF OtherPages, Talk!TypeOK, Talk!Unmount
  <2>5. CASE Talk!StreamDrops(p)
    BY <2>5 DEF OtherPages, Talk!TypeOK, Talk!StreamDrops
  <2>6. CASE Talk!HistoryFails(p)
    BY <2>6 DEF OtherPages, Talk!TypeOK, Talk!HistoryFails
  <2> QED
    BY <2>1, <2>2, <2>3, <2>4, <2>5, <2>6
<1>2. PageOrdered(p)
  BY OrderForm
<1>3. /\ inbox'[p] = inbox[p] \/ inbox'[p] = <<>>
      /\ view'[p] = view[p] \/ view'[p] = <<>>
      /\ history'[p].messages = history[p].messages \/ history'[p].messages = <<>>
  <2> USE DEF Talk!TypeOK
  <2>1. CASE Talk!Mount(p)
    BY <2>1 DEF Talk!Mount
  <2>2. CASE Talk!Open(p) \/ Talk!Reconnect(p)
    BY <2>2 DEF Talk!Open, Talk!Reconnect
  <2>3. CASE Talk!Unmount(p)
    BY <2>3 DEF Talk!Unmount, Talk!NoHistory
  <2>4. CASE Talk!StreamDrops(p)
    BY <2>4 DEF Talk!StreamDrops
  <2>5. CASE Talk!HistoryFails(p)
    BY <2>5 DEF Talk!HistoryFails
  <2> QED
    BY <2>1, <2>2, <2>3, <2>4, <2>5
<1>4. PageOrdered(p)'
  BY <1>2, <1>3, NothingFollows DEF PageOrdered
<1> QED
  BY <1>1, <1>4, OrderElsewhere

\* All that is under way is in the history, for it reaches back far enough.
LEMMA OrderAnswer ==
    ASSUME Talk!ChatTypes, Talk!IInv, Talk!TypeOK', Talk!KeepsUp, Talk!OrderInv, NEW p \in Page,
           Talk!AnswerHistory(p)
    PROVE  Talk!OrderInv'
<1> DEFINE a == Numbered(posted, PoolOf[p])
           h == Talk!LastOf(HistoryLimit, a)
           k == Len(inbox[p])
<1>1. Talk!TypeOK /\ ChatFine(p)
  BY IInvForm DEF ChatParts
<1>2. PageOrdered(p)
  BY <1>1, OrderForm
<1>3. OtherPages(p) /\ UNCHANGED <<inbox, view>> /\ history'[p].messages = h
  BY <1>1, HistoryIsNewest DEF OtherPages, Talk!TypeOK, Talk!AnswerHistory
<1>4. a \in Seq(Nat) /\ k \in Nat /\ HistoryLimit \in Nat /\ k <= HistoryLimit
      /\ inbox[p] = Talk!LastOf(k, a)
  BY <1>1, NumberedFine DEF Talk!TypeOK, ChatFine, Talk!ChatTypes, Talk!KeepsUp
<1> HIDE DEF a, k
<1>5. h \in Seq(Nat) /\ Talk!LastOf(k, h) = inbox[p]
  BY <1>4, LastOfForm, LastOfLast
<1> HIDE DEF h
<1>6. Values(inbox[p]) \subseteq Values(h)
  BY <1>4, <1>5, LastOfFine
<1>7. PageOrdered(p)'
  BY <1>2, <1>3, <1>6 DEF PageOrdered, Follows
<1> QED
  BY <1>1, <1>3, <1>7, OrderElsewhere

LEMMA OrderShow ==
    ASSUME Talk!ChatTypes, Talk!IInv, Talk!TypeOK', Talk!OrderInv, NEW p \in Page, Talk!ShowHistory(p)
    PROVE  Talk!OrderInv'
<1>1. Talk!TypeOK /\ ChatFine(p)
  BY IInvForm DEF ChatParts
<1>2. PageOrdered(p)
  BY <1>1, OrderForm
<1>3. OtherPages(p) /\ UNCHANGED inbox /\ view'[p] = history[p].messages /\ history'[p].messages = <<>>
  BY <1>1 DEF OtherPages, Talk!TypeOK, Talk!ShowHistory
<1>4. PageOrdered(p)'
  BY <1>1, <1>2, <1>3, NothingFollows DEF PageOrdered, ChatFine
<1> QED
  BY <1>1, <1>3, <1>4, OrderElsewhere

\* An event that the page does not show yet is newer than all it shows.
LEMMA OrderReceive ==
    ASSUME Talk!ChatTypes, Talk!IInv, Talk!TypeOK', Talk!OrderInv, NEW p \in Page, Talk!Receive(p)
    PROVE  Talk!OrderInv'
<1> DEFINE m == Head(inbox[p])
           v == view[p]
           a == Append(v, m)
           l == Talk!LastOf(ViewCap, a)
<1>1. Talk!TypeOK
  BY DEF Talk!IInv
<1>2. PageOrdered(p)
  BY <1>1, OrderForm
<1>3. /\ m \in Values(inbox[p]) /\ m \in Nat /\ inbox[p] \in Seq(Nat)
      /\ \A n \in Values(inbox'[p]) : n \in Values(inbox[p]) /\ n \in Nat /\ m < n
      /\ view'[p] = (IF m \in Values(v) THEN v ELSE l)
      /\ UNCHANGED <<posted, store, clients, history>>
  <2>1. inbox[p] \in Seq(Nat) /\ view \in [Page -> Seq(Nat)]
    BY <1>1 DEF Talk!TypeOK
  <2>2. \A n \in Values(inbox[p]) : n \in Nat
    <3> SUFFICES ASSUME NEW i \in 1 .. Len(inbox[p]) PROVE inbox[p][i] \in Nat
      BY DEF Values
    <3> QED
      BY <2>1
  <2>3. /\ m \in Values(inbox[p])
        /\ \A n \in Values(inbox'[p]) : n \in Values(inbox[p]) /\ m < n
        /\ view' = [view EXCEPT ![p] = IF m \in Values(view[p]) THEN view[p]
                                       ELSE Talk!LastOf(ViewCap, Append(view[p], m))]
        /\ UNCHANGED <<posted, store, clients, history>>
    BY ReceiveForm
  <2> HIDE DEF m
  <2>4. view'[p] = (IF m \in Values(v) THEN v ELSE l)
    BY <2>1, <2>3
  <2>5. m \in Nat /\ \A n \in Values(inbox'[p]) : n \in Nat
    BY <2>2, <2>3
  <2> QED
    BY <2>1, <2>3, <2>4, <2>5
<1>4. OtherPages(p)
  BY <1>1 DEF OtherPages, Talk!TypeOK, Talk!Receive
<1>5. v \in Seq(Nat) /\ ViewCap \in Nat /\ \A n \in Values(v) : n \in Nat
  <2>1. v \in Seq(Nat)
    BY <1>1 DEF Talk!TypeOK
  <2> HIDE DEF v
  <2> QED
    BY <2>1 DEF Talk!ChatTypes, Values
<1> HIDE DEF m
<1>6. Follows(inbox'[p], history[p].messages)
  BY <1>2, <1>3 DEF PageOrdered, Follows
<1>7. Talk!Increasing(view'[p]) /\ Follows(inbox'[p], view'[p])
  <2>1. CASE m \in Values(v)
    BY <1>2, <1>3, <2>1 DEF PageOrdered, Follows
  <2>2. CASE m \notin Values(v)
    <3>1. \A n \in Values(v) : n < m
      BY <1>2, <1>3, <1>5, <2>2 DEF PageOrdered, Follows
    <3>2. a \in Seq(Nat) /\ Talk!Increasing(a) /\ Values(a) = Values(v) \cup {m}
      BY <1>2, <1>3, <1>5, <3>1, AppendFine DEF PageOrdered
    <3> HIDE DEF a, v
    <3>3. Talk!Increasing(l) /\ Values(l) \subseteq Values(v) \cup {m}
      BY <1>5, <3>2, LastOfFine
    <3> HIDE DEF l
    <3>4. \A n \in Values(l) : n \in Nat /\ n <= m
      <4> SUFFICES ASSUME NEW n \in Values(l) PROVE n \in Nat /\ n <= m
        OBVIOUS
      <4>1. n \in Values(v) \/ n = m
        BY <3>3
      <4>2. m \in Nat
        BY <1>3
      <4>3. n \in Values(v) => n \in Nat /\ n < m
        BY <1>5, <3>1
      <4> QED
        BY <4>1, <4>2, <4>3
    <3>5. Follows(inbox'[p], l)
      <4> SUFFICES ASSUME NEW i \in Values(inbox'[p]), NEW n \in Values(l), i <= n
                   PROVE  i \in Values(l)
        BY DEF Follows
      <4>1. i \in Nat /\ m < i
        BY <1>3
      <4>2. n \in Nat /\ n <= m
        BY <3>4
      <4>3. m \in Nat
        BY <1>3
      <4> QED
        BY <4>1, <4>2, <4>3
    <3> QED
      BY <1>3, <2>2, <3>3, <3>5
  <2> QED
    BY <2>1, <2>2
<1>8. PageOrdered(p)'
  BY <1>3, <1>6, <1>7 DEF PageOrdered
<1> QED
  BY <1>1, <1>4, <1>8, OrderElsewhere

LEMMA OrderPost ==
    ASSUME Talk!ChatTypes, Talk!IInv, Talk!TypeOK', Talk!OrderInv, NEW pool \in Pool,
           Talk!PostMessage(pool)
    PROVE  Talk!OrderInv'
<1> DEFINE n == Len(posted) + 1
<1>1. Talk!TypeOK /\ n \in Nat
  BY DEF Talk!IInv, Talk!TypeOK
<1> SUFFICES ASSUME NEW p \in Page PROVE PageOrdered(p)'
  BY OrderFormNext
<1>2. PageOrdered(p) /\ ChatFine(p)
  BY <1>1, OrderForm, IInvForm DEF ChatParts
<1>3. /\ view[p] \in Seq(Nat) /\ history[p].messages \in Seq(Nat) /\ inbox[p] \in Seq(Nat)
      /\ UNCHANGED <<view, history>>
      /\ inbox'[p] = inbox[p] \/ inbox'[p] = Append(inbox[p], n)
  BY <1>1 DEF Talk!TypeOK, Talk!PostMessage
<1>4. Values(inbox'[p]) \subseteq Values(inbox[p]) \cup {n}
  BY <1>1, <1>3, AppendFine
<1>5. \A i \in Values(view[p]) \cup Values(history[p].messages) : i \in Nat /\ i < n
  <2>1. OwnSeen(posted, p, view[p]) /\ OwnSeen(posted, p, history[p].messages)
    BY <1>2, <1>3, OwnOnceForm DEF ChatFine
  <2> QED
    BY <1>1, <2>1 DEF OwnSeen
<1>6. Follows(inbox'[p], view[p]) /\ Follows(inbox'[p], history[p].messages)
  BY <1>1, <1>2, <1>4, <1>5 DEF PageOrdered, Follows
<1> QED
  BY <1>2, <1>3, <1>6 DEF PageOrdered

LEMMA OrderConsecution ==
    ASSUME Talk!ChatTypes, Talk!IInv, Talk!IInv', Talk!KeepsUp, Talk!OrderInv, [Talk!Next]_(Talk!vars)
    PROVE  Talk!OrderInv'
<1>1. Talk!TypeOK /\ Talk!TypeOK'
  BY DEF Talk!IInv
<1>2. CASE Talk!Next
  BY <1>1, <1>2, OrderPost, OrderMount, OrderAnswer, OrderShow, OrderReceive DEF Talk!Next
<1>3. CASE UNCHANGED Talk!vars
  BY <1>3 DEF Talk!vars, Talk!OrderInv, Talk!Joins
<1> QED
  BY <1>2, <1>3

LEMMA OrderInitially == ASSUME Talk!ChatTypes, Talk!Init PROVE Talk!OrderInv
<1>1. Talk!TypeOK
  BY ChatInitially DEF Talk!IInv
<1>2. ASSUME NEW p \in Page PROVE PageOrdered(p)
  <2>1. inbox[p] = <<>> /\ view[p] = <<>>
    BY DEF Talk!Init
  <2> QED
    BY <2>1, NothingFollows DEF PageOrdered
<1> QED
  BY <1>1, <1>2, OrderForm

\* While no page falls behind further than its history reaches, every page shows the
\* messages in the order in which the server took them, over reconnections, and
\* whether the history or the stream brings them (use-chat.ts:27, :36).
THEOREM OrderAlwaysKept == ASSUME Talk!ChatTypes PROVE Talk!Spec => Talk!OrderKept
<1>1. Talk!Init => Talk!OrderInv
  BY OrderInitially
<1>2. Talk!IInv /\ Talk!IInv' /\ Talk!KeepsUp /\ Talk!OrderInv /\ [Talk!Next]_(Talk!vars) => Talk!OrderInv'
  BY OrderConsecution
<1>3. Talk!OrderInv => Talk!InOrder
  BY DEF Talk!OrderInv, Talk!InOrder
<1> QED
  BY <1>1, <1>2, <1>3, ChatInvariance, PTL DEF Talk!Spec, Talk!OrderKept

=============================================================================
