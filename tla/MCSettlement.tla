---------------------------- MODULE MCSettlement ----------------------------
(* Small instances of Settlement for TLC. *)
EXTENDS Settlement, TLC

CONSTANTS m1, m2, p1, p2, s0, s1, t1, t2

\* Two equal stakes of 3 and a rake that rounds to nothing, the deadline the first
\* tick; and terms that the API refuses.
GoodTerms == [outcome_count |-> 2, stake_amount |-> 3, rake_bps |-> 500,
              max_entries |-> 2, deadline |-> 1]
MCTerms == {GoodTerms, [GoodTerms EXCEPT !.rake_bps = 1500],
            [GoodTerms EXCEPT !.deadline = 0]}
MCOutcomeArg == {0, 1}
MCCountArg == 0 .. 2

\* Every pool is about the one fixture; a score decides between two outcomes.
\* The second pool's market reads the same scores the other way round.
MCFixture == {"f"}
MCFixtureOf == [p \in Pool |-> "f"]
MCScore == {s0, s1}
\* By the symmetry of the two outcomes one score shows as much for picks of both.
OneScore == {s0}
MCOutcomeOf ==
    [p \in Pool |-> [s \in Score |-> IF (p = p1) = (s = s0) THEN 0 ELSE 1]]

Symmetry == Permutations({m1, m2}) \cup Permutations({t1, t2})
=============================================================================
