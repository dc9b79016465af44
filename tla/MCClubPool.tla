----------------------------- MODULE MCClubPool -----------------------------
(* Small instances of ClubPool for TLC. *)
EXTENDS ClubPoolEscrow, TLC

CONSTANTS m1, m2, m3, k1, k2, t1, t2

\* A stake and a rake whose division leaves a rest for two winners of three
\* (total 21, rake 2, share 9, rest 1); and the terms create_pool refuses.
OddTerms == [outcome_count |-> 2, stake_amount |-> 7, rake_bps |-> 1000,
             max_entries |-> 3, deadline |-> 1]
PairTerms == [outcome_count |-> 2, stake_amount |-> 3, rake_bps |-> 500,
              max_entries |-> 2, deadline |-> 2]
BadTerms ==
    {[OddTerms EXCEPT !.outcome_count = 1], [OddTerms EXCEPT !.stake_amount = 0],
     [OddTerms EXCEPT !.rake_bps = 1500], [OddTerms EXCEPT !.max_entries = 1],
     [OddTerms EXCEPT !.deadline = 0]}

MCTerms == {OddTerms, PairTerms} \cup BadTerms
MCOneTerms == {OddTerms} \cup BadTerms
MCOutcomeArg == {0, 1, 2}
MCCountArg == 0 .. 4

MemberSymmetry == Permutations({m1, m2, m3})
=============================================================================
