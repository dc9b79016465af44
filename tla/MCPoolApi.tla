----------------------------- MODULE MCPoolApi -----------------------------
(***************************************************************************)
(* The values of PoolApi for the runs of TLC.  A pool is created by the    *)
(* app's page, which always sends the host's pick, or by any client of the *)
(* API, which may leave it out or send one that the API refuses.           *)
(***************************************************************************)
EXTENDS PoolApi, TLC

CONSTANTS m1, m2, m3, p1

VARIABLE client

\* Two seats; a rake of 5 percent that rounds to nothing; the deadline is the
\* first tick.
MCTerms == {[outcome_count |-> 2, stake_amount |-> 3, rake_bps |-> 500,
             max_entries |-> 2, deadline |-> 1]}
MCOutcomeArg == 0 .. 1
MCCountArg == 0 .. 3

AnyClient == INSTANCE PoolApi WITH HostAlwaysBets <- FALSE, OutcomeArg <- 0 .. 2

ApiInit == client \in {"page", "any"} /\ Init
ApiNext ==
    /\ UNCHANGED client
    /\ \/ client = "page" /\ Next
       \/ client = "any" /\ AnyClient!Next
ApiSpec == ApiInit /\ [][ApiNext]_<<client, vars>>

Symmetry == Permutations(Member)

\* The mirror calls paid what is on the chain, when the pools are created by the
\* page (a creation without the host's pick marks a later one as paid), and
\* unpaid what is not; and RecordInv.
PaymentsKnown ==
    /\ UnpaidIsUnpaid /\ RecordInv
    /\ client = "page" => FlagsTrue /\ PageBets /\ PageInv

=============================================================================
