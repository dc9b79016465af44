--------------------------- MODULE ClubPoolEscrow ---------------------------
(***************************************************************************)
(* The betting program under an audited resolver implements the escrow of  *)
(* EqualShareEscrow: the refinement mapping.                               *)
(***************************************************************************)
EXTENDS ClubPool

Owed(p) ==
    IF pool[p].status = "Resolved"
    THEN Winners(p, pool[p].winning_outcome) \ Claimed(p)
    ELSE Entrants(p) \ Claimed(p)

Stage(p) ==
    CASE pool[p].status = "Absent" -> "unopened"
      [] pool[p].status \in {"Open", "Locked"} -> "collecting"
      [] OTHER -> "paying"

Unit(p) ==
    CASE pool[p].status = "Absent" -> 0
      [] pool[p].status = "Resolved" -> pool[p].share_amount
      [] OTHER -> pool[p].stake_amount

Escrow == INSTANCE EqualShareEscrow WITH
    Stake <- {terms.stake_amount : terms \in Terms},
    stage <- [p \in Pool |-> Stage(p)],
    unit <- [p \in Pool |-> Unit(p)],
    creditors <- [p \in Pool |-> Owed(p)],
    held <- vault

\* Every step of the program with an audited resolver is a step of the escrow
\* or leaves it alone: create_pool opens it, enter_pool deposits, cancel_pool
\* and a resolve_pool without winners give back, a resolve_pool with winners
\* awards, the two claims pay.
ImplementsEscrow == Escrow!Spec

=============================================================================
