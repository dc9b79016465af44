-------------------------- MODULE EqualShareEscrow --------------------------
(***************************************************************************)
(* What a pool of the betting program promises its members, with no        *)
(* mention of statuses, counters or outcomes: an escrow of equal stakes    *)
(* that is closed once, either by giving every stake back or by awarding   *)
(* one equal share to some of the depositors, and from then on pays each   *)
(* creditor exactly once.  At any time it holds what it owes.              *)
(***************************************************************************)
EXTENDS Integers, FiniteSets

CONSTANTS
    Pool,
    Member,
    Stake   \* the stakes a pool may be opened with

VARIABLES
    stage,      \* "unopened", "collecting" or "paying"
    unit,       \* what each creditor of the pool is owed
    creditors,  \* the members the pool owes
    held        \* the tokens the pool holds

vars == <<stage, unit, creditors, held>>

Init ==
    /\ stage = [p \in Pool |-> "unopened"]
    /\ unit = [p \in Pool |-> 0]
    /\ creditors = [p \in Pool |-> {}]
    /\ held = [p \in Pool |-> 0]

Open(p, stake) ==
    /\ stage[p] = "unopened"
    /\ stage' = [stage EXCEPT ![p] = "collecting"]
    /\ unit' = [unit EXCEPT ![p] = stake]
    /\ UNCHANGED <<creditors, held>>

Deposit(p, m) ==
    /\ stage[p] = "collecting"
    /\ m \notin creditors[p]
    /\ creditors' = [creditors EXCEPT ![p] = @ \cup {m}]
    /\ held' = [held EXCEPT ![p] = @ + unit[p]]
    /\ UNCHANGED <<stage, unit>>

GiveBack(p) ==
    /\ stage[p] = "collecting"
    /\ stage' = [stage EXCEPT ![p] = "paying"]
    /\ UNCHANGED <<unit, creditors, held>>

\* The winners share what is held; the operator keeps at most a tenth of it
\* and a rest of less than one token per winner.
Award(p, winners, share) ==
    LET paidOut == share * Cardinality(winners)
        kept == held[p] - paidOut
    IN  /\ stage[p] = "collecting"
        /\ 0 <= kept
        /\ 10 * kept < held[p] + 10 * Cardinality(winners)
        /\ stage' = [stage EXCEPT ![p] = "paying"]
        /\ unit' = [unit EXCEPT ![p] = share]
        /\ creditors' = [creditors EXCEPT ![p] = winners]
        /\ held' = [held EXCEPT ![p] = paidOut]

Pay(p, m) ==
    /\ stage[p] = "paying"
    /\ m \in creditors[p]
    /\ creditors' = [creditors EXCEPT ![p] = @ \ {m}]
    /\ held' = [held EXCEPT ![p] = @ - unit[p]]
    /\ UNCHANGED <<stage, unit>>

Next ==
    \E p \in Pool :
        \/ \E stake \in Stake : Open(p, stake)
        \/ \E m \in Member : Deposit(p, m) \/ Pay(p, m)
        \/ GiveBack(p)
        \/ \E winners \in (SUBSET creditors[p]) \ {{}}, share \in 0 .. held[p] :
               Award(p, winners, share)

Spec == Init /\ [][Next]_vars

\* The escrow's promise: it holds exactly what it owes, so that no creditor is
\* ever refused and nothing is left behind when the last one has been paid.
HoldsWhatItOwes ==
    \A p \in Pool : held[p] = unit[p] * Cardinality(creditors[p])

=============================================================================
