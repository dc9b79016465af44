--------------------------- MODULE MirroredChain ---------------------------
(***************************************************************************)
(* The mirror of the server beside the betting program: what the parts     *)
(* that write the mirror and those that send transactions share.  The API  *)
(* writes a record and a pick before their accounts exist, the worker      *)
(* copies a result after the program has it, and nothing makes the two     *)
(* agree but the order in which this is done.                              *)
(***************************************************************************)
EXTENDS Mirror

CONSTANTS
    Key, Treasury, Terms, OutcomeArg, CountArg, Endowment, MaxTime \* of ClubPool

VARIABLES
    config, pool, entry, vault, wallet, now  \* of ClubPool

Chain == INSTANCE ClubPool

chainVars == <<config, pool, entry, vault, wallet, now>>

ASSUME ChainArguments == Chain!ArgumentTypes

\* The wallet of the host signs create_pool and enter_pool, built from the
\* record and the host's pick, in one transaction: both take effect or neither.
CreateWithEntry(p) ==
    /\ record[p] # NoRecord
    /\ LET host == record[p].hostWallet
           terms == record[p].terms
       IN  /\ pick[p][host] # NoPick
           /\ config # Chain!NoConfig
           /\ pool[p] = Chain!NoPool
           /\ Chain!ValidTerms(terms)
           /\ pick[p][host].prediction < terms.outcome_count
           /\ wallet[host] >= terms.stake_amount
           /\ pool' = [pool EXCEPT ![p] =
                [Chain!OpenAccount(host, terms) EXCEPT
                    !.entry_count = 1, !.total_pool = terms.stake_amount]]
           /\ entry' = [entry EXCEPT ![p][host] =
                [prediction |-> pick[p][host].prediction,
                 stake_paid |-> terms.stake_amount, claimed |-> FALSE]]
           /\ vault' = [vault EXCEPT ![p] = @ + terms.stake_amount]
           /\ wallet' = [wallet EXCEPT ![host] = @ - terms.stake_amount]
    /\ UNCHANGED <<config, now>>

-----------------------------------------------------------------------------
(* Properties of the two together *)

MirrorTypes ==
    /\ record \in [Pool -> Record(Terms, OutcomeArg) \cup {NoRecord}]
    /\ pick \in [Pool -> [Member -> Pick(OutcomeArg) \cup {NoPick}]]

\* What the server and its members may do on the chain: the audited program, or
\* two of its instructions in one transaction.
AuditedStep == Chain!AuditedNext \/ \E p \in Pool : CreateWithEntry(p)

\* The mirror says a pool is over only when it is, and how: members are shown
\* and offered claims by the mirror alone.  Two tasks that settle or cancel the
\* same pool must not copy their own idea of the result.
ChainStatus == [resolved |-> "Resolved", voided |-> "Voided", cancelled |-> "Cancelled"]
NeverAhead(p) ==
    record[p].status \in Settled =>
        /\ pool[p].status = ChainStatus[record[p].status]
        /\ record[p].status # "cancelled" =>
            /\ record[p].winningOutcome = pool[p].winning_outcome
            /\ record[p].winnerCount = pool[p].winner_count
            /\ record[p].shareAmount = pool[p].share_amount
MirrorNeverAhead == \A p \in Pool : NeverAhead(p)

\* The verdict on a paid pick is the one its entry account can claim by: won
\* picks can claim winnings, refunded ones a refund, and lost ones neither; the
\* vault covers every claim to come; and no entrant's pick is left without a
\* verdict once the mirror has the result.
VerdictsHold ==
    \A p \in Pool : \A m \in Chain!Entrants(p) :
        LET verdict == pick[p][m].status
            wins == entry[p][m].prediction = pool[p].winning_outcome
            Covers(amount) == m \in Chain!Claimed(p) \/ vault[p] >= amount
        IN  /\ verdict = "won" =>
                pool[p].status = "Resolved" /\ wins /\ Covers(pool[p].share_amount)
            /\ verdict = "lost" => pool[p].status = "Resolved" /\ ~wins
            /\ verdict = "refunded" =>
                pool[p].status \in {"Voided", "Cancelled"} /\ Covers(entry[p][m].stake_paid)
            /\ record[p].status \in Settled => verdict # "active"

-----------------------------------------------------------------------------
(* What is inductive of them, pool by pool *)

\* What is on the chain was in the mirror first: a pool's account needs a record,
\* an entry the pick it was built from.
MirrorBehind(p) ==
    /\ pool[p] # Chain!NoPool => record[p] # NoRecord /\ config # Chain!NoConfig
    /\ \A m \in Member :
        /\ pick[p][m] # NoPick => record[p] # NoRecord
        /\ m \in Chain!Entrants(p) =>
            pick[p][m] # NoPick /\ pick[p][m].prediction = entry[p][m].prediction

\* A share is recorded only of a pool that pays it: MarkVoided does not clear it.
ShareHolds(p) ==
    record[p] # NoRecord /\ pool[p].status # "Resolved" => record[p].shareAmount = 0

\* VerdictsHold of every pick, with or without an entry: a verdict is given only
\* once the pool is terminal, so no entry joins a pick that has one.
PickHolds(p, m) ==
    pick[p][m] # NoPick =>
        LET verdict == pick[p][m].status
            wins == pick[p][m].prediction = pool[p].winning_outcome
        IN  /\ verdict = "won" => pool[p].status = "Resolved" /\ wins
            /\ verdict = "lost" => pool[p].status = "Resolved" /\ ~wins
            /\ verdict = "refunded" => pool[p].status \in {"Voided", "Cancelled"}
            /\ record[p].status \in Settled => verdict # "active"

MirrorOf(p) ==
    /\ MirrorBehind(p)
    /\ NeverAhead(p)
    /\ ShareHolds(p)
    /\ \A m \in Member : PickHolds(p, m)

\* The ledger of the program, the coverage of its winners, and the mirror.
JointInv ==
    /\ Chain!IInv /\ Chain!WinnersCovered
    /\ MirrorTypes
    /\ \A p \in Pool : MirrorOf(p)

\* From the lock on, the entries of a pool can be counted once and for all.
PastLock(p) == pool[p].status \notin {"Absent", "Open"}

=============================================================================
