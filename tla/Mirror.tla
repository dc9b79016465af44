------------------------------- MODULE Mirror -------------------------------
(***************************************************************************)
(* The server's local mirror of the pools (src/server/src/pools/store.ts): *)
(* one JSON file of pool records and of the picks members made, cached in  *)
(* memory and rewritten synchronously by every operation, so each          *)
(* operation is one action and survives a crash of the process.            *)
(*                                                                         *)
(* The mirror is not the chain: it is written by the API before any        *)
(* transaction is signed, by clients that report their signatures, and by  *)
(* the settlement worker after the fact.                                   *)
(***************************************************************************)
EXTENDS Integers, FiniteSets

CONSTANTS Pool, Member

VARIABLES
    record,  \* the PoolRecord of each pool id
    pick     \* the EntryRecord of each pool id and wallet

mirrorVars == <<record, pick>>

RecordStatus == {"open", "locked", "resolved", "voided", "cancelled"}
Settled == {"resolved", "voided", "cancelled"}
PickStatus == {"active", "won", "lost", "refunded"}

NoRecord == [status |-> "none"]
NoPick == [status |-> "none"]
NoOutcome == -1

Record(terms, outcomes) ==
    [status : RecordStatus, hostWallet : Member, terms : terms, onChain : BOOLEAN,
     winningOutcome : outcomes \cup {NoOutcome}, winnerCount : Nat, shareAmount : Nat]
Pick(outcomes) == [status : PickStatus, prediction : outcomes, paid : BOOLEAN]

MirrorInit ==
    /\ record = [p \in Pool |-> NoRecord]
    /\ pick = [p \in Pool |-> [m \in Member |-> NoPick]]

Pickers(p) == {m \in Member : pick[p][m] # NoPick}

-----------------------------------------------------------------------------
(* Operations of the API *)

\* parseCreatePool: what is asked of the terms of a pool.
ParseCreatePool(terms, time) ==
    /\ terms.outcome_count >= 2
    /\ terms.stake_amount > 0
    /\ terms.rake_bps <= 1000
    /\ terms.max_entries >= 2
    /\ terms.deadline > time

\* The record and the pick as they are first written, by the app's pages: no
\* transaction is signed yet, and they send no createTxSignature or
\* enterTxSignature, which the routes would store (routes.ts:115, 247).
NewRecord(host, terms) ==
    [status |-> "open", hostWallet |-> host, terms |-> terms,
     onChain |-> FALSE, winningOutcome |-> NoOutcome,
     winnerCount |-> 0, shareAmount |-> 0]

NewPick(prediction) == [status |-> "active", prediction |-> prediction, paid |-> FALSE]

\* createPool.  The id is a fresh UUID; an id that a client sends and that is in
\* use already is left out.
CreateRecord(host, p, terms, time) ==
    /\ record[p] = NoRecord
    /\ ParseCreatePool(terms, time)
    /\ record' = [record EXCEPT ![p] = NewRecord(host, terms)]
    /\ UNCHANGED pick

\* Mutant: a member may pick again.
CreateEntryAgain(m, p, prediction, time) ==
    /\ record[p].status = "open"
    /\ time < record[p].terms.deadline
    /\ prediction < record[p].terms.outcome_count
    /\ pick' = [pick EXCEPT ![p][m] = NewPick(prediction)]
    /\ UNCHANGED record

\* Mutant: only picks that are paid take a seat.
CreateEntryPastPicks(m, p, prediction, time) ==
    /\ record[p].status = "open"
    /\ time < record[p].terms.deadline
    /\ Cardinality({n \in Pickers(p) : pick[p][n].paid}) < record[p].terms.max_entries
    /\ prediction < record[p].terms.outcome_count
    /\ pick[p][m] = NoPick
    /\ pick' = [pick EXCEPT ![p][m] = NewPick(prediction)]
    /\ UNCHANGED record

\* createEntry: the pick is recorded before anything is paid.
CreateEntry(m, p, prediction, time) ==
    /\ record[p].status = "open"
    /\ time < record[p].terms.deadline
    /\ Cardinality(Pickers(p)) < record[p].terms.max_entries
    /\ prediction < record[p].terms.outcome_count
    /\ pick[p][m] = NoPick
    /\ pick' = [pick EXCEPT ![p][m] = NewPick(prediction)]
    /\ UNCHANGED record

\* recordTxSignature "create": the host's pick, if there is one, is marked as
\* paid too, for it is usually bundled with the creation.
RecordCreateTx(p) ==
    /\ record[p] # NoRecord
    /\ record' = [record EXCEPT ![p].onChain = TRUE]
    /\ pick' = [pick EXCEPT ![p] =
            [m \in Member |-> IF m = record[p].hostWallet /\ pick[p][m] # NoPick
                              THEN [pick[p][m] EXCEPT !.paid = TRUE]
                              ELSE pick[p][m]]]

\* recordTxSignature "enter".
RecordEnterTx(m, p) ==
    /\ pick[p][m] # NoPick
    /\ pick' = [pick EXCEPT ![p][m].paid = TRUE]
    /\ UNCHANGED record

-----------------------------------------------------------------------------
(* Operations of the settlement worker *)

\* The sweep's work list, and settleFixture's for the pools of one fixture.
ActivePools == {p \in Pool : record[p].status \in {"open", "locked"}}

\* None of the four operations looks at the status it overwrites.
MarkLocked(p) ==
    /\ record' = [record EXCEPT ![p].status = "locked"]
    /\ UNCHANGED pick

\* updateEntryStatuses: only picks still active change, whether paid or not.
SettlePicks(p, verdict) ==
    pick' = [pick EXCEPT ![p] =
        [m \in Member |-> IF pick[p][m].status = "active"
                          THEN [pick[p][m] EXCEPT !.status = verdict[m]]
                          ELSE pick[p][m]]]

Refunds == [m \in Member |-> "refunded"]

MarkResolved(p, outcome, winners, share) ==
    /\ record' = [record EXCEPT ![p].status = "resolved",
                                ![p].winningOutcome = outcome,
                                ![p].winnerCount = winners,
                                ![p].shareAmount = share]
    /\ SettlePicks(p, [m \in Pickers(p) |->
                        IF pick[p][m].prediction = outcome THEN "won" ELSE "lost"])

MarkVoided(p, outcome) ==
    /\ record' = [record EXCEPT ![p].status = "voided",
                                ![p].winningOutcome = outcome,
                                ![p].winnerCount = 0]
    /\ SettlePicks(p, Refunds)

MarkCancelled(p) ==
    /\ record' = [record EXCEPT ![p].status = "cancelled"]
    /\ SettlePicks(p, Refunds)

\* syncTerminal, of the older worker: the status and nothing else.
SyncTerminal(p, status) ==
    /\ record' = [record EXCEPT ![p].status = status]
    /\ UNCHANGED pick

=============================================================================
