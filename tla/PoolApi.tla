------------------------------ MODULE PoolApi ------------------------------
(***************************************************************************)
(* The pools as their members see and use them: the routes of              *)
(* src/server/src/pools/routes.ts, the transactions chain/txbuilder.ts     *)
(* builds, the pages that have them signed (web app/fixtures, app/pools,   *)
(* app/me) and the chain they end on.                                      *)
(*                                                                         *)
(* A button of a page starts a mutation: a request to the API, which       *)
(* writes the mirror and answers a transaction or none, the wallet's       *)
(* signature, and a report of the signature that is sent once and whose    *)
(* failure is swallowed (reportTx(...).catch).  Between the three anything *)
(* may happen, and a page may be closed at any time.  The settlement       *)
(* worker appears by its effect; its steps are those of Settlement.        *)
(***************************************************************************)
EXTENDS MirroredChain, Functions

CONSTANTS
    ServerKey, ServerTreasury,
    HostAlwaysBets,  \* hostPrediction is sent, as the page does
    MaxLost          \* reports that may be lost

VARIABLES
    collected,   \* the members whose pick has a claimTxSignature
    tx,          \* the mutations of every member's pages
    lost

vars == <<record, pick, config, pool, entry, vault, wallet, now, collected, tx, lost>>

ASSUME PoolApiTypes ==
    /\ ServerKey \in Key /\ ServerTreasury \in Treasury
    /\ HostAlwaysBets \in BOOLEAN /\ MaxLost \in Nat

Init ==
    /\ MirrorInit
    /\ pool = [p \in Pool |-> Chain!NoPool]
    /\ entry = [p \in Pool |-> [m \in Member |-> Chain!NoEntry]]
    /\ vault = [p \in Pool |-> 0]
    /\ wallet = [a \in Chain!Account |-> IF a \in Member THEN Endowment ELSE 0]
    /\ now = 0
    /\ config = [admin |-> ServerKey, resolver_authority |-> ServerKey, treasury |-> ServerTreasury]
    /\ collected = [p \in Pool |-> {}]
    /\ tx = [m \in Member |-> {}]
    /\ lost = 0

-----------------------------------------------------------------------------
(* Mutations.  A button is disabled while its mutation is under way. *)

Tx(by, kind, p, bundled) ==
    [by |-> by, kind |-> kind, pool |-> p, bundled |-> bundled, at |-> "wallet"]

Free(m, by) == \A t \in tx[m] : t.by # by

\* tryBuild: no blockhash, no transaction; the pages then leave it at the record.
Offers(m, t) ==
    \/ tx' = [tx EXCEPT ![m] = @ \cup {t}]
    \/ UNCHANGED tx

\* POST /pools, from the page of a fixture.  The record is written before the
\* host's pick is checked.
HostPool(m, p, terms, prediction) ==
    /\ record[p] = NoRecord /\ Free(m, "createPool")
    /\ ParseCreatePool(terms, now)
    /\ record' = [record EXCEPT ![p] = NewRecord(m, terms)]
    /\ \/ ~HostAlwaysBets /\ UNCHANGED pick /\ Offers(m, Tx("createPool", "create", p, FALSE))
       \/ /\ prediction < terms.outcome_count
          /\ pick' = [pick EXCEPT ![p][m] = NewPick(prediction)]
          /\ Offers(m, Tx("createPool", "create", p, TRUE))
       \/ prediction >= terms.outcome_count /\ UNCHANGED <<pick, tx>>
    /\ UNCHANGED <<chainVars, collected, lost>>

\* POST /pools/:id/entries: a transaction is offered when the pool is known to
\* be on-chain.
Enter(m, p, prediction) ==
    /\ Free(m, "enterPool")
    /\ CreateEntry(m, p, prediction, now)
    /\ \/ record[p].onChain /\ Offers(m, Tx("enterPool", "enter", p, FALSE))
       \/ ~record[p].onChain /\ UNCHANGED tx
    /\ UNCHANGED <<chainVars, collected, lost>>

HostMayCreate(m, p) ==
    /\ record[p] # NoRecord /\ Free(m, "finishCreate")
    /\ m = record[p].hostWallet /\ ~record[p].onChain
    /\ record[p].status = "open" /\ now < record[p].terms.deadline

\* Mutant: the host's pick is left out of the new transaction.
FinishCreateBare(m, p) ==
    /\ HostMayCreate(m, p)
    /\ Offers(m, Tx("finishCreate", "create", p, FALSE))
    /\ UNCHANGED <<mirrorVars, chainVars, collected, lost>>

\* Mutant: whoever opens the page may create the pool.
FinishCreateByAnyone(m, p) ==
    /\ record[p] # NoRecord /\ Free(m, "finishCreate") /\ ~record[p].onChain
    /\ record[p].status = "open" /\ now < record[p].terms.deadline
    /\ Offers(m, Tx("finishCreate", "create", p, pick[p][m] # NoPick /\ ~pick[p][m].paid))
    /\ UNCHANGED <<mirrorVars, chainVars, collected, lost>>

\* POST /pools/:id/create-tx
FinishCreate(m, p) ==
    /\ HostMayCreate(m, p)
    /\ Offers(m, Tx("finishCreate", "create", p, pick[p][m] # NoPick /\ ~pick[p][m].paid))
    /\ UNCHANGED <<mirrorVars, chainVars, collected, lost>>

\* POST /pools/:id/entries/tx
FinishPayment(m, p) ==
    /\ Free(m, "finishPayment")
    /\ pick[p][m] # NoPick /\ ~pick[p][m].paid
    /\ record[p].status = "open" /\ record[p].onChain
    /\ Offers(m, Tx("finishPayment", "enter", p, FALSE))
    /\ UNCHANGED <<mirrorVars, chainVars, collected, lost>>

\* Mutant: a refund is offered to picks that the settlement left active.
PayoutButtonActive(m, p) ==
    IF pick[p][m] = NoPick \/ m \in collected[p] THEN "none"
    ELSE IF record[p].status = "resolved" /\ pick[p][m].status = "won" THEN "claim"
    ELSE IF record[p].status \in {"voided", "cancelled"} /\ pick[p][m].status = "active" THEN "refund"
    ELSE "none"

\* What the page of the pool offers a member.
PayoutButton(m, p) ==
    IF pick[p][m] = NoPick \/ m \in collected[p] THEN "none"
    ELSE IF record[p].status = "resolved" /\ pick[p][m].status = "won" THEN "claim"
    ELSE IF record[p].status \in {"voided", "cancelled"} THEN "refund"
    ELSE "none"

\* POST /pools/:id/claim and /refund: whether a transaction is answered.
ClaimHandler(m, p, kind) ==
    /\ pick[p][m] # NoPick
    /\ record[p].status \in (IF kind = "claim" THEN {"resolved"} ELSE {"voided", "cancelled"})
    /\ record[p].onChain

Payout(m, p) ==
    LET kind == PayoutButton(m, p)
    IN  /\ Free(m, "payout") /\ kind # "none"
        /\ ClaimHandler(m, p, kind)
        /\ Offers(m, Tx("payout", kind, p, FALSE))
        /\ UNCHANGED <<mirrorVars, chainVars, collected, lost>>

-----------------------------------------------------------------------------
(* The wallet and the chain *)

Execute(m, t) ==
    \/ t.kind = "create" /\ t.bundled /\ CreateWithEntry(t.pool)
    \/ t.kind = "create" /\ ~t.bundled /\ Chain!CreatePool(m, t.pool, record[t.pool].terms)
    \/ t.kind = "enter" /\ Chain!EnterPool(m, t.pool, pick[t.pool][m].prediction)
    \/ t.kind = "claim" /\ Chain!ClaimWinnings(m, t.pool)
    \/ t.kind = "refund" /\ Chain!ClaimRefund(m, t.pool)

\* signAndSendBase64 resolves: the transaction is on the chain.
WalletSends(m, t) ==
    /\ t \in tx[m] /\ t.at = "wallet"
    /\ Execute(m, t)
    /\ tx' = [tx EXCEPT ![m] = (@ \ {t}) \cup {[t EXCEPT !.at = "report"]}]
    /\ UNCHANGED <<mirrorVars, collected, lost>>

\* The member refuses, the blockhash expires or the chain does.
WalletFails(m, t) ==
    /\ t \in tx[m] /\ t.at = "wallet"
    /\ tx' = [tx EXCEPT ![m] = @ \ {t}]
    /\ UNCHANGED <<mirrorVars, chainVars, collected, lost>>

\* POST /pools/:id/tx, with the signature of a transaction that the chain confirmed,
\* which is what the pages send.  The route does not look it up: from another client
\* it would store anything.
Report(m, t) ==
    /\ t \in tx[m] /\ t.at = "report"
    /\ tx' = [tx EXCEPT ![m] = @ \ {t}]
    /\ \/ t.kind = "create" /\ RecordCreateTx(t.pool) /\ UNCHANGED collected
       \/ t.kind = "enter" /\ RecordEnterTx(m, t.pool) /\ UNCHANGED collected
       \/ /\ t.kind \in {"claim", "refund"}
          /\ collected' = [collected EXCEPT ![t.pool] = @ \cup {m}]
          /\ UNCHANGED mirrorVars
    /\ UNCHANGED <<chainVars, lost>>

\* The page is closed before the answer of the wallet, or the request fails.
ReportLost(m, t) ==
    /\ t \in tx[m] /\ t.at = "report"
    /\ lost < MaxLost /\ lost' = lost + 1
    /\ tx' = [tx EXCEPT ![m] = @ \ {t}]
    /\ UNCHANGED <<mirrorVars, chainVars, collected>>

-----------------------------------------------------------------------------
(* The settlement worker, by its effect *)

Tick == Chain!Tick /\ UNCHANGED <<mirrorVars, collected, tx, lost>>

WorkerLocks(p) ==
    /\ record[p].status = "open" /\ record[p].terms.deadline <= now
    /\ MarkLocked(p)
    /\ UNCHANGED <<chainVars, collected, tx, lost>>

\* After the deadline the match is played or abandoned.
WorkerSends(p) ==
    /\ record[p].status \in {"open", "locked"} /\ record[p].terms.deadline <= now
    /\ \/ Chain!LockPool(ServerKey, p)
       \/ Chain!CancelPool(ServerKey, p)
       \/ \E w \in OutcomeArg :
            Chain!ResolvePool(ServerKey, p, w, Chain!AuditedCount(p, w), ServerTreasury)
    /\ UNCHANGED <<mirrorVars, collected, tx, lost>>

\* Mutant: the winners are counted, and the share worked out, from the picks.
WorkerMarksLocal(p) ==
    /\ record[p].status \in {"open", "locked"}
    /\ \/ /\ pool[p].status = "Resolved"
          /\ LET w == pool[p].winning_outcome
                 n == Cardinality({m \in Pickers(p) : pick[p][m].prediction = w})
             IN  MarkResolved(p, w, n, Chain!Share(p, n))
       \/ pool[p].status = "Voided" /\ MarkVoided(p, pool[p].winning_outcome)
       \/ pool[p].status = "Cancelled" /\ MarkCancelled(p)
    /\ UNCHANGED <<chainVars, collected, tx, lost>>

WorkerMarks(p) ==
    /\ record[p].status \in {"open", "locked"}
    /\ \/ /\ pool[p].status = "Resolved"
          /\ MarkResolved(p, pool[p].winning_outcome, pool[p].winner_count, pool[p].share_amount)
       \/ pool[p].status = "Voided" /\ MarkVoided(p, pool[p].winning_outcome)
       \/ pool[p].status = "Cancelled" /\ MarkCancelled(p)
    /\ UNCHANGED <<chainVars, collected, tx, lost>>

Next ==
    \/ Tick
    \/ \E p \in Pool :
         \/ WorkerLocks(p) \/ WorkerSends(p) \/ WorkerMarks(p)
         \/ \E m \in Member :
              \/ \E terms \in Terms, x \in OutcomeArg : HostPool(m, p, terms, x)
              \/ \E x \in OutcomeArg : Enter(m, p, x)
              \/ FinishCreate(m, p) \/ FinishPayment(m, p) \/ Payout(m, p)
    \/ \E m \in Member : \E t \in tx[m] :
         WalletSends(m, t) \/ WalletFails(m, t) \/ Report(m, t) \/ ReportLost(m, t)

Spec == Init /\ [][Next]_vars

-----------------------------------------------------------------------------
(* The page of a member *)

\* viewerEntryFor, and isSettled of the page.
ViewerStatus(m, p) == pick[p][m].status

SettledFor(m, p) ==
    \/ ViewerStatus(m, p) \in {"won", "lost", "refunded"}
    \/ record[p].status \in {"voided", "cancelled"}

\* The net and the unclaimed money of "My record".
NetAt(m, p) ==
    CASE ViewerStatus(m, p) = "won" -> record[p].shareAmount - record[p].terms.stake_amount
      [] ViewerStatus(m, p) = "lost" -> -record[p].terms.stake_amount
      [] OTHER -> 0
Net(m) == SumFunction([p \in {q \in Pool : SettledFor(m, q)} |-> NetAt(m, p)])

Unclaimed(m) ==
    SumFunction([p \in {q \in Pool : ViewerStatus(m, q) = "won" /\ m \notin collected[q]} |->
                    record[p].shareAmount])

-----------------------------------------------------------------------------
(* Properties *)

Mutation ==
    [by : {"createPool", "finishCreate", "enterPool", "finishPayment", "payout"},
     kind : {"create", "enter", "claim", "refund"}, pool : Pool, bundled : BOOLEAN,
     at : {"wallet", "report"}]

\* The variables hold what their operations write.
TypeOK ==
    /\ Chain!TypeOK
    /\ MirrorTypes
    /\ collected \in [Pool -> SUBSET Member]
    /\ tx \in [Member -> SUBSET Mutation]
    /\ lost \in 0 .. MaxLost

\* What the mirror was told of the chain is so: a pool that is said to be
\* on-chain is, a pick that is said to be paid has its stake in the vault, and
\* a payout that is said to be made was made (store.ts:185 marks the host's
\* pick by the signature of the creation).
FlagsTrue ==
    \A p \in Pool :
        /\ record[p] # NoRecord => (record[p].onChain => pool[p] # Chain!NoPool)
        /\ \A m \in Pickers(p) : pick[p][m].paid => m \in Chain!Entrants(p)
        /\ collected[p] \subseteq Chain!Claimed(p)

\* Whoever has a pick that is not paid yet finds a seat when paying: the mirror
\* never takes more picks than the pool on the chain has room for.
SeatKept ==
    \A p \in Pool : pool[p] # Chain!NoPool =>
        \A m \in Pickers(p) \ Chain!Entrants(p) : pool[p].entry_count < pool[p].max_entries

\* No report is on its way.
Reported == \A m \in Member : \A t \in tx[m] : t.at # "report"

\* What the chain owes a member.
Owed(m, p) ==
    IF m \notin Chain!Entrants(p) \ Chain!Claimed(p) THEN 0
    ELSE CASE pool[p].status = "Resolved" ->
                IF m \in Chain!Winners(p, pool[p].winning_outcome) THEN pool[p].share_amount ELSE 0
           [] pool[p].status \in {"Voided", "Cancelled"} -> entry[p][m].stake_paid
           [] OTHER -> 0

\* Money the chain owes a member can be collected in the app: once the pool is
\* settled in the mirror, the page has the button and the API answers it with
\* a transaction (routes.ts:304 refuses pools it thinks are not on-chain).
CollectOffered ==
    \A p \in Pool, m \in Member :
        record[p].status \in Settled /\ Owed(m, p) > 0 /\ Reported =>
            PayoutButton(m, p) # "none" /\ ClaimHandler(m, p, PayoutButton(m, p))

\* Every pool of the member is settled on the page.
AllSettled(m) == \A p \in Pool : pick[p][m] # NoPick => SettledFor(m, p)
AllPaid(m) == \A p \in Pool : pick[p][m] # NoPick => m \in Chain!Entrants(p)

Total(m) == SumFunction([p \in Pool |-> Owed(m, p)])

\* "My record" counts money: the net is what the member has won or lost on the
\* chain, claims to come included.
\* The code does not keep this: README, "Where the code and its documents disagree".
NetIsReal ==
    \A m \in Member : AllSettled(m) => Net(m) = wallet[m] + Total(m) - Endowment

\* For a member who paid, the record is right and what it calls unclaimed is
\* still owed.
RecordIsReal ==
    \A m \in Member : AllSettled(m) /\ AllPaid(m) =>
        /\ Net(m) = wallet[m] + Total(m) - Endowment
        /\ Reported /\ (\A p \in Pool : record[p].status = "resolved") => Unclaimed(m) = Total(m)

\* A pick whose page says that its stake has not been paid yet is not paid
\* (page.tsx:328), unless the report is on its way.
UnpaidIsUnpaid ==
    \A p \in Pool, m \in Member :
        /\ record[p].status = "open" /\ m \in Pickers(p) /\ ~pick[p][m].paid
        /\ Reported
        => m \notin Chain!Entrants(p)

-----------------------------------------------------------------------------
(* The inductive invariant *)

\* A creation is the host's, and what is to be paid has its pick: the API builds
\* transactions of nothing else.
Built(m, t) ==
    /\ t.kind = "create" => record[t.pool] # NoRecord /\ record[t.pool].hostWallet = m
    /\ t.kind = "enter" \/ t.bundled => pick[t.pool][m] # NoPick

\* A signature that is to be reported has had its effect, for good.
TookEffect(m, t) ==
    /\ t.kind = "create" => pool[t.pool] # Chain!NoPool
    /\ t.kind = "enter" \/ t.bundled => m \in Chain!Entrants(t.pool)
    /\ t.kind \in {"claim", "refund"} => m \in Chain!Claimed(t.pool)

\* A page has one mutation of a kind under way.
MutationsHold(m) ==
    /\ \A t, u \in tx[m] : t.by = u.by => t = u
    /\ \A t \in tx[m] :
        /\ t.bundled => t.kind = "create"
        /\ Built(m, t)
        /\ t.at = "report" => TookEffect(m, t)

\* The pool on the chain has the seats and the stake of its record, the picks fit into
\* it, and neither onChain nor a claim's signature is recorded too early.
PoolAgrees(p) ==
    /\ record[p] # NoRecord =>
        /\ Cardinality(Pickers(p)) <= record[p].terms.max_entries
        /\ record[p].onChain => pool[p] # Chain!NoPool
    /\ pool[p] # Chain!NoPool =>
        /\ pool[p].max_entries = record[p].terms.max_entries
        /\ pool[p].stake_amount = record[p].terms.stake_amount
    /\ pool[p].status \in {"Resolved", "Voided"} => pool[p].winning_outcome \in OutcomeArg
    /\ pool[p].status = "Voided" => pool[p].winner_count = 0 /\ pool[p].share_amount = 0
    /\ collected[p] \subseteq Chain!Claimed(p)

\* What is on the chain is known to the mirror, or its report is on its way.
Reporting(m, p) ==
    \E t \in tx[m] : t.at = "report" /\ t.pool = p /\ (t.kind = "enter" \/ t.bundled)
ChainKnown(p) ==
    /\ pool[p] # Chain!NoPool =>
        \/ record[p].onChain
        \/ \E m \in Member : \E t \in tx[m] :
                t.at = "report" /\ t.pool = p /\ t.kind = "create"
    /\ \A m \in Chain!Entrants(p) : pick[p][m].paid \/ Reporting(m, p)

IInv ==
    /\ TypeOK
    /\ JointInv
    /\ \A m \in Member : MutationsHold(m)
    /\ \A p \in Pool : PoolAgrees(p)
    /\ lost = 0 => \A p \in Pool : ChainKnown(p)

\* What "My record" rests on: a verdict comes with the result, whatever was claimed is
\* recorded as collected or its report is on the way, and a wallet has what the
\* pools moved.
VerdictRecorded(p) ==
    \A m \in Pickers(p) : pick[p][m].status # "active" => record[p].status \in Settled
ClaimKnown(p) ==
    \A m \in Chain!Claimed(p) \ collected[p] :
        \E t \in tx[m] : t.at = "report" /\ t.pool = p /\ t.kind \in {"claim", "refund"}
RecordInv ==
    /\ \A p \in Pool : VerdictRecorded(p)
    /\ lost = 0 => \A p \in Pool : ClaimKnown(p)
    /\ Chain!FundsConserved

\* What the page of a fixture adds to it: a host has a pick from the start, so no
\* pool is created without its host's entry.
PageBets == HostAlwaysBets /\ \A terms \in Terms, x \in OutcomeArg : x < terms.outcome_count
PageInv ==
    /\ \A p \in Pool :
        /\ record[p] # NoRecord => pick[p][record[p].hostWallet] # NoPick
        /\ \A m \in Pickers(p) : pick[p][m].paid => m \in Chain!Entrants(p)
    /\ \A m \in Member : \A t \in tx[m] :
        t.kind = "create" => t.bundled \/ m \in Chain!Entrants(t.pool)

=============================================================================
