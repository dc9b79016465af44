------------------------------ MODULE ClubPool ------------------------------
(***************************************************************************)
(* The on-chain program club_pool (src/betting-program): pools of equal    *)
(* stakes held in a vault, an entry account per member and pool, and the   *)
(* singleton config that names the admin, the resolver key and the         *)
(* treasury.                                                               *)
(*                                                                         *)
(* Every instruction is one action: Solana executes an instruction         *)
(* atomically, and an instruction that fails a constraint, a require! or a *)
(* token transfer leaves no trace, so failing calls are stuttering steps.  *)
(* Account addresses are PDAs of the pool id and the member, hence         *)
(* functions over Pool and Member.  Rent, mints and bumps are left out.    *)
(***************************************************************************)
EXTENDS Integers, FiniteSets, Functions

CONSTANTS
    Pool,        \* pool ids
    Member,      \* wallets that host pools and enter them
    Key,         \* keypairs of the operator: admin and resolver
    Treasury,    \* token accounts the config may name as treasury
    Terms,       \* argument records the hosts pass to create_pool
    OutcomeArg,  \* u16 arguments: predictions and winning outcomes
    CountArg,    \* u32 arguments: reported winner counts
    Endowment,   \* tokens every member starts with
    MaxTime      \* bound on the clock

U16Max == 65535
U16 == 0 .. U16Max

\* The program's instruction arguments have their Rust types, and any number of
\* members is a possible winner count; nothing else is assumed of them:
\* create_pool itself rejects bad terms.
ASSUME ArgumentTypes ==
    /\ IsFiniteSet(Member)
    /\ Terms \subseteq [outcome_count : U16, stake_amount : Nat,
                        rake_bps : U16, max_entries : Nat, deadline : Nat]
    /\ OutcomeArg \subseteq U16
    /\ CountArg \subseteq Nat
    /\ 0 .. Cardinality(Member) \subseteq CountArg
    /\ Endowment \in Nat
    /\ MaxTime \in Nat

VARIABLES
    config,  \* the Config account
    pool,    \* the Pool account of each id
    entry,   \* the Entry account of each pool id and member
    vault,   \* tokens in the vault of each pool
    wallet,  \* tokens of every member and treasury
    now      \* the cluster's clock

vars == <<config, pool, entry, vault, wallet, now>>

-----------------------------------------------------------------------------
(* Accounts *)

UNRESOLVED == U16Max   \* no outcome index: outcome_count is a u16
BPS == 10000
MaxRakeBps == 1000

Account == Member \cup Treasury
Signer == Member \cup Key

NoConfig == [initialized |-> FALSE]
Config == [admin : Signer, resolver_authority : Signer, treasury : Treasury]

PoolStatus == {"Open", "Locked", "Resolved", "Voided", "Cancelled"}
Terminal == {"Resolved", "Voided", "Cancelled"}

NoPool == [status |-> "Absent"]
PoolAccount ==
    [status : PoolStatus, authority : Member, deadline : Nat,
     outcome_count : U16, stake_amount : Nat, rake_bps : U16, max_entries : Nat,
     entry_count : Nat, total_pool : Nat,
     winning_outcome : U16, winner_count : Nat, share_amount : Nat]

NoEntry == [initialized |-> FALSE]
Entry == [prediction : U16, stake_paid : Nat, claimed : BOOLEAN]

Entrants(p) == {m \in Member : entry[p][m] # NoEntry}
Claimed(p) == {m \in Entrants(p) : entry[p][m].claimed}
Winners(p, w) == {m \in Entrants(p) : entry[p][m].prediction = w}

\* Mutant: every entry counts as a winner's.
AuditedCountOfAll(p, w) == Cardinality(Entrants(p))

\* Mutant: one winner is missed.
AuditedCountButOne(p, w) == Cardinality(Winners(p, w)) - 1

\* What a reader of the public entry accounts counts for outcome w.
AuditedCount(p, w) == Cardinality(Winners(p, w))

Init ==
    /\ config = NoConfig
    /\ pool = [p \in Pool |-> NoPool]
    /\ entry = [p \in Pool |-> [m \in Member |-> NoEntry]]
    /\ vault = [p \in Pool |-> 0]
    /\ wallet = [a \in Account |-> IF a \in Member THEN Endowment ELSE 0]
    /\ now = 0

-----------------------------------------------------------------------------
(* Config *)

InitializeConfig(signer, resolver, treasury) ==
    /\ config = NoConfig
    /\ config' = [admin |-> signer, resolver_authority |-> resolver,
                  treasury |-> treasury]
    /\ UNCHANGED <<pool, entry, vault, wallet, now>>

UpdateConfig(signer, resolver, treasury) ==
    /\ config # NoConfig
    /\ config.admin = signer
    /\ config' = [config EXCEPT !.resolver_authority = resolver,
                                !.treasury = treasury]
    /\ UNCHANGED <<pool, entry, vault, wallet, now>>

IsResolver(signer) ==
    /\ config # NoConfig
    /\ config.resolver_authority = signer

-----------------------------------------------------------------------------
(* Pool lifecycle *)

\* Mutant: the cap on the rake is not checked.
ValidTermsAnyRake(terms) ==
    /\ terms.outcome_count >= 2
    /\ terms.stake_amount > 0
    /\ terms.max_entries >= 2
    /\ terms.deadline > now

ValidTerms(terms) ==
    /\ terms.outcome_count >= 2
    /\ terms.stake_amount > 0
    /\ terms.rake_bps <= MaxRakeBps
    /\ terms.max_entries >= 2
    /\ terms.deadline > now

\* The account create_pool writes.
OpenAccount(host, terms) ==
    [status |-> "Open", authority |-> host, deadline |-> terms.deadline,
     outcome_count |-> terms.outcome_count, stake_amount |-> terms.stake_amount,
     rake_bps |-> terms.rake_bps, max_entries |-> terms.max_entries,
     entry_count |-> 0, total_pool |-> 0, winning_outcome |-> UNRESOLVED,
     winner_count |-> 0, share_amount |-> 0]

CreatePool(host, p, terms) ==
    /\ config # NoConfig
    /\ pool[p] = NoPool
    /\ ValidTerms(terms)
    /\ pool' = [pool EXCEPT ![p] = OpenAccount(host, terms)]
    /\ UNCHANGED <<config, entry, vault, wallet, now>>

EnterPool(m, p, prediction) ==
    /\ pool[p].status = "Open"
    /\ entry[p][m] = NoEntry
    /\ now < pool[p].deadline
    /\ pool[p].entry_count < pool[p].max_entries
    /\ prediction < pool[p].outcome_count
    /\ wallet[m] >= pool[p].stake_amount
    /\ wallet' = [wallet EXCEPT ![m] = @ - pool[p].stake_amount]
    /\ vault' = [vault EXCEPT ![p] = @ + pool[p].stake_amount]
    /\ pool' = [pool EXCEPT ![p] =
            [@ EXCEPT !.entry_count = pool[p].entry_count + 1,
                      !.total_pool = pool[p].total_pool + pool[p].stake_amount]]
    /\ entry' = [entry EXCEPT ![p][m] =
            [prediction |-> prediction, stake_paid |-> pool[p].stake_amount,
             claimed |-> FALSE]]
    /\ UNCHANGED <<config, now>>

LockPool(signer, p) ==
    /\ IsResolver(signer)
    /\ pool[p].status = "Open"
    /\ pool' = [pool EXCEPT ![p].status = "Locked"]
    /\ UNCHANGED <<config, entry, vault, wallet, now>>

\* Mutant: a pool of any status may be cancelled.
CancelPoolAnyStatus(signer, p) ==
    /\ pool[p].status # "Absent"
    /\ IsResolver(signer) \/ (config # NoConfig /\ signer = pool[p].authority)
    /\ pool' = [pool EXCEPT ![p].status = "Cancelled"]
    /\ UNCHANGED <<config, entry, vault, wallet, now>>

CancelPool(signer, p) ==
    /\ pool[p].status \in {"Open", "Locked"}
    /\ IsResolver(signer) \/ (config # NoConfig /\ signer = pool[p].authority)
    /\ pool' = [pool EXCEPT ![p].status = "Cancelled"]
    /\ UNCHANGED <<config, entry, vault, wallet, now>>

\* resolve_pool's arithmetic: the rake, what is left for n winners, each
\* winner's share, and what is swept to the treasury with the division's rest.
Rake(p) == (pool[p].total_pool * pool[p].rake_bps) \div BPS
Distributable(p) == pool[p].total_pool - Rake(p)
Share(p, n) == Distributable(p) \div n
Sweep(p, n) == Rake(p) + (Distributable(p) - Share(p, n) * n)

MayResolve(signer, p, w, n, treasury) ==
    /\ IsResolver(signer)
    /\ treasury = config.treasury
    /\ pool[p].status = "Locked"
    /\ w < pool[p].outcome_count
    /\ n <= pool[p].entry_count

ResolveToVoid(signer, p, w, n, treasury) ==
    /\ MayResolve(signer, p, w, n, treasury)
    /\ n = 0
    /\ pool' = [pool EXCEPT ![p] =
            [@ EXCEPT !.status = "Voided", !.winning_outcome = w,
                      !.winner_count = 0, !.share_amount = 0]]
    /\ UNCHANGED <<config, entry, vault, wallet, now>>

ResolveToWinners(signer, p, w, n, treasury) ==
    /\ MayResolve(signer, p, w, n, treasury)
    /\ n > 0
    /\ vault[p] >= Sweep(p, n)
    /\ vault' = [vault EXCEPT ![p] = @ - Sweep(p, n)]
    /\ wallet' = [wallet EXCEPT ![treasury] = @ + Sweep(p, n)]
    /\ pool' = [pool EXCEPT ![p] =
            [@ EXCEPT !.status = "Resolved", !.winning_outcome = w,
                      !.winner_count = n, !.share_amount = Share(p, n)]]
    /\ UNCHANGED <<config, entry, now>>

ResolvePool(signer, p, w, n, treasury) ==
    \/ ResolveToVoid(signer, p, w, n, treasury)
    \/ ResolveToWinners(signer, p, w, n, treasury)

-----------------------------------------------------------------------------
(* Payouts *)

\* Mutant: the payout is not taken from the vault.
PayWithoutDebit(p, m, amount) ==
    /\ vault[p] >= amount
    /\ wallet' = [wallet EXCEPT ![m] = @ + amount]
    /\ entry' = [entry EXCEPT ![p][m].claimed = TRUE]
    /\ UNCHANGED <<config, pool, vault, now>>

PayFromVault(p, m, amount) ==
    /\ vault[p] >= amount
    /\ vault' = [vault EXCEPT ![p] = @ - amount]
    /\ wallet' = [wallet EXCEPT ![m] = @ + amount]
    /\ entry' = [entry EXCEPT ![p][m].claimed = TRUE]
    /\ UNCHANGED <<config, pool, now>>

\* Mutant: the prediction is not compared with the outcome.
ClaimWinningsByAll(m, p) ==
    /\ pool[p].status = "Resolved"
    /\ m \in Entrants(p) \ Claimed(p)
    /\ PayFromVault(p, m, pool[p].share_amount)

\* Mutant: an entry may claim again.
ClaimWinningsTwice(m, p) ==
    /\ pool[p].status = "Resolved"
    /\ m \in Entrants(p)
    /\ entry[p][m].prediction = pool[p].winning_outcome
    /\ PayFromVault(p, m, pool[p].share_amount)

ClaimWinnings(m, p) ==
    /\ pool[p].status = "Resolved"
    /\ m \in Entrants(p) \ Claimed(p)
    /\ entry[p][m].prediction = pool[p].winning_outcome
    /\ PayFromVault(p, m, pool[p].share_amount)

\* Mutant: an entry may be refunded again.
ClaimRefundTwice(m, p) ==
    /\ pool[p].status \in {"Voided", "Cancelled"}
    /\ m \in Entrants(p)
    /\ PayFromVault(p, m, entry[p][m].stake_paid)

ClaimRefund(m, p) ==
    /\ pool[p].status \in {"Voided", "Cancelled"}
    /\ m \in Entrants(p) \ Claimed(p)
    /\ PayFromVault(p, m, entry[p][m].stake_paid)

\* The clock of the cluster moves on; MaxTime bounds it.
Tick ==
    /\ now < MaxTime
    /\ now' = now + 1
    /\ UNCHANGED <<config, pool, entry, vault, wallet>>

-----------------------------------------------------------------------------
(* Specification *)

ConfigNext ==
    \E signer \in Key, resolver \in Key, treasury \in Treasury :
        \/ InitializeConfig(signer, resolver, treasury)
        \/ UpdateConfig(signer, resolver, treasury)

PoolNext(p) ==
    \/ \E host \in Member, terms \in Terms : CreatePool(host, p, terms)
    \/ \E m \in Member, x \in OutcomeArg : EnterPool(m, p, x)
    \/ \E signer \in Signer : LockPool(signer, p) \/ CancelPool(signer, p)
    \/ \E m \in Member : ClaimWinnings(m, p) \/ ClaimRefund(m, p)

ResolveNext(p) ==
    \E signer \in Signer, w \in OutcomeArg, n \in CountArg, t \in Treasury :
        ResolvePool(signer, p, w, n, t)

Next ==
    \/ Tick
    \/ ConfigNext
    \/ \E p \in Pool : PoolNext(p) \/ ResolveNext(p)

Spec == Init /\ [][Next]_vars

\* The program takes winner_count on trust.  The audited specification is the
\* program under a resolver that reports what the entry accounts say: what the
\* settlement worker of the server has to guarantee.
AuditedResolve(p) ==
    \E signer \in Signer, w \in OutcomeArg, t \in Treasury :
        ResolvePool(signer, p, w, AuditedCount(p, w), t)

AuditedNext ==
    \/ Tick
    \/ ConfigNext
    \/ \E p \in Pool : PoolNext(p) \/ AuditedResolve(p)

AuditedSpec == Init /\ [][AuditedNext]_vars

-----------------------------------------------------------------------------
(* Properties *)

\* Every account holds data of its Rust type.
TypeOK ==
    /\ config \in Config \cup {NoConfig}
    /\ pool \in [Pool -> PoolAccount \cup {NoPool}]
    /\ entry \in [Pool -> [Member -> Entry \cup {NoEntry}]]
    /\ vault \in [Pool -> Nat]
    /\ wallet \in [Account -> Nat]
    /\ now \in Nat

\* The counters of a pool agree with its entry accounts: entry_count is the
\* number of entries, total_pool the sum of their equal stakes, no entry is
\* claimed before the pool is terminal, and an absent pool has no entries and
\* an empty vault.  resolve_pool bounds winner_count and computes the rake from
\* these counters without looking at an entry (resolve_pool.rs).
EntryLedgerOf(p) ==
    /\ pool[p].status = "Absent" => Entrants(p) = {} /\ vault[p] = 0
    /\ pool[p].status # "Absent" =>
        /\ pool[p].entry_count = Cardinality(Entrants(p))
        /\ pool[p].total_pool = pool[p].stake_amount * pool[p].entry_count
        /\ \A m \in Entrants(p) : entry[p][m].stake_paid = pool[p].stake_amount
    /\ pool[p].status \in {"Open", "Locked"} => Claimed(p) = {}
EntryLedger == \A p \in Pool : EntryLedgerOf(p)

\* Until a pool is resolved, and for ever if it is voided or cancelled, the
\* vault holds the stake of every entry that was not refunded: claim_refund
\* never runs short ("the vault holds the full sum of stakes and every entrant
\* refunds exactly stake_paid", claim_refund.rs).
RefundableOf(p) ==
    pool[p].status \in {"Open", "Locked", "Voided", "Cancelled"} =>
        vault[p] = pool[p].stake_amount * Cardinality(Entrants(p) \ Claimed(p))
Refundable == \A p \in Pool : RefundableOf(p)

\* Whatever count the resolver reports, a resolved pool pays out winner_count
\* shares and no more, only to entries on the winning outcome, and each once.
ShareBudgetOf(p) ==
    pool[p].status = "Resolved" =>
        /\ Claimed(p) \subseteq Winners(p, pool[p].winning_outcome)
        /\ vault[p] + pool[p].share_amount * Cardinality(Claimed(p))
             = pool[p].share_amount * pool[p].winner_count
ShareBudget == \A p \in Pool : ShareBudgetOf(p)

\* The treasury never takes more than the rake, at most a tenth of the stakes,
\* and a rest smaller than one token per winner: rounding never moves a stake.
RakeBoundedOf(p) ==
    pool[p].status = "Resolved" =>
        LET paidOut == pool[p].share_amount * pool[p].winner_count
            taken   == pool[p].total_pool - paidOut
        IN  /\ Rake(p) <= taken
            /\ taken < Rake(p) + pool[p].winner_count
            /\ 10 * Rake(p) <= pool[p].total_pool
RakeBounded == \A p \in Pool : RakeBoundedOf(p)

\* The inductive invariant: the ledger above, the bounds create_pool enforced
\* on the terms (without them the sweep might exceed the pool) and the types.
TermsKeptOf(p) ==
    pool[p].status # "Absent" =>
        /\ pool[p].outcome_count >= 2
        /\ pool[p].rake_bps <= MaxRakeBps
        /\ pool[p].entry_count <= pool[p].max_entries
PoolInvOf(p) ==
    /\ TermsKeptOf(p)
    /\ EntryLedgerOf(p)
    /\ RefundableOf(p)
    /\ ShareBudgetOf(p)
    /\ RakeBoundedOf(p)
IInv == TypeOK /\ \A p \in Pool : PoolInvOf(p)

\* What a pool has moved into the wallet of a member, the stake being a loss.
Moved(m, p) ==
    LET paid == IF m \notin Claimed(p) THEN 0
                ELSE IF pool[p].status = "Resolved" THEN pool[p].share_amount
                ELSE entry[p][m].stake_paid
    IN  IF m \in Entrants(p) THEN paid - entry[p][m].stake_paid ELSE 0

\* Instructions move tokens and never make or lose any, also when accounts of
\* several pools share wallets and treasuries: all tokens are there, and a member
\* has what the pools moved, as the entry accounts show it.
FundsConserved ==
    /\ SumFunction(wallet) + SumFunction(vault) = Endowment * Cardinality(Member)
    /\ \A m \in Member \ Treasury :
        wallet[m] = Endowment + SumFunction([p \in Pool |-> Moved(m, p)])

\* Under an audited count the vault of a resolved pool holds exactly the share
\* of every winner that has not claimed: no winner is left short and "claims
\* drain it to zero with no dust stranded" (resolve_pool.rs).
WinnersCoveredOf(p) ==
    pool[p].status = "Resolved" =>
        LET w == pool[p].winning_outcome
        IN  /\ pool[p].winner_count = AuditedCount(p, w)
            /\ vault[p] = pool[p].share_amount
                            * Cardinality(Winners(p, w) \ Claimed(p))
WinnersCovered == \A p \in Pool : WinnersCoveredOf(p)

\* Under an audited count nobody who is owed something is ever refused: the
\* guards of the two claim instructions and the vault's balance admit the claim
\* of every unclaimed entry of a terminal pool, losers of a resolved one apart.
EntitledCanClaim ==
    \A p \in Pool : \A m \in Entrants(p) \ Claimed(p) :
        /\ pool[p].status \in Terminal
        /\ pool[p].status = "Resolved" =>
               m \in Winners(p, pool[p].winning_outcome)
        => ENABLED (ClaimWinnings(m, p) \/ ClaimRefund(m, p))

\* What that asks of the vault, member by member: the two claim instructions have
\* no other condition than the status, the entry and the prediction.
ClaimsCovered ==
    \A p \in Pool : \A m \in Entrants(p) \ Claimed(p) :
        /\ pool[p].status = "Resolved" /\ m \in Winners(p, pool[p].winning_outcome)
            => vault[p] >= pool[p].share_amount
        /\ pool[p].status \in {"Voided", "Cancelled"} => vault[p] >= entry[p][m].stake_paid

\* Once a pool is terminal its account never changes again, and once it is not
\* Open its entries change only by being claimed: the entries the resolver
\* counts after the lock are those that will claim.
FinalStep(p) == pool[p].status \in Terminal => pool'[p] = pool[p]
FrozenStep(p, m) ==
    pool[p].status \notin {"Absent", "Open"} =>
        \/ entry'[p][m] = entry[p][m]
        \/ /\ m \in Entrants(p) \ Claimed(p)
           /\ pool[p].status \in Terminal
           /\ entry'[p][m] = [entry[p][m] EXCEPT !.claimed = TRUE]
FinalAndFrozen ==
    [][\A p \in Pool : FinalStep(p) /\ \A m \in Member : FrozenStep(p, m)]_vars

=============================================================================
