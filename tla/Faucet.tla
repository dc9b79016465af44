------------------------------- MODULE Faucet -------------------------------
(***************************************************************************)
(* The demo faucet: POST /faucet (src/server/src/faucet/routes.ts), the    *)
(* file of claims (faucet/store.ts), the server-signed transfer            *)
(* (chain/faucet.ts), and the page that asks for it (use-faucet.ts).       *)
(*                                                                         *)
(* A request gives way at the three RPC calls of sendFaucetFunds: the      *)
(* blockhash and the broadcast, taken together, and the confirmation.  An  *)
(* RPC call may fail; a transaction that was broadcast may land or expire  *)
(* whatever became of its request.  A crash of the server loses the        *)
(* requests and the set inFlight; the claims are on disk.                  *)
(***************************************************************************)
EXTENDS Integers, FiniteSets

CONSTANTS
    Wallet,
    Request,     \* requests that may be under way at the same time
    Funds,       \* grants the faucet wallet can pay
    MaxFaults,   \* RPC calls that fail or time out
    MaxCrashes,
    NoWallet

VARIABLES
    claims,      \* faucet.json: the wallets recorded as funded
    inFlight,    \* routes.ts: wallets with a transfer under way
    request,     \* the requests under way
    orphans,     \* transactions in the network whose request is gone, by wallet
    paid,        \* grants each wallet has received on the chain
    funds,       \* grants left in the faucet wallet
    marked,      \* localStorage: wallets this browser knows as funded
    attempted,   \* AutoFaucet: wallets tried since the page was loaded
    faults, crashes

vars == <<claims, inFlight, request, orphans, paid, funds, marked, attempted, faults, crashes>>

Idle == [pc |-> "idle", wallet |-> NoWallet]

ASSUME FaucetTypes ==
    Funds \in Nat /\ MaxFaults \in Nat /\ MaxCrashes \in Nat /\ NoWallet \notin Wallet

Init ==
    /\ claims = {} /\ inFlight = {}
    /\ request = [r \in Request |-> Idle]
    /\ orphans = [w \in Wallet |-> 0]
    /\ paid = [w \in Wallet |-> 0]
    /\ funds = Funds
    /\ marked = {} /\ attempted = {}
    /\ faults = 0 /\ crashes = 0

-----------------------------------------------------------------------------
(* The route *)

\* The answer of a request, and the page's onSuccess when it is not an error.
Answer(r, success) ==
    /\ request' = [request EXCEPT ![r] = Idle]
    /\ marked' = IF success THEN marked \cup {request[r].wallet} ELSE marked

\* Mutant: the test of inFlight is left out.
StartUnlocked(r, w) ==
    /\ request[r] = Idle
    /\ IF w \in claims
       THEN marked' = marked \cup {w} /\ UNCHANGED <<inFlight, request>>
       ELSE /\ inFlight' = inFlight \cup {w}
            /\ request' = [request EXCEPT ![r] = [pc |-> "send", wallet |-> w]]
            /\ UNCHANGED marked

\* Up to the first await: a wallet with a claim is answered at once, one with
\* a transfer under way is refused with 409, else the transfer starts.
Start(r, w) ==
    /\ request[r] = Idle
    /\ \/ /\ w \in claims
          /\ marked' = marked \cup {w}
          /\ UNCHANGED <<inFlight, request>>
       \/ /\ w \notin claims /\ w \in inFlight
          /\ UNCHANGED <<inFlight, request, marked>>
       \/ /\ w \notin claims /\ w \notin inFlight
          /\ inFlight' = inFlight \cup {w}
          /\ request' = [request EXCEPT ![r] = [pc |-> "send", wallet |-> w]]
          /\ UNCHANGED marked

\* AutoFaucet's effect: once per load of the page, unless the browser knows.
AutoFund(r, w) ==
    /\ w \notin attempted \cup marked
    /\ attempted' = attempted \cup {w}
    /\ Start(r, w)
    /\ UNCHANGED <<claims, orphans, paid, funds, faults, crashes>>

\* The button "Fund wallet" on /me, or another browser.
FundWallet(r, w) ==
    /\ Start(r, w)
    /\ UNCHANGED <<claims, orphans, paid, funds, attempted, faults, crashes>>

Reload ==
    /\ attempted' = {}
    /\ UNCHANGED <<claims, inFlight, request, orphans, paid, funds, marked, faults, crashes>>

\* Mutant: the lock is kept when the transfer fails.
FailKeepsLock(r) ==
    /\ Answer(r, FALSE)
    /\ UNCHANGED inFlight

\* The catch and finally clauses.
Fail(r) ==
    /\ Answer(r, FALSE)
    /\ inFlight' = inFlight \ {request[r].wallet}

\* Mutant: the claim is recorded before the transfer is confirmed.
BroadcastRecords(r) ==
    /\ request[r].pc = "send"
    /\ funds > 0
    /\ claims' = claims \cup {request[r].wallet}
    /\ request' = [request EXCEPT ![r].pc = "confirm"]
    /\ UNCHANGED <<inFlight, marked, orphans, paid, funds, attempted, faults, crashes>>

\* The preflight of sendRawTransaction refuses what the faucet cannot pay.
Broadcast(r) ==
    /\ request[r].pc = "send"
    /\ \/ /\ funds > 0
          /\ request' = [request EXCEPT ![r].pc = "confirm"]
          /\ UNCHANGED <<inFlight, marked>>
       \/ funds = 0 /\ Fail(r)
    /\ UNCHANGED <<claims, orphans, paid, funds, attempted, faults, crashes>>

\* The transaction is confirmed: recordClaim, then the answer and the finally.
Confirm(r) ==
    /\ request[r].pc = "landed"
    /\ claims' = claims \cup {request[r].wallet}
    /\ inFlight' = inFlight \ {request[r].wallet}
    /\ Answer(r, TRUE)
    /\ UNCHANGED <<orphans, paid, funds, attempted, faults, crashes>>

\* Mutant: a failed transfer is not answered.
ConfirmFailsSilently(r) ==
    /\ request[r].pc = "failed"
    /\ inFlight' = inFlight \ {request[r].wallet}
    /\ UNCHANGED <<request, marked, claims, orphans, paid, funds, attempted, faults, crashes>>

\* The transaction expired, or failed on the chain: confirmTransaction says so.
ConfirmFails(r) ==
    /\ request[r].pc = "failed"
    /\ Fail(r)
    /\ UNCHANGED <<claims, orphans, paid, funds, attempted, faults, crashes>>

-----------------------------------------------------------------------------
(* The network *)

\* An RPC call fails.  What was broadcast by then is in the network still.
RpcFails(r) ==
    /\ faults < MaxFaults
    /\ request[r].pc \in {"send", "confirm", "landed"}
    /\ Fail(r)
    /\ \/ UNCHANGED orphans
       \/ /\ request[r].pc \in {"send", "confirm"}
          /\ funds > 0
          /\ orphans' = [orphans EXCEPT ![request[r].wallet] = @ + 1]
    /\ faults' = faults + 1
    /\ UNCHANGED <<claims, paid, funds, attempted, crashes>>

Pay(w) ==
    /\ funds > 0
    /\ funds' = funds - 1
    /\ paid' = [paid EXCEPT ![w] = @ + 1]

Land(r) ==
    /\ request[r].pc = "confirm"
    /\ Pay(request[r].wallet)
    /\ request' = [request EXCEPT ![r].pc = "landed"]
    /\ UNCHANGED <<claims, inFlight, orphans, marked, attempted, faults, crashes>>

\* The blockhash expires before the transaction is included, or the faucet
\* wallet has become empty.
Expire(r) ==
    /\ request[r].pc = "confirm"
    /\ faults < MaxFaults \/ funds = 0
    /\ faults' = IF funds = 0 THEN faults ELSE faults + 1
    /\ request' = [request EXCEPT ![r].pc = "failed"]
    /\ UNCHANGED <<claims, inFlight, orphans, paid, funds, marked, attempted, crashes>>

OrphanLands(w) ==
    /\ orphans[w] > 0
    /\ orphans' = [orphans EXCEPT ![w] = @ - 1]
    /\ Pay(w)
    /\ UNCHANGED <<claims, inFlight, request, marked, attempted, faults, crashes>>

OrphanExpires(w) ==
    /\ orphans[w] > 0
    /\ orphans' = [orphans EXCEPT ![w] = @ - 1]
    /\ UNCHANGED <<claims, inFlight, request, paid, funds, marked, attempted, faults, crashes>>

Confirming(w) == {r \in Request : request[r].wallet = w /\ request[r].pc = "confirm"}

Crash ==
    /\ crashes < MaxCrashes
    /\ crashes' = crashes + 1
    /\ inFlight' = {}
    /\ request' = [r \in Request |-> Idle]
    /\ orphans' = [w \in Wallet |-> orphans[w] + Cardinality(Confirming(w))]
    /\ UNCHANGED <<claims, paid, funds, marked, attempted, faults>>

Serve(r) == Broadcast(r) \/ Confirm(r) \/ ConfirmFails(r)
Settle(r) == Land(r) \/ Expire(r)

Next ==
    \/ \E r \in Request, w \in Wallet : AutoFund(r, w) \/ FundWallet(r, w)
    \/ \E r \in Request : Serve(r) \/ RpcFails(r) \/ Settle(r)
    \/ \E w \in Wallet : OrphanLands(w) \/ OrphanExpires(w)
    \/ Reload \/ Crash

\* The server runs its continuations and a transaction lands or expires.
Fairness == \A r \in Request : WF_vars(Serve(r)) /\ WF_vars(Settle(r))

Spec == Init /\ [][Next]_vars /\ Fairness

-----------------------------------------------------------------------------

TypeOK ==
    /\ claims \subseteq Wallet /\ inFlight \subseteq Wallet
    /\ marked \subseteq Wallet /\ attempted \subseteq Wallet
    /\ request \in [Request ->
            [pc : {"send", "confirm", "landed", "failed"}, wallet : Wallet] \cup {Idle}]
    /\ orphans \in [Wallet -> Nat] /\ paid \in [Wallet -> Nat] /\ funds \in Nat
    /\ faults \in 0 .. MaxFaults /\ crashes \in 0 .. MaxCrashes

\* A wallet is funded once, however many pages ask (routes.ts:34: "Fund a
\* wallet once"; use-faucet.ts:15: "The server enforces once-per-wallet").
OncePerWallet == \A w \in Wallet : paid[w] <= 1

\* It is so while no call fails and the server is not restarted.
OncePerWalletUndisturbed == faults = 0 /\ crashes = 0 => OncePerWallet

\* inFlight holds the wallets of the requests past it and no others: no path of
\* the route leaves a wallet refused with 409 for ever (routes.ts: finally).
LockIsHeld ==
    /\ inFlight = {request[r].wallet : r \in {q \in Request : request[q] # Idle}}
    /\ \A r, q \in Request :
         request[r] # Idle /\ request[r].wallet = request[q].wallet => r = q

\* A wallet that the server or the browser takes as funded was paid, whatever
\* fails: neither ever stops asking too early.
ClaimsArePaid == \A w \in claims \cup marked : paid[w] >= 1

\* Every request is answered, or lost in a crash.
RequestsAnswered == \A r \in Request : request[r] # Idle ~> request[r] = Idle

=============================================================================
