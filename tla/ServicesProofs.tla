--------------------------- MODULE ServicesProofs ---------------------------
(***************************************************************************)
(* What the services beside the pools keep for any values of their         *)
(* constants.  They share no state, and each theorem is about one of them: *)
(*                                                                         *)
(*  - the faucet (Faucet): its lock, that it never takes a wallet as       *)
(*    funded that was not, and that without faults it funds nobody twice;  *)
(*  - the stream hub (StreamHub): that whoever listens is served, and with *)
(*    rows of the own fixture;                                             *)
(*  - the profiles (Profiles): their types, that a saved name is lost to   *)
(*    a heal only, and that a tab which had the profile before /me was     *)
(*    opened never loses it;                                               *)
(*  - the fixtures and their cache (Fixtures): that what is served is      *)
(*    fresh, complete and the newest row of each fixture.                  *)
(***************************************************************************)
EXTENDS Faucet, Sequences, FiniteSetTheorems, TLAPS

CONSTANTS
    Page, Fixture, FixtureOf, AlwaysOn, MaxRows, MaxDrops, MaxExpiries,   \* of StreamHub
    Name, EmailName, Fallback, FanLike, EmailLate, MeEarly, MaxVisits, MaxRenames,
    None,                                                                 \* of Profiles
    Load, Friendly, WorldCup, CacheMs, MaxTime, MaxChanges                \* of Fixtures

VARIABLES
    task, attempt, clients, jwt, valid, page, retry, shown, rows, drops,  \* of StreamHub
    user, email, visits, onMe, data, stale, newer, due, provisioning, req, saved, failed,
    renames, slips,                                                       \* of Profiles
    now, raw, score, past, cache, load, served                            \* of Fixtures

Stream == INSTANCE StreamHub
Profile == INSTANCE Profiles WITH faults <- slips
Cache == INSTANCE Fixtures

-----------------------------------------------------------------------------
(* The faucet *)

Busy == {"send", "confirm", "landed", "failed"}

\* The lock, wallet by wallet.
Locked ==
    /\ \A w \in Wallet : w \in inFlight <=> \E r \in Request : request[r].wallet = w
    /\ \A r, q \in Request :
         request[r].wallet \in Wallet /\ request[r].wallet = request[q].wallet => r = q

\* A request past the broadcast's landing has paid its wallet.
LandedPaid == \A r \in Request : request[r].pc = "landed" => paid[request[r].wallet] >= 1

Inv == TypeOK /\ Locked /\ LandedPaid /\ ClaimsArePaid

\* A request under way is for a wallet without a claim.
Unclaimed == \A r \in Request : request[r].wallet \notin claims

\* What was paid is recorded or about to be.
Accounted(w) ==
    /\ orphans[w] = 0 /\ paid[w] <= 1
    /\ paid[w] = 1 =>
         w \in claims \/ \E r \in Request : request[r].wallet = w /\ request[r].pc = "landed"

OnceInv == Unclaimed /\ (faults = 0 /\ crashes = 0 => \A w \in Wallet : Accounted(w))

LEMMA RequestForm ==
    ASSUME TypeOK, NEW r \in Request
    PROVE  /\ request[r] = Idle <=> request[r].wallet \notin Wallet
           /\ request[r] # Idle => request[r].wallet \in Wallet /\ request[r].pc \in Busy
           /\ request[r] = Idle <=> request[r].pc = "idle"
BY FaucetTypes DEF TypeOK, Idle, Busy

LEMMA LockPointwise == Inv => LockIsHeld
<1> SUFFICES ASSUME Inv PROVE LockIsHeld
  OBVIOUS
<1>1. \A r \in Request : request[r] # Idle <=> request[r].wallet \in Wallet
  BY RequestForm DEF Inv
<1>2. inFlight \subseteq Wallet
  BY DEF Inv, TypeOK
<1> QED
  BY <1>1, <1>2 DEF Inv, Locked, LockIsHeld

\* One request changes its step, and neither a wallet nor the lock does.
LEMMA StepKeepsLock ==
    ASSUME Inv, NEW r \in Request, request[r].pc \in Busy, NEW pc \in Busy,
           request' = [request EXCEPT ![r].pc = pc], inFlight' = inFlight
    PROVE  /\ Locked'
           /\ request' \in [Request -> [pc : Busy, wallet : Wallet] \cup {Idle}]
           /\ request'[r].wallet = request[r].wallet /\ request'[r].pc = pc
           /\ \A q \in Request : q # r => request'[q] = request[q]
<1>1. request[r] \in [pc : Busy, wallet : Wallet]
  BY RequestForm DEF Inv, TypeOK, Busy, Idle
<1>2. request \in [Request -> [pc : Busy, wallet : Wallet] \cup {Idle}]
  BY DEF Inv, TypeOK, Busy
<1>3. [request[r] EXCEPT !.pc = pc] \in [pc : Busy, wallet : Wallet]
  BY <1>1
<1>4. /\ request'[r] = [request[r] EXCEPT !.pc = pc]
      /\ \A q \in Request : q # r => request'[q] = request[q]
      /\ request' \in [Request -> [pc : Busy, wallet : Wallet] \cup {Idle}]
  BY <1>2, <1>3
<1>5. \A q \in Request : request'[q].wallet = request[q].wallet
  BY <1>1, <1>4
<1> QED
  BY <1>1, <1>4, <1>5 DEF Inv, Locked

\* One request ends, and its wallet is released.
LEMMA EndReleases ==
    ASSUME Inv, NEW r \in Request, request[r].pc \in Busy, NEW success \in BOOLEAN,
           Answer(r, success), inFlight' = inFlight \ {request[r].wallet}
    PROVE  /\ Locked'
           /\ request' \in [Request -> [pc : Busy, wallet : Wallet] \cup {Idle}]
           /\ request'[r].pc = "idle"
           /\ \A q \in Request : q # r => request'[q] = request[q]
           /\ inFlight' \subseteq Wallet
<1>1. request \in [Request -> [pc : Busy, wallet : Wallet] \cup {Idle}]
  BY DEF Inv, TypeOK, Busy
<1>2. /\ request'[r] = Idle
      /\ \A q \in Request : q # r => request'[q] = request[q]
      /\ request' \in [Request -> [pc : Busy, wallet : Wallet] \cup {Idle}]
  BY <1>1 DEF Answer
<1>3. request[r].wallet \in Wallet /\ Idle.wallet \notin Wallet /\ Idle.pc = "idle"
  BY RequestForm, FaucetTypes DEF Inv, Busy, Idle
<1>4. inFlight' \subseteq Wallet
  BY DEF Inv, TypeOK
<1>5. \A w \in Wallet : w \in inFlight' <=> \E q \in Request : request'[q].wallet = w
  BY <1>2, <1>3 DEF Inv, Locked
<1>6. \A p, q \in Request :
         request'[p].wallet \in Wallet /\ request'[p].wallet = request'[q].wallet => p = q
  BY <1>2, <1>3 DEF Inv, Locked
<1> QED
  BY <1>2, <1>3, <1>4, <1>5, <1>6 DEF Locked

LEMMA InitInv == Init => Inv
<1> SUFFICES ASSUME Init PROVE Inv
  OBVIOUS
<1>1. TypeOK
  BY FaucetTypes DEF Init, TypeOK
<1>2. Locked
  BY FaucetTypes DEF Init, Locked, Idle
<1> QED
  BY <1>1, <1>2 DEF Init, Inv, LandedPaid, ClaimsArePaid, Idle

LEMMA StartInv ==
    ASSUME Inv, NEW r \in Request, NEW w \in Wallet, Start(r, w),
           UNCHANGED <<claims, orphans, paid, funds, faults, crashes>>,
           attempted' \subseteq Wallet
    PROVE  Inv'
<1>1. CASE w \in claims
  <2>1. UNCHANGED <<inFlight, request>> /\ marked' = marked \cup {w}
    BY <1>1 DEF Start
  <2> QED
    BY <1>1, <2>1 DEF Inv, TypeOK, Locked, LandedPaid, ClaimsArePaid
<1>2. CASE w \notin claims /\ w \in inFlight
  <2>1. UNCHANGED <<inFlight, request, marked>>
    BY <1>2 DEF Start
  <2> QED
    BY <2>1 DEF Inv, TypeOK, Locked, LandedPaid, ClaimsArePaid
<1>3. CASE w \notin claims /\ w \notin inFlight
  <2>1. /\ inFlight' = inFlight \cup {w} /\ marked' = marked
        /\ request' = [request EXCEPT ![r] = [pc |-> "send", wallet |-> w]]
        /\ request[r] = Idle
    BY <1>3 DEF Start
  <2>2. request \in [Request -> [pc : Busy, wallet : Wallet] \cup {Idle}]
    BY DEF Inv, TypeOK, Busy
  <2>3. /\ request'[r] = [pc |-> "send", wallet |-> w]
        /\ \A q \in Request : q # r => request'[q] = request[q]
        /\ request' \in [Request -> [pc : Busy, wallet : Wallet] \cup {Idle}]
    BY <2>1, <2>2 DEF Busy
  <2>4. request[r].wallet \notin Wallet
    BY <2>1, RequestForm DEF Inv
  <2>5. \A q \in Request : request[q].wallet # w
    BY <1>3 DEF Inv, Locked
  <2>6. Locked'
    BY <2>1, <2>3, <2>4, <2>5 DEF Inv, Locked
  <2>7. LandedPaid'
    BY <2>3 DEF Inv, LandedPaid
  <2> QED
    BY <2>1, <2>3, <2>6, <2>7 DEF Inv, TypeOK, Busy, ClaimsArePaid
<1> QED
  BY <1>1, <1>2, <1>3

\* A step of one request from send on that pays nobody.
LEMMA MoveInv ==
    ASSUME Inv, NEW r \in Request, request[r].pc \in Busy, NEW pc \in {"confirm", "failed"},
           request' = [request EXCEPT ![r].pc = pc],
           UNCHANGED <<claims, inFlight, orphans, paid, funds, marked, attempted, crashes>>,
           faults' \in 0 .. MaxFaults
    PROVE  Inv'
<1>1. pc \in Busy /\ pc # "landed"
  BY DEF Busy
<1>2. /\ Locked'
      /\ request' \in [Request -> [pc : Busy, wallet : Wallet] \cup {Idle}]
      /\ request'[r].pc = pc
      /\ \A q \in Request : q # r => request'[q] = request[q]
  BY <1>1, StepKeepsLock
<1>3. LandedPaid'
  BY <1>1, <1>2 DEF Inv, LandedPaid
<1> QED
  BY <1>2, <1>3 DEF Inv, TypeOK, Busy, ClaimsArePaid

\* A request that ends without success.
LEMMA FailInv ==
    ASSUME Inv, NEW r \in Request, request[r].pc \in Busy, Fail(r),
           UNCHANGED <<claims, paid, funds, attempted, crashes>>,
           orphans' \in [Wallet -> Nat], faults' \in 0 .. MaxFaults
    PROVE  Inv'
<1>1. Answer(r, FALSE) /\ inFlight' = inFlight \ {request[r].wallet}
  BY DEF Fail
<1>2. /\ Locked'
      /\ request' \in [Request -> [pc : Busy, wallet : Wallet] \cup {Idle}]
      /\ request'[r].pc = "idle"
      /\ \A q \in Request : q # r => request'[q] = request[q]
      /\ inFlight' \subseteq Wallet
  BY <1>1, EndReleases
<1>3. marked' = marked
  BY <1>1 DEF Answer
<1>4. LandedPaid'
  BY <1>2 DEF Inv, LandedPaid
<1> QED
  BY <1>2, <1>3, <1>4 DEF Inv, TypeOK, Busy, ClaimsArePaid

LEMMA PayFacts ==
    ASSUME Inv, NEW w \in Wallet, Pay(w)
    PROVE  /\ paid' \in [Wallet -> Nat] /\ funds' \in Nat
           /\ paid'[w] >= 1
           /\ \A v \in Wallet : paid'[v] >= paid[v]
BY DEF Inv, TypeOK, Pay

LEMMA NextInv ==
    ASSUME IsFiniteSet(Request), Inv, [Next]_vars
    PROVE  Inv'
<1>1. ASSUME NEW r \in Request, NEW w \in Wallet, AutoFund(r, w) PROVE Inv'
  BY <1>1, StartInv DEF AutoFund, Inv, TypeOK
<1>2. ASSUME NEW r \in Request, NEW w \in Wallet, FundWallet(r, w) PROVE Inv'
  BY <1>2, StartInv DEF FundWallet, Inv, TypeOK
<1>3. ASSUME NEW r \in Request, Broadcast(r) PROVE Inv'
  <2>0. request[r].pc \in Busy /\ faults' \in 0 .. MaxFaults /\ orphans' \in [Wallet -> Nat]
    BY <1>3 DEF Broadcast, Busy, Inv, TypeOK
  <2>1. CASE request' = [request EXCEPT ![r].pc = "confirm"] /\ UNCHANGED <<inFlight, marked>>
    BY <1>3, <2>0, <2>1, MoveInv DEF Broadcast
  <2>2. CASE Fail(r)
    BY <1>3, <2>0, <2>2, FailInv DEF Broadcast
  <2> QED
    BY <1>3, <2>1, <2>2 DEF Broadcast
<1>4. ASSUME NEW r \in Request, Confirm(r) PROVE Inv'
  <2>1. /\ request[r].pc = "landed" /\ request[r].pc \in Busy /\ Answer(r, TRUE)
        /\ claims' = claims \cup {request[r].wallet}
        /\ inFlight' = inFlight \ {request[r].wallet}
        /\ marked' = marked \cup {request[r].wallet}
        /\ UNCHANGED <<orphans, paid, funds, attempted, faults, crashes>>
    BY <1>4 DEF Confirm, Answer, Busy
  <2>2. request[r].wallet \in Wallet /\ paid[request[r].wallet] >= 1
    BY <2>1, RequestForm DEF Inv, LandedPaid, Busy
  <2>3. /\ Locked'
        /\ request' \in [Request -> [pc : Busy, wallet : Wallet] \cup {Idle}]
        /\ request'[r].pc = "idle"
        /\ \A q \in Request : q # r => request'[q] = request[q]
        /\ inFlight' \subseteq Wallet
    BY <2>1, EndReleases
  <2>4. LandedPaid'
    BY <2>1, <2>3 DEF Inv, LandedPaid
  <2>5. ClaimsArePaid'
    BY <2>1, <2>2 DEF Inv, ClaimsArePaid
  <2> QED
    BY <2>1, <2>2, <2>3, <2>4, <2>5 DEF Inv, TypeOK, Busy
<1>5. ASSUME NEW r \in Request, ConfirmFails(r) PROVE Inv'
  BY <1>5, FailInv DEF ConfirmFails, Busy, Inv, TypeOK
<1>6. ASSUME NEW r \in Request, RpcFails(r) PROVE Inv'
  <2>1. request[r].pc \in Busy /\ Fail(r) /\ faults' \in 0 .. MaxFaults
    BY <1>6, FaucetTypes DEF RpcFails, Busy, Inv, TypeOK
  <2>2. orphans' \in [Wallet -> Nat]
    BY <1>6 DEF RpcFails, Inv, TypeOK
  <2> QED
    BY <1>6, <2>1, <2>2, FailInv DEF RpcFails
<1>7. ASSUME NEW r \in Request, Land(r) PROVE Inv'
  <2>1. /\ request[r].pc \in Busy /\ request[r].wallet \in Wallet /\ Pay(request[r].wallet)
        /\ request' = [request EXCEPT ![r].pc = "landed"] /\ "landed" \in Busy
        /\ UNCHANGED <<claims, inFlight, orphans, marked, attempted, faults, crashes>>
    BY <1>7, RequestForm DEF Land, Busy, Inv
  <2>2. /\ Locked'
        /\ request' \in [Request -> [pc : Busy, wallet : Wallet] \cup {Idle}]
        /\ request'[r].wallet = request[r].wallet
        /\ \A q \in Request : q # r => request'[q] = request[q]
    BY <2>1, StepKeepsLock
  <2>3. /\ paid' \in [Wallet -> Nat] /\ funds' \in Nat
        /\ paid'[request[r].wallet] >= 1
        /\ \A v \in Wallet : paid'[v] >= paid[v]
    BY <2>1, PayFacts
  <2>4. LandedPaid'
    <3> SUFFICES ASSUME NEW q \in Request, request'[q].pc = "landed"
                 PROVE  paid'[request'[q].wallet] >= 1
      BY DEF LandedPaid
    <3>1. CASE q = r
      BY <2>2, <2>3, <3>1
    <3>2. CASE q # r
      <4>1. request'[q] = request[q] /\ request[q].pc = "landed"
        BY <2>2, <3>2
      <4>2. request[q].wallet \in Wallet /\ paid[request[q].wallet] >= 1
        BY <4>1, RequestForm DEF Inv, LandedPaid, Idle
      <4> QED
        BY <2>3, <4>1, <4>2 DEF Inv, TypeOK
    <3> QED
      BY <3>1, <3>2
  <2>5. ClaimsArePaid'
    BY <2>1, <2>3 DEF Inv, ClaimsArePaid, TypeOK
  <2> QED
    BY <2>1, <2>2, <2>3, <2>4, <2>5 DEF Inv, TypeOK, Busy
<1>8. ASSUME NEW r \in Request, Expire(r) PROVE Inv'
  <2>1. request[r].pc \in Busy /\ faults' \in 0 .. MaxFaults
    BY <1>8, FaucetTypes DEF Expire, Busy, Inv, TypeOK
  <2> QED
    BY <1>8, <2>1, MoveInv DEF Expire
<1>9. ASSUME NEW w \in Wallet, OrphanLands(w) PROVE Inv'
  <2>1. /\ paid' \in [Wallet -> Nat] /\ funds' \in Nat
        /\ \A v \in Wallet : paid'[v] >= paid[v]
    BY <1>9, PayFacts DEF OrphanLands
  <2>2. orphans' \in [Wallet -> Nat]
    BY <1>9 DEF OrphanLands, Inv, TypeOK
  <2>3. UNCHANGED <<claims, inFlight, request, marked, attempted, faults, crashes>>
    BY <1>9 DEF OrphanLands
  <2>4. LandedPaid'
    <3> SUFFICES ASSUME NEW q \in Request, request[q].pc = "landed"
                 PROVE  paid'[request[q].wallet] >= 1
      BY <2>3 DEF LandedPaid
    <3>1. request[q].wallet \in Wallet /\ paid[request[q].wallet] >= 1
      BY RequestForm DEF Inv, LandedPaid, Idle
    <3> QED
      BY <2>1, <3>1 DEF Inv, TypeOK
  <2>5. ClaimsArePaid'
    BY <2>1, <2>3 DEF Inv, ClaimsArePaid, TypeOK
  <2>6. Locked'
    BY <2>3 DEF Inv, Locked
  <2> QED
    BY <2>1, <2>2, <2>3, <2>4, <2>5, <2>6 DEF Inv, TypeOK
<1>10. ASSUME NEW w \in Wallet, OrphanExpires(w) PROVE Inv'
  BY <1>10 DEF OrphanExpires, Inv, TypeOK, Locked, LandedPaid, ClaimsArePaid
<1>11. ASSUME Reload PROVE Inv'
  BY <1>11 DEF Reload, Inv, TypeOK, Locked, LandedPaid, ClaimsArePaid
<1>12. ASSUME Crash PROVE Inv'
  <2>1. \A w \in Wallet : Cardinality(Confirming(w)) \in Nat
    BY FS_Subset, FS_CardinalityType DEF Confirming
  <2>2. orphans' \in [Wallet -> Nat]
    BY <1>12, <2>1 DEF Crash, Inv, TypeOK
  <2>3. /\ request' = [r \in Request |-> Idle] /\ inFlight' = {}
        /\ crashes' \in 0 .. MaxCrashes
        /\ UNCHANGED <<claims, paid, funds, marked, attempted, faults>>
    BY <1>12, FaucetTypes DEF Crash, Inv, TypeOK
  <2>4. Locked' /\ LandedPaid'
    BY <2>3, FaucetTypes DEF Locked, LandedPaid, Idle
  <2> QED
    BY <2>2, <2>3, <2>4 DEF Inv, TypeOK, ClaimsArePaid
<1>13. CASE UNCHANGED vars
  BY <1>13 DEF vars, Inv, TypeOK, Locked, LandedPaid, ClaimsArePaid
<1> QED
  BY <1>1, <1>2, <1>3, <1>4, <1>5, <1>6, <1>7, <1>8, <1>9, <1>10, <1>11, <1>12, <1>13
     DEF Next, Serve, Settle

LEMMA FaucetInv == ASSUME IsFiniteSet(Request) PROVE Spec => []Inv
BY InitInv, NextInv, PTL DEF Spec

\* The faucet's sets and counters keep their types, for any number of requests.
THEOREM FaucetTypeOK == ASSUME IsFiniteSet(Request) PROVE Spec => []TypeOK
<1>1. Inv => TypeOK
  BY DEF Inv
<1> QED
  BY <1>1, FaucetInv, PTL

\* A wallet is refused with 409 just while a request of its own is under way
\* (routes.ts:43-75), whatever fails and wherever the server stops.
THEOREM LockAlwaysHeld == ASSUME IsFiniteSet(Request) PROVE Spec => []LockIsHeld
BY LockPointwise, FaucetInv, PTL

\* Who is taken for funded, by the server or by a browser, was paid: no fault
\* and no crash makes either of them stop asking too early.
THEOREM ClaimsAlwaysPaid == ASSUME IsFiniteSet(Request) PROVE Spec => []ClaimsArePaid
<1>1. Inv => ClaimsArePaid
  BY DEF Inv
<1> QED
  BY <1>1, FaucetInv, PTL

LEMMA InitOnce == Init => OnceInv
BY DEF Init, OnceInv, Unclaimed, Accounted

\* A step that pays nobody, and after which every request is as it was, at
\* rest, not paid before nor after, or new and without a claim.
LEMMA QuietOnce ==
    ASSUME Inv, OnceInv, UNCHANGED <<claims, paid>>,
           faults' = 0 /\ crashes' = 0 => faults = 0 /\ crashes = 0 /\ orphans' = orphans,
           \A q \in Request :
               \/ request'[q] = request[q]
               \/ /\ request'[q].wallet \notin claims
                  /\ request[q].pc = "landed" => ~(faults' = 0 /\ crashes' = 0)
    PROVE  OnceInv'
<1>1. Unclaimed'
  BY DEF OnceInv, Unclaimed
<1>2. ASSUME faults' = 0, crashes' = 0, NEW w \in Wallet PROVE Accounted(w)'
  <2>1. Accounted(w) /\ orphans' = orphans
    BY <1>2 DEF OnceInv
  <2>2. \A q \in Request : request[q].pc = "landed" => request'[q] = request[q]
    BY <1>2
  <2> QED
    BY <2>1, <2>2 DEF Accounted
<1> QED
  BY <1>1, <1>2 DEF OnceInv

LEMMA FailOnce ==
    ASSUME Inv, OnceInv, NEW r \in Request, request[r].pc \in Busy, Fail(r),
           UNCHANGED <<claims, paid, crashes>>,
           \/ faults' # 0
           \/ faults' = faults /\ orphans' = orphans /\ request[r].pc # "landed"
    PROVE  OnceInv'
<1>1. /\ request'[r].wallet \notin claims
      /\ \A q \in Request : q # r => request'[q] = request[q]
  BY FaucetTypes DEF Fail, Answer, Idle, Inv, TypeOK
<1> QED
  BY <1>1, QuietOnce

LEMMA StartOnce ==
    ASSUME Inv, OnceInv, NEW r \in Request, NEW w \in Wallet, Start(r, w),
           UNCHANGED <<claims, orphans, paid, faults, crashes>>
    PROVE  OnceInv'
<1>1. CASE request' = request
  BY <1>1, QuietOnce
<1>2. CASE /\ request[r] = Idle /\ w \notin claims
           /\ request' = [request EXCEPT ![r] = [pc |-> "send", wallet |-> w]]
  <2>1. /\ request'[r].wallet = w /\ request[r].pc # "landed"
        /\ \A q \in Request : q # r => request'[q] = request[q]
    BY <1>2 DEF Idle, Inv, TypeOK
  <2> QED
    BY <1>2, <2>1, QuietOnce
<1> QED
  BY <1>1, <1>2 DEF Start

LEMMA NextOnce ==
    ASSUME Inv, OnceInv, [Next]_vars
    PROVE  OnceInv'
<1>1. ASSUME NEW r \in Request, NEW w \in Wallet, AutoFund(r, w) \/ FundWallet(r, w) PROVE OnceInv'
  BY <1>1, StartOnce DEF AutoFund, FundWallet
<1>2. ASSUME NEW r \in Request, NEW pc \in {"confirm", "failed"}, request[r].pc \in Busy \ {"landed"},
             request' = [request EXCEPT ![r].pc = pc], UNCHANGED <<claims, orphans, paid, crashes>>,
             faults' \in {faults, faults + 1}
      PROVE  OnceInv'
  <2>1. request[r] \in [pc : Busy, wallet : Wallet]
    BY <1>2, RequestForm DEF Inv, TypeOK, Busy, Idle
  <2>2. /\ request'[r].wallet = request[r].wallet
        /\ \A q \in Request : q # r => request'[q] = request[q]
    BY <1>2, <2>1 DEF Inv, TypeOK
  <2>3. faults' = 0 => faults = 0
    BY <1>2 DEF Inv, TypeOK
  <2> QED
    BY <1>2, <2>2, <2>3, QuietOnce DEF OnceInv, Unclaimed
<1>3. ASSUME NEW r \in Request, Broadcast(r) PROVE OnceInv'
  <2>1. CASE request' = [request EXCEPT ![r].pc = "confirm"]
    BY <1>2, <1>3, <2>1 DEF Broadcast, Busy
  <2>2. CASE Fail(r)
    BY <1>3, <2>2, FailOnce DEF Broadcast, Busy
  <2> QED
    BY <1>3, <2>1, <2>2 DEF Broadcast
<1>4. ASSUME NEW r \in Request, Confirm(r) PROVE OnceInv'
  <2>1. /\ request[r].pc = "landed" /\ claims' = claims \cup {request[r].wallet}
        /\ request' = [request EXCEPT ![r] = Idle]
        /\ UNCHANGED <<orphans, paid, faults, crashes>>
    BY <1>4 DEF Confirm, Answer
  <2>2. /\ request[r].wallet \in Wallet /\ request'[r] = Idle
        /\ \A q \in Request : q # r => request'[q] = request[q]
    BY <2>1, RequestForm DEF Inv, TypeOK, Idle
  <2>3. \A q \in Request : q # r => request[q].wallet # request[r].wallet
    BY <2>2 DEF Inv, Locked
  <2>4. Idle.wallet \notin claims'
    BY <2>1, <2>2, FaucetTypes DEF Idle, Inv, TypeOK
  <2>5. Unclaimed'
    BY <2>1, <2>2, <2>3, <2>4 DEF OnceInv, Unclaimed
  <2>6. ASSUME faults' = 0, crashes' = 0, NEW w \in Wallet PROVE Accounted(w)'
    <3>1. Accounted(w)
      BY <2>1, <2>6 DEF OnceInv
    <3> QED
      BY <2>1, <2>2, <3>1 DEF Accounted
  <2> QED
    BY <2>5, <2>6 DEF OnceInv
<1>5. ASSUME NEW r \in Request, ConfirmFails(r) PROVE OnceInv'
  BY <1>5, FailOnce DEF ConfirmFails, Busy
<1>6. ASSUME NEW r \in Request, RpcFails(r) PROVE OnceInv'
  <2>1. request[r].pc \in Busy /\ Fail(r) /\ faults' # 0 /\ UNCHANGED <<claims, paid, crashes>>
    BY <1>6, FaucetTypes DEF RpcFails, Busy, Inv, TypeOK
  <2> QED
    BY <2>1, FailOnce
<1>7. ASSUME NEW r \in Request, Land(r) PROVE OnceInv'
  <2>1. /\ request[r].pc = "confirm" /\ request[r].wallet \in Wallet
        /\ paid' = [paid EXCEPT ![request[r].wallet] = @ + 1]
        /\ request' = [request EXCEPT ![r].pc = "landed"]
        /\ UNCHANGED <<claims, orphans, faults, crashes>>
    BY <1>7, RequestForm DEF Land, Pay, Inv, Idle
  <2>2. request[r] \in [pc : Busy, wallet : Wallet]
    BY <2>1, RequestForm DEF Inv, TypeOK, Busy, Idle
  <2>3. /\ request'[r].wallet = request[r].wallet /\ request'[r].pc = "landed"
        /\ \A q \in Request : q # r => request'[q] = request[q]
    BY <2>1, <2>2 DEF Inv, TypeOK
  <2>4. Unclaimed'
    BY <2>1, <2>3 DEF OnceInv, Unclaimed
  <2>5. ASSUME faults' = 0, crashes' = 0, NEW w \in Wallet PROVE Accounted(w)'
    <3>1. Accounted(w) /\ paid[w] \in Nat
      BY <2>1, <2>5 DEF OnceInv, Inv, TypeOK
    <3>2. CASE w = request[r].wallet
      <4>1. paid[w] # 1
        BY <2>1, <3>1, <3>2 DEF Accounted, OnceInv, Unclaimed, Inv, Locked
      <4>2. paid'[w] = 1
        BY <2>1, <3>1, <3>2, <4>1 DEF Accounted, Inv, TypeOK
      <4> QED
        BY <2>1, <2>3, <3>1, <3>2, <4>2 DEF Accounted
    <3>3. CASE w # request[r].wallet
      <4>1. paid'[w] = paid[w]
        BY <2>1, <3>3 DEF Inv, TypeOK
      <4> QED
        BY <2>1, <2>3, <3>1, <3>3, <4>1 DEF Accounted
    <3> QED
      BY <3>2, <3>3
  <2> QED
    BY <2>4, <2>5 DEF OnceInv
<1>8. ASSUME NEW r \in Request, Expire(r) PROVE OnceInv'
  BY <1>2, <1>8 DEF Expire, Busy
<1>9. ASSUME NEW w \in Wallet, OrphanLands(w) PROVE OnceInv'
  <2>1. orphans[w] > 0 /\ UNCHANGED <<claims, request, faults, crashes>>
    BY <1>9 DEF OrphanLands
  <2>2. ~(faults = 0 /\ crashes = 0)
    BY <2>1 DEF OnceInv, Accounted, Inv, TypeOK
  <2> QED
    BY <2>1, <2>2 DEF OnceInv, Unclaimed
<1>10. ASSUME NEW w \in Wallet, OrphanExpires(w) PROVE OnceInv'
  <2>1. orphans[w] > 0 /\ UNCHANGED <<claims, request, faults, crashes>>
    BY <1>10 DEF OrphanExpires
  <2>2. ~(faults = 0 /\ crashes = 0)
    BY <2>1 DEF OnceInv, Accounted, Inv, TypeOK
  <2> QED
    BY <2>1, <2>2 DEF OnceInv, Unclaimed
<1>11. ASSUME Crash PROVE OnceInv'
  <2>1. /\ request' = [r \in Request |-> Idle] /\ crashes' = crashes + 1 /\ claims' = claims
        /\ crashes \in Nat
    BY <1>11, FaucetTypes DEF Crash, Inv, TypeOK
  <2>2. Idle.wallet \notin claims
    BY FaucetTypes DEF Idle, Inv, TypeOK
  <2> QED
    BY <2>1, <2>2 DEF OnceInv, Unclaimed
<1>12. ASSUME Reload \/ UNCHANGED vars PROVE OnceInv'
  BY <1>12, QuietOnce DEF Reload, vars
<1> QED
  BY <1>1, <1>3, <1>4, <1>5, <1>6, <1>7, <1>8, <1>9, <1>10, <1>11, <1>12 DEF Next, Serve, Settle

\* Without failures and crashes nobody is funded twice, however many requests
\* of however many pages are under way at once (routes.ts:34-70).
THEOREM FundedOnce == ASSUME IsFiniteSet(Request) PROVE Spec => []OncePerWalletUndisturbed
<1>1. Inv /\ OnceInv => OncePerWalletUndisturbed
  BY DEF OnceInv, Accounted, OncePerWalletUndisturbed, OncePerWallet
<1>2. Spec => []OnceInv
  <2>1. Inv /\ OnceInv /\ [Next]_vars => OnceInv'
    BY NextOnce
  <2> QED
    BY <2>1, InitOnce, FaucetInv, PTL DEF Spec
<1> QED
  BY <1>1, <1>2, FaucetInv, PTL

-----------------------------------------------------------------------------
(* The stream hub *)

LEMMA ThrowOutcome ==
    ASSUME Stream!TypeOK, Stream!Throw
    PROVE  /\ task' \in {"none", "sleep"} /\ attempt' \in 0 .. 6
           /\ Stream!ShouldRun(clients) => task' = "sleep"
BY DEF Stream!Throw, Stream!TypeOK, Stream!Least

LEMMA HubInitially == ASSUME Stream!StreamTypes, Stream!Init PROVE Stream!IInv
BY
   DEF Stream!Init, Stream!IInv, Stream!ClientsAreOpen, Stream!TypeOK,
       Stream!UpstreamServed, Stream!OwnRows, Stream!ShouldRun, Stream!StreamTypes

LEMMA HubSteps == ASSUME Stream!StreamTypes, Stream!IInv, Stream!Hub PROVE Stream!IInv'
<1>1. CASE Stream!Wake
  BY <1>1
     DEF Stream!Wake, Stream!IInv, Stream!ClientsAreOpen, Stream!TypeOK,
         Stream!UpstreamServed, Stream!OwnRows, Stream!ShouldRun, Stream!pageVars
<1>2. CASE Stream!GetGuestJwt
  BY <1>2
     DEF Stream!GetGuestJwt, Stream!IInv, Stream!ClientsAreOpen, Stream!TypeOK,
         Stream!UpstreamServed, Stream!OwnRows, Stream!ShouldRun, Stream!pageVars
<1>3. CASE Stream!ConnectUpstream
  BY <1>3, ThrowOutcome
     DEF Stream!ConnectUpstream, Stream!IInv, Stream!ClientsAreOpen, Stream!TypeOK,
         Stream!UpstreamServed, Stream!OwnRows, Stream!ShouldRun, Stream!pageVars
<1> QED
  BY <1>1, <1>2, <1>3 DEF Stream!Hub

LEMMA UpstreamDropsStep ==
    ASSUME Stream!StreamTypes, Stream!IInv, Stream!UpstreamDrops
    PROVE  Stream!IInv'
BY ThrowOutcome
   DEF Stream!UpstreamDrops, Stream!IInv, Stream!ClientsAreOpen, Stream!TypeOK,
       Stream!UpstreamServed, Stream!OwnRows, Stream!ShouldRun, Stream!pageVars,
       Stream!StreamTypes

LEMMA PublishStep ==
    ASSUME Stream!StreamTypes, Stream!IInv, NEW f \in Fixture, Stream!PublishRow(f)
    PROVE  Stream!IInv'
<1>1. /\ rows[f] \in 0 .. MaxRows /\ rows[f] < MaxRows
      /\ rows' = [rows EXCEPT ![f] = @ + 1] /\ rows \in [Fixture -> 0 .. MaxRows]
      /\ UNCHANGED <<task, attempt, clients, jwt, valid, page, retry, drops>>
  BY DEF Stream!PublishRow, Stream!IInv, Stream!ClientsAreOpen, Stream!TypeOK
<1>2. rows' \in [Fixture -> 0 .. MaxRows] /\ \A g \in Fixture : rows[g] <= rows'[g]
      /\ rows'[f] = rows[f] + 1
  BY <1>1 DEF Stream!StreamTypes
<1>3. \/ shown' = shown
      \/ shown' = [p \in Page |-> IF p \in Stream!Broadcast(f) THEN rows[f] + 1 ELSE shown[p]]
  BY DEF Stream!PublishRow
<1>4. shown' \in [Page -> 0 .. MaxRows]
  BY <1>1, <1>3
     DEF Stream!IInv, Stream!ClientsAreOpen, Stream!TypeOK, Stream!StreamTypes
<1>5. Stream!OwnRows'
  <2> SUFFICES ASSUME NEW p \in Page PROVE shown'[p] <= rows'[FixtureOf[p]]
    BY DEF Stream!OwnRows
  <2>1. FixtureOf[p] \in Fixture /\ shown[p] <= rows[FixtureOf[p]] /\ shown[p] \in 0 .. MaxRows
    BY
       DEF Stream!StreamTypes, Stream!IInv, Stream!ClientsAreOpen, Stream!TypeOK,
           Stream!OwnRows
  <2>2. shown'[p] = shown[p] \/ (shown'[p] = rows[f] + 1 /\ FixtureOf[p] = f)
    BY <1>3 DEF Stream!Broadcast
  <2> QED
    BY <1>1, <1>2, <2>1, <2>2 DEF Stream!StreamTypes
<1> QED
  BY <1>1, <1>2, <1>4, <1>5
     DEF Stream!IInv, Stream!ClientsAreOpen, Stream!TypeOK, Stream!UpstreamServed,
         Stream!ShouldRun

LEMMA TokenStep ==
    ASSUME Stream!StreamTypes, Stream!IInv, Stream!TokenExpires
    PROVE  Stream!IInv'
BY
   DEF Stream!TokenExpires, Stream!IInv, Stream!ClientsAreOpen, Stream!TypeOK,
       Stream!UpstreamServed, Stream!OwnRows, Stream!ShouldRun, Stream!pageVars,
       Stream!StreamTypes

LEMMA PageSteps ==
    ASSUME Stream!StreamTypes, Stream!IInv, NEW p \in Page,
           Stream!Connect(p) \/ Stream!Open(p) \/ Stream!PageDrops(p) \/ Stream!Leave(p)
    PROVE  Stream!IInv'
<1>1. CASE Stream!Connect(p)
  BY <1>1
     DEF Stream!Connect, Stream!IInv, Stream!ClientsAreOpen, Stream!TypeOK,
         Stream!UpstreamServed, Stream!OwnRows, Stream!ShouldRun
<1>2. CASE Stream!Open(p)
  <2>1. task' # "none" /\ task' \in {"start", "fetch", "streaming", "sleep"} /\ attempt' \in 0 .. 6
    BY <1>2
       DEF Stream!Open, Stream!EnsureUpstream, Stream!IInv, Stream!ClientsAreOpen,
           Stream!TypeOK
  <2> QED
    BY <1>2, <2>1
       DEF Stream!Open, Stream!IInv, Stream!ClientsAreOpen, Stream!TypeOK,
           Stream!UpstreamServed, Stream!OwnRows, Stream!ShouldRun
<1>3. CASE Stream!PageDrops(p)
  BY <1>3
     DEF Stream!PageDrops, Stream!IInv, Stream!ClientsAreOpen, Stream!TypeOK,
         Stream!UpstreamServed, Stream!OwnRows, Stream!ShouldRun, Stream!StreamTypes,
         Stream!Least
<1>4. CASE Stream!Leave(p)
  <2>1. \A q \in Page : shown'[q] <= rows[FixtureOf[q]] /\ shown'[q] \in 0 .. MaxRows
    BY <1>4
       DEF Stream!Leave, Stream!IInv, Stream!ClientsAreOpen, Stream!TypeOK,
           Stream!OwnRows, Stream!StreamTypes
  <2> QED
    BY <1>4, <2>1
       DEF Stream!Leave, Stream!IInv, Stream!ClientsAreOpen, Stream!TypeOK,
           Stream!UpstreamServed, Stream!OwnRows, Stream!ShouldRun
<1> QED
  BY <1>1, <1>2, <1>3, <1>4

LEMMA HubConsecution ==
    ASSUME Stream!StreamTypes, Stream!IInv, [Stream!Next]_Stream!vars
    PROVE  Stream!IInv'
<1>1. CASE UNCHANGED Stream!vars
  BY <1>1
     DEF Stream!vars, Stream!pageVars, Stream!IInv, Stream!ClientsAreOpen,
         Stream!TypeOK, Stream!UpstreamServed, Stream!OwnRows, Stream!ShouldRun
<1>2. CASE Stream!Next
  BY <1>2, HubSteps, UpstreamDropsStep, PublishStep, TokenStep, PageSteps
     DEF Stream!Next
<1> QED
  BY <1>1, <1>2

\* Whoever listens, the upstream task runs; every client is an open page and the
\* other way round; and a page shows rows of its own fixture only.
THEOREM StreamServed ==
    ASSUME Stream!StreamTypes
    PROVE  Stream!Spec => [](Stream!UpstreamServed /\ Stream!OwnRows)
<1>1. Stream!IInv => Stream!UpstreamServed /\ Stream!OwnRows
  BY DEF Stream!IInv
<1> QED
  BY <1>1, HubInitially, HubConsecution, PTL DEF Stream!Spec

-----------------------------------------------------------------------------
(* The profiles: types, and one patch of a kind at a time for each hook *)

LEMMA ProfileInitially == ASSUME Profile!ProfilesTypes, Profile!Init PROVE Profile!TypeOK
BY DEF Profile!ProfilesTypes, Profile!Init, Profile!TypeOK, Profile!Unknown

LEMMA UpsertTypes ==
    ASSUME Profile!ProfilesTypes, Profile!TypeOK, NEW r \in req, Profile!Upsert(r)
    PROVE  user' \in Profile!User /\ user' # None /\ saved' \in Name \cup {None}
<1>1. r.name \in Profile!AnyName \cup {None} /\ r.email \in BOOLEAN
      /\ user \in Profile!User \cup {None} /\ Fallback \in Profile!AnyName
  BY DEF Profile!TypeOK, Profile!AnyName, Profile!ProfilesTypes
<1>2. None \notin Profile!AnyName /\ None \notin Profile!User
  BY DEF Profile!ProfilesTypes, Profile!AnyName
<1>3. user' \in Profile!User
  <2>1. CASE user = None
    BY <1>1, <2>1 DEF Profile!Upsert, Profile!User
  <2>2. CASE user # None
    <3>1. user.name \in Profile!AnyName /\ user.email \in BOOLEAN
      BY <1>1, <2>2 DEF Profile!User
    <3>2. (user.email \/ r.email) \in BOOLEAN
      OBVIOUS
    <3>3. user' = [name |-> IF r.name = None THEN user.name ELSE r.name,
                   email |-> user.email \/ r.email]
      BY <2>2 DEF Profile!Upsert
    <3> QED
      BY <1>1, <3>1, <3>2, <3>3 DEF Profile!User
  <2> QED
    BY <2>1, <2>2
<1>4. saved' \in Name \cup {None}
  BY DEF Profile!Upsert, Profile!TypeOK
<1> QED
  BY <1>2, <1>3, <1>4

\* A step that sends nothing, and lowers the flag of no hook that has a heal under way.
LEMMA QuietTypes ==
    ASSUME Profile!TypeOK, req' \subseteq req, UNCHANGED visits, onMe' \subseteq Page,
           user' \in Profile!User \cup {None}, saved' \in Name \cup {None},
           data' \in [Page -> [known : BOOLEAN, user : Profile!User \cup {None}]],
           provisioning' \subseteq provisioning,
           \A h \in due' : h \in Profile!Hook /\ h.visit <= visits[h.page],
           \A r \in req' : r.kind = "heal" => r.hook \in provisioning'
    PROVE  Profile!TypeOK'
BY DEF Profile!TypeOK, Profile!User, Profile!AnyName, Profile!Hook

LEMMA HooksTypes ==
    ASSUME Profile!TypeOK, NEW pg \in Page, NEW h \in Profile!Hooks(pg)
    PROVE  h \in Profile!Hook /\ h.visit <= visits[h.page] /\ h.page = pg
BY DEF Profile!TypeOK, Profile!Hooks, Profile!HookOf, Profile!Hook

\* A hook that fetches has no heal under way.
LEMMA FetchingSendsNothing ==
    ASSUME NEW pg, NEW r \in req, r.kind = "heal"
    PROVE  r.hook \notin Profile!Fetching(pg)
BY DEF Profile!Fetching

LEMMA AnswerTypes ==
    ASSUME Profile!ProfilesTypes, Profile!TypeOK, NEW r \in req, Profile!Answer(r)
    PROVE  Profile!TypeOK'
<1>1. user' \in Profile!User \cup {None} /\ saved' \in Name \cup {None}
  BY UpsertTypes DEF Profile!Answer
<1>2. /\ req' \subseteq req /\ UNCHANGED <<visits, onMe, data, due>>
      /\ provisioning' \subseteq provisioning
      /\ \A q \in req' : q.kind = "heal" => q.hook \in provisioning'
  BY FetchingSendsNothing DEF Profile!Answer, Profile!TypeOK
<1>3. /\ onMe' \subseteq Page
      /\ data' \in [Page -> [known : BOOLEAN, user : Profile!User \cup {None}]]
      /\ \A h \in due' : h \in Profile!Hook /\ h.visit <= visits[h.page]
  BY <1>2 DEF Profile!TypeOK
<1> QED
  BY <1>1, <1>2, <1>3, QuietTypes

LEMMA FailTypes ==
    ASSUME Profile!ProfilesTypes, Profile!TypeOK, NEW r \in req, Profile!Fail(r)
    PROVE  Profile!TypeOK'
<1>1. user' \in Profile!User \cup {None} /\ saved' \in Name \cup {None}
  BY UpsertTypes DEF Profile!Fail, Profile!TypeOK
<1>2. /\ req' = req \ {r} /\ UNCHANGED <<visits, onMe, data, due>>
      /\ provisioning' = IF r.kind = "heal" THEN provisioning \ {r.hook} ELSE provisioning
  BY DEF Profile!Fail
<1>3. \A q \in req' : q.kind = "heal" => q.hook \in provisioning'
  BY <1>2 DEF Profile!TypeOK
<1>4. /\ onMe' \subseteq Page /\ req' \subseteq req /\ provisioning' \subseteq provisioning
      /\ data' \in [Page -> [known : BOOLEAN, user : Profile!User \cup {None}]]
      /\ \A h \in due' : h \in Profile!Hook /\ h.visit <= visits[h.page]
  BY <1>2 DEF Profile!TypeOK
<1> QED
  BY <1>1, <1>2, <1>3, <1>4, QuietTypes

LEMMA QueryTypes ==
    ASSUME Profile!ProfilesTypes, Profile!TypeOK, NEW pg \in Page,
           Profile!Fetch(pg) \/ Profile!FetchFails(pg) \/ Profile!Refetch(pg) \/ Profile!LearnEmail(pg)
           \/ Profile!LeaveMe(pg)
    PROVE  Profile!TypeOK'
<1>1. /\ UNCHANGED <<user, req, saved, visits>> /\ onMe' \subseteq onMe
      /\ provisioning' \in {provisioning, provisioning \ Profile!Fetching(pg)}
      /\ due' \in {due, due \cup Profile!Hooks(pg)}
      /\ data' \in {data, [data EXCEPT ![pg] = [known |-> TRUE, user |-> user]]}
  BY DEF Profile!Fetch, Profile!FetchFails, Profile!Refetch, Profile!LearnEmail, Profile!LeaveMe,
         Profile!Known
<1>2. \A h \in due' : h \in Profile!Hook /\ h.visit <= visits[h.page]
  BY <1>1, HooksTypes DEF Profile!TypeOK
<1>3. \A r \in req' : r.kind = "heal" => r.hook \in provisioning'
  BY <1>1, FetchingSendsNothing DEF Profile!TypeOK
<1>4. data' \in [Page -> [known : BOOLEAN, user : Profile!User \cup {None}]]
  <2>1. [known |-> TRUE, user |-> user] \in [known : BOOLEAN, user : Profile!User \cup {None}]
    BY DEF Profile!TypeOK
  <2> QED
    BY <1>1, <2>1 DEF Profile!TypeOK
<1>5. /\ user' \in Profile!User \cup {None} /\ saved' \in Name \cup {None} /\ req' \subseteq req
      /\ onMe' \subseteq Page /\ provisioning' \subseteq provisioning
  BY <1>1 DEF Profile!TypeOK
<1> QED
  BY <1>1, <1>2, <1>3, <1>4, <1>5, QuietTypes

LEMMA OpenMeTypes ==
    ASSUME Profile!TypeOK, NEW pg \in Page, NEW old \in BOOLEAN, Profile!OpenMe(pg, old)
    PROVE  Profile!TypeOK'
<1>1. /\ UNCHANGED <<user, data, req, saved, provisioning>>
      /\ onMe' = onMe \cup {pg} /\ visits' = [visits EXCEPT ![pg] = @ + 1]
      /\ due' = due \cup {[page |-> pg, visit |-> visits'[pg]]}
  BY DEF Profile!OpenMe, Profile!HookOf
<1>2. visits \in [Page -> Nat]
  BY DEF Profile!TypeOK
<1>3. visits' \in [Page -> Nat] /\ \A p \in Page : visits[p] <= visits'[p]
  BY <1>1, <1>2
<1>4. \A h \in Profile!Hook : h.visit <= visits[h.page] => h.visit <= visits'[h.page]
  BY <1>2, <1>3 DEF Profile!Hook
<1>5. \A h \in due' \cup provisioning' : h \in Profile!Hook /\ h.visit <= visits'[h.page]
  BY <1>1, <1>3, <1>4 DEF Profile!TypeOK, Profile!Hook
<1>6. \A r \in req' : r.hook.visit <= visits'[r.hook.page]
  BY <1>1, <1>4 DEF Profile!TypeOK
<1> QED
  BY <1>1, <1>3, <1>5, <1>6 DEF Profile!TypeOK, Profile!User, Profile!AnyName, Profile!Hook

LEMMA PatchTypes ==
    ASSUME Profile!ProfilesTypes, NEW pg \in Page
    PROVE  /\ Profile!Patch(pg).name \in {EmailName, Fallback, None}
           /\ Profile!Patch(pg).email \in BOOLEAN
<1>1. (pg \in email /\ ~data[pg].user.email) \in BOOLEAN /\ (pg \in email) \in BOOLEAN
  OBVIOUS
<1>2. Profile!Patch(pg).name \in {EmailName, Fallback, None}
  BY DEF Profile!Patch, Profile!FromEmail
<1>3. Profile!Patch(pg).email \in BOOLEAN
  BY <1>1 DEF Profile!Patch
<1> QED
  BY <1>2, <1>3

LEMMA EffectTypes ==
    ASSUME Profile!ProfilesTypes, Profile!TypeOK, NEW pg \in Page, Profile!Effect(pg)
    PROVE  Profile!TypeOK'
<1> DEFINE patch == Profile!Patch(pg)
           Heal(h) == [hook |-> h, kind |-> "heal", name |-> patch.name, email |-> patch.email]
<1>1. /\ UNCHANGED <<user, data, saved, visits, onMe>>
      /\ due' \subseteq due /\ provisioning' = provisioning \cup Profile!Senders(pg)
      /\ req' = req \cup {Heal(h) : h \in Profile!Senders(pg)}
  BY DEF Profile!Effect, Profile!Put
<1>2. \A h \in Profile!Senders(pg) : h \in due /\ h \notin provisioning
  BY DEF Profile!Senders
<1>3. patch.name \in Profile!AnyName \cup {None} /\ patch.email \in BOOLEAN
  BY PatchTypes DEF Profile!AnyName, Profile!ProfilesTypes
<1> HIDE DEF patch
<1>4. \A h \in due : h \in Profile!Hook /\ h.visit <= visits[h.page]
  BY DEF Profile!TypeOK
<1>5. \A r \in req' : \/ r \in req
                      \/ /\ r.hook \in Profile!Senders(pg) /\ r.kind = "heal" /\ r = Heal(r.hook)
                         /\ r \in [hook : Profile!Hook, kind : {"heal", "save"},
                                   name : Profile!AnyName \cup {None}, email : BOOLEAN]
  BY <1>1, <1>2, <1>3, <1>4
<1>6. \A r \in req : r.kind = "heal" => r.hook \notin Profile!Senders(pg)
  BY <1>2 DEF Profile!TypeOK
<1>7. \A r, q \in req' : r.hook = q.hook /\ r.kind = q.kind => r = q
  BY <1>5, <1>6 DEF Profile!TypeOK
<1>8. \A r \in req' : r.kind = "heal" => r.hook \in provisioning'
  BY <1>1, <1>5 DEF Profile!TypeOK
<1>9. \A r \in req' : r.hook.visit <= visits[r.hook.page] /\ (r.kind = "save" => r.name \in Name)
  BY <1>2, <1>4, <1>5 DEF Profile!TypeOK
<1>10. req' \subseteq [hook : Profile!Hook, kind : {"heal", "save"}, name : Profile!AnyName \cup {None},
                       email : BOOLEAN]
  BY <1>5 DEF Profile!TypeOK
<1>11. \A h \in due' \cup provisioning' : h \in Profile!Hook /\ h.visit <= visits[h.page]
  BY <1>1, <1>2 DEF Profile!TypeOK
<1> QED
  BY <1>1, <1>7, <1>8, <1>9, <1>10, <1>11 DEF Profile!TypeOK, Profile!User, Profile!AnyName, Profile!Hook

LEMMA RenameTypes ==
    ASSUME Profile!ProfilesTypes, Profile!TypeOK, NEW pg \in Page, NEW name \in Name,
           Profile!Rename(pg, name)
    PROVE  Profile!TypeOK'
<1> DEFINE h == [page |-> pg, visit |-> visits[pg]]
           new == [hook |-> h, kind |-> "save", name |-> name, email |-> FALSE]
<1>1. /\ req' = req \cup {new} /\ UNCHANGED <<user, data, due, provisioning, visits, onMe, saved>>
      /\ ~\E r \in req : r.hook = h /\ r.kind = "save"
  BY DEF Profile!Rename, Profile!Put, Profile!HookOf
<1>2. h \in Profile!Hook /\ h.visit <= visits[h.page]
  BY DEF Profile!TypeOK, Profile!Hook
<1>3. name \in Profile!AnyName
  BY DEF Profile!ProfilesTypes, Profile!AnyName
<1> HIDE DEF h
<1>4. /\ new.hook = h /\ new.kind = "save" /\ new.name = name
      /\ new \in [hook : Profile!Hook, kind : {"heal", "save"}, name : Profile!AnyName \cup {None},
                  email : BOOLEAN]
  BY <1>2, <1>3
<1> HIDE DEF new
<1>5. \A r, q \in req' : r.hook = q.hook /\ r.kind = q.kind => r = q
  BY <1>1, <1>4 DEF Profile!TypeOK
<1>6. req' \subseteq [hook : Profile!Hook, kind : {"heal", "save"}, name : Profile!AnyName \cup {None},
                      email : BOOLEAN]
  BY <1>1, <1>4 DEF Profile!TypeOK
<1>7. \A r \in req' : /\ r.hook.visit <= visits[r.hook.page] /\ (r.kind = "save" => r.name \in Name)
                      /\ r.kind = "heal" => r.hook \in provisioning
  BY <1>1, <1>2, <1>4 DEF Profile!TypeOK
<1> QED
  BY <1>1, <1>5, <1>6, <1>7 DEF Profile!TypeOK, Profile!User, Profile!AnyName, Profile!Hook

LEMMA ProfileConsecution ==
    ASSUME Profile!ProfilesTypes, Profile!TypeOK, [Profile!Next]_(Profile!vars)
    PROVE  Profile!TypeOK'
<1>1. CASE UNCHANGED Profile!vars
  BY <1>1 DEF Profile!vars, Profile!TypeOK, Profile!User, Profile!AnyName, Profile!Hook
<1>2. CASE Profile!Next
  BY <1>2, AnswerTypes, FailTypes, QueryTypes, OpenMeTypes, EffectTypes, RenameTypes DEF Profile!Next
<1> QED
  BY <1>1, <1>2

\* However many hooks and tabs there are, and whatever is overtaken or fails, each hook
\* has one heal under way, and only while its own flag is up (use-profile.ts:54), so two
\* on /me and one elsewhere; each opening of /me has one save under way (me/page.tsx:187).
THEOREM ProfileTypeOK == ASSUME Profile!ProfilesTypes PROVE Profile!Spec => []Profile!TypeOK
<1>1. Profile!Init => Profile!TypeOK
  BY ProfileInitially
<1>2. Profile!TypeOK /\ [Profile!Next]_(Profile!vars) => Profile!TypeOK'
  BY ProfileConsecution
<1> QED
  BY <1>1, <1>2, PTL DEF Profile!Spec

-----------------------------------------------------------------------------
(* The profiles: what overwrites a saved name *)

\* What a heal carries.
HealsName == \A r \in req : r.kind = "heal" => r.name \in {EmailName, Fallback, None}

OverwriteInv == Profile!TypeOK /\ Profile!OnlyHealsOverwrite /\ HealsName

LEMMA UpsertOverwrites ==
    ASSUME Profile!ProfilesTypes, OverwriteInv, NEW r \in req, Profile!Upsert(r)
    PROVE  Profile!OnlyHealsOverwrite'
<1>1. r.kind \in {"heal", "save"} /\ (r.kind = "save" => r.name \in Name) /\ None \notin Name
  BY DEF OverwriteInv, Profile!TypeOK, Profile!ProfilesTypes
<1>2. user' # None
  BY UpsertTypes DEF OverwriteInv
<1>3. user'.name = IF r.name # None THEN r.name ELSE IF user = None THEN Fallback ELSE user.name
  BY DEF Profile!Upsert
<1>4. CASE r.kind = "save"
  BY <1>1, <1>2, <1>3, <1>4 DEF Profile!Upsert, Profile!OnlyHealsOverwrite
<1>5. CASE r.kind = "heal"
  <2>1. saved' = saved /\ r.name \in {EmailName, Fallback, None}
    BY <1>5 DEF Profile!Upsert, OverwriteInv, HealsName
  <2>2. saved # None => user # None /\ user.name \in {saved, EmailName, Fallback} \ {None}
    BY DEF OverwriteInv, Profile!OnlyHealsOverwrite
  <2> QED
    BY <1>2, <1>3, <2>1, <2>2 DEF Profile!OnlyHealsOverwrite
<1> QED
  BY <1>1, <1>4, <1>5

LEMMA OverwriteConsecution ==
    ASSUME Profile!ProfilesTypes, OverwriteInv, [Profile!Next]_(Profile!vars)
    PROVE  OverwriteInv'
<1>1. Profile!TypeOK'
  BY ProfileConsecution DEF OverwriteInv
<1>2. CASE UNCHANGED Profile!vars
  BY <1>1, <1>2 DEF Profile!vars, OverwriteInv, HealsName, Profile!OnlyHealsOverwrite
<1>3. ASSUME NEW r \in req, Profile!Answer(r) \/ Profile!Fail(r) PROVE OverwriteInv'
  <2>1. req' \subseteq req /\ (Profile!Upsert(r) \/ UNCHANGED <<user, saved>>)
    BY <1>3 DEF Profile!Answer, Profile!Fail
  <2>2. HealsName'
    BY <2>1 DEF OverwriteInv, HealsName
  <2>3. Profile!OnlyHealsOverwrite'
    BY <2>1, UpsertOverwrites DEF OverwriteInv, Profile!OnlyHealsOverwrite
  <2> QED
    BY <1>1, <2>2, <2>3 DEF OverwriteInv
<1>4. ASSUME NEW pg \in Page, Profile!Effect(pg) PROVE OverwriteInv'
  <2> DEFINE name == Profile!Patch(pg).name
             mail == Profile!Patch(pg).email
  <2>1. name \in {EmailName, Fallback, None}
    BY PatchTypes
  <2>2. /\ UNCHANGED <<user, saved>>
        /\ req' = req \cup {[hook |-> h, kind |-> "heal", name |-> name, email |-> mail] :
                              h \in Profile!Senders(pg)}
    BY <1>4 DEF Profile!Effect, Profile!Put
  <2> HIDE DEF name, mail
  <2>3. HealsName'
    BY <2>1, <2>2 DEF OverwriteInv, HealsName
  <2> QED
    BY <1>1, <2>2, <2>3 DEF OverwriteInv, Profile!OnlyHealsOverwrite
<1>5. ASSUME NEW pg \in Page, NEW name \in Name, Profile!Rename(pg, name) PROVE OverwriteInv'
  <2>1. UNCHANGED <<user, saved>> /\ \A r \in req' : r \in req \/ r.kind = "save"
    BY <1>5 DEF Profile!Rename, Profile!Put
  <2> QED
    BY <1>1, <2>1 DEF OverwriteInv, HealsName, Profile!OnlyHealsOverwrite
<1>6. ASSUME NEW pg \in Page,
             \/ Profile!Fetch(pg) \/ Profile!FetchFails(pg) \/ Profile!Refetch(pg)
             \/ Profile!LearnEmail(pg) \/ Profile!LeaveMe(pg)
             \/ \E old \in BOOLEAN : Profile!OpenMe(pg, old)
      PROVE  OverwriteInv'
  <2>1. UNCHANGED <<user, saved, req>>
    BY <1>6 DEF Profile!Fetch, Profile!FetchFails, Profile!Refetch, Profile!LearnEmail,
                Profile!LeaveMe, Profile!OpenMe
  <2> QED
    BY <1>1, <2>1 DEF OverwriteInv, HealsName, Profile!OnlyHealsOverwrite
<1> QED
  BY <1>2, <1>3, <1>4, <1>5, <1>6 DEF Profile!Next

\* Whatever tabs and hooks there are, cold openings of /me, late emails and failures, a
\* saved name is lost to a heal only: to the name from the email or from the wallet
\* (use-profile.ts:42, :48).
THEOREM NameLostToHealsOnly ==
    ASSUME Profile!ProfilesTypes PROVE Profile!Spec => []Profile!OnlyHealsOverwrite
<1>1. Profile!Init => OverwriteInv
  BY ProfileInitially DEF Profile!Init, OverwriteInv, HealsName, Profile!OnlyHealsOverwrite
<1>2. OverwriteInv /\ [Profile!Next]_(Profile!vars) => OverwriteInv'
  BY OverwriteConsecution
<1>3. OverwriteInv => Profile!OnlyHealsOverwrite
  BY DEF OverwriteInv
<1> QED
  BY <1>1, <1>2, <1>3, PTL DEF Profile!Spec

-----------------------------------------------------------------------------
(* The profiles: the user owns the name *)

\* One tab, which knows the email when it opens and has the profile before /me is opened,
\* and no name that is taken for the fallback, if the email makes a name: otherwise the
\* code does not keep OwnName.
OwnPage ==
    /\ ~EmailLate /\ ~MeEarly /\ (\A p, q \in Page : p = q)
    /\ EmailName # None => EmailName \notin FanLike /\ Name \cap FanLike = {}

LEMMA OwnInitially == ASSUME Profile!ProfilesTypes, OwnPage, Profile!Init PROVE Profile!OwnInv
<1>1. Profile!TypeOK
  BY ProfileInitially
<1> QED
  BY <1>1 DEF Profile!Init, Profile!OwnInv, Profile!OwnName, Profile!Whole, Profile!Unknown, OwnPage

\* What is beside the record, in a step that writes it.
LEMMA OwnUpsert ==
    ASSUME Profile!ProfilesTypes, OwnPage, Profile!OwnInv, Profile!TypeOK',
           NEW r \in req, Profile!Upsert(r), req' = req \ {r}, UNCHANGED <<email, data, due, visits>>
    PROVE  Profile!OwnInv'
<1>1. Profile!TypeOK /\ user' \in Profile!User /\ user' # None
  BY UpsertTypes DEF Profile!OwnInv
<1>2. r.hook \in Profile!Hook /\ r.kind \in {"heal", "save"} /\ r.hook.page \in Page
  BY <1>1 DEF Profile!TypeOK, Profile!Hook
<1>3. \A pg \in Page : data[pg].known /\ data[pg].user = None => ~\E h \in due : h.page = pg
  <2>1. CASE r.kind = "heal"
    <3>1. data[r.hook.page].known /\ ~\E h \in due : h.page = r.hook.page
      BY <2>1 DEF Profile!OwnInv
    <3> QED
      BY <1>2, <3>1 DEF OwnPage
  <2>2. CASE r.kind = "save"
    BY <2>2 DEF Profile!OwnInv
  <2> QED
    BY <1>2, <2>1, <2>2
<1>4. \A pg \in Page : Profile!Whole(data[pg].user)' /\ (data[pg].user = None => visits[pg] = 0)
  BY DEF Profile!OwnInv, Profile!Whole
<1>5. CASE r.kind = "heal"
  <2>1. user = None /\ r.email /\ r.name = Profile!FirstName /\ saved = None
    BY <1>5 DEF Profile!OwnInv
  <2>2. r.name # None /\ Fallback # None
    BY <2>1 DEF Profile!FirstName, Profile!ProfilesTypes
  <2>3. user' = [name |-> r.name, email |-> TRUE] /\ saved' = None
    BY <1>5, <2>1, <2>2 DEF Profile!Upsert
  <2>4. Profile!Whole(user)'
    BY <2>1, <2>3 DEF Profile!Whole, Profile!FirstName, OwnPage
  <2>5. \A q \in req : q.kind = "heal" /\ q.hook = r.hook
    <3>1. \A q \in req : q.kind = "heal" /\ q.hook.visit = 0 /\ q.hook \in Profile!Hook
      BY <1>1, <2>1 DEF Profile!OwnInv, Profile!TypeOK
    <3>2. \A g, h \in Profile!Hook : g.visit = 0 /\ h.visit = 0 => g = h
      BY DEF Profile!Hook, OwnPage
    <3> QED
      BY <1>5, <3>1, <3>2
  <2>6. req' = {}
    BY <1>1, <1>5, <2>5 DEF Profile!TypeOK
  <2> QED
    BY <1>1, <1>3, <1>4, <2>3, <2>4, <2>6 DEF Profile!OwnInv, Profile!OwnName
<1>6. CASE r.kind = "save"
  <2>1. user # None /\ r.name \in Name /\ r.name # None
    BY <1>1, <1>6 DEF Profile!OwnInv, Profile!TypeOK, Profile!ProfilesTypes
  <2>2. user' = [name |-> r.name, email |-> user.email \/ r.email] /\ saved' = r.name
    BY <1>6, <2>1 DEF Profile!Upsert
  <2>3. Profile!Whole(user)'
    <3>1. user.email
      BY <2>1 DEF Profile!OwnInv, Profile!Whole
    <3>2. user'.name = r.name /\ user'.email
      BY <2>2, <3>1
    <3> QED
      BY <2>1, <3>2 DEF Profile!Whole, OwnPage
  <2>4. \A q \in req' : q.kind # "heal"
    BY <2>1 DEF Profile!OwnInv
  <2>5. user'.name = r.name
    BY <2>2
  <2> QED
    BY <1>1, <1>3, <1>4, <2>2, <2>3, <2>4, <2>5 DEF Profile!OwnInv, Profile!OwnName
<1> QED
  BY <1>2, <1>5, <1>6

\* A step that leaves the record, and gives no data and no hook of a tab without a profile.
LEMMA OwnQuiet ==
    ASSUME Profile!OwnInv, Profile!TypeOK', UNCHANGED <<user, saved, email, data>>, req' \subseteq req,
           newer' \subseteq newer,
           \A pg \in Page : data[pg].user = None =>
               /\ visits'[pg] = visits[pg]
               /\ \A h \in due' : h.page = pg => h \in due
    PROVE  Profile!OwnInv'
<1>1. Profile!Whole(user)' /\ Profile!OwnName' /\ email' = Page /\ (user' = None => saved' = None)
  BY DEF Profile!OwnInv, Profile!Whole, Profile!OwnName
<1>2. \A pg \in Page :
         /\ Profile!Whole(data[pg].user)' /\ (user' = None => data'[pg].user = None)
         /\ data'[pg].user = None => visits'[pg] = 0
         /\ data'[pg].known /\ user' = None => pg \notin newer'
         /\ data'[pg].known /\ data'[pg].user = None /\ user' # None => ~\E h \in due' : h.page = pg
  BY DEF Profile!OwnInv, Profile!Whole
<1>3. \A r \in req' :
         IF r.kind = "heal"
         THEN /\ user' = None /\ r.email /\ r.name = Profile!FirstName /\ r.hook.visit = 0
              /\ data'[r.hook.page].known /\ ~\E h \in due' : h.page = r.hook.page
         ELSE user' # None
  <2> SUFFICES ASSUME NEW r \in req', r.kind = "heal"
               PROVE  /\ user' = None /\ r.email /\ r.name = Profile!FirstName /\ r.hook.visit = 0
                      /\ data'[r.hook.page].known /\ ~\E h \in due' : h.page = r.hook.page
    BY DEF Profile!OwnInv
  <2>1. /\ user = None /\ r.email /\ r.name = Profile!FirstName /\ r.hook.visit = 0
        /\ data[r.hook.page].known /\ ~\E h \in due : h.page = r.hook.page
    BY DEF Profile!OwnInv
  <2>2. r.hook.page \in Page
    BY DEF Profile!OwnInv, Profile!TypeOK, Profile!Hook
  <2>3. data[r.hook.page].user = None
    BY <2>1, <2>2 DEF Profile!OwnInv
  <2> QED
    BY <2>1, <2>2, <2>3
<1> QED
  BY <1>1, <1>2, <1>3 DEF Profile!OwnInv

LEMMA OwnAnswer ==
    ASSUME Profile!ProfilesTypes, OwnPage, Profile!OwnInv, Profile!TypeOK',
           NEW r \in req, Profile!Answer(r) \/ Profile!Fail(r)
    PROVE  Profile!OwnInv'
<1>1. /\ req' = req \ {r} /\ UNCHANGED <<email, data, due, visits>>
      /\ Profile!Upsert(r) \/ UNCHANGED <<user, saved, newer>>
  BY DEF Profile!Answer, Profile!Fail
<1>2. CASE Profile!Upsert(r)
  BY <1>1, <1>2, OwnUpsert
<1>3. CASE UNCHANGED <<user, saved, newer>>
  BY <1>1, <1>3, OwnQuiet
<1> QED
  BY <1>1, <1>2, <1>3

LEMMA OwnFetch ==
    ASSUME Profile!ProfilesTypes, OwnPage, Profile!OwnInv, Profile!TypeOK',
           NEW pg \in Page, Profile!Fetch(pg)
    PROVE  Profile!OwnInv'
<1>1. /\ Profile!TypeOK /\ UNCHANGED <<user, email, req, saved, visits>>
      /\ data' = [data EXCEPT ![pg] = [known |-> TRUE, user |-> user]]
      /\ due' = IF pg \in newer THEN due \cup Profile!Hooks(pg) ELSE due
      /\ newer' = newer \ {pg}
  BY DEF Profile!Fetch, Profile!Known, Profile!OwnInv
<1>2. \A q \in Page : q = pg
  BY DEF OwnPage
<1>3. data'[pg].user = user /\ data'[pg].known
  BY <1>1 DEF Profile!TypeOK
<1>4. /\ Profile!Whole(user)' /\ Profile!OwnName' /\ email' = Page
      /\ user' = None => saved' = None
  BY <1>1 DEF Profile!OwnInv, Profile!OwnName, Profile!Whole
<1>5. Profile!Whole(data[pg].user)' /\ (user' = None => data'[pg].user = None)
  BY <1>1, <1>3, <1>4 DEF Profile!Whole
<1>6. /\ data'[pg].user = None => visits'[pg] = 0
      /\ data'[pg].known /\ user' = None => pg \notin newer'
      /\ data'[pg].known /\ data'[pg].user = None /\ user' # None => ~\E h \in due' : h.page = pg
  BY <1>1, <1>3 DEF Profile!OwnInv
<1>7. \A r \in req' :
         IF r.kind = "heal"
         THEN /\ user' = None /\ r.email /\ r.name = Profile!FirstName /\ r.hook.visit = 0
              /\ data'[r.hook.page].known /\ ~\E h \in due' : h.page = r.hook.page
         ELSE user' # None
  <2> SUFFICES ASSUME NEW r \in req, r.kind = "heal"
               PROVE  /\ user' = None /\ r.email /\ r.name = Profile!FirstName /\ r.hook.visit = 0
                      /\ data'[r.hook.page].known /\ ~\E h \in due' : h.page = r.hook.page
    BY <1>1 DEF Profile!OwnInv
  <2>1. /\ user = None /\ r.email /\ r.name = Profile!FirstName /\ r.hook.visit = 0
        /\ data[r.hook.page].known /\ ~\E h \in due : h.page = r.hook.page
    BY DEF Profile!OwnInv
  <2>2. r.hook.page = pg
    BY <1>1, <1>2 DEF Profile!TypeOK, Profile!Hook
  <2>3. pg \notin newer
    BY <2>1, <2>2 DEF Profile!OwnInv
  <2> QED
    BY <1>1, <1>3, <2>1, <2>2, <2>3
<1> QED
  BY <1>2, <1>4, <1>5, <1>6, <1>7 DEF Profile!OwnInv

LEMMA OwnEffect ==
    ASSUME Profile!ProfilesTypes, OwnPage, Profile!OwnInv, Profile!TypeOK',
           NEW pg \in Page, Profile!Effect(pg)
    PROVE  Profile!OwnInv'
<1> DEFINE patch == Profile!Patch(pg)
<1>1. /\ Profile!TypeOK /\ UNCHANGED <<user, email, data, saved, newer, visits>>
      /\ (\E h \in due : h.page = pg) /\ due' = {h \in due : h.page # pg}
      /\ req' = req \cup {[hook |-> h, kind |-> "heal", name |-> patch.name, email |-> patch.email] :
                            h \in Profile!Senders(pg)}
  BY DEF Profile!Effect, Profile!OwnInv, Profile!Put
<1>2. CASE Profile!Senders(pg) = {}
  <2>1. req' = req /\ due' \subseteq due
    BY <1>1, <1>2
  <2> QED
    BY <1>1, <2>1, OwnQuiet
<1>3. CASE Profile!Senders(pg) # {}
  <2>1. Profile!Ailing(pg)
    BY <1>3 DEF Profile!Senders
  <2>2. data[pg].known /\ data[pg].user = None
    <3> SUFFICES ASSUME data[pg].user # None PROVE FALSE
      BY <2>1 DEF Profile!Ailing
    <3>1. data[pg].user.email /\ (EmailName # None => data[pg].user.name \notin FanLike)
      BY DEF Profile!OwnInv, Profile!Whole
    <3>2. patch = [name |-> None, email |-> FALSE]
      BY <3>1 DEF Profile!Patch, Profile!FromEmail
    <3> QED
      BY <2>1, <3>2 DEF Profile!Ailing
  <2>3. user = None /\ saved = None /\ visits[pg] = 0
    BY <1>1, <2>2 DEF Profile!OwnInv
  <2>4. patch.name = Profile!FirstName /\ patch.email
    <3>1. pg \in email
      BY DEF Profile!OwnInv
    <3> QED
      BY <2>2, <3>1 DEF Profile!Patch, Profile!FromEmail, Profile!FirstName
  <2> HIDE DEF patch
  <2>5. \A h \in Profile!Senders(pg) : h.page = pg /\ h.visit = 0
    <3>1. \A h \in Profile!Senders(pg) : h.page = pg /\ h \in Profile!Hook /\ h.visit <= visits[h.page]
      BY <1>1 DEF Profile!Senders, Profile!TypeOK
    <3> QED
      BY <2>3, <3>1 DEF Profile!Hook
  <2>6. \A r \in req' :
           \/ r \in req
           \/ /\ r.kind = "heal" /\ r.email /\ r.name = Profile!FirstName
              /\ r.hook.page = pg /\ r.hook.visit = 0
    BY <1>1, <2>4, <2>5
  <2>7. \A r \in req' :
           IF r.kind = "heal"
           THEN /\ user' = None /\ r.email /\ r.name = Profile!FirstName /\ r.hook.visit = 0
                /\ data'[r.hook.page].known /\ ~\E h \in due' : h.page = r.hook.page
           ELSE user' # None
    BY <1>1, <2>2, <2>3, <2>6 DEF Profile!OwnInv
  <2>8. \A q \in Page :
           /\ Profile!Whole(data[q].user)' /\ (user' = None => data'[q].user = None)
           /\ data'[q].user = None => visits'[q] = 0
           /\ data'[q].known /\ user' = None => q \notin newer'
    BY <1>1 DEF Profile!OwnInv, Profile!Whole
  <2> QED
    BY <1>1, <2>3, <2>7, <2>8 DEF Profile!OwnInv, Profile!OwnName, Profile!Whole
<1> QED
  BY <1>2, <1>3

LEMMA OwnRename ==
    ASSUME Profile!ProfilesTypes, OwnPage, Profile!OwnInv, Profile!TypeOK',
           NEW pg \in Page, NEW name \in Name, Profile!Rename(pg, name)
    PROVE  Profile!OwnInv'
<1>1. /\ UNCHANGED <<user, email, data, due, newer, saved, visits>> /\ data[pg].user # None
      /\ \A r \in req' : r \in req \/ r.kind = "save"
  BY DEF Profile!Rename, Profile!Put
<1>2. user # None
  BY <1>1 DEF Profile!OwnInv
<1>3. \A r \in req' : r.kind # "heal"
  BY <1>1, <1>2 DEF Profile!OwnInv
<1>4. \A q \in Page :
         /\ Profile!Whole(data[q].user)' /\ (data'[q].user = None => visits'[q] = 0)
         /\ data'[q].known /\ data'[q].user = None => ~\E h \in due' : h.page = q
  BY <1>1, <1>2 DEF Profile!OwnInv, Profile!Whole
<1> QED
  BY <1>1, <1>2, <1>3, <1>4 DEF Profile!OwnInv, Profile!OwnName, Profile!Whole

LEMMA OwnTab ==
    ASSUME Profile!ProfilesTypes, OwnPage, Profile!OwnInv, Profile!TypeOK', NEW pg \in Page,
           \/ Profile!FetchFails(pg) \/ Profile!Refetch(pg) \/ Profile!LeaveMe(pg)
           \/ \E old \in BOOLEAN : Profile!OpenMe(pg, old)
    PROVE  Profile!OwnInv'
<1>1. /\ UNCHANGED <<user, saved, email, data, newer, req>>
      /\ \/ UNCHANGED <<visits, due>>
         \/ /\ data[pg].user # None /\ visits' = [visits EXCEPT ![pg] = @ + 1]
            /\ due' = due \cup {[page |-> pg, visit |-> visits'[pg]]}
  BY DEF Profile!FetchFails, Profile!Refetch, Profile!LeaveMe, Profile!OpenMe, Profile!HookOf, OwnPage
<1>2. \A q \in Page : data[q].user = None =>
         visits'[q] = visits[q] /\ \A h \in due' : h.page = q => h \in due
  BY <1>1 DEF Profile!OwnInv, Profile!TypeOK
<1> QED
  BY <1>1, <1>2, OwnQuiet

LEMMA OwnConsecution ==
    ASSUME Profile!ProfilesTypes, OwnPage, Profile!OwnInv, [Profile!Next]_(Profile!vars)
    PROVE  Profile!OwnInv'
<1>1. Profile!TypeOK'
  BY ProfileConsecution DEF Profile!OwnInv
<1>2. ASSUME NEW pg \in Page, Profile!LearnEmail(pg) PROVE FALSE
  BY <1>2 DEF Profile!LearnEmail, Profile!OwnInv
<1>3. CASE UNCHANGED Profile!vars
  BY <1>1, <1>3, OwnQuiet DEF Profile!vars
<1>4. CASE Profile!Next
  BY <1>1, <1>2, <1>4, OwnAnswer, OwnFetch, OwnEffect, OwnRename, OwnTab DEF Profile!Next
<1> QED
  BY <1>3, <1>4

\* In one tab that knows the email, and has the profile before /me is opened, what the
\* user saved last is the name from when it has arrived: neither of the two hooks of /me
\* finds anything to heal, whatever is overtaken or fails (use-profile.ts:11, :47-49).
THEOREM NameIsOwned ==
    ASSUME Profile!ProfilesTypes, OwnPage
    PROVE  Profile!Spec => []Profile!OwnName
<1>1. Profile!Init => Profile!OwnInv
  BY OwnInitially
<1>2. Profile!OwnInv /\ [Profile!Next]_(Profile!vars) => Profile!OwnInv'
  BY OwnConsecution
<1>3. Profile!OwnInv => Profile!OwnName
  BY DEF Profile!OwnInv
<1> QED
  BY <1>1, <1>2, <1>3, PTL DEF Profile!Spec

-----------------------------------------------------------------------------
(* The fixtures and their cache: data and ticks *)

LEMMA DataTypes ==
    ASSUME NEW kept \in Cache!Data, NEW f \in DOMAIN kept
    PROVE  /\ kept \in [Cache!Listed -> [ts : Nat, score : Nat \cup {Cache!NoScore}]]
           /\ f \in Cache!Listed
           /\ kept[f].score \in Nat \cup {Cache!NoScore}
<1>1. kept # Cache!NoData
  BY DEF Cache!NoData
<1> QED
  BY <1>1 DEF Cache!Data

LEMMA NoDataIsFresh ==
    ASSUME NEW t
    PROVE  /\ Cache!NotBefore(Cache!NoData, t) /\ Cache!Scored(Cache!NoData)
           /\ Cache!NoData \in Cache!Data
BY DEF Cache!NotBefore, Cache!Scored, Cache!NoData, Cache!Data

\* What is from a tick or later is from any tick before it or later.
LEMMA EarlierTick ==
    ASSUME Cache!FixturesTypes, Cache!TypeOK, Cache!PastIsPast, NEW kept \in Cache!Data,
           NEW t \in 0 .. now, NEW u \in 0 .. now, t <= u, Cache!NotBefore(kept, u)
    PROVE  Cache!NotBefore(kept, t)
<1> SUFFICES ASSUME NEW f \in DOMAIN kept, kept[f].score # Cache!NoScore
             PROVE  kept[f].score >= past[t][f]
  BY DEF Cache!NotBefore
<1>1. f \in Fixture /\ kept[f].score \in Nat
  BY DataTypes DEF Cache!Listed, Cache!FixturesTypes
<1>2. past[t][f] \in Nat /\ past[u][f] \in Nat
  <2>1. past[t] \in [Fixture -> Nat] /\ past[u] \in [Fixture -> Nat]
    BY DEF Cache!TypeOK
  <2> QED
    BY <1>1, <2>1
<1>3. past[t][f] <= past[u][f]
  BY <1>1 DEF Cache!PastIsPast
<1>4. kept[f].score >= past[u][f]
  BY DEF Cache!NotBefore
<1> QED
  BY <1>1, <1>2, <1>3, <1>4

LEMMA LaterTypes ==
    ASSUME Cache!FixturesTypes, NEW t \in Int, t <= now, now \in Nat
    PROVE  /\ Cache!Later(0, t) \in 0 .. now
           /\ t >= 0 => Cache!Later(0, t) = t
           /\ \A u \in Int : t <= u => Cache!Later(0, t) <= Cache!Later(0, u)
BY DEF Cache!Later

-----------------------------------------------------------------------------
(* The lists *)

LEMMA NewestOf ==
    ASSUME NEW n \in Nat \ {0},
           NEW seq \in {[ts \in 1 .. n |-> ts], Cache!Reverse([ts \in 1 .. n |-> ts])}
    PROVE  Cache!Max(Cache!ToSet(seq)) = n
<1> DEFINE up == [ts \in 1 .. n |-> ts]
<1>1. Len(up) = n /\ DOMAIN up = 1 .. n /\ \A i \in 1 .. n : up[i] = i
  OBVIOUS
<1> HIDE DEF up
<1>2. Cache!ToSet(up) = 1 .. n
  BY <1>1 DEF Cache!ToSet
<1>3. Cache!Reverse(up) = [i \in 1 .. n |-> n - i + 1]
  <2>1. \A i \in 1 .. n : up[(n - i) + 1] = n - i + 1
    BY <1>1
  <2> QED
    BY <1>1, <2>1 DEF Cache!Reverse
<1>4. Cache!ToSet(Cache!Reverse(up)) = 1 .. n
  <2>1. \A x \in 1 .. n : n - x + 1 \in 1 .. n /\ x = n - (n - x + 1) + 1
    OBVIOUS
  <2>2. Cache!ToSet(Cache!Reverse(up)) = {n - i + 1 : i \in 1 .. n}
    BY <1>3 DEF Cache!ToSet
  <2> QED
    BY <2>1, <2>2
<1>5. Cache!ToSet(seq) = 1 .. n
  BY <1>2, <1>4 DEF up
<1>6. Cache!Max(1 .. n) = n
  BY DEF Cache!Max
<1> QED
  BY <1>5, <1>6

\* Whichever order the rows of the lists have: every fixture, with its newest row.
LEMMA ListsWhole ==
    ASSUME Cache!FixturesTypes, Cache!TypeOK, NEW newestFirst \in BOOLEAN
    PROVE  /\ DOMAIN Cache!Dedupe(Cache!Relevant(newestFirst)) = Cache!Listed
           /\ \A f \in Cache!Listed : Cache!Dedupe(Cache!Relevant(newestFirst))[f] = raw[f] /\ raw[f] \in Nat
<1>1. DOMAIN Cache!Dedupe(Cache!Relevant(newestFirst)) = Cache!Listed
  BY DEF Cache!Dedupe, Cache!Relevant, Cache!Listed
<1>2. ASSUME NEW f \in Cache!Listed
      PROVE  Cache!Dedupe(Cache!Relevant(newestFirst))[f] = raw[f] /\ raw[f] \in Nat
  <2>1. f \in Fixture /\ raw[f] \in Nat \ {0}
    BY DEF Cache!Listed, Cache!FixturesTypes, Cache!TypeOK
  <2>2. Cache!Relevant(newestFirst)[f] \in
          {[ts \in 1 .. raw[f] |-> ts], Cache!Reverse([ts \in 1 .. raw[f] |-> ts])}
    BY DEF Cache!Relevant, Cache!Listed
  <2>3. Cache!Dedupe(Cache!Relevant(newestFirst))[f] =
          Cache!Max(Cache!ToSet(Cache!Relevant(newestFirst)[f]))
    BY DEF Cache!Dedupe, Cache!Relevant, Cache!Listed
  <2> QED
    BY <2>1, <2>2, <2>3, NewestOf
<1> QED
  BY <1>1, <1>2

-----------------------------------------------------------------------------
(* The steps of time and of TxLINE *)

LEMMA CacheInitially == ASSUME Cache!FixturesTypes, Cache!Init PROVE Cache!IInv
<1>1. Cache!TypeOK
  <2>1. now = 0 /\ past = [t \in {0} |-> score] /\ score \in [Fixture -> Nat] /\ {0} = 0 .. now
    BY DEF Cache!Init
  <2>2. load \in [Load -> {Cache!Idle}] /\ served \in [Load -> {Cache!Unserved}]
    BY DEF Cache!Init
  <2>3. Cache!Idle \in [pc : {"idle", "lists", "scores"}, since : 0 .. now, data : Cache!Data,
                  left : SUBSET Cache!Listed, retried : SUBSET (Cache!Listed \cup {"lists"})]
    BY <2>1 DEF Cache!Idle, Cache!Data
  <2>4. Cache!Unserved \in [since : 0 .. now, data : Cache!Data, ok : BOOLEAN]
    BY <2>1 DEF Cache!Unserved, Cache!Data
  <2> QED
    BY <2>1, <2>2, <2>3, <2>4
       DEF Cache!Init, Cache!TypeOK, Cache!FixturesTypes, Cache!Data
<1>2. Cache!PastIsPast
  BY DEF Cache!Init, Cache!PastIsPast
<1>3. \A l \in Load : load[l] = Cache!Idle /\ served[l] = Cache!Unserved
  BY DEF Cache!Init
<1>4. /\ Cache!NotBefore(Cache!NoData, Cache!Later(0, cache.at))
      /\ cache.data = Cache!NoData /\ ~(cache.at >= 0)
  BY NoDataIsFresh DEF Cache!Init, Cache!FixturesTypes
<1>5. Cache!FetchedSince /\ Cache!LoadsWhole /\ Cache!FetchesAllScores
  BY <1>3, <1>4, NoDataIsFresh
     DEF Cache!FetchedSince, Cache!LoadsWhole, Cache!FetchesAllScores, Cache!Idle
<1>6. Cache!FreshEnough /\ Cache!AllFixtures /\ Cache!ExpirySurvived
  BY <1>3, NoDataIsFresh
     DEF Cache!FreshEnough, Cache!AllFixtures, Cache!ExpirySurvived, Cache!Unserved
<1> QED
  BY <1>1, <1>2, <1>5, <1>6 DEF Cache!IInv

\* Data are judged by the ticks up to now.
LEMMA JudgedByPast ==
    ASSUME Cache!FixturesTypes, Cache!TypeOK, NEW kept, NEW t \in 0 .. now,
           Cache!NotBefore(kept, t),
           \A u \in 0 .. now : past'[u] = past[u]
    PROVE  \A f \in DOMAIN kept : kept[f].score # Cache!NoScore => kept[f].score >= past'[t][f]
BY DEF Cache!NotBefore

\* What was asked for and answered stays fresh when only the clock, TxLINE or the
\* token changes.
LEMMA WorldSteps ==
    ASSUME Cache!FixturesTypes, Cache!IInv, UNCHANGED <<cache, load, served, faults, jwt>>,
           now' \in Nat, now <= now', now' <= MaxTime, valid' \in Nat, valid <= valid',
           \A u \in 0 .. now : past'[u] = past[u],
           past' \in [0 .. now' -> [Fixture -> Nat]],
           raw' \in [Fixture -> Nat \ {0}], score' \in [Fixture -> Nat],
           Cache!PastIsPast'
    PROVE  Cache!IInv'
<1>1. Cache!TypeOK /\ now \in Nat /\ jwt \in 1 .. valid /\ cache.at \in -CacheMs .. now
  BY DEF Cache!IInv, Cache!TypeOK
<1>2. Cache!TypeOK'
  <2>1. load \in [Load -> [pc : {"idle", "lists", "scores"}, since : 0 .. now', data : Cache!Data,
                           left : SUBSET Cache!Listed, retried : SUBSET (Cache!Listed \cup {"lists"})]]
    BY <1>1 DEF Cache!TypeOK
  <2>2. served \in [Load -> [since : 0 .. now', data : Cache!Data, ok : BOOLEAN]]
    BY <1>1 DEF Cache!TypeOK
  <2>3. cache.at \in -CacheMs .. now'
    BY <1>1 DEF Cache!FixturesTypes
  <2> QED
    BY <1>1, <2>1, <2>2, <2>3 DEF Cache!TypeOK
<1>3. Cache!FetchedSince'
  <2>1. ASSUME NEW l \in Load, load[l].pc = "scores"
        PROVE  \A f \in DOMAIN load[l].data :
                 load[l].data[f].score # Cache!NoScore => load[l].data[f].score >= past'[load[l].since][f]
    <3>1. load[l].since \in 0 .. now /\ Cache!NotBefore(load[l].data, load[l].since)
      BY <1>1, <2>1 DEF Cache!TypeOK, Cache!IInv, Cache!FetchedSince
    <3> QED
      BY <1>1, <3>1, JudgedByPast
  <2>2. \A f \in DOMAIN cache.data :
          cache.data[f].score # Cache!NoScore => cache.data[f].score >= past'[Cache!Later(0, cache.at)][f]
    <3>1. /\ Cache!Later(0, cache.at) \in 0 .. now
          /\ Cache!NotBefore(cache.data, Cache!Later(0, cache.at))
      BY <1>1, LaterTypes DEF Cache!IInv, Cache!FetchedSince
    <3> QED
      BY <1>1, <3>1, JudgedByPast
  <2> QED
    BY <2>1, <2>2 DEF Cache!FetchedSince, Cache!NotBefore
<1>4. Cache!FreshEnough'
  <2>1. ASSUME NEW l \in Load
        PROVE  \A f \in DOMAIN served[l].data : served[l].data[f].score # Cache!NoScore =>
                 served[l].data[f].score >= past'[Cache!Later(0, served[l].since - CacheMs + 1)][f]
    <3>1. served[l].since \in 0 .. now
      BY <1>1 DEF Cache!TypeOK
    <3>2. served[l].since - CacheMs + 1 \in Int /\ served[l].since - CacheMs + 1 <= now
      <4> DEFINE s == served[l].since
      <4>1. s \in 0 .. now /\ now \in Nat /\ CacheMs \in Nat /\ CacheMs >= 1
        BY <1>1, <3>1 DEF Cache!FixturesTypes
      <4> HIDE DEF s
      <4>2. s - CacheMs + 1 \in Int /\ s - CacheMs + 1 <= now
        BY <4>1
      <4> QED
        BY <4>2 DEF s
    <3>3. Cache!Later(0, served[l].since - CacheMs + 1) \in 0 .. now
      BY <1>1, <3>2, LaterTypes
    <3>4. Cache!NotBefore(served[l].data, Cache!Later(0, served[l].since - CacheMs + 1))
      BY DEF Cache!IInv, Cache!FreshEnough
    <3> QED
      BY <1>1, <3>3, <3>4, JudgedByPast
  <2> QED
    BY <2>1 DEF Cache!FreshEnough, Cache!NotBefore
<1>5. Cache!LoadsWhole' /\ Cache!AllFixtures'
  BY DEF Cache!IInv, Cache!LoadsWhole, Cache!AllFixtures
<1>6. Cache!FetchesAllScores'
  BY DEF Cache!IInv, Cache!FetchesAllScores, Cache!Scored, Cache!TypeOK
<1>7. Cache!ExpirySurvived'
  BY DEF Cache!IInv, Cache!ExpirySurvived, Cache!Scored, Cache!TypeOK
<1> QED
  BY <1>2, <1>3, <1>4, <1>5, <1>6, <1>7 DEF Cache!IInv

LEMMA WorldStep ==
    ASSUME Cache!FixturesTypes, Cache!IInv,
           Cache!Tick \/ Cache!TokenExpires \/ \E f \in Fixture : Cache!Change(f)
    PROVE  Cache!IInv'
<1>1. /\ Cache!TypeOK /\ Cache!PastIsPast /\ now \in Nat /\ MaxTime \in Nat /\ now <= MaxTime
      /\ past \in [0 .. now -> [Fixture -> Nat]] /\ score \in [Fixture -> Nat]
      /\ raw \in [Fixture -> Nat \ {0}] /\ valid \in Nat
  BY DEF Cache!IInv, Cache!TypeOK, Cache!FixturesTypes
<1>2. CASE Cache!Tick
  <2>1. /\ now' = now + 1 /\ now < MaxTime
        /\ past' = [t \in 0 .. now + 1 |-> IF t <= now THEN past[t] ELSE score]
        /\ UNCHANGED <<raw, score, cache, jwt, valid, load, served, faults>>
    BY <1>2 DEF Cache!Tick
  <2>2. /\ \A u \in 0 .. now : past'[u] = past[u]
        /\ past'[now'] = score
        /\ past' \in [0 .. now' -> [Fixture -> Nat]]
    BY <1>1, <2>1
  <2>3. Cache!PastIsPast'
    <3> SUFFICES ASSUME NEW f \in Fixture
                 PROVE  /\ past'[now'][f] <= score'[f]
                        /\ \A t, u \in 0 .. now' : t <= u => past'[t][f] <= past'[u][f]
      BY DEF Cache!PastIsPast
    <3>1. score[f] \in Nat /\ \A t \in 0 .. now : past[t][f] \in Nat
      <4>1. \A t \in 0 .. now : past[t] \in [Fixture -> Nat]
        BY <1>1
      <4> QED
        BY <1>1, <4>1
    <3>2. past[now][f] <= score[f] /\ \A t, u \in 0 .. now : t <= u => past[t][f] <= past[u][f]
      BY <1>1 DEF Cache!PastIsPast
    <3>3. \A t \in 0 .. now : past[t][f] <= score[f]
      <4> SUFFICES ASSUME NEW t \in 0 .. now PROVE past[t][f] <= score[f]
        OBVIOUS
      <4>1. past[t][f] <= past[now][f]
        BY <1>1, <3>2
      <4> QED
        BY <1>1, <3>1, <3>2, <4>1
    <3>4. ASSUME NEW t \in 0 .. now', NEW u \in 0 .. now', t <= u
          PROVE  past'[t][f] <= past'[u][f]
      <4>1. CASE u \in 0 .. now
        <5>1. t \in 0 .. now
          BY <1>1, <3>4, <4>1
        <5>2. past[t][f] <= past[u][f]
          BY <3>2, <3>4, <4>1, <5>1
        <5> QED
          BY <2>2, <4>1, <5>1, <5>2
      <4>2. CASE u = now' /\ t \in 0 .. now
        BY <2>2, <3>3, <4>2
      <4>3. CASE u = now' /\ t = now'
        BY <2>2, <3>1, <4>3
      <4> QED
        BY <1>1, <2>1, <3>4, <4>1, <4>2, <4>3
    <3> QED
      BY <2>1, <2>2, <3>1, <3>4
  <2> QED
    BY <1>1, <2>1, <2>2, <2>3, WorldSteps
<1>3. CASE Cache!TokenExpires
  <2>1. UNCHANGED <<now, Cache!feedVars, cache, jwt, load, served, faults>> /\ valid' = valid + 1
    BY <1>3 DEF Cache!TokenExpires
  <2>2. Cache!PastIsPast'
    BY <1>1, <2>1 DEF Cache!PastIsPast, Cache!feedVars
  <2> QED
    BY <1>1, <2>1, <2>2, WorldSteps DEF Cache!feedVars
<1>4. ASSUME NEW g \in Fixture, Cache!Change(g)
      PROVE  Cache!IInv'
  <2>1. UNCHANGED <<now, past, cache, jwt, valid, load, served, faults>>
    BY <1>4 DEF Cache!Change
  <2>2. /\ raw' \in [Fixture -> Nat \ {0}] /\ score' \in [Fixture -> Nat]
        /\ \A f \in Fixture : score[f] <= score'[f]
    <3>1. score[g] + 1 \in Nat /\ raw[g] + 1 \in Nat \ {0}
      BY <1>1
    <3>2. CASE score' = [score EXCEPT ![g] = score[g] + 1] /\ raw' = raw
      <4>1. score' \in [Fixture -> Nat]
        BY <1>1, <3>1, <3>2
      <4>2. ASSUME NEW f \in Fixture PROVE score[f] <= score'[f]
        <5>1. score[f] \in Nat /\ score'[f] = IF f = g THEN score[g] + 1 ELSE score[f]
          BY <1>1, <3>2
        <5> QED
          BY <5>1
      <4> QED
        BY <1>1, <3>2, <4>1, <4>2
    <3>3. CASE raw' = [raw EXCEPT ![g] = raw[g] + 1] /\ score' = score
      <4>1. raw' \in [Fixture -> Nat \ {0}]
        BY <1>1, <3>1, <3>3
      <4>2. ASSUME NEW f \in Fixture PROVE score[f] <= score'[f]
        <5>1. score[f] \in Nat /\ score'[f] = score[f]
          BY <1>1, <3>3
        <5> QED
          BY <5>1
      <4> QED
        BY <1>1, <3>3, <4>1, <4>2
    <3> QED
      BY <1>4, <3>2, <3>3 DEF Cache!Change
  <2>3. Cache!PastIsPast'
    <3> SUFFICES ASSUME NEW f \in Fixture
                 PROVE  past[now][f] <= score'[f]
      BY <1>1, <2>1 DEF Cache!PastIsPast
    <3>1. past[now] \in [Fixture -> Nat] /\ past[now][f] <= score[f]
      BY <1>1 DEF Cache!PastIsPast
    <3> QED
      BY <1>1, <2>2, <3>1
  <2> QED
    BY <1>1, <2>1, <2>2, <2>3, WorldSteps
<1> QED
  BY <1>2, <1>3, <1>4

-----------------------------------------------------------------------------
(* The steps of a request *)

\* The invariant of one load, one answer and the cache; clear says that nothing
\* failed and that the token expired once at most.
LoadRecord == [pc : {"idle", "lists", "scores"}, since : 0 .. now, data : Cache!Data,
               left : SUBSET Cache!Listed, retried : SUBSET (Cache!Listed \cup {"lists"})]
AnswerRecord == [since : 0 .. now, data : Cache!Data, ok : BOOLEAN]

LoadFine(r, token, clear) ==
    /\ r \in LoadRecord
    /\ r.pc = "scores" => Cache!NotBefore(r.data, r.since) /\ DOMAIN r.data = Cache!Listed
    /\ clear =>
         /\ r.retried # {} => token = 2
         /\ r.pc = "scores" => \A f \in DOMAIN r.data \ r.left : r.data[f].score # Cache!NoScore

AnswerFine(s, clear) ==
    /\ s \in AnswerRecord
    /\ Cache!NotBefore(s.data, Cache!Later(0, s.since - CacheMs + 1))
    /\ s.data # Cache!NoData => DOMAIN s.data = Cache!Listed
    /\ clear => s.ok /\ Cache!Scored(s.data)

CacheFine(c, clear) ==
    /\ c.at \in -CacheMs .. now /\ c.data \in Cache!Data
    /\ Cache!NotBefore(c.data, Cache!Later(0, c.at))
    /\ c.at >= 0 => DOMAIN c.data = Cache!Listed
    /\ clear => Cache!Scored(c.data)

LEMMA PartsFine ==
    ASSUME Cache!IInv
    PROVE  /\ \A l \in Load : LoadFine(load[l], jwt, faults = 0 /\ valid <= 2)
           /\ \A l \in Load : AnswerFine(served[l], faults = 0 /\ valid <= 2)
           /\ CacheFine(cache, faults = 0 /\ valid <= 2)
<1>1. load \in [Load -> LoadRecord] /\ served \in [Load -> AnswerRecord]
  BY DEF Cache!IInv, Cache!TypeOK, LoadRecord, AnswerRecord
<1>2. ASSUME NEW l \in Load
      PROVE  LoadFine(load[l], jwt, faults = 0 /\ valid <= 2)
  BY <1>1
     DEF Cache!IInv, Cache!FetchedSince, Cache!LoadsWhole, Cache!FetchesAllScores,
         LoadFine
<1>3. ASSUME NEW l \in Load
      PROVE  AnswerFine(served[l], faults = 0 /\ valid <= 2)
  BY <1>1
     DEF Cache!IInv, Cache!FreshEnough, Cache!AllFixtures, Cache!ExpirySurvived,
         AnswerFine
<1>4. CacheFine(cache, faults = 0 /\ valid <= 2)
  BY
     DEF Cache!IInv, Cache!TypeOK, Cache!FetchedSince, Cache!LoadsWhole,
         Cache!FetchesAllScores, CacheFine
<1> QED
  BY <1>2, <1>3, <1>4

\* A step of one load: what it leaves behind is fine when its own parts are.
LEMMA OneLoadSteps ==
    ASSUME Cache!FixturesTypes, Cache!IInv, NEW l \in Load, NEW r, NEW s,
           UNCHANGED <<now, Cache!feedVars, valid>>, jwt' \in jwt .. valid, faults' \in faults .. MaxFaults,
           load' = [load EXCEPT ![l] = r], served' = [served EXCEPT ![l] = s],
           LoadFine(r, jwt', faults' = 0 /\ valid <= 2), AnswerFine(s, faults' = 0 /\ valid <= 2),
           CacheFine(cache', faults' = 0 /\ valid <= 2)
    PROVE  Cache!IInv'
<1> DEFINE clear == faults' = 0 /\ valid <= 2
<1>1. /\ Cache!TypeOK /\ jwt \in 1 .. valid /\ valid \in Nat /\ faults \in 0 .. MaxFaults
      /\ MaxFaults \in Nat
  BY DEF Cache!IInv, Cache!TypeOK, Cache!FixturesTypes
<1>2. clear => faults = 0 /\ valid <= 2 /\ (jwt = 2 => jwt' = 2)
  BY <1>1
<1>3. /\ load \in [Load -> LoadRecord] /\ served \in [Load -> AnswerRecord]
      /\ r \in LoadRecord /\ s \in AnswerRecord
  BY <1>1 DEF Cache!TypeOK, LoadRecord, AnswerRecord, LoadFine, AnswerFine
<1>4. /\ load' \in [Load -> LoadRecord] /\ served' \in [Load -> AnswerRecord]
      /\ \A k \in Load : load'[k] = (IF k = l THEN r ELSE load[k])
      /\ \A k \in Load : served'[k] = (IF k = l THEN s ELSE served[k])
  BY <1>3
<1>5. ASSUME NEW k \in Load
      PROVE  LoadFine(load'[k], jwt', clear) /\ AnswerFine(served'[k], clear)
  <2>1. LoadFine(load[k], jwt', clear) /\ AnswerFine(served[k], clear)
    BY <1>2, PartsFine DEF LoadFine, AnswerFine
  <2> QED
    BY <1>4, <2>1
<1>6. UNCHANGED <<now, raw, score, past, valid>>
  BY DEF Cache!feedVars
<1>7. Cache!TypeOK'
  <2>1. jwt' \in 1 .. valid /\ faults' \in 0 .. MaxFaults
    BY <1>1
  <2>2. cache'.at \in -CacheMs .. now /\ cache'.data \in Cache!Data
    BY DEF CacheFine
  <2> QED
    BY <1>1, <1>4, <1>6, <2>1, <2>2 DEF Cache!TypeOK, LoadRecord, AnswerRecord
<1>8. Cache!PastIsPast'
  BY <1>6 DEF Cache!IInv, Cache!PastIsPast
<1>9. Cache!FetchedSince' /\ Cache!LoadsWhole' /\ Cache!FetchesAllScores'
  BY <1>5, <1>6
     DEF LoadFine, CacheFine, Cache!FetchedSince, Cache!LoadsWhole,
         Cache!FetchesAllScores, Cache!NotBefore, Cache!Scored
<1>10. Cache!FreshEnough' /\ Cache!AllFixtures' /\ Cache!ExpirySurvived'
  BY <1>5, <1>6
     DEF AnswerFine, Cache!FreshEnough, Cache!AllFixtures, Cache!ExpirySurvived,
         Cache!NotBefore, Cache!Scored
<1> QED
  BY <1>7, <1>8, <1>9, <1>10 DEF Cache!IInv

LEMMA LoadTypes ==
    ASSUME Cache!FixturesTypes, Cache!IInv, NEW l \in Load
    PROVE  /\ now \in Nat /\ jwt \in 1 .. valid /\ valid \in Nat
           /\ faults \in 0 .. MaxFaults /\ MaxFaults \in Nat
           /\ jwt \in jwt .. valid /\ faults \in faults .. MaxFaults
           /\ load \in [Load -> LoadRecord] /\ served \in [Load -> AnswerRecord]
           /\ load = [load EXCEPT ![l] = load[l]] /\ served = [served EXCEPT ![l] = served[l]]
           /\ load[l].since \in 0 .. now /\ load[l].data \in Cache!Data
<1>1. /\ load \in [Load -> LoadRecord] /\ served \in [Load -> AnswerRecord]
      /\ now \in Nat /\ jwt \in 1 .. valid /\ valid \in Nat
      /\ faults \in 0 .. MaxFaults /\ MaxFaults \in Nat
  BY DEF Cache!IInv, Cache!TypeOK, Cache!FixturesTypes, LoadRecord, AnswerRecord
<1>2. load = [load EXCEPT ![l] = load[l]] /\ served = [served EXCEPT ![l] = served[l]]
  BY <1>1
<1>3. load[l].since \in 0 .. now /\ load[l].data \in Cache!Data
  BY <1>1 DEF LoadRecord
<1> QED
  BY <1>1, <1>2, <1>3

LEMMA RefusedStep ==
    ASSUME Cache!FixturesTypes, Cache!IInv, NEW l \in Load,
           NEW what \in Cache!Listed \cup {"lists"}, Cache!Refused(l, what)
    PROVE  Cache!IInv'
<1> DEFINE r == [load[l] EXCEPT !.retried = load[l].retried \cup {what}]
<1> DEFINE clear == faults = 0 /\ valid <= 2
<1>1. /\ jwt # valid /\ jwt' = valid /\ load' = [load EXCEPT ![l] = r]
      /\ UNCHANGED <<now, Cache!feedVars, cache, valid, served, faults>>
  BY DEF Cache!Refused
<1>2. jwt' \in jwt .. valid /\ faults' \in faults .. MaxFaults /\ (clear => jwt' = 2)
  BY <1>1, LoadTypes
<1>3. LoadFine(load[l], jwt, clear) /\ AnswerFine(served[l], clear) /\ CacheFine(cache, clear)
  BY PartsFine
<1>4. /\ r \in LoadRecord /\ r.pc = load[l].pc /\ r.since = load[l].since
      /\ r.data = load[l].data /\ r.left = load[l].left
  BY LoadTypes DEF LoadRecord
<1> HIDE DEF r
<1>5. LoadFine(r, jwt', clear)
  BY <1>2, <1>3, <1>4 DEF LoadFine
<1> QED
  BY <1>1, <1>2, <1>3, <1>5, LoadTypes, OneLoadSteps

\* A request that fails is a fault, but when the token expired more than once.
LEMMA FailsIsFault ==
    ASSUME Cache!FixturesTypes, Cache!IInv, NEW l \in Load, NEW what, Cache!Fails(l, what)
    PROVE  faults' \in faults .. MaxFaults /\ ~(faults' = 0 /\ valid <= 2)
<1>1. LoadFine(load[l], jwt, faults = 0 /\ valid <= 2)
  BY PartsFine
<1> QED
  BY <1>1, LoadTypes DEF Cache!Fails, LoadFine

LEMMA RequestStep ==
    ASSUME Cache!FixturesTypes, Cache!IInv, NEW l \in Load, Cache!Request(l)
    PROVE  Cache!IInv'
<1> DEFINE clear == faults = 0 /\ valid <= 2
<1>1. /\ UNCHANGED <<now, Cache!feedVars, cache, jwt, valid, faults>>
      /\ jwt' \in jwt .. valid /\ faults' \in faults .. MaxFaults /\ now \in 0 .. now
  BY LoadTypes DEF Cache!Request
<1>2. LoadFine(load[l], jwt, clear) /\ AnswerFine(served[l], clear) /\ CacheFine(cache, clear)
  BY PartsFine
<1>3. CASE now - cache.at < CacheMs /\ Cache!Answer(l, now, cache.data, TRUE) /\ UNCHANGED load
  <2> DEFINE s == [since |-> now, data |-> cache.data, ok |-> TRUE]
  <2>1. /\ served' = [served EXCEPT ![l] = s]
        /\ s \in AnswerRecord /\ s.since = now /\ s.data = cache.data /\ s.ok
    BY <1>1, <1>2, <1>3 DEF Cache!Answer, CacheFine, AnswerRecord
  <2>2. cache.at \in Int /\ now - CacheMs + 1 \in Int /\ now - CacheMs + 1 <= cache.at
        /\ cache.at <= now /\ now \in Nat /\ now - CacheMs + 1 <= now
    BY <1>2, <1>3, LoadTypes DEF CacheFine, Cache!FixturesTypes
  <2>3. /\ Cache!Later(0, now - CacheMs + 1) \in 0 .. now /\ Cache!Later(0, cache.at) \in 0 .. now
        /\ Cache!Later(0, now - CacheMs + 1) <= Cache!Later(0, cache.at)
    BY <2>2, LaterTypes
  <2>4. Cache!NotBefore(cache.data, Cache!Later(0, now - CacheMs + 1))
    <3>1. /\ Cache!TypeOK /\ Cache!PastIsPast /\ cache.data \in Cache!Data
          /\ Cache!NotBefore(cache.data, Cache!Later(0, cache.at))
      BY <1>2 DEF Cache!IInv, CacheFine
    <3> QED
      BY <2>3, <3>1, EarlierTick
  <2>5. cache.data # Cache!NoData => DOMAIN cache.data = Cache!Listed
    BY <1>2, DataTypes DEF CacheFine, Cache!Data
  <2> HIDE DEF s
  <2>6. AnswerFine(s, clear)
    BY <1>2, <2>1, <2>4, <2>5 DEF AnswerFine, CacheFine
  <2> QED
    BY <1>1, <1>2, <1>3, <2>1, <2>6, LoadTypes, OneLoadSteps
<1>4. CASE load' = [load EXCEPT ![l] = [Cache!Idle EXCEPT !.pc = "lists", !.since = now]] /\ UNCHANGED served
  <2> DEFINE r == [Cache!Idle EXCEPT !.pc = "lists", !.since = now]
  <2>1. r \in LoadRecord /\ r.pc = "lists" /\ r.retried = {}
    BY <1>1, NoDataIsFresh DEF LoadRecord, Cache!Idle
  <2> HIDE DEF r
  <2>2. LoadFine(r, jwt, clear)
    BY <2>1 DEF LoadFine
  <2> QED
    BY <1>1, <1>2, <1>4, <2>2, LoadTypes, OneLoadSteps DEF r
<1> QED
  BY <1>3, <1>4 DEF Cache!Request

LEMMA IdleFine ==
    ASSUME NEW token, NEW clear, now \in Nat
    PROVE  LoadFine(Cache!Idle, token, clear)
<1>1. Cache!Idle.pc = "idle" /\ Cache!Idle.retried = {} /\ Cache!Idle \in LoadRecord
  BY NoDataIsFresh DEF Cache!Idle, LoadRecord
<1> QED
  BY <1>1 DEF LoadFine

LEMMA ListsAnsweredStep ==
    ASSUME Cache!FixturesTypes, Cache!IInv, NEW l \in Load, Cache!ListsAnswered(l)
    PROVE  Cache!IInv'
<1> DEFINE clear == faults = 0 /\ valid <= 2
<1>1. CASE Cache!Refused(l, "lists")
  BY <1>1, RefusedStep
<1>2. ASSUME NEW newestFirst \in BOOLEAN,
             LET row == Cache!Dedupe(Cache!Relevant(newestFirst))
             IN  load' = [load EXCEPT ![l].pc = "scores", ![l].left = DOMAIN row,
                     ![l].data = [f \in DOMAIN row |-> [ts |-> row[f], score |-> Cache!NoScore]]],
             UNCHANGED <<now, Cache!feedVars, cache, jwt, valid, served, faults>>
      PROVE  Cache!IInv'
  <2> DEFINE row == Cache!Dedupe(Cache!Relevant(newestFirst))
  <2> DEFINE kept == [f \in DOMAIN row |-> [ts |-> row[f], score |-> Cache!NoScore]]
  <2> DEFINE r == [load[l] EXCEPT !.pc = "scores", !.left = DOMAIN row, !.data = kept]
  <2>1. LoadFine(load[l], jwt, clear) /\ AnswerFine(served[l], clear) /\ CacheFine(cache, clear)
    BY PartsFine
  <2>2. DOMAIN row = Cache!Listed /\ \A f \in Cache!Listed : row[f] \in Nat
    BY ListsWhole DEF Cache!IInv
  <2> HIDE DEF row
  <2>3. load' = [load EXCEPT ![l] = r]
    BY <1>2, LoadTypes DEF row
  <2>4. /\ kept \in [Cache!Listed -> [ts : Nat, score : Nat \cup {Cache!NoScore}]]
        /\ DOMAIN kept = Cache!Listed
        /\ \A f \in DOMAIN kept : kept[f].score = Cache!NoScore
    BY <2>2
  <2> HIDE DEF kept
  <2>5. kept \in Cache!Data /\ \A t : Cache!NotBefore(kept, t)
    BY <2>4 DEF Cache!Data, Cache!NotBefore
  <2>6. r \in LoadRecord /\ r.pc = "scores" /\ r.left = Cache!Listed /\ r.data = kept
        /\ r.retried = load[l].retried
    <3>1. load[l] \in LoadRecord
      BY LoadTypes
    <3>2. load[l] \in [pc : {"idle", "lists", "scores"}, since : 0 .. now, data : Cache!Data,
                       left : SUBSET Cache!Listed, retried : SUBSET (Cache!Listed \cup {"lists"})]
      BY <3>1 DEF LoadRecord
    <3> HIDE DEF kept
    <3>3. r \in LoadRecord
      BY <2>2, <2>5, <3>2 DEF LoadRecord
    <3> QED
      BY <2>2, <3>2, <3>3
  <2> HIDE DEF r
  <2>7. LoadFine(r, jwt, clear)
    BY <2>1, <2>4, <2>5, <2>6 DEF LoadFine
  <2> QED
    BY <1>2, <2>1, <2>3, <2>7, LoadTypes, OneLoadSteps
<1> QED
  BY <1>1, <1>2 DEF Cache!ListsAnswered

LEMMA ListsFailStep ==
    ASSUME Cache!FixturesTypes, Cache!IInv, NEW l \in Load, Cache!ListsFail(l)
    PROVE  Cache!IInv'
<1> DEFINE s == [since |-> load[l].since, data |-> Cache!NoData, ok |-> FALSE]
<1> DEFINE clear == faults' = 0 /\ valid <= 2
<1>1. /\ load' = [load EXCEPT ![l] = Cache!Idle] /\ served' = [served EXCEPT ![l] = s]
      /\ UNCHANGED <<now, Cache!feedVars, cache, jwt, valid>>
      /\ faults' \in faults .. MaxFaults /\ ~clear
  BY FailsIsFault DEF Cache!ListsFail, Cache!Answer
<1>2. s \in AnswerRecord /\ s.data = Cache!NoData
  BY LoadTypes, NoDataIsFresh DEF AnswerRecord
<1> HIDE DEF s
<1>3. LoadFine(Cache!Idle, jwt, clear) /\ AnswerFine(s, clear) /\ CacheFine(cache, clear)
  BY <1>1, <1>2, LoadTypes, IdleFine, NoDataIsFresh, PartsFine DEF AnswerFine, CacheFine
<1> QED
  BY <1>1, <1>3, LoadTypes, OneLoadSteps

LEMMA ScoreAnsweredStep ==
    ASSUME Cache!FixturesTypes, Cache!IInv, NEW l \in Load, NEW f \in Fixture,
           Cache!ScoreAnswered(l, f)
    PROVE  Cache!IInv'
<1> DEFINE clear == faults = 0 /\ valid <= 2
<1>1. load[l].pc = "scores" /\ f \in load[l].left /\ f \in Cache!Listed
  BY LoadTypes DEF Cache!ScoreAnswered, LoadRecord
<1>2. CASE Cache!Refused(l, f)
  BY <1>1, <1>2, RefusedStep
<1>3. CASE /\ load' = [load EXCEPT ![l].left = @ \ {f}, ![l].data[f].score = score[f]]
           /\ UNCHANGED <<now, Cache!feedVars, cache, jwt, valid, served, faults>>
  <2>1. LoadFine(load[l], jwt, clear) /\ AnswerFine(served[l], clear) /\ CacheFine(cache, clear)
    BY PartsFine
  <2>2. DOMAIN load[l].data = Cache!Listed /\ Cache!NotBefore(load[l].data, load[l].since)
    BY <1>1, <2>1 DEF LoadFine
  <2> DEFINE row == [load[l].data[f] EXCEPT !.score = score[f]]
  <2> DEFINE kept == [load[l].data EXCEPT ![f] = row]
  <2> DEFINE r == [load[l] EXCEPT !.left = load[l].left \ {f}, !.data = kept]
  <2>3. load' = [load EXCEPT ![l] = r]
    <3>1. load' = [load EXCEPT ![l] = [load[l] EXCEPT !.left = load[l].left \ {f},
                       !.data = [load[l].data EXCEPT ![f] = [load[l].data[f] EXCEPT !.score = score[f]]]]]
      BY <1>3
    <3> QED
      BY <3>1
  <2>4. score[f] \in Nat /\ past[load[l].since][f] <= score[f]
    <3>1. /\ past[load[l].since] \in [Fixture -> Nat] /\ past[now] \in [Fixture -> Nat]
          /\ score \in [Fixture -> Nat]
      <4> HIDE DEF clear, row, kept, r
      <4>1. past \in [0 .. now -> [Fixture -> Nat]] /\ score \in [Fixture -> Nat]
        BY DEF Cache!IInv, Cache!TypeOK
      <4>2. load[l].since \in 0 .. now /\ now \in 0 .. now
        BY LoadTypes
      <4> QED
        BY <4>1, <4>2
    <3>2. past[load[l].since][f] <= past[now][f] /\ past[now][f] <= score[f]
      BY LoadTypes DEF Cache!IInv, Cache!PastIsPast
    <3> QED
      BY <3>1, <3>2
  <2>5. load[l].data \in [Cache!Listed -> [ts : Nat, score : Nat \cup {Cache!NoScore}]]
    BY <1>1, <2>2, LoadTypes, DataTypes
  <2>6. row \in [ts : Nat, score : Nat \cup {Cache!NoScore}] /\ row.score = score[f]
    BY <1>1, <2>4, <2>5
  <2> HIDE DEF row
  <2>7. /\ kept \in [Cache!Listed -> [ts : Nat, score : Nat \cup {Cache!NoScore}]]
        /\ DOMAIN kept = Cache!Listed
        /\ \A g \in Cache!Listed : kept[g] = IF g = f THEN row ELSE load[l].data[g]
    BY <1>1, <2>5, <2>6
  <2> HIDE DEF kept
  <2>8. kept \in Cache!Data /\ Cache!NotBefore(kept, load[l].since)
    BY <2>2, <2>4, <2>6, <2>7 DEF Cache!Data, Cache!NotBefore
  <2>9. /\ r \in LoadRecord /\ r.pc = "scores" /\ r.left = load[l].left \ {f} /\ r.data = kept
        /\ r.retried = load[l].retried /\ r.since = load[l].since
    <3>1. load[l] \in LoadRecord
      BY LoadTypes
    <3>2. load[l] \in [pc : {"idle", "lists", "scores"}, since : 0 .. now, data : Cache!Data,
                       left : SUBSET Cache!Listed, retried : SUBSET (Cache!Listed \cup {"lists"})]
      BY <3>1 DEF LoadRecord
    <3>3. r \in LoadRecord
      BY <2>8, <3>2 DEF LoadRecord
    <3> QED
      BY <1>1, <3>2, <3>3
  <2> HIDE DEF r
  <2>10. clear => \A g \in DOMAIN kept \ r.left : kept[g].score # Cache!NoScore
    <3> SUFFICES ASSUME clear, NEW g \in DOMAIN kept \ r.left
                 PROVE  kept[g].score # Cache!NoScore
      OBVIOUS
    <3>1. CASE g = f
      BY <2>4, <2>6, <2>7, <3>1 DEF Cache!NoScore
    <3>2. CASE g # f
      BY <1>1, <2>1, <2>2, <2>7, <2>9, <3>2 DEF LoadFine
    <3> QED
      BY <3>1, <3>2
  <2>11. LoadFine(r, jwt, clear)
    BY <2>1, <2>7, <2>8, <2>9, <2>10 DEF LoadFine
  <2>12. UNCHANGED <<now, Cache!feedVars, cache, jwt, valid, served, faults>>
    BY <1>3
  <2>13. /\ jwt' \in jwt .. valid /\ faults' \in faults .. MaxFaults
         /\ served' = [served EXCEPT ![l] = served[l]]
    BY <2>12, LoadTypes
  <2>14. /\ LoadFine(r, jwt', faults' = 0 /\ valid <= 2)
         /\ AnswerFine(served[l], faults' = 0 /\ valid <= 2)
         /\ CacheFine(cache', faults' = 0 /\ valid <= 2)
    BY <2>1, <2>11, <2>12
  <2> QED
    BY <2>3, <2>12, <2>13, <2>14, OneLoadSteps
<1> QED
  BY <1>2, <1>3 DEF Cache!ScoreAnswered

LEMMA ScoreFailsStep ==
    ASSUME Cache!FixturesTypes, Cache!IInv, NEW l \in Load, NEW f, Cache!ScoreFails(l, f)
    PROVE  Cache!IInv'
<1> DEFINE r == [load[l] EXCEPT !.left = load[l].left \ {f}]
<1> DEFINE clear == faults' = 0 /\ valid <= 2
<1>1. /\ load' = [load EXCEPT ![l] = r] /\ faults' \in faults .. MaxFaults /\ ~clear
      /\ UNCHANGED <<now, Cache!feedVars, cache, jwt, valid, served>>
  BY FailsIsFault DEF Cache!ScoreFails
<1>2. /\ r \in LoadRecord /\ r.pc = load[l].pc /\ r.data = load[l].data /\ r.since = load[l].since
  BY LoadTypes DEF LoadRecord
<1> HIDE DEF r
<1>3. LoadFine(r, jwt, clear) /\ AnswerFine(served[l], clear) /\ CacheFine(cache, clear)
  BY <1>1, <1>2, PartsFine DEF LoadFine, AnswerFine, CacheFine
<1> QED
  BY <1>1, <1>3, LoadTypes, OneLoadSteps

LEMMA FinishStep ==
    ASSUME Cache!FixturesTypes, Cache!IInv, NEW l \in Load, Cache!Finish(l)
    PROVE  Cache!IInv'
<1> DEFINE s == [since |-> load[l].since, data |-> load[l].data, ok |-> TRUE]
<1> DEFINE c == [at |-> load[l].since, data |-> load[l].data]
<1> DEFINE clear == faults = 0 /\ valid <= 2
<1>1. /\ load' = [load EXCEPT ![l] = Cache!Idle] /\ served' = [served EXCEPT ![l] = s] /\ cache' = c
      /\ UNCHANGED <<now, Cache!feedVars, jwt, valid, faults>>
  BY DEF Cache!Finish, Cache!Answer
<1>2. /\ LoadFine(load[l], jwt, clear) /\ load[l].since \in 0 .. now
      /\ load[l].data \in Cache!Data /\ now \in Nat
  BY PartsFine, LoadTypes
<1>3. /\ Cache!NotBefore(load[l].data, load[l].since) /\ DOMAIN load[l].data = Cache!Listed
      /\ clear => Cache!Scored(load[l].data)
  BY <1>2 DEF Cache!Finish, LoadFine, Cache!Scored
<1>4. CacheFine(c, clear)
  <2>1. c.at = load[l].since /\ c.data = load[l].data
    OBVIOUS
  <2> HIDE DEF c
  <2>2. Cache!Later(0, c.at) = c.at /\ c.at \in -CacheMs .. now
    BY <1>2, <2>1, LaterTypes DEF Cache!FixturesTypes
  <2> QED
    BY <1>2, <1>3, <2>1, <2>2 DEF CacheFine
<1>5. AnswerFine(s, clear)
  <2>1. s \in AnswerRecord /\ s.since = load[l].since /\ s.data = load[l].data /\ s.ok
    BY <1>2 DEF AnswerRecord
  <2> HIDE DEF s
  <2>2. load[l].since - CacheMs + 1 \in Int /\ load[l].since - CacheMs + 1 <= load[l].since
    BY <1>2 DEF Cache!FixturesTypes
  <2>3. Cache!Later(0, load[l].since - CacheMs + 1) \in 0 .. now
        /\ Cache!Later(0, load[l].since - CacheMs + 1) <= load[l].since
    BY <1>2, <2>2 DEF Cache!Later
  <2>4. Cache!NotBefore(load[l].data, Cache!Later(0, load[l].since - CacheMs + 1))
    BY <1>2, <1>3, <2>3, EarlierTick DEF Cache!IInv
  <2> QED
    BY <1>3, <2>1, <2>4 DEF AnswerFine
<1> QED
  BY <1>1, <1>2, <1>4, <1>5, IdleFine, LoadTypes, OneLoadSteps

-----------------------------------------------------------------------------

LEMMA CacheConsecution ==
    ASSUME Cache!FixturesTypes, Cache!IInv, [Cache!Next]_Cache!vars
    PROVE  Cache!IInv'
<1>1. CASE Cache!Tick \/ Cache!TokenExpires \/ \E f \in Fixture : Cache!Change(f)
  BY <1>1, WorldStep
<1>2. ASSUME NEW l \in Load,
             \/ Cache!Request(l) \/ Cache!ListsAnswered(l) \/ Cache!ListsFail(l) \/ Cache!Finish(l)
             \/ \E f \in Fixture : Cache!ScoreAnswered(l, f) \/ Cache!ScoreFails(l, f)
      PROVE  Cache!IInv'
  BY <1>2, RequestStep, ListsAnsweredStep, ListsFailStep, FinishStep, ScoreAnsweredStep,
     ScoreFailsStep
<1>3. CASE UNCHANGED Cache!vars
  BY <1>3
     DEF Cache!vars, Cache!IInv, Cache!TypeOK, Cache!PastIsPast, Cache!FetchedSince,
         Cache!LoadsWhole, Cache!FetchesAllScores,
              Cache!FreshEnough, Cache!AllFixtures, Cache!ExpirySurvived, Cache!NotBefore, Cache!Scored
<1> QED
  BY <1>1, <1>2, <1>3 DEF Cache!Next

\* The inductive invariant of the fixtures and their cache holds in every behaviour.
THEOREM CacheInvariance == ASSUME Cache!FixturesTypes PROVE Cache!Spec => []Cache!IInv
<1>1. Cache!Init => Cache!IInv
  BY CacheInitially
<1>2. Cache!IInv /\ [Cache!Next]_Cache!vars => Cache!IInv'
  BY CacheConsecution
<1> QED
  BY <1>1, <1>2, PTL DEF Cache!Spec

\* However many loads run at once and whichever of their fetches fail: what is served
\* is no older than the cache's age allows (index.ts:31), has every fixture of the two
\* lists, and without faults has every score though the token expired in the middle
\* (txline/client.ts).
THEOREM FixturesAlwaysServed ==
    ASSUME Cache!FixturesTypes
    PROVE  Cache!Spec => [](Cache!FreshEnough /\ Cache!AllFixtures /\ Cache!ExpirySurvived)
<1>1. Cache!IInv => Cache!FreshEnough /\ Cache!AllFixtures /\ Cache!ExpirySurvived
  BY DEF Cache!IInv
<1> QED
  BY <1>1, CacheInvariance, PTL

LEMMA ListsTakeNewest ==
    ASSUME Cache!FixturesTypes, Cache!IInv, NEW l \in Load, Cache!ListsAnswered(l),
           load'[l].pc = "scores",
           NEW f \in DOMAIN load'[l].data
    PROVE  load'[l].data[f].ts = raw[f]
<1>1. load \in [Load -> LoadRecord] /\ load[l].pc = "lists"
  BY LoadTypes DEF Cache!ListsAnswered
<1>2. load[l] \in [pc : {"idle", "lists", "scores"}, since : 0 .. now, data : Cache!Data,
                   left : SUBSET Cache!Listed, retried : SUBSET (Cache!Listed \cup {"lists"})]
  BY <1>1 DEF LoadRecord
<1>3. ~Cache!Refused(l, "lists")
  <2> SUFFICES ASSUME Cache!Refused(l, "lists") PROVE FALSE
    OBVIOUS
  <2>1. load' = [load EXCEPT ![l] = [load[l] EXCEPT !.retried = load[l].retried \cup {"lists"}]]
    BY DEF Cache!Refused
  <2>2. load'[l].pc = load[l].pc
    BY <1>1, <1>2, <2>1
  <2> QED
    BY <1>1, <2>2
<1>4. PICK newestFirst \in BOOLEAN :
        LET row == Cache!Dedupe(Cache!Relevant(newestFirst))
        IN  load' = [load EXCEPT ![l].pc = "scores", ![l].left = DOMAIN row,
                ![l].data = [g \in DOMAIN row |-> [ts |-> row[g], score |-> Cache!NoScore]]]
  BY <1>3 DEF Cache!ListsAnswered
<1> DEFINE row == Cache!Dedupe(Cache!Relevant(newestFirst))
<1>5. DOMAIN row = Cache!Listed /\ \A g \in Cache!Listed : row[g] = raw[g]
  BY ListsWhole DEF Cache!IInv
<1> HIDE DEF row
<1>6. load'[l].data = [g \in DOMAIN row |-> [ts |-> row[g], score |-> Cache!NoScore]]
  BY <1>1, <1>2, <1>4 DEF row
<1> QED
  BY <1>5, <1>6

\* The step that brings a load from its lists to its scores is that of its lists.
LEMMA OnlyListsBringRows ==
    ASSUME Cache!FixturesTypes, Cache!IInv, Cache!Next, NEW l \in Load,
           load[l].pc = "lists", load'[l].pc = "scores"
    PROVE  Cache!ListsAnswered(l)
<1>1. load \in [Load -> LoadRecord] /\ load'[l] # load[l]
  BY LoadTypes
<1>2. ASSUME NEW k \in Load,
             \/ Cache!Request(k) \/ Cache!ListsAnswered(k) \/ Cache!ListsFail(k) \/ Cache!Finish(k)
             \/ \E f \in Fixture : Cache!ScoreAnswered(k, f) \/ Cache!ScoreFails(k, f)
      PROVE  k = l
  BY <1>1, <1>2
     DEF Cache!Request, Cache!ListsAnswered, Cache!ListsFail, Cache!Finish,
         Cache!ScoreAnswered, Cache!ScoreFails, Cache!Refused
<1>3. ~(Cache!Tick \/ Cache!TokenExpires \/ \E f \in Fixture : Cache!Change(f))
  BY <1>1 DEF Cache!Tick, Cache!TokenExpires, Cache!Change
<1>4. /\ ~Cache!Request(l) /\ ~Cache!Finish(l)
      /\ \A f \in Fixture : ~Cache!ScoreAnswered(l, f) /\ ~Cache!ScoreFails(l, f)
  BY DEF Cache!Request, Cache!Finish, Cache!ScoreAnswered, Cache!ScoreFails
<1>5. ~Cache!ListsFail(l)
  <2> SUFFICES ASSUME load' = [load EXCEPT ![l] = Cache!Idle] PROVE FALSE
    BY DEF Cache!ListsFail
  <2>1. load'[l] = Cache!Idle /\ Cache!Idle.pc = "idle"
    BY <1>1 DEF Cache!Idle
  <2> QED
    BY <2>1
<1> QED
  BY <1>2, <1>3, <1>4, <1>5 DEF Cache!Next

\* Of the rows that the lists had for a fixture, and it may have been in both of
\* them and in any order, a load takes the newest (txline/normalize-fixtures.ts).
THEOREM NewestRowTaken == ASSUME Cache!FixturesTypes PROVE Cache!Spec => Cache!NewestRow
<1> DEFINE Newest ==
        \A l \in Load : load[l].pc = "lists" /\ load'[l].pc = "scores" =>
           \A f \in DOMAIN load'[l].data : load'[l].data[f].ts = raw[f]
<1>1. Cache!IInv /\ [Cache!Next]_Cache!vars => [Newest]_Cache!vars
  <2> SUFFICES ASSUME Cache!IInv, Cache!Next, NEW l \in Load, load[l].pc = "lists",
                      load'[l].pc = "scores",
                      NEW f \in DOMAIN load'[l].data
               PROVE  load'[l].data[f].ts = raw[f]
    OBVIOUS
  <2> QED
    BY OnlyListsBringRows, ListsTakeNewest
<1> QED
  BY <1>1, CacheInvariance, PTL DEF Cache!Spec, Cache!NewestRow

=============================================================================
