-------------------------- MODULE LocalSettlement --------------------------
(***************************************************************************)
(* The settlement worker when no program is configured (record-only mode): *)
(* the branches of src/server/src/settlement/worker.ts with program ===    *)
(* null, and the dev route of pools/routes.ts.  Nothing but the mirror     *)
(* says that a pool is settled.                                            *)
(*                                                                         *)
(* Without RPC calls the promises awaited are all resolved, so a loop over *)
(* the pools gives way to no request and no event: the one real await is   *)
(* the fetch of the fixtures, during which the sweep holds copies of the   *)
(* active records.                                                         *)
(***************************************************************************)
EXTENDS Mirror

CONSTANTS
    Terms, Outcome, MaxTime,
    Kickoff,      \* no match ends before
    BlankOnly,    \* a match that is abandoned has no score in the feed
    DevTools      \* config.devTools

VARIABLES
    now,
    match,   \* [phase, outcome]; one match, whose score gives every pool its outcome
    sweep,   \* "idle" or "fetch", the copies it holds, and the match at its start
    loop     \* the loop that is running: its kind and the copies left

vars == <<record, pick, now, match, sweep, loop>>

LocalTypes ==
    /\ IsFiniteSet(Member) /\ Outcome \subseteq Nat
    /\ Terms \subseteq [outcome_count : Nat, stake_amount : Nat, rake_bps : Nat,
                        max_entries : Nat, deadline : Nat]
    /\ MaxTime \in Nat /\ Kickoff \in 0 .. MaxTime /\ BlankOnly \in BOOLEAN /\ DevTools \in BOOLEAN

\* The page has a pool close at the kickoff of its match (fixtures/[fixtureId]/page.tsx:82);
\* the route takes any time.
ClosesAtKickoff == \A terms \in Terms : terms.deadline <= Kickoff

Pending == [phase |-> "pending", outcome |-> NoOutcome]
Idle == [at |-> "idle", copies |-> {}, seen |-> Pending]
NoLoop == [kind |-> "none", todo |-> {}]

Init ==
    /\ MirrorInit
    /\ now = 0 /\ match = Pending /\ sweep = Idle /\ loop = NoLoop

\* No callback runs while a loop does.
Calm == loop.todo = {}

\* What is used of the clone of a record.
Copy(p) == [pool |-> p, open |-> record[p].status = "open",
            entryCount |-> Cardinality(Pickers(p)), at |-> now]

Host(m, p, terms) ==
    /\ Calm /\ CreateRecord(m, p, terms, now)
    /\ UNCHANGED <<now, match, sweep, loop>>

Join(m, p, x) ==
    /\ Calm /\ CreateEntry(m, p, x, now)
    /\ UNCHANGED <<now, match, sweep, loop>>

Tick ==
    /\ Calm /\ now < MaxTime /\ now' = now + 1
    /\ UNCHANGED <<record, pick, match, sweep, loop>>

\* A match is long: no fetch is under way from before a kickoff to after the end.
MatchEnds ==
    /\ Calm /\ match = Pending /\ now >= Kickoff
    /\ \A c \in sweep.copies : c.at >= Kickoff
    /\ match' \in [phase : {"finished"}, outcome : Outcome]
            \cup [phase : {"abandoned"}, outcome : IF BlankOnly THEN {NoOutcome} ELSE Outcome]
    /\ UNCHANGED <<record, pick, now, sweep, loop>>

-----------------------------------------------------------------------------
(* settlePoolToOutcome without a program *)

\* countLocalWinners: every pick is counted, whatever its status.
LocalWinners(p, w) == {m \in Pickers(p) : pick[p][m].prediction = w}

ShareOf(p, count, winners) ==
    LET total == count * record[p].terms.stake_amount
        rake == (total * record[p].terms.rake_bps) \div 10000
    IN  (total - rake) \div winners

\* Mutant: only picks without a verdict are counted.
SettleActive(c, w) ==
    LET n == Cardinality({m \in LocalWinners(c.pool, w) : pick[c.pool][m].status = "active"})
    IN  \/ n = 0 /\ MarkVoided(c.pool, w)
        \/ n > 0 /\ MarkResolved(c.pool, w, n, ShareOf(c.pool, c.entryCount, n))

\* The number of entries is the copy's.  The markLocked before is overwritten.
Settle(c, w) ==
    LET n == Cardinality(LocalWinners(c.pool, w))
    IN  \/ n = 0 /\ MarkVoided(c.pool, w)
        \/ n > 0 /\ MarkResolved(c.pool, w, n, ShareOf(c.pool, c.entryCount, n))

\* POST /pools/:id/dev/resolve
DevResolve(p, w) ==
    /\ Calm /\ DevTools
    /\ record[p].status \in {"open", "locked"}
    /\ w < record[p].terms.outcome_count
    /\ Settle(Copy(p), w)
    /\ UNCHANGED <<now, match, sweep, loop>>

-----------------------------------------------------------------------------
(* The two paths to the end of a pool *)

\* settleFixture, on a row of the stream.
StreamRow ==
    /\ Calm
    /\ match.phase \in {"finished", "abandoned"}
    /\ loop' = [kind |-> IF match.phase = "finished" THEN "settle" ELSE "cancel",
                todo |-> {Copy(p) : p \in ActivePools}]
    /\ UNCHANGED <<record, pick, now, match, sweep>>

StartSweep ==
    /\ Calm /\ sweep.at = "idle" /\ ActivePools # {}
    /\ sweep' = [at |-> "fetch", copies |-> {Copy(p) : p \in ActivePools}, seen |-> match]
    /\ UNCHANGED <<record, pick, now, match, loop>>

\* The answer has the match as it was at some time of the fetch; deriveStatus
\* calls an abandoned match finished too, and settles it if it has a score.
FetchFixtures ==
    /\ Calm /\ sweep.at = "fetch"
    /\ \E seen \in {sweep.seen, match} :
         loop' = [kind |-> IF seen.outcome # NoOutcome THEN "settle" ELSE "late",
                  todo |-> sweep.copies]
    /\ sweep' = Idle
    /\ UNCHANGED <<record, pick, now, match>>

LoopStep ==
    \E c \in loop.todo :
        /\ loop' = [loop EXCEPT !.todo = @ \ {c}]
        /\ \/ loop.kind = "settle" /\ Settle(c, match.outcome)
           \/ loop.kind = "cancel" /\ MarkCancelled(c.pool)
           \/ /\ loop.kind = "late" /\ c.open /\ record[c.pool].terms.deadline <= now
              /\ MarkLocked(c.pool)
           \/ /\ loop.kind = "late" /\ ~(c.open /\ record[c.pool].terms.deadline <= now)
              /\ UNCHANGED mirrorVars
        /\ UNCHANGED <<now, match, sweep>>

Next ==
    \/ Tick \/ MatchEnds \/ StreamRow \/ StartSweep \/ FetchFixtures \/ LoopStep
    \/ \E p \in Pool, m \in Member :
         \/ \E terms \in Terms : Host(m, p, terms)
         \/ \E x \in Outcome : Join(m, p, x)
    \/ \E p \in Pool, w \in Outcome : DevResolve(p, w)

\* The sweep's timer never stops, its fetches are answered (one that fails is
\* the business of Settlement), and a loop runs to its end.
Spec ==
    Init /\ [][Next]_vars /\ WF_vars(StartSweep) /\ WF_vars(FetchFixtures) /\ WF_vars(LoopStep)

-----------------------------------------------------------------------------
(* Properties *)

CopyState == [pool : Pool, open : BOOLEAN, entryCount : Nat, at : 0 .. MaxTime]

\* A record's terms are what parseCreatePool lets pass; no pool has more picks than
\* seats, and what is not recorded has none.
SeatsOK(p) ==
    IF record[p] = NoRecord THEN Pickers(p) = {}
    ELSE /\ record[p].terms.rake_bps <= 1000
         /\ Cardinality(Pickers(p)) <= record[p].terms.max_entries

TypeOK ==
    /\ record \in [Pool -> {NoRecord} \cup Record(Terms, Outcome)]
    /\ pick \in [Pool -> [Member -> {NoPick} \cup Pick(Outcome)]]
    /\ now \in 0 .. MaxTime
    /\ match \in {Pending} \cup [phase : {"finished", "abandoned"}, outcome : Outcome \cup {NoOutcome}]
    /\ sweep \in [at : {"idle", "fetch"}, copies : SUBSET CopyState, seen : {Pending, match}]
    /\ loop \in [kind : {"none", "settle", "cancel", "late"}, todo : SUBSET CopyState]
    /\ \A p \in Pool : SeatsOK(p)

\* A member is told by the pick's status how it went (routes.ts:143): it agrees
\* with the outcome, the winners and the status that the record shows.
VerdictsMatch ==
    \A p \in Pool : record[p].status \in Settled =>
        /\ \A m \in Pickers(p) : pick[p][m].status =
             IF record[p].status # "resolved" THEN "refunded"
             ELSE IF pick[p][m].prediction = record[p].winningOutcome THEN "won" ELSE "lost"
        /\ record[p].status = "resolved" =>
             record[p].winnerCount = Cardinality({m \in Pickers(p) : pick[p][m].status = "won"})

ShareExactOf(p) ==
    record[p].status = "resolved" =>
        LET total == Cardinality(Pickers(p)) * record[p].terms.stake_amount
            rest == total - (total * record[p].terms.rake_bps) \div 10000
                          - record[p].winnerCount * record[p].shareAmount
        IN  0 <= rest /\ rest < record[p].winnerCount

\* The share is the stakes of all picks less the rake, split evenly: nothing is
\* left but what cannot be split.
ShareExact == \A p \in Pool : ShareExactOf(p)

\* Once the match has a result every pool is settled for good, even if a sweep
\* with old copies locks it once more.
EventuallySettled ==
    \A p \in Pool :
        (record[p] # NoRecord /\ match.outcome # NoOutcome) ~> [](record[p].status \in Settled)

-----------------------------------------------------------------------------
(* The inductive invariant *)

\* What is settled is settled after the match, and after its kickoff nobody joins:
\* a copy from then on has the number of the picks.
CopiesHold ==
    \A c \in sweep.copies \cup loop.todo :
        /\ record[c.pool] # NoRecord /\ c.at <= now
        /\ c.at >= Kickoff => c.entryCount = Cardinality(Pickers(c.pool))

\* A sweep or a loop that has seen the end of the match has copies from after the
\* kickoff, and only a match with an outcome is settled.
EndsAfterKickoff ==
    /\ match # Pending => now >= Kickoff /\ \A c \in sweep.copies : c.at >= Kickoff
    /\ match.phase = "finished" => match.outcome # NoOutcome
    /\ match.phase = "abandoned" /\ BlankOnly => match.outcome = NoOutcome
    /\ loop.kind = "settle" => match.outcome # NoOutcome /\ \A c \in loop.todo : c.at >= Kickoff
    /\ loop.kind = "cancel" => match.phase = "abandoned"

\* What the match makes of a pool.
MatchStatus(p) ==
    IF match.outcome = NoOutcome THEN "cancelled"
    ELSE IF LocalWinners(p, match.outcome) = {} THEN "voided" ELSE "resolved"

\* What the match makes of a pick.
MatchVerdict(p, m) ==
    IF MatchStatus(p) # "resolved" THEN "refunded"
    ELSE IF pick[p][m].prediction = match.outcome THEN "won" ELSE "lost"

\* A record or a pick that is settled, and a pick whose record a sweep has locked
\* once more, has what the match makes of it.
SettledByMatch ==
    \A p \in Pool :
        /\ record[p].status \in Settled =>
             /\ match # Pending /\ record[p].status = MatchStatus(p)
             /\ \A m \in Pickers(p) : pick[p][m].status # "active"
        /\ record[p].status = "resolved" =>
             /\ record[p].winningOutcome = match.outcome
             /\ record[p].winnerCount = Cardinality(LocalWinners(p, match.outcome))
        /\ \A m \in Pickers(p) : pick[p][m].status # "active" =>
             /\ match # Pending /\ record[p].status # "open"
             /\ pick[p][m].status = MatchVerdict(p, m)

IInv ==
    /\ TypeOK /\ CopiesHold /\ EndsAfterKickoff /\ ShareExact
    /\ ~DevTools /\ BlankOnly => SettledByMatch

=============================================================================
