------------------------------ MODULE Fixtures ------------------------------
(***************************************************************************)
(* Loading the fixtures from TxLINE and caching them: getFixturesCached    *)
(* (src/server/src/index.ts), loadOddtasyFixtures                          *)
(* (txline/normalize-fixtures.ts) and the client with its guest token      *)
(* (txline/client.ts).                                                     *)
(*                                                                         *)
(* A load gives way at every fetch: first the lists of fixtures, then the  *)
(* scores of the matches that have started, one fetch each and up to       *)
(* twelve at a time.  Any number of loads run at once, for a request that  *)
(* finds the cache old starts one of its own.  TxLINE's data, the token    *)
(* and the clock change meanwhile.                                         *)
(***************************************************************************)
EXTENDS Integers, Sequences, SequencesExt, FiniteSets

CONSTANTS
    Load,        \* requests under way at the same time
    Fixture,
    Friendly,    \* the fixtures of the recent list that are friendlies
    WorldCup,    \* the fixtures of the World Cup's list
    CacheMs,     \* fixturesCacheMs, in ticks
    MaxTime, MaxChanges, MaxFaults, MaxExpiries

VARIABLES
    now,
    raw,       \* TxLINE: the newest row of each fixture
    score,     \* TxLINE: the score of each fixture
    past,      \* score at the beginning of every tick
    cache,     \* fixturesCache
    jwt, valid,
    load,      \* the loads under way
    served,    \* what a request was answered last, and when it came
    faults

vars == <<now, raw, score, past, cache, jwt, valid, load, served, faults>>
feedVars == <<raw, score, past>>

FixturesTypes ==
    /\ Friendly \subseteq Fixture /\ WorldCup \subseteq Fixture
    /\ CacheMs \in Nat \ {0} /\ MaxTime \in Nat /\ MaxChanges \in Nat
    /\ MaxFaults \in Nat /\ MaxExpiries \in Nat

NoData == <<>>
Idle == [pc |-> "idle", since |-> 0, data |-> NoData, left |-> {}, retried |-> {}]
Unserved == [since |-> 0, data |-> NoData, ok |-> TRUE]
NoScore == -1

Init ==
    /\ now = 0
    /\ raw = [f \in Fixture |-> 1]
    /\ score = [f \in Fixture |-> 0]
    /\ past = [t \in {0} |-> score]
    /\ cache = [at |-> -CacheMs, data |-> NoData]
    /\ jwt = 1 /\ valid = 1
    /\ load = [l \in Load |-> Idle]
    /\ served = [l \in Load |-> Unserved]
    /\ faults = 0

-----------------------------------------------------------------------------
(* TxLINE and time *)

Tick ==
    /\ now < MaxTime
    /\ now' = now + 1
    /\ past' = [t \in 0 .. now + 1 |-> IF t <= now THEN past[t] ELSE score]
    /\ UNCHANGED <<raw, score, cache, jwt, valid, load, served, faults>>

Change(f) ==
    /\ \/ score[f] < MaxChanges /\ score' = [score EXCEPT ![f] = @ + 1] /\ UNCHANGED raw
       \/ raw[f] <= MaxChanges /\ raw' = [raw EXCEPT ![f] = @ + 1] /\ UNCHANGED score
    /\ UNCHANGED <<now, past, cache, jwt, valid, load, served, faults>>

TokenExpires ==
    /\ valid <= MaxExpiries
    /\ valid' = valid + 1
    /\ UNCHANGED <<now, feedVars, cache, jwt, load, served, faults>>

-----------------------------------------------------------------------------
(* Fetching *)

\* txlineFetch: after a 401 the token is refreshed and the request sent again.
Refused(l, what) ==
    /\ jwt # valid
    /\ what \notin load[l].retried
    /\ jwt' = valid
    /\ load' = [load EXCEPT ![l].retried = @ \cup {what}]
    /\ UNCHANGED <<now, feedVars, cache, valid, served, faults>>

\* The request fails: refused again, or for another reason.
Fails(l, what) ==
    \/ jwt # valid /\ what \in load[l].retried /\ UNCHANGED faults
    \/ faults < MaxFaults /\ faults' = faults + 1

\* The rows of each fixture in the two lists, of before and of now, in either order.
Relevant(newestFirst) ==
    [f \in WorldCup \cup Friendly |->
        LET rows == [ts \in 1 .. raw[f] |-> ts] IN IF newestFirst THEN Reverse(rows) ELSE rows]

\* Mutant: of two rows of a fixture the last one counts.
DedupeLast(rows) == [f \in DOMAIN rows |-> Last(rows[f])]

\* dedupeFixtures: of the rows of a fixture the newest counts, in any order.
Dedupe(rows) == [f \in DOMAIN rows |-> Max(ToSet(rows[f]))]

-----------------------------------------------------------------------------
(* A request for the fixtures *)

Answer(l, since, data, ok) ==
    served' = [served EXCEPT ![l] = [since |-> since, data |-> data, ok |-> ok]]

\* Up to the first await of getFixturesCached.
Request(l) ==
    /\ load[l].pc = "idle"
    /\ \/ /\ now - cache.at < CacheMs
          /\ Answer(l, now, cache.data, TRUE)
          /\ UNCHANGED load
       \/ /\ now - cache.at >= CacheMs
          /\ load' = [load EXCEPT ![l] = [Idle EXCEPT !.pc = "lists", !.since = now]]
          /\ UNCHANGED served
    /\ UNCHANGED <<now, feedVars, cache, jwt, valid, faults>>

\* The two lists have come; the scores of what has started are asked for.
ListsAnswered(l) ==
    /\ load[l].pc = "lists"
    /\ \/ Refused(l, "lists")
       \/ /\ jwt = valid
          /\ \E newestFirst \in BOOLEAN :
               LET row == Dedupe(Relevant(newestFirst))
               IN  load' = [load EXCEPT ![l].pc = "scores", ![l].left = DOMAIN row,
                       ![l].data = [f \in DOMAIN row |-> [ts |-> row[f], score |-> NoScore]]]
          /\ UNCHANGED <<now, feedVars, cache, jwt, valid, served, faults>>

\* A list that cannot be fetched fails the whole load, with 503.
ListsFail(l) ==
    /\ load[l].pc = "lists"
    /\ Fails(l, "lists")
    /\ load' = [load EXCEPT ![l] = Idle]
    /\ Answer(l, load[l].since, NoData, FALSE)
    /\ UNCHANGED <<now, feedVars, cache, jwt, valid>>

ScoreAnswered(l, f) ==
    /\ load[l].pc = "scores" /\ f \in load[l].left
    /\ \/ Refused(l, f)
       \/ /\ jwt = valid
          /\ load' = [load EXCEPT ![l].left = @ \ {f}, ![l].data[f].score = score[f]]
          /\ UNCHANGED <<now, feedVars, cache, jwt, valid, served, faults>>

\* A score that cannot be fetched leaves its fixture without one.
ScoreFails(l, f) ==
    /\ load[l].pc = "scores" /\ f \in load[l].left
    /\ Fails(l, f)
    /\ load' = [load EXCEPT ![l].left = @ \ {f}]
    /\ UNCHANGED <<now, feedVars, cache, jwt, valid, served>>

\* Mutant: the cache is stamped with the time at which the load ends.
FinishStampedLate(l) ==
    /\ load[l].pc = "scores" /\ load[l].left = {}
    /\ cache' = [at |-> now, data |-> load[l].data]
    /\ Answer(l, load[l].since, load[l].data, TRUE)
    /\ load' = [load EXCEPT ![l] = Idle]
    /\ UNCHANGED <<now, feedVars, jwt, valid, faults>>

\* The cache is stamped with the time at which the request came.
Finish(l) ==
    /\ load[l].pc = "scores" /\ load[l].left = {}
    /\ cache' = [at |-> load[l].since, data |-> load[l].data]
    /\ Answer(l, load[l].since, load[l].data, TRUE)
    /\ load' = [load EXCEPT ![l] = Idle]
    /\ UNCHANGED <<now, feedVars, jwt, valid, faults>>

Next ==
    \/ Tick \/ TokenExpires
    \/ \E f \in Fixture : Change(f)
    \/ \E l \in Load :
         \/ Request(l) \/ ListsAnswered(l) \/ ListsFail(l) \/ Finish(l)
         \/ \E f \in Fixture : ScoreAnswered(l, f) \/ ScoreFails(l, f)

Spec == Init /\ [][Next]_vars

-----------------------------------------------------------------------------

Listed == WorldCup \cup Friendly
Data == {NoData} \cup [Listed -> [ts : Nat, score : Nat \cup {NoScore}]]

TypeOK ==
    /\ now \in 0 .. MaxTime /\ faults \in 0 .. MaxFaults
    /\ raw \in [Fixture -> Nat \ {0}] /\ score \in [Fixture -> Nat]
    /\ past \in [0 .. now -> [Fixture -> Nat]]
    /\ valid \in Nat /\ jwt \in 1 .. valid
    /\ load \in [Load -> [pc : {"idle", "lists", "scores"}, since : 0 .. now, data : Data,
                          left : SUBSET Listed, retried : SUBSET (Listed \cup {"lists"})]]
    /\ served \in [Load -> [since : 0 .. now, data : Data, ok : BOOLEAN]]
    /\ cache.at \in -CacheMs .. now /\ cache.data \in Data

Later(s, t) == IF s <= t THEN t ELSE s

\* The scores of the data are from the tick t or later.
NotBefore(data, t) ==
    \A f \in DOMAIN data : data[f].score # NoScore => data[f].score >= past[t][f]

Scored(data) == \A f \in DOMAIN data : data[f].score # NoScore

\* A score that is served is no older than the cache's age allows, however long
\* the load took and whichever of several loads filled the cache
\* (index.ts:31: now is read before the await).
FreshEnough ==
    \A l \in Load : NotBefore(served[l].data, Later(0, served[l].since - CacheMs + 1))

\* A score that could not be fetched takes no other fixture with it, and no
\* fixture is left out or shown by an old row of its own list.
AllFixtures ==
    \A l \in Load : served[l].data # NoData => DOMAIN served[l].data = Listed

\* A token that expires in the middle of a load costs the load nothing
\* (TECHNICAL-DOC.md:41).
ExpirySurvived ==
    (faults = 0 /\ valid <= 2) =>
        \A l \in Load : served[l].ok /\ Scored(served[l].data)

\* Of the rows of a fixture a load takes the newest that the list had.
NewestRow ==
    [][\A l \in Load : load[l].pc = "lists" /\ load'[l].pc = "scores" =>
           \A f \in DOMAIN load'[l].data : load'[l].data[f].ts = raw[f]]_vars

-----------------------------------------------------------------------------
(* The inductive invariant *)

\* Scores only rise, and past has what they were.
PastIsPast ==
    \A f \in Fixture :
        /\ past[now][f] <= score[f]
        /\ \A t, u \in 0 .. now : t <= u => past[t][f] <= past[u][f]

\* What a load has fetched is from after its request, and what the cache has from
\* after its stamp.
FetchedSince ==
    /\ \A l \in Load : load[l].pc = "scores" => NotBefore(load[l].data, load[l].since)
    /\ NotBefore(cache.data, Later(0, cache.at))

\* A load has all the fixtures from its lists on, and so has the cache.
LoadsWhole ==
    /\ \A l \in Load : load[l].pc = "scores" => DOMAIN load[l].data = Listed
    /\ cache.at >= 0 => DOMAIN cache.data = Listed

\* Without faults, and while the token expired once at most: a load that renewed
\* the token is not refused again, and has the scores that it has asked for.
FetchesAllScores ==
    faults = 0 /\ valid <= 2 =>
        /\ Scored(cache.data)
        /\ \A l \in Load :
             /\ load[l].retried # {} => jwt = 2
             /\ load[l].pc = "scores" =>
                  \A f \in DOMAIN load[l].data \ load[l].left : load[l].data[f].score # NoScore

IInv ==
    /\ TypeOK /\ PastIsPast /\ FetchedSince /\ LoadsWhole /\ FetchesAllScores
    /\ FreshEnough /\ AllFixtures /\ ExpirySurvived

=============================================================================
