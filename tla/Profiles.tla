------------------------------ MODULE Profiles ------------------------------
(***************************************************************************)
(* The profile of one wallet: the record of src/server/src/users/store.ts, *)
(* its routes (users/routes.ts), and the tabs of the user's browser, which *)
(* create the profile on the first login, heal it when the email is known, *)
(* and save the name that the user types on /me.                           *)
(*                                                                         *)
(* A tab has one query cache but several uses of useProfile (web           *)
(* hooks/use-profile.ts), each with its own effect and provisioning flag:  *)
(* that of Header, which is on every page, and that of MePage, a new one   *)
(* each time /me is opened.  Requests may be overtaken, and may fail       *)
(* before or after they have reached the server.                           *)
(***************************************************************************)
EXTENDS Integers, FiniteSets

CONSTANTS
    Page,          \* the tabs
    Name,          \* the names a user types
    EmailName,     \* the local part of the email, or None if it makes no name
    Fallback,      \* fan-XXXX, from the wallet
    FanLike,       \* the names that start with "fan-"
    EmailLate,     \* a tab may open before the login knows the email
    MeEarly,       \* /me may be opened before the tab has the profile
    MaxVisits,     \* how often a tab opens /me
    MaxRenames, MaxFaults,
    None

VARIABLES
    user,       \* the server's profile: [name, email], or None
    email,      \* the tabs that know the email
    visits,     \* how often each tab has opened /me
    onMe,       \* the tabs that are on /me
    data,       \* query.data of each tab: "unknown", or what was answered
    stale,      \* the tabs that are fetching the profile (again)
    newer,      \* the tabs that have not fetched the record as it is
    due,        \* the hooks whose effect has to run: they, data or email are new
    provisioning,
    req,        \* PUTs on their way
    saved,      \* the name of the last save that reached the server, or None
    failed,     \* the tabs of which a fetch or a heal failed since /me fetched
    renames, faults

vars == <<user, email, visits, onMe, data, stale, newer, due, provisioning, req, saved,
          failed, renames, faults>>

AnyName == (Name \cup {EmailName, Fallback}) \ {None}
User == [name : AnyName, email : BOOLEAN]

ProfilesTypes ==
    /\ Fallback \in FanLike /\ Fallback # None /\ None \notin Name /\ None \notin User
    /\ {EmailLate, MeEarly} \subseteq BOOLEAN
    /\ MaxVisits \in Nat /\ MaxRenames \in Nat /\ MaxFaults \in Nat

\* A use of useProfile: number 0 is Header's, n that of the n-th opening of /me.
Hook == [page : Page, visit : Nat]
HookOf(pg, n) == [page |-> pg, visit |-> n]
Hooks(pg) == {HookOf(pg, 0)} \cup (IF pg \in onMe THEN {HookOf(pg, visits[pg])} ELSE {})

Unknown == [known |-> FALSE, user |-> None]
Known(u) == [known |-> TRUE, user |-> u]
Put(hook, kind, name, mail) == [hook |-> hook, kind |-> kind, name |-> name, email |-> mail]

Init ==
    /\ user = None
    /\ email = IF EmailLate THEN {} ELSE Page
    /\ visits = [pg \in Page |-> 0] /\ onMe = {}
    /\ data = [pg \in Page |-> Unknown]
    /\ stale = Page /\ newer = Page /\ due = {} /\ provisioning = {}
    /\ req = {} /\ saved = None /\ failed = {} /\ renames = 0 /\ faults = 0

-----------------------------------------------------------------------------
(* The server *)

\* upsertUser: a patch; the fallback when a profile is made without a name.
Upsert(r) ==
    /\ user' = IF user = None
               THEN [name |-> IF r.name = None THEN Fallback ELSE r.name, email |-> r.email]
               ELSE [name |-> IF r.name = None THEN user.name ELSE r.name,
                     email |-> user.email \/ r.email]
    /\ saved' = IF r.kind = "save" THEN r.name ELSE saved
    /\ newer' = Page

\* The hooks of a tab that provision on, though their patch was answered: until the
\* query is fetched, or that fetch is given up for a newer one.
Fetching(pg) == {h \in provisioning : h.page = pg /\ ~\E r \in req : r.hook = h /\ r.kind = "heal"}

\* PUT /users/:wallet; its answer invalidates the query of the tab.
Answer(r) ==
    /\ r \in req /\ req' = req \ {r}
    /\ Upsert(r)
    /\ stale' = stale \cup {r.hook.page}
    /\ provisioning' = IF r.hook.page \in stale THEN provisioning \ Fetching(r.hook.page)
                       ELSE provisioning
    /\ UNCHANGED <<email, visits, onMe, data, due, failed, renames, faults>>

\* A PUT fails, having reached the server or not: the flag goes down, and nothing
\* is fetched again.
Fail(r) ==
    /\ faults < MaxFaults /\ faults' = faults + 1
    /\ r \in req /\ req' = req \ {r}
    /\ Upsert(r) \/ UNCHANGED <<user, saved, newer>>
    /\ IF r.kind = "heal"
       THEN provisioning' = provisioning \ {r.hook} /\ failed' = failed \cup {r.hook.page}
       ELSE UNCHANGED <<provisioning, failed>>
    /\ UNCHANGED <<email, visits, onMe, data, stale, due, renames>>

-----------------------------------------------------------------------------
(* The query of a tab *)

\* GET /users/:wallet; a 404 is null.  Data is new to a tab when the record was
\* written since, for updatedAt then differs.
Fetch(pg) ==
    /\ pg \in stale /\ stale' = stale \ {pg}
    /\ data' = [data EXCEPT ![pg] = Known(user)]
    /\ due' = IF pg \in newer THEN due \cup Hooks(pg) ELSE due
    /\ newer' = newer \ {pg}
    /\ provisioning' = provisioning \ Fetching(pg)
    /\ UNCHANGED <<user, email, visits, onMe, req, saved, failed, renames, faults>>

\* The GET fails, and its second try too.
FetchFails(pg) ==
    /\ faults < MaxFaults /\ faults' = faults + 1
    /\ pg \in stale /\ stale' = stale \ {pg}
    /\ provisioning' = provisioning \ Fetching(pg)
    /\ failed' = failed \cup {pg}
    /\ UNCHANGED <<user, email, visits, onMe, data, newer, due, req, saved, renames>>

\* The query fetches by itself what it has had for long: the browser is online again.
Refetch(pg) ==
    /\ data[pg].known /\ pg \notin stale /\ stale' = stale \cup {pg}
    /\ UNCHANGED <<user, email, visits, onMe, data, newer, due, provisioning, req, saved,
                   failed, renames, faults>>

-----------------------------------------------------------------------------
(* The hooks of a tab *)

LearnEmail(pg) ==
    /\ pg \notin email /\ email' = email \cup {pg}
    /\ due' = due \cup Hooks(pg)
    /\ UNCHANGED <<user, visits, onMe, data, stale, newer, provisioning, req, saved, failed,
                   renames, faults>>

\* MePage is mounted, with a hook of its own; a query that has no data, or old data, is
\* fetched.
OpenMe(pg, old) ==
    /\ pg \notin onMe /\ visits[pg] < MaxVisits
    /\ MeEarly \/ data[pg].user # None
    /\ onMe' = onMe \cup {pg} /\ visits' = [visits EXCEPT ![pg] = @ + 1]
    /\ due' = due \cup {HookOf(pg, visits'[pg])}
    /\ IF old \/ ~data[pg].known
       THEN stale' = stale \cup {pg} /\ failed' = failed \ {pg}
       ELSE UNCHANGED <<stale, failed>>
    /\ UNCHANGED <<user, email, data, newer, provisioning, req, saved, renames, faults>>

\* MePage is unmounted, when its effects have run.  Its requests go on without it.
LeaveMe(pg) ==
    /\ pg \in onMe /\ onMe' = onMe \ {pg}
    /\ HookOf(pg, visits[pg]) \notin due
    /\ UNCHANGED <<user, email, visits, data, stale, newer, due, provisioning, req, saved, failed,
                   renames, faults>>

FromEmail(pg) == IF pg \in email THEN EmailName ELSE None

\* Mutant: the email is sent with every patch, and always is a patch.
PatchEmailAgain(pg) ==
    LET u == data[pg].user
    IN  IF u = None
        THEN [name |-> IF FromEmail(pg) = None THEN Fallback ELSE FromEmail(pg),
              email |-> pg \in email]
        ELSE [name |-> IF u.name \in FanLike THEN FromEmail(pg) ELSE None, email |-> pg \in email]

\* What an effect wants to send: a new profile, or what there is to heal.
Patch(pg) ==
    LET u == data[pg].user
    IN  IF u = None
        THEN [name |-> IF FromEmail(pg) = None THEN Fallback ELSE FromEmail(pg),
              email |-> pg \in email]
        ELSE [name |-> IF u.name \in FanLike THEN FromEmail(pg) ELSE None,
              email |-> pg \in email /\ ~u.email]

\* There is a patch to send.
Ailing(pg) ==
    data[pg].known /\ (data[pg].user = None \/ Patch(pg) # [name |-> None, email |-> FALSE])

\* Mutant: the effect does not look at the flag.
SendersUnflagged(pg) == IF Ailing(pg) THEN {h \in due : h.page = pg} ELSE {}

\* The hooks whose effect sends the patch.
Senders(pg) == IF Ailing(pg) THEN {h \in due : h.page = pg} \ provisioning ELSE {}

\* The effects of a tab on query.data and the email, of one render.
Effect(pg) ==
    /\ \E h \in due : h.page = pg
    /\ due' = {h \in due : h.page # pg}
    /\ req' = req \cup {Put(h, "heal", Patch(pg).name, Patch(pg).email) : h \in Senders(pg)}
    /\ provisioning' = provisioning \cup Senders(pg)
    /\ UNCHANGED <<user, email, visits, onMe, data, stale, newer, saved, failed, renames, faults>>

\* The Save button of /me: there is a profile with another name, and no save of this
\* opening of /me is under way.
Rename(pg, name) ==
    LET h == HookOf(pg, visits[pg])
    IN  /\ renames < MaxRenames /\ renames' = renames + 1
        /\ pg \in onMe /\ data[pg].user # None /\ data[pg].user.name # name
        /\ ~\E r \in req : r.hook = h /\ r.kind = "save"
        /\ req' = req \cup {Put(h, "save", name, FALSE)}
        /\ UNCHANGED <<user, email, visits, onMe, data, stale, newer, due, provisioning, saved,
                       failed, faults>>

Next ==
    \/ \E r \in req : Answer(r) \/ Fail(r)
    \/ \E pg \in Page :
         \/ Fetch(pg) \/ FetchFails(pg) \/ Refetch(pg) \/ LearnEmail(pg)
         \/ LeaveMe(pg) \/ Effect(pg) \/ \E old \in BOOLEAN : OpenMe(pg, old)
         \/ \E name \in Name : Rename(pg, name)

\* Requests are answered, effects run, and the login learns the email.
Fairness ==
    /\ WF_vars(\E r \in req : Answer(r))
    /\ \A pg \in Page : WF_vars(Fetch(pg)) /\ WF_vars(Effect(pg)) /\ WF_vars(LearnEmail(pg))

Spec == Init /\ [][Next]_vars /\ Fairness

-----------------------------------------------------------------------------
(* Properties *)

\* Each use of the hook has one heal under way, and only while its own flag is up; a
\* tab on /me may have two.  Each opening of /me has one save under way.
TypeOK ==
    /\ user \in User \cup {None} /\ saved \in Name \cup {None}
    /\ data \in [Page -> [known : BOOLEAN, user : User \cup {None}]]
    /\ visits \in [Page -> Nat] /\ onMe \subseteq Page
    /\ \A h \in due \cup provisioning : h \in Hook /\ h.visit <= visits[h.page]
    /\ req \subseteq [hook : Hook, kind : {"heal", "save"}, name : AnyName \cup {None}, email : BOOLEAN]
    /\ \A r \in req : r.hook.visit <= visits[r.hook.page] /\ (r.kind = "save" => r.name \in Name)
    /\ \A r, q \in req : r.hook = q.hook /\ r.kind = q.kind => r = q
    /\ \A r \in req : r.kind = "heal" => r.hook \in provisioning

\* The user "owns the name via /me" (use-profile.ts:11): what was saved last is the
\* name, and no heal overwrites it.
\* The code keeps this only of one tab that has the profile before /me is opened, and
\* of names that no heal takes for the fallback: README, "Where the code and its
\* documents disagree".
OwnName == saved # None => user.name = saved

\* However many hooks and tabs there are, nothing overwrites a name that was saved but
\* a heal, with the name from the email or from the wallet.
OnlyHealsOverwrite ==
    saved # None => user # None /\ user.name \in {saved, EmailName, Fallback} \ {None}

\* The effects have nothing to heal in a profile.
Whole(u) ==
    u # None => u.email /\ (EmailName # None => u.name \notin FanLike)

FirstName == IF EmailName = None THEN Fallback ELSE EmailName

\* Why OwnName holds of such a tab: Header's hook makes the profile, with email and
\* name, by one patch that arrives before there is anything to save, and no hook of
\* /me finds anything to heal.
OwnInv ==
    /\ TypeOK /\ OwnName /\ email = Page /\ Whole(user)
    /\ user = None => saved = None
    /\ \A pg \in Page :
         /\ Whole(data[pg].user) /\ (user = None => data[pg].user = None)
         /\ data[pg].user = None => visits[pg] = 0
         /\ data[pg].known /\ user = None => pg \notin newer
         /\ data[pg].known /\ data[pg].user = None /\ user # None => ~\E h \in due : h.page = pg
    /\ \A r \in req :
         IF r.kind = "heal"
         THEN /\ user = None /\ r.email /\ r.name = FirstName /\ r.hook.visit = 0
              /\ data[r.hook.page].known /\ ~\E h \in due : h.page = r.hook.page
         ELSE user # None

\* Healing comes to an end: no tab sends patches for ever.
HealEnds == <>[](\A r \in req : r.kind # "heal")

\* In the end the wallet has a profile with its email and, unless the user saved one,
\* the name from the email.
\* The code does not keep this when a request fails: nothing runs the effect again.
Healed == <>[](user # None /\ user.email /\ (saved = None => user.name = FirstName))

\* It is healed if /me is opened after the last failure, and the profile fetched: that
\* is a hook with a new flag.
HealedOnMe == <>[](failed = {}) => Healed

=============================================================================
