------------------------------ MODULE AccessCaches ------------------------------
(***************************************************************************)
(* Who is let in on the strength of a cache: the tenant check and the      *)
(* session behind every API request (app/dependencies.py, endpoints        *)
(* auth.py), the RFID profile at the gate (verification.py), and the       *)
(* writers that must make them forget: revocation, user updates and        *)
(* deletion (admin.py, users.py), logout and suspension of the estate.     *)
(* Residents join by a registration code (users.py, tokens.py).            *)
(*                                                                         *)
(* One estate, one landlord, the residents who came by the landlord's      *)
(* code.  A job is a list of the calls on shared state still to be made,   *)
(* each with the user it is about: one action per call.                    *)
(***************************************************************************)
EXTENDS Integers, SequencesExt, FiniteSets

CONSTANTS
    Landlord,     \* a user with the landlord role
    Resident,     \* users with the resident role
    Client,       \* API and gate requests that may be under way at once
    Admin,        \* requests of administrators
    None,         \* no job
    MaxRequests, MaxFaults   \* bounds

ASSUME UserAssumption == Landlord \notin Resident /\ IsFiniteSet(Resident)
ASSUME ProcessAssumption == Client \cap Admin = {} /\ IsFiniteSet(Client)
ASSUME BoundAssumption == MaxRequests \in Nat /\ MaxFaults \in Nat

VARIABLES
    account,      \* account[u]: the row of users, as far as is_revoked goes
    session,      \* session[u]: residence:user:<email>, a cached profile
    tag,          \* tag[u]: residence:rfid:<tag>, a cached RFID profile
    banned,       \* users whose JWT is on the blacklist
    estateActive, \* estates.is_active
    tenant,       \* the cached validity of the estate
    code,         \* the registration code's row
    uses,         \* history: residents registered by the code
    redisUp,      \* whether Redis answers
    job,          \* job[p]: what process p is doing
    out,          \* history: users whose logout was answered
    returned,     \* history: users served with the JWT they had logged out with
    requests, faults   \* requests and faults so far

rows    == <<account, estateActive, code, uses>>
caches  == <<session, tag, banned, tenant>>
history == <<out, returned>>
vars    == <<rows, caches, redisUp, job, history, requests, faults>>

User    == {Landlord} \cup Resident
Process == Client \cup Admin
Account == {"absent", "active", "revoked"}

\* Only authorised profiles are cached.  "stale" is history: the entry is out
\* of date through one of the races that the properties except.
Cached  == {"none", "fresh", "stale"}

Call    == {"tenant", "validate", "banned", "session", "account", "keep", "ban", "forget",
            "tag", "holder", "landlord", "remember", "untag", "credentials",
            "code", "enlist", "save", "update", "residents", "suspend", "announce", "revokeCode"} \X User

Job     == [todo : Seq(Call), from : Account, to : Account, late : BOOLEAN]

ASSUME NoneAssumption == None \notin Job

\* Every variable of the caches and of the rows behind them has its type.
TypeOK ==
    /\ account \in [User -> Account]
    /\ session \in [User -> Cached] /\ tag \in [User -> Cached]
    /\ banned \subseteq User /\ out \subseteq User /\ returned \subseteq User
    /\ estateActive \in BOOLEAN
    /\ tenant \in {"none", "valid", "suspended"}
    /\ code \in [used : BOOLEAN, revoked : BOOLEAN]
    /\ uses \in Nat
    /\ redisUp \in BOOLEAN
    /\ job \in [Process -> Job \cup {None}]
    /\ requests \in 0 .. MaxRequests /\ faults \in 0 .. MaxFaults

-----------------------------------------------------------------------------
Idle(p) == job[p] = None

\* Processes of one kind are alike: whichever is free takes the next request.
Takes(p, S) == Idle(p) /\ p = CHOOSE q \in S : Idle(q)

At(p, call) == ~Idle(p) /\ Head(job[p].todo)[1] = call
Who(p) == Head(job[p].todo)[2]

Become(p, j) == job' = [job EXCEPT ![p] = IF j.todo = <<>> THEN None ELSE j]
Goto(p, calls) == Become(p, [job[p] EXCEPT !.todo = calls])
Rest(p) == Tail(job[p].todo)
Proceed(p) == Goto(p, Rest(p))
Refuse(p) == Goto(p, <<>>)

Active(u)  == account[u] = "active"
Holder(u)  == Active(u) /\ (u \in Resident => Active(Landlord))

\* An entry that says yes where the rows say no, and will not be removed for it.
Overtaken(entry, yes) == IF entry = "fresh" /\ ~yes THEN "stale" ELSE entry

\* What a DELETE leaves, which Redis may miss.
Removed(entry, yes) == IF redisUp THEN "none" ELSE Overtaken(entry, yes)

Start(p, S, calls, to, u) ==
    /\ Takes(p, S)
    /\ requests < MaxRequests
    /\ requests' = requests + 1
    /\ Become(p, [todo |-> [i \in DOMAIN calls |-> <<calls[i], u>>], from |-> account[u],
                  to |-> to, late |-> u \in out])
    /\ UNCHANGED <<rows, caches, redisUp, history, faults>>

-----------------------------------------------------------------------------
(* Requests of clients.  The tenant check that comes first shares no state  *)
(* with the rest of a request, and is a request of its own here.  A key may *)
(* expire at any time; it is gone at the next GET.                          *)

\* Mutant: the profile is looked up before the blacklist.
CacheFirst == <<"session", "banned">>

\* The order of get_current_user.
Authenticate == <<"banned", "session">>

Begin(c, calls, u) == Start(c, Client, calls, account[u], u)

StartTenantCheck(c) == Begin(c, <<"tenant">>, Landlord)
StartApi(c)         == \E u \in User : Begin(c, Authenticate, u)
StartLogout(c)      == \E u \in User : Begin(c, Authenticate \o <<"ban", "forget">>, u)
StartLogin(c)       == \E u \in User : Begin(c, <<"credentials">>, u)
StartRfid(c)        == \E u \in User : Begin(c, <<"tag">>, u)
StartRegister(c)    == \E u \in Resident : Begin(c, <<"code">>, u)

-----------------------------------------------------------------------------
(* The tenant check: ValidateTenant.                                       *)

\* GET of the tenant's validity: a hit decides.
TenantHit(c) ==
    /\ At(c, "tenant")
    /\ redisUp /\ tenant # "none"
    /\ Proceed(c)
    /\ UNCHANGED <<rows, caches, redisUp, history, requests, faults>>

\* No entry, or one that has expired (24 hours), or no Redis.
TenantMiss(c) ==
    /\ At(c, "tenant")
    /\ tenant' = IF redisUp THEN "none" ELSE tenant
    /\ Goto(c, << <<"validate", Who(c)>> >>)
    /\ UNCHANGED <<rows, session, tag, banned, redisUp, history, requests, faults>>

\* On a miss the estate's row is there, and SET says valid for a day: is_active
\* is not looked at, see SuspendedIsBlocked.
Validate(c) ==
    /\ At(c, "validate")
    /\ tenant' = IF redisUp THEN "valid" ELSE tenant
    /\ Proceed(c)
    /\ UNCHANGED <<rows, session, tag, banned, redisUp, history, requests, faults>>

-----------------------------------------------------------------------------
(* Sessions: get_current_user, login, logout.                              *)

\* GET of the blacklist, which fails open.
Banned(c) ==
    /\ At(c, "banned")
    /\ IF redisUp /\ Who(c) \in banned THEN Refuse(c) ELSE Proceed(c)
    /\ UNCHANGED <<rows, caches, redisUp, history, requests, faults>>

Served(c) == returned' = IF job[c].late THEN returned \cup {Who(c)} ELSE returned

\* GET of the profile: a hit serves.
SessionHit(c) ==
    /\ At(c, "session")
    /\ redisUp /\ session[Who(c)] # "none"
    /\ Proceed(c)
    /\ Served(c)
    /\ UNCHANGED <<rows, caches, redisUp, out, requests, faults>>

\* No profile, or one that has expired (30 minutes from a request, 8 days from
\* a login), or no Redis.
SessionMiss(c) ==
    /\ At(c, "session")
    /\ session' = IF redisUp THEN [session EXCEPT ![Who(c)] = "none"] ELSE session
    /\ Goto(c, << <<"account", Who(c)>> >> \o Rest(c))
    /\ UNCHANGED <<rows, tag, banned, tenant, redisUp, history, requests, faults>>

\* SELECT of the user: a user who is there and not revoked is served.
ReadAccount(c) ==
    /\ At(c, "account")
    /\ IF Active(Who(c))
       THEN Goto(c, << <<"keep", Who(c)>> >> \o Rest(c)) /\ Served(c)
       ELSE Refuse(c) /\ UNCHANGED returned
    /\ UNCHANGED <<rows, caches, redisUp, out, requests, faults>>

\* Login: SELECT of the user, whose password is right.
Credentials(c) ==
    /\ At(c, "credentials")
    /\ IF Active(Who(c)) THEN Goto(c, << <<"keep", Who(c)>> >>) ELSE Refuse(c)
    /\ UNCHANGED <<rows, caches, redisUp, history, requests, faults>>

\* SET of the profile as it was read.
Keep(c) ==
    /\ At(c, "keep")
    /\ session' = IF redisUp THEN [session EXCEPT ![Who(c)] = Overtaken("fresh", Active(Who(c)))] ELSE session
    /\ Proceed(c)
    /\ UNCHANGED <<rows, tag, banned, tenant, redisUp, history, requests, faults>>

\* Logout: SET on the blacklist for as long as the JWT lives; then the profile
\* is removed and the logout answered, come what may.
Ban(c) ==
    /\ At(c, "ban")
    /\ banned' = IF redisUp THEN banned \cup {Who(c)} ELSE banned
    /\ Proceed(c)
    /\ UNCHANGED <<rows, session, tag, tenant, redisUp, history, requests, faults>>

-----------------------------------------------------------------------------
(* RFID: verify_rfid_access after the subscription check.                  *)

\* GET of the tag's profile: a hit opens.
TagHit(c) ==
    /\ At(c, "tag")
    /\ redisUp /\ tag[Who(c)] # "none"
    /\ Proceed(c)
    /\ UNCHANGED <<rows, caches, redisUp, history, requests, faults>>

\* No profile, or one that has expired (120 s), or no Redis.
TagMiss(c) ==
    /\ At(c, "tag")
    /\ tag' = IF redisUp THEN [tag EXCEPT ![Who(c)] = "none"] ELSE tag
    /\ Goto(c, << <<"holder", Who(c)>> >>)
    /\ UNCHANGED <<rows, session, banned, tenant, redisUp, history, requests, faults>>

\* SELECT of the tag's user, not revoked.
ReadHolder(c) ==
    /\ At(c, "holder")
    /\ IF ~Active(Who(c)) THEN Refuse(c)
       ELSE Goto(c, << << IF Who(c) \in Resident THEN "landlord" ELSE "remember", Who(c)>> >>)
    /\ UNCHANGED <<rows, caches, redisUp, history, requests, faults>>

\* SELECT of a resident's landlord.
ReadLandlord(c) ==
    /\ At(c, "landlord")
    /\ IF Active(Landlord) THEN Goto(c, << <<"remember", Who(c)>> >>) ELSE Refuse(c)
    /\ UNCHANGED <<rows, caches, redisUp, history, requests, faults>>

\* SET of the tag's profile for 120 s.
Remember(c) ==
    /\ At(c, "remember")
    /\ tag' = IF redisUp THEN [tag EXCEPT ![Who(c)] = Overtaken("fresh", Holder(Who(c)))] ELSE tag
    /\ Proceed(c)
    /\ UNCHANGED <<rows, session, banned, tenant, redisUp, history, requests, faults>>

-----------------------------------------------------------------------------
(* Registration by code.                                                   *)

\* SELECT of the code, unused and not revoked, and of the user.
ReadCode(c) ==
    /\ At(c, "code")
    /\ IF code.used \/ code.revoked THEN Refuse(c)
       ELSE Become(c, [job[c] EXCEPT !.todo = << <<"enlist", Who(c)>> >>, !.from = account[Who(c)]])
    /\ UNCHANGED <<rows, caches, redisUp, history, requests, faults>>

\* Mutant: the code stays good.
CodeKept == code' = code

CodeUsed == code' = [code EXCEPT !.used = TRUE]

\* INSERT of the user if there was none, UPDATE of the code, commit.  A user
\* who has come in between has the e-mail address: the INSERT fails.
Enlist(c) ==
    /\ At(c, "enlist")
    /\ IF job[c].from = "absent" /\ account[Who(c)] # "absent"
       THEN UNCHANGED <<account, code, uses>>
       ELSE /\ account' = [account EXCEPT ![Who(c)] = IF job[c].from = "absent" THEN "active" ELSE @]
            /\ CodeUsed
            /\ uses' = uses + 1
    /\ Proceed(c)
    /\ UNCHANGED <<estateActive, caches, redisUp, history, requests, faults>>

-----------------------------------------------------------------------------
(* Administrators.                                                         *)

StartOn(a, calls, to, u) == account[u] # "absent" /\ Start(a, Admin, calls, to, u)

\* Mutant: a revocation leaves the residents' entries.
NoResidents == <<"save", "forget", "untag">>

\* Mutant: the entries are removed before the commit.
ForgetFirst == <<"forget", "untag", "residents", "save">>

\* set_user_revocation_admin: the user's entries, then the residents' ones.
RevocationCalls == <<"save", "forget", "untag", "residents">>

StartRevocation(a) ==
    \E u \in User, to \in {"active", "revoked"} : StartOn(a, RevocationCalls, to, u)

\* update_user, which may set is_revoked as well, and delete_user, which
\* Postgres refuses for a landlord with codes.
UpdateCalls == <<"update", "forget", "untag">>

StartUpdate(a) == \E u \in User, to \in {"active", "revoked"} : StartOn(a, UpdateCalls, to, u)
StartDelete(a) == \E u \in Resident : StartOn(a, UpdateCalls, "absent", u)

\* update_estate_status_admin: commit, then SET of the tenant's validity.
StatusCalls == <<"suspend", "announce">>

StartStatus(a) == \E to \in {"active", "revoked"} : Start(a, Admin, StatusCalls, to, Landlord)

StartRevokeCode(a) == ~code.revoked /\ Start(a, Admin, <<"revokeCode">>, "revoked", Landlord)

\* Commit of is_revoked if it is changed, or of the deletion; a row that is
\* gone meanwhile makes it fail.
Commit(a) ==
    IF account[Who(a)] = "absent"
    THEN Refuse(a) /\ UNCHANGED account
    ELSE /\ account' = IF job[a].to # job[a].from THEN [account EXCEPT ![Who(a)] = job[a].to] ELSE account
         /\ Proceed(a)

Save(a) ==
    /\ At(a, "save")
    /\ Commit(a)
    /\ UNCHANGED <<estateActive, code, uses, caches, redisUp, history, requests, faults>>

\* A landlord's update leaves the residents' entries, see RfidHonest.
Update(a) ==
    /\ At(a, "update")
    /\ Commit(a)
    /\ tag' = IF Who(a) = Landlord
              THEN [u \in User |-> IF u \in Resident THEN Overtaken(tag[u], job[a].to = "active") ELSE tag[u]]
              ELSE tag
    /\ UNCHANGED <<estateActive, code, uses, session, banned, tenant, redisUp, history, requests, faults>>

\* DELETE of a profile, by a writer or by the logout that it ends.
Forget(p) ==
    /\ At(p, "forget")
    /\ session' = [session EXCEPT ![Who(p)] = Removed(@, Active(Who(p)))]
    /\ out' = IF p \in Client THEN out \cup {Who(p)} ELSE out
    /\ Proceed(p)
    /\ UNCHANGED <<rows, tag, banned, tenant, redisUp, returned, requests, faults>>

\* DELETE of a tag's profile.
Untag(p) ==
    /\ At(p, "untag")
    /\ tag' = [tag EXCEPT ![Who(p)] = Removed(@, Holder(Who(p)))]
    /\ Proceed(p)
    /\ UNCHANGED <<rows, session, banned, tenant, redisUp, history, requests, faults>>

\* The calls that forget each of a list of users in turn.
Forgetting(found) ==
    [i \in 1 .. 2 * Len(found) |->
        IF i % 2 = 1 THEN <<"untag", found[(i + 1) \div 2]>> ELSE <<"forget", found[i \div 2]>>]

\* SELECT of a landlord's residents, each of whom is to be forgotten.
ReadResidents(a) ==
    /\ At(a, "residents")
    /\ LET found == SetToSeq({u \in Resident : Who(a) = Landlord /\ account[u] # "absent"})
       IN  Goto(a, Forgetting(found) \o Rest(a))
    /\ UNCHANGED <<rows, caches, redisUp, history, requests, faults>>

SuspendEstate(a) ==
    /\ At(a, "suspend")
    /\ estateActive' = (job[a].to = "active")
    /\ Proceed(a)
    /\ UNCHANGED <<account, code, uses, caches, redisUp, history, requests, faults>>

\* Mutant: the status is announced as the row has it.
AnnouncedAs(to) == to

\* The two validities that are announced.
Announcement(to) == IF to = "active" THEN "valid" ELSE "suspended"

Announce(a) ==
    /\ At(a, "announce")
    /\ tenant' = IF redisUp THEN Announcement(job[a].to) ELSE tenant
    /\ Proceed(a)
    /\ UNCHANGED <<rows, session, tag, banned, redisUp, history, requests, faults>>

RevokeCode(a) ==
    /\ At(a, "revokeCode")
    /\ code' = [code EXCEPT !.revoked = TRUE]
    /\ Proceed(a)
    /\ UNCHANGED <<account, estateActive, uses, caches, redisUp, history, requests, faults>>

-----------------------------------------------------------------------------
(* Faults.                                                                 *)

\* A process dies, or the database refuses its commit: what it had still to do
\* is not done.
Crash(p) ==
    /\ ~Idle(p)
    /\ faults < MaxFaults
    /\ faults' = faults + 1
    /\ job' = [job EXCEPT ![p] = None]
    /\ session' = [u \in User |-> Overtaken(session[u], Active(u))]
    /\ tag' = [u \in User |-> Overtaken(tag[u], Holder(u))]
    /\ UNCHANGED <<rows, banned, tenant, redisUp, history, requests>>

Outage ==
    /\ redisUp
    /\ faults < MaxFaults
    /\ faults' = faults + 1
    /\ redisUp' = FALSE
    /\ UNCHANGED <<rows, caches, job, history, requests>>

Recovery ==
    /\ ~redisUp
    /\ redisUp' = TRUE
    /\ UNCHANGED <<rows, caches, job, history, requests, faults>>

-----------------------------------------------------------------------------
Init ==
    /\ account = [u \in User |-> "active"]
    /\ session = [u \in User |-> "fresh"]
    /\ tag = session
    /\ banned = {}
    /\ estateActive = TRUE
    /\ tenant = "valid"
    /\ code = [used |-> FALSE, revoked |-> FALSE]
    /\ uses = 0
    /\ redisUp = TRUE
    /\ job = [p \in Process |-> None]
    /\ out = {} /\ returned = {}
    /\ requests = 0 /\ faults = 0

ClientStart(c) ==
    \/ StartTenantCheck(c) \/ StartApi(c) \/ StartLogout(c) 
    \/ StartLogin(c) \/ StartRfid(c) \/ StartRegister(c)
ClientStep(c) ==
    \/ TenantHit(c) \/ TenantMiss(c) \/ Validate(c)
    \/ Banned(c) \/ SessionHit(c) \/ SessionMiss(c) \/ ReadAccount(c) \/ Credentials(c) \/ Keep(c) \/ Ban(c)
    \/ TagHit(c) \/ TagMiss(c) \/ ReadHolder(c) \/ ReadLandlord(c) \/ Remember(c)
    \/ ReadCode(c) \/ Enlist(c)
AdminStart(a) ==
    \/ StartRevocation(a) \/ StartUpdate(a) \/ StartDelete(a)
    \/ StartStatus(a) \/ StartRevokeCode(a)
AdminStep(a) ==
    Save(a) \/ Update(a) \/ Untag(a) \/ ReadResidents(a) \/ SuspendEstate(a) \/ Announce(a) \/ RevokeCode(a)

Next ==
    \/ \E a \in Admin : AdminStart(a) \/ AdminStep(a)
    \/ \E c \in Client : ClientStart(c) \/ ClientStep(c)
    \/ \E p \in Process : Forget(p) \/ Crash(p)
    \/ Outage \/ Recovery

Spec == Init /\ [][Next]_vars

-----------------------------------------------------------------------------
(* Properties.                                                             *)

\* An administrator's request has committed and not yet told Redis everything.
Midway == \E a \in Admin : ~Idle(a) /\ ~(At(a, "save") \/ At(a, "update") \/ At(a, "suspend") \/ At(a, "revokeCode"))

\* Nobody who is revoked or deleted has a cached session to be served from,
\* whichever requests and logins filled it meanwhile.  Excepted are the time
\* between a commit and its DELETEs, and stale entries: filled from a row read
\* before the commit, or kept by an outage or a crash (dependencies.py 116-166;
\* admin.py 276-297; users.py 100-139).
SessionHonest == ~Midway => \A u \in User : session[u] = "fresh" => Active(u)

\* Nor does a cached RFID profile open the gate to them, or to a resident whose
\* landlord is revoked: a landlord's revocation reaches every resident's entry.
\* Excepted besides is a landlord revoked by update_user, which leaves the
\* residents' entries (verification.py 223-323; admin.py 287-292; users.py 117).
RfidHonest == ~Midway => \A u \in User : tag[u] = "fresh" => Holder(u)

\* "Suspended estates have access immediately blocked at the gateway and API"
\* (endpoints/admin/estates.py 46-47): once the suspension has been committed
\* and announced, no tenant check lets a request through, on the entry or on
\* the row it reads (dependencies.py 38-66).
SuspendedIsBlocked ==
    [][\A c \in Client : (TenantHit(c) /\ tenant = "valid") \/ Validate(c) => estateActive \/ Midway]_vars

\* A JWT whose logout was answered does not serve a request that starts
\* afterwards, although another login may have cached the profile again, unless
\* Redis failed or the API process died (dependencies.py 109-139; auth.py 95-108).
LoggedOutStaysOut == returned # {} => faults > 0

\* A code registers no more residents than registrations were under way at
\* once: one, but for those that read it before it was used (users.py 39-90).
RegistrationsOverlap == uses <= Cardinality(Client)
=============================================================================
