------------------------------ MODULE Subscription ------------------------------
(***************************************************************************)
(* One estate's subscription, as everything that touches it sees it: the   *)
(* gate's check of status, term, RFID flag and quota                       *)
(* (app/services/verification.py), the payments that extend it             *)
(* (payments.py), the tier change, settings and override that rewrite it   *)
(* (estates.py, admin.py), the token requests that start a billing cycle   *)
(* (tokens.py) and the maintenance pass that starts cycles, retires it and *)
(* copies the Redis counter into it (maintenance.py).                      *)
(*                                                                         *)
(* Every actor is a process with a job.  A job keeps the row as it read    *)
(* it, the row as it means it, and the calls on shared state it has yet to *)
(* make, in order: one action per call.                                    *)
(***************************************************************************)
EXTENDS Integers, Sequences

CONSTANTS
    Check,        \* gate requests that may be under way at once
    Writer,       \* API requests that write the subscription
    Maintainer,   \* coroutines that run the maintenance pass
    Tier,         \* subscription tiers
    RfidTier,     \* tiers with rfid_enabled
    Limit,        \* Limit[t]: monthly_verifications_limit of tier t
    Period,       \* days of a billing cycle and of an extension (30)
    MonthStart,   \* days on which a calendar month starts
    FirstTier,    \* tier the subscription is sold on
    FirstExpiry,  \* expiry_date of the subscription as sold, on day 0
    FirstDay,     \* the day it is looked at first
    OverrideDay,  \* expiry dates an administrator may set
    None,         \* no cached entry, no job, no row read
    MaxDay, MaxRequests, MaxFaults   \* bounds

ASSUME TierAssumption == RfidTier \subseteq Tier /\ FirstTier \in Tier /\ Limit \in [Tier -> Nat]
ASSUME DayAssumption == /\ Period \in Nat \ {0} /\ FirstExpiry \in Nat
                        /\ FirstDay \in Nat /\ MaxDay \in Nat
                        /\ OverrideDay \subseteq Nat
ASSUME BoundAssumption == MaxRequests \in Nat /\ MaxFaults \in Nat
ASSUME ProcessAssumption == Check \cap (Writer \cup Maintainer) = {} /\ Writer \cap Maintainer = {}

VARIABLES
    today,        \* date.today()
    row,          \* the row of subscriptions
    cache,        \* residence:sub:<app_id>, or None
    quota,        \* this month's residence:quota key, 0 when missing
    listed,       \* whether the estate is in residence:quota:active_app_ids
    redisUp,      \* whether Redis answers
    job,          \* job[p]: what process p is doing
    servedOn,     \* history: the last day a check went through
    term,         \* history: the latest expiry_date the row has had
    requests, faults,  \* requests and faults so far
    poisoned      \* whether a queued log is about a user who is gone

vars == <<today, row, cache, quota, listed, redisUp, job, servedOn, term, requests, faults, poisoned>>

Process == Check \cup Writer \cup Maintainer

\* Any status but "active" is dealt with as "expired" is.
Status  == {"active", "expired"}
Row     == [tier : Tier, status : Status, expiry : Nat, cycle : Nat, usage : Nat]

\* A cached entry, the day it was set and (history) whether it is out of date
\* through one of the races that CacheHonest excepts.
Entry   == [tier : Tier, status : Status, expiry : Nat, set : Nat, stale : BOOLEAN]

Call    == {"lookup", "read", "fill", "incr", "list", "fallback",
            "commit", "invalidate", "unquota", "unlist", "used", "drain", "members", "count", "select"}
Job     == [todo : Seq(Call), day : Nat, old : Row \cup {None}, new : Row \cup {None},
            rfid : BOOLEAN, tier : Tier \cup {None}, n : Nat]

ASSUME NoneAssumption == None \notin Row /\ None \notin Entry /\ None \notin Job /\ None \notin Tier

\* Every variable of the subscription has its type.
TypeOK ==
    /\ today \in Nat /\ servedOn \in Nat /\ term \in Nat
    /\ row \in Row
    /\ cache \in Entry \cup {None}
    /\ quota \in Nat
    /\ listed \in BOOLEAN /\ redisUp \in BOOLEAN /\ poisoned \in BOOLEAN
    /\ job \in [Process -> Job \cup {None}]
    /\ requests \in 0 .. MaxRequests /\ faults \in 0 .. MaxFaults

-----------------------------------------------------------------------------
Idle(p) == job[p] = None

\* Processes of one kind are alike: whichever is free takes the next request.
Takes(p, S) == Idle(p) /\ p = CHOOSE q \in S : Idle(q)

At(p, call) == ~Idle(p) /\ Head(job[p].todo) = call

\* p turns to job j, which is over when it has no call left.
Become(p, j) == job' = [job EXCEPT ![p] = IF j.todo = <<>> THEN None ELSE j]

Goto(p, calls) == Become(p, [job[p] EXCEPT !.todo = calls])
Proceed(p) == Goto(p, Tail(job[p].todo))

\* A job with nothing read.  Only gate and billing part go by the day.
Fresh(calls) == [todo |-> calls, day |-> 0, old |-> None, new |-> None,
                 rfid |-> FALSE, tier |-> None, n |-> 0]

\* A job that has just read the row and means it to be r.
Rewrite(calls, r) == [Fresh(calls) EXCEPT !.old = row, !.new = r]

\* The columns that the checks of status, term and features look at.
Terms(r) == <<r.tier, r.status, r.expiry>>

\* The cached entry, if any, disagrees with r and will not be removed for it.
Overtaken(e, r) == IF e # None /\ Terms(e) # Terms(r) THEN [e EXCEPT !.stale = TRUE] ELSE e

\* An UPDATE writes the columns that the job changed since it read the row.
Merge(old, new, r) ==
    [tier   |-> IF new.tier   # old.tier   THEN new.tier   ELSE r.tier,
     status |-> IF new.status # old.status THEN new.status ELSE r.status,
     expiry |-> IF new.expiry # old.expiry THEN new.expiry ELSE r.expiry,
     cycle  |-> IF new.cycle  # old.cycle  THEN new.cycle  ELSE r.cycle,
     usage  |-> IF new.usage  # old.usage  THEN new.usage  ELSE r.usage]

\* (today - billing_cycle_start).days >= 30, and what a new cycle sets.
CycleOver(r, day) == day - r.cycle >= Period

\* Mutant: a new cycle sets the count to NULL.
EmptyCycle(r, day) == IF CycleOver(r, day) THEN [r EXCEPT !.usage = None, !.cycle = day] ELSE r

NewCycle(r, day) == IF CycleOver(r, day) THEN [r EXCEPT !.usage = 0, !.cycle = day] ELSE r

\* Status, expiry date and RFID flag let a request through.
InForce(r, day)    == r.status = "active" /\ day <= r.expiry
Lets(r, day, rfid) == InForce(r, day) /\ (rfid => r.tier \in RfidTier)

-----------------------------------------------------------------------------
(* The gate: _check_and_update_subscription and _enforce_quota.            *)

\* A request reaches the gate; today is read once, before the cache is.
StartCheck(c) ==
    /\ Takes(c, Check)
    /\ requests < MaxRequests
    /\ requests' = requests + 1
    /\ \E rfid \in BOOLEAN : Become(c, [Fresh(<<"lookup">>) EXCEPT !.day = today, !.rfid = rfid])
    /\ UNCHANGED <<today, row, cache, quota, listed, redisUp, servedOn, term, faults, poisoned>>

\* Mutant: the cached expiry date is not compared with today.
CacheIgnoresTerm(e, day, rfid) == e.status = "active" /\ (rfid => e.tier \in RfidTier)

\* The verdict on a cached entry.
CacheLets(e, day, rfid) == Lets(e, day, rfid)

\* GET of the cached state; without one, or without Redis, the row is read.
Lookup(c) ==
    /\ At(c, "lookup")
    /\ IF redisUp /\ cache # None
       THEN Become(c, [job[c] EXCEPT
                !.todo = IF CacheLets(cache, job[c].day, job[c].rfid) THEN <<"incr">> ELSE <<>>,
                !.tier = cache.tier, !.rfid = FALSE])
       ELSE Goto(c, <<"read">>)
    /\ UNCHANGED <<today, row, cache, quota, listed, redisUp, servedOn, term, requests, faults, poisoned>>

\* The calls that start a new billing cycle after its commit.
ResetQuota == <<"unquota", "unlist">>

\* SELECT: status and term decide, then a billing cycle that is over is
\* started anew, and only then the RFID flag decides.
Read(c) ==
    /\ At(c, "read")
    /\ LET day == job[c].day
           cycle == IF CycleOver(row, day) THEN <<"commit">> \o ResetQuota ELSE <<>>
           rest == IF Lets(row, day, job[c].rfid) THEN <<"fill", "incr">> ELSE <<>>
       IN  IF InForce(row, day)
           THEN Become(c, [job[c] EXCEPT !.todo = cycle \o rest, !.old = row,
                                         !.new = NewCycle(row, day), !.tier = row.tier, !.rfid = FALSE])
           ELSE Goto(c, <<>>)
    /\ UNCHANGED <<today, row, cache, quota, listed, redisUp, servedOn, term, requests, faults, poisoned>>

\* SET with 300 s: the values read, however old they are by now.
Fill(c) ==
    /\ At(c, "fill")
    /\ LET r == job[c].new
           entry == [tier |-> r.tier, status |-> r.status, expiry |-> r.expiry,
                     set |-> today, stale |-> FALSE]
       IN  cache' = IF redisUp THEN Overtaken(entry, row) ELSE cache
    /\ Proceed(c)
    /\ UNCHANGED <<today, row, quota, listed, redisUp, servedOn, term, requests, faults, poisoned>>

\* INCR of this month's counter.  Its EXPIRE, a month and more away, comes
\* after the key has gone out of use.
Increment(c) ==
    /\ At(c, "incr")
    /\ IF redisUp
       THEN /\ quota' = quota + 1
            /\ Become(c, [job[c] EXCEPT !.todo = <<"list">>, !.n = quota + 1])
       ELSE UNCHANGED quota /\ Goto(c, <<"fallback">>)
    /\ UNCHANGED <<today, row, cache, listed, redisUp, servedOn, term, requests, faults, poisoned>>

\* A check of day lets the request through.
Serve(day) == servedOn' = IF day > servedOn THEN day ELSE servedOn

\* SADD, then the verdict on the count.  An error here, the count taken, sends
\* the request to the fallback as well.
List(c) ==
    /\ At(c, "list")
    /\ IF redisUp
       THEN /\ listed' = TRUE
            /\ IF job[c].n <= Limit[job[c].tier] THEN Serve(job[c].day) ELSE UNCHANGED servedOn
            /\ Proceed(c)
       ELSE Goto(c, <<"fallback">>) /\ UNCHANGED <<listed, servedOn>>
    /\ UNCHANGED <<today, row, cache, quota, redisUp, term, requests, faults, poisoned>>

\* The count in Postgres: a SELECT, which on a cache miss answers with the row
\* the session has loaded before, then current + 1 in Python.
Fallback(c) ==
    /\ At(c, "fallback")
    /\ LET r == IF job[c].old = None THEN row ELSE job[c].new
       IN  IF r.usage < Limit[job[c].tier]
           THEN Become(c, [job[c] EXCEPT !.todo = <<"commit">>, !.old = r, !.new = [r EXCEPT !.usage = @ + 1]])
           ELSE Goto(c, <<>>)
    /\ UNCHANGED <<today, row, cache, quota, listed, redisUp, servedOn, term, requests, faults, poisoned>>

-----------------------------------------------------------------------------
(* What writes the row: payments, tier change, settings, override.         *)

\* What fulfill_subscription makes of the row.
Fulfilled(r, t) ==
    [tier |-> t, status |-> "active",
     expiry |-> (IF r.expiry > today THEN r.expiry ELSE today) + Period,
     cycle |-> today, usage |-> 0]

StartWrite(w, calls, r) ==
    /\ Takes(w, Writer)
    /\ requests < MaxRequests
    /\ requests' = requests + 1
    /\ Become(w, Rewrite(calls, r))
    /\ UNCHANGED <<today, row, cache, quota, listed, redisUp, servedOn, term, faults, poisoned>>

\* A webhook delivery, or a session check that finds its payment made, each
\* extends the subscription; deliveries repeat.
StartFulfil(w) ==
    \E t \in Tier : StartWrite(w, <<"commit", "invalidate">> \o ResetQuota, Fulfilled(row, t))

\* Mutant: a tier change leaves the cached entry alone.
CommitOnly == <<"commit">>

\* change_estate_tier, update_estate_settings, override_subscription_admin and
\* update_estate_status_admin commit first and then remove the cached entry.
CommitThenInvalidate == <<"commit", "invalidate">>

StartTierChange(w) == \E t \in Tier : StartWrite(w, CommitThenInvalidate, [row EXCEPT !.tier = t])

\* Settings and estate status leave the subscription's columns alone.
StartSettings(w) == StartWrite(w, CommitThenInvalidate, row)

\* An override of a single limit or flag counts as a change of tier.
StartOverride(w) ==
    \E s \in Status, e \in OverrideDay \cup {row.expiry} :
        StartWrite(w, CommitThenInvalidate, [row EXCEPT !.status = s, !.expiry = e])

\* A token request in a cycle that is over starts a new one: it resets the
\* counter before it commits, and leaves the cached entry.  In a running cycle
\* it writes nothing of the subscription.
StartTokenRequest(w) ==
    /\ InForce(row, today) /\ CycleOver(row, today)
    /\ \E quotaRead \in {<<>>, <<"used">>} :
           StartWrite(w, ResetQuota \o quotaRead \o <<"commit">>, NewCycle(row, today))

\* A visitor token needs quota left: GET of the counter, or the row's count.
\* Without it the request is refused and its transaction rolled back.
Used(w) ==
    /\ At(w, "used")
    /\ LET used == IF redisUp /\ quota > 0 THEN quota ELSE job[w].new.usage
       IN  IF used < Limit[job[w].new.tier] THEN Proceed(w) ELSE Goto(w, <<>>)
    /\ UNCHANGED <<today, row, cache, quota, listed, redisUp, servedOn, term, requests, faults, poisoned>>

-----------------------------------------------------------------------------
(* The maintenance pass.                                                   *)

\* Mutant: a subscription is retired on its last day.
DueOnLastDay(r, day) == r.status = "active" /\ r.expiry <= day

\* Mutant: a subscription is retired only when its cycle is over as well.
OverdueAtCycleEnd(r, day) == r.status = "active" /\ r.expiry < day /\ CycleOver(r, day)

Overdue(r, day) == r.status = "active" /\ r.expiry < day

\* A pass drains the two queues first, the access logs before all.
StartMaintenance(m) ==
    /\ Idle(m)
    /\ Become(m, Fresh(<<"drain">>))
    /\ UNCHANGED <<today, row, cache, quota, listed, redisUp, servedOn, term, requests, faults, poisoned>>

\* The batch of logs that the pass took has one about a user who is gone:
\* Postgres refuses it, it goes back unless Redis is away by now, and the error
\* ends the whole pass.
RefuseLogs(m) ==
    /\ At(m, "drain")
    /\ poisoned
    /\ poisoned' = redisUp
    /\ Goto(m, <<>>)
    /\ UNCHANGED <<today, row, cache, quota, listed, redisUp, servedOn, term, requests, faults>>

\* The drains are done, with such a log queued only when Redis gave no logs or
\* others.  The billing part reads the row, removes cached entry and counter
\* first and commits last; the quota part then asks which estates have a counter.
Bill(m) ==
    /\ At(m, "drain")
    /\ LET cycle == IF CycleOver(row, today) THEN <<"invalidate">> \o ResetQuota ELSE <<>>
           retire == IF Overdue(row, today) THEN <<"invalidate">> ELSE <<>>
           commit == IF cycle \o retire = <<>> THEN <<>> ELSE <<"commit">>
           r == NewCycle(row, today)
           billed == [r EXCEPT !.status = IF Overdue(row, today) THEN "expired" ELSE @]
       IN  Become(m, [Rewrite(cycle \o retire \o commit \o <<"members">>, billed) EXCEPT !.day = today])
    /\ UNCHANGED <<today, row, cache, quota, listed, redisUp, servedOn, term, requests, faults, poisoned>>

\* SMEMBERS of the estates with a counter.
Members(m) ==
    /\ At(m, "members")
    /\ Goto(m, IF redisUp /\ listed THEN <<"count">> ELSE <<>>)
    /\ UNCHANGED <<today, row, cache, quota, listed, redisUp, servedOn, term, requests, faults, poisoned>>

\* GET of the counter.
Count(m) ==
    /\ At(m, "count")
    /\ Become(m, [job[m] EXCEPT !.todo = IF redisUp /\ quota > 0 THEN <<"select">> ELSE <<>>, !.n = quota])
    /\ UNCHANGED <<today, row, cache, quota, listed, redisUp, servedOn, term, requests, faults, poisoned>>

\* Mutant: the latest request is not counted.
SyncBefore(r, n) == [r EXCEPT !.usage = n - 1]

\* The counter replaces the row's usage.
Synced(r, n) == [r EXCEPT !.usage = n]

\* SELECT of the row the counter is to be written to.
Select(m) ==
    /\ At(m, "select")
    /\ Become(m, [job[m] EXCEPT !.todo = <<"commit">>, !.n = 0,
                                 !.old = row, !.new = Synced(row, job[m].n)])
    /\ UNCHANGED <<today, row, cache, quota, listed, redisUp, servedOn, term, requests, faults, poisoned>>

-----------------------------------------------------------------------------
(* The access logs, of which a pass needs to know one thing.               *)

\* delete_user, while a log about the user is queued, or a log recorded for the
\* deleted user's cached profile.
PoisonLogs ==
    /\ ~poisoned
    /\ requests < MaxRequests
    /\ requests' = requests + 1
    /\ poisoned' = TRUE
    /\ UNCHANGED <<today, row, cache, quota, listed, redisUp, job, servedOn, term, faults>>

\* The queue loop is refused the batch as well; Redis does not take it back.
LoseLogs ==
    /\ poisoned /\ ~redisUp
    /\ poisoned' = FALSE
    /\ UNCHANGED <<today, row, cache, quota, listed, redisUp, job, servedOn, term, requests, faults>>

-----------------------------------------------------------------------------
(* The calls that several jobs make.                                       *)

\* A check that ends with a commit has counted itself in Postgres.
Commit(p) ==
    /\ At(p, "commit")
    /\ LET r == Merge(job[p].old, job[p].new, row)
       IN  /\ row' = r
           /\ term' = IF r.expiry > term THEN r.expiry ELSE term
           \* a maintenance pass invalidated before it commits, see CacheHonest
           /\ cache' = IF p \in Maintainer /\ Terms(job[p].old) # Terms(row) THEN Overtaken(cache, r) ELSE cache
    /\ LET r == IF p \in Check THEN job[p].new ELSE None
       IN  Become(p, [job[p] EXCEPT !.todo = Tail(@), !.old = r, !.new = r])
    /\ IF p \in Check /\ Tail(job[p].todo) = <<>> THEN Serve(job[p].day) ELSE UNCHANGED servedOn
    /\ UNCHANGED <<today, quota, listed, redisUp, requests, faults, poisoned>>

\* DELETE of the cached entry.
Invalidate(p) ==
    /\ At(p, "invalidate")
    /\ cache' = IF redisUp THEN None ELSE Overtaken(cache, row)
    /\ Proceed(p)
    /\ UNCHANGED <<today, row, quota, listed, redisUp, servedOn, term, requests, faults, poisoned>>

\* reset_monthly_quota_redis: DELETE of the counter, SREM of the estate; an
\* error in the first skips the second.
DeleteCounter(p) ==
    /\ At(p, "unquota")
    /\ quota' = IF redisUp THEN 0 ELSE quota
    /\ Goto(p, IF redisUp THEN Tail(job[p].todo) ELSE Tail(Tail(job[p].todo)))
    /\ UNCHANGED <<today, row, cache, listed, redisUp, servedOn, term, requests, faults, poisoned>>

Unlist(p) ==
    /\ At(p, "unlist")
    /\ listed' = (listed /\ ~redisUp)
    /\ Proceed(p)
    /\ UNCHANGED <<today, row, cache, quota, redisUp, servedOn, term, requests, faults, poisoned>>

-----------------------------------------------------------------------------
(* Time and faults.                                                        *)

\* Midnight.  Neither a check nor a cached entry (300 s) sees two of them.
\* A new month has a new counter.
NextDay ==
    /\ today < MaxDay
    /\ \A c \in Check : ~Idle(c) => job[c].day = today
    /\ cache # None => cache.set = today
    /\ today' = today + 1
    /\ quota' = IF today' \in MonthStart THEN 0 ELSE quota
    /\ UNCHANGED <<row, cache, listed, redisUp, job, servedOn, term, requests, faults, poisoned>>

CacheExpires ==
    /\ cache # None
    /\ cache' = None
    /\ UNCHANGED <<today, row, quota, listed, redisUp, job, servedOn, term, requests, faults, poisoned>>

\* A process dies, or the database refuses its commit: what it had still to do
\* is not done, and a batch of logs it had popped is gone.
Crash(p) ==
    /\ ~Idle(p)
    /\ faults < MaxFaults
    /\ faults' = faults + 1
    /\ job' = [job EXCEPT ![p] = None]
    /\ cache' = IF At(p, "invalidate") THEN Overtaken(cache, row) ELSE cache
    /\ poisoned' \in {poisoned, poisoned /\ ~At(p, "drain")}
    /\ UNCHANGED <<today, row, quota, listed, redisUp, servedOn, term, requests>>

Outage ==
    /\ redisUp
    /\ faults < MaxFaults
    /\ faults' = faults + 1
    /\ redisUp' = FALSE
    /\ UNCHANGED <<today, row, cache, quota, listed, job, servedOn, term, requests, poisoned>>

Recovery ==
    /\ ~redisUp
    /\ redisUp' = TRUE
    /\ UNCHANGED <<today, row, cache, quota, listed, job, servedOn, term, requests, faults, poisoned>>

-----------------------------------------------------------------------------
Init ==
    /\ today = FirstDay
    /\ row = [tier |-> FirstTier, status |-> "active", expiry |-> FirstExpiry, cycle |-> 0, usage |-> 0]
    /\ cache \in {None, [tier |-> FirstTier, status |-> "active", expiry |-> FirstExpiry,
                         set |-> FirstDay, stale |-> FALSE]}
    /\ quota = 0
    /\ listed = FALSE
    /\ redisUp = TRUE
    /\ job = [p \in Process |-> None]
    /\ servedOn = 0
    /\ term = FirstExpiry
    /\ requests = 0 /\ faults = 0
    /\ poisoned = FALSE

CheckStep(c) == Lookup(c) \/ Read(c) \/ Fill(c) \/ Increment(c) \/ List(c) \/ Fallback(c)
WriteStart(w) == StartFulfil(w) \/ StartTierChange(w) \/ StartSettings(w) \/ StartOverride(w) \/ StartTokenRequest(w)
MaintenanceStep(m) == StartMaintenance(m) \/ RefuseLogs(m) \/ Bill(m) \/ Members(m) \/ Count(m) \/ Select(m)
SharedStep(p) == Commit(p) \/ Invalidate(p) \/ DeleteCounter(p) \/ Unlist(p)

Next ==
    \/ \E c \in Check : StartCheck(c) \/ CheckStep(c)
    \/ \E w \in Writer : WriteStart(w) \/ Used(w)
    \/ \E m \in Maintainer : MaintenanceStep(m)
    \/ \E p \in Process : SharedStep(p) \/ Crash(p)
    \/ PoisonLogs \/ LoseLogs
    \/ NextDay \/ CacheExpires \/ Outage \/ Recovery

\* The maintenance loop starts a pass every interval for as long as the worker
\* runs, and each pass goes on to its end or to the error that ends it: with a
\* log about a deleted user in the queue, every pass may end in its drains
\* (maintenance.py 176, worker.py 73-85).  The worker and Redis are restarted
\* when they stop.  A request that was taken up goes on; nothing makes one
\* arrive.
Fairness ==
    /\ \A m \in Maintainer : WF_job(MaintenanceStep(m) \/ SharedStep(m))
    /\ WF_redisUp(Recovery)

Spec == Init /\ [][Next]_vars /\ Fairness

-----------------------------------------------------------------------------
(* Properties.                                                             *)

\* A job has committed and not yet removed the cached entry.
Uninvalidated(p) ==
    /\ ~Idle(p)
    /\ \E i \in DOMAIN job[p].todo : job[p].todo[i] = "invalidate"
    /\ ~ \E i \in DOMAIN job[p].todo : job[p].todo[i] = "commit"

\* The gate decides on the cached entry what it would decide on the row, in
\* both directions and with the tier's limit, although payments, tier changes,
\* overrides and the maintenance pass (which removes the entry before it
\* commits) rewrite the row under it.  Excepted are the time between a
\* writer's commit and its DELETE, and entries marked stale: filled from a row
\* that a writer had overtaken, kept through a DELETE that an outage or a crash
\* swallowed, or contradicted by a maintenance pass that a writer had overtaken
\* (verification.py 129-149, 202-210; redis.py 84-93; maintenance.py 81-96).
CacheHonest ==
    cache # None /\ ~cache.stale /\ ~(\E p \in Process : Uninvalidated(p)) =>
        /\ \A rfid \in BOOLEAN : CacheLets(cache, today, rfid) <=> Lets(row, today, rfid)
        /\ InForce(row, today) => cache.tier = row.tier

\* No check goes through on a day beyond the latest date the estate has been
\* given, whether cache or row answered and whenever midnight came
\* (verification.py 130-140, 170-183).
ServedOnlyInTerm == servedOn <= term

\* A subscription whose term is running becomes expired only by an override, or
\* when a maintenance pass had read the row before a payment or an override
\* changed its expiry date (maintenance.py 89-96).
RetiredOnlyWhenOverdue ==
    [][row.status = "active" /\ today <= row.expiry /\ row'.status = "expired" =>
        \/ \E w \in Writer : At(w, "commit") /\ job[w].new.status = "expired"
        \/ \E m \in Maintainer : At(m, "commit") /\ job[m].old.expiry # row.expiry]_vars

PastTerm == row.status = "active" /\ row.expiry < today

\* An overdue subscription does not stay active: a maintenance pass retires it
\* unless it is extended, however often a pass dies, finds Redis away or reads
\* the row too early.  A queued log about a deleted user ends every pass before
\* its billing part, so it is excepted for as long as there is one
\* (maintenance.py 89-96, 176-179, worker.py 70-85, access_logs.py 121-124).
OverdueIsRetired == PastTerm ~> ~PastTerm \/ poisoned

\* In the end the row shows the month's Redis count of a listed estate, through
\* resets, fallback increments and passes that read it too early, unless such a
\* log keeps the passes from their quota part (maintenance.py 145-168, 176-180).
CounterReachesRow == <>[](listed /\ quota > 0 => row.usage = quota) \/ <>[]poisoned
=============================================================================
