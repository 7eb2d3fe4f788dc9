# A TLA+ development of the Residence backend

The Residence backend is the service behind the gates of residential estates:
residents issue four-character codes to their visitors, security staff type
the codes at the gate, and the service says who may enter and who may leave.
It is a FastAPI process, a worker process, PostgreSQL and Redis. Redis answers
the gate; PostgreSQL follows seconds later through a queue. That gap, and what
two requests, a crash or a Redis outage can do inside it, is what this
development models: first for the passes themselves, then for the subscription,
the caches of users and estates, the limiters and the worker's turns, which all
have the same gap in one form or another.

Paths below are relative to the repository; `app/` is `src/app/`.

## 1. Inventory

| Part | State | Operations | Talks to |
|---|---|---|---|
| Visitor gate, `services/verification.py` `verify_visitor_token` | none of its own | entry lane, exit lane, lane without a direction; cache hit, cache miss, exit by entry code | Redis caches and claims, `visitor_tokens`, token-state queue |
| Desk, `services/tokens.py` | rows of `visitor_tokens` | issue a pass, issue a book-out code, direct checkout by security, draw a free code | both code caches, claims, live status, token-state queue |
| Write-behind, `services/token_state.py`, `core/redis.py`, `worker.py` | list `residence:token_state:queue`, popped batches | claim, set live status, enqueue or fall back to an UPDATE; pop, collapse, apply, commit, requeue | Redis, PostgreSQL |
| Maintenance, `services/maintenance.py`, `core/scheduler.py` | scheduler lock | drain both queues, purge logs, billing cycles, quota sync, token sweep | everything |
| Subscription and quota, `services/verification.py` | subscription cache, quota counter, row of `subscriptions` | check, cycle reset, count, fall back to PostgreSQL | Redis, PostgreSQL |
| Payments, `services/payments.py` | none of its own | checkout, webhook, session check; fulfilment | payment provider, subscription |
| RFID access, `services/verification.py`, `services/users.py` | RFID cache (120 s) | verify a tag; invalidate on update and delete | users, landlords |
| Sessions and tenants, `dependencies.py`, `services/auth.py` | session cache (30 min), tenant cache, token blacklist | login, logout, per-request checks | users, estates |
| Limiters, `core/redis.py` | failure counters, block keys, windows | count a failure, block, reset | verify and login endpoints |
| Access log, `services/access_logs.py` | list of logs | enqueue, batch insert, requeue | worker |
| Residents, landlords, registration tokens | `users`, `registration_tokens` | register once per token, revoke | sessions, RFID |
| Estates and administration | `estates` | suspend, report | tenant cache |
| Notifications, HTTP layer, migrations, scripts | - | I/O and glue | - |

What makes each part correct, and what is hard about it:

- **Visitor gate.** One pass, one admission; nobody leaves who never arrived; a
  claimed code stays claimed as long as anything else would still honour it.
  Every request is a chain of awaits on Redis and PostgreSQL, and other requests
  run between any two of them.
- **Write-behind.** Every answer ends up in its row, in the order given.
  The worker can die with a popped batch, a commit can take effect without a
  reply, a batch can be refused, and two coroutines of the one worker pop the
  same list.
- **Maintenance.** The sweep must not undo an admission that is still queued.
- **Subscription, payments.** The gate decides on a cached entry what it would
  decide on the row; nobody is served out of term, whenever midnight comes; an
  overdue subscription is retired and a running one is not; the row gets the
  month's count. Payments, tier changes, overrides, requests and the maintenance
  pass all rewrite one row that each read some awaits before.
- **Caches.** A revocation, deletion, suspension or logout takes effect, whatever
  fills the caches meanwhile.
- **Limiters.** A lockout comes after so many failures and no more, and ends; a
  count ages. Check, count, EXPIRE and block are commands of their own.
- **Worker turns, access log.** One queue must not starve the other; an event is
  logged once.

`PROJECT.json` lists the hazards behind these, each at the line where it bites.

## 2. Modules

    TokenStateQueue            the queue, its batches, Persist, Redis up or down
      |-- VisitorGate          gate, desk, caches, claims, TTLs, sweep, crashes
      |     `-- MCVisitorGate  instances for TLC
      `-- DrainPipeline        the queue with its producers, fairness, liveness
            |-- RowMirror      (INSTANCE) what the write-behind promises
            `-- WorkerTurn     both queues in the turns of the worker's loops

    Subscription               one estate's row, cached entry, counter; all who touch them
      `-- MCSubscription       instance for TLC
    AccessCaches               sessions, RFID profiles, tenant validity, registration codes
    Limiter                    lockout and throttle, command by command

    TokenStateQueueProofs      lemmas about the queue's operators and steps
      |-- VisitorGateProofs    TypeCorrect
      |     `-- VisitorGateRecords         DeparturesJustified, AdmissionsReachRow
      |           `-- VisitorGateAdmissions   EachPathOnce, NoReentry
      `-- WorkerTurnProofs     QueueTypeCorrect, TurnTypeCorrect, EventsStayInOnePlace,
                               RowsMirrorAnswersSafely
    SubscriptionProofs         TypeCorrect, ServesInTerm, RetiresOverdue, CacheIsHonest
    AccessCachesProofs         TypeCorrect, WrongEntriesAreOwed, SessionsAreHonest,
                               TagsAreHonest, LogoutIsFinal, RegistrationsAreBounded
    LimiterProofs              TypeCorrect, AttemptsStayBounded

**TokenStateQueue** has the columns `status` and `is_used` of
`visitor_tokens`, the Redis list and, for each drainer, the batch it has popped
and not committed. `Persist` is the part of `persist_token_check_in` and
`persist_token_check_out` after the live status: RPUSH, or the synchronous
UPDATE when Redis does not answer. `Dequeue`, `CommitBatch`, `FailBatch` are the
awaits of `drain_token_state_queue`; `CommitUnacknowledged` and
`DequeueUnacknowledged` are a commit and an LPOP whose reply is lost;
`WorkerCrash` loses what was popped. A batch is collapsed to its last event per
token and applied in one transaction, so a commit is one step.

**VisitorGate** extends it with the rest of a pass. A gate request is a process
with a program counter: each action is the code from one await on shared state
to the next, and is named after the call (`ConsumeEntry` is the GETDEL of
`consume_cached_visitor_token`, `GetEntry` and `DeleteEntry` its fallback,
`ClaimEntry` the claim after a cache hit, whose answer the code ignores,
`ClaimEntryNX` the claim of `persist_token_check_in`, `LiveIn` the live status,
`QueueIn` the queue and the answer; the exit half is named alike). Desk requests
are processes too: drawing a code, storing it and caching it are separate steps,
since the code awaits between them. Details that are one step:

- the SELECT of a row directly followed by the GET of its live status
  (`FindByEntryCode`, `StartBookout`, `StartCheckout`);
- the three lookups of `is_visitor_code_active`; the gap that matters, between
  a draw and the store of the code, is there;
- both UPDATEs of `cleanup_expired_tokens`, which share one transaction.

What is left out of a request, since it touches none of this state: the
subscription check before it, the access log and e-mail after it, the limiter
of the endpoint. The limiter can only refuse a request, which the model covers
by the request that does not arrive.

**DrainPipeline** gives the queue producers, one check-in and one check-out for
each pass in that order, and no fault. **RowMirror** is the abstract
specification: the rows show a prefix of the answers, which grows, to the last.
The refinement mapping counts the events neither queued nor in a batch as shown.

**WorkerTurn** extends DrainPipeline with the access log. A loop of the worker
deals with the logs and then with the token states of a turn, with every fault of
either and with outages, and an error in the log half ends the turn: `turn[d]`
says which half is on. `Record` is `record_access_event`, `PopLogs`, `InsertLogs`, `RefuseLogs` and `RequeueLogs`
are `drain_access_log_queue`. A log is about a user who is there, or about nobody,
or, while Redis has a cached profile to serve from, about a user already deleted;
this, and `DeleteUser` with a log queued, is what can make PostgreSQL refuse a
batch for good (`Poisoned`). So the fairness DrainPipeline assumes is here a property,
`TokenStatesGetTheirTurn`. Left out: the purge of old logs, which no one waits
for, and the pause between turns.

**Subscription** is one estate. Every actor is a process with a job: the row as
the process read it, the row as it means it, and the list of calls on shared
state still to be made, in the code's order; there is one action per call, and a
commit writes the columns that differ (`Merge`), as SQLAlchemy does. Gate checks
(`Lookup`, `Read`, `Fill`, `Increment`, `List`, `Fallback`) are
`_check_and_update_subscription` and `_enforce_quota`. `StartFulfil` is the
webhook or the session check of a payment, as often as either is delivered.
`StartTierChange`, `StartSettings`, `StartOverride` and `StartTokenRequest` are
the other writers. A maintenance pass starts with the two drains
(`StartMaintenance`); if the logs it takes have one about a deleted user, the
error ends the whole pass (`RefuseLogs`), else it comes to billing (`Bill`) and
the quota sync (`Members`, `Count`, `Select`). Of the log queue the module keeps
only whether there is such a log (`poisoned`): `PoisonLogs` puts one there,
`LoseLogs` is the batch that could not be put back. Midnight may come during any of them. Any status but "active"
is dealt with as "expired" is, and an override of a single limit as a tier of its
own. The scheduler's lock only makes passes rarer, so a pass does not need it
here, and no property rests on it.

**AccessCaches** has the same jobs over three caches filled on a miss (session,
RFID profile, tenant validity), the blacklist and the rows behind them: one
estate, one landlord and residents. A request's tenant check, authentication and
RFID check are requests of their own, since they share no state but the time
they take. A cached entry may expire at any time. A user has one address: the
session that a change of address leaves under the old one is a listed hazard.
A landlord with codes cannot be deleted (foreign key of
`registration_tokens.landlord_id`), and is not here. The cached copy of a
registration code is written and never read, and is left out.

**Limiter** has the Redis commands of one limiter, which a behaviour chooses at
its start: the lockout of the gate and of both logins, or the throttle of token
requests. They share no key. Counts above a limit are alike, so the number of
requests is not bounded.

### Races the properties except

Where the code leaves a race open and no document promises otherwise, the
property names it instead of failing, and holds for everything else. An entry
filled from a row that was overtaken meanwhile, or kept by a DELETE that an
outage or a crash swallowed, is marked `stale`, and `CacheHonest`,
`SessionHonest` and `RfidHonest` speak of the others. (The estate's validity has
no such mark: there a document does promise otherwise, see section 6.)
`RetiredOnlyWhenOverdue` names the pass that read the row before a payment;
`RegistrationsOverlap` bounds what overlapping registrations can do;
`CountersEnd` names the counter that missed its EXPIRE. The log about a deleted
user is named by `EveryEventIsLogged`, `TokenStatesGetTheirTurn` and
`AnswersSettle` (`Poisoned`), and by `OverdueIsRetired` and `CounterReachesRow`
(`poisoned`), since it stops the drains and with them each maintenance pass.
`AnswersSettle` names besides a check-in that was requeued behind the check-out
of its own pass (`Overtaken`): collapsed into one event with it, the departure
may leave no trace in the row.

### Time

Nothing in the model measures time; TTLs and expiry are actions whose guards
keep the order in which the code sets them. A cached code lives 20 minutes, a
book-out 2 hours, a pass 24 hours, a claim and a live status 24 hours *from
their use*, which is after the code was issued. So `PassExpires` waits for the
cached pass to be gone and `ClaimExpires` for everything that honours the code
to have expired. Requests are short against 20 minutes, and `LiveExpires`
assumes the worker drains a pass's events within the day.

Subscription counts days, since its terms are dates: `NextDay` is midnight, and
no request, pass or cached entry (300 s) sees two of them. Limiter counts ticks
of half a window, since "how many within a window" is the question: no request
sees two ticks.

### Faults

`ApiCrash` kills every gate and desk request at any await. `RedisOutage` makes
every Redis call fail until `RedisRecovery`; data survives
(`docker-compose.prod.yml`, `--appendonly yes`). An outage may begin and end
between any two awaits, so the two halves of a GETDEL fallback can see different
answers. A single lost reply to the gate is not modelled; for the worker it is.

In the other modules a fault is a process that dies between two calls
(`Crash`, which is also a refused commit: what was still to be done is not done)
or an outage with its recovery. WorkerTurn adds to the queue's faults those of
the log half: a batch refused, a commit or an LPOP without a reply, and
`WorkerDies` with both batches.

## 3. Runs

| Run | Instance | Shows |
|---|---|---|
| `gate` | 1 pass, 2 codes, 2 concurrent gate requests; until an outage 3 gate and 2 desk requests and a fault; next to an outage 4 requests, at most 2 of the gate and 3 of the desk; 2.2 M states | each path admits once and no re-entry before the drain, until an outage; departures justified and admissions reach the row, in an outage too |
| `queue_mirror` | 3 passes, batches of 2, 1 drainer, no fault; 3.9 k states | the refinement of RowMirror with its liveness, and that a departure stays |
| `queue_faults` | 1 pass, 2 loops, 2 logs, 1 user who may be deleted, 2 faults, 1 outage; 257 k states | each log in one place, both queues served, check-ins, departures and rows settle unless a fault lost them, all but for a poisoned queue |
| `subscription` | 2 checks, 2 writers, 1 pass at a time, 2 requests, the last day of the term and the day after, 1 fault; 1.3 M states | cache decides as the row, no service out of term, retired when overdue and not otherwise, counter reaches row unless a poisoned log stops the passes |
| `access_caches` | landlord and resident, 2 client and 2 administrator requests at a time, 3 in all, 1 fault; 2.9 M states | revocation, deletion, logout reach the caches; a code serves overlapping registrations only |
| `limiter` | 2 requests at a time without end, lockout after 3, 2 per window, 2 faults; 305 k states | attempts bounded, lockouts and counters end |
| `suspended_estate`, `double_entry`, `getdel_fallback`, `outage_reentry`, `entry_code_exit`, `queue_two_drainers` | small | what comments and tests say that the code does not do: section 6 |

`MaxChecks`, `MaxDeskOps`, `MaxFaults` and `MaxOutages` bound the counters in
the guards of `Arrive`, `Open`, the faults and `RedisOutage`. The run `gate`
explores two corners of that box (`Budget`, a state constraint of
MCVisitorGate): three gate requests, two desk requests and a fault until an
outage, and an outage with four requests and no fault. What `Budget` counts
never falls, so the states of each corner are reached by behaviours within it,
and the first states beyond it are still checked. `MaxRequests`, `MaxFaults`, `MaxDay` and `MaxLogs` do the
same for the guards of the starts, faults, midnights and `Record` elsewhere. When
they are spent the gate, DrainPipeline and AccessCaches have nothing left to do, hence
`CHECK_DEADLOCK FALSE`; the other systems go on, and are checked for deadlock.

Why these sizes. Every property of the gate is about one pass, and passes meet
only through a code they share: with one pass and two codes, the code of the
pass and its book-out code differ or a request uses an unknown code. Two
concurrent requests are needed for a race, a third to come after both have
answered. Two desk requests issue the pass and then book it out or check it
out; with a third the checkout finds a book-out code to forget. One fault is enough to lose or
repeat a batch and one outage to split any request. Three passes and batches of two make
batches that hold two events of one pass, and batches that split them. Codes and
requests are symmetric. The theorems below do not depend on any of these sizes.

The other sizes. A subscription has two requests, as the races are between two
that read the row and one that writes it, the pass being a third actor that is
always there; the one day that matters is the last of the term, with a cycle
that ends with it and a month that starts after it. Two maintenance passes at
once pass with one request. A cache race needs a reader under way and one writer;
a third request comes after both. Requests of a kind are interchangeable, and a
new one takes a free place (`Takes`). Two requests can overlap in any way at the
limiter, and they go on for ever, so every count is reached. Two logs make a
batch that holds a good and a bad one; the token half is one pass, since
`queue_mirror` and the gate run have the rest.

A code typed at the gate is any code, issued or not, at any time: a request may
be under way when its pass is issued.

`DepartureJustified` says what the code guards and no more: "expired" is not
among the statuses that book-out and direct checkout refuse, so a pass that ran
out unused can be checked out.

### Fairness

In DrainPipeline `Fairness` is weak fairness of each drainer's `Pop` and
`Flush`. The drain loop wakes every interval and swallows every exception of a
turn (`worker.py` 52-67), the maintenance loop likewise (73-85). That the
access-log drain, which runs before it in the same turn, lets it come to its turn
is assumed there, and shown in WorkerTurn for as long as no log about a deleted
user is queued. `restart: unless-stopped` brings worker and Redis back. No fault
and no outage has fairness anywhere.

WorkerTurn is fair to the steps of each loop's turn and to the recovery.
Subscription is fair to the steps of a maintenance pass (the loop starts one every
interval) and to the recovery of Redis, to nothing else: no request need
arrive, and none need finish. A step of the pass may be the error that ends it
before billing: with a poisoned log in the queue every pass may end so, and the
fairness does not ask for anything else. Limiter is fair to time, to the
recovery and to a request that was taken up. AccessCaches has no liveness: nothing there waits.

## 4. What is proved

TLAPS proves every invariant of the passing runs, the action property
`RetiredOnlyWhenOverdue` and the safety part of the refinement of RowMirror.
TLC shows them on small instances; the theorems are about any passes, codes,
users, requests, loops, limits, dates, faults and outages, from the assumptions
named in the modules: bounds are naturals, periods and batch sizes positive, the
kinds of processes disjoint, `None`, `NoCode` and the like none of the values they
stand beside. Where something is counted over a set the set is finite: the loops
of the worker (`DrainerAssumption`), the requests at the limiter
(`RequestAssumption`), clients and residents (`ProcessAssumption`,
`UserAssumption`).

None of the properties is inductive as it stands. Each proof has an inductive
invariant that says what is true *between* the awaits, which TLC checked on the
instances of the runs, with their faults and outages, before it was proved; each
action has a step or a lemma of its own, and what most actions leave alone is one
frame lemma.

### The gate

- **TypeCorrect** (VisitorGateProofs): the queue's part is in
  TokenStateQueueProofs, where `LastEventType` shows that the CHOOSE in the
  collapsing of a batch finds an event.
- **EachPathOnce** (VisitorGateAdmissions): as long as there was no outage, a
  pass is admitted at most once from the cache and at most once from its row.
- **NoReentry** (VisitorGateAdmissions): nor does a request that began after an
  admission repeat it, by either way.

Both follow from `AdmissionInv`:

- `CacheInv` is about the *right* to admit a pass from the cache. The row is
  inserted once and cached once, so the right exists once: it is with the desk
  request about to cache the pass, then in the cache under one code, then with
  the one request whose GETDEL took it, then spent. Each of the four places
  excludes the other three.
- `RowInv` is about the claim. A request between its won claim and its answer
  on the row path (`Winning`), and an admission from the row that was given
  (`Spent`), both imply that the code of the pass is claimed or the pass has
  expired; two requests cannot both be winning on one pass. A request past the
  expiry cannot start, since the SELECT asks for a valid row, and the claim key is
  not gone before the row has expired. Without that last clause the step
  `ClaimExpires` fails, which is the reason the TTL of the claim is what it is.
- `ReentryInv` joins the two ways. An admission from the cache claims the code as
  well, so the code of an admitted pass is claimed for as long as the pass is
  valid; a cached entry, or one a request has taken from the cache, is under the
  code of a valid pass. So a request that got past the check of its code finds no
  valid pass it saw admitted, neither in the cache nor in a row.
- `Healthy`: until the first outage Redis answers and no request is in a
  fallback. All are stated under `outages = 0`, and `OutagesGrow` says that no
  step brings that back.

- **DeparturesJustified** (VisitorGateRecords), with any number of outages,
  crashes and failed batches. A check-out is decided on the row, on the live
  status or the book-out cache, or on what a request read of them several steps
  ago, and it goes through the queue. `Evidence(t)` is any of these;
  `DepartureInv` says that evidence, and a departure, exist only for a pass whose
  visitor came or that ran out. Each action has the lemma that it is `Founded`:
  it makes no evidence but out of evidence, an entry or an expiry.
- **AdmissionsReachRow** (VisitorGateRecords), under the same faults. The lemmas
  `PersistEvents` and `DrainEvents` of TokenStateQueueProofs say that an event
  answered is queued or written, and that one underway stays underway, shows in
  its row or is lost. What is left is the one step that could take a row back: the
  INSERT. `IssueInv` says that before its INSERT nothing is known of a pass
  anywhere (`Touched`), and that the pass is at one desk.

### The worker (WorkerTurnProofs)

- **QueueTypeCorrect**, **TurnTypeCorrect**: DrainPipeline and WorkerTurn are
  well typed.
- **EventsStayInOnePlace**: `Places(i)` counts the rows of an event, its copies in
  the list and its copies in the loops' batches, and this sum is what `LogInv`
  keeps, for events not yet recorded too. `PlacesKept` is the obligation of a
  step: the sum grows only for an event in `unsure`, shrinks only for one in
  `logLost`. The lemmas under it say what an LPOP of a batch, its requeue and its
  INSERT do to the count.
- **RowsMirrorAnswersSafely**: with one loop d (`Drainer = {d}`) and no fault
  DrainPipeline implements `Mirror!MirrorSafety`. `MirrorInv` says that what is
  answered and not applied is d's batch followed by the queue, in the order of the
  answers, and that the rows show what is applied. A commit then maps to one step
  of RowMirror, since a collapsed batch leaves a row where its events one by one
  would; everything else is a stutter or an answer. With two loops it is false:
  `queue_two_drainers`.

### Subscription (SubscriptionProofs)

- **JobsKeepToTheirRow**: `Spec => []TermInv`, and from it **TypeCorrect**,
  **ServesInTerm** and **RetiresOverdue**. The date a check compared with today
  is not the row's date by the time it answers. `TermInv` says what a job keeps
  to meanwhile: `CheckFits`, a check past its verdict is for a day within the
  latest term, and what it commits changes neither date nor status; `PassFits`,
  a pass changes the status of a row it read as overdue only; and, of the list of
  calls itself, that a writer commits once (`Once`), that a commit has its rows,
  and that a call follows each DELETE an error may skip (`Paired`). Cached entry,
  row and served days are within the term.
- **CacheIsHonest**: `Trust` is the property one step earlier. An entry not
  marked stale agrees with the row, or neither lets anybody through today, or a
  writer is between its commit and its DELETE. The second case is why midnight
  and the retirement of an overdue subscription break nothing: the cached entry
  is judged by the request's own day.

### Caches of users and estates (AccessCachesProofs)

- **WrongEntriesAreOwed**: whatever an entry wrongly says of a user, the request
  that made it wrong has committed and still has the DELETE on its list
  (`SessionsOwed`, `TagsOwed`, `ResidentsOwed`). The residents of a
  revoked landlord are the hard case: they are read by a SELECT after the commit
  and then removed one by one. Before the SELECT the call owed is the SELECT; at
  it, a resident who is not found has no row, and a tag of such a one that is still
  cached is owed its removal by the deletion.
- **SessionsAreHonest** and **TagsAreHonest** follow: when no
  request is between its commit and its last call, nothing is owed, so no entry
  is wrong, for any finite number of residents.
- **LogoutIsFinal**: `LogoutInv` follows the blacklist entry from its SET, with
  the answer to the logout after it, to the requests that started later, none of
  which gets past its check.
- **RegistrationsAreBounded**: a use of the code and a registration that has read
  it unused are counted together (`CodeInv`); once the code is used nobody joins,
  so the sum only falls or is passed from one to the other.
- **TypeCorrect** holds with `JobsFit`: the list of every job is one that its
  request's calls leave, in their order.

### Limiter (LimiterProofs)

- **TypeCorrect**, and **AttemptsStayBounded** from `LimiterInv`. The failures
  since the last end of counter or block are in the counter, or their request is
  still to count them, or it died (`FailuresAreCounted`), and whoever found the
  count at the limit has the block still to set; the block outlasts the request
  that has the counter still to clear (`BlockLasts`), and during it only those
  fail who were past its check (`LockoutHolds`). A throttled request is
  counted before its token is made (`MadeAreCounted`).

Model-checked only, since fairness and leads-to are beyond this prover:
`RowsMirrorAnswers`' fairness, `DepartureSettles`, `AnswersSettle`,
`TokenStatesGetTheirTurn`, `EveryEventIsLogged`, `OverdueIsRetired`,
`CounterReachesRow`, `LockoutEnds`, `CountersEnd`.

## 5. Not modelled, and the plan

Done: TokenStateQueue, VisitorGate, DrainPipeline, RowMirror, WorkerTurn,
Subscription, AccessCaches, Limiter, and the theorems of section 4. To come:

1. The safety steps below the liveness properties: that a committed departure
   is not taken back with one loop (`DepartureSettles`), that an answer stays
   settled, that a block's time only falls while nobody sets it.
2. For outages: how far `EachPathAdmitsOnce` may fail in one, as a bound.
3. An instance of VisitorGate with two passes and two desk requests for shared
   codes; one drainer with a fault, for the requeue at the tail.

Not modelled, and why:

- Payments are not numbered: the code keeps no record of them, so that
  one payment may extend twice is a hazard of the list and not a property.
- How many verifications pass in a month beyond the limit: the fallback count
  loses increments by read, compare and write, and a cycle is reset by
  whoever sees its end first. `CounterReachesRow` is about the end only.
- The scheduler's lock: see Subscription above.
- The platform owner's own session (read from the row on every request), roles,
  `create_user` and the landlord import (INSERTs), reports and searches (reads).
- E-mail, HTTP routing and schemas, migrations and scripts are I/O or glue, with
  no state that the modelled parts read. `MultipleResultsFound` when two rows
  share a code is in the model (`FindExit`, `FindEntry`) and waits for the
  two-pass instance. Unparsable queue entries are not modelled, since only this
  code writes the queues.

## 6. Where the code and its comments differ

Each is a run that TLC refutes; `PROJECT.json` quotes the comments.

- `double_entry`: the claim is not consulted after a cache hit, so one request
  on the cache and one on the row admit the same pass.
- `getdel_fallback`: two requests on GET and DELETE both take one cached pass.
- `outage_reentry`: while Redis is away a queued check-in is invisible, and the
  fallback UPDATE does not look at `is_used`.
- `entry_code_exit`: the exit by the entry code is refused, because the entry
  claimed that code.
- `suspended_estate`: the tenant check looks at the cached validity, which the
  suspension sets for a day. When that entry is missing, any existing estate is
  cached as valid (`dependencies.py` 49-66), where
  `api/v1/endpoints/admin/estates.py` 47 has it blocked at once.
- `queue_two_drainers`: the queue loop and the maintenance loop commit two
  batches in the wrong order, and a checked-out row is checked in again.

Seen while modelling, and stated as an exception or a bound of a property that
passes:

- `update_user` can revoke a landlord and leaves the residents' RFID entries to
  their 120 s, where `set_user_revocation_admin` removes them: `RfidHonest`.
- The maintenance pass that has read a subscription as overdue commits "expired"
  over a payment made meanwhile, and the estate stays out until the next payment
  or override: `RetiredOnlyWhenOverdue`.
- `check_rate_limit` is described as a sliding window and is a fixed one; a
  counter whose INCR was not followed by its EXPIRE never ages, and a client
  above the limit is then refused for good: `CountersEnd`.
- One log about a user who is deleted makes PostgreSQL refuse every batch it is
  in. The error ends the turn of the queue loop before its token half, and the
  maintenance pass before its token drain, purge, billing, quota sync and sweep
  (`maintenance.py` 176-180): `Poisoned` in WorkerTurn, `poisoned` in
  Subscription.
- A batch that is refused, or whose commit got no reply, goes back to the end of
  the queue, behind the check-out of a pass whose check-in it has. Popped together
  the two collapse to the check-in, and the departure is never written:
  `Overtaken`.

No property is about the answer to the attempt that reaches a limit.
`tests/test_production_security.py` 62 expects 429 at the sixth failed login; the
code gives it at the fifth (`endpoints/auth.py` 44-51), as `tests/test_verify.py`
138 has it at the gate. `AttemptsBounded` is about the attempts made before the
block, which are five by either reading.
