---------------------------- MODULE TokenStateQueue ----------------------------
(***************************************************************************)
(* The write-behind path of a visitor pass: the gate sets the status in    *)
(* Redis at once and queues the Postgres UPDATE                            *)
(* (app/services/token_state.py, app/core/redis.py); the worker pops the   *)
(* queue in batches and applies them (worker.py).                          *)
(*                                                                         *)
(* Two coroutines of one worker process drain the same list, the queue     *)
(* loop and the maintenance loop: they are the members of Drainer.  Each   *)
(* action below is what runs between two awaits that other code can        *)
(* observe.  Redis and Postgres operations are atomic.                     *)
(***************************************************************************)
EXTENDS Integers, Sequences, FiniteSets

CONSTANTS
    Token,        \* ids of rows of visitor_tokens
    Drainer,      \* coroutines that call drain_token_state_queue
    BatchSize,    \* TOKEN_STATE_DRAIN_BATCH_SIZE
    MaxFaults,    \* bound on the database, Redis and process faults of a drain
    MaxOutages    \* bound on Redis outages

ASSUME BatchAssumption == BatchSize \in Nat \ {0}
ASSUME DrainerAssumption == IsFiniteSet(Drainer)
ASSUME BudgetAssumption == MaxFaults \in Nat /\ MaxOutages \in Nat

VARIABLES
    status,       \* status[t]: column visitor_tokens.status
    used,         \* used[t]: column visitor_tokens.is_used
    redisUp,      \* whether Redis answers
    queue,        \* the list residence:token_state:queue, head first
    batch,        \* batch[d]: events d has popped and not yet committed
    lost,         \* history: tokens one of whose events is gone, unapplied
    faults,       \* faults so far
    outages       \* outages so far

rowVars  == <<status, used>>
pipeVars == <<queue, batch, lost, faults>>
netVars  == <<redisUp, outages>>

\* "absent" stands for a row that was not inserted yet.
RowStatus == {"absent", "pending", "checked_in", "checked_out", "expired"}

\* A queued payload: the row and the status its action asks for.
Event == [tok : Token, to : {"checked_in", "checked_out"}]

\* Every variable of the write-behind path has its type (token_state.py, redis.py).
QueueTypeOK ==
    /\ status \in [Token -> RowStatus]
    /\ used \in [Token -> BOOLEAN]
    /\ redisUp \in BOOLEAN
    /\ queue \in Seq(Event)
    /\ batch \in [Drainer -> Seq(Event)]
    /\ lost \subseteq Token
    /\ faults \in 0 .. MaxFaults
    /\ outages \in 0 .. MaxOutages

-----------------------------------------------------------------------------
\* Tokens that some event of s is about.
Mentioned(s) == {s[i].tok : i \in DOMAIN s}

\* Some event about t is queued, or popped and not committed.
Underway(t) == t \in Mentioned(queue) \/ \E d \in Drainer : t \in Mentioned(batch[d])

\* Mutant: the first event about a token wins.
FirstEventStatus(s, t) ==
    s[CHOOSE i \in DOMAIN s : s[i].tok = t /\ \A j \in DOMAIN s : s[j].tok = t => i <= j].to

\* Mutant: the action's name where the row's status belongs.
ActionName(s, t) == IF FirstEventStatus(s, t) = "checked_in" THEN "check_in" ELSE "check_out"

\* _coalesce_token_updates: the last event about a token wins.
LastEventStatus(s, t) ==
    s[CHOOSE i \in DOMAIN s : s[i].tok = t /\ \A j \in DOMAIN s : s[j].tok = t => j <= i].to

\* Mutant: a UPDATE guarded by the status a check-in is expected to find.
ApplyBatchIfPending(s) ==
    LET due(t) == t \in Mentioned(s) /\ status[t] = "pending"
    IN  /\ status' = [t \in Token |-> IF due(t) THEN LastEventStatus(s, t) ELSE status[t]]
        /\ used' = [t \in Token |-> due(t) \/ used[t]]

\* The check-in and the check-out UPDATEs of one batch, committed together:
\* both set is_used, neither looks at the row's present status.
ApplyBatch(s) ==
    /\ status' = [t \in Token |-> IF t \in Mentioned(s) THEN LastEventStatus(s, t) ELSE status[t]]
    /\ used' = [t \in Token |-> t \in Mentioned(s) \/ used[t]]

-----------------------------------------------------------------------------
\* Mutant: no synchronous fallback when the RPUSH fails.
PersistOrDrop(t, to) ==
    /\ queue' = IF redisUp THEN Append(queue, [tok |-> t, to |-> to]) ELSE queue
    /\ UNCHANGED <<status, used, batch, lost, faults>>

\* The second half of persist_token_check_in / persist_token_check_out: RPUSH
\* the event or, when Redis does not answer, UPDATE the row by id and commit.
Persist(t, to) ==
    /\ IF redisUp
       THEN /\ queue' = Append(queue, [tok |-> t, to |-> to])
            /\ UNCHANGED rowVars
       ELSE /\ status' = [status EXCEPT ![t] = to]
            /\ used' = [used EXCEPT ![t] = TRUE]
            /\ UNCHANGED queue
    /\ UNCHANGED <<batch, lost, faults>>

\* How many events one LPOP takes.
Popped == IF Len(queue) < BatchSize THEN Len(queue) ELSE BatchSize

\* dequeue_token_state_updates: LPOP key count.
Dequeue(d) ==
    /\ redisUp
    /\ batch[d] = <<>>
    /\ queue # <<>>
    /\ batch' = [batch EXCEPT ![d] = SubSeq(queue, 1, Popped)]
    /\ queue' = SubSeq(queue, Popped + 1, Len(queue))
    /\ UNCHANGED <<status, used, lost, faults>>

\* drain_token_state_queue: the batch is applied and committed.
CommitBatch(d) ==
    /\ batch[d] # <<>>
    /\ ApplyBatch(batch[d])
    /\ batch' = [batch EXCEPT ![d] = <<>>]
    /\ UNCHANGED <<queue, lost, faults>>

\* requeue_token_state_updates: RPUSH of the raw items, behind what was queued
\* meanwhile; when Redis does not answer, the items are gone.
RequeueBatch(d) ==
    /\ batch' = [batch EXCEPT ![d] = <<>>]
    /\ IF redisUp
       THEN queue' = queue \o batch[d] /\ UNCHANGED lost
       ELSE lost' = lost \cup Mentioned(batch[d]) /\ UNCHANGED queue

\* The database refuses the batch: rollback, then requeue.
FailBatch(d) ==
    /\ batch[d] # <<>>
    /\ faults < MaxFaults
    /\ faults' = faults + 1
    /\ RequeueBatch(d)
    /\ UNCHANGED rowVars

\* The commit takes effect and its reply is lost: the batch is requeued anyway.
CommitUnacknowledged(d) ==
    /\ batch[d] # <<>>
    /\ faults < MaxFaults
    /\ faults' = faults + 1
    /\ ApplyBatch(batch[d])
    /\ RequeueBatch(d)

\* LPOP takes effect and its reply is lost (socket_timeout): dequeue returns [].
DequeueUnacknowledged(d) ==
    /\ redisUp
    /\ batch[d] = <<>>
    /\ queue # <<>>
    /\ faults < MaxFaults
    /\ faults' = faults + 1
    /\ lost' = lost \cup Mentioned(SubSeq(queue, 1, Popped))
    /\ queue' = SubSeq(queue, Popped + 1, Len(queue))
    /\ UNCHANGED <<status, used, batch>>

\* The worker process dies: what its coroutines had popped is gone.
WorkerCrash ==
    /\ \E d \in Drainer : batch[d] # <<>>
    /\ faults < MaxFaults
    /\ faults' = faults + 1
    /\ lost' = lost \cup UNION {Mentioned(batch[d]) : d \in Drainer}
    /\ batch' = [d \in Drainer |-> <<>>]
    /\ UNCHANGED <<status, used, queue>>

\* Every step of the worker's drains, bar the faults.
DrainStep(d) == Dequeue(d) \/ CommitBatch(d)

DrainFault == WorkerCrash \/ \E d \in Drainer : FailBatch(d) \/ CommitUnacknowledged(d) \/ DequeueUnacknowledged(d)

-----------------------------------------------------------------------------
\* Redis stops answering, and answers again with its data (appendonly).
RedisOutage ==
    /\ redisUp
    /\ outages < MaxOutages
    /\ redisUp' = FALSE
    /\ outages' = outages + 1

RedisRecovery ==
    /\ ~redisUp
    /\ redisUp' = TRUE
    /\ UNCHANGED outages

QueueInit ==
    /\ redisUp = TRUE
    /\ queue = <<>>
    /\ batch = [d \in Drainer |-> <<>>]
    /\ lost = {}
    /\ faults = 0
    /\ outages = 0
=============================================================================
