------------------------------- MODULE WorkerTurn -------------------------------
(***************************************************************************)
(* The worker's two loops with the second queue they drain, the access     *)
(* logs (app/services/access_logs.py).  One turn of a loop takes a batch   *)
(* of logs, then a batch of token states, and sleeps; an error ends the    *)
(* turn (worker.py 40-85, maintenance.py 176-177).                         *)
(*                                                                         *)
(* DrainPipeline assumes that each loop gets on with the token states.     *)
(* Here that follows from the turns, as long as no queued log is about a   *)
(* user who is gone: access_logs.user_id refers to users, so Postgres      *)
(* refuses every batch with such a log.                                    *)
(***************************************************************************)
EXTENDS DrainPipeline

CONSTANTS
    User,         \* ids of users that a log may be about
    Nobody,       \* user_id NULL
    LogBatchSize, \* ACCESS_LOG_DRAIN_BATCH_SIZE
    MaxLogs       \* bound on recorded events

ASSUME LogAssumption == LogBatchSize \in Nat \ {0} /\ MaxLogs \in Nat /\ Nobody \notin User

VARIABLES
    users,        \* users that have a row
    records,      \* history: records[i] is the user that event i is about
    logQueue,     \* the list residence:access_log:queue, events by their index
    logBatch,     \* logBatch[d]: events d has popped and not yet inserted
    logRows,      \* logRows[i]: how many rows of access_logs event i has
    turn,         \* turn[d]: the queue that d deals with
    logLost,      \* history: events gone with a popped batch
    unsure        \* history: events inserted by a commit whose reply was lost

logVars  == <<users, records, logQueue, logBatch, logRows, logLost, unsure>>
turnVars == <<pipelineVars, logVars, turn>>

LogEvent == 1 .. MaxLogs

\* Every variable of the log queue and of the turns has its type.
TurnTypeOK ==
    /\ QueueTypeOK
    /\ users \subseteq User
    /\ records \in Seq(User \cup {Nobody}) /\ Len(records) <= MaxLogs
    /\ logQueue \in Seq(LogEvent)
    /\ logBatch \in [Drainer -> Seq(LogEvent)]
    /\ logRows \in [LogEvent -> Nat]
    /\ turn \in [Drainer -> {"logs", "tokens"}]
    /\ logLost \subseteq LogEvent /\ unsure \subseteq LogEvent

-----------------------------------------------------------------------------
Recorded == DOMAIN records

\* Where event i is in a list.
Copies(i, s) == {k \in DOMAIN s : s[k] = i}

Occurrences(i, s) == Cardinality(Copies(i, s))

Elements(s) == {s[k] : k \in DOMAIN s}

Gone(i) == records[i] # Nobody /\ records[i] \notin users

TurnTo(d, next) == turn' = [turn EXCEPT ![d] = next]

\* record_access_event: RPUSH or, when Redis does not answer, a row at once.
\* The event may be about a user deleted meanwhile, whom a cached profile still
\* names; a row about such a one Postgres refuses, and nothing is recorded.
Record(u) ==
    /\ Len(records) < MaxLogs
    /\ u \in User \cup {Nobody}
    /\ redisUp \/ u \in users \cup {Nobody}
    /\ records' = Append(records, u)
    /\ LET i == Len(records) + 1
       IN  IF redisUp
           THEN logQueue' = Append(logQueue, i) /\ UNCHANGED logRows
           ELSE logRows' = [logRows EXCEPT ![i] = 1] /\ UNCHANGED logQueue
    /\ UNCHANGED <<pipelineVars, users, logBatch, turn, logLost, unsure>>

\* delete_user: Postgres refuses while a log refers to the user.
DeleteUser(u) ==
    /\ u \in users
    /\ \A i \in Recorded : records[i] = u => logRows[i] = 0
    /\ users' = users \ {u}
    /\ UNCHANGED <<pipelineVars, records, logQueue, logBatch, logRows, turn, logLost, unsure>>

-----------------------------------------------------------------------------
(* The log half of a turn: drain_access_log_queue.                         *)

Holding(d) == logBatch[d] # <<>>

LogsPopped == IF Len(logQueue) < LogBatchSize THEN Len(logQueue) ELSE LogBatchSize

\* Mutant: the turn ends when the logs are dealt with.
LogsOnly == "logs"

\* The drain that follows the logs in a turn.
AfterLogs == "tokens"

PopLogs(d) ==
    /\ turn[d] = "logs" /\ ~Holding(d)
    /\ redisUp /\ logQueue # <<>>
    /\ logBatch' = [logBatch EXCEPT ![d] = SubSeq(logQueue, 1, LogsPopped)]
    /\ logQueue' = SubSeq(logQueue, LogsPopped + 1, Len(logQueue))
    /\ UNCHANGED <<pipelineVars, users, records, logRows, turn, logLost, unsure>>

NoLogs(d) ==
    /\ turn[d] = "logs" /\ ~Holding(d)
    /\ ~redisUp \/ logQueue = <<>>
    /\ TurnTo(d, AfterLogs)
    /\ UNCHANGED <<pipelineVars, logVars>>

\* The rows that add_all makes of a batch.
Inserted(s) == [i \in LogEvent |-> logRows[i] + Occurrences(i, s)]

\* Every log of the batch is about nobody or about a user who exists.
InsertLogs(d) ==
    /\ Holding(d)
    /\ ~ \E i \in Elements(logBatch[d]) : Gone(i)
    /\ logRows' = Inserted(logBatch[d])
    /\ logBatch' = [logBatch EXCEPT ![d] = <<>>]
    /\ TurnTo(d, AfterLogs)
    /\ UNCHANGED <<pipelineVars, users, records, logQueue, logLost, unsure>>

\* Mutant: a refused batch is dropped.
DropLogs(d) ==
    /\ logBatch' = [logBatch EXCEPT ![d] = <<>>]
    /\ UNCHANGED <<logQueue, logLost>>

\* requeue_access_logs: RPUSH, or the batch is gone when Redis does not answer.
RequeueLogs(d) ==
    /\ logBatch' = [logBatch EXCEPT ![d] = <<>>]
    /\ IF redisUp
       THEN logQueue' = logQueue \o logBatch[d] /\ UNCHANGED logLost
       ELSE logLost' = logLost \cup Elements(logBatch[d]) /\ UNCHANGED logQueue

\* Mutant: rows that fit stay although the batch failed.
KeepWhatFits(d) == logRows' = Inserted(SelectSeq(logBatch[d], LAMBDA i : ~Gone(i)))

\* The batch is one transaction.
Rollback(d) == UNCHANGED logRows

\* A log about a user who is gone: the batch goes back and the turn is over,
\* without its token half.
RefuseLogs(d) ==
    /\ Holding(d)
    /\ \E i \in Elements(logBatch[d]) : Gone(i)
    /\ Rollback(d)
    /\ RequeueLogs(d)
    /\ TurnTo(d, "logs")
    /\ UNCHANGED <<pipelineVars, users, records, unsure>>

-----------------------------------------------------------------------------
(* The token half of a turn: drain_token_state_queue.                      *)

PopTokens(d) == turn[d] = "tokens" /\ Pop(d) /\ UNCHANGED <<logVars, turn>>

NoTokens(d) ==
    /\ turn[d] = "tokens" /\ batch[d] = <<>>
    /\ ~redisUp \/ queue = <<>>
    /\ TurnTo(d, "logs")
    /\ UNCHANGED <<pipelineVars, logVars>>

FlushTokens(d) == Flush(d) /\ TurnTo(d, "logs") /\ UNCHANGED logVars

TurnStep(d) ==
    \/ PopLogs(d) \/ NoLogs(d) \/ InsertLogs(d) \/ RefuseLogs(d)
    \/ PopTokens(d) \/ NoTokens(d) \/ FlushTokens(d)

-----------------------------------------------------------------------------
(* Faults.                                                                 *)

\* A fault of the log half leaves the token states alone.
LogFault ==
    /\ faults < MaxFaults
    /\ faults' = faults + 1
    /\ UNCHANGED <<rowVars, netVars, queue, batch, lost, log, users, records>>

\* The database refuses the batch for reasons of its own.
FailLogs(d) ==
    /\ Holding(d)
    /\ LogFault
    /\ Rollback(d) /\ RequeueLogs(d) /\ TurnTo(d, "logs")
    /\ UNCHANGED unsure

\* The rows are committed, the reply is lost and the batch is requeued.
LogCommitUnacknowledged(d) ==
    /\ Holding(d)
    /\ ~ \E i \in Elements(logBatch[d]) : Gone(i)
    /\ LogFault
    /\ logRows' = Inserted(logBatch[d])
    /\ unsure' = unsure \cup Elements(logBatch[d])
    /\ RequeueLogs(d) /\ TurnTo(d, "logs")

\* LPOP takes effect, its reply is lost: no logs, on to the token states.
LogPopUnacknowledged(d) ==
    /\ turn[d] = "logs" /\ ~Holding(d)
    /\ redisUp /\ logQueue # <<>>
    /\ LogFault
    /\ logLost' = logLost \cup Elements(SubSeq(logQueue, 1, LogsPopped))
    /\ logQueue' = SubSeq(logQueue, LogsPopped + 1, Len(logQueue))
    /\ TurnTo(d, AfterLogs)
    /\ UNCHANGED <<logBatch, logRows, unsure>>

\* A fault of the token half ends the turn.
TokenFault(d) ==
    /\ FailBatch(d) \/ CommitUnacknowledged(d) \/ (turn[d] = "tokens" /\ DequeueUnacknowledged(d))
    /\ TurnTo(d, "logs")
    /\ UNCHANGED <<netVars, log, logVars>>

\* The worker dies with whatever its loops had popped.
WorkerDies ==
    /\ \E d \in Drainer : Holding(d) \/ batch[d] # <<>>
    /\ faults < MaxFaults
    /\ faults' = faults + 1
    /\ lost' = lost \cup UNION {Mentioned(batch[d]) : d \in Drainer}
    /\ logLost' = logLost \cup UNION {Elements(logBatch[d]) : d \in Drainer}
    /\ batch' = [d \in Drainer |-> <<>>]
    /\ logBatch' = [d \in Drainer |-> <<>>]
    /\ turn' = [d \in Drainer |-> "logs"]
    /\ UNCHANGED <<rowVars, netVars, queue, log, users, records, logQueue, logRows, unsure>>

Outage == RedisOutage /\ UNCHANGED <<rowVars, pipeVars, log, logVars, turn>>

Recovery == RedisRecovery /\ UNCHANGED <<rowVars, pipeVars, log, logVars, turn>>

-----------------------------------------------------------------------------
TurnInit ==
    /\ Init
    /\ users = User
    /\ records = <<>>
    /\ logQueue = <<>>
    /\ logBatch = [d \in Drainer |-> <<>>]
    /\ logRows = [i \in LogEvent |-> 0]
    /\ turn = [d \in Drainer |-> "logs"]
    /\ logLost = {} /\ unsure = {}

TurnNext ==
    \/ \E u \in User \cup {Nobody} : Record(u)
    \/ \E u \in User : DeleteUser(u)
    \/ \E t \in Token : (CheckIn(t) \/ CheckOut(t)) /\ UNCHANGED <<logVars, turn>>
    \/ \E d \in Drainer : TurnStep(d)
    \/ \E d \in Drainer : FailLogs(d) \/ LogCommitUnacknowledged(d) \/ LogPopUnacknowledged(d) \/ TokenFault(d)
    \/ WorkerDies \/ Outage \/ Recovery

\* Both loops start a turn every interval and go through it, errors are logged
\* and the loop goes on (worker.py 52-67, 73-85); Redis is restarted when it
\* stops (docker-compose.prod.yml).
TurnFairness ==
    /\ \A d \in Drainer : WF_turnVars(TurnStep(d))
    /\ WF_turnVars(Recovery)

TurnSpec == TurnInit /\ [][TurnNext]_turnVars /\ TurnFairness

-----------------------------------------------------------------------------
(* Properties.                                                             *)

\* A log is queued, or popped, whose user is gone.
Poisoned == \E i \in Elements(logQueue) \cup UNION {Elements(logBatch[d]) : d \in Drainer} : Gone(i)

\* The copies of event i that are popped, each by its drainer and place.
Held(i) == UNION {{d} \X Copies(i, logBatch[d]) : d \in Drainer}

Places(i) == logRows[i] + Occurrences(i, logQueue) + Cardinality(Held(i))

\* A recorded event has one row or is in one queue or batch, whichever batches
\* were refused, requeued and interleaved between the two loops; more only
\* after a commit without a reply, fewer only when a popped batch was lost
\* (access_logs.py 80-124, redis.py 534-578).
EachEventInOnePlace ==
    \A i \in Recorded :
        /\ Places(i) <= 1 \/ i \in unsure
        /\ Places(i) >= 1 \/ i \in logLost

\* The log half of a turn does not keep a loop from the token states: with
\* faults, outages and any number of logs before it each loop is as fair to
\* them as DrainPipeline says, unless a log about a deleted user is queued
\* (worker.py 58-67, maintenance.py 176-177).
TokenStatesGetTheirTurn == <>Poisoned \/ Fairness

\* Every recorded event ends up in access_logs, unless it is lost with a popped
\* batch or a log about a deleted user holds the queue up (access_logs.py 84).
EveryEventIsLogged ==
    \A i \in LogEvent : i \in Recorded ~> (logRows[i] > 0 \/ i \in logLost \/ Poisoned)

\* A check-in, put back behind its own check-out: whichever batch takes both
\* leaves no trace of the departure.
Overtaken(t) ==
    \E i, j \in DOMAIN queue :
        i < j /\ queue[i] = [tok |-> t, to |-> "checked_out"] /\ queue[j] = [tok |-> t, to |-> "checked_in"]

\* Whatever is answered is in its row in the end, through failed batches,
\* commits whose reply is lost, outages and whatever the log half of the turns
\* does: an admitted pass is used from then on, an answered departure shows
\* unless a requeued check-in overtakes it, and the row comes to rest on one of
\* the two answers, however often a batch is requeued and applied again.  On
\* which of them is LastEventWins' matter.  Only what a fault lost between LPOP
\* and commit is excepted, and a queue with a log about a deleted user in it
\* (token_state.py 146-233, redis.py 657-697, worker.py 58-67).
AnswersSettle ==
    <>Poisoned \/ \A t \in Token :
        /\ Happened(t, "checked_in") ~> ([]used[t] \/ t \in lost)
        /\ <>Happened(t, "checked_out") => <>(status[t] = "checked_out" \/ t \in lost \/ Overtaken(t))
        /\ <>[](status[t] = "checked_in") \/ <>[](status[t] = "checked_out")
           \/ <>[]~Happened(t, "checked_in") \/ <>(t \in lost)
=============================================================================
