----------------------------- MODULE DrainPipeline -----------------------------
(***************************************************************************)
(* The queue of TokenStateQueue with the producers it serves: each pass is *)
(* checked in and later checked out, once, and the answers go through      *)
(* Persist in the order they were given.                                   *)
(*                                                                         *)
(* With one drainer (worker.py run_once, or the daemon between two         *)
(* maintenance passes) the rows follow the answers as RowMirror says.  The *)
(* daemon runs two drainers.  Faults and outages come with the worker's    *)
(* turns, in WorkerTurn.                                                   *)
(***************************************************************************)
EXTENDS TokenStateQueue

VARIABLE log   \* history: every event answered, in order

pipelineVars == <<rowVars, pipeVars, netVars, log>>

Init ==
    /\ QueueInit
    /\ status = [t \in Token |-> "pending"]
    /\ used = [t \in Token |-> FALSE]
    /\ log = <<>>

Happened(t, to) == \E i \in DOMAIN log : log[i] = [tok |-> t, to |-> to]

Answer(t, to) ==
    /\ Persist(t, to)
    /\ log' = Append(log, [tok |-> t, to |-> to])
    /\ UNCHANGED netVars

CheckIn(t)  == ~Happened(t, "checked_in") /\ Answer(t, "checked_in")

CheckOut(t) == Happened(t, "checked_in") /\ ~Happened(t, "checked_out") /\ Answer(t, "checked_out")

\* One turn of a drain loop: the part before, and after, the wait for Postgres.
Pop(d)   == Dequeue(d) /\ UNCHANGED <<netVars, log>>
Flush(d) == CommitBatch(d) /\ UNCHANGED <<netVars, log>>

Next ==
    \/ \E t \in Token : CheckIn(t) \/ CheckOut(t)
    \/ \E d \in Drainer : Pop(d) \/ Flush(d)

\* A drain loop wakes every interval for as long as the worker runs, errors
\* are logged and the loop goes on (worker.py 52-67, 73-85).
Fairness == \A d \in Drainer : WF_pipelineVars(Pop(d)) /\ WF_pipelineVars(Flush(d))

Spec == Init /\ [][Next]_pipelineVars /\ Fairness

-----------------------------------------------------------------------------
\* Events popped and not yet applied, each by its drainer and place.
InBatches == UNION {{d} \X DOMAIN batch[d] : d \in Drainer}

\* Events answered and not yet applied.
Backlog == Len(queue) + Cardinality(InBatches)

Mirror == INSTANCE RowMirror WITH applied <- Len(log) - Backlog, row <- status

\* Coalescing whole batches is invisible: the rows always show some prefix of
\* the answers, and at last all of them (token_state.py 146-233).
RowsMirrorAnswers == Mirror!MirrorSpec

\* A departure that was answered ends up in the row, and stays there, although
\* the same pass's check-in went through the same queue, maybe the same batch
\* (token_state.py 146-173).
DepartureSettles ==
    \A t \in Token : Happened(t, "checked_out") ~> [](status[t] = "checked_out")

\* What _coalesce_token_updates promises: the last event wins.  Between two
\* batches of two drainers it need not (token_state.py 148, worker.py 94-97).
LastEventWins ==
    [][\A t \in Token : status[t] = "checked_out" => status'[t] = "checked_out"]_pipelineVars
=============================================================================
