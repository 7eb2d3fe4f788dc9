------------------------- MODULE TokenStateQueueProofs -------------------------
(***************************************************************************)
(* Facts about the steps of TokenStateQueue, for the modules that are      *)
(* built on it: what each leaves well typed.                               *)
(***************************************************************************)
EXTENDS TokenStateQueue, SequenceTheorems, WellFoundedInduction, TLAPS

\* A bounded non-empty set of positions has a last one: the CHOOSE of
\* LastEventStatus (token_state.py 148) is never of nothing.
LEMMA LastPosition ==
    ASSUME NEW n \in Nat, NEW S, S \subseteq 1 .. n, S # {}
    PROVE  \E i \in S : \A j \in S : j <= i
<1> DEFINE T == {n - i : i \in S}
<1>1. T \subseteq Nat
  OBVIOUS
<1>2. T # {}
  <2>1. PICK i \in S : TRUE
    OBVIOUS
  <2>2. n - i \in T
    BY <2>1
  <2> QED BY <2>2
<1>3. PICK x \in T : \A y \in T : ~(<<y, x>> \in OpToRel(<, Nat))
  <2> HIDE DEF T
  <2> QED BY <1>1, <1>2, NatLessThanWellFounded, WFMin
<1>4. \A y \in T : x <= y
  <2> HIDE DEF T
  <2> TAKE y \in T
  <2>1. x \in Nat /\ y \in Nat
    BY <1>1
  <2>2. ~(y < x)
    BY <2>1, <1>3 DEF OpToRel
  <2> QED BY <2>1, <2>2
<1>5. PICK i \in S : x = n - i
  OBVIOUS
<1>6. \A j \in S : j <= i
  <2> TAKE j \in S
  <2>1. n - j \in T
    OBVIOUS
  <2>2. n - i <= n - j
    BY <2>1, <1>4, <1>5
  <2> QED BY <2>2
<1> QED BY <1>6

\* The last event about a pass that a batch mentions is an event of the batch.
LEMMA LastEventType ==
    ASSUME NEW s \in Seq(Event), NEW t \in Mentioned(s)
    PROVE  LastEventStatus(s, t) \in {"checked_in", "checked_out"}
<1> DEFINE about == {i \in DOMAIN s : s[i].tok = t}
<1>1. DOMAIN s = 1 .. Len(s) /\ Len(s) \in Nat
  BY LenProperties
<1>2. about \subseteq 1 .. Len(s) /\ about # {}
  BY <1>1 DEF Mentioned
<1>3. PICK last \in about : \A j \in about : j <= last
  <2> HIDE DEF about
  <2> QED BY <1>1, <1>2, LastPosition
<1>4. \E i \in DOMAIN s : s[i].tok = t /\ \A j \in DOMAIN s : s[j].tok = t => j <= i
  BY <1>3
<1>5. PICK k \in DOMAIN s : LastEventStatus(s, t) = s[k].to
  BY <1>4 DEF LastEventStatus
<1>6. s[k] \in Event
  BY ElementOfSeq, <1>1
<1> QED BY <1>5, <1>6 DEF Event

\* A batch sets the row of a pass to a status a row can have.
LEMMA ApplyBatchType ==
    ASSUME QueueTypeOK, NEW s \in Seq(Event), ApplyBatch(s)
    PROVE  /\ status' \in [Token -> RowStatus]
           /\ used' \in [Token -> BOOLEAN]
<1>1. \A t \in Mentioned(s) : LastEventStatus(s, t) \in {"checked_in", "checked_out"}
  BY LastEventType
<1> QED BY <1>1 DEF ApplyBatch, QueueTypeOK, RowStatus

\* The passes a list of events mentions are passes.
LEMMA MentionedType ==
    ASSUME NEW s \in Seq(Event)
    PROVE  Mentioned(s) \subseteq Token
<1>1. \A i \in DOMAIN s : s[i] \in Event
  BY ElementOfSeq, LenProperties
<1> QED BY <1>1 DEF Mentioned, Event

\* How much of the queue one LPOP takes, and what it leaves.
LEMMA PoppedType ==
    ASSUME QueueTypeOK, queue # <<>>
    PROVE  /\ SubSeq(queue, 1, Popped) \in Seq(Event)
           /\ SubSeq(queue, Popped + 1, Len(queue)) \in Seq(Event)
<1>1. Len(queue) \in Nat /\ queue \in Seq(Event) /\ BatchSize \in Nat
  BY LenProperties, BatchAssumption DEF QueueTypeOK
<1>2. Popped \in 0 .. Len(queue)
  BY <1>1 DEF Popped
<1>3. \A i \in 1 .. Len(queue) : queue[i] \in Event
  BY <1>1, ElementOfSeq
<1> QED BY <1>1, <1>2, <1>3, SubSeqProperties

-----------------------------------------------------------------------------
(* What each step of the write-behind leaves well typed. *)

LEMMA PersistType ==
    ASSUME QueueTypeOK, NEW t \in Token, NEW to \in {"checked_in", "checked_out"},
           Persist(t, to), UNCHANGED netVars
    PROVE  QueueTypeOK'
<1>1. [tok |-> t, to |-> to] \in Event
  BY DEF Event
<1>2. Append(queue, [tok |-> t, to |-> to]) \in Seq(Event)
  BY <1>1, AppendProperties DEF QueueTypeOK
<1> QED BY <1>2 DEF Persist, QueueTypeOK, RowStatus, rowVars, netVars

LEMMA DequeueType ==
    ASSUME QueueTypeOK, NEW d \in Drainer, Dequeue(d), UNCHANGED netVars
    PROVE  QueueTypeOK'
BY PoppedType DEF Dequeue, QueueTypeOK, netVars

LEMMA CommitBatchType ==
    ASSUME QueueTypeOK, NEW d \in Drainer, CommitBatch(d), UNCHANGED netVars
    PROVE  QueueTypeOK'
<1>1. batch[d] \in Seq(Event)
  BY DEF QueueTypeOK
<1>2. status' \in [Token -> RowStatus] /\ used' \in [Token -> BOOLEAN]
  BY <1>1, ApplyBatchType DEF CommitBatch
<1> QED BY <1>2, EmptySeq DEF CommitBatch, QueueTypeOK, netVars

\* Requeueing, which two of the faults do.
LEMMA RequeueBatchType ==
    ASSUME QueueTypeOK, NEW d \in Drainer, RequeueBatch(d)
    PROVE  /\ batch' \in [Drainer -> Seq(Event)]
           /\ queue' \in Seq(Event)
           /\ lost' \subseteq Token
<1>1. batch[d] \in Seq(Event) /\ queue \in Seq(Event)
  BY DEF QueueTypeOK
<1>2. queue \o batch[d] \in Seq(Event)
  BY <1>1, ConcatProperties
<1>3. Mentioned(batch[d]) \subseteq Token
  BY <1>1, MentionedType
<1> QED BY <1>2, <1>3, EmptySeq DEF RequeueBatch, QueueTypeOK

LEMMA DrainFaultType ==
    ASSUME QueueTypeOK, DrainFault, UNCHANGED netVars
    PROVE  QueueTypeOK'
<1>1. ASSUME faults' = faults + 1, faults < MaxFaults
      PROVE  faults' \in 0 .. MaxFaults
  BY <1>1, BudgetAssumption DEF QueueTypeOK
<1>2. CASE WorkerCrash
  <2>1. \A d \in Drainer : Mentioned(batch[d]) \subseteq Token
    BY MentionedType DEF QueueTypeOK
  <2>2. lost' \subseteq Token /\ batch' \in [Drainer -> Seq(Event)]
    BY <1>2, <2>1, EmptySeq DEF WorkerCrash, QueueTypeOK
  <2> QED BY <1>1, <1>2, <2>2 DEF WorkerCrash, QueueTypeOK, netVars
<1>3. ASSUME NEW d \in Drainer, FailBatch(d)
      PROVE  QueueTypeOK'
  BY <1>1, <1>3, RequeueBatchType DEF FailBatch, QueueTypeOK, rowVars, netVars
<1>4. ASSUME NEW d \in Drainer, CommitUnacknowledged(d)
      PROVE  QueueTypeOK'
  <2>1. batch[d] \in Seq(Event)
    BY DEF QueueTypeOK
  <2>2. status' \in [Token -> RowStatus] /\ used' \in [Token -> BOOLEAN]
    BY <1>4, <2>1, ApplyBatchType DEF CommitUnacknowledged
  <2> QED BY <1>1, <1>4, <2>2, RequeueBatchType DEF CommitUnacknowledged, QueueTypeOK, netVars
<1>5. ASSUME NEW d \in Drainer, DequeueUnacknowledged(d)
      PROVE  QueueTypeOK'
  <2>1. /\ SubSeq(queue, 1, Popped) \in Seq(Event)
        /\ SubSeq(queue, Popped + 1, Len(queue)) \in Seq(Event)
    BY <1>5, PoppedType DEF DequeueUnacknowledged
  <2>2. Mentioned(SubSeq(queue, 1, Popped)) \subseteq Token
    BY <2>1, MentionedType
  <2> QED BY <1>1, <1>5, <2>1, <2>2 DEF DequeueUnacknowledged, QueueTypeOK, netVars
<1> QED BY <1>2, <1>3, <1>4, <1>5 DEF DrainFault

LEMMA RedisNetworkType ==
    ASSUME QueueTypeOK, RedisOutage \/ RedisRecovery, UNCHANGED <<rowVars, pipeVars>>
    PROVE  QueueTypeOK'
<1>1. redisUp' \in BOOLEAN
  BY Zenon DEF RedisOutage, RedisRecovery
<1>2. outages' = outages \/ (outages < MaxOutages /\ outages' = outages + 1)
  BY Zenon DEF RedisOutage, RedisRecovery
<1>3. outages' \in 0 .. MaxOutages
  BY <1>2, BudgetAssumption DEF QueueTypeOK
<1>4. UNCHANGED <<status, used, queue, batch, lost, faults>>
  BY DEF rowVars, pipeVars
<1> QED BY <1>1, <1>3, <1>4 DEF QueueTypeOK

LEMMA QueueFrame ==
    ASSUME QueueTypeOK, UNCHANGED <<rowVars, pipeVars, netVars>>
    PROVE  QueueTypeOK'
BY DEF QueueTypeOK, rowVars, pipeVars, netVars

LEMMA QueueInitType ==
    ASSUME QueueInit, status \in [Token -> RowStatus], used \in [Token -> BOOLEAN]
    PROVE  QueueTypeOK
BY BudgetAssumption, EmptySeq DEF QueueInit, QueueTypeOK

-----------------------------------------------------------------------------
(* What no step of the write-behind undoes. *)

\* A row that exists goes on existing: every UPDATE sets a status of the
\* visitor's, and there is no DELETE (token_state.py 91-97, 136-141, 196-222).
LEMMA DrainKeepsRows ==
    ASSUME QueueTypeOK, (\E d \in Drainer : DrainStep(d)) \/ DrainFault
    PROVE  \A t \in Token : status[t] # "absent" => status'[t] # "absent"
<1>1. ASSUME NEW s \in Seq(Event), ApplyBatch(s)
      PROVE  \A t \in Token : status[t] # "absent" => status'[t] # "absent"
  <2>1. \A t \in Mentioned(s) : LastEventStatus(s, t) \in {"checked_in", "checked_out"}
    BY LastEventType
  <2> QED BY <1>1, <2>1 DEF ApplyBatch
<1>2. \A d \in Drainer : batch[d] \in Seq(Event)
  BY DEF QueueTypeOK
<1>3. ASSUME NEW d \in Drainer, CommitBatch(d) \/ CommitUnacknowledged(d)
      PROVE  ApplyBatch(batch[d])
  BY <1>3 DEF CommitBatch, CommitUnacknowledged
<1>4. ASSUME NEW d \in Drainer, Dequeue(d) \/ FailBatch(d) \/ DequeueUnacknowledged(d)
      PROVE  UNCHANGED status
  BY <1>4 DEF Dequeue, FailBatch, DequeueUnacknowledged, rowVars
<1>5. WorkerCrash => UNCHANGED status
  BY DEF WorkerCrash
<1> QED BY <1>1, <1>2, <1>3, <1>4, <1>5 DEF DrainStep, DrainFault

-----------------------------------------------------------------------------
(* What becomes of an event. *)

\* What a longer list is about.
LEMMA MentionedJoin ==
    ASSUME NEW s \in Seq(Event), NEW r \in Seq(Event)
    PROVE  Mentioned(s \o r) = Mentioned(s) \cup Mentioned(r)
<1>1. /\ Len(s) \in Nat /\ Len(r) \in Nat
      /\ DOMAIN s = 1 .. Len(s) /\ DOMAIN r = 1 .. Len(r)
  BY LenProperties
<1>2. /\ Len(s \o r) = Len(s) + Len(r)
      /\ DOMAIN (s \o r) = 1 .. Len(s) + Len(r)
      /\ \A i \in 1 .. Len(s) + Len(r) : (s \o r)[i] = IF i <= Len(s) THEN s[i] ELSE r[i - Len(s)]
  BY ConcatProperties, LenProperties
<1>3. \A i \in DOMAIN s : i \in DOMAIN (s \o r) /\ (s \o r)[i] = s[i]
  BY <1>1, <1>2
<1>4. \A i \in DOMAIN r : Len(s) + i \in DOMAIN (s \o r) /\ (s \o r)[Len(s) + i] = r[i]
  BY <1>1, <1>2
<1>5. \A i \in DOMAIN (s \o r) : \/ i \in DOMAIN s /\ (s \o r)[i] = s[i]
                                 \/ i - Len(s) \in DOMAIN r /\ (s \o r)[i] = r[i - Len(s)]
  BY <1>1, <1>2
<1>6. Mentioned(s) \cup Mentioned(r) \subseteq Mentioned(s \o r)
  BY <1>3, <1>4 DEF Mentioned
<1>7. Mentioned(s \o r) \subseteq Mentioned(s) \cup Mentioned(r)
  BY <1>5 DEF Mentioned
<1> QED BY <1>6, <1>7

\* LPOP divides the queue: no event is in neither part.
LEMMA MentionedPopped ==
    ASSUME QueueTypeOK, queue # <<>>
    PROVE  Mentioned(queue) = Mentioned(SubSeq(queue, 1, Popped))
                                  \cup Mentioned(SubSeq(queue, Popped + 1, Len(queue)))
<1> DEFINE h == SubSeq(queue, 1, Popped)
           r == SubSeq(queue, Popped + 1, Len(queue))
<1>1. Len(queue) \in Nat /\ queue \in Seq(Event) /\ BatchSize \in Nat /\ DOMAIN queue = 1 .. Len(queue)
  BY LenProperties, BatchAssumption DEF QueueTypeOK
<1>2. Popped \in 0 .. Len(queue) /\ Popped \in Nat
  BY <1>1 DEF Popped
<1>3. /\ Len(h) = Popped /\ DOMAIN h = 1 .. Popped
      /\ \A i \in 1 .. Popped : h[i] = queue[i]
  BY <1>1, <1>2, SubSeqProperties, LenProperties
<1>4. /\ DOMAIN r = 1 .. Len(queue) - Popped
      /\ \A i \in 1 .. Len(queue) - Popped : r[i] = queue[Popped + i]
  BY <1>1, <1>2, SubSeqProperties, LenProperties
<1> HIDE DEF h, r
<1>5. Mentioned(h) \cup Mentioned(r) \subseteq Mentioned(queue)
  BY <1>1, <1>2, <1>3, <1>4 DEF Mentioned
<1>6. \A i \in DOMAIN queue : \/ i \in DOMAIN h /\ queue[i] = h[i]
                              \/ i - Popped \in DOMAIN r /\ queue[i] = r[i - Popped]
  BY <1>1, <1>2, <1>3, <1>4
<1>7. Mentioned(queue) \subseteq Mentioned(h) \cup Mentioned(r)
  BY <1>6 DEF Mentioned
<1> QED BY <1>5, <1>7 DEF h, r

\* An answered event is queued or written, and nothing else moves
\* (token_state.py 81-99 and 126-143).
LEMMA PersistEvents ==
    ASSUME QueueTypeOK, NEW t \in Token, NEW to \in {"checked_in", "checked_out"}, Persist(t, to)
    PROVE  /\ \A u \in Token : Underway(u)' <=> Underway(u) \/ (u = t /\ redisUp)
           /\ \A u \in Token : \/ status'[u] = status[u] /\ used'[u] = used[u]
                               \/ u = t /\ ~redisUp /\ status'[u] = to /\ used'[u]
           /\ ~redisUp => status'[t] = to /\ used'[t]
           /\ lost' = lost
<1> DEFINE e == [tok |-> t, to |-> to]
<1>1. e \in Event /\ e.tok = t
  BY DEF Event
<1>2. CASE redisUp
  <2>1. Mentioned(<<e>>) = {t}
    BY <1>1 DEF Mentioned
  <2>2. queue' = queue \o <<e>> /\ <<e>> \in Seq(Event) /\ queue \in Seq(Event)
    <3>1. queue' = Append(queue, e) /\ queue \in Seq(Event)
      BY <1>2 DEF Persist, QueueTypeOK
    <3> HIDE DEF e
    <3> QED BY <1>1, <3>1, AppendIsConcat
  <2>3. Mentioned(queue') = Mentioned(queue) \cup {t}
    BY <2>1, <2>2, MentionedJoin
  <2>4. UNCHANGED <<batch, status, used, lost>>
    BY <1>2 DEF Persist, rowVars
  <2>5. \A u \in Token : Underway(u)' <=> Underway(u) \/ u = t
    BY <2>3, <2>4 DEF Underway
  <2> QED BY <1>2, <2>4, <2>5
<1>3. CASE ~redisUp
  <2>1. UNCHANGED <<queue, batch, lost>>
    BY <1>3 DEF Persist
  <2>2. \A u \in Token : Underway(u)' <=> Underway(u)
    BY <2>1 DEF Underway
  <2>3. \A u \in Token : /\ status'[u] = IF u = t THEN to ELSE status[u]
                         /\ used'[u] = IF u = t THEN TRUE ELSE used[u]
    BY <1>3 DEF Persist, QueueTypeOK
  <2> QED BY <1>3, <2>1, <2>2, <2>3
<1> QED BY <1>2, <1>3

\* The row of t shows that its visitor was let in.
Shown(t) == used[t] /\ status[t] \in {"checked_in", "checked_out"}

\* A batch shows what it mentions, and moves nothing else.
LEMMA ApplyBatchShows ==
    ASSUME QueueTypeOK, NEW s \in Seq(Event), ApplyBatch(s)
    PROVE  \A u \in Token : IF u \in Mentioned(s) THEN Shown(u)'
                            ELSE status'[u] = status[u] /\ used'[u] = used[u]
<1>1. \A u \in Mentioned(s) : LastEventStatus(s, u) \in {"checked_in", "checked_out"}
  BY LastEventType
<1> QED BY <1>1 DEF ApplyBatch, QueueTypeOK, Shown

\* A batch that goes back to the queue stays underway, or is lost.
LEMMA RequeueKeepsEvents ==
    ASSUME QueueTypeOK, NEW d \in Drainer, RequeueBatch(d)
    PROVE  /\ \A u \in Token : Underway(u)' => Underway(u)
           /\ \A u \in Token : Underway(u) => Underway(u)' \/ u \in lost'
           /\ lost \subseteq lost'
<1>1. batch[d] \in Seq(Event) /\ queue \in Seq(Event)
  BY DEF QueueTypeOK
<1>2. Mentioned(<<>>) = {}
  BY DEF Mentioned
<1>3. \A f \in Drainer : batch'[f] = IF f = d THEN <<>> ELSE batch[f]
  BY DEF RequeueBatch, QueueTypeOK
<1>4. CASE redisUp
  <2>1. Mentioned(queue') = Mentioned(queue) \cup Mentioned(batch[d]) /\ lost' = lost
    BY <1>1, <1>4, MentionedJoin DEF RequeueBatch
  <2> QED BY <1>2, <1>3, <2>1 DEF Underway
<1>5. CASE ~redisUp
  <2>1. queue' = queue /\ lost' = lost \cup Mentioned(batch[d])
    BY <1>5 DEF RequeueBatch
  <2> QED BY <1>2, <1>3, <2>1 DEF Underway
<1> QED BY <1>4, <1>5

\* A drain brings an event to its row or back to the queue, unless a fault
\* loses it, and takes no row back (token_state.py 176-233, redis.py 659-697).
LEMMA DrainEvents ==
    ASSUME QueueTypeOK, (\E d \in Drainer : DrainStep(d)) \/ DrainFault
    PROVE  /\ \A u \in Token : Underway(u)' => Underway(u)
           /\ \A u \in Token : Underway(u) => Underway(u)' \/ Shown(u)' \/ u \in lost'
           /\ \A u \in Token : \/ status'[u] = status[u] /\ used'[u] = used[u]
                               \/ Underway(u) /\ Shown(u)'
           /\ lost \subseteq lost'
<1>0. Mentioned(<<>>) = {}
  BY DEF Mentioned
<1>1. ASSUME NEW d \in Drainer, Dequeue(d)
      PROVE  /\ \A u \in Token : Underway(u)' <=> Underway(u)
             /\ UNCHANGED <<status, used, lost>>
  <2>1. Mentioned(queue) = Mentioned(batch'[d]) \cup Mentioned(queue')
    BY <1>1, MentionedPopped DEF Dequeue, QueueTypeOK
  <2>2. batch[d] = <<>> /\ \A f \in Drainer \ {d} : batch'[f] = batch[f]
    BY <1>1 DEF Dequeue, QueueTypeOK
  <2>3. UNCHANGED <<status, used, lost>>
    BY <1>1 DEF Dequeue
  <2> QED BY <1>0, <2>1, <2>2, <2>3 DEF Underway
<1>2. ASSUME NEW d \in Drainer, CommitBatch(d) \/ CommitUnacknowledged(d)
      PROVE  \A u \in Token : IF u \in Mentioned(batch[d]) THEN Shown(u)'
                              ELSE status'[u] = status[u] /\ used'[u] = used[u]
  <2>1. batch[d] \in Seq(Event)
    BY DEF QueueTypeOK
  <2> QED BY <1>2, <2>1, ApplyBatchShows DEF CommitBatch, CommitUnacknowledged
<1>3. ASSUME NEW d \in Drainer, CommitBatch(d)
      PROVE  /\ \A u \in Token : Underway(u)' => Underway(u)
             /\ \A u \in Token : Underway(u) => Underway(u)' \/ u \in Mentioned(batch[d])
             /\ lost' = lost
  <2>1. \A f \in Drainer : batch'[f] = IF f = d THEN <<>> ELSE batch[f]
    BY <1>3 DEF CommitBatch, QueueTypeOK
  <2>2. UNCHANGED <<queue, lost>>
    BY <1>3 DEF CommitBatch
  <2> QED BY <1>0, <2>1, <2>2 DEF Underway
<1>4. ASSUME NEW d \in Drainer, FailBatch(d) \/ CommitUnacknowledged(d)
      PROVE  RequeueBatch(d)
  BY <1>4 DEF FailBatch, CommitUnacknowledged
<1>5. ASSUME NEW d \in Drainer, FailBatch(d)
      PROVE  UNCHANGED <<status, used>>
  BY <1>5 DEF FailBatch, rowVars
<1>6. ASSUME NEW d \in Drainer, DequeueUnacknowledged(d)
      PROVE  /\ \A u \in Token : Underway(u)' => Underway(u)
             /\ \A u \in Token : Underway(u) => Underway(u)' \/ u \in lost'
             /\ lost \subseteq lost'
             /\ UNCHANGED <<status, used>>
  <2>1. Mentioned(queue) = Mentioned(SubSeq(queue, 1, Popped)) \cup Mentioned(queue')
    BY <1>6, MentionedPopped DEF DequeueUnacknowledged
  <2>2. /\ lost' = lost \cup Mentioned(SubSeq(queue, 1, Popped))
        /\ UNCHANGED <<status, used, batch>>
    BY <1>6 DEF DequeueUnacknowledged
  <2> QED BY <2>1, <2>2 DEF Underway
<1>7. ASSUME WorkerCrash
      PROVE  /\ \A u \in Token : Underway(u)' => Underway(u)
             /\ \A u \in Token : Underway(u) => Underway(u)' \/ u \in lost'
             /\ lost \subseteq lost'
             /\ UNCHANGED <<status, used>>
  <2>1. /\ lost' = lost \cup UNION {Mentioned(batch[d]) : d \in Drainer}
        /\ UNCHANGED <<status, used, queue>>
        /\ \A d \in Drainer : batch'[d] = <<>>
    BY <1>7 DEF WorkerCrash
  <2> QED BY <1>0, <2>1 DEF Underway
<1>8. CASE \E d \in Drainer : Dequeue(d)
  BY <1>1, <1>8
<1>9. CASE \E d \in Drainer : CommitBatch(d)
  <2>1. PICK d \in Drainer : CommitBatch(d)
    BY <1>9
  <2>2. \A u \in Mentioned(batch[d]) : Underway(u)
    BY DEF Underway
  <2> QED BY <1>2, <1>3, <2>1, <2>2
<1>10. CASE \E d \in Drainer : FailBatch(d)
  BY <1>4, <1>5, <1>10, RequeueKeepsEvents
<1>11. CASE \E d \in Drainer : CommitUnacknowledged(d)
  <2>1. PICK d \in Drainer : CommitUnacknowledged(d)
    BY <1>11
  <2>2. \A u \in Mentioned(batch[d]) : Underway(u)
    BY DEF Underway
  <2> QED BY <1>2, <1>4, <2>1, <2>2, RequeueKeepsEvents
<1>12. CASE \E d \in Drainer : DequeueUnacknowledged(d)
  BY <1>6, <1>12
<1>13. CASE WorkerCrash
  BY <1>7, <1>13
<1> QED BY <1>8, <1>9, <1>10, <1>11, <1>12, <1>13 DEF DrainStep, DrainFault
=============================================================================
