--------------------------- MODULE WorkerTurnProofs ---------------------------
(***************************************************************************)
(* Proofs about the worker: every recorded event is in one place of the    *)
(* log half of its turns, and, with one drainer, the rows follow the       *)
(* answers as RowMirror says.                                              *)
(***************************************************************************)
EXTENDS WorkerTurn, TokenStateQueueProofs, FiniteSetTheorems

-----------------------------------------------------------------------------
(* Counting in lists.                                                      *)

LEMMA CountFacts ==
    ASSUME NEW S, NEW s \in Seq(S), NEW i
    PROVE  /\ Copies(i, s) \subseteq 1 .. Len(s)
           /\ IsFiniteSet(Copies(i, s)) /\ Occurrences(i, s) \in Nat
           /\ Occurrences(i, s) = 0 <=> Copies(i, s) = {}
           /\ Occurrences(i, s) = 0 <=> i \notin Elements(s)
<1>1. DOMAIN s = 1 .. Len(s) /\ Len(s) \in Nat
  BY LenProperties
<1>2. Copies(i, s) \subseteq 1 .. Len(s)
  BY <1>1 DEF Copies
<1>3. IsFiniteSet(1 .. Len(s))
  BY <1>1, FS_Interval
<1>4. IsFiniteSet(Copies(i, s))
  BY <1>2, <1>3, FS_Subset
<1>5. Occurrences(i, s) \in Nat
  BY <1>4, FS_CardinalityType DEF Occurrences
<1>6. Occurrences(i, s) = 0 <=> Copies(i, s) = {}
  BY <1>4, FS_EmptySet DEF Occurrences
<1>7. Copies(i, s) = {} <=> i \notin Elements(s)
  BY DEF Copies, Elements
<1> QED BY <1>2, <1>4, <1>5, <1>6, <1>7

LEMMA CountNone == \A i : Occurrences(i, <<>>) = 0 /\ Elements(<<>>) = {} /\ Copies(i, <<>>) = {}
<1>1. \A i : Copies(i, <<>>) = {}
  BY DEF Copies
<1> QED BY <1>1, FS_EmptySet DEF Occurrences, Elements

\* What is in either of two lists is in both together, as often.
LEMMA CountJoin ==
    ASSUME NEW S, NEW s \in Seq(S), NEW r \in Seq(S), NEW i
    PROVE  /\ Occurrences(i, s \o r) = Occurrences(i, s) + Occurrences(i, r)
           /\ Elements(s \o r) = Elements(s) \cup Elements(r)
<1> DEFINE n == Len(s)
           moved == {k + n : k \in Copies(i, r)}
<1>1. /\ n \in Nat /\ Len(r) \in Nat
      /\ DOMAIN s = 1 .. n /\ DOMAIN r = 1 .. Len(r) /\ DOMAIN (s \o r) = 1 .. n + Len(r)
      /\ \A k \in 1 .. n + Len(r) : (s \o r)[k] = IF k <= n THEN s[k] ELSE r[k - n]
  BY ConcatProperties, LenProperties
<1>2. /\ Copies(i, s) \subseteq 1 .. n /\ Copies(i, r) \subseteq 1 .. Len(r)
      /\ IsFiniteSet(Copies(i, s)) /\ IsFiniteSet(Copies(i, r))
      /\ Cardinality(Copies(i, s)) \in Nat /\ Cardinality(Copies(i, r)) \in Nat
  BY CountFacts DEF Occurrences
<1>3. Copies(i, s \o r) = Copies(i, s) \cup moved
  <2>1. ASSUME NEW k \in Copies(i, s \o r) PROVE k \in Copies(i, s) \cup moved
    <3>1. k \in 1 .. n + Len(r) /\ (s \o r)[k] = i
      BY <1>1 DEF Copies
    <3>2. CASE k <= n
      BY <1>1, <3>1, <3>2 DEF Copies
    <3>3. CASE ~(k <= n)
      <4>1. k - n \in 1 .. Len(r) /\ r[k - n] = i /\ k = (k - n) + n
        BY <1>1, <3>1, <3>3
      <4>2. k - n \in Copies(i, r)
        BY <1>1, <4>1 DEF Copies
      <4> QED BY <4>1, <4>2
    <3> QED BY <3>2, <3>3
  <2>2. ASSUME NEW k \in Copies(i, s) PROVE k \in Copies(i, s \o r)
    BY <1>1 DEF Copies
  <2>3. ASSUME NEW k \in Copies(i, r) PROVE k + n \in Copies(i, s \o r)
    <3>1. k \in 1 .. Len(r) /\ r[k] = i
      BY <1>1 DEF Copies
    <3>2. k + n \in 1 .. n + Len(r) /\ ~(k + n <= n) /\ (k + n) - n = k
      BY <1>1, <3>1
    <3> QED BY <1>1, <3>1, <3>2 DEF Copies
  <2> QED BY <2>1, <2>2, <2>3
<1>4. IsFiniteSet(moved) /\ Cardinality(moved) = Cardinality(Copies(i, r))
  <2> DEFINE f == [k \in Copies(i, r) |-> k + n]
  <2>1. f \in Bijection(Copies(i, r), moved)
    <3>1. f \in [Copies(i, r) -> moved]
      OBVIOUS
    <3>2. \A a, b \in Copies(i, r) : f[a] = f[b] => a = b
      BY <1>1, <1>2
    <3>3. \A m \in moved : \E a \in Copies(i, r) : f[a] = m
      OBVIOUS
    <3> HIDE DEF f, moved
    <3> QED BY <3>1, <3>2, <3>3 DEF Bijection, Injection, Surjection, IsInjective
  <2> QED BY <1>2, <2>1, FS_Bijection DEF ExistsBijection
<1>5. Copies(i, s) \cap moved = {}
  BY <1>1, <1>2
<1>6. Cardinality(Copies(i, s) \cup moved) = Cardinality(Copies(i, s)) + Cardinality(moved) - Cardinality({})
  <2>1. ASSUME NEW T, IsFiniteSet(T), Copies(i, s) \cap T = {}
        PROVE  Cardinality(Copies(i, s) \cup T) = Cardinality(Copies(i, s)) + Cardinality(T) - Cardinality({})
    <3>1. Cardinality(Copies(i, s) \cup T) = Cardinality(Copies(i, s)) + Cardinality(T) - Cardinality(Copies(i, s) \cap T)
      BY <1>2, <2>1, FS_Union, Zenon
    <3> QED BY <2>1, <3>1
  <2> HIDE DEF moved
  <2> QED BY <1>4, <1>5, <2>1
<1>7. Occurrences(i, s \o r) = Occurrences(i, s) + Occurrences(i, r)
  BY <1>2, <1>3, <1>4, <1>6, FS_EmptySet DEF Occurrences
<1>8. Elements(s \o r) = Elements(s) \cup Elements(r)
  <2>1. \A k \in DOMAIN s : k \in DOMAIN (s \o r) /\ (s \o r)[k] = s[k]
    BY <1>1
  <2>2. \A k \in DOMAIN r : n + k \in DOMAIN (s \o r) /\ (s \o r)[n + k] = r[k]
    BY <1>1
  <2>3. ASSUME NEW k \in DOMAIN (s \o r)
        PROVE  (s \o r)[k] \in Elements(s) \cup Elements(r)
    <3>1. CASE k <= n
      BY <1>1, <3>1 DEF Elements
    <3>2. CASE ~(k <= n)
      <4>1. k - n \in DOMAIN r /\ (s \o r)[k] = r[k - n]
        BY <1>1, <3>2
      <4> QED BY <4>1 DEF Elements
    <3> QED BY <3>1, <3>2
  <2>4. Elements(s \o r) \subseteq Elements(s) \cup Elements(r)
    BY <2>3 DEF Elements
  <2>5. Elements(s) \subseteq Elements(s \o r) /\ Elements(r) \subseteq Elements(s \o r)
    BY <2>1, <2>2 DEF Elements
  <2> QED BY <2>4, <2>5
<1> QED BY <1>7, <1>8

-----------------------------------------------------------------------------
(* Counting in the batches of the loops.                                   *)

HeldBy(i, b, D) == UNION {{d} \X Copies(i, b[d]) : d \in D}

LEMMA HeldFinite ==
    ASSUME NEW S, NEW D, IsFiniteSet(D), NEW b \in [D -> Seq(S)], NEW i
    PROVE  IsFiniteSet(HeldBy(i, b, D)) /\ Cardinality(HeldBy(i, b, D)) \in Nat
<1> DEFINE mine(d) == {d} \X Copies(i, b[d])
           all == {mine(d) : d \in D}
           f == [d \in D |-> mine(d)]
<1>1. \A d \in D : IsFiniteSet(mine(d))
  <2> TAKE d \in D
  <2>1. IsFiniteSet(Copies(i, b[d]))
    BY CountFacts
  <2>2. IsFiniteSet({d})
    BY FS_Singleton
  <2> QED BY <2>1, <2>2, FS_Product
<1>2. f \in Surjection(D, all)
  BY DEF Surjection
<1>3. IsFiniteSet(all)
  <2> HIDE DEF f, all
  <2> QED BY <1>2, FS_Surjection
<1>4. \A T \in all : IsFiniteSet(T)
  <2> HIDE DEF mine
  <2> QED BY <1>1
<1>5. IsFiniteSet(UNION all)
  <2> HIDE DEF all
  <2> QED BY <1>3, <1>4, FS_UNION
<1>6. HeldBy(i, b, D) = UNION all
  BY DEF HeldBy
<1> QED BY <1>5, <1>6, FS_CardinalityType

\* The copies of one loop and those of the others.
LEMMA HeldSplit ==
    ASSUME NEW S, NEW b \in [Drainer -> Seq(S)], NEW d \in Drainer, NEW i
    PROVE  /\ Cardinality(HeldBy(i, b, Drainer \ {d})) \in Nat
           /\ Cardinality(HeldBy(i, b, Drainer)) = Occurrences(i, b[d]) + Cardinality(HeldBy(i, b, Drainer \ {d}))
<1> DEFINE rest == HeldBy(i, b, Drainer \ {d})
           mine == {d} \X Copies(i, b[d])
<1>1. IsFiniteSet(rest) /\ Cardinality(rest) \in Nat
  <2>1. IsFiniteSet(Drainer \ {d})
    BY DrainerAssumption, FS_RemoveElement
  <2> DEFINE c == [e \in Drainer \ {d} |-> b[e]]
  <2>2. c \in [Drainer \ {d} -> Seq(S)]
    OBVIOUS
  <2>3. HeldBy(i, c, Drainer \ {d}) = rest
    BY DEF HeldBy
  <2> HIDE DEF c, rest
  <2> QED BY <2>1, <2>2, <2>3, HeldFinite
<1>2. IsFiniteSet(mine) /\ Cardinality(mine) = Occurrences(i, b[d]) /\ Occurrences(i, b[d]) \in Nat
  <2>1. IsFiniteSet(Copies(i, b[d])) /\ Cardinality(Copies(i, b[d])) = Occurrences(i, b[d]) /\ Occurrences(i, b[d]) \in Nat
    BY CountFacts DEF Occurrences
  <2>2. IsFiniteSet({d}) /\ Cardinality({d}) = 1
    BY FS_Singleton
  <2>3. IsFiniteSet(mine) /\ Cardinality(mine) = 1 * Cardinality(Copies(i, b[d]))
    BY <2>1, <2>2, FS_Product
  <2> QED BY <2>1, <2>3
<1>3. mine \cap rest = {}
  BY DEF HeldBy
<1>4. HeldBy(i, b, Drainer) = mine \cup rest
  BY DEF HeldBy
<1> HIDE DEF mine, rest
<1>5. Cardinality(mine \cup rest) = Cardinality(mine) + Cardinality(rest) - Cardinality(mine \cap rest)
  BY <1>1, <1>2, FS_Union
<1>6. Cardinality(HeldBy(i, b, Drainer)) = Cardinality(mine) + Cardinality(rest)
  <2>1. Cardinality(mine \cap rest) = 0
    BY <1>3, FS_EmptySet
  <2>2. Cardinality(HeldBy(i, b, Drainer)) = Cardinality(mine \cup rest)
    BY <1>4
  <2> QED BY <1>1, <1>2, <1>5, <2>1, <2>2
<1> QED BY <1>1, <1>2, <1>6 DEF rest

-----------------------------------------------------------------------------
(* The places of an event.                                                 *)

LogTypeOK ==
    /\ users \subseteq User
    /\ records \in Seq(User \cup {Nobody}) /\ Len(records) <= MaxLogs
    /\ logQueue \in Seq(LogEvent)
    /\ logBatch \in [Drainer -> Seq(LogEvent)]
    /\ logRows \in [LogEvent -> Nat]
    /\ turn \in [Drainer -> {"logs", "tokens"}]
    /\ logLost \subseteq LogEvent /\ unsure \subseteq LogEvent

LogInv ==
    /\ LogTypeOK
    /\ EachEventInOnePlace
    /\ \A i \in LogEvent \ Recorded : Places(i) = 0

\* What a step may do to an event that is recorded, or that is not.
PlacesKept ==
    \A i \in LogEvent :
        /\ Places(i)' <= Places(i) \/ (i \in unsure' /\ Places(i) >= 1)
        /\ Places(i)' >= Places(i) \/ i \in logLost'

LEMMA RecordedType == LogTypeOK => Recorded \subseteq LogEvent /\ Recorded = 1 .. Len(records) /\ Len(records) \in 0 .. MaxLogs
<1> HAVE LogTypeOK
<1>1. Len(records) \in Nat /\ DOMAIN records = 1 .. Len(records)
  BY LenProperties DEF LogTypeOK
<1> QED BY <1>1, LogAssumption DEF LogTypeOK, Recorded, LogEvent

LEMMA PlacesType ==
    ASSUME LogTypeOK, NEW i \in LogEvent
    PROVE  /\ Places(i) = logRows[i] + Occurrences(i, logQueue) + Cardinality(HeldBy(i, logBatch, Drainer))
           /\ logRows[i] \in Nat /\ Occurrences(i, logQueue) \in Nat
           /\ Cardinality(HeldBy(i, logBatch, Drainer)) \in Nat
           /\ Places(i) \in Nat
<1>1. logRows[i] \in Nat /\ Occurrences(i, logQueue) \in Nat
  BY CountFacts DEF LogTypeOK
<1>2. Cardinality(HeldBy(i, logBatch, Drainer)) \in Nat
  BY HeldFinite, DrainerAssumption DEF LogTypeOK
<1>3. Places(i) = logRows[i] + Occurrences(i, logQueue) + Cardinality(HeldBy(i, logBatch, Drainer))
  BY DEF Places, Held, HeldBy
<1> QED BY <1>1, <1>2, <1>3

\* What a loop takes up or puts down is what the count of its copies changes by.
LEMMA LogHeldChange ==
    ASSUME LogTypeOK, NEW d \in Drainer, NEW x \in Seq(LogEvent), logBatch' = [logBatch EXCEPT ![d] = x],
           NEW i \in LogEvent
    PROVE  /\ Cardinality(HeldBy(i, logBatch, Drainer)) \in Nat
           /\ Cardinality(HeldBy(i, logBatch', Drainer)) \in Nat
           /\ Occurrences(i, x) \in Nat /\ Occurrences(i, logBatch[d]) \in Nat
           /\ Occurrences(i, logBatch[d]) <= Cardinality(HeldBy(i, logBatch, Drainer))
           /\ Cardinality(HeldBy(i, logBatch', Drainer)) + Occurrences(i, logBatch[d])
                  = Cardinality(HeldBy(i, logBatch, Drainer)) + Occurrences(i, x)
<1>1. /\ logBatch \in [Drainer -> Seq(LogEvent)] /\ logBatch' \in [Drainer -> Seq(LogEvent)]
      /\ logBatch'[d] = x /\ \A e \in Drainer \ {d} : logBatch'[e] = logBatch[e]
  BY DEF LogTypeOK
<1>2. HeldBy(i, logBatch', Drainer \ {d}) = HeldBy(i, logBatch, Drainer \ {d})
  BY <1>1 DEF HeldBy
<1>3. Cardinality(HeldBy(i, logBatch', Drainer)) = Occurrences(i, x) + Cardinality(HeldBy(i, logBatch', Drainer \ {d}))
  BY <1>1, HeldSplit
<1>4. /\ Cardinality(HeldBy(i, logBatch, Drainer \ {d})) \in Nat
      /\ Cardinality(HeldBy(i, logBatch, Drainer)) = Occurrences(i, logBatch[d]) + Cardinality(HeldBy(i, logBatch, Drainer \ {d}))
  BY <1>1, HeldSplit
<1>5. Occurrences(i, x) \in Nat /\ Occurrences(i, logBatch[d]) \in Nat
  BY <1>1, CountFacts
<1> QED BY <1>2, <1>3, <1>4, <1>5

LEMMA PlacesNext ==
    ASSUME NEW i
    PROVE  Places(i)' = logRows'[i] + Occurrences(i, logQueue') + Cardinality(HeldBy(i, logBatch', Drainer))
BY DEF Places, Held, HeldBy, Occurrences, Copies

LEMMA PlacesKeptInv ==
    ASSUME LogInv, LogTypeOK', PlacesKept, records' = records, logLost \subseteq logLost', unsure \subseteq unsure'
    PROVE  LogInv'
<1>1. Recorded \subseteq LogEvent /\ Recorded' = Recorded
  BY RecordedType DEF LogInv, Recorded
<1>2. \A i \in LogEvent : Places(i) \in Nat
  BY PlacesType DEF LogInv
<1>3. \A i \in LogEvent : Places(i)' \in Nat
  <2> TAKE i \in LogEvent
  <2>1. /\ logRows' \in [LogEvent -> Nat] /\ logQueue' \in Seq(LogEvent)
        /\ logBatch' \in [Drainer -> Seq(LogEvent)]
    BY DEF LogTypeOK
  <2>2. logRows'[i] \in Nat /\ Occurrences(i, logQueue') \in Nat
    BY <2>1, CountFacts
  <2>3. Cardinality(HeldBy(i, logBatch', Drainer)) \in Nat
    BY <2>1, HeldFinite, DrainerAssumption
  <2> QED BY <2>2, <2>3, PlacesNext
<1>4. ASSUME NEW i \in Recorded
      PROVE  /\ Places(i)' <= 1 \/ i \in unsure'
             /\ Places(i)' >= 1 \/ i \in logLost'
  BY <1>1, <1>2, <1>3, <1>4 DEF LogInv, EachEventInOnePlace, PlacesKept
<1>5. ASSUME NEW i \in LogEvent \ Recorded
      PROVE  Places(i)' = 0
  BY <1>1, <1>2, <1>3, <1>5 DEF LogInv, PlacesKept
<1> QED BY <1>1, <1>4, <1>5 DEF LogInv, EachEventInOnePlace

-----------------------------------------------------------------------------
(* What each step of the log half does to the places.                      *)

\* A step that moves no log, whatever it does to the token states.
LEMMA LogFrame ==
    ASSUME LogInv, UNCHANGED <<users, records, logQueue, logBatch, logRows, logLost, unsure>>,
           turn' \in [Drainer -> {"logs", "tokens"}]
    PROVE  LogInv'
<1>1. LogTypeOK'
  BY DEF LogInv, LogTypeOK
<1>2. \A i : Places(i)' = Places(i)
  BY DEF Places, Held, Occurrences, Copies
<1>3. \A i \in LogEvent : Places(i) \in Nat
  BY PlacesType DEF LogInv
<1>4. PlacesKept
  BY <1>2, <1>3 DEF PlacesKept
<1> QED BY <1>1, <1>4, PlacesKeptInv

LEMMA TurnToType ==
    ASSUME LogTypeOK, NEW d \in Drainer, NEW next \in {"logs", "tokens"}, TurnTo(d, next)
    PROVE  turn' \in [Drainer -> {"logs", "tokens"}]
BY DEF TurnTo, LogTypeOK

\* LPOP divides the queue.
LEMMA PopLogsType ==
    ASSUME LogTypeOK
    PROVE  /\ SubSeq(logQueue, 1, LogsPopped) \in Seq(LogEvent)
           /\ SubSeq(logQueue, LogsPopped + 1, Len(logQueue)) \in Seq(LogEvent)
           /\ logQueue = SubSeq(logQueue, 1, LogsPopped) \o SubSeq(logQueue, LogsPopped + 1, Len(logQueue))
<1>1. Len(logQueue) \in Nat /\ logQueue \in Seq(LogEvent) /\ LogBatchSize \in Nat
  BY LenProperties, LogAssumption DEF LogTypeOK
<1>2. LogsPopped \in 0 .. Len(logQueue) /\ LogsPopped \in Nat
  BY <1>1 DEF LogsPopped
<1>3. \A k \in 1 .. Len(logQueue) : logQueue[k] \in LogEvent
  BY <1>1, ElementOfSeq
<1>4. /\ SubSeq(logQueue, 1, LogsPopped) \in Seq(LogEvent)
      /\ SubSeq(logQueue, LogsPopped + 1, Len(logQueue)) \in Seq(LogEvent)
  BY <1>1, <1>2, <1>3, SubSeqProperties
<1>5. SubSeq(logQueue, 1, LogsPopped) \o SubSeq(logQueue, LogsPopped + 1, Len(logQueue))
          = SubSeq(logQueue, 1, Len(logQueue))
  <2>1. 1 \in 1 .. Len(logQueue) + 1 /\ LogsPopped \in (1 - 1) .. Len(logQueue) /\ Len(logQueue) \in LogsPopped .. Len(logQueue)
    BY <1>1, <1>2
  <2> QED BY <1>1, <2>1, ConcatAdjacentSubSeq
<1> QED BY <1>1, <1>4, <1>5, SubSeqFull

\* A recorded event is appended to the queue, or is a row at once.
LEMMA RecordLog ==
    ASSUME LogInv, NEW u \in User \cup {Nobody}, Record(u)
    PROVE  LogInv'
<1> DEFINE n == Len(records) + 1
<1>1. LogTypeOK /\ Recorded = 1 .. Len(records) /\ Len(records) \in 0 .. MaxLogs /\ Len(records) < MaxLogs
  BY RecordedType DEF LogInv, Record
<1>2. n \in LogEvent /\ n \notin Recorded /\ n \in Nat
  BY <1>1, LogAssumption DEF LogEvent
<1>3. /\ records' \in Seq(User \cup {Nobody}) /\ Len(records') = n
      /\ Recorded' = 1 .. n
  <2>1. records' = Append(records, u) /\ records \in Seq(User \cup {Nobody})
    BY <1>1 DEF Record, LogTypeOK
  <2>2. records' \in Seq(User \cup {Nobody}) /\ Len(records') = n
    BY <2>1, AppendProperties
  <2> QED BY <2>2, LenProperties DEF Recorded
<1>4. Places(n) = 0
  BY <1>2 DEF LogInv
<1>5. /\ Occurrences(n, <<n>>) = 1 /\ \A i \in LogEvent \ {n} : Occurrences(i, <<n>>) = 0
      /\ <<n>> \in Seq(LogEvent)
  <2>1. Copies(n, <<n>>) = {1} /\ \A i \in LogEvent \ {n} : Copies(i, <<n>>) = {}
    BY DEF Copies
  <2>2. Cardinality({1}) = 1 /\ Cardinality({}) = 0
    BY FS_Singleton, FS_EmptySet
  <2>3. <<n>> \in Seq(LogEvent)
    BY <1>2
  <2> QED BY <2>1, <2>2, <2>3 DEF Occurrences
<1>6. /\ logBatch' = logBatch
      /\ logQueue' \in Seq(LogEvent) /\ logRows' \in [LogEvent -> Nat]
      /\ \A i \in LogEvent : logRows'[i] + Occurrences(i, logQueue')
                                 = logRows[i] + Occurrences(i, logQueue) + IF i = n THEN 1 ELSE 0
  <2>0. logBatch' = logBatch
    BY DEF Record
  <2>t. logQueue \in Seq(LogEvent) /\ logRows \in [LogEvent -> Nat]
    BY <1>1 DEF LogTypeOK
  <2>n. \A i \in LogEvent : logRows[i] \in Nat /\ Occurrences(i, logQueue) \in Nat
    BY <1>1, PlacesType
  <2>1. CASE redisUp
    <3>1. logQueue' = Append(logQueue, n) /\ logRows' = logRows
      BY <2>1 DEF Record
    <3>2. logQueue' = logQueue \o <<n>> /\ logQueue' \in Seq(LogEvent)
      <4> HIDE DEF n
      <4> QED BY <1>2, <2>t, <3>1, AppendIsConcat, AppendProperties
    <3>3. \A i \in LogEvent : Occurrences(i, logQueue') = Occurrences(i, logQueue) + Occurrences(i, <<n>>)
      <4> HIDE DEF n
      <4> QED BY <1>5, <2>t, <3>2, CountJoin
    <3>4. \A i \in LogEvent : Occurrences(i, <<n>>) = IF i = n THEN 1 ELSE 0
      BY <1>5
    <3>5. \A i \in LogEvent : Occurrences(i, logQueue') \in Nat
      BY <3>2, CountFacts
    <3> HIDE DEF n
    <3>6. \A i \in LogEvent : logRows'[i] + Occurrences(i, logQueue')
                                 = logRows[i] + Occurrences(i, logQueue) + IF i = n THEN 1 ELSE 0
      BY <2>n, <3>1, <3>3, <3>4
    <3> QED BY <2>0, <2>t, <3>1, <3>2, <3>6
  <2>2. CASE ~redisUp
    <3>1. logQueue' = logQueue /\ logRows' = [logRows EXCEPT ![n] = 1]
      BY <2>2 DEF Record
    <3>2. logRows[n] = 0
      BY <1>1, <1>2, <1>4, PlacesType
    <3>3. \A i \in LogEvent : logRows'[i] = logRows[i] + IF i = n THEN 1 ELSE 0
      BY <1>2, <2>t, <3>1, <3>2
    <3> QED BY <1>2, <2>0, <2>t, <2>n, <3>1, <3>3
  <2> QED BY <2>1, <2>2
<1>7. \A i \in LogEvent : Places(i)' = Places(i) + IF i = n THEN 1 ELSE 0
  <2> TAKE i \in LogEvent
  <2>1. /\ Places(i) = logRows[i] + Occurrences(i, logQueue) + Cardinality(HeldBy(i, logBatch, Drainer))
        /\ logRows[i] \in Nat /\ Occurrences(i, logQueue) \in Nat
        /\ Cardinality(HeldBy(i, logBatch, Drainer)) \in Nat
    BY <1>1, PlacesType
  <2>2. Places(i)' = logRows'[i] + Occurrences(i, logQueue') + Cardinality(HeldBy(i, logBatch, Drainer))
    BY <1>6, PlacesNext
  <2> HIDE DEF n
  <2> QED BY <1>6, <2>1, <2>2
<1>8. UNCHANGED <<users, turn, logLost, unsure>>
  BY DEF Record
<1>9. LogTypeOK'
  <2>1. Len(records') <= MaxLogs
    BY <1>1, <1>3, LogAssumption
  <2> HIDE DEF n
  <2> QED BY <1>1, <1>3, <1>6, <1>8, <2>1 DEF LogTypeOK
<1>10. ASSUME NEW i \in Recorded'
       PROVE  /\ Places(i)' <= 1 \/ i \in unsure'
              /\ Places(i)' >= 1 \/ i \in logLost'
  <2>1. CASE i = n
    BY <1>2, <1>4, <1>7, <2>1
  <2>2. CASE i # n
    <3>1. i \in Recorded /\ i \in LogEvent
      BY <1>1, <1>2, <1>3, <1>10, <2>2, LogAssumption DEF LogEvent
    <3>2. Places(i)' = Places(i)
      BY <1>1, <1>7, <2>2, <3>1, PlacesType
    <3> QED BY <1>8, <3>1, <3>2 DEF LogInv, EachEventInOnePlace
  <2> QED BY <2>1, <2>2
<1>11. ASSUME NEW i \in LogEvent \ Recorded'
       PROVE  Places(i)' = 0
  <2>1. i \notin Recorded /\ i # n
    BY <1>1, <1>2, <1>3, <1>11
  <2>2. Places(i) = 0 /\ Places(i)' = Places(i) + 0
    BY <1>7, <1>11, <2>1 DEF LogInv
  <2> QED BY <2>2
<1> QED BY <1>9, <1>10, <1>11 DEF LogInv, EachEventInOnePlace

\* A user's row goes, no log moves.
LEMMA DeleteUserLog ==
    ASSUME LogInv, NEW u \in User, DeleteUser(u)
    PROVE  LogInv'
<1>1. /\ users' \subseteq users
      /\ UNCHANGED <<records, logQueue, logBatch, logRows, turn, logLost, unsure>>
  BY DEF DeleteUser
<1>2. LogTypeOK'
  BY <1>1 DEF LogInv, LogTypeOK
<1>3. \A i : Places(i)' = Places(i)
  BY <1>1 DEF Places, Held, Occurrences, Copies
<1>4. \A i \in LogEvent : Places(i) \in Nat
  BY PlacesType DEF LogInv
<1>5. PlacesKept
  BY <1>3, <1>4 DEF PlacesKept
<1> QED BY <1>1, <1>2, <1>5, PlacesKeptInv

LEMMA PopLogsLog ==
    ASSUME LogInv, NEW d \in Drainer, PopLogs(d)
    PROVE  LogInv'
<1> DEFINE h == SubSeq(logQueue, 1, LogsPopped)
           r == SubSeq(logQueue, LogsPopped + 1, Len(logQueue))
<1>1. /\ logBatch[d] = <<>>
      /\ logBatch' = [logBatch EXCEPT ![d] = h] /\ logQueue' = r
      /\ UNCHANGED <<users, records, logRows, turn, logLost, unsure>>
  BY DEF PopLogs, Holding
<1>2. h \in Seq(LogEvent) /\ r \in Seq(LogEvent) /\ logQueue = h \o r
  BY PopLogsType DEF LogInv
<1>t. logQueue \in Seq(LogEvent) /\ logBatch \in [Drainer -> Seq(LogEvent)]
  BY DEF LogInv, LogTypeOK
<1> HIDE DEF h, r
<1>3. LogTypeOK'
  BY <1>1, <1>2 DEF LogInv, LogTypeOK
<1>4. ASSUME NEW i \in LogEvent
      PROVE  Places(i)' = Places(i) /\ Places(i) \in Nat
  <2>1. Occurrences(i, logQueue) = Occurrences(i, h) + Occurrences(i, r)
    BY <1>2, CountJoin
  <2>2. Occurrences(i, h) \in Nat /\ Occurrences(i, r) \in Nat
    BY <1>2, CountFacts
  <2>3. Cardinality(HeldBy(i, logBatch', Drainer)) + Occurrences(i, <<>>)
            = Cardinality(HeldBy(i, logBatch, Drainer)) + Occurrences(i, h)
    BY <1>1, <1>2, LogHeldChange DEF LogInv
  <2>4. Occurrences(i, <<>>) = 0
    BY CountNone
  <2>5. Cardinality(HeldBy(i, logBatch', Drainer)) \in Nat
    BY <1>3, HeldFinite, DrainerAssumption DEF LogTypeOK
  <2>6. /\ Places(i) = logRows[i] + Occurrences(i, logQueue) + Cardinality(HeldBy(i, logBatch, Drainer))
        /\ logRows[i] \in Nat /\ Cardinality(HeldBy(i, logBatch, Drainer)) \in Nat /\ Places(i) \in Nat
    BY PlacesType DEF LogInv
  <2>7. Places(i)' = logRows[i] + Occurrences(i, r) + Cardinality(HeldBy(i, logBatch', Drainer))
    BY <1>1, PlacesNext
  <2> QED BY <2>1, <2>2, <2>3, <2>4, <2>5, <2>6, <2>7
<1>5. PlacesKept
  BY <1>4 DEF PlacesKept
<1> QED BY <1>1, <1>3, <1>5, PlacesKeptInv

\* LPOP took effect and its reply was lost.
LEMMA LogPopUnacknowledgedLog ==
    ASSUME LogInv, NEW d \in Drainer, LogPopUnacknowledged(d)
    PROVE  LogInv'
<1> DEFINE h == SubSeq(logQueue, 1, LogsPopped)
           r == SubSeq(logQueue, LogsPopped + 1, Len(logQueue))
<1>1. /\ logLost' = logLost \cup Elements(h) /\ logQueue' = r
      /\ UNCHANGED <<users, records, logBatch, logRows, unsure>>
  BY DEF LogPopUnacknowledged, LogFault
<1>0. turn' \in [Drainer -> {"logs", "tokens"}]
  BY TurnToType DEF LogPopUnacknowledged, AfterLogs, LogInv
<1>2. h \in Seq(LogEvent) /\ r \in Seq(LogEvent) /\ logQueue = h \o r
  BY PopLogsType DEF LogInv
<1> HIDE DEF h, r
<1>e. Elements(h) \subseteq LogEvent
  BY <1>2, ElementOfSeq, LenProperties DEF Elements
<1>3. LogTypeOK'
  BY <1>0, <1>1, <1>2, <1>e DEF LogInv, LogTypeOK
<1>4. ASSUME NEW i \in LogEvent
      PROVE  /\ Places(i)' <= Places(i)
             /\ Places(i)' >= Places(i) \/ i \in logLost'
  <2>1. Occurrences(i, logQueue) = Occurrences(i, h) + Occurrences(i, r)
    BY <1>2, CountJoin
  <2>2. Occurrences(i, h) \in Nat /\ Occurrences(i, r) \in Nat
    BY <1>2, CountFacts
  <2>3. Occurrences(i, h) = 0 \/ i \in logLost'
    BY <1>1, <1>2, CountFacts
  <2> QED BY <1>1, <2>1, <2>2, <2>3, PlacesType, PlacesNext DEF LogInv
<1>5. PlacesKept
  BY <1>4 DEF PlacesKept
<1> QED BY <1>1, <1>3, <1>5, PlacesKeptInv

\* requeue_access_logs moves a batch to the queue, or loses it.
LEMMA RequeueLogsPlaces ==
    ASSUME LogInv, NEW d \in Drainer, RequeueLogs(d)
    PROVE  /\ logQueue' \in Seq(LogEvent) /\ logBatch' \in [Drainer -> Seq(LogEvent)]
           /\ logLost \subseteq logLost' /\ logLost' \subseteq LogEvent
           /\ \A i \in LogEvent :
                 LET now == Occurrences(i, logQueue) + Cardinality(HeldBy(i, logBatch, Drainer))
                     next == Occurrences(i, logQueue') + Cardinality(HeldBy(i, logBatch', Drainer))
                 IN  /\ next \in Nat /\ next <= now
                     /\ next >= now \/ i \in logLost'
<1>t. logQueue \in Seq(LogEvent) /\ logBatch \in [Drainer -> Seq(LogEvent)] /\ logBatch[d] \in Seq(LogEvent)
      /\ logLost \subseteq LogEvent
  BY DEF LogInv, LogTypeOK
<1>1. logBatch' = [logBatch EXCEPT ![d] = <<>>] /\ logBatch' \in [Drainer -> Seq(LogEvent)]
  BY <1>t, EmptySeq DEF RequeueLogs
<1>2. Elements(logBatch[d]) \subseteq LogEvent
  BY <1>t, ElementOfSeq, LenProperties DEF Elements
<1>3. \A i \in LogEvent : /\ Cardinality(HeldBy(i, logBatch', Drainer)) + Occurrences(i, logBatch[d])
                                 = Cardinality(HeldBy(i, logBatch, Drainer))
                          /\ Cardinality(HeldBy(i, logBatch, Drainer)) \in Nat
                          /\ Cardinality(HeldBy(i, logBatch', Drainer)) \in Nat
                          /\ Occurrences(i, logBatch[d]) \in Nat /\ Occurrences(i, logQueue) \in Nat
                          /\ Occurrences(i, logBatch[d]) = 0 <=> i \notin Elements(logBatch[d])
  <2> TAKE i \in LogEvent
  <2>1. /\ Cardinality(HeldBy(i, logBatch, Drainer)) \in Nat
        /\ Cardinality(HeldBy(i, logBatch', Drainer)) + Occurrences(i, logBatch[d])
               = Cardinality(HeldBy(i, logBatch, Drainer)) + Occurrences(i, <<>>)
    BY <1>1, EmptySeq, LogHeldChange DEF LogInv
  <2>2. Occurrences(i, <<>>) = 0
    BY CountNone
  <2>3. Cardinality(HeldBy(i, logBatch', Drainer)) \in Nat
    BY <1>1, HeldFinite, DrainerAssumption
  <2>4. /\ Occurrences(i, logBatch[d]) \in Nat /\ Occurrences(i, logQueue) \in Nat
        /\ Occurrences(i, logBatch[d]) = 0 <=> i \notin Elements(logBatch[d])
    BY <1>t, CountFacts
  <2> QED BY <2>1, <2>2, <2>3, <2>4
<1>4. CASE redisUp
  <2>1. logQueue' = logQueue \o logBatch[d] /\ logLost' = logLost
    BY <1>4 DEF RequeueLogs
  <2>2. logQueue' \in Seq(LogEvent)
    BY <1>t, <2>1, ConcatProperties
  <2>3. \A i \in LogEvent : Occurrences(i, logQueue') = Occurrences(i, logQueue) + Occurrences(i, logBatch[d])
    BY <1>t, <2>1, CountJoin
  <2>4. \A i \in LogEvent :
            Occurrences(i, logQueue') + Cardinality(HeldBy(i, logBatch', Drainer))
                = Occurrences(i, logQueue) + Cardinality(HeldBy(i, logBatch, Drainer))
    BY <1>3, <2>3
  <2>5. \A i \in LogEvent : Occurrences(i, logQueue) + Cardinality(HeldBy(i, logBatch, Drainer)) \in Nat
    BY <1>3
  <2>6. ASSUME NEW i \in LogEvent
        PROVE  LET now == Occurrences(i, logQueue) + Cardinality(HeldBy(i, logBatch, Drainer))
                   next == Occurrences(i, logQueue') + Cardinality(HeldBy(i, logBatch', Drainer))
               IN  next \in Nat /\ next = now
    BY <2>4, <2>5
  <2>7. ASSUME NEW i \in LogEvent
        PROVE  LET now == Occurrences(i, logQueue) + Cardinality(HeldBy(i, logBatch, Drainer))
                   next == Occurrences(i, logQueue') + Cardinality(HeldBy(i, logBatch', Drainer))
               IN  next \in Nat /\ next <= now /\ (next >= now \/ i \in logLost')
    BY <2>6
  <2> QED BY <1>t, <1>1, <2>1, <2>2, <2>7
<1>5. CASE ~redisUp
  <2>1. logQueue' = logQueue /\ logLost' = logLost \cup Elements(logBatch[d])
    BY <1>5 DEF RequeueLogs
  <2>2. ASSUME NEW i \in LogEvent
        PROVE  /\ Cardinality(HeldBy(i, logBatch', Drainer)) <= Cardinality(HeldBy(i, logBatch, Drainer))
               /\ \/ Cardinality(HeldBy(i, logBatch', Drainer)) >= Cardinality(HeldBy(i, logBatch, Drainer))
                  \/ i \in logLost'
    BY <1>3, <2>1
  <2>3. ASSUME NEW i \in LogEvent
        PROVE  LET now == Occurrences(i, logQueue) + Cardinality(HeldBy(i, logBatch, Drainer))
                   next == Occurrences(i, logQueue') + Cardinality(HeldBy(i, logBatch', Drainer))
               IN  next \in Nat /\ next <= now /\ (next >= now \/ i \in logLost')
    <3>1. Occurrences(i, logQueue') = Occurrences(i, logQueue) /\ Occurrences(i, logQueue) \in Nat
      BY <1>3, <2>1
    <3> QED BY <1>3, <2>2, <3>1
  <2> QED BY <1>t, <1>1, <1>2, <2>1, <2>3
<1> QED BY <1>4, <1>5

\* A refused batch, or one that failed: its rows are rolled back.
LEMMA RequeueLogsLog ==
    ASSUME LogInv, NEW d \in Drainer, RequeueLogs(d), TurnTo(d, "logs"),
           UNCHANGED <<users, records, logRows, unsure>>
    PROVE  LogInv'
<1>1. LogTypeOK'
  BY RequeueLogsPlaces, TurnToType DEF LogInv, LogTypeOK
<1>2. PlacesKept
  <2>1. ASSUME NEW i \in LogEvent
        PROVE  /\ Places(i)' <= Places(i)
               /\ Places(i)' >= Places(i) \/ i \in logLost'
    <3> DEFINE now == Occurrences(i, logQueue) + Cardinality(HeldBy(i, logBatch, Drainer))
               next == Occurrences(i, logQueue') + Cardinality(HeldBy(i, logBatch', Drainer))
    <3>1. next \in Nat /\ next <= now /\ (next >= now \/ i \in logLost')
      BY RequeueLogsPlaces
    <3>2. /\ Places(i) = logRows[i] + Occurrences(i, logQueue) + Cardinality(HeldBy(i, logBatch, Drainer))
          /\ logRows[i] \in Nat /\ Occurrences(i, logQueue) \in Nat
          /\ Cardinality(HeldBy(i, logBatch, Drainer)) \in Nat
      BY PlacesType DEF LogInv
    <3>3. Places(i)' = logRows[i] + Occurrences(i, logQueue') + Cardinality(HeldBy(i, logBatch', Drainer))
      BY PlacesNext
    <3>4. Occurrences(i, logQueue') \in Nat /\ Cardinality(HeldBy(i, logBatch', Drainer)) \in Nat
      BY <1>1, CountFacts, HeldFinite, DrainerAssumption DEF LogTypeOK
    <3>5. Places(i) = logRows[i] + now /\ Places(i)' = logRows[i] + next /\ now \in Nat
      BY <3>2, <3>3, <3>4
    <3> HIDE DEF now, next
    <3> QED BY <3>1, <3>2, <3>5
  <2> QED BY <2>1 DEF PlacesKept
<1> QED BY <1>1, <1>2, RequeueLogsPlaces, PlacesKeptInv

\* The rows add_all makes.
LEMMA InsertedRows ==
    ASSUME LogInv, NEW d \in Drainer, logRows' = Inserted(logBatch[d])
    PROVE  /\ logRows' \in [LogEvent -> Nat]
           /\ \A i \in LogEvent : /\ logRows'[i] = logRows[i] + Occurrences(i, logBatch[d])
                                  /\ logRows[i] \in Nat /\ Occurrences(i, logBatch[d]) \in Nat
<1>1. logBatch[d] \in Seq(LogEvent) /\ logRows \in [LogEvent -> Nat]
  BY DEF LogInv, LogTypeOK
<1>2. \A i \in LogEvent : Occurrences(i, logBatch[d]) \in Nat
  BY <1>1, CountFacts
<1> QED BY <1>1, <1>2 DEF Inserted

LEMMA InsertLogsLog ==
    ASSUME LogInv, NEW d \in Drainer, InsertLogs(d)
    PROVE  LogInv'
<1>1. /\ logRows' = Inserted(logBatch[d]) /\ logBatch' = [logBatch EXCEPT ![d] = <<>>]
      /\ UNCHANGED <<users, records, logQueue, logLost, unsure>>
  BY DEF InsertLogs
<1>2. turn' \in [Drainer -> {"logs", "tokens"}]
  BY TurnToType DEF InsertLogs, AfterLogs, LogInv
<1>3. LogTypeOK'
  BY <1>1, <1>2, EmptySeq, InsertedRows DEF LogInv, LogTypeOK
<1>4. ASSUME NEW i \in LogEvent
      PROVE  Places(i)' = Places(i) /\ Places(i) \in Nat
  <2>1. Cardinality(HeldBy(i, logBatch', Drainer)) + Occurrences(i, logBatch[d])
            = Cardinality(HeldBy(i, logBatch, Drainer)) + Occurrences(i, <<>>)
    BY <1>1, EmptySeq, LogHeldChange DEF LogInv
  <2>2. Occurrences(i, <<>>) = 0
    BY CountNone
  <2>3. Cardinality(HeldBy(i, logBatch', Drainer)) \in Nat
    BY <1>3, HeldFinite, DrainerAssumption DEF LogTypeOK
  <2>4. logRows'[i] = logRows[i] + Occurrences(i, logBatch[d]) /\ Occurrences(i, logBatch[d]) \in Nat
    BY <1>1, InsertedRows
  <2>5. /\ Places(i) = logRows[i] + Occurrences(i, logQueue) + Cardinality(HeldBy(i, logBatch, Drainer))
        /\ logRows[i] \in Nat /\ Occurrences(i, logQueue) \in Nat
        /\ Cardinality(HeldBy(i, logBatch, Drainer)) \in Nat /\ Places(i) \in Nat
    BY PlacesType DEF LogInv
  <2>6. Places(i)' = logRows'[i] + Occurrences(i, logQueue) + Cardinality(HeldBy(i, logBatch', Drainer))
    BY <1>1, PlacesNext
  <2> QED BY <2>1, <2>2, <2>3, <2>4, <2>5, <2>6
<1>5. PlacesKept
  BY <1>4 DEF PlacesKept
<1> QED BY <1>1, <1>3, <1>5, PlacesKeptInv

\* The rows are there and the batch goes back: the events of the batch are
\* counted twice, and are unsure.
LEMMA LogCommitUnacknowledgedLog ==
    ASSUME LogInv, NEW d \in Drainer, LogCommitUnacknowledged(d)
    PROVE  LogInv'
<1>1. /\ logRows' = Inserted(logBatch[d]) /\ RequeueLogs(d) /\ TurnTo(d, "logs")
      /\ unsure' = unsure \cup Elements(logBatch[d])
      /\ UNCHANGED <<users, records>>
  BY DEF LogCommitUnacknowledged, LogFault
<1>t. logBatch[d] \in Seq(LogEvent) /\ unsure \subseteq LogEvent
  BY DEF LogInv, LogTypeOK
<1>2. Elements(logBatch[d]) \subseteq LogEvent
  BY <1>t, ElementOfSeq, LenProperties DEF Elements
<1>3. unsure' \subseteq LogEvent
  BY <1>1, <1>2, <1>t
<1>4. LogTypeOK'
  BY <1>1, <1>3, RequeueLogsPlaces, InsertedRows, TurnToType DEF LogInv, LogTypeOK
<1>5. ASSUME NEW i \in LogEvent
      PROVE  /\ Places(i)' <= Places(i) \/ (i \in unsure' /\ Places(i) >= 1)
             /\ Places(i)' >= Places(i) \/ i \in logLost'
  <2> DEFINE now == Occurrences(i, logQueue) + Cardinality(HeldBy(i, logBatch, Drainer))
             next == Occurrences(i, logQueue') + Cardinality(HeldBy(i, logBatch', Drainer))
  <2>1. next \in Nat /\ next <= now /\ (next >= now \/ i \in logLost')
    BY <1>1, RequeueLogsPlaces
  <2>2. /\ logRows'[i] = logRows[i] + Occurrences(i, logBatch[d])
        /\ logRows[i] \in Nat /\ Occurrences(i, logBatch[d]) \in Nat
    BY <1>1, InsertedRows
  <2>3. Occurrences(i, logBatch[d]) = 0 <=> i \notin Elements(logBatch[d])
    BY <1>t, CountFacts
  <2>4. Occurrences(i, logBatch[d]) <= Cardinality(HeldBy(i, logBatch, Drainer))
    BY <1>1, EmptySeq, LogHeldChange DEF LogInv, RequeueLogs
  <2>5. /\ Places(i) = logRows[i] + Occurrences(i, logQueue) + Cardinality(HeldBy(i, logBatch, Drainer))
        /\ Occurrences(i, logQueue) \in Nat /\ Cardinality(HeldBy(i, logBatch, Drainer)) \in Nat
    BY PlacesType DEF LogInv
  <2>6. Places(i)' = logRows'[i] + Occurrences(i, logQueue') + Cardinality(HeldBy(i, logBatch', Drainer))
    BY PlacesNext
  <2>c. Occurrences(i, logQueue') \in Nat /\ Cardinality(HeldBy(i, logBatch', Drainer)) \in Nat
    BY <1>4, CountFacts, HeldFinite, DrainerAssumption DEF LogTypeOK
  <2>7. CASE i \in Elements(logBatch[d])
    <3>1. i \in unsure' /\ Places(i) >= 1
      BY <1>1, <2>2, <2>3, <2>4, <2>5, <2>7
    <3>2. Places(i)' >= Places(i) \/ i \in logLost'
      BY <2>1, <2>2, <2>5, <2>6, <2>c
    <3> QED BY <3>1, <3>2
  <2>8. CASE i \notin Elements(logBatch[d])
    BY <2>1, <2>2, <2>3, <2>5, <2>6, <2>8, <2>c
  <2> QED BY <2>7, <2>8
<1>6. PlacesKept
  BY <1>5 DEF PlacesKept
<1> QED BY <1>1, <1>4, <1>6, RequeueLogsPlaces, PlacesKeptInv

\* The worker dies: what a loop had popped is lost.
LEMMA WorkerDiesLog ==
    ASSUME LogInv, WorkerDies
    PROVE  LogInv'
<1>1. /\ logLost' = logLost \cup UNION {Elements(logBatch[d]) : d \in Drainer}
      /\ logBatch' = [d \in Drainer |-> <<>>] /\ turn' = [d \in Drainer |-> "logs"]
      /\ UNCHANGED <<users, records, logQueue, logRows, unsure>>
  BY DEF WorkerDies
<1>t. logBatch \in [Drainer -> Seq(LogEvent)] /\ logLost \subseteq LogEvent
  BY DEF LogInv, LogTypeOK
<1>2. \A d \in Drainer : Elements(logBatch[d]) \subseteq LogEvent
  BY <1>t, ElementOfSeq, LenProperties DEF Elements
<1>3. LogTypeOK'
  BY <1>1, <1>2, EmptySeq DEF LogInv, LogTypeOK
<1>4. \A i : HeldBy(i, logBatch', Drainer) = {}
  BY <1>1, CountNone DEF HeldBy
<1>5. ASSUME NEW i \in LogEvent
      PROVE  /\ Places(i)' <= Places(i)
             /\ Places(i)' >= Places(i) \/ i \in logLost'
  <2>1. Cardinality(HeldBy(i, logBatch', Drainer)) = 0
    BY <1>4, FS_EmptySet
  <2>2. CASE \E d \in Drainer : i \in Elements(logBatch[d])
    <3>1. i \in logLost'
      BY <1>1, <2>2
    <3> QED BY <1>1, <2>1, <3>1, PlacesType, PlacesNext DEF LogInv
  <2>3. CASE \A d \in Drainer : i \notin Elements(logBatch[d])
    <3>1. \A d \in Drainer : Copies(i, logBatch[d]) = {}
      BY <1>t, <2>3 DEF Copies, Elements
    <3>2. HeldBy(i, logBatch, Drainer) = {}
      BY <3>1 DEF HeldBy
    <3>3. Cardinality(HeldBy(i, logBatch, Drainer)) = 0
      BY <3>2, FS_EmptySet
    <3> QED BY <1>1, <2>1, <3>3, PlacesType, PlacesNext DEF LogInv
  <2> QED BY <2>2, <2>3
<1>6. PlacesKept
  BY <1>5 DEF PlacesKept
<1> QED BY <1>1, <1>3, <1>6, PlacesKeptInv

-----------------------------------------------------------------------------
(* The two halves together.                                                *)

TurnInv == QueueTypeOK /\ LogInv

LEMMA TurnInitInv == TurnInit => TurnInv
<1> HAVE TurnInit
<1>1. QueueTypeOK
  BY QueueInitType DEF TurnInit, Init, RowStatus
<1>2. LogTypeOK
  BY EmptySeq, LogAssumption DEF TurnInit, LogTypeOK
<1>3. Recorded = {}
  BY DEF TurnInit, Recorded
<1>4. ASSUME NEW i \in LogEvent
      PROVE  Places(i) = 0
  <2>1. logRows[i] = 0 /\ Occurrences(i, logQueue) = 0
    BY CountNone DEF TurnInit
  <2>2. HeldBy(i, logBatch, Drainer) = {}
    BY CountNone DEF TurnInit, HeldBy
  <2>3. Cardinality(HeldBy(i, logBatch, Drainer)) = 0
    BY <2>2, FS_EmptySet
  <2> QED BY <1>2, <2>1, <2>3, PlacesType
<1> QED BY <1>1, <1>2, <1>3, <1>4 DEF TurnInv, LogInv, EachEventInOnePlace

\* The token half: what drains and answers leave well typed.
LEMMA PipelineType ==
    ASSUME QueueTypeOK,
           \/ \E t \in Token : CheckIn(t) \/ CheckOut(t)
           \/ \E d \in Drainer : Pop(d) \/ Flush(d)
    PROVE  QueueTypeOK'
<1>1. ASSUME NEW t \in Token, CheckIn(t) \/ CheckOut(t)
      PROVE  QueueTypeOK'
  <2>1. PICK to \in {"checked_in", "checked_out"} : Persist(t, to) /\ UNCHANGED netVars
    BY <1>1 DEF CheckIn, CheckOut, Answer
  <2> QED BY <2>1, PersistType
<1>2. ASSUME NEW d \in Drainer, Pop(d)
      PROVE  QueueTypeOK'
  BY <1>2, DequeueType DEF Pop
<1>3. ASSUME NEW d \in Drainer, Flush(d)
      PROVE  QueueTypeOK'
  BY <1>3, CommitBatchType DEF Flush
<1> QED BY <1>1, <1>2, <1>3

LEMMA TurnStepInv ==
    ASSUME TurnInv, NEW d \in Drainer, TurnStep(d)
    PROVE  TurnInv'
<1>1. CASE PopLogs(d) \/ InsertLogs(d)
  <2>1. UNCHANGED <<rowVars, pipeVars, netVars>>
    BY <1>1 DEF PopLogs, InsertLogs, pipelineVars
  <2> QED BY <1>1, <2>1, QueueFrame, PopLogsLog, InsertLogsLog DEF TurnInv
<1>2. CASE NoLogs(d)
  <2>1. UNCHANGED <<rowVars, pipeVars, netVars>> /\ UNCHANGED logVars /\ TurnTo(d, AfterLogs)
    BY <1>2 DEF NoLogs, pipelineVars
  <2>2. turn' \in [Drainer -> {"logs", "tokens"}]
    BY <2>1, TurnToType DEF AfterLogs, TurnInv, LogInv
  <2> QED BY <2>1, <2>2, QueueFrame, LogFrame DEF TurnInv, logVars
<1>3. CASE RefuseLogs(d)
  <2>1. UNCHANGED <<rowVars, pipeVars, netVars>>
    BY <1>3 DEF RefuseLogs, pipelineVars
  <2>2. RequeueLogs(d) /\ TurnTo(d, "logs") /\ UNCHANGED <<users, records, logRows, unsure>>
    BY <1>3 DEF RefuseLogs, Rollback
  <2> QED BY <2>1, <2>2, QueueFrame, RequeueLogsLog DEF TurnInv
<1>4. CASE PopTokens(d)
  <2>1. Pop(d) /\ UNCHANGED <<logVars, turn>>
    BY <1>4 DEF PopTokens
  <2>2. turn' \in [Drainer -> {"logs", "tokens"}]
    BY <2>1 DEF TurnInv, LogInv, LogTypeOK
  <2> QED BY <2>1, <2>2, PipelineType, LogFrame DEF TurnInv, logVars
<1>5. CASE NoTokens(d)
  <2>1. UNCHANGED <<rowVars, pipeVars, netVars>> /\ UNCHANGED logVars /\ TurnTo(d, "logs")
    BY <1>5 DEF NoTokens, pipelineVars
  <2>2. turn' \in [Drainer -> {"logs", "tokens"}]
    BY <2>1, TurnToType DEF TurnInv, LogInv
  <2> QED BY <2>1, <2>2, QueueFrame, LogFrame DEF TurnInv, logVars
<1>6. CASE FlushTokens(d)
  <2>1. Flush(d) /\ UNCHANGED logVars /\ TurnTo(d, "logs")
    BY <1>6 DEF FlushTokens
  <2>2. turn' \in [Drainer -> {"logs", "tokens"}]
    BY <2>1, TurnToType DEF TurnInv, LogInv
  <2> QED BY <2>1, <2>2, PipelineType, LogFrame DEF TurnInv, logVars
<1> QED BY <1>1, <1>2, <1>3, <1>4, <1>5, <1>6 DEF TurnStep

LEMMA LogFaultType ==
    ASSUME QueueTypeOK, LogFault
    PROVE  QueueTypeOK' /\ UNCHANGED <<users, records>>
<1>1. UNCHANGED <<status, used, redisUp, outages, queue, batch, lost, users, records>>
  BY DEF LogFault, rowVars, netVars
<1>2. faults' \in 0 .. MaxFaults
  BY BudgetAssumption DEF LogFault, QueueTypeOK
<1> QED BY <1>1, <1>2 DEF QueueTypeOK

LEMMA TurnFaultInv ==
    ASSUME TurnInv, NEW d \in Drainer,
           FailLogs(d) \/ LogCommitUnacknowledged(d) \/ LogPopUnacknowledged(d) \/ TokenFault(d)
    PROVE  TurnInv'
<1>1. CASE FailLogs(d)
  <2>1. LogFault /\ RequeueLogs(d) /\ TurnTo(d, "logs") /\ UNCHANGED <<logRows, unsure>>
    BY <1>1 DEF FailLogs, Rollback
  <2> QED BY <2>1, LogFaultType, RequeueLogsLog DEF TurnInv
<1>2. CASE LogCommitUnacknowledged(d)
  <2>1. LogFault
    BY <1>2 DEF LogCommitUnacknowledged
  <2> QED BY <1>2, <2>1, LogFaultType, LogCommitUnacknowledgedLog DEF TurnInv
<1>3. CASE LogPopUnacknowledged(d)
  <2>1. LogFault
    BY <1>3 DEF LogPopUnacknowledged
  <2> QED BY <1>3, <2>1, LogFaultType, LogPopUnacknowledgedLog DEF TurnInv
<1>4. CASE TokenFault(d)
  <2>1. DrainFault /\ TurnTo(d, "logs") /\ UNCHANGED netVars /\ UNCHANGED logVars
    BY <1>4 DEF TokenFault, DrainFault
  <2>2. turn' \in [Drainer -> {"logs", "tokens"}]
    BY <2>1, TurnToType DEF TurnInv, LogInv
  <2> QED BY <2>1, <2>2, DrainFaultType, LogFrame DEF TurnInv, logVars
<1> QED BY <1>1, <1>2, <1>3, <1>4

LEMMA WorkerDiesType ==
    ASSUME QueueTypeOK, WorkerDies
    PROVE  QueueTypeOK'
<1>1. UNCHANGED <<status, used, redisUp, outages, queue>>
  BY DEF WorkerDies, rowVars, netVars
<1>2. faults' \in 0 .. MaxFaults
  BY BudgetAssumption DEF WorkerDies, QueueTypeOK
<1>3. \A d \in Drainer : Mentioned(batch[d]) \subseteq Token
  BY MentionedType DEF QueueTypeOK
<1>4. lost' \subseteq Token /\ batch' \in [Drainer -> Seq(Event)]
  BY <1>3, EmptySeq DEF WorkerDies, QueueTypeOK
<1> QED BY <1>1, <1>2, <1>4 DEF QueueTypeOK

LEMMA TurnNextInv == TurnInv /\ [TurnNext]_turnVars => TurnInv'
<1> SUFFICES ASSUME TurnInv, [TurnNext]_turnVars PROVE TurnInv'
  OBVIOUS
<1>1. ASSUME NEW u \in User \cup {Nobody}, Record(u) PROVE TurnInv'
  <2>1. UNCHANGED <<rowVars, pipeVars, netVars>>
    BY <1>1 DEF Record, pipelineVars
  <2> QED BY <1>1, <2>1, QueueFrame, RecordLog DEF TurnInv
<1>2. ASSUME NEW u \in User, DeleteUser(u) PROVE TurnInv'
  <2>1. UNCHANGED <<rowVars, pipeVars, netVars>>
    BY <1>2 DEF DeleteUser, pipelineVars
  <2> QED BY <1>2, <2>1, QueueFrame, DeleteUserLog DEF TurnInv
<1>3. ASSUME NEW t \in Token, CheckIn(t) \/ CheckOut(t), UNCHANGED <<logVars, turn>>
      PROVE  TurnInv'
  <2>1. turn' \in [Drainer -> {"logs", "tokens"}]
    BY <1>3 DEF TurnInv, LogInv, LogTypeOK
  <2> QED BY <1>3, <2>1, PipelineType, LogFrame DEF TurnInv, logVars
<1>4. CASE WorkerDies
  BY <1>4, WorkerDiesType, WorkerDiesLog DEF TurnInv
<1>5. ASSUME Outage \/ Recovery PROVE TurnInv'
  <2>1. /\ RedisOutage \/ RedisRecovery
        /\ UNCHANGED <<rowVars, pipeVars>> /\ UNCHANGED <<logVars, turn>>
    BY <1>5 DEF Outage, Recovery
  <2>2. turn' \in [Drainer -> {"logs", "tokens"}]
    BY <2>1 DEF TurnInv, LogInv, LogTypeOK
  <2> QED BY <2>1, <2>2, RedisNetworkType, LogFrame DEF TurnInv, logVars
<1>6. CASE UNCHANGED turnVars
  <2>1. UNCHANGED <<rowVars, pipeVars, netVars>> /\ UNCHANGED logVars /\ UNCHANGED turn
    BY <1>6 DEF turnVars, pipelineVars
  <2>2. turn' \in [Drainer -> {"logs", "tokens"}]
    BY <2>1 DEF TurnInv, LogInv, LogTypeOK
  <2> QED BY <2>1, <2>2, QueueFrame, LogFrame DEF TurnInv, logVars
<1> QED BY <1>1, <1>2, <1>3, <1>4, <1>5, <1>6, TurnStepInv, TurnFaultInv DEF TurnNext

THEOREM TurnInvariance == TurnSpec => []TurnInv
BY TurnInitInv, TurnNextInv, PTL DEF TurnSpec

\* Queues, batches and rows keep their types through refused batches, lost
\* replies, outages and a worker that dies, whatever is queued.
THEOREM TurnTypeCorrect == TurnSpec => []TurnTypeOK
<1>1. TurnInv => TurnTypeOK
  BY DEF TurnInv, LogInv, LogTypeOK, TurnTypeOK
<1> QED BY <1>1, TurnInvariance, PTL

\* A recorded event is a row, or is queued, or is in one loop's batch, and is
\* so once: for any number of loops that drain the same list and any sizes of
\* batches, queues and budgets of faults (access_logs.py 80-124, redis.py
\* 534-578).
THEOREM EventsStayInOnePlace == TurnSpec => []EachEventInOnePlace
<1>1. TurnInv => EachEventInOnePlace
  BY DEF TurnInv, LogInv
<1> QED BY <1>1, TurnInvariance, PTL

\* The write-behind of token states is well typed while gate and drains take
\* turns.
THEOREM QueueTypeCorrect == Spec => []QueueTypeOK
<1>1. Init => QueueTypeOK
  BY QueueInitType DEF Init, RowStatus
<1>2. QueueTypeOK /\ [Next]_pipelineVars => QueueTypeOK'
  BY PipelineType, QueueFrame DEF Next, pipelineVars
<1> QED BY <1>1, <1>2, PTL DEF Spec

-----------------------------------------------------------------------------
(* One drainer mirrors the answers.                                        *)

\* What the row of t shows depends on the events before n only.
LEMMA StatusAfterSame ==
    ASSUME NEW n \in Nat, NEW s, NEW r, \A i \in 1 .. n : s[i] = r[i], NEW t
    PROVE  Mirror!StatusAfter(s, n, t) = Mirror!StatusAfter(r, n, t)
<1> DEFINE about(q) == {i \in 1 .. n : q[i].tok = t}
           last(q) == CHOOSE i \in about(q) : \A j \in about(q) : j <= i
<1>1. about(s) = about(r)
  OBVIOUS
<1>2. CASE about(s) = {}
  BY <1>1, <1>2 DEF Mirror!StatusAfter
<1>3. CASE about(s) # {}
  <2>1. \E i \in about(s) : \A j \in about(s) : j <= i
    <3>1. about(s) \subseteq 1 .. n
      OBVIOUS
    <3> HIDE DEF about
    <3> QED BY <1>3, <3>1, LastPosition
  <2>2. last(s) = last(r) /\ last(s) \in about(s)
    BY <1>1, <2>1
  <2>3. s[last(s)] = r[last(s)]
    BY <2>2
  <2>4. /\ Mirror!StatusAfter(s, n, t) = IF about(s) = {} THEN "pending" ELSE s[last(s)].to
        /\ Mirror!StatusAfter(r, n, t) = IF about(r) = {} THEN "pending" ELSE r[last(r)].to
    BY Zenon DEF Mirror!StatusAfter
  <2> HIDE DEF about, last
  <2> QED BY <1>1, <1>3, <2>2, <2>3, <2>4
<1> QED BY <1>2, <1>3

\* Events n + 1 .. n + Len(b) of s are b.
Follows(b, s, n) == \A k \in 1 .. Len(b) : s[n + k] = b[k]

\* The batch sets the rows to what the longer prefix makes of them.
LEMMA StatusAfterBatch ==
    ASSUME NEW b \in Seq(Event), NEW n \in Nat, NEW s, Follows(b, s, n), NEW m, m = n + Len(b), NEW t
    PROVE  Mirror!StatusAfter(s, m, t)
               = IF t \in Mentioned(b) THEN LastEventStatus(b, t) ELSE Mirror!StatusAfter(s, n, t)
<1> DEFINE about == {i \in 1 .. m : s[i].tok = t}
           before == {i \in 1 .. n : s[i].tok = t}
           inB == {k \in DOMAIN b : b[k].tok = t}
<1>1. /\ Len(b) \in Nat /\ DOMAIN b = 1 .. Len(b) /\ m \in Nat
      /\ \A k \in 1 .. Len(b) : s[n + k] = b[k]
  BY LenProperties DEF Follows
<1>2. CASE t \in Mentioned(b)
  <2>1. inB # {} /\ inB \subseteq 1 .. Len(b)
    BY <1>1, <1>2 DEF Mentioned
  <2>2. PICK k \in inB : \A j \in inB : j <= k
    <3> HIDE DEF inB
    <3> QED BY <1>1, <2>1, LastPosition
  <2>3. LastEventStatus(b, t) = b[k].to
    <3>1. k = CHOOSE i \in DOMAIN b : b[i].tok = t /\ \A j \in DOMAIN b : b[j].tok = t => j <= i
      <4>1. k \in DOMAIN b /\ b[k].tok = t /\ \A j \in DOMAIN b : b[j].tok = t => j <= k
        BY <2>2
      <4>2. ASSUME NEW i \in DOMAIN b, b[i].tok = t, \A j \in DOMAIN b : b[j].tok = t => j <= i
            PROVE  i = k
        <5>1. k <= i /\ i <= k /\ i \in Nat /\ k \in Nat
          BY <1>1, <4>1, <4>2
        <5> QED BY <5>1
      <4> QED BY <4>1, <4>2
    <3> QED BY <3>1 DEF LastEventStatus
  <2>4. n + k \in about /\ k \in 1 .. Len(b)
    BY <1>1, <2>2
  <2>5. \A j \in about : j <= n + k
    <3> TAKE j \in about
    <3>1. CASE j <= n
      BY <1>1, <2>4, <3>1
    <3>2. CASE ~(j <= n)
      <4>1. j - n \in 1 .. Len(b) /\ n + (j - n) = j
        BY <1>1, <3>2
      <4>2. j - n \in inB
        BY <1>1, <4>1
      <4>3. j - n <= k
        BY <2>2, <4>2
      <4> QED BY <1>1, <2>4, <4>1, <4>3
    <3> QED BY <3>1, <3>2
  <2>6. n + k = CHOOSE i \in about : \A j \in about : j <= i
    <3>1. ASSUME NEW i \in about, \A j \in about : j <= i
          PROVE  i = n + k
      <4>1. n + k <= i /\ i <= n + k /\ i \in Nat /\ n + k \in Nat
        BY <1>1, <2>4, <2>5, <3>1
      <4> QED BY <4>1
    <3> HIDE DEF about
    <3> QED BY <2>4, <2>5, <3>1
  <2>7. Mirror!StatusAfter(s, m, t) = s[n + k].to
    <3>1. about # {}
      BY <2>4
    <3> QED BY <2>6, <3>1 DEF Mirror!StatusAfter
  <2>8. s[n + k] = b[k]
    BY <1>1, <2>4
  <2> HIDE DEF about, inB
  <2> QED BY <1>2, <2>3, <2>7, <2>8
<1>3. CASE t \notin Mentioned(b)
  <2>1. \A k \in 1 .. Len(b) : s[n + k].tok # t
    BY <1>1, <1>3 DEF Mentioned
  <2>2. about = before
    <3>1. \A i \in about : i <= n
      <4> TAKE i \in about
      <4>1. ~(i <= n) => i - n \in 1 .. Len(b) /\ n + (i - n) = i
        BY <1>1
      <4> QED BY <1>1, <2>1, <4>1
    <3> QED BY <1>1, <3>1
  <2>3. Mirror!StatusAfter(s, m, t) = Mirror!StatusAfter(s, n, t)
    <3>1. /\ Mirror!StatusAfter(s, m, t) = IF about = {} THEN "pending" ELSE s[CHOOSE i \in about : \A j \in about : j <= i].to
          /\ Mirror!StatusAfter(s, n, t) = IF before = {} THEN "pending" ELSE s[CHOOSE i \in before : \A j \in before : j <= i].to
      BY Zenon DEF Mirror!StatusAfter
    <3> HIDE DEF about, before
    <3> QED BY <2>2, <3>1
  <2> QED BY <1>3, <2>3
<1> QED BY <1>2, <1>3

\* With one drainer d, and Redis there: what is answered and not applied is
\* d's batch followed by the queue, and the rows show what is applied.
Applied == Len(log) - Backlog

MirrorInv(d) ==
    /\ QueueTypeOK /\ redisUp
    /\ log \in Seq(Event)
    /\ Backlog = Len(queue) + Len(batch[d]) /\ Backlog <= Len(log)
    /\ \A k \in 1 .. Len(batch[d]) : log[Applied + k] = batch[d][k]
    /\ \A k \in 1 .. Len(queue) : log[Applied + Len(batch[d]) + k] = queue[k]
    /\ \A t \in Token : status[t] = Mirror!StatusAfter(log, Applied, t)

LEMMA BacklogOfOne ==
    ASSUME NEW d, Drainer = {d}, NEW b \in [Drainer -> Seq(Event)]
    PROVE  Cardinality(UNION {{e} \X DOMAIN b[e] : e \in Drainer}) = Len(b[d])
<1>1. UNION {{e} \X DOMAIN b[e] : e \in Drainer} = {d} \X DOMAIN b[d]
  OBVIOUS
<1>2. DOMAIN b[d] = 1 .. Len(b[d]) /\ Len(b[d]) \in Nat
  BY LenProperties
<1>3. IsFiniteSet(DOMAIN b[d]) /\ Cardinality(DOMAIN b[d]) = Len(b[d])
  <2>1. IsFiniteSet(1 .. Len(b[d])) /\ Cardinality(1 .. Len(b[d])) = IF 1 > Len(b[d]) THEN 0 ELSE Len(b[d]) - 1 + 1
    BY <1>2, FS_Interval
  <2> QED BY <1>2, <2>1
<1>4. IsFiniteSet({d}) /\ Cardinality({d}) = 1
  BY FS_Singleton
<1>5. Cardinality({d} \X DOMAIN b[d]) = 1 * Cardinality(DOMAIN b[d])
  BY <1>3, <1>4, FS_Product
<1>6. Cardinality({d} \X DOMAIN b[d]) = Len(b[d])
  BY <1>2, <1>3, <1>5
<1> QED BY <1>1, <1>6

LEMMA BacklogNow ==
    ASSUME NEW d, Drainer = {d}, QueueTypeOK
    PROVE  Backlog = Len(queue) + Len(batch[d])
BY BacklogOfOne DEF Backlog, InBatches, QueueTypeOK

LEMMA BacklogNext ==
    ASSUME NEW d, Drainer = {d}, QueueTypeOK'
    PROVE  Backlog' = Len(queue') + Len(batch'[d])
BY BacklogOfOne DEF Backlog, InBatches, QueueTypeOK

LEMMA MirrorInitInv ==
    ASSUME NEW d, Drainer = {d}, Init
    PROVE  MirrorInv(d) /\ Mirror!MirrorInit
<1>1. QueueTypeOK
  BY QueueInitType DEF Init, RowStatus
<1>2. log = <<>> /\ queue = <<>> /\ batch[d] = <<>> /\ redisUp /\ status = [t \in Token |-> "pending"]
  BY DEF Init, QueueInit
<1>3. Backlog = 0 /\ Len(log) = 0 /\ Len(queue) = 0 /\ Len(batch[d]) = 0 /\ log \in Seq(Event)
  BY <1>1, <1>2, BacklogNow, EmptySeq
<1>4. \A t : Mirror!StatusAfter(log, 0, t) = "pending"
  BY DEF Mirror!StatusAfter
<1>5. Applied = 0
  BY <1>3 DEF Applied
<1> QED BY <1>1, <1>2, <1>3, <1>4, <1>5 DEF MirrorInv, Mirror!MirrorInit, Applied

\* An answer is appended to both lists: the applied prefix is what it was.
LEMMA MirrorAnswer ==
    ASSUME NEW d, Drainer = {d}, MirrorInv(d),
           NEW t \in Token, NEW to \in {"checked_in", "checked_out"}, Answer(t, to)
    PROVE  MirrorInv(d)' /\ Mirror!Happen
<1> DEFINE e == [tok |-> t, to |-> to]
           b == batch[d]
           a == Applied
<1>1. QueueTypeOK'
  BY PersistType DEF Answer, MirrorInv
<1>2. /\ queue' = Append(queue, e) /\ log' = Append(log, e)
      /\ status' = status /\ batch' = batch /\ redisUp'
  BY DEF Answer, Persist, MirrorInv, rowVars, netVars
<1>3. /\ queue \in Seq(Event) /\ log \in Seq(Event) /\ b \in Seq(Event) /\ e \in Event
      /\ Len(queue) \in Nat /\ Len(log) \in Nat /\ Len(b) \in Nat
      /\ Backlog = Len(queue) + Len(b) /\ Backlog <= Len(log)
      /\ a = Len(log) - Backlog
  BY LenProperties DEF MirrorInv, QueueTypeOK, Event, Applied
<1>4. /\ \A k \in 1 .. Len(b) : log[a + k] = b[k]
      /\ \A k \in 1 .. Len(queue) : log[a + Len(b) + k] = queue[k]
      /\ \A u \in Token : status[u] = Mirror!StatusAfter(log, a, u)
  BY DEF MirrorInv
<1>5. Backlog' = Len(queue') + Len(b)
  BY <1>1, <1>2, BacklogNext
<1>a. Applied' = Len(log') - Backlog'
  BY DEF Applied
<1>b. MirrorInv(d)' <=>
        /\ QueueTypeOK' /\ redisUp' /\ log' \in Seq(Event)
        /\ Backlog' = Len(queue') + Len(b) /\ Backlog' <= Len(log')
        /\ \A k \in 1 .. Len(b) : log'[Applied' + k] = b[k]
        /\ \A k \in 1 .. Len(queue') : log'[Applied' + Len(b) + k] = queue'[k]
        /\ \A u \in Token : status[u] = Mirror!StatusAfter(log', Applied', u)
  BY <1>2 DEF MirrorInv, Mirror!StatusAfter
<1>h. Mirror!Happen <=>
        /\ \E u \in Token, v \in {"checked_in", "checked_out"} : log' = Append(log, [tok |-> u, to |-> v])
        /\ Applied' = Applied /\ status' = status
  BY DEF Mirror!Happen, Applied
<1>e. \E u \in Token, v \in {"checked_in", "checked_out"} : log' = Append(log, [tok |-> u, to |-> v])
  BY <1>2
<1> HIDE DEF e, b, a
<1>6. /\ Len(queue') = Len(queue) + 1 /\ Len(log') = Len(log) + 1 /\ log' \in Seq(Event)
      /\ \A k \in 1 .. Len(log) : log'[k] = log[k]
      /\ \A k \in 1 .. Len(queue) : queue'[k] = queue[k]
      /\ log'[Len(log) + 1] = e /\ queue'[Len(queue) + 1] = e
  BY <1>2, <1>3, AppendProperties
<1>7. Applied' = a /\ a \in 0 .. Len(log) /\ Backlog' <= Len(log')
  <2>1. Backlog \in Nat /\ Backlog' = Backlog + 1
    BY <1>3, <1>5, <1>6
  <2>2. Applied' = a
    BY <1>3, <1>6, <1>a, <2>1
  <2>3. a \in 0 .. Len(log)
    BY <1>3, <2>1
  <2> QED BY <1>3, <1>6, <2>1, <2>2, <2>3
<1>8. \A k \in 1 .. Len(b) : log'[a + k] = b[k]
  <2> TAKE k \in 1 .. Len(b)
  <2>1. a + k \in 1 .. Len(log)
    BY <1>3, <1>7
  <2> QED BY <1>4, <1>6, <2>1
<1>9. \A k \in 1 .. Len(queue') : log'[a + Len(b) + k] = queue'[k]
  <2> TAKE k \in 1 .. Len(queue')
  <2>1. CASE k = Len(queue) + 1
    <3>1. a + Len(b) + k = Len(log) + 1
      BY <1>3, <2>1
    <3> QED BY <1>6, <2>1, <3>1
  <2>2. CASE k # Len(queue) + 1
    <3>1. k \in 1 .. Len(queue) /\ a + Len(b) + k \in 1 .. Len(log)
      BY <1>3, <1>6, <1>7, <2>2
    <3> QED BY <1>4, <1>6, <3>1
  <2> QED BY <2>1, <2>2
<1>10. \A u \in Token : Mirror!StatusAfter(log', a, u) = Mirror!StatusAfter(log, a, u)
  <2>1. a \in Nat /\ \A i \in 1 .. a : log'[i] = log[i]
    BY <1>3, <1>6, <1>7
  <2> QED BY <2>1, StatusAfterSame
<1> QED BY <1>1, <1>2, <1>4, <1>5, <1>6, <1>7, <1>8, <1>9, <1>10, <1>b, <1>h, <1>e DEF a

\* A pop moves events from the queue to the batch: nothing is shown, nothing
\* is answered.
LEMMA MirrorPop ==
    ASSUME NEW d, Drainer = {d}, MirrorInv(d), Pop(d)
    PROVE  MirrorInv(d)' /\ UNCHANGED Mirror!mirrorVars
<1> DEFINE h == SubSeq(queue, 1, Popped)
           r == SubSeq(queue, Popped + 1, Len(queue))
           a == Applied
<1>1. QueueTypeOK'
  BY DequeueType DEF Pop, MirrorInv
<1>2. /\ batch[d] = <<>> /\ queue # <<>>
      /\ batch'[d] = h /\ queue' = r
      /\ log' = log /\ status' = status /\ redisUp'
  BY DEF Pop, Dequeue, MirrorInv, QueueTypeOK, netVars
<1>3. /\ queue \in Seq(Event) /\ Len(queue) \in Nat /\ Len(log) \in Nat /\ BatchSize \in Nat
      /\ Backlog = Len(queue) + Len(batch[d]) /\ Backlog <= Len(log)
      /\ a = Len(log) - Backlog /\ log \in Seq(Event)
  BY LenProperties, BatchAssumption DEF MirrorInv, QueueTypeOK, Applied
<1>p. Popped \in 0 .. Len(queue) /\ Popped \in Nat
  BY <1>3 DEF Popped
<1>4. /\ Len(h) = Popped /\ \A k \in 1 .. Popped : h[k] = queue[k]
      /\ Len(r) = Len(queue) - Popped /\ \A k \in 1 .. Len(queue) - Popped : r[k] = queue[Popped + k]
  BY <1>3, <1>p, SubSeqProperties
<1>5. Len(batch[d]) = 0
  BY <1>2
<1>6. Backlog' = Len(queue') + Len(batch'[d])
  BY <1>1, BacklogNext
<1>a. Applied' = Len(log') - Backlog'
  BY DEF Applied
<1>7. \A k \in 1 .. Len(queue) : log[a + k] = queue[k]
  <2>1. \A k \in 1 .. Len(queue) : log[Applied + Len(batch[d]) + k] = queue[k]
    BY DEF MirrorInv
  <2>2. a \in Int
    BY <1>3, <1>5
  <2> HIDE DEF a
  <2>3. a + Len(batch[d]) = a
    BY <1>5, <2>2
  <2> QED BY <2>1, <2>3 DEF a
<1>s. \A u \in Token : status[u] = Mirror!StatusAfter(log, a, u)
  BY DEF MirrorInv
<1>b. MirrorInv(d)' <=>
        /\ QueueTypeOK' /\ redisUp' /\ log' \in Seq(Event)
        /\ Backlog' = Len(queue') + Len(batch'[d]) /\ Backlog' <= Len(log')
        /\ \A k \in 1 .. Len(batch'[d]) : log'[Applied' + k] = batch'[d][k]
        /\ \A k \in 1 .. Len(queue') : log'[Applied' + Len(batch'[d]) + k] = queue'[k]
        /\ \A u \in Token : status'[u] = Mirror!StatusAfter(log', Applied', u)
  BY DEF MirrorInv, Mirror!StatusAfter
<1>m. UNCHANGED Mirror!mirrorVars <=> log' = log /\ Applied' = Applied /\ status' = status
  BY DEF Mirror!mirrorVars, Applied
<1> HIDE DEF h, r, a
<1>8. Backlog' = Backlog /\ Applied' = a /\ a \in Int
  <2>1. Backlog = Len(queue) /\ Backlog' = Len(queue)
    BY <1>2, <1>3, <1>4, <1>5, <1>6, <1>p
  <2> QED BY <1>2, <1>3, <1>a, <2>1
<1>9. \A k \in 1 .. Len(h) : log[a + k] = h[k]
  <2> TAKE k \in 1 .. Len(h)
  <2>1. k \in 1 .. Popped /\ k \in 1 .. Len(queue)
    BY <1>3, <1>4, <1>p
  <2> QED BY <1>4, <1>7, <2>1
<1>10. \A k \in 1 .. Len(r) : log[a + Len(h) + k] = r[k]
  <2> TAKE k \in 1 .. Len(r)
  <2>1. Popped + k \in 1 .. Len(queue) /\ a + (Popped + k) = a + Popped + k /\ k \in 1 .. Len(queue) - Popped
    BY <1>3, <1>4, <1>8, <1>p
  <2> QED BY <1>4, <1>7, <2>1
<1>11. MirrorInv(d)'
  BY <1>1, <1>2, <1>3, <1>6, <1>8, <1>9, <1>10, <1>b, <1>s
<1> QED BY <1>2, <1>8, <1>11, <1>m DEF a

\* A committed batch shows the next events, all of them.
LEMMA MirrorFlush ==
    ASSUME NEW d, Drainer = {d}, MirrorInv(d), Flush(d)
    PROVE  MirrorInv(d)' /\ Mirror!Show
<1> DEFINE b == batch[d]
           a == Applied
<1>1. QueueTypeOK'
  BY CommitBatchType DEF Flush, MirrorInv
<1>2. /\ b # <<>> /\ batch'[d] = <<>> /\ queue' = queue
      /\ log' = log /\ redisUp' /\ ApplyBatch(b)
  BY DEF Flush, CommitBatch, MirrorInv, QueueTypeOK, netVars
<1>3. /\ b \in Seq(Event) /\ Len(b) \in Nat /\ Len(queue) \in Nat /\ Len(log) \in Nat
      /\ Backlog = Len(queue) + Len(b) /\ Backlog <= Len(log)
      /\ a = Len(log) - Backlog /\ log \in Seq(Event)
  BY LenProperties DEF MirrorInv, QueueTypeOK, Applied
<1>4. /\ \A k \in 1 .. Len(b) : log[a + k] = b[k]
      /\ \A k \in 1 .. Len(queue) : log[a + Len(b) + k] = queue[k]
      /\ \A u \in Token : status[u] = Mirror!StatusAfter(log, a, u)
  BY DEF MirrorInv
<1>5. Len(b) # 0
  BY <1>2, <1>3, EmptySeq
<1>6. Backlog' = Len(queue') + Len(batch'[d])
  BY <1>1, BacklogNext
<1>a. Applied' = Len(log') - Backlog'
  BY DEF Applied
<1>t. status' = [u \in Token |-> IF u \in Mentioned(b) THEN LastEventStatus(b, u) ELSE status[u]]
  BY <1>2 DEF ApplyBatch
<1>b. MirrorInv(d)' <=>
        /\ QueueTypeOK' /\ redisUp' /\ log' \in Seq(Event)
        /\ Backlog' = Len(queue') + Len(batch'[d]) /\ Backlog' <= Len(log')
        /\ \A k \in 1 .. Len(batch'[d]) : log'[Applied' + k] = batch'[d][k]
        /\ \A k \in 1 .. Len(queue') : log'[Applied' + Len(batch'[d]) + k] = queue'[k]
        /\ \A u \in Token : status'[u] = Mirror!StatusAfter(log', Applied', u)
  BY DEF MirrorInv, Mirror!StatusAfter
<1>m. Mirror!Show <=>
        /\ Applied' \in Applied + 1 .. Len(log)
        /\ status' = [u \in Token |-> Mirror!StatusAfter(log, Applied', u)]
        /\ log' = log
  BY DEF Mirror!Show, Applied, Mirror!StatusAfter
<1>7. Len(batch'[d]) = 0
  BY <1>2
<1> HIDE DEF b
<1>8. /\ a \in Nat /\ Applied' = a + Len(b) /\ Backlog' = Len(queue)
      /\ Applied' \in a + 1 .. Len(log) /\ Backlog' <= Len(log')
  <2> HIDE DEF a
  <2>1. Backlog \in Nat /\ Backlog' = Len(queue)
    BY <1>2, <1>3, <1>6, <1>7
  <2>2. a \in Nat /\ Applied' = a + Len(b)
    BY <1>2, <1>3, <1>a, <2>1
  <2> QED BY <1>2, <1>3, <1>5, <2>1, <2>2
<1>9. \A u \in Token : status'[u] = Mirror!StatusAfter(log, a + Len(b), u)
  <2> HIDE DEF a
  <2> TAKE u \in Token
  <2>1. Mirror!StatusAfter(log, a + Len(b), u)
            = IF u \in Mentioned(b) THEN LastEventStatus(b, u) ELSE Mirror!StatusAfter(log, a, u)
    <3>1. b \in Seq(Event) /\ a \in Nat /\ Follows(b, log, a)
      BY <1>3, <1>4, <1>8 DEF Follows
    <3> QED BY <3>1, StatusAfterBatch
  <2> QED BY <1>4, <1>t, <2>1
<1> HIDE DEF a
<1>10. \A k \in 1 .. Len(queue) : log[Applied' + 0 + k] = queue[k]
  BY <1>3, <1>4, <1>8
<1>11. MirrorInv(d)'
  BY <1>1, <1>2, <1>3, <1>6, <1>7, <1>8, <1>9, <1>10, <1>b
<1>12. status' = [u \in Token |-> Mirror!StatusAfter(log, Applied', u)]
  BY <1>8, <1>9, <1>t
<1> QED BY <1>2, <1>8, <1>11, <1>12, <1>m DEF a

LEMMA MirrorStep ==
    ASSUME NEW d, Drainer = {d}, MirrorInv(d), [Next]_pipelineVars
    PROVE  MirrorInv(d)' /\ [Mirror!MirrorNext]_(Mirror!mirrorVars)
<1>1. ASSUME NEW t \in Token, CheckIn(t) \/ CheckOut(t)
      PROVE  MirrorInv(d)' /\ Mirror!Happen
  <2>1. PICK to \in {"checked_in", "checked_out"} : Answer(t, to)
    BY <1>1 DEF CheckIn, CheckOut
  <2> QED BY <2>1, MirrorAnswer
<1>2. CASE UNCHANGED pipelineVars
  <2>1. UNCHANGED <<rowVars, pipeVars, netVars>> /\ UNCHANGED <<status, queue, batch, redisUp, log>>
    BY <1>2 DEF pipelineVars, rowVars, pipeVars, netVars
  <2>2. QueueTypeOK'
    BY <2>1, QueueFrame DEF MirrorInv
  <2>3. Backlog' = Backlog
    BY <2>1 DEF Backlog, InBatches
  <2>a. Applied' = Applied
    BY <2>1, <2>3 DEF Applied
  <2>b. MirrorInv(d)' <=>
          /\ QueueTypeOK' /\ redisUp' /\ log' \in Seq(Event)
          /\ Backlog' = Len(queue') + Len(batch'[d]) /\ Backlog' <= Len(log')
          /\ \A k \in 1 .. Len(batch'[d]) : log'[Applied' + k] = batch'[d][k]
          /\ \A k \in 1 .. Len(queue') : log'[Applied' + Len(batch'[d]) + k] = queue'[k]
          /\ \A u \in Token : status'[u] = Mirror!StatusAfter(log', Applied', u)
    BY DEF MirrorInv, Mirror!StatusAfter
  <2>4. MirrorInv(d)'
    BY <2>1, <2>2, <2>3, <2>a, <2>b DEF MirrorInv
  <2>5. UNCHANGED Mirror!mirrorVars
    BY <2>1, <2>3 DEF Mirror!mirrorVars
  <2> QED BY <2>4, <2>5
<1> QED BY <1>1, <1>2, MirrorPop, MirrorFlush DEF Next, Mirror!MirrorNext

\* With one drainer and no fault the queue, the batches and their coalescing
\* show nothing but prefixes of the answers, each longer than the one before:
\* the write-behind implements RowMirror step by step, for any number of
\* passes and any batch size (token_state.py 146-233, worker.py 40-49).
THEOREM RowsMirrorAnswersSafely ==
    ASSUME NEW d, Drainer = {d}
    PROVE  Spec => Mirror!MirrorSafety
<1>1. Init => MirrorInv(d) /\ Mirror!MirrorInit
  BY MirrorInitInv
<1>2. MirrorInv(d) /\ [Next]_pipelineVars => MirrorInv(d)' /\ [Mirror!MirrorNext]_(Mirror!mirrorVars)
  BY MirrorStep
<1> QED BY <1>1, <1>2, PTL DEF Spec, Mirror!MirrorSafety
=============================================================================
