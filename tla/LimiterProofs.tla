----------------------------- MODULE LimiterProofs -----------------------------
(***************************************************************************)
(* Proofs about Limiter: while Redis answers, a client gets no more        *)
(* failures, or tokens, than the limit and the requests under way.         *)
(***************************************************************************)
EXTENDS Limiter, FiniteSetTheorems, SequenceTheorems, TLAPS

-----------------------------------------------------------------------------
(* What a request may still have to do.                                    *)

LockoutCalls ==
    {<<>>, <<"blocked", "verify">>, <<"verify">>, <<"reset">>, <<"incr">>, <<"expire">>,
     <<"expire", "block", "clear">>, <<"block", "clear">>, <<"clear">>}

ThrottleCalls == {<<>>, <<"incr">>, <<"expire">>}

Calls == IF limiter = "lockout" THEN LockoutCalls ELSE ThrottleCalls

CallsFit == \A p \in Request : todo[p] \in Calls

\* What the INCR of a failure leads to, by the count it found.
LEMMA AfterIncrement ==
    ASSUME NEW n \in Nat
    PROVE  LET calls == (IF Expires(n) THEN <<"expire">> ELSE <<>>)
                        \o (IF n >= MaxFailures THEN LockOut ELSE <<>>)
           IN  /\ calls \in LockoutCalls
               /\ n >= MaxFailures => calls \in {<<"expire", "block", "clear">>, <<"block", "clear">>}
               /\ calls # <<"clear">> /\ calls # <<"verify">>
<1>1. /\ <<"expire">> \o <<"block", "clear">> = <<"expire", "block", "clear">>
      /\ <<>> \o <<"block", "clear">> = <<"block", "clear">>
      /\ <<"expire">> \o <<>> = <<"expire">>
      /\ <<>> \o <<>> = <<>>
  <2>1. <<"expire">> \in Seq(Command)
    BY DEF Command
  <2>2. <<"block", "clear">> \in Seq(Command)
    BY DEF Command
  <2>3. <<>> \in Seq(Command)
    OBVIOUS
  <2>4. <<"expire">> \o <<"block", "clear">> = <<"expire", "block", "clear">>
    <3> DEFINE s == <<"expire">>  t == <<"block", "clear">>  u == <<"expire", "block", "clear">>
    <3>1. u \in Seq(Command)
      BY DEF Command
    <3>2. Len(s) = 1 /\ Len(t) = 2 /\ Len(u) = 3
      OBVIOUS
    <3>3. s[1] = "expire" /\ t[1] = "block" /\ t[2] = "clear" /\ u[1] = "expire" /\ u[2] = "block" /\ u[3] = "clear"
      OBVIOUS
    <3> HIDE DEF s, t, u
    <3>4. /\ s \o t \in Seq(Command)
          /\ Len(s \o t) = 3
          /\ \A i \in 1 .. 3 : (s \o t)[i] = IF i <= 1 THEN s[i] ELSE t[i - 1]
      BY <2>1, <2>2, <3>2, ConcatProperties, SMT DEF s, t
    <3>5. \A i \in 1 .. 3 : (s \o t)[i] = u[i]
      BY <3>3, <3>4, SMT
    <3>6. s \o t = u
      BY <3>1, <3>2, <3>4, <3>5, SeqEqual
    <3> QED BY <3>6 DEF s, t, u
  <2> QED BY <2>1, <2>2, <2>3, <2>4, ConcatEmptySeq
<1>2. /\ <<"expire", "block", "clear">> # <<"clear">> /\ <<"block", "clear">> # <<"clear">>
      /\ <<"expire">> # <<"clear">> /\ <<>> # <<"clear">>
      /\ <<"expire", "block", "clear">> # <<"verify">> /\ <<"block", "clear">> # <<"verify">>
      /\ <<"expire">> # <<"verify">> /\ <<>> # <<"verify">>
  OBVIOUS
<1> QED BY <1>1, <1>2, Zenon DEF LockOut, LockoutCalls

LEMMA CallsAreSequences == LockoutCalls \subseteq Seq(Command) /\ ThrottleCalls \subseteq LockoutCalls
<1>1. /\ <<>> \in Seq(Command)
      /\ <<"blocked", "verify">> \in Seq(Command)
      /\ <<"verify">> \in Seq(Command)
      /\ <<"reset">> \in Seq(Command)
      /\ <<"incr">> \in Seq(Command)
  BY DEF Command
<1>2. /\ <<"expire">> \in Seq(Command)
      /\ <<"expire", "block", "clear">> \in Seq(Command)
      /\ <<"block", "clear">> \in Seq(Command)
      /\ <<"clear">> \in Seq(Command)
  BY DEF Command
<1> QED BY <1>1, <1>2, Zenon DEF LockoutCalls, ThrottleCalls

\* The next command says which list it is, and so what is left of it.
LEMMA NextCommand ==
    ASSUME NEW s \in LockoutCalls, s # <<>>
    PROVE  /\ Head(s) = "blocked" => s = <<"blocked", "verify">> /\ Tail(s) = <<"verify">>
           /\ Head(s) = "verify"  => s = <<"verify">>
           /\ Head(s) = "reset"   => s = <<"reset">> /\ Tail(s) = <<>>
           /\ Head(s) = "incr"    => s = <<"incr">>
           /\ Head(s) = "expire"  => \/ s = <<"expire">> /\ Tail(s) = <<>>
                                     \/ s = <<"expire", "block", "clear">> /\ Tail(s) = <<"block", "clear">>
           /\ Head(s) = "block"   => s = <<"block", "clear">> /\ Tail(s) = <<"clear">>
           /\ Head(s) = "clear"   => s = <<"clear">> /\ Tail(s) = <<>>
<1>1. /\ Head(<<"blocked", "verify">>) = "blocked" /\ Tail(<<"blocked", "verify">>) = <<"verify">>
      /\ Head(<<"verify">>) = "verify"
      /\ Head(<<"reset">>) = "reset" /\ Tail(<<"reset">>) = <<>>
      /\ Head(<<"incr">>) = "incr"
  OBVIOUS
<1>2. Head(<<"expire">>) = "expire" /\ Tail(<<"expire">>) = <<>>
  OBVIOUS
<1>3. /\ Head(<<"expire", "block", "clear">>) = "expire"
      /\ Tail(<<"expire", "block", "clear">>) = <<"block", "clear">>
  OBVIOUS
<1>4. Head(<<"block", "clear">>) = "block" /\ Tail(<<"block", "clear">>) = <<"clear">>
  OBVIOUS
<1>5. Head(<<"clear">>) = "clear" /\ Tail(<<"clear">>) = <<>>
  OBVIOUS
<1> QED BY <1>1, <1>2, <1>3, <1>4, <1>5, Zenon DEF LockoutCalls

-----------------------------------------------------------------------------
(* Counting requests.                                                      *)

\* Requests that may still fail.
Trying == {p \in Request : todo[p] = <<"verify">>}

\* Requests whose failure is not counted, or has reached the limit and is yet
\* to lock the client out.
Failed == {p \in Request : todo[p] \in {<<"incr">>, <<"expire", "block", "clear">>, <<"block", "clear">>}}

\* Sets of requests are finite, and two disjoint ones are no more than all.
LEMMA Counts ==
    ASSUME NEW S \in SUBSET Request, NEW T \in SUBSET Request
    PROVE  /\ IsFiniteSet(S)
           /\ Cardinality(S) \in Nat /\ Cardinality(S) <= Cardinality(Request)
           /\ Cardinality(Request) \in Nat
           /\ S \cap T = {} => Cardinality(S) + Cardinality(T) <= Cardinality(Request)
           /\ S \subseteq T => Cardinality(S) <= Cardinality(T)
           /\ \A p \in Request : S \subseteq T \cup {p} => Cardinality(S) <= Cardinality(T) + 1
           /\ \A p \in S : T \subseteq S \ {p} => Cardinality(T) <= Cardinality(S) - 1
<1>1. IsFiniteSet(S) /\ IsFiniteSet(T) /\ IsFiniteSet(S \cup T) /\ IsFiniteSet(Request)
  BY RequestAssumption, FS_Subset, S \cup T \in SUBSET Request
<1>2. /\ Cardinality(S) \in Nat /\ Cardinality(T) \in Nat /\ Cardinality(Request) \in Nat
      /\ Cardinality(S \cup T) \in Nat
  BY <1>1, FS_CardinalityType
<1>3. Cardinality(S) <= Cardinality(Request) /\ Cardinality(S \cup T) <= Cardinality(Request)
  BY <1>1, FS_Subset, S \cup T \in SUBSET Request
<1>4. S \cap T = {} => Cardinality(S) + Cardinality(T) <= Cardinality(Request)
  <2> HAVE S \cap T = {}
  <2>1. Cardinality(S \cup T) = Cardinality(S) + Cardinality(T) - Cardinality({})
    BY <1>1, FS_Union, S \cap T = {}
  <2> QED BY <2>1, <1>2, <1>3, FS_EmptySet
<1>5. S \subseteq T => Cardinality(S) <= Cardinality(T)
  BY <1>1, FS_Subset
<1>6. \A p \in Request : S \subseteq T \cup {p} => Cardinality(S) <= Cardinality(T) + 1
  <2> TAKE p \in Request
  <2> HAVE S \subseteq T \cup {p}
  <2>1. IsFiniteSet(T \cup {p}) /\ Cardinality(T \cup {p}) <= Cardinality(T) + 1
    BY <1>1, <1>2, FS_AddElement
  <2>2. Cardinality(S) <= Cardinality(T \cup {p})
    BY <2>1, FS_Subset
  <2>3. Cardinality(T \cup {p}) \in Nat
    BY <2>1, FS_CardinalityType
  <2> QED BY <2>1, <2>2, <2>3, <1>2
<1>7. \A p \in S : T \subseteq S \ {p} => Cardinality(T) <= Cardinality(S) - 1
  <2> TAKE p \in S
  <2> HAVE T \subseteq S \ {p}
  <2>1. IsFiniteSet(S \ {p}) /\ Cardinality(S \ {p}) = Cardinality(S) - 1
    BY <1>1, FS_RemoveElement
  <2> QED BY <2>1, FS_Subset
<1> QED BY <1>1, <1>2, <1>3, <1>4, <1>5, <1>6, <1>7

-----------------------------------------------------------------------------
(* The inductive invariant.                                                *)

\* A client is blocked while the request that blocked it has the counter still
\* to clear: a request sees one tick, and a block lasts two.
BlockLasts ==
    \A p \in Request :
        todo[p] = <<"clear">> => blocked >= (IF p \in late THEN Block - 1 ELSE Block)

UpUnlessOutage == outages = 0 => redisUp

\* Tokens made are counted before they are made.
MadeAreCounted == limiter = "throttle" => streak <= counter.n /\ streak <= MaxMade

\* Before a lockout a failure is in the counter, with its request or gone with
\* a crash, and the counter's last one is with a request.
FailuresAreCounted ==
    limiter = "lockout" /\ blocked = 0 =>
        /\ streak <= counter.n + Cardinality(Failed) + crashes
        /\ streak <= MaxFailures - 1 + Cardinality(Failed) + crashes

\* During a lockout only those fail that had seen no block.
LockoutHolds ==
    limiter = "lockout" /\ blocked > 0 => streak + Cardinality(Trying) <= Bound + crashes

Counted == outages = 0 => MadeAreCounted /\ FailuresAreCounted /\ LockoutHolds

LimiterInv == TypeOK /\ CallsFit /\ BlockLasts /\ UpUnlessOutage /\ Counted

-----------------------------------------------------------------------------
(* Steps of requests.                                                      *)

FailedCalls == {<<"incr">>, <<"expire", "block", "clear">>, <<"block", "clear">>}

\* A request that goes on moves itself only, in and out of the counted sets.
LEMMA GotoMoves ==
    ASSUME TypeOK, CallsFit, NEW p \in Request, NEW calls \in Calls, limiter' = limiter, Goto(p, calls)
    PROVE  /\ todo' \in [Request -> Seq(Command)] /\ late' \subseteq Request
           /\ CallsFit'
           /\ todo'[p] = calls /\ \A q \in Request \ {p} : todo'[q] = todo[q] /\ (q \in late' <=> q \in late)
           /\ p \in late' => p \in late
           /\ calls = <<"verify">> => Trying' \subseteq Trying \cup {p}
           /\ calls # <<"verify">> => Trying' = Trying \ {p}
           /\ calls \in FailedCalls => Failed' = Failed \cup {p}
           /\ calls \notin FailedCalls => Failed' = Failed \ {p}
<1>1. calls \in Seq(Command) /\ Calls' = Calls
  BY CallsAreSequences, Zenon DEF Calls
<1>2. todo' = [todo EXCEPT ![p] = calls] /\ todo \in [Request -> Seq(Command)] /\ late \subseteq Request
  BY DEF Goto, TypeOK
<1>3. todo' \in [Request -> Seq(Command)] /\ todo'[p] = calls /\ \A q \in Request \ {p} : todo'[q] = todo[q]
  BY <1>1, <1>2
<1>4. late' \subseteq late /\ \A q \in Request \ {p} : (q \in late' <=> q \in late)
  BY DEF Goto
<1>5. CallsFit'
  BY <1>1, <1>3 DEF CallsFit
<1>6. /\ calls = <<"verify">> => Trying' \subseteq Trying \cup {p}
      /\ calls # <<"verify">> => Trying' = Trying \ {p}
  BY <1>3 DEF Trying
<1>7. /\ calls \in FailedCalls => Failed' = Failed \cup {p}
      /\ calls \notin FailedCalls => Failed' = Failed \ {p}
  BY <1>3, Zenon DEF Failed, FailedCalls
<1> QED BY <1>2, <1>3, <1>4, <1>5, <1>6, <1>7

\* A block that is not shortened outlasts who set it.
LEMMA GotoKeepsBlock ==
    ASSUME TypeOK, CallsFit, BlockLasts, NEW p \in Request, NEW calls \in Calls, limiter' = limiter, Goto(p, calls),
           blocked' \in Int, blocked' >= blocked, calls = <<"clear">> => blocked' = Block
    PROVE  BlockLasts'
<1>1. /\ todo'[p] = calls /\ \A q \in Request \ {p} : todo'[q] = todo[q] /\ (q \in late' <=> q \in late)
  BY GotoMoves
<1>2. blocked \in Int /\ Block \in Nat
  BY TimeAssumption DEF TypeOK
<1> SUFFICES ASSUME NEW q \in Request, todo'[q] = <<"clear">>
             PROVE  blocked' >= (IF q \in late' THEN Block - 1 ELSE Block)
  BY DEF BlockLasts
<1>3. CASE q = p
  BY <1>1, <1>2, <1>3
<1>4. CASE q # p
  <2>1. blocked >= (IF q \in late THEN Block - 1 ELSE Block)
    BY <1>1, <1>4 DEF BlockLasts
  <2> QED BY <2>1, <1>1, <1>2, <1>4
<1> QED BY <1>3, <1>4

\* The list a request is at, by its next command.
LEMMA AtCalls ==
    ASSUME CallsFit, NEW p \in Request
    PROVE  /\ <<>> \in Calls
           /\ At(p, "blocked") => todo[p] = <<"blocked", "verify">> /\ Tail(todo[p]) = <<"verify">> /\ <<"verify">> \in Calls
           /\ At(p, "verify")  => todo[p] = <<"verify">> /\ <<"reset">> \in Calls /\ <<"incr">> \in Calls
           /\ At(p, "reset")   => todo[p] = <<"reset">> /\ Tail(todo[p]) = <<>>
           /\ At(p, "incr")    => todo[p] = <<"incr">>
           /\ At(p, "expire")  => /\ Tail(todo[p]) \in Calls /\ Tail(todo[p]) # <<"clear">> /\ Tail(todo[p]) # <<"verify">>
                                  /\ \/ todo[p] = <<"expire">> /\ Tail(todo[p]) = <<>>
                                     \/ todo[p] = <<"expire", "block", "clear">> /\ Tail(todo[p]) = <<"block", "clear">>
           /\ At(p, "block")   => todo[p] = <<"block", "clear">> /\ Tail(todo[p]) = <<"clear">> /\ <<"clear">> \in Calls
           /\ At(p, "clear")   => todo[p] = <<"clear">> /\ Tail(todo[p]) = <<>>
           /\ At(p, "blocked") \/ At(p, "verify") \/ At(p, "reset") \/ At(p, "block") \/ At(p, "clear") => limiter = "lockout"
<1>1. todo[p] \in Calls /\ todo[p] \in LockoutCalls
  BY CallsAreSequences DEF Calls, CallsFit
<1>2. \A command : At(p, command) => todo[p] # <<>> /\ Head(todo[p]) = command
  BY DEF At
<1>3. limiter # "lockout" => todo[p] \in ThrottleCalls
  BY DEF Calls, CallsFit
<1>4. Head(<<"incr">>) = "incr" /\ Head(<<"expire">>) = "expire"
  OBVIOUS
<1>5. At(p, "blocked") \/ At(p, "verify") \/ At(p, "reset") \/ At(p, "block") \/ At(p, "clear") => limiter = "lockout"
  <2> SUFFICES ASSUME limiter # "lockout", todo[p] # <<>>
               PROVE  Head(todo[p]) = "incr" \/ Head(todo[p]) = "expire"
    BY <1>2
  <2>1. todo[p] = <<"incr">> \/ todo[p] = <<"expire">>
    BY <1>3 DEF ThrottleCalls
  <2> QED BY <2>1, <1>4
<1>6. <<>> \in Calls /\ (limiter = "lockout" => Calls = LockoutCalls)
  BY Zenon DEF Calls, LockoutCalls, ThrottleCalls
<1>7. <<"block", "clear">> # <<"clear">> /\ <<>> # <<"clear">> /\ <<"block", "clear">> # <<"verify">> /\ <<>> # <<"verify">>
  OBVIOUS
<1>8. todo[p] = <<"expire", "block", "clear">> => limiter = "lockout"
  <2>1. <<"expire", "block", "clear">> \notin ThrottleCalls
    BY DEF ThrottleCalls
  <2> QED BY <2>1, <1>3
<1>9. /\ <<"verify">> \in LockoutCalls /\ <<"reset">> \in LockoutCalls /\ <<"incr">> \in LockoutCalls
      /\ <<"block", "clear">> \in LockoutCalls /\ <<"clear">> \in LockoutCalls
  BY Zenon DEF LockoutCalls
<1>10. At(p, "expire") => /\ Tail(todo[p]) \in Calls /\ Tail(todo[p]) # <<"clear">> /\ Tail(todo[p]) # <<"verify">>
                           /\ \/ todo[p] = <<"expire">> /\ Tail(todo[p]) = <<>>
                              \/ todo[p] = <<"expire", "block", "clear">> /\ Tail(todo[p]) = <<"block", "clear">>
  <2> HAVE At(p, "expire")
  <2>1. \/ todo[p] = <<"expire">> /\ Tail(todo[p]) = <<>>
        \/ todo[p] = <<"expire", "block", "clear">> /\ Tail(todo[p]) = <<"block", "clear">>
    BY <1>1, <1>2, NextCommand
  <2> QED BY <2>1, <1>6, <1>7, <1>8, <1>9
<1>11. /\ At(p, "blocked") => todo[p] = <<"blocked", "verify">> /\ Tail(todo[p]) = <<"verify">>
       /\ At(p, "verify")  => todo[p] = <<"verify">>
       /\ At(p, "reset")   => todo[p] = <<"reset">> /\ Tail(todo[p]) = <<>>
       /\ At(p, "incr")    => todo[p] = <<"incr">>
       /\ At(p, "block")   => todo[p] = <<"block", "clear">> /\ Tail(todo[p]) = <<"clear">>
       /\ At(p, "clear")   => todo[p] = <<"clear">> /\ Tail(todo[p]) = <<>>
  BY <1>1, <1>2, NextCommand
<1> QED BY <1>5, <1>6, <1>9, <1>10, <1>11

-----------------------------------------------------------------------------
(* Every step keeps the types and the calls.                               *)

Typed == TypeOK /\ CallsFit /\ BlockLasts /\ UpUnlessOutage

LEMMA CounterSteps ==
    ASSUME TypeOK
    PROVE  /\ Limit \in Nat /\ Limit >= 1 /\ NoCounter \in Counter(Limit)
           /\ Incremented(counter) \in Counter(Limit) /\ Incremented(counter).n \in Nat
           /\ Incremented(counter).n = (IF counter.n > Limit THEN counter.n ELSE counter.n + 1)
           /\ WithTTL(counter) \in Counter(Limit) /\ WithTTL(counter).n = counter.n
           /\ Aged(counter) \in Counter(Limit)
           /\ counter.ttl # 1 => Aged(counter).n = counter.n
           /\ counter.n \in Nat /\ counter.n <= Limit + 1 /\ counter.ttl \in 0 .. Window
           /\ NoCounter.n = 0
<1>1. Limit \in Nat /\ Limit >= 1
  BY LimitAssumption DEF Limit
<1>2. PICK n \in 0 .. Limit + 1, ttl \in 0 .. Window : counter = [n |-> n, ttl |-> ttl]
  BY DEF TypeOK, Counter
<1>3. Window \in Nat
  BY TimeAssumption
<1>4. NoCounter \in Counter(Limit) /\ NoCounter.n = 0
  BY <1>1, <1>3 DEF Counter, NoCounter
<1>5. Incremented(counter) = [n |-> IF n > Limit THEN n ELSE n + 1, ttl |-> ttl]
  BY <1>2 DEF Incremented
<1>6. WithTTL(counter) = [n |-> n, ttl |-> IF n > 0 THEN Window ELSE ttl]
  BY <1>2 DEF WithTTL
<1>7. Aged(counter) = IF ttl = 1 THEN NoCounter ELSE [n |-> n, ttl |-> IF ttl = 0 THEN 0 ELSE ttl - 1]
  BY <1>2 DEF Aged
<1>8. (IF n > Limit THEN n ELSE n + 1) \in 0 .. Limit + 1
  BY <1>1
<1>9. (IF n > 0 THEN Window ELSE ttl) \in 0 .. Window /\ (ttl # 1 => (IF ttl = 0 THEN 0 ELSE ttl - 1) \in 0 .. Window)
  BY <1>3
<1>10. Incremented(counter) \in Counter(Limit) /\ WithTTL(counter) \in Counter(Limit) /\ Aged(counter) \in Counter(Limit)
  BY <1>4, <1>5, <1>6, <1>7, <1>8, <1>9 DEF Counter
<1> QED BY <1>1, <1>2, <1>4, <1>5, <1>6, <1>7, <1>8, <1>10

LEMMA StreakSteps ==
    ASSUME TypeOK
    PROVE  /\ Bound \in Nat /\ Ceiling \in Nat /\ Cardinality(Request) \in Nat
           /\ OneMore \in 0 .. Ceiling /\ OneMore <= streak + 1 /\ 0 \in 0 .. Ceiling
           /\ limiter = "lockout" => Bound = MaxFailures + Cardinality(Request) - 1
           /\ limiter = "throttle" => Bound = MaxMade
           /\ streak \in Nat
<1>1. Cardinality(Request) \in Nat
  BY RequestAssumption, FS_CardinalityType
<1>2. Bound \in Nat /\ Ceiling \in Nat
  BY <1>1, LimitAssumption, TimeAssumption DEF Bound, Ceiling
<1>3. streak \in 0 .. Ceiling
  BY DEF TypeOK
<1> QED BY <1>1, <1>2, <1>3 DEF OneMore, Bound

LEMMA GotoKeepsTypes ==
    ASSUME Typed, NEW p \in Request, NEW calls \in Calls, Goto(p, calls),
           limiter' = limiter, redisUp' = redisUp, outages' = outages, ageless' \in BOOLEAN,
           counter' \in Counter(Limit), streak' \in 0 .. Ceiling,
           blocked' \in 0 .. Block, blocked' >= blocked, calls = <<"clear">> => blocked' = Block,
           crashes' \in Nat, outages + crashes' <= MaxFaults
    PROVE  Typed'
<1>1. /\ Limit' = Limit /\ Ceiling' = Ceiling
  BY DEF Limit, Ceiling, Bound
<1>2. todo' \in [Request -> Seq(Command)] /\ late' \subseteq Request /\ CallsFit'
  BY GotoMoves DEF Typed
<1>3. BlockLasts'
  BY GotoKeepsBlock, TimeAssumption DEF Typed
<1>4. TypeOK'
  BY <1>1, <1>2 DEF Typed, TypeOK, Counter
<1>5. UpUnlessOutage'
  BY DEF Typed, UpUnlessOutage
<1> QED BY <1>2, <1>3, <1>4, <1>5 DEF Typed

LEMMA RequestKeepsTypes ==
    ASSUME Typed, NEW p \in Request, StartAttempt(p) \/ StartMaking(p) \/ RequestStep(p) \/ Crash(p)
    PROVE  Typed'
<1>0. /\ blocked \in 0 .. Block /\ Block \in Nat /\ ageless \in BOOLEAN /\ redisUp \in BOOLEAN
      /\ counter \in Counter(Limit) /\ streak \in 0 .. Ceiling
      /\ outages \in Nat /\ crashes \in Nat /\ outages + crashes <= MaxFaults
      /\ OneMore \in 0 .. Ceiling /\ 0 \in 0 .. Ceiling /\ NoCounter \in Counter(Limit)
      /\ Incremented(counter) \in Counter(Limit) /\ WithTTL(counter) \in Counter(Limit)
      /\ Incremented(counter).n \in Nat
  BY TimeAssumption, CounterSteps, StreakSteps DEF TypeOK, Typed
<1>a. /\ <<>> \in Calls /\ <<>> # <<"clear">>
      /\ <<"verify">> # <<"clear">> /\ <<"reset">> # <<"clear">> /\ <<"incr">> # <<"clear">>
      /\ <<"blocked", "verify">> # <<"clear">> /\ <<"expire">> # <<"clear">>
  BY DEF Calls, LockoutCalls, ThrottleCalls
<1>b. CallsFit
  BY DEF Typed
<1>1. CASE StartAttempt(p)
  <2>1. Goto(p, <<"blocked", "verify">>) /\ <<"blocked", "verify">> \in Calls
    BY <1>1, Zenon DEF StartAttempt, Calls, LockoutCalls
  <2> QED BY <1>1, <1>0, <1>a, <2>1, GotoKeepsTypes DEF StartAttempt
<1>2. CASE StartMaking(p)
  <2>1. Goto(p, <<"incr">>) /\ <<"incr">> \in Calls
    BY <1>2, Zenon DEF StartMaking, Calls, LockoutCalls, ThrottleCalls
  <2> QED BY <1>2, <1>0, <1>a, <2>1, GotoKeepsTypes DEF StartMaking
<1>3. CASE CheckBlocked(p)
  <2>1. PICK calls \in {<<>>, <<"verify">>} : Goto(p, calls) /\ calls \in Calls
    BY <1>3, <1>a, <1>b, AtCalls DEF CheckBlocked, Proceed
  <2>2. blocked' = blocked
    BY <1>3 DEF CheckBlocked, BlockLeft
  <2> QED BY <1>3, <1>0, <1>a, <2>1, <2>2, GotoKeepsTypes DEF CheckBlocked
<1>4. CASE Succeed(p)
  <2>1. Goto(p, <<"reset">>) /\ <<"reset">> \in Calls
    BY <1>4, <1>b, AtCalls DEF Succeed
  <2> QED BY <1>4, <1>0, <1>a, <2>1, GotoKeepsTypes DEF Succeed
<1>5. CASE Fail(p)
  <2>1. Goto(p, <<"incr">>) /\ <<"incr">> \in Calls
    BY <1>5, <1>b, AtCalls DEF Fail
  <2> QED BY <1>5, <1>0, <1>a, <2>1, GotoKeepsTypes DEF Fail
<1>6. CASE Abort(p)
  <2>1. PICK calls : Goto(p, calls) /\ calls \in Calls /\ calls # <<"clear">>
    BY <1>6, <1>a DEF Abort
  <2> QED BY <1>6, <1>0, <2>1, GotoKeepsTypes DEF Abort
<1>7. CASE Reset(p)
  <2>1. PICK calls : Goto(p, calls) /\ calls \in Calls /\ calls # <<"clear">>
    BY <1>7, <1>a, <1>b, AtCalls DEF Reset, Proceed
  <2>2. counter' \in Counter(Limit) /\ streak' \in 0 .. Ceiling
    BY <1>7, <1>0 DEF Reset
  <2> QED BY <1>7, <1>0, <1>a, <2>1, <2>2, GotoKeepsTypes DEF Reset
<1>8. CASE CountFailure(p)
  <2>1. limiter = "lockout" /\ Calls = LockoutCalls
    BY <1>8 DEF CountFailure, Calls
  <2>2. PICK calls : Goto(p, calls) /\ calls \in Calls /\ calls # <<"clear">>
    BY <1>8, <1>0, <1>a, <2>1, AfterIncrement DEF CountFailure
  <2>3. counter' \in Counter(Limit)
    BY <1>8, <1>0 DEF CountFailure
  <2> QED BY <1>8, <1>0, <2>2, <2>3, GotoKeepsTypes DEF CountFailure
<1>9. CASE Expire(p)
  <2>1. PICK calls : Goto(p, calls) /\ calls \in Calls /\ calls # <<"clear">>
    BY <1>9, <1>a, <1>b, AtCalls DEF Expire, Proceed
  <2>2. counter' \in Counter(Limit) /\ ageless' \in BOOLEAN
    BY <1>9, <1>0 DEF Expire
  <2> QED BY <1>9, <1>0, <2>1, <2>2, GotoKeepsTypes DEF Expire
<1>10. CASE SetBlock(p)
  <2>1. CASE redisUp
    <3>1. blocked' = Block /\ Goto(p, <<"clear">>) /\ <<"clear">> \in Calls
      BY <1>10, <1>b, <2>1, AtCalls, Zenon DEF SetBlock, Proceed
    <3>2. blocked' \in 0 .. Block /\ blocked' >= blocked
      BY <1>0, <3>1
    <3> QED BY <1>10, <1>0, <3>1, <3>2, GotoKeepsTypes DEF SetBlock
  <2>2. CASE ~redisUp
    <3>1. PICK calls : Goto(p, calls) /\ calls \in Calls /\ calls # <<"clear">>
      BY <1>10, <1>a, <2>2 DEF SetBlock
    <3>2. blocked' = blocked
      BY <1>10, <2>2 DEF SetBlock
    <3> QED BY <1>10, <1>0, <3>1, <3>2, GotoKeepsTypes DEF SetBlock
  <2> QED BY <2>1, <2>2
<1>11. CASE ClearFailures(p)
  <2>1. PICK calls : Goto(p, calls) /\ calls \in Calls /\ calls # <<"clear">>
    BY <1>11, <1>a, <1>b, AtCalls DEF ClearFailures, Proceed
  <2>2. counter' \in Counter(Limit)
    BY <1>11, <1>0 DEF ClearFailures
  <2> QED BY <1>11, <1>0, <1>a, <2>1, <2>2, GotoKeepsTypes DEF ClearFailures
<1>12. CASE CountMade(p)
  <2>1. PICK calls : Goto(p, calls) /\ calls \in Calls /\ calls # <<"clear">>
    BY <1>12, <1>a, Zenon DEF CountMade, Calls, ThrottleCalls
  <2>2. counter' \in Counter(Limit) /\ streak' \in 0 .. Ceiling
    BY <1>12, <1>0 DEF CountMade
  <2> QED BY <1>12, <1>0, <2>1, <2>2, GotoKeepsTypes DEF CountMade
<1>13. CASE Crash(p)
  <2>0. PICK calls : Goto(p, calls) /\ calls \in Calls /\ calls # <<"clear">>
    BY <1>13, <1>a DEF Crash
  <2>1. ageless' \in BOOLEAN
    BY <1>13 DEF Crash
  <2>2. crashes' \in Nat /\ outages + crashes' <= MaxFaults
    BY <1>13, <1>0, TimeAssumption DEF Crash
  <2> QED BY <1>13, <1>0, <2>0, <2>1, <2>2, GotoKeepsTypes DEF Crash
<1> QED BY <1>1, <1>2, <1>3, <1>4, <1>5, <1>6, <1>7, <1>8, <1>9, <1>10, <1>11, <1>12, <1>13 DEF RequestStep

LEMMA NextKeepsTypes == Typed /\ [Next]_vars => Typed'
<1> SUFFICES ASSUME Typed, [Next]_vars PROVE Typed'
  OBVIOUS
<1>0. /\ blocked \in 0 .. Block /\ Block \in Nat /\ Block > 1 /\ ageless \in BOOLEAN /\ redisUp \in BOOLEAN
      /\ counter \in Counter(Limit) /\ streak \in 0 .. Ceiling /\ 0 \in 0 .. Ceiling
      /\ outages \in Nat /\ crashes \in Nat /\ outages + crashes <= MaxFaults
      /\ Aged(counter) \in Counter(Limit)
  BY TimeAssumption, CounterSteps, StreakSteps DEF TypeOK, Typed
<1>1. CASE \E p \in Request : StartAttempt(p) \/ StartMaking(p) \/ RequestStep(p) \/ Crash(p)
  BY <1>1, RequestKeepsTypes
<1>a. limiter' = limiter => Limit' = Limit /\ Ceiling' = Ceiling
  BY DEF Limit, Ceiling, Bound
<1>2. CASE Tick
  <2>1. limiter' = limiter /\ todo' = todo /\ late' \subseteq Request
    BY <1>2 DEF Tick
  <2>2. counter' \in Counter(Limit) /\ streak' \in 0 .. Ceiling /\ blocked' \in 0 .. Block
    BY <1>2, <1>0 DEF Tick
  <2>3. TypeOK'
    BY <1>2, <1>0, <1>a, <2>1, <2>2 DEF Tick, TypeOK, Typed, Counter
  <2>4. CallsFit' /\ UpUnlessOutage'
    BY <1>2, <2>1 DEF Tick, Typed, CallsFit, Calls, UpUnlessOutage
  <2>5. BlockLasts'
    <3> SUFFICES ASSUME NEW p \in Request, todo'[p] = <<"clear">>
                 PROVE  blocked' >= (IF p \in late' THEN Block - 1 ELSE Block)
      BY DEF BlockLasts
    <3>1. todo[p] = <<"clear">> /\ p \notin late /\ <<"clear">> # <<>>
      BY <1>2, <2>1 DEF Tick
    <3>2. blocked >= Block /\ p \in late'
      BY <1>2, <3>1 DEF Typed, BlockLasts, Tick
    <3> QED BY <1>2, <1>0, <3>2 DEF Tick
  <2> QED BY <2>3, <2>4, <2>5 DEF Typed
<1>3. CASE Outage \/ Recovery
  <2>1. limiter' = limiter /\ UNCHANGED <<counter, blocked, todo, late, streak, ageless, crashes>>
    BY <1>3 DEF Outage, Recovery
  <2>2. redisUp' \in BOOLEAN /\ outages' \in Nat /\ outages' + crashes <= MaxFaults /\ UpUnlessOutage'
    <3>1. CASE Outage
      <4>1. outages' \in Nat /\ outages' + crashes <= MaxFaults /\ outages' # 0
        BY <3>1, <1>0, TimeAssumption DEF Outage
      <4>2. redisUp' \in BOOLEAN
        BY <3>1, Zenon DEF Outage
      <4> QED BY <4>1, <4>2 DEF UpUnlessOutage
    <3>2. CASE Recovery
      BY <3>2, <1>0, Zenon DEF Recovery, UpUnlessOutage
    <3> QED BY <1>3, <3>1, <3>2
  <2>3. TypeOK'
    BY <1>a, <2>1, <2>2 DEF TypeOK, Typed, Counter
  <2> QED BY <2>1, <2>2, <2>3 DEF Typed, CallsFit, Calls, BlockLasts
<1>4. CASE UNCHANGED vars
  BY <1>4, <1>a DEF vars, Typed, TypeOK, CallsFit, Calls, BlockLasts, UpUnlessOutage, Counter
<1> QED BY <1>1, <1>2, <1>3, <1>4 DEF Next

-----------------------------------------------------------------------------
(* Every step keeps the count.                                             *)

\* A request that is not about to be counted moves nobody in or out but itself.
LEMMA MovesCount ==
    ASSUME Typed, NEW p \in Request, NEW calls \in Calls, limiter' = limiter, Goto(p, calls)
    PROVE  /\ Cardinality(Failed) \in Nat /\ Cardinality(Failed') \in Nat
           /\ Cardinality(Trying) \in Nat /\ Cardinality(Trying') \in Nat
           /\ Cardinality(Request) \in Nat
           /\ Cardinality(Failed) + Cardinality(Trying) <= Cardinality(Request)
           /\ Cardinality(Failed') + Cardinality(Trying') <= Cardinality(Request)
           /\ Cardinality(Failed) <= Cardinality(Failed') + 1
           /\ calls \in FailedCalls \/ p \notin Failed => Cardinality(Failed) <= Cardinality(Failed')
           /\ calls \in FailedCalls /\ p \notin Failed => Cardinality(Failed) + 1 <= Cardinality(Failed')
           /\ calls # <<"verify">> => Cardinality(Trying') <= Cardinality(Trying)
           /\ calls # <<"verify">> /\ p \in Trying => Cardinality(Trying') <= Cardinality(Trying) - 1
<1>1. /\ calls # <<"verify">> => Trying' = Trying \ {p}
      /\ calls \in FailedCalls => Failed' = Failed \cup {p}
      /\ calls \notin FailedCalls => Failed' = Failed \ {p}
  BY GotoMoves DEF Typed
<1>2. Trying \in SUBSET Request /\ Failed \in SUBSET Request /\ Trying' \in SUBSET Request /\ Failed' \in SUBSET Request
  BY DEF Trying, Failed
<1>3. <<"verify">> \notin FailedCalls
  BY DEF FailedCalls
<1>4. Trying \cap Failed = {} /\ Trying' \cap Failed' = {}
  BY <1>3, Zenon DEF Trying, Failed, FailedCalls
<1>5. /\ Cardinality(Failed) \in Nat /\ Cardinality(Failed') \in Nat
      /\ Cardinality(Trying) \in Nat /\ Cardinality(Trying') \in Nat
      /\ Cardinality(Request) \in Nat
      /\ Cardinality(Failed) + Cardinality(Trying) <= Cardinality(Request)
      /\ Cardinality(Failed') + Cardinality(Trying') <= Cardinality(Request)
  BY <1>2, <1>4, Counts
<1>6. Cardinality(Failed) <= Cardinality(Failed') + 1
  <2>1. Failed \subseteq Failed' \cup {p}
    BY <1>1
  <2> QED BY <1>2, <2>1, Counts
<1>7. calls \in FailedCalls \/ p \notin Failed => Cardinality(Failed) <= Cardinality(Failed')
  <2> HAVE calls \in FailedCalls \/ p \notin Failed
  <2>1. Failed \subseteq Failed'
    BY <1>1
  <2> QED BY <1>2, <2>1, Counts
<1>8. calls \in FailedCalls /\ p \notin Failed => Cardinality(Failed) + 1 <= Cardinality(Failed')
  <2> HAVE calls \in FailedCalls /\ p \notin Failed
  <2>1. p \in Failed' /\ Failed \subseteq Failed' \ {p}
    BY <1>1
  <2>2. Cardinality(Failed) <= Cardinality(Failed') - 1
    BY <1>2, <2>1, Counts
  <2> QED BY <1>5, <2>2
<1>9. calls # <<"verify">> => Cardinality(Trying') <= Cardinality(Trying)
  BY <1>1, <1>2, Counts
<1>10. calls # <<"verify">> /\ p \in Trying => Cardinality(Trying') <= Cardinality(Trying) - 1
  <2> HAVE calls # <<"verify">> /\ p \in Trying
  <2>1. p \in Trying /\ Trying' \subseteq Trying \ {p}
    BY <1>1
  <2> QED BY <1>2, <2>1, Counts
<1> QED BY <1>5, <1>6, <1>7, <1>8, <1>9, <1>10

\* Most steps leave the counter, the block and the streak alone.
LEMMA CalmStep ==
    ASSUME Typed, Counted, outages' = 0, outages = 0, NEW p \in Request, NEW calls \in Calls, Goto(p, calls),
           limiter' = limiter, counter'.n = counter.n, streak' = streak, blocked' = blocked,
           crashes' \in Nat, crashes' >= crashes,
           calls \in FailedCalls \/ p \notin Failed \/ crashes' >= crashes + 1,
           calls # <<"verify">> \/ blocked = 0
    PROVE  Counted'
<1>1. /\ Cardinality(Failed) \in Nat /\ Cardinality(Failed') \in Nat
      /\ Cardinality(Trying) \in Nat /\ Cardinality(Trying') \in Nat
      /\ Cardinality(Failed) <= Cardinality(Failed') + 1
      /\ calls \in FailedCalls \/ p \notin Failed => Cardinality(Failed) <= Cardinality(Failed')
      /\ calls # <<"verify">> => Cardinality(Trying') <= Cardinality(Trying)
  BY MovesCount
<1>2. /\ streak \in Nat /\ counter.n \in Nat /\ crashes \in Nat /\ Bound \in Nat /\ Bound' = Bound
      /\ MaxFailures \in Nat /\ blocked \in Nat
  BY CounterSteps, StreakSteps, LimitAssumption, TimeAssumption DEF Typed, TypeOK, Bound
<1>3. Cardinality(Failed) + crashes <= Cardinality(Failed') + crashes'
  BY <1>1, <1>2 DEF Typed, TypeOK
<1>4. MadeAreCounted'
  BY <1>2 DEF Counted, MadeAreCounted
<1>5. FailuresAreCounted'
  BY <1>1, <1>2, <1>3 DEF Counted, FailuresAreCounted
<1>6. LockoutHolds'
  BY <1>1, <1>2 DEF Counted, LockoutHolds
<1> QED BY <1>4, <1>5, <1>6 DEF Counted

LEMMA RequestKeepsCount ==
    ASSUME Typed, Counted, outages' = 0, NEW p \in Request,
           StartAttempt(p) \/ StartMaking(p) \/ RequestStep(p) \/ Crash(p)
    PROVE  Counted'
<1>0. /\ outages = 0 /\ redisUp /\ limiter' = limiter /\ CallsFit
      /\ counter.n \in Nat /\ crashes \in Nat /\ streak \in Nat /\ blocked \in Nat
      /\ Bound \in Nat /\ Bound' = Bound /\ Cardinality(Request) \in Nat
      /\ MaxFailures \in Nat \ {0} /\ MaxMade \in Nat \ {0}
      /\ OneMore <= streak + 1 /\ OneMore \in Nat
      /\ limiter \in {"lockout", "throttle"}
  <2>1. outages = 0 /\ limiter' = limiter
    BY DEF StartAttempt, StartMaking, RequestStep, Crash, CheckBlocked, Succeed, Fail, Abort, Reset,
           CountFailure, Expire, SetBlock, ClearFailures, CountMade
  <2> QED BY <2>1, CounterSteps, StreakSteps, LimitAssumption, TimeAssumption
          DEF Typed, TypeOK, UpUnlessOutage, Bound
<1>c. MadeAreCounted /\ FailuresAreCounted /\ LockoutHolds
  BY <1>0 DEF Counted
<1>a. /\ <<>> \in Calls /\ <<>> # <<"verify">> /\ <<>> \notin FailedCalls
      /\ <<"blocked", "verify">> # <<"verify">> /\ <<"reset">> # <<"verify">> /\ <<"incr">> # <<"verify">>
      /\ <<"incr">> \in FailedCalls /\ <<"clear">> # <<"verify">> /\ <<"verify">> \notin FailedCalls
      /\ <<"block", "clear">> \in FailedCalls /\ <<"expire", "block", "clear">> \in FailedCalls
  BY DEF Calls, LockoutCalls, ThrottleCalls, FailedCalls
<1>b. /\ <<"blocked", "verify">> \notin FailedCalls /\ <<"reset">> \notin FailedCalls
      /\ <<"expire">> \notin FailedCalls /\ <<"clear">> \notin FailedCalls
  BY DEF FailedCalls
<1>d. /\ p \in Failed <=> todo[p] \in FailedCalls
      /\ p \in Trying <=> todo[p] = <<"verify">>
  BY DEF Failed, Trying, FailedCalls
<1>1. CASE StartAttempt(p)
  <2>1. Goto(p, <<"blocked", "verify">>) /\ <<"blocked", "verify">> \in Calls
    BY <1>1, Zenon DEF StartAttempt, Calls, LockoutCalls
  <2>2. p \notin Failed
    BY <1>1, <1>a, <1>d DEF StartAttempt, Takes
  <2> QED BY <1>1, <1>0, <1>a, <2>1, <2>2, CalmStep DEF StartAttempt
<1>2. CASE StartMaking(p)
  <2>1. Goto(p, <<"incr">>) /\ <<"incr">> \in Calls
    BY <1>2, Zenon DEF StartMaking, Calls, LockoutCalls, ThrottleCalls
  <2> QED BY <1>2, <1>0, <1>a, <2>1, CalmStep DEF StartMaking
<1>3. CASE CheckBlocked(p)
  <2>1. p \notin Failed /\ blocked' = blocked
    BY <1>3, <1>0, <1>b, <1>d, AtCalls DEF CheckBlocked, BlockLeft
  <2>2. \/ Goto(p, <<>>)
        \/ Goto(p, <<"verify">>) /\ <<"verify">> \in Calls /\ blocked = 0
    <3>1. CASE blocked > 0
      BY <1>3, <1>0, <3>1 DEF CheckBlocked
    <3>2. CASE ~(blocked > 0)
      <4>1. blocked = 0
        BY <1>0, <3>2
      <4>2. Goto(p, Tail(todo[p])) /\ At(p, "blocked")
        BY <1>3, <3>2 DEF CheckBlocked, Proceed
      <4> QED BY <1>0, <4>1, <4>2, AtCalls
    <3> QED BY <3>1, <3>2
  <2>3. PICK calls \in Calls : Goto(p, calls) /\ (calls # <<"verify">> \/ blocked = 0)
    BY <2>2, <1>a
  <2> QED BY <1>3, <1>0, <2>1, <2>3, CalmStep DEF CheckBlocked
<1>4. CASE Succeed(p) \/ Abort(p)
  <2>1. p \notin Failed
    BY <1>4, <1>0, <1>a, <1>d, AtCalls DEF Succeed, Abort
  <2>2. PICK calls \in Calls : Goto(p, calls) /\ calls # <<"verify">>
    BY <1>4, <1>0, <1>a, AtCalls DEF Succeed, Abort
  <2>3. counter' = counter /\ streak' = streak /\ blocked' = blocked /\ crashes' = crashes
    BY <1>4 DEF Succeed, Abort
  <2> QED BY <1>0, <2>1, <2>2, <2>3, CalmStep
<1>5. CASE Fail(p)
  <2>1. /\ Goto(p, <<"incr">>) /\ <<"incr">> \in Calls /\ p \notin Failed /\ p \in Trying /\ limiter = "lockout"
        /\ streak' = OneMore /\ counter' = counter /\ blocked' = blocked /\ crashes' = crashes
    BY <1>5, <1>0, <1>a, <1>d, AtCalls DEF Fail
  <2>2. /\ Cardinality(Failed) + 1 <= Cardinality(Failed')
        /\ Cardinality(Trying') <= Cardinality(Trying) - 1
        /\ Cardinality(Failed) \in Nat /\ Cardinality(Failed') \in Nat
        /\ Cardinality(Trying) \in Nat /\ Cardinality(Trying') \in Nat
    BY <1>0, <1>a, <2>1, MovesCount
  <2>3. MadeAreCounted' /\ (FailuresAreCounted)'
    BY <1>0, <1>c, <2>1, <2>2 DEF MadeAreCounted, FailuresAreCounted
  <2>4. LockoutHolds'
    BY <1>0, <1>c, <2>1, <2>2 DEF LockoutHolds
  <2> QED BY <2>3, <2>4 DEF Counted
<1>6. CASE Reset(p)
  <2>1. limiter = "lockout" /\ streak' = 0 /\ counter' = NoCounter /\ crashes' = crashes
    BY <1>6, <1>0, AtCalls DEF Reset
  <2>2. PICK calls \in Calls : Goto(p, calls)
    BY <1>6, <1>0, <1>a, AtCalls DEF Reset, Proceed
  <2>3. /\ Cardinality(Failed') \in Nat /\ Cardinality(Trying') \in Nat
        /\ Cardinality(Failed') + Cardinality(Trying') <= Cardinality(Request)
        /\ Bound = MaxFailures + Cardinality(Request) - 1 /\ NoCounter.n = 0
    BY <1>0, <2>1, <2>2, MovesCount, StreakSteps, CounterSteps DEF Typed
  <2> QED BY <1>0, <2>1, <2>3 DEF Counted, MadeAreCounted, FailuresAreCounted, LockoutHolds
<1>7. CASE CountFailure(p)
  <2>1. PICK calls \in Calls :
            /\ Goto(p, calls) /\ calls # <<"verify">>
            /\ Incremented(counter).n >= MaxFailures => calls \in FailedCalls
    <3>1. limiter = "lockout" /\ Calls = LockoutCalls /\ Incremented(counter).n \in Nat
      BY <1>7, CounterSteps DEF CountFailure, Calls, Typed
    <3>2. Goto(p, (IF Expires(Incremented(counter).n) THEN <<"expire">> ELSE <<>>)
                  \o (IF Incremented(counter).n >= MaxFailures THEN LockOut ELSE <<>>))
      BY <1>7, <1>0 DEF CountFailure
    <3> QED BY <3>1, <3>2, AfterIncrement DEF FailedCalls
  <2>2. /\ limiter = "lockout" /\ counter' = Incremented(counter) /\ Limit = MaxFailures
        /\ streak' = streak /\ blocked' = blocked /\ crashes' = crashes
    BY <1>7, <1>0 DEF CountFailure, Limit
  <2>3. /\ Cardinality(Failed) <= Cardinality(Failed') + 1
        /\ calls \in FailedCalls => Cardinality(Failed) <= Cardinality(Failed')
        /\ Cardinality(Trying') <= Cardinality(Trying)
        /\ Cardinality(Failed) \in Nat /\ Cardinality(Failed') \in Nat
        /\ Cardinality(Trying) \in Nat /\ Cardinality(Trying') \in Nat
    BY <1>0, <2>1, MovesCount
  <2>4. counter'.n = (IF counter.n > MaxFailures THEN counter.n ELSE counter.n + 1)
    BY <2>2, CounterSteps DEF Typed
  <2>5. FailuresAreCounted'
    BY <1>0, <1>c, <2>1, <2>2, <2>3, <2>4 DEF FailuresAreCounted
  <2>6. MadeAreCounted' /\ LockoutHolds'
    BY <1>0, <1>c, <2>2, <2>3 DEF MadeAreCounted, LockoutHolds
  <2> QED BY <2>5, <2>6 DEF Counted
<1>8. CASE Expire(p)
  <2>1. PICK calls \in Calls : Goto(p, calls) /\ calls # <<"verify">> /\ (calls \in FailedCalls \/ p \notin Failed)
    BY <1>8, <1>0, <1>a, <1>b, <1>d, AtCalls DEF Expire, Proceed
  <2>2. counter'.n = counter.n /\ streak' = streak /\ blocked' = blocked /\ crashes' = crashes
    BY <1>8, <1>0, CounterSteps DEF Expire, Typed
  <2> QED BY <1>0, <2>1, <2>2, CalmStep
<1>9. CASE SetBlock(p)
  <2>1. /\ limiter = "lockout" /\ Goto(p, <<"clear">>) /\ <<"clear">> \in Calls /\ p \in Failed
        /\ blocked' = Block /\ Block > 0 /\ Block \in Nat
    <3>1. At(p, "block") /\ blocked' = Block /\ Goto(p, Tail(todo[p]))
      BY <1>9, <1>0 DEF SetBlock, Proceed
    <3>2. limiter = "lockout" /\ todo[p] = <<"block", "clear">> /\ Tail(todo[p]) = <<"clear">> /\ <<"clear">> \in Calls
      BY <1>0, <3>1, AtCalls, Zenon
    <3>3. p \in Failed
      BY <3>2, <1>a, <1>d
    <3> QED BY <3>1, <3>2, <3>3, TimeAssumption
  <2>2. counter' = counter /\ streak' = streak /\ crashes' = crashes
    BY <1>9 DEF SetBlock
  <2>3. /\ Cardinality(Failed) + Cardinality(Trying) <= Cardinality(Request)
        /\ Cardinality(Trying') <= Cardinality(Trying)
        /\ Cardinality(Failed) \in Nat
        /\ Cardinality(Trying) \in Nat /\ Cardinality(Trying') \in Nat
    BY <1>0, <1>a, <2>1, MovesCount
  <2>4. Bound = MaxFailures + Cardinality(Request) - 1
    BY <2>1, StreakSteps DEF Typed
  <2>5. LockoutHolds'
    BY <1>0, <1>c, <2>1, <2>2, <2>3, <2>4 DEF LockoutHolds, FailuresAreCounted
  <2> QED BY <1>0, <2>1, <2>5 DEF Counted, MadeAreCounted, FailuresAreCounted
<1>10. CASE ClearFailures(p)
  <2>1. limiter = "lockout" /\ todo[p] = <<"clear">>
    BY <1>10, <1>0, AtCalls DEF ClearFailures
  <2>2. blocked > 0
    <3>1. blocked >= (IF p \in late THEN Block - 1 ELSE Block)
      BY <2>1 DEF Typed, BlockLasts
    <3> QED BY <3>1, <1>0, TimeAssumption
  <2>3. PICK calls \in Calls : Goto(p, calls) /\ calls # <<"verify">>
    BY <1>10, <1>0, <1>a, AtCalls DEF ClearFailures, Proceed
  <2>4. streak' = streak /\ blocked' = blocked /\ crashes' = crashes
    BY <1>10 DEF ClearFailures
  <2>5. /\ Cardinality(Trying') <= Cardinality(Trying)
        /\ Cardinality(Trying) \in Nat /\ Cardinality(Trying') \in Nat
    BY <1>0, <2>3, MovesCount
  <2>6. LockoutHolds'
    BY <1>0, <1>c, <2>1, <2>2, <2>4, <2>5 DEF LockoutHolds
  <2> QED BY <1>0, <2>1, <2>2, <2>4, <2>6 DEF Counted, MadeAreCounted, FailuresAreCounted
<1>11. CASE CountMade(p)
  <2>1. limiter = "throttle" /\ Limit = MaxMade /\ counter' = Incremented(counter)
        /\ streak' = IF Incremented(counter).n <= MaxMade THEN OneMore ELSE streak
    BY <1>11, <1>0 DEF CountMade, Limit
  <2>2. counter'.n = (IF counter.n > MaxMade THEN counter.n ELSE counter.n + 1)
    BY <2>1, CounterSteps DEF Typed
  <2>3. MadeAreCounted'
    BY <1>0, <1>c, <2>1, <2>2 DEF MadeAreCounted
  <2> QED BY <1>0, <2>1, <2>3 DEF Counted, FailuresAreCounted, LockoutHolds
<1>12. CASE Crash(p)
  <2>1. PICK calls \in Calls : Goto(p, calls) /\ calls # <<"verify">>
    BY <1>12, <1>a DEF Crash
  <2>2. crashes' = crashes + 1 /\ counter' = counter /\ streak' = streak /\ blocked' = blocked
    BY <1>12 DEF Crash
  <2> QED BY <1>0, <2>1, <2>2, CalmStep
<1> QED BY <1>1, <1>2, <1>3, <1>4, <1>5, <1>6, <1>7, <1>8, <1>9, <1>10, <1>11, <1>12 DEF RequestStep

LEMMA NextKeepsCount == Typed /\ Counted /\ [Next]_vars => Counted'
<1> SUFFICES ASSUME Typed, Counted, [Next]_vars, outages' = 0 PROVE Counted'
  BY DEF Counted
<1>1. CASE \E p \in Request : StartAttempt(p) \/ StartMaking(p) \/ RequestStep(p) \/ Crash(p)
  BY <1>1, RequestKeepsCount
<1>2. CASE Tick
  <2>1. /\ limiter' = limiter /\ Failed' = Failed /\ Trying' = Trying /\ crashes' = crashes /\ outages = 0
        /\ Bound' = Bound
    BY <1>2 DEF Tick, Failed, Trying, Bound
  <2>2. /\ Failed \in SUBSET Request /\ Trying \in SUBSET Request
        /\ counter' = Aged(counter) /\ blocked \in Nat /\ crashes \in Nat
        /\ MaxFailures \in Nat \ {0} /\ MaxMade \in Nat \ {0}
    BY <1>2, LimitAssumption, TimeAssumption DEF Typed, TypeOK, Tick, Failed, Trying
  <2>3. /\ Cardinality(Failed) \in Nat /\ Cardinality(Trying) \in Nat
        /\ Cardinality(Trying) <= Cardinality(Request) /\ Cardinality(Request) \in Nat
    BY <2>2, Counts
  <2>4. CASE counter.ttl = 1 \/ blocked = 1
    <3>1. streak' = 0 /\ counter'.n \in Nat /\ Bound \in Nat
      BY <1>2, <2>2, <2>4, CounterSteps, StreakSteps DEF Tick, Typed, Counter
    <3>2. limiter = "lockout" => Cardinality(Trying) <= Bound
      BY <2>2, <2>3, StreakSteps DEF Typed
    <3> QED BY <2>1, <2>2, <2>3, <3>1, <3>2 DEF Counted, MadeAreCounted, FailuresAreCounted, LockoutHolds
  <2>5. CASE ~(counter.ttl = 1 \/ blocked = 1)
    <3>1. streak' = streak /\ counter'.n = counter.n /\ (blocked' > 0 <=> blocked > 0) /\ (blocked' = 0 <=> blocked = 0)
      BY <1>2, <2>2, <2>5, CounterSteps DEF Tick, Typed
    <3> QED BY <2>1, <3>1 DEF Counted, MadeAreCounted, FailuresAreCounted, LockoutHolds
  <2> QED BY <2>4, <2>5
<1>3. CASE Outage \/ Recovery \/ UNCHANGED vars
  <2>1. UNCHANGED <<limiter, counter, blocked, todo, streak, crashes>> /\ outages = 0
    <3>1. CASE Outage
      BY <3>1 DEF Outage, Typed, TypeOK
    <3> QED BY <1>3, <3>1 DEF Recovery, vars
  <2> QED BY <2>1 DEF Counted, MadeAreCounted, FailuresAreCounted, LockoutHolds, Failed, Trying, Bound
<1> QED BY <1>1, <1>2, <1>3 DEF Next

-----------------------------------------------------------------------------
(* The theorems.                                                           *)

\* LimiterInv holds throughout, whatever the limits, the times, the faults and
\* the number of requests at once (redis.py 407-468, 716-776, 780-810).
THEOREM LimiterInvariance == Spec => []LimiterInv
<1>1. Init => LimiterInv
  <2> SUFFICES ASSUME Init PROVE LimiterInv
    OBVIOUS
  <2>1. TypeOK
    <3>1. <<>> \in Seq(Command)
      OBVIOUS
    <3>2. NoCounter \in Counter(Limit) /\ 0 \in 0 .. Ceiling
      <4>1. Limit \in Nat /\ Window \in Nat /\ Cardinality(Request) \in Nat
        BY LimitAssumption, TimeAssumption, RequestAssumption, FS_CardinalityType DEF Limit
      <4>2. Ceiling \in Nat
        BY <4>1, LimitAssumption, TimeAssumption DEF Ceiling, Bound
      <4> QED BY <4>1, <4>2 DEF NoCounter, Counter
    <3>3. redisUp \in BOOLEAN /\ ageless \in BOOLEAN
      BY Zenon DEF Init
    <3> QED BY <3>1, <3>2, <3>3, TimeAssumption DEF Init, TypeOK
  <2>2. CallsFit
    BY DEF Init, CallsFit, Calls, LockoutCalls, ThrottleCalls
  <2>3. BlockLasts /\ UpUnlessOutage
    <3>1. <<>> # <<"clear">>
      OBVIOUS
    <3>2. UpUnlessOutage
      BY Zenon DEF Init, UpUnlessOutage
    <3> QED BY <3>1, <3>2 DEF Init, BlockLasts
  <2>4. Counted
    <3>1. Failed \in SUBSET Request
      BY DEF Failed
    <3>2. Cardinality(Failed) \in Nat
      BY <3>1, Counts
    <3> QED BY <3>2, LimitAssumption DEF Init, Counted, MadeAreCounted, FailuresAreCounted, LockoutHolds, NoCounter
  <2> QED BY <2>1, <2>2, <2>3, <2>4 DEF LimiterInv
<1>2. LimiterInv /\ [Next]_vars => LimiterInv'
  BY NextKeepsTypes, NextKeepsCount DEF LimiterInv, Typed
<1> QED BY <1>1, <1>2, PTL DEF Spec

\* Every reachable state is well typed.
THEOREM TypeCorrect == Spec => []TypeOK
<1>1. LimiterInv => TypeOK
  BY DEF LimiterInv
<1> QED BY <1>1, LimiterInvariance, PTL

\* While Redis answers, failures between two ends of a counter or block stay
\* within the limit, the other requests under way and the requests that died,
\* and tokens within the limit (redis.py 407-468, 716-776, 780-810).
THEOREM AttemptsStayBounded == Spec => []AttemptsBounded
<1>1. LimiterInv => AttemptsBounded
  <2> SUFFICES ASSUME LimiterInv, outages = 0 PROVE streak <= Bound + crashes
    BY DEF AttemptsBounded
  <2>1. Failed \in SUBSET Request /\ Trying \in SUBSET Request
    BY DEF Failed, Trying
  <2>2. /\ Cardinality(Failed) \in Nat /\ Cardinality(Failed) <= Cardinality(Request)
        /\ Cardinality(Trying) \in Nat /\ Cardinality(Request) \in Nat
    BY <2>1, Counts
  <2>3. /\ streak \in Nat /\ crashes \in Nat /\ blocked \in Nat /\ Bound \in Nat /\ limiter \in {"lockout", "throttle"}
        /\ limiter = "lockout" => Bound = MaxFailures + Cardinality(Request) - 1
        /\ limiter = "throttle" => Bound = MaxMade
        /\ MaxFailures \in Nat \ {0} /\ MaxMade \in Nat \ {0}
    BY StreakSteps, LimitAssumption, TimeAssumption DEF LimiterInv, TypeOK
  <2> QED BY <2>2, <2>3 DEF LimiterInv, Counted, MadeAreCounted, FailuresAreCounted, LockoutHolds
<1> QED BY <1>1, LimiterInvariance, PTL
=============================================================================
