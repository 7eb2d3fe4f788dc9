--------------------------- MODULE AccessCachesProofs ---------------------------
(***************************************************************************)
(* Proofs about AccessCaches: what is cached of a user, and is not true of *)
(* the rows any more, is owed a DELETE by an administrator's request that  *)
(* has committed; a request with a JWT that was logged out does not get    *)
(* past the blacklist; a code registers no more residents than read it at  *)
(* once.                                                                   *)
(***************************************************************************)
EXTENDS AccessCaches, SequenceTheorems, FiniteSetTheorems, TLAPS

-----------------------------------------------------------------------------
(* Lists of calls.                                                         *)

Commits     == {"save", "update", "suspend", "revokeCode"}
ClientCalls == {"tenant", "validate", "banned", "session", "account", "keep", "ban", "forget",
                "tag", "holder", "landlord", "remember", "credentials", "code", "enlist"}
AdminCalls  == {"forget", "untag", "residents", "announce"} \cup Commits

Has(s, x) == \E i \in 1 .. Len(s) : s[i] = x

\* The calls that a request of a client still has to make after another one.
Follows(x, y) ==
    \/ x = "banned" /\ y = "session"
    \/ x \in {"session", "account", "keep"} /\ y = "ban"
    \/ x = "ban" /\ y = "forget"

\* A client's calls are about one user, and in this order.
ClientList(s) ==
    /\ s \in Seq(ClientCalls \X User)
    /\ \A i \in 1 .. Len(s) - 1 : Follows(s[i][1], s[i + 1][1]) /\ s[i][2] = s[i + 1][2]

\* An administrator's request commits first, if at all.
AdminList(s) ==
    /\ s \in Seq(AdminCalls \X User)
    /\ \A i \in 2 .. Len(s) : s[i][1] \notin Commits

\* What is to be removed after each commit is on the list.
Prepared(s) ==
    LET u == Head(s)[2]
    IN  /\ Head(s)[1] \in {"save", "update"} => Has(s, <<"forget", u>>) /\ Has(s, <<"untag", u>>)
        /\ Head(s)[1] = "save" /\ u = Landlord => Has(s, <<"residents", Landlord>>)

ClientFits(j) == j \in Job /\ j.todo # <<>> /\ ClientList(j.todo)
AdminFits(j)  == j \in Job /\ j.todo # <<>> /\ AdminList(j.todo) /\ Prepared(j.todo)

JobsFit(jobs) ==
    /\ jobs \in [Process -> Job \cup {None}]
    /\ \A c \in Client : jobs[c] # None => ClientFits(jobs[c])
    /\ \A a \in Admin : jobs[a] # None => AdminFits(jobs[a])

-----------------------------------------------------------------------------
(* The inductive invariant.                                                *)

\* What is said of the administrators' jobs: a has committed, and x is to come.
Owing(jobs, a, x) == jobs[a] # None /\ Head(jobs[a].todo)[1] \notin Commits /\ Has(jobs[a].todo, x)
Owed(jobs, x) == \E a \in Admin : Owing(jobs, a, x)

\* Entries that say yes where the rows say no.
SessionGap  == {u \in User : session[u] = "fresh" /\ ~Active(u)}
TagGap      == {u \in User : tag[u] = "fresh" /\ ~Active(u)}
LandlordGap == {u \in Resident : tag[u] = "fresh" /\ ~Active(Landlord)}

SessionsOwed  == \A u \in SessionGap : Owed(job, <<"forget", u>>)
TagsOwed      == \A u \in TagGap : Owed(job, <<"untag", u>>)
ResidentsOwed == \A u \in LandlordGap : Owed(job, <<"untag", u>>) \/ Owed(job, <<"residents", Landlord>>)

AllOwed == SessionsOwed /\ TagsOwed /\ ResidentsOwed

\* While nothing has failed, a logout that is answered, or about to be, is on
\* the blacklist, and no request with that JWT gets past it.
LogoutInv ==
    faults = 0 =>
        /\ redisUp /\ returned = {}
        /\ out \subseteq banned
        /\ \A c \in Client : At(c, "forget") => Who(c) \in banned
        /\ \A c \in Client : job[c] # None /\ job[c].late =>
              Head(job[c].todo)[1] \notin {"session", "account"} /\ Who(c) \in banned

\* Whoever read the code before it was used may yet register by it.
Enlisting(jobs) == {c \in Client : jobs[c] # None /\ Head(jobs[c].todo)[1] = "enlist"}
CodeInv ==
    IF code.used THEN uses + Cardinality(Enlisting(job)) <= Cardinality(Client) ELSE uses = 0
-----------------------------------------------------------------------------
(* What becomes of a list.                                                 *)

LEMMA ClientTail ==
    ASSUME NEW s, ClientList(s), s # <<>>
    PROVE  /\ Head(s) \in ClientCalls \X User
           /\ ClientList(Tail(s))
           /\ Tail(s) # <<>> => /\ Follows(Head(s)[1], Head(Tail(s))[1])
                                /\ Head(Tail(s))[2] = Head(s)[2]
<1>1. s \in Seq(ClientCalls \X User)
  BY DEF ClientList
<1>2. /\ Head(s) = s[1] /\ Head(s) \in ClientCalls \X User
      /\ Tail(s) \in Seq(ClientCalls \X User)
      /\ Len(s) \in Nat /\ Len(s) > 0 /\ Len(Tail(s)) = Len(s) - 1
      /\ \A i \in 1 .. Len(Tail(s)) : Tail(s)[i] = s[i + 1]
  BY <1>1, HeadTailProperties, EmptySeq
<1>3. ClientList(Tail(s))
  <2> SUFFICES ASSUME NEW i \in 1 .. Len(Tail(s)) - 1
               PROVE  /\ Follows(Tail(s)[i][1], Tail(s)[i + 1][1])
                      /\ Tail(s)[i][2] = Tail(s)[i + 1][2]
    BY <1>2 DEF ClientList
  <2>1. /\ i \in 1 .. Len(Tail(s)) /\ i + 1 \in 1 .. Len(Tail(s)) /\ i + 1 \in 1 .. Len(s) - 1
    BY <1>2
  <2>2. Tail(s)[i] = s[i + 1] /\ Tail(s)[i + 1] = s[(i + 1) + 1]
    BY <1>2, <2>1
  <2> QED BY <2>1, <2>2 DEF ClientList
<1>4. ASSUME Tail(s) # <<>>
      PROVE  Follows(Head(s)[1], Head(Tail(s))[1]) /\ Head(Tail(s))[2] = Head(s)[2]
  <2>1. Len(Tail(s)) > 0 /\ Head(Tail(s)) = Tail(s)[1]
    BY <1>2, <1>4, HeadTailProperties, EmptySeq
  <2>2. 1 \in 1 .. Len(Tail(s)) /\ 1 \in 1 .. Len(s) - 1 /\ Tail(s)[1] = s[1 + 1]
    BY <1>2, <2>1
  <2> QED BY <1>2, <2>1, <2>2 DEF ClientList
<1> QED BY <1>2, <1>3, <1>4

LEMMA ClientOne ==
    ASSUME NEW x \in ClientCalls, NEW u \in User
    PROVE  LET r == << <<x, u>> >>
           IN  ClientList(r) /\ r # <<>> /\ Head(r) = <<x, u>>
<1> DEFINE h == <<x, u>>
<1>1. h \in ClientCalls \X User
  OBVIOUS
<1> HIDE DEF h
<1>2. Len(<<h>>) = 1 /\ <<h>> \in Seq(ClientCalls \X User) /\ <<h>> # <<>> /\ Head(<<h>>) = h
  BY <1>1
<1>3. ClientList(<<h>>)
  BY <1>2 DEF ClientList
<1> QED BY <1>2, <1>3 DEF h

\* The call at the head makes room for another one, about the same user.
LEMMA ClientSwap ==
    ASSUME NEW s, ClientList(s), s # <<>>, NEW x \in ClientCalls,
           Tail(s) # <<>> => Follows(x, Head(Tail(s))[1])
    PROVE  LET r == << <<x, Head(s)[2]>> >> \o Tail(s)
           IN  ClientList(r) /\ r # <<>> /\ Head(r) = <<x, Head(s)[2]>>
<1> DEFINE h == <<x, Head(s)[2]>>
           t == Tail(s)
           r == <<h>> \o t
<1>1. h \in ClientCalls \X User /\ h[1] = x /\ h[2] = Head(s)[2]
  BY ClientTail
<1>2. t \in Seq(ClientCalls \X User) /\ ClientList(t)
  BY ClientTail DEF ClientList
<1>3. t # <<>> => Follows(h[1], Head(t)[1]) /\ h[2] = Head(t)[2]
  BY <1>1, ClientTail
<1> HIDE DEF h, t
<1>4. Len(<<h>>) = 1 /\ <<h>>[1] = h /\ <<h>> \in Seq(ClientCalls \X User)
  BY <1>1
<1>5. /\ r \in Seq(ClientCalls \X User) /\ Len(t) \in Nat /\ Len(r) = Len(t) + 1
      /\ \A i \in 1 .. Len(t) + 1 : r[i] = IF i <= 1 THEN <<h>>[i] ELSE t[i - 1]
  BY <1>2, <1>4, ConcatProperties, LenProperties
<1>6. r[1] = h /\ r # <<>> /\ Head(r) = h
  BY <1>4, <1>5, HeadTailProperties, EmptySeq
<1>7. ASSUME NEW i \in 1 .. Len(r) - 1
      PROVE  Follows(r[i][1], r[i + 1][1]) /\ r[i][2] = r[i + 1][2]
  <2>1. i + 1 \in 1 .. Len(t) + 1 /\ ~(i + 1 <= 1) /\ (i + 1) - 1 = i /\ i \in 1 .. Len(t) + 1
    BY <1>5
  <2>2. r[i + 1] = t[i]
    BY <1>5, <2>1
  <2>3. CASE i = 1
    <3>1. t # <<>> /\ Head(t) = t[1]
      BY <1>2, <1>5, <2>3, HeadTailProperties, EmptySeq
    <3> QED BY <1>3, <1>6, <2>2, <2>3, <3>1
  <2>4. CASE i # 1
    <3>1. ~(i <= 1) /\ i - 1 \in 1 .. Len(t) - 1 /\ (i - 1) + 1 = i
      BY <1>5, <2>4
    <3>2. r[i] = t[i - 1]
      BY <1>5, <2>1, <3>1
    <3>3. Follows(t[i - 1][1], t[(i - 1) + 1][1]) /\ t[i - 1][2] = t[(i - 1) + 1][2]
      BY <1>2, <3>1 DEF ClientList
    <3> QED BY <2>2, <3>1, <3>2, <3>3
  <2> QED BY <2>3, <2>4
<1>8. ClientList(r)
  BY <1>5, <1>7 DEF ClientList
<1> QED BY <1>6, <1>8 DEF h, t

\* A request starts on a list of calls about one user.
For(calls, u) == [i \in DOMAIN calls |-> <<calls[i], u>>]

LEMMA ForType ==
    ASSUME NEW K, NEW calls \in Seq(K), NEW u \in User
    PROVE  /\ For(calls, u) \in Seq(K \X User)
           /\ Len(For(calls, u)) = Len(calls)
           /\ \A i \in 1 .. Len(calls) : For(calls, u)[i] = <<calls[i], u>>
           /\ calls # <<>> => For(calls, u) # <<>> /\ Head(For(calls, u)) = <<calls[1], u>>
<1>1. DOMAIN calls = 1 .. Len(calls) /\ Len(calls) \in Nat /\ \A i \in 1 .. Len(calls) : calls[i] \in K
  BY LenProperties, ElementOfSeq
<1>2. For(calls, u) \in [1 .. Len(calls) -> K \X User]
  BY <1>1 DEF For
<1>3. For(calls, u) \in Seq(K \X User) /\ Len(For(calls, u)) = Len(calls)
  <2> DEFINE n == Len(calls)
             f == For(calls, u)
  <2>1. n \in Nat /\ f \in [1 .. n -> K \X User]
    BY <1>1, <1>2
  <2> HIDE DEF n, f
  <2>2. f \in Seq(K \X User) /\ Len(f) = n
    BY <2>1
  <2> QED BY <2>2 DEF n, f
<1>4. \A i \in 1 .. Len(calls) : For(calls, u)[i] = <<calls[i], u>>
  BY <1>1 DEF For
<1>5. ASSUME calls # <<>> PROVE For(calls, u) # <<>> /\ Head(For(calls, u)) = <<calls[1], u>>
  <2>1. 1 \in 1 .. Len(calls) /\ Len(calls) # 0
    BY <1>1, <1>5, EmptySeq
  <2> QED BY <1>3, <1>4, <2>1, HeadTailProperties, EmptySeq
<1> QED BY <1>3, <1>4, <1>5

LEMMA ClientFor ==
    ASSUME NEW calls \in Seq(ClientCalls), calls # <<>>, NEW u \in User,
           \A i \in 1 .. Len(calls) - 1 : Follows(calls[i], calls[i + 1])
    PROVE  /\ ClientList(For(calls, u)) /\ For(calls, u) # <<>>
           /\ Head(For(calls, u)) = <<calls[1], u>>
<1> DEFINE r == For(calls, u)
<1>1. /\ r \in Seq(ClientCalls \X User) /\ Len(r) = Len(calls) /\ Len(calls) \in Nat
      /\ \A i \in 1 .. Len(calls) : r[i] = <<calls[i], u>>
      /\ r # <<>> /\ Head(r) = <<calls[1], u>>
  BY ForType, LenProperties
<1> HIDE DEF r
<1>2. ASSUME NEW i \in 1 .. Len(r) - 1
      PROVE  Follows(r[i][1], r[i + 1][1]) /\ r[i][2] = r[i + 1][2]
  <2>1. i \in 1 .. Len(calls) /\ i + 1 \in 1 .. Len(calls) /\ i \in 1 .. Len(calls) - 1
    BY <1>1
  <2>2. r[i] = <<calls[i], u>> /\ r[i + 1] = <<calls[i + 1], u>>
    BY <1>1, <2>1
  <2> QED BY <2>1, <2>2
<1>3. ClientList(r)
  BY <1>1, <1>2 DEF ClientList
<1> QED BY <1>1, <1>3 DEF r

\* The lists that requests of clients start on.
LEMMA ClientStarts ==
    ASSUME NEW u \in User
    PROVE  /\ \A x \in ClientCalls : /\ ClientList(For(<<x>>, u)) /\ For(<<x>>, u) # <<>>
                                     /\ Head(For(<<x>>, u)) = <<x, u>>
           /\ ClientList(For(Authenticate, u)) /\ For(Authenticate, u) # <<>>
           /\ Head(For(Authenticate, u)) = <<"banned", u>>
           /\ LET calls == Authenticate \o <<"ban", "forget">>
              IN  ClientList(For(calls, u)) /\ For(calls, u) # <<>> /\ Head(For(calls, u)) = <<"banned", u>>
<1>1. ASSUME NEW x \in ClientCalls
      PROVE  ClientList(For(<<x>>, u)) /\ For(<<x>>, u) # <<>> /\ Head(For(<<x>>, u)) = <<x, u>>
  <2> DEFINE s == <<x>>
  <2>1. s \in Seq(ClientCalls) /\ s # <<>> /\ Len(s) = 1 /\ s[1] = x
    OBVIOUS
  <2> HIDE DEF s
  <2>2. \A i \in 1 .. Len(s) - 1 : Follows(s[i], s[i + 1])
    BY <2>1
  <2> QED BY <2>1, <2>2, ClientFor DEF s
<1>2. /\ ClientList(For(Authenticate, u)) /\ For(Authenticate, u) # <<>>
      /\ Head(For(Authenticate, u)) = <<"banned", u>>
  <2> DEFINE s == Authenticate
  <2>1. s \in Seq(ClientCalls) /\ s # <<>> /\ Len(s) = 2 /\ s[1] = "banned" /\ s[2] = "session"
    BY DEF Authenticate, ClientCalls
  <2> HIDE DEF s
  <2>2. ASSUME NEW i \in 1 .. Len(s) - 1 PROVE Follows(s[i], s[i + 1])
    <3>1. i = 1 /\ i + 1 = 2
      BY <2>1
    <3> QED BY <2>1, <3>1 DEF Follows
  <2>3. ClientList(For(s, u)) /\ For(s, u) # <<>> /\ Head(For(s, u)) = <<s[1], u>>
    BY <2>1, <2>2, ClientFor
  <2> QED BY <2>1, <2>3 DEF s
<1>3. LET calls == Authenticate \o <<"ban", "forget">>
      IN  ClientList(For(calls, u)) /\ For(calls, u) # <<>> /\ Head(For(calls, u)) = <<"banned", u>>
  <2> DEFINE s == Authenticate \o <<"ban", "forget">>
  <2>1. /\ s \in Seq(ClientCalls) /\ s # <<>> /\ Len(s) = 4
        /\ s[1] = "banned" /\ s[2] = "session" /\ s[3] = "ban" /\ s[4] = "forget"
    BY DEF Authenticate, ClientCalls
  <2> HIDE DEF s
  <2>2. ASSUME NEW i \in 1 .. Len(s) - 1 PROVE Follows(s[i], s[i + 1])
    <3>1. (i = 1 /\ i + 1 = 2) \/ (i = 2 /\ i + 1 = 3) \/ (i = 3 /\ i + 1 = 4)
      BY <2>1
    <3> QED BY <2>1, <3>1 DEF Follows
  <2>3. ClientList(For(s, u)) /\ For(s, u) # <<>> /\ Head(For(s, u)) = <<s[1], u>>
    BY <2>1, <2>2, ClientFor
  <2> QED BY <2>1, <2>3 DEF s
<1> QED BY <1>1, <1>2, <1>3

LEMMA AdminTail ==
    ASSUME NEW s, AdminList(s), s # <<>>
    PROVE  /\ Head(s) \in AdminCalls \X User /\ Has(s, Head(s))
           /\ Tail(s) \in Seq(AdminCalls \X User)
           /\ \A i \in 1 .. Len(Tail(s)) : Tail(s)[i][1] \notin Commits
           /\ \A x : Has(Tail(s), x) => Has(s, x)
           /\ \A x : Has(s, x) /\ x # Head(s) => Has(Tail(s), x)
<1>1. /\ s \in Seq(AdminCalls \X User) /\ Head(s) = s[1] /\ Head(s) \in AdminCalls \X User
      /\ Tail(s) \in Seq(AdminCalls \X User)
      /\ Len(s) \in Nat /\ Len(s) > 0 /\ Len(Tail(s)) = Len(s) - 1
      /\ \A i \in 1 .. Len(Tail(s)) : Tail(s)[i] = s[i + 1]
  BY HeadTailProperties, EmptySeq DEF AdminList
<1>2. ASSUME NEW i \in 1 .. Len(Tail(s)) PROVE i + 1 \in 2 .. Len(s) /\ Tail(s)[i] = s[i + 1]
  BY <1>1
<1>3. \A x : Has(Tail(s), x) => Has(s, x)
  BY <1>1, <1>2 DEF Has
<1>4. ASSUME NEW x, Has(s, x), x # Head(s) PROVE Has(Tail(s), x)
  <2>1. PICK i \in 1 .. Len(s) : s[i] = x
    BY <1>4 DEF Has
  <2>2. i # 1
    BY <1>1, <1>4, <2>1
  <2>3. i - 1 \in 1 .. Len(Tail(s)) /\ (i - 1) + 1 = i
    BY <1>1, <2>2
  <2> QED BY <1>1, <2>1, <2>3 DEF Has
<1>5. Has(s, Head(s))
  BY <1>1 DEF Has
<1> QED BY <1>1, <1>2, <1>3, <1>4, <1>5 DEF AdminList

\* Past its commit a request has nothing more to prepare.
LEMMA Committed ==
    ASSUME NEW s \in Seq(AdminCalls \X User), s # <<>>,
           \A i \in 1 .. Len(s) : s[i][1] \notin Commits
    PROVE  AdminList(s) /\ Prepared(s) /\ Head(s)[1] \notin Commits
<1>1. Len(s) \in Nat /\ 1 \in 1 .. Len(s) /\ Head(s) = s[1]
  BY HeadTailProperties, EmptySeq, LenProperties
<1>2. Head(s)[1] \notin Commits
  BY <1>1
<1>3. \A i \in 2 .. Len(s) : i \in 1 .. Len(s)
  BY <1>1
<1> QED BY <1>2, <1>3 DEF AdminList, Prepared, Commits

LEMMA AdminFor ==
    ASSUME NEW calls \in Seq(AdminCalls), calls # <<>>, NEW u \in User,
           \A i \in 2 .. Len(calls) : calls[i] \notin Commits
    PROVE  /\ AdminList(For(calls, u)) /\ For(calls, u) # <<>>
           /\ Head(For(calls, u)) = <<calls[1], u>>
           /\ \A x : Has(For(calls, u), x) <=> \E i \in 1 .. Len(calls) : x = <<calls[i], u>>
<1> DEFINE r == For(calls, u)
<1>1. /\ r \in Seq(AdminCalls \X User) /\ Len(r) = Len(calls) /\ Len(calls) \in Nat
      /\ \A i \in 1 .. Len(calls) : r[i] = <<calls[i], u>>
      /\ r # <<>> /\ Head(r) = <<calls[1], u>>
  BY ForType, LenProperties
<1> HIDE DEF r
<1>2. \A i \in 2 .. Len(calls) : i \in 1 .. Len(calls) /\ r[i][1] = calls[i]
  BY <1>1
<1>3. AdminList(r)
  BY <1>1, <1>2 DEF AdminList
<1>4. \A x : Has(r, x) <=> \E i \in 1 .. Len(calls) : x = <<calls[i], u>>
  BY <1>1 DEF Has
<1> QED BY <1>1, <1>3, <1>4 DEF r

\* The lists that requests of administrators start on.
LEMMA AdminStarts ==
    ASSUME NEW u \in User,
           NEW calls \in {RevocationCalls, UpdateCalls, StatusCalls, <<"revokeCode">>}
    PROVE  /\ AdminList(For(calls, u)) /\ For(calls, u) # <<>> /\ Prepared(For(calls, u))
           /\ Head(For(calls, u))[1] \in Commits
<1>1. CASE calls = RevocationCalls
  <2>1. /\ calls \in Seq(AdminCalls) /\ calls # <<>> /\ Len(calls) = 4
        /\ calls[1] = "save" /\ calls[2] = "forget" /\ calls[3] = "untag" /\ calls[4] = "residents"
    BY <1>1 DEF RevocationCalls, AdminCalls, Commits
  <2>2. \A i \in 1 .. 4 : i = 1 \/ i = 2 \/ i = 3 \/ i = 4
    OBVIOUS
  <2>3. \A i \in 2 .. 4 : calls[i] \notin Commits
    BY <2>1, <2>2 DEF Commits
  <2>4. /\ AdminList(For(calls, u)) /\ For(calls, u) # <<>> /\ Head(For(calls, u)) = <<calls[1], u>>
        /\ \A x : Has(For(calls, u), x) <=> \E i \in 1 .. 4 : x = <<calls[i], u>>
    BY <2>1, <2>3, AdminFor
  <2>5. \A x : Has(For(calls, u), x) <=> x \in {<<"save", u>>, <<"forget", u>>, <<"untag", u>>, <<"residents", u>>}
    BY <2>1, <2>2, <2>4
  <2> QED BY <2>1, <2>4, <2>5 DEF Prepared, Commits
<1>2. CASE calls = UpdateCalls
  <2>1. /\ calls \in Seq(AdminCalls) /\ calls # <<>> /\ Len(calls) = 3
        /\ calls[1] = "update" /\ calls[2] = "forget" /\ calls[3] = "untag"
    BY <1>2 DEF UpdateCalls, AdminCalls, Commits
  <2>2. \A i \in 1 .. 3 : i = 1 \/ i = 2 \/ i = 3
    OBVIOUS
  <2>3. \A i \in 2 .. 3 : calls[i] \notin Commits
    BY <2>1, <2>2 DEF Commits
  <2>4. /\ AdminList(For(calls, u)) /\ For(calls, u) # <<>> /\ Head(For(calls, u)) = <<calls[1], u>>
        /\ \A x : Has(For(calls, u), x) <=> \E i \in 1 .. 3 : x = <<calls[i], u>>
    BY <2>1, <2>3, AdminFor
  <2>5. \A x : Has(For(calls, u), x) <=> x \in {<<"update", u>>, <<"forget", u>>, <<"untag", u>>}
    BY <2>1, <2>2, <2>4
  <2> QED BY <2>1, <2>4, <2>5 DEF Prepared, Commits
<1>3. CASE calls = StatusCalls
  <2>1. /\ calls \in Seq(AdminCalls) /\ calls # <<>> /\ Len(calls) = 2
        /\ calls[1] = "suspend" /\ calls[2] = "announce"
    BY <1>3 DEF StatusCalls, AdminCalls, Commits
  <2>2. \A i \in 1 .. 2 : i = 1 \/ i = 2
    OBVIOUS
  <2>3. \A i \in 2 .. 2 : calls[i] \notin Commits
    BY <2>1, <2>2 DEF Commits
  <2>4. /\ AdminList(For(calls, u)) /\ For(calls, u) # <<>> /\ Head(For(calls, u)) = <<calls[1], u>>
        /\ \A x : Has(For(calls, u), x) <=> \E i \in 1 .. 2 : x = <<calls[i], u>>
    BY <2>1, <2>3, AdminFor
  <2> QED BY <2>1, <2>4 DEF Prepared, Commits
<1>4. CASE calls = <<"revokeCode">>
  <2>1. calls \in Seq(AdminCalls) /\ calls # <<>> /\ Len(calls) = 1 /\ calls[1] = "revokeCode"
    BY <1>4 DEF AdminCalls, Commits
  <2>2. /\ AdminList(For(calls, u)) /\ For(calls, u) # <<>> /\ Head(For(calls, u)) = <<calls[1], u>>
        /\ \A x : Has(For(calls, u), x) <=> \E i \in 1 .. 1 : x = <<calls[i], u>>
    BY <2>1, AdminFor
  <2>3. \A x : Has(For(calls, u), x) <=> x = <<"revokeCode", u>>
    BY <2>1, <2>2
  <2> QED BY <2>1, <2>2, <2>3 DEF Prepared, Commits
<1> QED BY <1>1, <1>2, <1>3, <1>4

LEMMA Listed ==
    ASSUME NEW S, IsFiniteSet(S)
    PROVE  /\ SetToSeq(S) \in Seq(S)
           /\ \A x \in S : Has(SetToSeq(S), x)
<1> DEFINE n == Cardinality(S)
           f == SetToSeq(S)
<1>1. n \in Nat /\ ExistsBijection(1 .. n, S)
  BY FS_CardinalityType
<1>2. \E g \in [1 .. n -> S] : IsInjective(g)
  BY <1>1 DEF ExistsBijection, Bijection, Injection
<1>3. f \in [1 .. n -> S] /\ IsInjective(f)
  BY <1>2 DEF SetToSeq
<1>4. f \in Injection(1 .. n, S)
  BY <1>3 DEF Injection
<1>5. IsFiniteSet(1 .. n) /\ Cardinality(1 .. n) = n
  BY <1>1, FS_Interval
<1> HIDE DEF n, f
<1>6. Cardinality(1 .. n) = Cardinality(S)
  BY <1>5 DEF n
<1>7. f \in Surjection(1 .. n, S)
  BY <1>4, <1>6, FS_Injection
<1>8. f \in Seq(S) /\ Len(f) = n
  BY <1>1, <1>3
<1>9. \A x \in S : \E i \in 1 .. n : f[i] = x
  BY <1>7 DEF Surjection
<1> QED BY <1>8, <1>9 DEF f, Has

LEMMA ForgettingType ==
    ASSUME NEW found \in Seq(User)
    PROVE  /\ Forgetting(found) \in Seq(AdminCalls \X User)
           /\ \A i \in 1 .. Len(Forgetting(found)) : Forgetting(found)[i][1] \in {"untag", "forget"}
           /\ \A u : Has(found, u) => Has(Forgetting(found), <<"untag", u>>)
<1> DEFINE n == Len(found)
           f == Forgetting(found)
<1>1. n \in Nat /\ \A i \in 1 .. n : found[i] \in User
  BY LenProperties, ElementOfSeq
<1>2. ASSUME NEW i \in 1 .. 2 * n
      PROVE  /\ i % 2 = 1 => (i + 1) \div 2 \in 1 .. n
             /\ i % 2 # 1 => i \div 2 \in 1 .. n
  BY <1>1
<1>3. \A i \in 1 .. 2 * n : f[i] = IF i % 2 = 1 THEN <<"untag", found[(i + 1) \div 2]>>
                                                 ELSE <<"forget", found[i \div 2]>>
  BY DEF Forgetting
<1>4. ASSUME NEW i \in 1 .. 2 * n
      PROVE  f[i] \in AdminCalls \X User /\ f[i][1] \in {"untag", "forget"}
  <2>1. f[i] = <<"untag", found[(i + 1) \div 2]>> \/ f[i] = <<"forget", found[i \div 2]>>
    BY <1>3
  <2>2. (i % 2 = 1 /\ found[(i + 1) \div 2] \in User) \/ (i % 2 # 1 /\ found[i \div 2] \in User)
    BY <1>1, <1>2
  <2>3. PICK u \in User : f[i] = <<"untag", u>> \/ f[i] = <<"forget", u>>
    BY <1>3, <2>2
  <2>4. "untag" \in AdminCalls /\ "forget" \in AdminCalls
    BY DEF AdminCalls
  <2>5. <<"untag", u>> \in AdminCalls \X User /\ <<"forget", u>> \in AdminCalls \X User
    BY <2>4
  <2>6. <<"untag", u>>[1] \in {"untag", "forget"} /\ <<"forget", u>>[1] \in {"untag", "forget"}
    OBVIOUS
  <2> HIDE DEF f
  <2> QED BY <2>3, <2>5, <2>6
<1>5. f \in [1 .. 2 * n -> AdminCalls \X User]
  <2>1. DOMAIN f = 1 .. 2 * n /\ f = [i \in 1 .. 2 * n |-> f[i]]
    BY DEF Forgetting
  <2> QED BY <1>4, <2>1
<1>6. f \in Seq(AdminCalls \X User) /\ Len(f) = 2 * n
  <2> DEFINE m == 2 * n
  <2>1. m \in Nat /\ f \in [1 .. m -> AdminCalls \X User]
    BY <1>1, <1>5
  <2> HIDE DEF m, f
  <2>2. f \in Seq(AdminCalls \X User) /\ Len(f) = m
    BY <2>1
  <2> QED BY <2>2 DEF m
<1>7. ASSUME NEW u, Has(found, u) PROVE Has(f, <<"untag", u>>)
  <2>1. PICK k \in 1 .. n : found[k] = u
    BY <1>7 DEF Has
  <2>2. 2 * k - 1 \in 1 .. 2 * n /\ (2 * k - 1) % 2 = 1 /\ ((2 * k - 1) + 1) \div 2 = k
    BY <1>1
  <2>3. f[2 * k - 1] = <<"untag", u>>
    BY <1>3, <2>1, <2>2
  <2> QED BY <1>6, <2>2, <2>3 DEF Has
<1> QED BY <1>4, <1>6, <1>7

\* The residents' entries come before the rest of a list that has committed.
LEMMA ForgettingFirst ==
    ASSUME NEW found \in Seq(User), NEW t \in Seq(AdminCalls \X User),
           \A i \in 1 .. Len(t) : t[i][1] \notin Commits
    PROVE  LET r == Forgetting(found) \o t
           IN  /\ r \in Seq(AdminCalls \X User)
               /\ \A i \in 1 .. Len(r) : r[i][1] \notin Commits
               /\ \A x : Has(r, x) <=> Has(Forgetting(found), x) \/ Has(t, x)
<1> DEFINE f == Forgetting(found)
           r == f \o t
<1>1. f \in Seq(AdminCalls \X User) /\ \A i \in 1 .. Len(f) : f[i][1] \in {"untag", "forget"}
  BY ForgettingType
<1> HIDE DEF f
<1>2. /\ r \in Seq(AdminCalls \X User) /\ Len(f) \in Nat /\ Len(t) \in Nat
      /\ Len(r) = Len(f) + Len(t)
      /\ \A i \in 1 .. Len(f) + Len(t) : r[i] = IF i <= Len(f) THEN f[i] ELSE t[i - Len(f)]
  BY <1>1, ConcatProperties, LenProperties
<1>3. ASSUME NEW i \in 1 .. Len(r)
      PROVE  \/ i \in 1 .. Len(f) /\ r[i] = f[i]
             \/ i - Len(f) \in 1 .. Len(t) /\ r[i] = t[i - Len(f)]
  BY <1>2
<1>4. ASSUME NEW i \in 1 .. Len(f) PROVE i \in 1 .. Len(r) /\ r[i] = f[i]
  BY <1>2
<1>5. ASSUME NEW i \in 1 .. Len(t) PROVE i + Len(f) \in 1 .. Len(r) /\ r[i + Len(f)] = t[i]
  <2>1. i + Len(f) \in 1 .. Len(f) + Len(t) /\ ~(i + Len(f) <= Len(f)) /\ (i + Len(f)) - Len(f) = i
    BY <1>2
  <2> QED BY <1>2, <2>1
<1> HIDE DEF r
<1>6. \A i \in 1 .. Len(r) : r[i][1] \notin Commits
  BY <1>1, <1>3 DEF Commits
<1>7. \A x : Has(r, x) <=> Has(f, x) \/ Has(t, x)
  BY <1>3, <1>4, <1>5 DEF Has
<1> QED BY <1>2, <1>6, <1>7 DEF f, r

-----------------------------------------------------------------------------
(* Jobs.                                                                   *)

LEMMA CallNames ==
    /\ \A s : s \in Seq(ClientCalls \X User) => s \in Seq(Call)
    /\ \A s : s \in Seq(AdminCalls \X User) => s \in Seq(Call)
<1>1. ClientCalls \X User \subseteq Call
  BY DEF ClientCalls, Call
<1>2. AdminCalls \X User \subseteq Call
  BY DEF AdminCalls, Commits, Call
<1> HIDE DEF User, ClientCalls, AdminCalls, Call
<1>3. ASSUME NEW K, K \subseteq Call, NEW s \in Seq(K) PROVE s \in Seq(Call)
  <2>1. Len(s) \in Nat /\ DOMAIN s = 1 .. Len(s) /\ \A i \in 1 .. Len(s) : s[i] \in Call
    BY <1>3, LenProperties, ElementOfSeq
  <2>2. s = [i \in 1 .. Len(s) |-> s[i]]
    BY <1>3, LenProperties
  <2> DEFINE n == Len(s)
  <2>3. n \in Nat /\ s \in [1 .. n -> Call]
    BY <2>1, <2>2
  <2> HIDE DEF n
  <2> QED BY <2>3
<1> QED BY <1>1, <1>2, <1>3

\* A process that turns to a fitting job, or to none, is the only one that moves.
LEMMA TurnTo ==
    ASSUME JobsFit(job), NEW p \in Process, NEW j, Become(p, j),
           j.todo # <<>> => /\ j \in Job
                            /\ p \in Client => ClientFits(j)
                            /\ p \in Admin => AdminFits(j)
    PROVE  /\ JobsFit(job')
           /\ \A q \in Process \ {p} : job'[q] = job[q]
           /\ j.todo = <<>> => job'[p] = None
           /\ j.todo # <<>> => job'[p] = j
<1> DEFINE i == IF j.todo = <<>> THEN None ELSE j
<1>1. job' = [job EXCEPT ![p] = i] /\ job \in [Process -> Job \cup {None}]
  BY DEF Become, JobsFit
<1>2. /\ i \in Job \cup {None}
      /\ i # None => (p \in Client => ClientFits(i)) /\ (p \in Admin => AdminFits(i))
  OBVIOUS
<1>3. (j.todo = <<>> => i = None) /\ (j.todo # <<>> => i = j)
  OBVIOUS
<1> HIDE DEF i
<1>4. job' \in [Process -> Job \cup {None}] /\ job'[p] = i /\ \A q \in Process \ {p} : job'[q] = job[q]
  BY <1>1, <1>2
<1>5. ASSUME NEW q \in Process, job'[q] # None
      PROVE  (q \in Client => ClientFits(job'[q])) /\ (q \in Admin => AdminFits(job'[q]))
  BY <1>2, <1>4, <1>5 DEF JobsFit
<1>6. JobsFit(job')
  BY <1>4, <1>5 DEF JobsFit, Process
<1> QED BY <1>3, <1>4, <1>6

LEMMA Dropped ==
    ASSUME JobsFit(job), NEW p \in Process, job' = [job EXCEPT ![p] = None]
    PROVE  /\ JobsFit(job') /\ job'[p] = None
           /\ \A q \in Process \ {p} : job'[q] = job[q]
<1>1. /\ job' \in [Process -> Job \cup {None}] /\ job'[p] = None
      /\ \A q \in Process \ {p} : job'[q] = job[q]
  BY DEF JobsFit
<1>2. \A q \in Process : job'[q] = None \/ job'[q] = job[q]
  BY <1>1
<1> QED BY <1>1, <1>2 DEF JobsFit, Process

\* Process p makes one of the calls X next, or none, about the same user.
Turns(p, X) ==
    /\ JobsFit(job')
    /\ \A q \in Process \ {p} : job'[q] = job[q]
    /\ job'[p] # None => /\ Head(job'[p].todo)[1] \in X
                         /\ Head(job'[p].todo)[2] = Head(job[p].todo)[2]
                         /\ job'[p].late = job[p].late

LEMMA ClientGoes ==
    ASSUME JobsFit(job), NEW c \in Client, ~Idle(c), NEW calls,
           calls # <<>> => ClientList(calls), Goto(c, calls)
    PROVE  /\ JobsFit(job')
           /\ \A q \in Process \ {c} : job'[q] = job[q]
           /\ job'[c] # None => calls # <<>> /\ job'[c].todo = calls /\ job'[c].late = job[c].late
<1> DEFINE j == [job[c] EXCEPT !.todo = calls]
<1>1. c \in Process /\ (c \in Admin => FALSE)
  BY ProcessAssumption DEF Process
<1>2. job[c] \in Job
  BY DEF JobsFit, Idle, ClientFits
<1>3. /\ Become(c, j) /\ j.todo = calls /\ j.late = job[c].late
  BY <1>2 DEF Goto, Job
<1>4. calls # <<>> => j \in Job
  BY <1>2, CallNames DEF ClientList, Job
<1> HIDE DEF j
<1>5. calls # <<>> => ClientFits(j)
  BY <1>3, <1>4 DEF ClientFits
<1> QED BY <1>1, <1>3, <1>4, <1>5, TurnTo

LEMMA ClientProceeds ==
    ASSUME JobsFit(job), NEW c \in Client, ~Idle(c), Proceed(c)
    PROVE  Turns(c, {y \in ClientCalls : Follows(Head(job[c].todo)[1], y)})
<1> DEFINE s == job[c].todo
           t == Tail(s)
<1>1. ClientList(s) /\ s # <<>>
  BY DEF JobsFit, Idle, ClientFits
<1>2. Goto(c, t)
  BY DEF Proceed, Rest
<1> HIDE DEF s
<1>3. ClientList(t)
  BY <1>1, ClientTail
<1>4. t # <<>> => /\ Follows(Head(s)[1], Head(t)[1]) /\ Head(t)[2] = Head(s)[2]
                  /\ Head(t)[1] \in ClientCalls
  <2>1. t # <<>> => Head(t) \in ClientCalls \X User
    BY <1>3, ClientTail
  <2> QED BY <1>1, <2>1, ClientTail
<1> HIDE DEF t
<1>5. /\ JobsFit(job')
      /\ \A q \in Process \ {c} : job'[q] = job[q]
      /\ job'[c] # None => t # <<>> /\ job'[c].todo = t /\ job'[c].late = job[c].late
  BY <1>2, <1>3, ClientGoes
<1> QED BY <1>4, <1>5 DEF Turns, s

LEMMA ClientTurnsTo ==
    ASSUME JobsFit(job), NEW c \in Client, ~Idle(c), NEW x \in ClientCalls,
           Goto(c, << <<x, Who(c)>> >>)
    PROVE  Turns(c, {x}) /\ job'[c] # None
<1> DEFINE r == << <<x, Who(c)>> >>
<1>1. Who(c) \in User
  BY ClientTail DEF JobsFit, Idle, ClientFits, Who
<1>2. ClientList(r) /\ r # <<>> /\ Head(r) = <<x, Who(c)>>
  BY <1>1, ClientOne
<1>3. Goto(c, r)
  OBVIOUS
<1> HIDE DEF r
<1>4. /\ JobsFit(job')
      /\ \A q \in Process \ {c} : job'[q] = job[q]
      /\ job'[c] # None => job'[c].todo = r /\ job'[c].late = job[c].late
  BY <1>2, <1>3, ClientGoes
<1>5. job'[c] # None
  <2>1. /\ job[c] \in Job /\ c \in Process /\ job \in [Process -> Job \cup {None}]
    BY DEF JobsFit, Idle, ClientFits, Process
  <2>2. [job[c] EXCEPT !.todo = r] \in Job /\ [job[c] EXCEPT !.todo = r].todo = r
    BY <1>2, <2>1, CallNames DEF ClientList, Job
  <2>3. job'[c] = [job[c] EXCEPT !.todo = r]
    BY <1>2, <1>3, <2>1, <2>2 DEF Goto, Become
  <2> QED BY <2>2, <2>3, NoneAssumption
<1>6. Head(r)[1] = x /\ Head(r)[2] = Head(job[c].todo)[2]
  BY <1>2 DEF Who
<1> QED BY <1>4, <1>5, <1>6 DEF Turns

LEMMA ClientSwaps ==
    ASSUME JobsFit(job), NEW c \in Client, ~Idle(c), NEW x \in ClientCalls,
           \A y : Follows(Head(job[c].todo)[1], y) => Follows(x, y),
           Goto(c, << <<x, Who(c)>> >> \o Rest(c))
    PROVE  Turns(c, {x})
<1> DEFINE s == job[c].todo
           r == << <<x, Head(s)[2]>> >> \o Tail(s)
<1>1. ClientList(s) /\ s # <<>>
  BY DEF JobsFit, Idle, ClientFits
<1>2. Goto(c, r)
  BY DEF Rest, Who
<1>3. \A y : Follows(Head(s)[1], y) => Follows(x, y)
  OBVIOUS
<1> HIDE DEF s
<1>4. Tail(s) # <<>> => Follows(x, Head(Tail(s))[1])
  BY <1>1, <1>3, ClientTail
<1>5. ClientList(r) /\ r # <<>> /\ Head(r) = <<x, Head(s)[2]>>
  BY <1>1, <1>4, ClientSwap
<1> HIDE DEF r
<1>6. /\ JobsFit(job')
      /\ \A q \in Process \ {c} : job'[q] = job[q]
      /\ job'[c] # None => job'[c].todo = r /\ job'[c].late = job[c].late
  BY <1>2, <1>5, ClientGoes
<1>7. Head(r)[1] = x /\ Head(r)[2] = Head(s)[2]
  BY <1>5
<1> QED BY <1>6, <1>7 DEF Turns, s

LEMMA ClientRefuses ==
    ASSUME JobsFit(job), NEW c \in Client, ~Idle(c), Refuse(c)
    PROVE  Turns(c, {}) /\ job'[c] = None
<1>1. PICK none : none = <<>>
  OBVIOUS
<1>2. Goto(c, none)
  BY <1>1 DEF Refuse
<1>3. /\ JobsFit(job')
      /\ \A q \in Process \ {c} : job'[q] = job[q]
      /\ job'[c] # None => none # <<>>
  BY <1>1, <1>2, ClientGoes
<1> QED BY <1>1, <1>3 DEF Turns

\* What each step of a client's request leaves it to do.
LEMMA ClientTurns ==
    ASSUME JobsFit(job), account \in [User -> Account], NEW c \in Client
    PROVE  /\ TenantHit(c) \/ Validate(c) \/ TagHit(c) \/ Remember(c) \/ Enlist(c) => Turns(c, {})
           /\ TenantMiss(c) => Turns(c, {"validate"})
           /\ Banned(c) => Turns(c, {"session"})
           /\ SessionHit(c) \/ Keep(c) => Turns(c, {"ban"})
           /\ SessionMiss(c) => Turns(c, {"account"})
           /\ ReadAccount(c) \/ Credentials(c) => Turns(c, {"keep"})
           /\ Ban(c) => Turns(c, {"forget"})
           /\ Forget(c) => Turns(c, {})
           /\ TagMiss(c) => Turns(c, {"holder"})
           /\ ReadHolder(c) => Turns(c, {"landlord", "remember"})
           /\ ReadLandlord(c) => Turns(c, {"remember"})
           /\ ReadCode(c) => Turns(c, {"enlist"})
\* A refusal is one of the cases.
<1>1. ASSUME NEW X, NEW Y, Turns(c, X), X \subseteq Y PROVE Turns(c, Y)
  BY <1>1 DEF Turns
<1>2. ASSUME ~Idle(c), Refuse(c), NEW Y PROVE Turns(c, Y)
  <2>1. Turns(c, {})
    BY <1>2, ClientRefuses
  <2> QED BY <1>1, <2>1
\* So is the next call of the list.
<1>3. ASSUME NEW x, At(c, x), Proceed(c), NEW Y, \A y : Follows(x, y) => y \in Y
      PROVE  Turns(c, Y)
  <2> DEFINE X == {y \in ClientCalls : Follows(Head(job[c].todo)[1], y)}
  <2>1. Turns(c, X) /\ Head(job[c].todo)[1] = x
    BY <1>3, ClientProceeds DEF At
  <2>2. X \subseteq Y
    BY <1>3, <2>1
  <2> HIDE DEF X
  <2> QED BY <1>1, <2>1, <2>2
<1>4. /\ \A x \in {"tenant", "validate", "tag", "remember", "enlist", "forget"} : \A y : ~Follows(x, y)
      /\ \A y : Follows("banned", y) => y \in {"session"}
      /\ \A y : Follows("session", y) => y \in {"ban"}
      /\ \A y : Follows("keep", y) => y \in {"ban"}
      /\ \A y : Follows("ban", y) => y \in {"forget"}
      /\ \A y : Follows("session", y) => Follows("account", y)
      /\ \A y : Follows("account", y) => Follows("keep", y)
  BY DEF Follows
<1>5. {"validate", "account", "keep", "holder", "landlord", "remember", "enlist"} \subseteq ClientCalls
  BY DEF ClientCalls
<1>6. ASSUME NEW x, At(c, x) PROVE ~Idle(c) /\ Head(job[c].todo)[1] = x
  BY <1>6 DEF At
<1>7. ASSUME NEW x \in {"tenant", "validate", "tag", "remember", "enlist", "forget"}, At(c, x), Proceed(c)
      PROVE  Turns(c, {})
  <2>1. \A y : Follows(x, y) => y \in {}
    BY <1>4, <1>7
  <2> QED BY <1>3, <1>7, <2>1
<1>8. TenantHit(c) => Turns(c, {})
  BY <1>7 DEF TenantHit
<1>9. Validate(c) => Turns(c, {})
  BY <1>7 DEF Validate
<1>10. TagHit(c) => Turns(c, {})
  BY <1>7 DEF TagHit
<1>11. Remember(c) => Turns(c, {})
  BY <1>7 DEF Remember
<1>12. Enlist(c) => Turns(c, {})
  BY <1>7 DEF Enlist
<1>13. Forget(c) => Turns(c, {})
  BY <1>7 DEF Forget
<1>14. TenantMiss(c) => Turns(c, {"validate"})
  BY <1>5, <1>6, ClientTurnsTo DEF TenantMiss
<1>15. TagMiss(c) => Turns(c, {"holder"})
  BY <1>5, <1>6, ClientTurnsTo DEF TagMiss
<1>16. Banned(c) => Turns(c, {"session"})
  <2>1. ASSUME Banned(c), Proceed(c) PROVE Turns(c, {"session"})
    BY <1>3, <1>4, <2>1 DEF Banned
  <2>2. ASSUME Banned(c), Refuse(c) PROVE Turns(c, {"session"})
    BY <1>2, <1>6, <2>2 DEF Banned
  <2>3. Banned(c) => Proceed(c) \/ Refuse(c)
    BY DEF Banned
  <2> QED BY <2>1, <2>2, <2>3
<1>17. SessionHit(c) => Turns(c, {"ban"})
  BY <1>3, <1>4 DEF SessionHit
<1>18. Keep(c) => Turns(c, {"ban"})
  BY <1>3, <1>4 DEF Keep
<1>19. Ban(c) => Turns(c, {"forget"})
  BY <1>3, <1>4 DEF Ban
<1>20. SessionMiss(c) => Turns(c, {"account"})
  <2> SUFFICES ASSUME SessionMiss(c) PROVE Turns(c, {"account"})
    OBVIOUS
  <2>1. ~Idle(c) /\ Head(job[c].todo)[1] = "session"
    BY DEF SessionMiss, At
  <2>2. \A y : Follows(Head(job[c].todo)[1], y) => Follows("account", y)
    BY <1>4, <2>1
  <2>3. Goto(c, << <<"account", Who(c)>> >> \o Rest(c))
    BY DEF SessionMiss
  <2> QED BY <1>5, <2>1, <2>2, <2>3, ClientSwaps
<1>21. ReadAccount(c) => Turns(c, {"keep"})
  <2> SUFFICES ASSUME ReadAccount(c) PROVE Turns(c, {"keep"})
    OBVIOUS
  <2>1. ~Idle(c) /\ Head(job[c].todo)[1] = "account"
    BY DEF ReadAccount, At
  <2>2. \A y : Follows(Head(job[c].todo)[1], y) => Follows("keep", y)
    BY <1>4, <2>1
  <2>3. Goto(c, << <<"keep", Who(c)>> >> \o Rest(c)) \/ Refuse(c)
    BY DEF ReadAccount
  <2> QED BY <1>2, <1>5, <2>1, <2>2, <2>3, ClientSwaps
<1>22. Credentials(c) => Turns(c, {"keep"})
  <2> SUFFICES ASSUME Credentials(c) PROVE Turns(c, {"keep"})
    OBVIOUS
  <2>1. ~Idle(c)
    BY DEF Credentials, At
  <2>2. Goto(c, << <<"keep", Who(c)>> >>) \/ Refuse(c)
    BY DEF Credentials
  <2> QED BY <1>2, <1>5, <2>1, <2>2, ClientTurnsTo
<1>23. ReadHolder(c) => Turns(c, {"landlord", "remember"})
  <2> SUFFICES ASSUME ReadHolder(c) PROVE Turns(c, {"landlord", "remember"})
    OBVIOUS
  <2>1. ~Idle(c)
    BY DEF ReadHolder, At
  <2>2. \/ Refuse(c) \/ Goto(c, << <<"landlord", Who(c)>> >>) \/ Goto(c, << <<"remember", Who(c)>> >>)
    BY DEF ReadHolder
  <2>3. Turns(c, {"landlord"}) => Turns(c, {"landlord", "remember"})
    BY <1>1
  <2>4. Turns(c, {"remember"}) => Turns(c, {"landlord", "remember"})
    BY <1>1
  <2> QED BY <1>2, <1>5, <2>1, <2>2, <2>3, <2>4, ClientTurnsTo
<1>24. ReadLandlord(c) => Turns(c, {"remember"})
  <2> SUFFICES ASSUME ReadLandlord(c) PROVE Turns(c, {"remember"})
    OBVIOUS
  <2>1. ~Idle(c)
    BY DEF ReadLandlord, At
  <2>2. Goto(c, << <<"remember", Who(c)>> >>) \/ Refuse(c)
    BY DEF ReadLandlord
  <2> QED BY <1>2, <1>5, <2>1, <2>2, ClientTurnsTo
<1>25. ReadCode(c) => Turns(c, {"enlist"})
  <2> SUFFICES ASSUME ReadCode(c) PROVE Turns(c, {"enlist"})
    OBVIOUS
  <2>1. ~Idle(c)
    BY DEF ReadCode, At
  <2>2. CASE Refuse(c)
    BY <1>2, <2>1, <2>2
  <2>3. CASE ~Refuse(c)
    <3> DEFINE r == << <<"enlist", Who(c)>> >>
               j == [job[c] EXCEPT !.todo = r, !.from = account[Who(c)]]
    <3>1. Become(c, j)
      BY <2>3 DEF ReadCode
    <3>2. job[c] \in Job /\ Who(c) \in User
      BY <2>1, ClientTail DEF JobsFit, Idle, ClientFits, Who
    <3>3. ClientList(r) /\ r # <<>> /\ Head(r) = <<"enlist", Who(c)>>
      BY <1>5, <3>2, ClientOne
    <3> HIDE DEF r
    <3>4. r \in Seq(Call) /\ account[Who(c)] \in Account
      BY <3>2, <3>3, CallNames DEF ClientList
    <3>5. j \in Job /\ j.todo = r /\ j.late = job[c].late
      BY <3>2, <3>4 DEF Job
    <3> HIDE DEF j
    <3>6. ClientFits(j)
      BY <3>3, <3>5 DEF ClientFits
    <3>7. c \in Process /\ c \notin Admin
      BY ProcessAssumption DEF Process
    <3>8. JobsFit(job') /\ job'[c] = j /\ \A q \in Process \ {c} : job'[q] = job[q]
      BY <3>1, <3>3, <3>5, <3>6, <3>7, TurnTo
    <3>9. Head(r)[1] = "enlist" /\ Head(r)[2] = Head(job[c].todo)[2]
      BY <3>3 DEF Who
    <3> QED BY <3>5, <3>8, <3>9 DEF Turns
  <2> QED BY <2>2, <2>3
<1> QED BY <1>8, <1>9, <1>10, <1>11, <1>12, <1>13, <1>14, <1>15, <1>16, <1>17, <1>18, <1>19,
           <1>20, <1>21, <1>22, <1>23, <1>24, <1>25

\* A new request has a list that fits.
LEMMA StartTurns ==
    ASSUME JobsFit(job), account \in [User -> Account],
           NEW p \in Process, NEW S, NEW calls, NEW to \in Account, NEW u \in User,
           For(calls, u) # <<>>,
           p \in Client => ClientList(For(calls, u)),
           p \in Admin => AdminList(For(calls, u)) /\ Prepared(For(calls, u)),
           Start(p, S, calls, to, u)
    PROVE  /\ JobsFit(job') /\ Idle(p)
           /\ \A q \in Process \ {p} : job'[q] = job[q]
           /\ job'[p] # None /\ job'[p].todo = For(calls, u) /\ job'[p].late = (u \in out)
<1> DEFINE r == For(calls, u)
           j == [todo |-> r, from |-> account[u], to |-> to, late |-> u \in out]
<1>1. Become(p, j) /\ Idle(p)
  BY DEF Start, Takes, For
<1>2. /\ r # <<>>
      /\ p \in Client => ClientList(r)
      /\ p \in Admin => AdminList(r) /\ Prepared(r)
  OBVIOUS
<1> HIDE DEF r
<1>3. r \in Seq(Call)
  BY <1>2, CallNames DEF ClientList, AdminList, Process
<1>4. j \in Job /\ j.todo = r /\ j.to = to /\ j.late = (u \in out)
  BY <1>3 DEF Job
<1> HIDE DEF j
<1>5. (p \in Client => ClientFits(j)) /\ (p \in Admin => AdminFits(j))
  BY <1>2, <1>4 DEF ClientFits, AdminFits
<1>6. JobsFit(job') /\ job'[p] = j /\ \A q \in Process \ {p} : job'[q] = job[q]
  BY <1>1, <1>2, <1>4, <1>5, TurnTo
<1>7. j # None
  BY <1>4, NoneAssumption
<1> QED BY <1>1, <1>4, <1>6, <1>7 DEF r

\* The calls that a request of a client may start with.
FirstCalls == {"tenant", "banned", "credentials", "tag", "code"}

LEMMA ClientStartTurns ==
    ASSUME JobsFit(job), account \in [User -> Account], NEW c \in Client, ClientStart(c)
    PROVE  /\ JobsFit(job') /\ Idle(c)
           /\ \A q \in Process \ {c} : job'[q] = job[q]
           /\ job'[c] # None /\ Head(job'[c].todo)[1] \in FirstCalls
           /\ Head(job'[c].todo)[2] \in User
           /\ job'[c].late = (Head(job'[c].todo)[2] \in out)
<1>1. c \in Process /\ c \notin Admin
  BY ProcessAssumption DEF Process
<1>2. ASSUME NEW calls, NEW u \in User, NEW x \in FirstCalls, Begin(c, calls, u),
             ClientList(For(calls, u)), For(calls, u) # <<>>, Head(For(calls, u)) = <<x, u>>
      PROVE  /\ JobsFit(job') /\ Idle(c)
             /\ \A q \in Process \ {c} : job'[q] = job[q]
             /\ job'[c] # None /\ Head(job'[c].todo)[1] \in FirstCalls
             /\ Head(job'[c].todo)[2] \in User
             /\ job'[c].late = (Head(job'[c].todo)[2] \in out)
  <2>1. account[u] \in Account /\ Start(c, Client, calls, account[u], u)
    BY <1>2 DEF Begin
  <2>2. /\ JobsFit(job') /\ Idle(c)
        /\ \A q \in Process \ {c} : job'[q] = job[q]
        /\ job'[c] # None /\ job'[c].todo = For(calls, u) /\ job'[c].late = (u \in out)
    BY <1>1, <1>2, <2>1, StartTurns
  <2>3. Head(job'[c].todo)[1] = x /\ Head(job'[c].todo)[2] = u
    BY <1>2, <2>2
  <2> QED BY <2>2, <2>3
<1>3. FirstCalls \subseteq ClientCalls /\ Landlord \in User /\ Resident \subseteq User
  BY DEF FirstCalls, ClientCalls, User
<1>4. PICK u \in User,
           calls \in { <<"tenant">>, Authenticate, Authenticate \o <<"ban", "forget">>,
                       <<"credentials">>, <<"tag">>, <<"code">> } :
        Begin(c, calls, u)
  BY <1>3 DEF ClientStart, StartTenantCheck, StartApi, StartLogout, StartLogin, StartRfid, StartRegister
<1>5. "tenant" \in FirstCalls /\ "banned" \in FirstCalls /\ "credentials" \in FirstCalls
      /\ "tag" \in FirstCalls /\ "code" \in FirstCalls
  BY DEF FirstCalls
<1>6. CASE calls = Authenticate \/ calls = Authenticate \o <<"ban", "forget">>
  <2>1. ClientList(For(calls, u)) /\ For(calls, u) # <<>> /\ Head(For(calls, u)) = <<"banned", u>>
    BY <1>6, ClientStarts
  <2> HIDE DEF Begin, FirstCalls
  <2> QED BY <1>2, <1>4, <1>5, <2>1
<1>7. ASSUME NEW x \in FirstCalls, calls = <<x>>
      PROVE  ClientList(For(calls, u)) /\ For(calls, u) # <<>> /\ Head(For(calls, u)) = <<x, u>>
  BY <1>3, <1>7, ClientStarts
<1>8. CASE \E x \in FirstCalls : calls = <<x>>
  BY <1>2, <1>4, <1>7, <1>8
<1> QED BY <1>4, <1>5, <1>6, <1>8

-----------------------------------------------------------------------------
(* What administrators' requests owe.                                      *)

\* Request a goes on to the rest of its list, and owes it.
Advances(a) ==
    /\ JobsFit(job')
    /\ \A q \in Process \ {a} : job'[q] = job[q]
    /\ \A x : Has(job[a].todo, x) /\ x # Head(job[a].todo) => Owing(job', a, x)

LEMMA AdminGoes ==
    ASSUME JobsFit(job), NEW a \in Admin, ~Idle(a), NEW t \in Seq(AdminCalls \X User),
           \A i \in 1 .. Len(t) : t[i][1] \notin Commits,
           Goto(a, t)
    PROVE  /\ JobsFit(job')
           /\ \A q \in Process \ {a} : job'[q] = job[q]
           /\ \A x : Has(t, x) => Owing(job', a, x)
<1> DEFINE j == [job[a] EXCEPT !.todo = t]
<1>1. a \in Process /\ a \notin Client
  BY ProcessAssumption DEF Process
<1>2. AdminFits(job[a]) /\ job[a] \in Job /\ t \in Seq(Call)
  BY CallNames DEF JobsFit, Idle, AdminFits
<1>3. Become(a, j) /\ j \in Job /\ j.todo = t /\ j.to = job[a].to
  BY <1>2 DEF Goto, Job
<1> HIDE DEF j
<1>4. t # <<>> => AdminList(t) /\ Prepared(t) /\ Head(t)[1] \notin Commits
  BY Committed
<1>5. t # <<>> => AdminFits(j)
  BY <1>2, <1>3, <1>4 DEF AdminFits
<1>6. /\ JobsFit(job')
      /\ \A q \in Process \ {a} : job'[q] = job[q]
      /\ t # <<>> => job'[a] = j
  BY <1>1, <1>3, <1>5, TurnTo
<1>7. ASSUME NEW x, Has(t, x) PROVE Owing(job', a, x)
  <2>1. t # <<>>
    BY <1>7 DEF Has
  <2>2. job'[a] = j /\ j # None
    BY <1>3, <1>6, <2>1, NoneAssumption
  <2> QED BY <1>3, <1>4, <1>7, <2>1, <2>2 DEF Owing
<1> QED BY <1>6, <1>7

LEMMA AdminProceeds ==
    ASSUME JobsFit(job), NEW a \in Admin, ~Idle(a), Proceed(a)
    PROVE  Advances(a)
<1> DEFINE s == job[a].todo
           t == Tail(s)
<1>1. AdminList(s) /\ s # <<>>
  BY DEF JobsFit, Idle, AdminFits
<1>2. Goto(a, t)
  BY DEF Proceed, Rest
<1> HIDE DEF s
<1>3. /\ t \in Seq(AdminCalls \X User)
      /\ \A i \in 1 .. Len(t) : t[i][1] \notin Commits
      /\ \A x : Has(t, x) => Has(s, x)
      /\ \A x : Has(s, x) /\ x # Head(s) => Has(t, x)
  BY <1>1, AdminTail
<1> HIDE DEF t
<1>4. /\ JobsFit(job')
      /\ \A q \in Process \ {a} : job'[q] = job[q]
      /\ \A x : Has(t, x) => Owing(job', a, x)
  BY <1>2, <1>3, AdminGoes
<1> QED BY <1>3, <1>4 DEF Advances, s

LEMMA AdminRefuses ==
    ASSUME JobsFit(job), NEW a \in Admin, ~Idle(a), Refuse(a)
    PROVE  JobsFit(job') /\ \A q \in Process \ {a} : job'[q] = job[q]
<1>1. PICK none : none = <<>>
  OBVIOUS
<1>2. /\ Goto(a, none) /\ none \in Seq(AdminCalls \X User) /\ Len(none) = 0
      /\ \A x : ~Has(none, x)
  BY <1>1 DEF Refuse, Has
<1>3. \A i \in 1 .. Len(none) : none[i][1] \notin Commits
  BY <1>2
<1> QED BY <1>2, <1>3, AdminGoes

\* What is owed stays owed, unless a was the one to pay it.
LEMMA OwedStays ==
    ASSUME NEW a, \A q \in Process \ {a} : job'[q] = job[q],
           NEW x, Owed(job, x), a \in Admin /\ Owing(job, a, x) => Owing(job', a, x)
    PROVE  Owed(job', x)
<1>1. PICK b \in Admin : Owing(job, b, x)
  BY DEF Owed
<1>2. b # a => job'[b] = job[b]
  BY DEF Process
<1>3. Owing(job', b, x)
  <2>1. CASE b = a
    BY <1>1, <2>1
  <2>2. CASE b # a
    BY <1>1, <1>2, <2>2 DEF Owing
  <2> QED BY <2>1, <2>2
<1> QED BY <1>3 DEF Owed

LEMMA AdvanceOwes ==
    ASSUME NEW a \in Admin, Advances(a), NEW x, x # Head(job[a].todo),
           Owed(job, x) \/ Has(job[a].todo, x)
    PROVE  Owed(job', x)
<1>1. CASE Owed(job, x)
  <2>1. Owing(job, a, x) => Owing(job', a, x)
    BY DEF Owing, Advances
  <2>2. \A q \in Process \ {a} : job'[q] = job[q]
    BY DEF Advances
  <2> QED BY <1>1, <2>1, <2>2, OwedStays
<1>2. CASE Has(job[a].todo, x)
  BY <1>2 DEF Advances, Owed
<1> QED BY <1>1, <1>2

LEMMA AdminTurns ==
    ASSUME JobsFit(job), NEW a \in Admin
    PROVE  /\ Untag(a) \/ SuspendEstate(a) \/ Announce(a) \/ RevokeCode(a) \/ Forget(a) => Advances(a)
           /\ Save(a) \/ Update(a) =>
                 IF account[Who(a)] = "absent"
                 THEN JobsFit(job') /\ \A q \in Process \ {a} : job'[q] = job[q]
                 ELSE Advances(a)
<1>1. \A x : At(a, x) => ~Idle(a)
  BY DEF At
<1>2. Untag(a) => Advances(a)
  BY <1>1, AdminProceeds DEF Untag
<1>3. SuspendEstate(a) => Advances(a)
  BY <1>1, AdminProceeds DEF SuspendEstate
<1>4. Announce(a) => Advances(a)
  BY <1>1, AdminProceeds DEF Announce
<1>5. RevokeCode(a) => Advances(a)
  BY <1>1, AdminProceeds DEF RevokeCode
<1>6. Forget(a) => Advances(a)
  BY <1>1, AdminProceeds DEF Forget
<1>7. ASSUME Save(a) \/ Update(a), account[Who(a)] = "absent"
      PROVE  JobsFit(job') /\ \A q \in Process \ {a} : job'[q] = job[q]
  <2>1. ~Idle(a) /\ Refuse(a)
    BY <1>1, <1>7 DEF Save, Update, Commit
  <2> QED BY <2>1, AdminRefuses
<1>8. ASSUME Save(a) \/ Update(a), account[Who(a)] # "absent" PROVE Advances(a)
  <2>1. ~Idle(a) /\ Proceed(a)
    BY <1>1, <1>8 DEF Save, Update, Commit
  <2> QED BY <2>1, AdminProceeds
<1> QED BY <1>2, <1>3, <1>4, <1>5, <1>6, <1>7, <1>8

\* The residents who are there are on the list of those to be forgotten.
LEMMA ResidentsTurns ==
    ASSUME JobsFit(job), NEW a \in Admin, ReadResidents(a)
    PROVE  /\ Advances(a)
           /\ Who(a) = Landlord =>
                \A u \in Resident : account[u] # "absent" => Owing(job', a, <<"untag", u>>)
<1> DEFINE S == {u \in Resident : Who(a) = Landlord /\ account[u] # "absent"}
           found == SetToSeq(S)
           s == job[a].todo
           r == Forgetting(found) \o Tail(s)
<1>1. ~Idle(a) /\ Goto(a, r)
  BY DEF ReadResidents, At, Rest
<1>2. AdminList(s) /\ s # <<>>
  BY <1>1 DEF JobsFit, Idle, AdminFits
<1>3. IsFiniteSet(S)
  BY UserAssumption, FS_Subset
<1>4. S \subseteq User
  BY DEF User
<1>5. \A u \in Resident : Who(a) = Landlord /\ account[u] # "absent" => u \in S
  OBVIOUS
<1> HIDE DEF S, s
<1>6. found \in Seq(S) /\ \A u \in S : Has(found, u)
  BY <1>3, Listed
<1> HIDE DEF found
<1>7. found \in Seq(User)
  <2>1. Len(found) \in Nat /\ \A i \in 1 .. Len(found) : found[i] \in User
    BY <1>4, <1>6, LenProperties, ElementOfSeq
  <2>2. found = [i \in 1 .. Len(found) |-> found[i]]
    BY <1>6, LenProperties
  <2> DEFINE n == Len(found)
  <2>3. n \in Nat /\ found \in [1 .. n -> User]
    BY <2>1, <2>2
  <2> HIDE DEF n
  <2> QED BY <2>3
<1> DEFINE t == Tail(s)
<1>8. /\ t \in Seq(AdminCalls \X User)
      /\ \A i \in 1 .. Len(t) : t[i][1] \notin Commits
      /\ \A x : Has(t, x) => Has(s, x)
      /\ \A x : Has(s, x) /\ x # Head(s) => Has(t, x)
  BY <1>2, AdminTail
<1>9. \A u : Has(found, u) => Has(Forgetting(found), <<"untag", u>>)
  BY <1>7, ForgettingType
<1>10. /\ r \in Seq(AdminCalls \X User)
       /\ \A i \in 1 .. Len(r) : r[i][1] \notin Commits
       /\ \A x : Has(r, x) <=> Has(Forgetting(found), x) \/ Has(t, x)
  <2> HIDE DEF t, r
  <2> QED BY <1>7, <1>8, ForgettingFirst DEF r, t
<1> HIDE DEF r, t
<1>12. /\ JobsFit(job')
       /\ \A q \in Process \ {a} : job'[q] = job[q]
       /\ \A x : Has(r, x) => Owing(job', a, x)
  BY <1>1, <1>10, AdminGoes
<1>13. Advances(a)
  BY <1>8, <1>10, <1>12 DEF Advances, s
<1> QED BY <1>5, <1>6, <1>9, <1>10, <1>12, <1>13

LEMMA AdminStartTurns ==
    ASSUME JobsFit(job), account \in [User -> Account], NEW a \in Admin, AdminStart(a)
    PROVE  /\ JobsFit(job') /\ Idle(a)
           /\ \A q \in Process \ {a} : job'[q] = job[q]
<1>1. a \in Process /\ a \notin Client
  BY ProcessAssumption DEF Process
<1>2. Landlord \in User /\ Resident \subseteq User
  BY DEF User
<1>3. PICK u \in User, to \in Account,
           calls \in {RevocationCalls, UpdateCalls, StatusCalls, <<"revokeCode">>} :
        Start(a, Admin, calls, to, u)
  <2>1. "active" \in Account /\ "revoked" \in Account /\ "absent" \in Account
    BY DEF Account
  <2> QED BY <1>2, <2>1
          DEF AdminStart, StartRevocation, StartUpdate, StartDelete, StartStatus, StartRevokeCode, StartOn
<1>4. AdminList(For(calls, u)) /\ For(calls, u) # <<>> /\ Prepared(For(calls, u))
  BY <1>3, AdminStarts
<1> QED BY <1>1, <1>3, <1>4, StartTurns

-----------------------------------------------------------------------------
(* Types.                                                                  *)

LEMMA WhoIsUser ==
    ASSUME JobsFit(job), NEW p \in Process, ~Idle(p)
    PROVE  Who(p) \in User /\ job[p] \in Job
<1>1. CASE p \in Client
  BY <1>1, ClientTail DEF JobsFit, Idle, ClientFits, Who
<1>2. CASE p \in Admin
  BY <1>2, AdminTail DEF JobsFit, Idle, AdminFits, Who
<1> QED BY <1>1, <1>2 DEF Process

\* A request that starts changes nothing but its job.
LEMMA StartChanges ==
    ASSUME (\E c \in Client : ClientStart(c)) \/ (\E a \in Admin : AdminStart(a))
    PROVE  /\ UNCHANGED <<rows, caches, redisUp, history, faults>>
           /\ requests < MaxRequests /\ requests' = requests + 1
<1>1. ASSUME NEW p, NEW S, NEW calls, NEW to, NEW u, Start(p, S, calls, to, u)
      PROVE  /\ UNCHANGED <<rows, caches, redisUp, history, faults>>
             /\ requests < MaxRequests /\ requests' = requests + 1
  BY <1>1 DEF Start
<1>2. CASE \E c \in Client : ClientStart(c)
  <2>1. PICK c \in Client : ClientStart(c)
    BY <1>2
  <2>2. PICK calls : \E u \in User : Begin(c, calls, u)
    BY <2>1 DEF ClientStart, StartTenantCheck, StartApi, StartLogout, StartLogin, StartRfid,
                StartRegister, User
  <2> QED BY <1>1, <2>2 DEF Begin
<1>3. CASE \E a \in Admin : AdminStart(a)
  <2>1. PICK a \in Admin : AdminStart(a)
    BY <1>3
  <2>2. PICK calls : \E to, u : Start(a, Admin, calls, to, u)
    BY <2>1 DEF AdminStart, StartRevocation, StartUpdate, StartDelete, StartStatus, StartRevokeCode,
                StartOn
  <2> QED BY <1>1, <2>2
<1> QED BY <1>2, <1>3

\* The actions one by one, for what follows.
LEMMA Actions ==
    ASSUME [Next]_vars
    PROVE  \/ UNCHANGED vars
           \/ \E c \in Client : ClientStart(c) \/ ClientStep(c)
           \/ \E a \in Admin : AdminStart(a) \/ AdminStep(a)
           \/ \E p \in Process : Forget(p) \/ Crash(p)
           \/ Outage \/ Recovery
BY DEF Next

LEMMA JobsInductive ==
    ASSUME JobsFit(job), account \in [User -> Account], [Next]_vars
    PROVE  JobsFit(job')
<1>1. CASE UNCHANGED vars \/ Outage \/ Recovery
  <2>1. job' = job
    BY <1>1 DEF vars, Outage, Recovery
  <2> QED BY <2>1
<1>2. ASSUME NEW c \in Client, ClientStart(c) PROVE JobsFit(job')
  BY <1>2, ClientStartTurns
<1>3. ASSUME NEW c \in Client, ClientStep(c) \/ Forget(c) PROVE JobsFit(job')
  <2>1. PICK X : Turns(c, X)
    BY <1>3, ClientTurns DEF ClientStep
  <2> QED BY <2>1 DEF Turns
<1>4. ASSUME NEW a \in Admin, AdminStart(a) PROVE JobsFit(job')
  BY <1>4, AdminStartTurns
<1>5. ASSUME NEW a \in Admin, AdminStep(a) \/ Forget(a) PROVE JobsFit(job')
  BY <1>5, AdminTurns, ResidentsTurns DEF AdminStep, Advances
<1>6. ASSUME NEW p \in Process, Crash(p) PROVE JobsFit(job')
  BY <1>6, Dropped DEF Crash
<1> QED BY <1>1, <1>2, <1>3, <1>4, <1>5, <1>6, Actions DEF Process

LEMMA OvertakenType ==
    ASSUME NEW e \in Cached, NEW yes \in BOOLEAN
    PROVE  /\ Overtaken(e, yes) \in Cached
           /\ Overtaken(e, yes) = "fresh" => e = "fresh" /\ yes
           /\ Removed(e, yes) \in Cached
           /\ Removed(e, yes) = "fresh" => e = "fresh" /\ yes
<1>1. Overtaken(e, yes) \in Cached /\ (Overtaken(e, yes) = "fresh" => e = "fresh" /\ yes)
  BY DEF Overtaken, Cached
<1>2. Removed(e, yes) = "none" \/ Removed(e, yes) = Overtaken(e, yes)
  BY DEF Removed
<1> QED BY <1>1, <1>2 DEF Cached

LEMMA ActiveType == \A u : Active(u) \in BOOLEAN /\ Holder(u) \in BOOLEAN
BY DEF Active, Holder

\* Every variable but the jobs.
Typed ==
    /\ account \in [User -> Account]
    /\ session \in [User -> Cached] /\ tag \in [User -> Cached]
    /\ banned \subseteq User /\ out \subseteq User /\ returned \subseteq User
    /\ estateActive \in BOOLEAN
    /\ tenant \in {"none", "valid", "suspended"}
    /\ code \in [used : BOOLEAN, revoked : BOOLEAN]
    /\ uses \in Nat
    /\ redisUp \in BOOLEAN
    /\ requests \in 0 .. MaxRequests /\ faults \in 0 .. MaxFaults

LEMMA TypedKept ==
    ASSUME Typed, UNCHANGED <<rows, caches, redisUp, history, requests, faults>>
    PROVE  Typed'
BY DEF Typed, rows, caches, history

LEMMA ClientTypes ==
    ASSUME Typed, JobsFit(job), NEW c \in Client, ClientStep(c)
    PROVE  Typed'
<1>1. c \in Process /\ ~Idle(c)
  BY DEF Process, ClientStep, At, TenantHit, TenantMiss, Validate, Banned, SessionHit, SessionMiss,
         ReadAccount, Credentials, Keep, Ban, TagHit, TagMiss, ReadHolder, ReadLandlord, Remember,
         ReadCode, Enlist
<1>2. Who(c) \in User /\ job[c] \in Job
  BY <1>1, WhoIsUser
<1>3. "none" \in Cached /\ "fresh" \in Cached /\ "active" \in Account
  BY DEF Cached, Account
<1>4. CASE TenantHit(c) \/ Banned(c) \/ Credentials(c) \/ TagHit(c) \/ ReadHolder(c)
           \/ ReadLandlord(c) \/ ReadCode(c)
  BY <1>4, TypedKept DEF TenantHit, Banned, Credentials, TagHit, ReadHolder, ReadLandlord, ReadCode
<1>5. CASE TenantMiss(c)
  BY <1>5 DEF TenantMiss, Typed, rows, history
<1>6. CASE Validate(c)
  BY <1>6 DEF Validate, Typed, rows, history
<1>7. CASE SessionHit(c) \/ ReadAccount(c)
  <2>1. /\ returned' = returned \/ returned' = returned \cup {Who(c)}
        /\ UNCHANGED <<rows, caches, redisUp, out, requests, faults>>
    BY <1>7 DEF SessionHit, ReadAccount, Served
  <2> QED BY <1>2, <2>1 DEF Typed, rows, caches
<1>8. CASE SessionMiss(c)
  BY <1>2, <1>3, <1>8 DEF SessionMiss, Typed, rows, history
<1>9. CASE Keep(c)
  <2>1. Overtaken("fresh", Active(Who(c))) \in Cached
    BY <1>3, ActiveType, OvertakenType
  <2> QED BY <1>9, <2>1 DEF Keep, Typed, rows, history
<1>10. CASE Ban(c)
  BY <1>2, <1>10 DEF Ban, Typed, rows, history
<1>11. CASE TagMiss(c)
  BY <1>2, <1>3, <1>11 DEF TagMiss, Typed, rows, history
<1>12. CASE Remember(c)
  <2>1. Overtaken("fresh", Holder(Who(c))) \in Cached
    BY <1>3, ActiveType, OvertakenType
  <2> QED BY <1>12, <2>1 DEF Remember, Typed, rows, history
<1>13. CASE Enlist(c)
  <2>1. /\ UNCHANGED <<estateActive, caches, redisUp, history, requests, faults>>
        /\ \/ UNCHANGED <<account, code, uses>>
           \/ /\ account' = [account EXCEPT ![Who(c)] = IF job[c].from = "absent" THEN "active" ELSE @]
              /\ code' = [code EXCEPT !.used = TRUE]
              /\ uses' = uses + 1
    BY <1>13 DEF Enlist, CodeUsed
  <2>2. account' \in [User -> Account] /\ code' \in [used : BOOLEAN, revoked : BOOLEAN] /\ uses' \in Nat
    <3>1. CASE UNCHANGED <<account, code, uses>>
      BY <3>1 DEF Typed
    <3>2. CASE /\ account' = [account EXCEPT ![Who(c)] = IF job[c].from = "absent" THEN "active" ELSE @]
               /\ code' = [code EXCEPT !.used = TRUE]
               /\ uses' = uses + 1
      <4>1. account' \in [User -> Account]
        BY <1>3, <3>2 DEF Typed
      <4>2. code' \in [used : BOOLEAN, revoked : BOOLEAN]
        BY <3>2 DEF Typed
      <4>3. uses' \in Nat
        BY <3>2 DEF Typed
      <4> QED BY <4>1, <4>2, <4>3
    <3> QED BY <2>1, <3>1, <3>2
  <2> QED BY <2>1, <2>2 DEF Typed, caches, history
<1> QED BY <1>4, <1>5, <1>6, <1>7, <1>8, <1>9, <1>10, <1>11, <1>12, <1>13 DEF ClientStep

\* A commit, as far as the row goes.
LEMMA Saved ==
    ASSUME Typed, JobsFit(job), NEW a \in Admin, Save(a) \/ Update(a)
    PROVE  /\ Who(a) \in User /\ job[a].to \in Account /\ account' \in [User -> Account]
           /\ \A u \in User \ {Who(a)} : account'[u] = account[u]
           /\ account'[Who(a)] \in {account[Who(a)], job[a].to}
           /\ account[Who(a)] = "absent" => account' = account
           /\ job[a].to = "active" => account'[Who(a)] = "active" \/ account' = account
<1>1. a \in Process /\ ~Idle(a) /\ Commit(a)
  BY DEF Process, Save, Update, At
<1>2. Who(a) \in User /\ job[a].to \in Account
  BY <1>1, WhoIsUser DEF Job
<1>3. account' = account \/ (account[Who(a)] # "absent" /\ account' = [account EXCEPT ![Who(a)] = job[a].to])
  BY <1>1 DEF Commit
<1> QED BY <1>2, <1>3 DEF Typed

LEMMA AdminTypes ==
    ASSUME Typed, JobsFit(job), NEW a \in Admin, AdminStep(a)
    PROVE  Typed'
<1>1. a \in Process /\ ~Idle(a)
  BY DEF Process, AdminStep, At, Save, Update, Untag, ReadResidents, SuspendEstate, Announce, RevokeCode
<1>2. Who(a) \in User /\ job[a] \in Job
  BY <1>1, WhoIsUser
<1>3. CASE Save(a)
  <2>1. account' \in [User -> Account]
    BY <1>3, Saved
  <2> QED BY <1>3, <2>1 DEF Save, Typed, caches, history
<1>4. CASE Update(a)
  <2>1. account' \in [User -> Account]
    BY <1>4, Saved
  <2>2. tag' \in [User -> Cached]
    <3>1. CASE Who(a) = Landlord
      <4>1. \A u \in User : Overtaken(tag[u], job[a].to = "active") \in Cached
        BY OvertakenType DEF Typed
      <4>2. tag' = [u \in User |-> IF u \in Resident THEN Overtaken(tag[u], job[a].to = "active") ELSE tag[u]]
        BY <1>4, <3>1 DEF Update
      <4> QED BY <4>1, <4>2 DEF Typed
    <3>2. CASE Who(a) # Landlord
      BY <1>4, <3>2 DEF Update, Typed
    <3> QED BY <3>1, <3>2
  <2> QED BY <1>4, <2>1, <2>2 DEF Update, Typed, history
<1>5. CASE Untag(a)
  <2>1. Removed(tag[Who(a)], Holder(Who(a))) \in Cached
    BY <1>2, ActiveType, OvertakenType DEF Typed
  <2> QED BY <1>5, <2>1 DEF Untag, Typed, rows, history
<1>6. CASE ReadResidents(a)
  BY <1>6, TypedKept DEF ReadResidents
<1>7. CASE SuspendEstate(a)
  BY <1>7 DEF SuspendEstate, Typed, caches, history
<1>8. CASE Announce(a)
  BY <1>8 DEF Announce, Announcement, Typed, rows, history
<1>9. CASE RevokeCode(a)
  BY <1>9 DEF RevokeCode, Typed, caches, history
<1> QED BY <1>3, <1>4, <1>5, <1>6, <1>7, <1>8, <1>9 DEF AdminStep

LEMMA TypedInductive ==
    ASSUME Typed, JobsFit(job), [Next]_vars
    PROVE  Typed'
<1>1. CASE UNCHANGED vars
  BY <1>1, TypedKept DEF vars
<1>2. CASE (\E c \in Client : ClientStart(c)) \/ (\E a \in Admin : AdminStart(a))
  BY <1>2, BoundAssumption, StartChanges DEF Typed, rows, caches, history
<1>3. ASSUME NEW p \in Process, Forget(p) PROVE Typed'
  <2>1. Who(p) \in User
    BY <1>3, WhoIsUser DEF Forget, At
  <2>2. Removed(session[Who(p)], Active(Who(p))) \in Cached
    BY <2>1, ActiveType, OvertakenType DEF Typed
  <2> QED BY <1>3, <2>1, <2>2 DEF Forget, Typed, rows
<1>4. ASSUME NEW p \in Process, Crash(p) PROVE Typed'
  <2>1. \A u \in User : Overtaken(session[u], Active(u)) \in Cached /\ Overtaken(tag[u], Holder(u)) \in Cached
    BY ActiveType, OvertakenType DEF Typed
  <2>2. session' \in [User -> Cached] /\ tag' \in [User -> Cached]
    BY <1>4, <2>1 DEF Crash
  <2> QED BY <1>4, <2>2, BoundAssumption DEF Crash, Typed, rows, history
<1>5. CASE Outage
  <2>1. faults' \in 0 .. MaxFaults
    BY <1>5, BoundAssumption DEF Outage, Typed
  <2>2. redisUp' \in BOOLEAN
    BY <1>5, Zenon DEF Outage
  <2>3. UNCHANGED <<rows, caches, history, requests>>
    BY <1>5 DEF Outage
  <2> QED BY <2>1, <2>2, <2>3 DEF Typed, rows, caches, history
<1>6. CASE Recovery
  BY <1>6 DEF Recovery, Typed, rows, caches, history
<1> QED BY <1>1, <1>2, <1>3, <1>4, <1>5, <1>6, ClientTypes, AdminTypes, Actions

TypeInv == TypeOK /\ JobsFit(job)

LEMMA TypeSplit == TypeInv <=> Typed /\ JobsFit(job)
BY DEF TypeInv, TypeOK, Typed, JobsFit

LEMMA TypeInitial == Init => TypeInv
<1> SUFFICES ASSUME Init PROVE TypeInv
  OBVIOUS
<1>1. \A p \in Process : job[p] = None
  BY DEF Init
<1>2. job \in [Process -> Job \cup {None}]
  BY DEF Init
<1>3. JobsFit(job)
  BY <1>1, <1>2 DEF JobsFit, Process
<1>4. Typed
  BY BoundAssumption DEF Init, Typed, Account, Cached
<1> QED BY <1>3, <1>4, TypeSplit

LEMMA TypeInductive == TypeInv /\ [Next]_vars => TypeInv'
<1> SUFFICES ASSUME TypeInv, [Next]_vars PROVE TypeInv'
  OBVIOUS
<1>1. Typed /\ JobsFit(job)
  BY TypeSplit
<1>2. Typed' /\ JobsFit(job')
  BY <1>1, TypedInductive, JobsInductive DEF Typed
<1> QED BY <1>2 DEF TypeInv, TypeOK, Typed, JobsFit

\* Every reachable state of the caches is well typed, and every job keeps to a
\* list of calls of its request, whoever administers, logs in and registers at
\* once (dependencies.py 38-166, verification.py 223-323, admin.py 161-297).
THEOREM TypeCorrect == Spec => []TypeOK
<1>1. TypeInv => TypeOK
  BY DEF TypeInv
<1> QED BY <1>1, TypeInitial, TypeInductive, PTL DEF Spec

-----------------------------------------------------------------------------
(* Entries that are wrong are owed a call.                                 *)

\* No entry goes wrong, and nothing owed is forgotten.
LEMMA StaysOwed ==
    ASSUME AllOwed,
           SessionGap' \subseteq SessionGap, TagGap' \subseteq TagGap,
           LandlordGap' \subseteq LandlordGap,
           \A x : Owed(job, x) => Owed(job', x)
    PROVE  AllOwed'
BY DEF AllOwed, SessionsOwed, TagsOwed, ResidentsOwed

\* The gaps depend on the entries that say yes, and on who is active.
LEMMA GapsNarrow ==
    ASSUME \A u \in User : session'[u] = "fresh" /\ ~Active(u)' => session[u] = "fresh" /\ ~Active(u),
           \A u \in User : tag'[u] = "fresh" /\ ~Active(u)' => tag[u] = "fresh" /\ ~Active(u),
           \A u \in Resident : tag'[u] = "fresh" /\ ~Active(Landlord)' => tag[u] = "fresh" /\ ~Active(Landlord)
    PROVE  /\ SessionGap' \subseteq SessionGap /\ TagGap' \subseteq TagGap
           /\ LandlordGap' \subseteq LandlordGap
BY DEF SessionGap, TagGap, LandlordGap

LEMMA OvertakenHonest ==
    ASSUME NEW e, NEW yes
    PROVE  /\ Overtaken(e, yes) = "fresh" => e = "fresh" /\ yes
           /\ Removed(e, yes) = "fresh" => e = "fresh" /\ yes
<1>1. Overtaken(e, yes) = "fresh" => e = "fresh" /\ yes
  BY DEF Overtaken
<1> QED BY <1>1 DEF Removed

\* Requests of clients, and faults, owe nothing: whatever they cache is true
\* of the rows or marked as stale.
LEMMA ClientGaps ==
    ASSUME Typed, JobsFit(job), NEW c \in Client, ClientStep(c) \/ Forget(c)
    PROVE  /\ SessionGap' \subseteq SessionGap /\ TagGap' \subseteq TagGap
           /\ LandlordGap' \subseteq LandlordGap
<1>1. c \in Process /\ ~Idle(c)
  BY DEF Process, ClientStep, At, TenantHit, TenantMiss, Validate, Banned, SessionHit, SessionMiss,
         ReadAccount, Credentials, Keep, Ban, TagHit, TagMiss, ReadHolder, ReadLandlord, Remember,
         ReadCode, Enlist, Forget
<1>2. Who(c) \in User
  BY <1>1, WhoIsUser
<1>3. \A u \in Resident : u \in User /\ (Holder(u) => Active(u) /\ Active(Landlord))
  BY DEF Holder, User
<1>4. \A u : Holder(u) => Active(u)
  BY DEF Holder
<1>5. Landlord \in User
  BY DEF User
<1>6. CASE UNCHANGED <<rows, caches>>
  BY <1>6 DEF rows, caches, SessionGap, TagGap, LandlordGap, Active
<1>7. CASE TenantMiss(c) \/ Validate(c)
  BY <1>7 DEF TenantMiss, Validate, rows, SessionGap, TagGap, LandlordGap, Active
<1>9. CASE SessionMiss(c)
  <2>1. /\ UNCHANGED <<account, estateActive, tag, tenant>>
        /\ session' = session \/ session' = [session EXCEPT ![Who(c)] = "none"]
    BY <1>9 DEF SessionMiss, rows
  <2> QED BY <2>1 DEF Typed, SessionGap, TagGap, LandlordGap, Active
<1>10. CASE Keep(c)
  <2> DEFINE e == Overtaken("fresh", Active(Who(c)))
  <2>1. /\ UNCHANGED <<account, estateActive, tag, tenant>>
        /\ session' = session \/ session' = [session EXCEPT ![Who(c)] = e]
    BY <1>10 DEF Keep, rows
  <2>2. e = "fresh" => Active(Who(c))
    BY OvertakenHonest
  <2> HIDE DEF e
  <2> QED BY <2>1, <2>2 DEF Typed, SessionGap, TagGap, LandlordGap, Active
<1>11. CASE TagMiss(c)
  <2>1. /\ UNCHANGED <<account, estateActive, session, tenant>>
        /\ tag' = tag \/ tag' = [tag EXCEPT ![Who(c)] = "none"]
    BY <1>11 DEF TagMiss, rows
  <2> QED BY <1>3, <2>1 DEF Typed, SessionGap, TagGap, LandlordGap, Active
<1>12. CASE Remember(c)
  <2> DEFINE e == Overtaken("fresh", Holder(Who(c)))
  <2>1. /\ UNCHANGED <<account, estateActive, session, tenant>>
        /\ tag' = tag \/ tag' = [tag EXCEPT ![Who(c)] = e]
    BY <1>12 DEF Remember, rows
  <2>2. e = "fresh" => Holder(Who(c))
    BY OvertakenHonest
  <2> HIDE DEF e, Holder
  <2> QED BY <1>3, <1>4, <2>1, <2>2 DEF Typed, SessionGap, TagGap, LandlordGap, Active
<1>13. CASE Enlist(c)
  <2>1. /\ UNCHANGED <<estateActive, caches>>
        /\ \/ account' = account
           \/ account' = [account EXCEPT ![Who(c)] = IF job[c].from = "absent" THEN "active" ELSE @]
    BY <1>13 DEF Enlist
  <2>2. \A u \in User : account[u] = "active" => account'[u] = "active"
    BY <2>1 DEF Typed
  <2>3. \A u \in User : ~Active(u)' => ~Active(u)
    BY <2>2 DEF Active
  <2> QED BY <1>5, <2>1, <2>3, GapsNarrow DEF caches, User
<1>14. CASE Forget(c)
  <2> DEFINE e == Removed(session[Who(c)], Active(Who(c)))
  <2>1. /\ UNCHANGED <<account, estateActive, tag, tenant>>
        /\ session' = [session EXCEPT ![Who(c)] = e]
    BY <1>14 DEF Forget, rows
  <2>2. e = "fresh" => Active(Who(c))
    BY OvertakenHonest
  <2> HIDE DEF e
  <2> QED BY <2>1, <2>2 DEF Typed, SessionGap, TagGap, LandlordGap, Active
<1>15. CASE Ban(c)
  BY <1>15 DEF Ban, rows, SessionGap, TagGap, LandlordGap, Active
<1>16. \/ UNCHANGED <<rows, caches>>
       \/ TenantMiss(c) \/ Validate(c) \/ SessionMiss(c) \/ Keep(c) \/ TagMiss(c) \/ Remember(c)
       \/ Enlist(c) \/ Forget(c) \/ Ban(c)
  BY DEF ClientStep, TenantHit, Banned, SessionHit, ReadAccount, Credentials, TagHit, ReadHolder,
         ReadLandlord, ReadCode
<1> QED BY <1>6, <1>7, <1>9, <1>10, <1>11, <1>12, <1>13, <1>14, <1>15, <1>16

\* A crash leaves no entry that says yes where the rows say no.
LEMMA CrashGaps ==
    ASSUME Typed, NEW p \in Process, Crash(p)
    PROVE  SessionGap' = {} /\ TagGap' = {} /\ LandlordGap' = {}
<1>1. /\ account' = account /\ estateActive' = estateActive
      /\ \A u \in User : session'[u] = Overtaken(session[u], Active(u))
      /\ \A u \in User : tag'[u] = Overtaken(tag[u], Holder(u))
  BY DEF Crash, rows
<1>2. \A u \in User : session'[u] = "fresh" => Active(u)
  BY <1>1, OvertakenHonest
<1>3. \A u \in User : tag'[u] = "fresh" => Holder(u)
  BY <1>1, OvertakenHonest
<1>4. \A u : Active(u)' <=> Active(u)
  BY <1>1 DEF Active
<1>5. \A u \in User : tag'[u] = "fresh" => Active(u)
  BY <1>3 DEF Holder
<1>6. \A u \in Resident : tag'[u] = "fresh" => Active(Landlord)
  BY <1>3 DEF Holder, User
<1> QED BY <1>2, <1>4, <1>5, <1>6 DEF SessionGap, TagGap, LandlordGap

\* What an administrator's step leaves wrong is owed by that request.
LEMMA SavedOwed ==
    ASSUME Typed, JobsFit(job), AllOwed, NEW a \in Admin, Save(a) \/ Update(a)
    PROVE  AllOwed'
<1> DEFINE w == Who(a)
           s == job[a].todo
<1>1. ~Idle(a) /\ a \in Process /\ AdminFits(job[a])
  BY DEF Save, Update, At, JobsFit, Idle, Process
<1>2. /\ w \in User /\ account' \in [User -> Account]
      /\ \A u \in User \ {w} : account'[u] = account[u]
      /\ account[w] = "absent" => account' = account
      /\ job[a].to = "active" => account'[w] = "active" \/ account' = account
  BY Saved
<1>3. UNCHANGED <<estateActive, session, tenant>>
  BY DEF Save, Update, caches
<1>4. Head(s)[1] \in {"save", "update"} /\ Head(s)[2] = w
  BY DEF Save, Update, At, Who
<1>5. \A u \in User : tag'[u] = "fresh" => tag[u] = "fresh"
  <2>1. CASE tag' = [u \in User |-> IF u \in Resident THEN Overtaken(tag[u], job[a].to = "active") ELSE tag[u]]
    BY <2>1, OvertakenHonest
  <2>2. CASE tag' = tag
    BY <2>2
  <2> QED BY <2>1, <2>2 DEF Save, Update, caches
<1>6. CASE account[w] = "absent"
  <2>1. account' = account /\ \A q \in Process \ {a} : job'[q] = job[q]
    BY <1>2, <1>6, AdminTurns
  <2>2. \A u : Active(u)' <=> Active(u)
    BY <2>1 DEF Active
  <2>3. \A x : ~Owing(job, a, x)
    BY <1>4 DEF Owing, Commits
  <2>4. \A x : Owed(job, x) => Owed(job', x)
    BY <2>1, <2>3, OwedStays
  <2>5. /\ SessionGap' \subseteq SessionGap /\ TagGap' \subseteq TagGap
        /\ LandlordGap' \subseteq LandlordGap
    BY <1>3, <1>5, <2>2 DEF SessionGap, TagGap, LandlordGap, User
  <2> QED BY <2>4, <2>5, StaysOwed
<1>7. CASE account[w] # "absent"
  <2>1. Advances(a)
    BY <1>7, AdminTurns
  <2>2. Prepared(s)
    BY <1>1 DEF AdminFits
  <2>3. /\ Has(s, <<"forget", w>>) /\ Has(s, <<"untag", w>>)
        /\ Head(s)[1] = "save" /\ w = Landlord => Has(s, <<"residents", Landlord>>)
    BY <1>4, <2>2 DEF Prepared
  <2>4. \A u : /\ <<"forget", u>> # Head(s) /\ <<"untag", u>> # Head(s)
               /\ <<"residents", u>> # Head(s)
    BY <1>4
  <2>5. \A x : x # Head(s) /\ (Owed(job, x) \/ Has(s, x)) => Owed(job', x)
    BY <2>1, AdvanceOwes
  <2> HIDE DEF s, w
  <2>6. \A u \in User \ {w} : Active(u)' <=> Active(u)
    BY <1>2 DEF Active
  <2>7. ASSUME NEW u \in SessionGap' PROVE Owed(job', <<"forget", u>>)
    <3>1. u \in User /\ session[u] = "fresh" /\ ~Active(u)'
      BY <1>3, <2>7 DEF SessionGap
    <3>2. CASE u = w
      BY <2>3, <2>4, <2>5, <3>2
    <3>3. CASE u # w
      <4>1. u \in SessionGap
        BY <2>6, <3>1, <3>3 DEF SessionGap
      <4> QED BY <2>4, <2>5, <4>1 DEF AllOwed, SessionsOwed
    <3> QED BY <3>2, <3>3
  <2>8. ASSUME NEW u \in TagGap' PROVE Owed(job', <<"untag", u>>)
    <3>1. u \in User /\ tag[u] = "fresh" /\ ~Active(u)'
      BY <1>5, <2>8 DEF TagGap
    <3>2. CASE u = w
      BY <2>3, <2>4, <2>5, <3>2
    <3>3. CASE u # w
      <4>1. u \in TagGap
        BY <2>6, <3>1, <3>3 DEF TagGap
      <4> QED BY <2>4, <2>5, <4>1 DEF AllOwed, TagsOwed
    <3> QED BY <3>2, <3>3
  <2>9. ASSUME NEW u \in LandlordGap'
        PROVE  Owed(job', <<"untag", u>>) \/ Owed(job', <<"residents", Landlord>>)
    <3>1. u \in Resident /\ u \in User /\ tag'[u] = "fresh" /\ tag[u] = "fresh" /\ ~Active(Landlord)'
      BY <1>5, <2>9 DEF LandlordGap, User
    <3>2. u \in LandlordGap
             => Owed(job', <<"untag", u>>) \/ Owed(job', <<"residents", Landlord>>)
      BY <2>4, <2>5 DEF AllOwed, ResidentsOwed
    <3>3. CASE w # Landlord
      <4>1. u \in LandlordGap
        BY <2>6, <3>1, <3>3 DEF LandlordGap, User
      <4> QED BY <3>2, <4>1
    <3>4. CASE w = Landlord /\ Head(s)[1] = "save"
      BY <2>3, <2>4, <2>5, <3>4
    <3>5. CASE w = Landlord /\ Head(s)[1] = "update"
      <4>1. Update(a)
        BY <3>5 DEF Save, At, s
      <4>2. tag'[u] = Overtaken(tag[u], job[a].to = "active")
        BY <3>1, <3>5, <4>1 DEF Update, w
      <4>3. job[a].to = "active"
        BY <3>1, <4>2, OvertakenHonest
      <4>4. account' = account
        BY <1>2, <3>1, <3>5, <4>3 DEF Active
      <4>5. u \in LandlordGap
        BY <3>1, <4>4 DEF LandlordGap, Active
      <4> QED BY <3>2, <4>5
    <3> QED BY <1>4, <3>3, <3>4, <3>5
  <2> QED BY <2>7, <2>8, <2>9 DEF AllOwed, SessionsOwed, TagsOwed, ResidentsOwed
<1> QED BY <1>6, <1>7

LEMMA RemovedOwed ==
    ASSUME Typed, JobsFit(job), AllOwed, NEW a \in Admin, Untag(a) \/ Forget(a)
    PROVE  AllOwed'
<1> DEFINE w == Who(a)
           h == Head(job[a].todo)
<1>1. ~Idle(a) /\ a \in Process /\ AdminFits(job[a])
  BY DEF Untag, Forget, At, JobsFit, Idle, Process
<1>2. w \in User /\ h \in AdminCalls \X User
  BY <1>1, WhoIsUser, AdminTail DEF AdminFits
<1>3. UNCHANGED <<account, estateActive, tenant>> /\ Advances(a)
  BY AdminTurns DEF Untag, Forget, rows
<1>4. \A x : x # h /\ Owed(job, x) => Owed(job', x)
  BY <1>3, AdvanceOwes
<1>5. \A u : Active(u)' <=> Active(u)
  BY <1>3 DEF Active
<1>7. CASE Forget(a)
  <2>1. /\ tag' = tag
        /\ session' = [session EXCEPT ![w] = Removed(session[w], Active(w))]
    BY <1>7 DEF Forget
  <2>2. h = <<"forget", w>>
    BY <1>2, <1>7 DEF Forget, At, Who
  <2>3. session'[w] = "fresh" => Active(w)
    BY <1>2, <2>1, OvertakenHonest DEF Typed
  <2> HIDE DEF w, h
  <2>4. \A u : /\ <<"untag", u>> # h /\ <<"residents", u>> # h
               /\ u # w => <<"forget", u>> # h
    BY <2>2
  <2>5. \A u \in SessionGap' : u # w /\ u \in SessionGap
    BY <1>5, <2>1, <2>3 DEF SessionGap, Typed
  <2>6. TagGap' = TagGap /\ LandlordGap' = LandlordGap
    BY <1>5, <2>1 DEF TagGap, LandlordGap
  <2> QED BY <1>4, <2>4, <2>5, <2>6
          DEF AllOwed, SessionsOwed, TagsOwed, ResidentsOwed
<1>8. CASE Untag(a)
  <2>1. /\ session' = session
        /\ tag' = [tag EXCEPT ![w] = Removed(tag[w], Holder(w))]
    BY <1>8 DEF Untag
  <2>2. h = <<"untag", w>>
    BY <1>2, <1>8 DEF Untag, At, Who
  <2>3. tag'[w] = "fresh" => Holder(w)
    BY <1>2, <2>1, OvertakenHonest DEF Typed
  <2> HIDE DEF w, h
  <2>4. \A u : /\ <<"forget", u>> # h /\ <<"residents", u>> # h
               /\ u # w => <<"untag", u>> # h
    BY <2>2
  <2>5. \A u \in TagGap' : u # w /\ u \in TagGap
    BY <1>5, <2>1, <2>3 DEF TagGap, Typed, Holder
  <2>6. \A u \in LandlordGap' : u # w /\ u \in LandlordGap
    BY <1>5, <2>1, <2>3 DEF LandlordGap, Typed, Holder, User
  <2>7. SessionGap' = SessionGap
    BY <1>5, <2>1 DEF SessionGap
  <2> QED BY <1>4, <2>4, <2>5, <2>6, <2>7
          DEF AllOwed, SessionsOwed, TagsOwed, ResidentsOwed
<1> QED BY <1>7, <1>8

LEMMA ResidentsStayOwed ==
    ASSUME Typed, JobsFit(job), AllOwed, NEW a \in Admin, ReadResidents(a)
    PROVE  AllOwed'
<1> DEFINE h == Head(job[a].todo)
<1>1. ~Idle(a) /\ a \in Process /\ AdminFits(job[a]) /\ h[1] = "residents"
  BY DEF ReadResidents, At, JobsFit, Idle, Process
<1>2. UNCHANGED <<account, estateActive, session, tag, tenant>> /\ Advances(a)
  BY ResidentsTurns DEF ReadResidents, rows, caches
<1>3. \A x : x # h /\ Owed(job, x) => Owed(job', x)
  BY <1>2, AdvanceOwes
<1>4. /\ SessionGap' = SessionGap /\ TagGap' = TagGap
      /\ LandlordGap' = LandlordGap
  BY <1>2 DEF SessionGap, TagGap, LandlordGap, Active
<1>5. h \in AdminCalls \X User /\ Who(a) = h[2]
  BY <1>1, AdminTail DEF AdminFits, Who
<1>6. Who(a) = Landlord =>
         \A u \in Resident : account[u] # "absent" => Owed(job', <<"untag", u>>)
  BY ResidentsTurns DEF Owed
<1> HIDE DEF h
<1>7. \A u : <<"forget", u>> # h /\ <<"untag", u>> # h
  BY <1>1
<1>8. ASSUME NEW u \in LandlordGap
      PROVE  Owed(job', <<"untag", u>>) \/ Owed(job', <<"residents", Landlord>>)
  <2>1. u \in Resident /\ u \in User /\ tag[u] = "fresh"
    BY DEF LandlordGap, User
  <2>2. CASE Owed(job, <<"untag", u>>)
    BY <1>3, <1>7, <2>2
  <2>3. CASE Owed(job, <<"residents", Landlord>>) /\ h # <<"residents", Landlord>>
    BY <1>3, <2>3
  <2>4. CASE h = <<"residents", Landlord>>
    <3>1. Who(a) = Landlord
      BY <1>5, <2>4
    <3>2. CASE account[u] # "absent"
      BY <1>6, <2>1, <3>1, <3>2
    \* A resident who is gone is not found, but the deletion owes the call.
    <3>3. CASE account[u] = "absent"
      <4>1. u \in TagGap
        BY <2>1, <3>3 DEF TagGap, Active
      <4>2. Owed(job, <<"untag", u>>)
        BY <4>1 DEF AllOwed, TagsOwed
      <4> QED BY <1>3, <1>7, <4>2
    <3> QED BY <3>2, <3>3
  <2> QED BY <2>2, <2>3, <2>4 DEF AllOwed, ResidentsOwed
<1> QED BY <1>3, <1>4, <1>7, <1>8
        DEF AllOwed, SessionsOwed, TagsOwed, ResidentsOwed

LEMMA EstateOwed ==
    ASSUME Typed, JobsFit(job), AllOwed, NEW a \in Admin,
           SuspendEstate(a) \/ Announce(a) \/ RevokeCode(a)
    PROVE  AllOwed'
<1> DEFINE s == job[a].todo
           h == Head(s)
<1>1. ~Idle(a) /\ a \in Process /\ AdminFits(job[a])
  BY DEF SuspendEstate, Announce, RevokeCode, At, JobsFit, Idle, Process
<1>2. UNCHANGED <<account, session, tag>> /\ Advances(a)
  BY AdminTurns DEF SuspendEstate, Announce, RevokeCode, rows, caches
<1>3. \A x : x # h /\ (Owed(job, x) \/ Has(s, x)) => Owed(job', x)
  BY <1>2, AdvanceOwes
<1>4. SessionGap' = SessionGap /\ TagGap' = TagGap /\ LandlordGap' = LandlordGap
  BY <1>2 DEF SessionGap, TagGap, LandlordGap, Active
<1>5. h[1] \in {"suspend", "announce", "revokeCode"}
  BY DEF SuspendEstate, Announce, RevokeCode, At
<1> HIDE DEF h, s
<1>7. \A u : <<"forget", u>> # h /\ <<"untag", u>> # h /\ <<"residents", u>> # h
  BY <1>5
<1> QED BY <1>3, <1>4, <1>7
        DEF AllOwed, SessionsOwed, TagsOwed, ResidentsOwed

LEMMA OwedInitial == Init => AllOwed
<1> SUFFICES ASSUME Init PROVE AllOwed
  OBVIOUS
<1>1. \A u \in User : account[u] = "active"
  BY DEF Init
<1>2. \A u \in User : Active(u)
  BY <1>1 DEF Active
<1>3. SessionGap = {} /\ TagGap = {} /\ LandlordGap = {}
  BY <1>2 DEF Init, SessionGap, TagGap, LandlordGap, User
<1> QED BY <1>3 DEF AllOwed, SessionsOwed, TagsOwed, ResidentsOwed

LEMMA OwedInductive == TypeInv /\ AllOwed /\ [Next]_vars => AllOwed'
<1> SUFFICES ASSUME TypeInv, AllOwed, [Next]_vars PROVE AllOwed'
  OBVIOUS
<1>1. Typed /\ JobsFit(job)
  BY TypeSplit
\* No entry goes wrong while the administrators stand still.
<1>2. ASSUME SessionGap' \subseteq SessionGap, TagGap' \subseteq TagGap,
             LandlordGap' \subseteq LandlordGap,
             \A a \in Admin : job[a] # None => job'[a] = job[a]
      PROVE  AllOwed'
  <2>1. \A x : Owed(job, x) => Owed(job', x)
    BY <1>2 DEF Owed, Owing
  <2> QED BY <1>2, <2>1, StaysOwed
<1>3. ASSUME UNCHANGED <<rows, caches>>, \A a \in Admin : job[a] # None => job'[a] = job[a]
      PROVE  AllOwed'
  <2>1. /\ SessionGap' = SessionGap /\ TagGap' = TagGap
        /\ LandlordGap' = LandlordGap
    BY <1>3 DEF rows, caches, SessionGap, TagGap, LandlordGap, Active
  <2> QED BY <1>2, <1>3, <2>1
<1>4. CASE UNCHANGED vars \/ Outage \/ Recovery
  <2>1. UNCHANGED <<rows, caches, job>>
    BY <1>4 DEF vars, Outage, Recovery
  <2> QED BY <1>3, <2>1
<1>5. ASSUME NEW c \in Client, ClientStart(c) PROVE AllOwed'
  <2>1. \A q \in Process \ {c} : job'[q] = job[q]
    BY <1>1, <1>5, ClientStartTurns DEF Typed
  <2>2. \A a \in Admin : job'[a] = job[a]
    BY <2>1, ProcessAssumption DEF Process
  <2> QED BY <1>3, <1>5, <2>2, StartChanges
<1>6. ASSUME NEW c \in Client, ClientStep(c) \/ Forget(c) PROVE AllOwed'
  <2>1. PICK X : Turns(c, X)
    BY <1>1, <1>6, ClientTurns DEF ClientStep, Typed
  <2>2. \A a \in Admin : job'[a] = job[a]
    BY <2>1, ProcessAssumption DEF Process, Turns
  <2> QED BY <1>1, <1>2, <1>6, <2>2, ClientGaps
<1>7. ASSUME NEW a \in Admin, AdminStart(a) PROVE AllOwed'
  <2>1. Idle(a) /\ \A q \in Process \ {a} : job'[q] = job[q]
    BY <1>1, <1>7, AdminStartTurns DEF Typed
  <2>2. \A b \in Admin : job[b] # None => job'[b] = job[b]
    BY <2>1 DEF Idle, Process
  <2> QED BY <1>3, <1>7, <2>2, StartChanges
<1>8. ASSUME NEW a \in Admin, AdminStep(a) \/ Forget(a) PROVE AllOwed'
  BY <1>1, <1>8, SavedOwed, RemovedOwed, ResidentsStayOwed, EstateOwed DEF AdminStep
<1>9. ASSUME NEW p \in Process, Crash(p) PROVE AllOwed'
  <2>1. SessionGap' = {} /\ TagGap' = {} /\ LandlordGap' = {}
    BY <1>1, <1>9, CrashGaps
  <2> QED BY <2>1 DEF AllOwed, SessionsOwed, TagsOwed, ResidentsOwed
<1> QED BY <1>4, <1>5, <1>6, <1>7, <1>8, <1>9, Actions DEF Process

\* An administrator who owes a call has committed.
LEMMA OwedMidway == \A x : Owed(job, x) => Midway
<1> SUFFICES ASSUME NEW x, NEW a \in Admin, Owing(job, a, x)
             PROVE  Midway
  BY DEF Owed
<1>1. ~Idle(a) /\ ~(At(a, "save") \/ At(a, "update") \/ At(a, "suspend") \/ At(a, "revokeCode"))
  BY DEF Owing, Idle, At, Commits
<1> QED BY <1>1 DEF Midway

\* The inductive invariant of the caches: whatever an entry wrongly says of a
\* user or a landlord, the request that made it wrong has committed and the
\* DELETE is still on its list (admin.py 276-297; users.py 100-139).
THEOREM WrongEntriesAreOwed == Spec => [](TypeInv /\ AllOwed)
<1>1. Init => TypeInv /\ AllOwed
  BY TypeInitial, OwedInitial
<1>2. TypeInv /\ AllOwed /\ [Next]_vars => (TypeInv /\ AllOwed)'
  BY TypeInductive, OwedInductive
<1> QED BY <1>1, <1>2, PTL DEF Spec

\* Nobody who is revoked or deleted has a cached session to be served from
\* once the request that did it is through, but for the races that mark an
\* entry stale (dependencies.py 116-166; admin.py 276-297; users.py 100-139).
THEOREM SessionsAreHonest == Spec => []SessionHonest
<1>1. AllOwed => SessionHonest
  BY OwedMidway DEF AllOwed, SessionsOwed, SessionGap, SessionHonest
<1> QED BY <1>1, WrongEntriesAreOwed, PTL

\* Nor has a revoked user, or a resident of a revoked landlord, a cached RFID
\* profile that opens the gate: each of any number of residents is reached
\* (verification.py 223-323; admin.py 287-292; users.py 117).
THEOREM TagsAreHonest == Spec => []RfidHonest
<1>1. AllOwed => RfidHonest
  <2> SUFFICES ASSUME AllOwed, ~Midway, NEW u \in User, tag[u] = "fresh" PROVE Holder(u)
    BY DEF RfidHonest
  <2>1. \A x : ~Owed(job, x)
    BY OwedMidway
  <2>2. u \notin TagGap
    BY <2>1 DEF AllOwed, TagsOwed
  <2>3. u \notin LandlordGap
    BY <2>1 DEF AllOwed, ResidentsOwed
  <2>4. u \in Resident => Active(Landlord)
    BY <2>3 DEF LandlordGap
  <2> QED BY <2>2, <2>4 DEF TagGap, Holder
<1> QED BY <1>1, WrongEntriesAreOwed, PTL

-----------------------------------------------------------------------------
(* Logout.                                                                 *)

LEMMA LogoutInitial == Init => LogoutInv
BY DEF Init, LogoutInv, At, Idle, Process
\* The requests of S move, and nothing is taken off the blacklist.
LEMMA LogoutStays ==
    ASSUME LogoutInv, faults = 0, NEW S,
           redisUp', returned' = {}, out' \subseteq banned', banned \subseteq banned',
           \A c \in Client \ S : job'[c] = job[c],
           \A c \in Client \cap S :
              job'[c] # None =>
                 /\ Head(job'[c].todo)[1] = "forget" => Head(job'[c].todo)[2] \in banned'
                 /\ job'[c].late => /\ Head(job'[c].todo)[1] \notin {"session", "account"}
                                    /\ Head(job'[c].todo)[2] \in banned'
    PROVE  LogoutInv'
<1>1. ASSUME NEW c \in Client, job'[c] # None
      PROVE  /\ Head(job'[c].todo)[1] = "forget" => Head(job'[c].todo)[2] \in banned'
             /\ job'[c].late => /\ Head(job'[c].todo)[1] \notin {"session", "account"}
                                /\ Head(job'[c].todo)[2] \in banned'
  <2>1. CASE c \in S
    BY <1>1, <2>1
  <2>2. CASE c \notin S
    <3>1. job'[c] = job[c]
      BY <2>2
    <3>2. /\ Head(job[c].todo)[1] = "forget" => Head(job[c].todo)[2] \in banned
          /\ job[c].late => /\ Head(job[c].todo)[1] \notin {"session", "account"}
                            /\ Head(job[c].todo)[2] \in banned
      BY <1>1, <3>1 DEF LogoutInv, At, Idle, Who
    <3> QED BY <3>1, <3>2
  <2> QED BY <2>1, <2>2
<1>2. \A c \in Client : At(c, "forget")' => Who(c)' \in banned'
  BY <1>1 DEF At, Idle, Who
<1>3. \A c \in Client : job'[c] # None /\ job'[c].late =>
              Head(job'[c].todo)[1] \notin {"session", "account"} /\ Who(c)' \in banned'
  BY <1>1 DEF Who
<1> QED BY <1>2, <1>3 DEF LogoutInv

\* While Redis answers, a request with a JWT that is on the blacklist is refused.
LEMMA ClientLogout ==
    ASSUME Typed, JobsFit(job), LogoutInv, faults = 0, NEW c \in Client, ClientStep(c) \/ Forget(c)
    PROVE  LogoutInv'
<1> DEFINE h == Head(job[c].todo)[1]
           w == Head(job[c].todo)[2]
<1>1. c \in Process /\ ~Idle(c) /\ job[c] # None
  BY DEF Process, ClientStep, At, Idle, TenantHit, TenantMiss, Validate, Banned, SessionHit, SessionMiss,
         ReadAccount, Credentials, Keep, Ban, TagHit, TagMiss, ReadHolder, ReadLandlord, Remember,
         ReadCode, Enlist, Forget
<1>2. /\ redisUp /\ returned = {} /\ out \subseteq banned
      /\ job[c].late => h \notin {"session", "account"} /\ w \in banned
      /\ h = "forget" => w \in banned
  BY <1>1 DEF LogoutInv, At, Who
<1>3. redisUp' = redisUp
  BY DEF ClientStep, TenantHit, TenantMiss, Validate, Banned, SessionHit, SessionMiss,
         ReadAccount, Credentials, Keep, Ban, TagHit, TagMiss, ReadHolder, ReadLandlord, Remember,
         ReadCode, Enlist, Forget
<1>4. ASSUME NEW X, Turns(c, X), redisUp', returned' = {}, out' \subseteq banned', banned \subseteq banned',
             "forget" \in X => w \in banned',
             "session" \in X \/ "account" \in X => ~job[c].late \/ job'[c] = None
      PROVE  LogoutInv'
  <2>1. \A d \in Client \ {c} : job'[d] = job[d]
    BY <1>4 DEF Turns, Process
  <2>2. ASSUME job'[c] # None
        PROVE  /\ Head(job'[c].todo)[1] = "forget" => Head(job'[c].todo)[2] \in banned'
               /\ job'[c].late => /\ Head(job'[c].todo)[1] \notin {"session", "account"}
                                  /\ Head(job'[c].todo)[2] \in banned'
    <3>1. /\ Head(job'[c].todo)[1] \in X /\ Head(job'[c].todo)[2] = w
          /\ job'[c].late = job[c].late
      BY <1>4, <2>2 DEF Turns
    <3>2. Head(job'[c].todo)[1] = "forget" => Head(job'[c].todo)[2] \in banned'
      BY <1>4, <3>1
    <3>3. ASSUME job'[c].late
          PROVE  Head(job'[c].todo)[1] \notin {"session", "account"} /\ Head(job'[c].todo)[2] \in banned'
      <4>1. job[c].late
        BY <3>1, <3>3
      <4>2. w \in banned
        BY <1>2, <4>1
      <4> QED BY <1>4, <2>2, <3>1, <4>1, <4>2
    <3> QED BY <3>2, <3>3
  <2>3. \A d \in Client \cap {c} :
           job'[d] # None =>
              /\ Head(job'[d].todo)[1] = "forget" => Head(job'[d].todo)[2] \in banned'
              /\ job'[d].late => /\ Head(job'[d].todo)[1] \notin {"session", "account"}
                                 /\ Head(job'[d].todo)[2] \in banned'
    BY <2>2
  <2> HIDE DEF Turns
  <2> QED BY <1>4, <2>1, <2>3, LogoutStays
<1>5. redisUp'
  BY <1>2, <1>3, Zenon
<1> HIDE DEF h, w
<1>6. CASE UNCHANGED <<out, returned, banned>> /\ ~Banned(c) /\ ~SessionMiss(c) /\ ~Ban(c) /\ ~Forget(c)
  <2>1. \E X : Turns(c, X) /\ "forget" \notin X /\ "session" \notin X /\ "account" \notin X
    <3>1. ASSUME NEW X \in {{}, {"validate"}, {"ban"}, {"keep"}, {"holder"}, {"landlord", "remember"},
                            {"remember"}, {"enlist"}}
          PROVE  "forget" \notin X /\ "session" \notin X /\ "account" \notin X
      OBVIOUS
    <3>2. \E X \in {{}, {"validate"}, {"ban"}, {"keep"}, {"holder"}, {"landlord", "remember"},
                    {"remember"}, {"enlist"}} : Turns(c, X)
      BY <1>6, ClientTurns DEF ClientStep, Typed
    <3> QED BY <3>1, <3>2
  <2> QED BY <1>2, <1>4, <1>5, <1>6, <2>1
<1>7. CASE SessionHit(c) \/ ReadAccount(c)
  <2>1. ~job[c].late
    BY <1>2, <1>7 DEF SessionHit, ReadAccount, At, h
  <2>2. UNCHANGED <<out, returned, banned>>
    BY <1>7, <2>1 DEF SessionHit, ReadAccount, Served, caches
  <2>3. Turns(c, {"ban"}) \/ Turns(c, {"keep"})
    BY <1>7, ClientTurns DEF Typed
  <2> QED BY <1>2, <1>4, <1>5, <2>2, <2>3
<1>8. CASE SessionMiss(c)
  <2>1. ~job[c].late
    BY <1>2, <1>8 DEF SessionMiss, At, h
  <2>2. UNCHANGED <<out, returned, banned>>
    BY <1>8 DEF SessionMiss, history
  <2>3. Turns(c, {"account"})
    BY <1>8, ClientTurns DEF Typed
  <2> QED BY <1>2, <1>4, <1>5, <2>1, <2>2, <2>3
<1>9. CASE Banned(c)
  <2>1. UNCHANGED <<out, returned, banned>>
    BY <1>9 DEF Banned, caches, history
  <2>2. Turns(c, {"session"})
    BY <1>9, ClientTurns DEF Typed
  <2>3. ~job[c].late \/ job'[c] = None
    <3>1. ASSUME job[c].late PROVE Refuse(c)
      BY <1>2, <1>9, <3>1 DEF Banned, Who, w
    <3>2. Refuse(c) => job'[c] = None
      BY <1>1, ClientRefuses
    <3> QED BY <3>1, <3>2
  <2> QED BY <1>2, <1>4, <1>5, <2>1, <2>2, <2>3
<1>10. CASE Ban(c)
  <2>1. UNCHANGED <<out, returned>> /\ banned' = banned \cup {w}
    BY <1>2, <1>10 DEF Ban, history, Who, w
  <2>2. Turns(c, {"forget"})
    BY <1>10, ClientTurns DEF Typed
  <2>3. w \in banned' /\ banned \subseteq banned' /\ out' \subseteq banned' /\ returned' = {}
    BY <1>2, <2>1
  <2> QED BY <1>4, <1>5, <2>2, <2>3
<1>11. CASE Forget(c)
  <2>1. UNCHANGED <<returned, banned>> /\ out' = out \cup {w} /\ w \in banned
    BY <1>2, <1>11 DEF Forget, At, Who, h, w
  <2>2. Turns(c, {})
    BY <1>11, ClientTurns DEF Typed
  <2>3. banned \subseteq banned' /\ out' \subseteq banned' /\ returned' = {}
    BY <1>2, <2>1
  <2> QED BY <1>4, <1>5, <2>2, <2>3
<1>12. \/ SessionHit(c) \/ ReadAccount(c) \/ SessionMiss(c) \/ Banned(c) \/ Ban(c) \/ Forget(c)
       \/ UNCHANGED <<out, returned, banned>>
  BY DEF ClientStep, TenantHit, TenantMiss, Validate, Credentials, Keep, TagHit, TagMiss, ReadHolder,
         ReadLandlord, Remember, ReadCode, Enlist, caches, history
<1> QED BY <1>6, <1>7, <1>8, <1>9, <1>10, <1>11, <1>12

LEMMA LogoutInductive == TypeInv /\ LogoutInv /\ [Next]_vars => LogoutInv'
<1> SUFFICES ASSUME TypeInv, LogoutInv, [Next]_vars, faults' = 0 PROVE LogoutInv'
  BY DEF LogoutInv
<1>1. Typed /\ JobsFit(job)
  BY TypeSplit
<1>2. CASE UNCHANGED vars
  BY <1>2 DEF vars, rows, caches, history, LogoutInv, At, Idle, Who
<1>3. ASSUME NEW p \in Process PROVE ~Crash(p)
  BY <1>1 DEF Crash, Typed
<1>4. ~Outage
  BY <1>1 DEF Outage, Typed
<1>5. faults = 0 /\ ~Recovery
  <2>1. CASE (\E c \in Client : ClientStart(c)) \/ (\E a \in Admin : AdminStart(a))
    <3>1. faults = 0
      BY <2>1, StartChanges
    <3>2. redisUp
      BY <3>1 DEF LogoutInv
    <3> QED BY <3>1, <3>2 DEF Recovery
  <2>2. CASE ~((\E c \in Client : ClientStart(c)) \/ (\E a \in Admin : AdminStart(a)))
    <3>1. faults' = faults
      BY <1>3, <1>4, <2>2, Actions
         DEF vars, ClientStep, TenantHit, TenantMiss, Validate, Banned, SessionHit, SessionMiss,
             ReadAccount, Credentials, Keep, Ban, TagHit, TagMiss, ReadHolder, ReadLandlord, Remember,
             ReadCode, Enlist, Forget, Recovery,
             AdminStep, Save, Update, Untag, ReadResidents, SuspendEstate, Announce, RevokeCode
    <3>2. faults = 0
      BY <3>1
    <3>3. redisUp
      BY <3>2 DEF LogoutInv
    <3> QED BY <3>2, <3>3 DEF Recovery
  <2> QED BY <2>1, <2>2
<1>6. redisUp /\ returned = {} /\ out \subseteq banned
  BY <1>5 DEF LogoutInv
\* The clients stand still, and nobody logs out.
<1>7. ASSUME UNCHANGED <<out, returned, banned, redisUp>>, \A c \in Client : job'[c] = job[c]
      PROVE  LogoutInv'
  <2>1. redisUp'
    BY <1>6, <1>7, Zenon
  <2> QED BY <1>5, <1>6, <1>7, <2>1, LogoutStays
<1>8. ASSUME NEW c \in Client, ClientStart(c) PROVE LogoutInv'
  <2>1. /\ \A q \in Process \ {c} : job'[q] = job[q]
        /\ Head(job'[c].todo)[1] \in FirstCalls
        /\ job'[c].late = (Head(job'[c].todo)[2] \in out)
    BY <1>1, <1>8, ClientStartTurns DEF Typed
  <2>2. UNCHANGED <<out, returned, banned, redisUp>>
    BY <1>8, StartChanges DEF caches, history
  <2>3. redisUp'
    BY <1>6, <2>2, Zenon
  <2>4. \A d \in Client \ {c} : job'[d] = job[d]
    BY <2>1 DEF Process
  <2>5. job'[c].late => Head(job'[c].todo)[2] \in banned'
    BY <1>6, <2>1, <2>2
  <2>6. Head(job'[c].todo)[1] \notin {"forget", "session", "account"}
    BY <2>1 DEF FirstCalls
  <2>7. \A d \in Client \cap {c} :
           job'[d] # None =>
              /\ Head(job'[d].todo)[1] = "forget" => Head(job'[d].todo)[2] \in banned'
              /\ job'[d].late => /\ Head(job'[d].todo)[1] \notin {"session", "account"}
                                 /\ Head(job'[d].todo)[2] \in banned'
    BY <2>5, <2>6
  <2>8. returned' = {} /\ out' \subseteq banned' /\ banned \subseteq banned'
    BY <1>6, <2>2
  <2> QED BY <1>5, <2>3, <2>4, <2>7, <2>8, LogoutStays
<1>9. ASSUME NEW a \in Admin, AdminStart(a) PROVE LogoutInv'
  <2>1. \A q \in Process \ {a} : job'[q] = job[q]
    BY <1>1, <1>9, AdminStartTurns DEF Typed
  <2>2. UNCHANGED <<out, returned, banned, redisUp>>
    BY <1>9, StartChanges DEF caches, history
  <2>3. \A c \in Client : job'[c] = job[c]
    BY <2>1, ProcessAssumption DEF Process
  <2> QED BY <1>7, <2>2, <2>3
<1>10. ASSUME NEW a \in Admin, AdminStep(a) \/ Forget(a) PROVE LogoutInv'
  <2>1. \A q \in Process \ {a} : job'[q] = job[q]
    BY <1>10, <1>1, AdminTurns, ResidentsTurns DEF AdminStep, Advances
  <2>2. a \notin Client
    BY ProcessAssumption
  <2>3. UNCHANGED <<out, returned, banned, redisUp>>
    BY <1>10, <2>2 DEF AdminStep, Save, Update, Untag, ReadResidents, SuspendEstate, Announce,
                       RevokeCode, Forget, caches, history
  <2>4. \A c \in Client : job'[c] = job[c]
    BY <2>1, <2>2 DEF Process
  <2> QED BY <1>7, <2>3, <2>4
<1> QED BY <1>1, <1>2, <1>3, <1>4, <1>5, <1>8, <1>9, <1>10, ClientLogout, Actions DEF Process

\* A JWT whose logout was answered serves no request that starts afterwards,
\* whatever other logins cache meanwhile, as long as nothing has failed
\* (dependencies.py 109-139; auth.py 95-108).
THEOREM LogoutIsFinal == Spec => []LoggedOutStaysOut
<1>1. TypeInv /\ LogoutInv => LoggedOutStaysOut
  <2> SUFFICES ASSUME TypeInv, LogoutInv, returned # {} PROVE faults > 0
    BY DEF LoggedOutStaysOut
  <2>1. faults \in Nat /\ faults # 0
    BY DEF LogoutInv, TypeInv, TypeOK
  <2> QED BY <2>1
<1>2. Init => TypeInv /\ LogoutInv
  BY TypeInitial, LogoutInitial
<1>3. TypeInv /\ LogoutInv /\ [Next]_vars => (TypeInv /\ LogoutInv)'
  BY TypeInductive, LogoutInductive
<1> QED BY <1>1, <1>2, <1>3, PTL DEF Spec

-----------------------------------------------------------------------------
(* Registration by code.                                                   *)

LEMMA EnlistingFinite ==
    ASSUME NEW jobs
    PROVE  /\ IsFiniteSet(Enlisting(jobs)) /\ Cardinality(Enlisting(jobs)) \in Nat
           /\ Cardinality(Client) \in Nat /\ Cardinality(Enlisting(jobs)) <= Cardinality(Client)
<1>1. Enlisting(jobs) \subseteq Client
  BY DEF Enlisting
<1> QED BY <1>1, ProcessAssumption, FS_Subset, FS_CardinalityType

\* Nobody new reads a code that has been used.
LEMMA CodeStays ==
    ASSUME TypeInv, CodeInv, code'.used = code.used, uses' = uses,
           code.used => Enlisting(job') \subseteq Enlisting(job)
    PROVE  CodeInv'
<1>1. code.used \in BOOLEAN /\ uses \in Nat
  BY DEF TypeInv, TypeOK
<1>2. CASE code.used
  <2> DEFINE m == Cardinality(Enlisting(job))
             n == Cardinality(Enlisting(job'))
             k == Cardinality(Client)
  <2>1. m \in Nat /\ n \in Nat /\ k \in Nat
    BY EnlistingFinite
  <2>2. n <= m
    BY <1>2, EnlistingFinite, FS_Subset
  <2>3. uses + m <= k
    BY <1>2 DEF CodeInv
  <2> HIDE DEF m, n, k
  <2>4. uses' + n <= k
    BY <1>1, <2>1, <2>2, <2>3
  <2>5. code'.used
    BY <1>2, Zenon
  <2> QED BY <2>4, <2>5 DEF CodeInv, n, k
<1>3. CASE ~code.used
  <2>1. ~code'.used
    BY <1>3, Zenon
  <2>2. uses' = 0
    BY <1>3 DEF CodeInv
  <2> QED BY <2>1, <2>2 DEF CodeInv
<1> QED BY <1>2, <1>3

\* Only a request that turns to the INSERT joins those who have read the code.
LEMMA EnlistingTurns ==
    ASSUME NEW c \in Client, \A q \in Process \ {c} : job'[q] = job[q],
           job'[c] # None => Head(job'[c].todo)[1] # "enlist"
    PROVE  Enlisting(job') = Enlisting(job) \ {c}
<1>1. \A d \in Client \ {c} : job'[d] = job[d]
  BY DEF Process
<1> QED BY <1>1 DEF Enlisting

LEMMA CodeInitial == Init => CodeInv
<1> SUFFICES ASSUME Init PROVE CodeInv
  OBVIOUS
<1>1. ~code.used /\ uses = 0
  BY DEF Init
<1> QED BY <1>1 DEF CodeInv

LEMMA EnlistCounted ==
    ASSUME TypeInv, CodeInv, NEW c \in Client, Enlist(c)
    PROVE  CodeInv'
<1>1. Typed /\ JobsFit(job)
  BY TypeSplit
<1>2. Turns(c, {})
  BY <1>1, ClientTurns DEF Typed
<1>3. Enlisting(job') = Enlisting(job) \ {c}
  BY <1>2, EnlistingTurns DEF Turns
<1>4. c \in Enlisting(job)
  BY DEF Enlist, At, Idle, Enlisting
<1>5. CASE UNCHANGED <<code, uses>>
  BY <1>3, <1>5, CodeStays
<1>6. CASE code' = [code EXCEPT !.used = TRUE] /\ uses' = uses + 1
  <2> DEFINE m == Cardinality(Enlisting(job))
             n == Cardinality(Enlisting(job'))
             k == Cardinality(Client)
  <2>1. m \in Nat /\ n \in Nat /\ k \in Nat /\ m <= k
    BY EnlistingFinite
  <2>2. n = m - 1
    BY <1>3, <1>4, EnlistingFinite, FS_RemoveElement
  <2>3. uses \in Nat /\ code.used \in BOOLEAN /\ code'.used
    BY <1>6 DEF TypeInv, TypeOK
  <2>4. uses = 0 \/ uses + m <= k
    BY DEF CodeInv
  <2> HIDE DEF m, n, k
  <2>5. uses' + n <= k
    BY <1>6, <2>1, <2>2, <2>3, <2>4
  <2> QED BY <2>3, <2>5 DEF CodeInv, n, k
<1> QED BY <1>5, <1>6 DEF Enlist, CodeUsed

LEMMA CodeInductive == TypeInv /\ CodeInv /\ [Next]_vars => CodeInv'
<1> SUFFICES ASSUME TypeInv, CodeInv, [Next]_vars PROVE CodeInv'
  OBVIOUS
<1>1. Typed /\ JobsFit(job)
  BY TypeSplit
<1>2. ASSUME UNCHANGED <<code, uses>>, Enlisting(job') \subseteq Enlisting(job) PROVE CodeInv'
  BY <1>2, CodeStays
<1>3. CASE UNCHANGED vars \/ Outage \/ Recovery
  BY <1>2, <1>3 DEF vars, Outage, Recovery, rows
<1>4. ASSUME NEW c \in Client, ClientStart(c) PROVE CodeInv'
  <2>1. /\ \A q \in Process \ {c} : job'[q] = job[q]
        /\ Head(job'[c].todo)[1] \in FirstCalls
    BY <1>1, <1>4, ClientStartTurns DEF Typed
  <2>2. Enlisting(job') = Enlisting(job) \ {c}
    BY <2>1, EnlistingTurns DEF FirstCalls
  <2> QED BY <1>2, <1>4, <2>2, StartChanges DEF rows
<1>5. ASSUME NEW c \in Client, ClientStep(c) \/ Forget(c), ~Enlist(c), ~ReadCode(c) PROVE CodeInv'
  <2>1. \E X \in {{}, {"validate"}, {"session"}, {"ban"}, {"account"}, {"keep"}, {"forget"}, {"holder"},
                  {"landlord", "remember"}, {"remember"}} : Turns(c, X)
    BY <1>1, <1>5, ClientTurns DEF ClientStep, Typed
  <2>2. \A X \in {{}, {"validate"}, {"session"}, {"ban"}, {"account"}, {"keep"}, {"forget"}, {"holder"},
                  {"landlord", "remember"}, {"remember"}} : "enlist" \notin X
    OBVIOUS
  <2>3. Enlisting(job') = Enlisting(job) \ {c}
    BY <2>1, <2>2, EnlistingTurns DEF Turns
  <2>4. UNCHANGED <<code, uses>>
    BY <1>5 DEF ClientStep, TenantHit, TenantMiss, Validate, Banned, SessionHit, SessionMiss,
         ReadAccount, Credentials, Keep, Ban, TagHit, TagMiss, ReadHolder, ReadLandlord, Remember,
         Forget, rows
  <2> QED BY <1>2, <2>3, <2>4
<1>6. ASSUME NEW c \in Client, ReadCode(c) PROVE CodeInv'
  <2>1. UNCHANGED <<code, uses>> /\ Turns(c, {"enlist"}) /\ ~Idle(c)
    BY <1>1, <1>6, ClientTurns DEF ReadCode, rows, Typed, At
  <2>2. ASSUME code.used PROVE Enlisting(job') \subseteq Enlisting(job)
    <3>1. job'[c] = None
      BY <1>1, <1>6, <2>1, <2>2, ClientRefuses DEF ReadCode
    <3>2. Enlisting(job') = Enlisting(job) \ {c}
      BY <2>1, <3>1, EnlistingTurns DEF Turns
    <3> QED BY <3>2
  <2> QED BY <2>1, <2>2, CodeStays
<1>7. ASSUME NEW a \in Admin, \A q \in Process \ {a} : job'[q] = job[q]
      PROVE  Enlisting(job') \subseteq Enlisting(job)
  <2>1. \A c \in Client : job'[c] = job[c]
    BY <1>7, ProcessAssumption DEF Process
  <2> QED BY <2>1 DEF Enlisting
<1>8. ASSUME NEW a \in Admin, AdminStart(a) PROVE CodeInv'
  <2>1. \A q \in Process \ {a} : job'[q] = job[q]
    BY <1>1, <1>8, AdminStartTurns DEF Typed
  <2> QED BY <1>2, <1>7, <1>8, <2>1, StartChanges DEF rows
<1>9. ASSUME NEW a \in Admin, AdminStep(a) \/ Forget(a) PROVE CodeInv'
  <2>1. \A q \in Process \ {a} : job'[q] = job[q]
    BY <1>9, <1>1, AdminTurns, ResidentsTurns DEF AdminStep, Advances
  <2>2. uses' = uses /\ (code' = code \/ code' = [code EXCEPT !.revoked = TRUE])
    BY <1>9 DEF AdminStep, Save, Update, Untag, ReadResidents, SuspendEstate, Announce, RevokeCode,
                Forget, rows
  <2>3. code'.used = code.used
    BY <1>1, <2>2 DEF Typed
  <2> QED BY <1>7, <2>1, <2>2, <2>3, CodeStays
<1>10. ASSUME NEW p \in Process, Crash(p) PROVE CodeInv'
  <2>1. \A q \in Process : job'[q] = None \/ job'[q] = job[q]
    BY <1>1, <1>10, Dropped DEF Crash
  <2>2. Enlisting(job') \subseteq Enlisting(job)
    BY <2>1 DEF Enlisting, Process
  <2> QED BY <1>2, <1>10, <2>2 DEF Crash, rows
<1> QED BY <1>3, <1>4, <1>5, <1>6, <1>8, <1>9, <1>10, EnlistCounted, Actions DEF Process

\* A code registers no more residents than there are registrations that may
\* have read it at once: each that has read it unused may still register, and
\* nobody joins them afterwards (users.py 39-90).
THEOREM RegistrationsAreBounded == Spec => []RegistrationsOverlap
<1>1. TypeInv /\ CodeInv => RegistrationsOverlap
  <2> SUFFICES ASSUME TypeInv, CodeInv PROVE uses <= Cardinality(Client)
    BY DEF RegistrationsOverlap
  <2> DEFINE m == Cardinality(Enlisting(job))
             k == Cardinality(Client)
  <2>1. m \in Nat /\ k \in Nat /\ uses \in Nat
    BY EnlistingFinite DEF TypeInv, TypeOK
  <2>2. uses = 0 \/ uses + m <= k
    BY DEF CodeInv
  <2> HIDE DEF m, k
  <2>3. uses <= k
    BY <2>1, <2>2
  <2> QED BY <2>3 DEF k
<1>2. Init => TypeInv /\ CodeInv
  BY TypeInitial, CodeInitial
<1>3. TypeInv /\ CodeInv /\ [Next]_vars => (TypeInv /\ CodeInv)'
  BY TypeInductive, CodeInductive
<1> QED BY <1>1, <1>2, <1>3, PTL DEF Spec
=============================================================================
