--------------------------- MODULE SubscriptionProofs ---------------------------
(***************************************************************************)
(* Proofs about Subscription: every job keeps to what it has read, so      *)
(* nobody is served after the latest date the estate was given, a running  *)
(* subscription is not retired, and the cached entry, unless one of the    *)
(* excepted races made it stale, decides as the row does.                  *)
(***************************************************************************)
EXTENDS Subscription, SequenceTheorems, TLAPS

-----------------------------------------------------------------------------
(* Lists of calls.                                                         *)

Has(s, x) == \E i \in 1 .. Len(s) : s[i] = x

\* At most one commit.
Once(s) == \A i, j \in 1 .. Len(s) : s[i] = "commit" /\ s[j] = "commit" => i = j

\* reset_monthly_quota_redis: a call follows the DELETE, which an error skips.
Paired(s) == \A i \in 1 .. Len(s) : s[i] = "unquota" => i < Len(s)

\* A cached entry that is removed after the commit is removed next.
Timely(s) ==
    \A i \in 1 .. Len(s) : s[i] = "invalidate" =>
        i = 1 \/ s[i - 1] = "commit" \/ \E k \in i .. Len(s) : s[k] = "commit"

\* The removal of the cached entry follows the commit.
Removes(s) == \A i \in 1 .. Len(s) : s[i] = "commit" => i < Len(s) /\ s[i + 1] = "invalidate"

LEMMA TailCalls ==
    ASSUME NEW s \in Seq(Call), s # <<>>
    PROVE  /\ Head(s) \in Call /\ Head(s) = s[1] /\ Has(s, Head(s))
           /\ Tail(s) \in Seq(Call)
           /\ \A x : Has(Tail(s), x) => Has(s, x)
           /\ Paired(s) => Paired(Tail(s))
           /\ Once(s) => Once(Tail(s))
           /\ Once(s) /\ Head(s) = "commit" => ~Has(Tail(s), "commit")
           /\ Paired(s) /\ Head(s) = "unquota" => Tail(s) # <<>>
           /\ Timely(s) => Timely(Tail(s))
           /\ Removes(s) => Removes(Tail(s))
<1>1. /\ Head(s) \in Call /\ Head(s) = s[1] /\ Tail(s) \in Seq(Call)
      /\ Len(s) \in Nat /\ Len(s) > 0
      /\ Len(Tail(s)) = Len(s) - 1
      /\ \A i \in 1 .. Len(Tail(s)) : Tail(s)[i] = s[i + 1]
  BY HeadTailProperties, EmptySeq
<1>2. \A x : Has(Tail(s), x) => Has(s, x)
  BY <1>1 DEF Has
<1>3. Has(s, Head(s))
  BY <1>1 DEF Has
<1>4. Paired(s) => Paired(Tail(s))
  BY <1>1 DEF Paired
<1>5. Once(s) => Once(Tail(s))
  <2> SUFFICES ASSUME Once(s), NEW i \in 1 .. Len(Tail(s)), NEW j \in 1 .. Len(Tail(s)),
                      Tail(s)[i] = "commit", Tail(s)[j] = "commit"
               PROVE  i = j
    BY DEF Once
  <2>1. i + 1 \in 1 .. Len(s) /\ j + 1 \in 1 .. Len(s)
    BY <1>1
  <2>2. s[i + 1] = "commit" /\ s[j + 1] = "commit"
    BY <1>1
  <2>3. i + 1 = j + 1
    BY <2>1, <2>2 DEF Once
  <2> QED BY <1>1, <2>3
<1>6. Once(s) /\ Head(s) = "commit" => ~Has(Tail(s), "commit")
  <2> SUFFICES ASSUME Once(s), Head(s) = "commit", NEW i \in 1 .. Len(Tail(s)), Tail(s)[i] = "commit"
               PROVE  FALSE
    BY DEF Has
  <2>1. 1 \in 1 .. Len(s) /\ i + 1 \in 1 .. Len(s) /\ s[1] = "commit" /\ s[i + 1] = "commit"
    BY <1>1
  <2>2. i + 1 = 1
    BY <2>1 DEF Once
  <2> QED BY <1>1, <2>2
<1>7. Paired(s) /\ Head(s) = "unquota" => Tail(s) # <<>>
  <2> SUFFICES ASSUME Paired(s), Head(s) = "unquota" PROVE Tail(s) # <<>>
    OBVIOUS
  <2>1. 1 < Len(s)
    BY <1>1 DEF Paired
  <2>2. Len(Tail(s)) # 0
    BY <1>1, <2>1
  <2> QED BY <2>2, EmptySeq
<1>8. Timely(s) => Timely(Tail(s))
  <2> SUFFICES ASSUME Timely(s), NEW i \in 1 .. Len(Tail(s)), Tail(s)[i] = "invalidate", i # 1,
                      Tail(s)[i - 1] # "commit"
               PROVE  \E k \in i .. Len(Tail(s)) : Tail(s)[k] = "commit"
    BY DEF Timely
  <2>1. i + 1 \in 1 .. Len(s) /\ s[i + 1] = "invalidate" /\ i + 1 # 1 /\ (i + 1) - 1 = i
    BY <1>1
  <2>2. i - 1 \in 1 .. Len(Tail(s)) /\ (i - 1) + 1 = i
    BY <1>1
  <2>3. s[i] # "commit"
    BY <1>1, <2>2
  <2>4. PICK k \in i + 1 .. Len(s) : s[k] = "commit"
    BY <2>1, <2>3 DEF Timely
  <2>5. k - 1 \in i .. Len(Tail(s)) /\ k - 1 \in 1 .. Len(Tail(s)) /\ (k - 1) + 1 = k
    BY <1>1, <2>4
  <2> QED BY <1>1, <2>4, <2>5
<1>9. Removes(s) => Removes(Tail(s))
  <2> SUFFICES ASSUME Removes(s), NEW i \in 1 .. Len(Tail(s)), Tail(s)[i] = "commit"
               PROVE  i < Len(Tail(s)) /\ Tail(s)[i + 1] = "invalidate"
    BY DEF Removes
  <2>1. i + 1 \in 1 .. Len(s) /\ s[i + 1] = "commit"
    BY <1>1
  <2>2. i + 1 < Len(s) /\ s[(i + 1) + 1] = "invalidate"
    BY <2>1 DEF Removes
  <2>3. i < Len(Tail(s)) /\ i + 1 \in 1 .. Len(Tail(s))
    BY <1>1, <2>2
  <2> QED BY <1>1, <2>2, <2>3
<1> QED BY <1>1, <1>2, <1>3, <1>4, <1>5, <1>6, <1>7, <1>8, <1>9

LEMMA JoinedCalls ==
    ASSUME NEW s \in Seq(Call), NEW u \in Seq(Call)
    PROVE  /\ s \o u \in Seq(Call)
           /\ \A x : Has(s \o u, x) <=> Has(s, x) \/ Has(u, x)
           /\ Paired(s) /\ Paired(u) => Paired(s \o u)
           /\ Once(s) /\ ~Has(u, "commit") => Once(s \o u)
           /\ ~Has(s, "commit") /\ Once(u) => Once(s \o u)
           /\ Timely(s) /\ ~Has(u, "invalidate") => Timely(s \o u)
           /\ Has(u, "commit") /\ ~Has(u, "invalidate") => Timely(s \o u)
           /\ Removes(s) /\ ~Has(u, "commit") => Removes(s \o u)
<1>1. /\ s \o u \in Seq(Call) /\ Len(s) \in Nat /\ Len(u) \in Nat
      /\ Len(s \o u) = Len(s) + Len(u)
      /\ \A i \in 1 .. Len(s) + Len(u) : (s \o u)[i] = IF i <= Len(s) THEN s[i] ELSE u[i - Len(s)]
  BY ConcatProperties, LenProperties
<1>2. ASSUME NEW i \in 1 .. Len(s \o u)
      PROVE  \/ i \in 1 .. Len(s) /\ (s \o u)[i] = s[i]
             \/ i - Len(s) \in 1 .. Len(u) /\ (s \o u)[i] = u[i - Len(s)]
  BY <1>1
<1>3. ASSUME NEW i \in 1 .. Len(s) PROVE i \in 1 .. Len(s \o u) /\ (s \o u)[i] = s[i]
  BY <1>1
<1>4. ASSUME NEW i \in 1 .. Len(u)
      PROVE  i + Len(s) \in 1 .. Len(s \o u) /\ (s \o u)[i + Len(s)] = u[i]
  <2>1. i + Len(s) \in 1 .. Len(s) + Len(u) /\ ~(i + Len(s) <= Len(s)) /\ (i + Len(s)) - Len(s) = i
    BY <1>1
  <2> QED BY <1>1, <2>1
<1>5. \A x : Has(s \o u, x) <=> Has(s, x) \/ Has(u, x)
  BY <1>2, <1>3, <1>4 DEF Has
<1>6. Paired(s) /\ Paired(u) => Paired(s \o u)
  <2> SUFFICES ASSUME Paired(s), Paired(u), NEW i \in 1 .. Len(s \o u), (s \o u)[i] = "unquota"
               PROVE  i < Len(s \o u)
    BY DEF Paired
  <2>1. CASE i \in 1 .. Len(s) /\ (s \o u)[i] = s[i]
    BY <1>1, <2>1 DEF Paired
  <2>2. CASE i - Len(s) \in 1 .. Len(u) /\ (s \o u)[i] = u[i - Len(s)]
    <3>1. i - Len(s) < Len(u)
      BY <2>2 DEF Paired
    <3> QED BY <1>1, <3>1
  <2> QED BY <1>2, <2>1, <2>2
<1>7. Once(s) /\ ~Has(u, "commit") => Once(s \o u)
  <2> SUFFICES ASSUME Once(s), ~Has(u, "commit"), NEW i \in 1 .. Len(s \o u), NEW j \in 1 .. Len(s \o u),
                      (s \o u)[i] = "commit", (s \o u)[j] = "commit"
               PROVE  i = j
    BY DEF Once
  <2>1. i \in 1 .. Len(s) /\ s[i] = "commit" /\ j \in 1 .. Len(s) /\ s[j] = "commit"
    BY <1>2 DEF Has
  <2> QED BY <2>1 DEF Once
<1>8. ~Has(s, "commit") /\ Once(u) => Once(s \o u)
  <2> SUFFICES ASSUME ~Has(s, "commit"), Once(u), NEW i \in 1 .. Len(s \o u), NEW j \in 1 .. Len(s \o u),
                      (s \o u)[i] = "commit", (s \o u)[j] = "commit"
               PROVE  i = j
    BY DEF Once
  <2>1. /\ i - Len(s) \in 1 .. Len(u) /\ u[i - Len(s)] = "commit"
        /\ j - Len(s) \in 1 .. Len(u) /\ u[j - Len(s)] = "commit"
    BY <1>2 DEF Has
  <2>2. i - Len(s) = j - Len(s)
    BY <2>1 DEF Once
  <2> QED BY <1>1, <2>2
<1>9. Timely(s) /\ ~Has(u, "invalidate") => Timely(s \o u)
  <2> SUFFICES ASSUME Timely(s), ~Has(u, "invalidate"), NEW i \in 1 .. Len(s \o u),
                      (s \o u)[i] = "invalidate", i # 1, (s \o u)[i - 1] # "commit"
               PROVE  \E k \in i .. Len(s \o u) : (s \o u)[k] = "commit"
    BY DEF Timely
  <2>1. i \in 1 .. Len(s) /\ s[i] = "invalidate"
    BY <1>2 DEF Has
  <2>2. i - 1 \in 1 .. Len(s)
    BY <2>1
  <2>3. s[i - 1] # "commit"
    BY <1>3, <2>2
  <2>4. PICK k \in i .. Len(s) : s[k] = "commit"
    BY <2>1, <2>3 DEF Timely
  <2>5. k \in 1 .. Len(s) /\ k \in i .. Len(s \o u)
    BY <1>1, <2>1, <2>4
  <2> QED BY <1>3, <2>4, <2>5
<1>10. Has(u, "commit") /\ ~Has(u, "invalidate") => Timely(s \o u)
  <2> SUFFICES ASSUME Has(u, "commit"), ~Has(u, "invalidate"), NEW i \in 1 .. Len(s \o u),
                      (s \o u)[i] = "invalidate"
               PROVE  \E k \in i .. Len(s \o u) : (s \o u)[k] = "commit"
    BY DEF Timely
  <2>1. i \in 1 .. Len(s)
    BY <1>2 DEF Has
  <2>2. PICK k \in 1 .. Len(u) : u[k] = "commit"
    BY DEF Has
  <2>3. k + Len(s) \in i .. Len(s \o u)
    BY <1>1, <2>1, <2>2
  <2> QED BY <1>4, <2>2, <2>3
<1>11. Removes(s) /\ ~Has(u, "commit") => Removes(s \o u)
  <2> SUFFICES ASSUME Removes(s), ~Has(u, "commit"), NEW i \in 1 .. Len(s \o u), (s \o u)[i] = "commit"
               PROVE  i < Len(s \o u) /\ (s \o u)[i + 1] = "invalidate"
    BY DEF Removes
  <2>1. i \in 1 .. Len(s) /\ s[i] = "commit"
    BY <1>2 DEF Has
  <2>2. i < Len(s) /\ s[i + 1] = "invalidate" /\ i + 1 \in 1 .. Len(s)
    BY <1>1, <2>1 DEF Removes
  <2> QED BY <1>1, <1>3, <2>2
<1> QED BY <1>1, <1>5, <1>6, <1>7, <1>8, <1>9, <1>10, <1>11

LEMMA NoCalls ==
    <<>> \in Seq(Call) /\ Paired(<<>>) /\ Once(<<>>) /\ Timely(<<>>) /\ \A x : ~Has(<<>>, x)
BY EmptySeq DEF Paired, Once, Timely, Has

LEMMA OneCall ==
    ASSUME NEW c \in Call
    PROVE  /\ <<c>> \in Seq(Call) /\ <<c>> # <<>> /\ Head(<<c>>) = c
           /\ \A x : Has(<<c>>, x) <=> x = c
           /\ Once(<<c>>) /\ Timely(<<c>>)
           /\ c # "unquota" => Paired(<<c>>)
<1>1. Len(<<c>>) = 1 /\ <<c>>[1] = c
  OBVIOUS
<1>2. 1 .. 1 = {1}
  OBVIOUS
<1> QED BY <1>1, <1>2 DEF Has, Once, Paired, Timely

LEMMA TwoCalls ==
    ASSUME NEW c \in Call, NEW e \in Call
    PROVE  /\ <<c, e>> \in Seq(Call) /\ <<c, e>> # <<>> /\ Head(<<c, e>>) = c
           /\ \A x : Has(<<c, e>>, x) <=> x = c \/ x = e
           /\ e # "commit" => Once(<<c, e>>)
           /\ e # "unquota" => Paired(<<c, e>>)
           /\ e # "invalidate" \/ c = "commit" => Timely(<<c, e>>)
           /\ c = "commit" /\ e = "invalidate" => Removes(<<c, e>>)
<1>1. Len(<<c, e>>) = 2 /\ <<c, e>>[1] = c /\ <<c, e>>[2] = e
  OBVIOUS
<1>2. 1 .. 2 = {1, 2}
  OBVIOUS
<1>3. e # "invalidate" \/ c = "commit" => Timely(<<c, e>>)
  <2> SUFFICES ASSUME e # "invalidate" \/ c = "commit", NEW i \in {1, 2}, <<c, e>>[i] = "invalidate", i # 1
               PROVE  <<c, e>>[i - 1] = "commit"
    BY <1>1, <1>2 DEF Timely
  <2>1. i = 2 /\ i - 1 = 1
    OBVIOUS
  <2> QED BY <1>1, <2>1
<1>4. c = "commit" /\ e = "invalidate" => Removes(<<c, e>>)
  <2>1. 1 < 2 /\ 1 + 1 = 2
    OBVIOUS
  <2> QED BY <1>1, <1>2, <2>1 DEF Removes
<1> QED BY <1>1, <1>2, <1>3, <1>4 DEF Has, Once, Paired

-----------------------------------------------------------------------------
(* What a job keeps to, seen against the latest term t and the day d.      *)

\* A gate request: past its verdict on the term, its day is within it; the row
\* it means differs from the row it read in nothing but cycle and usage.
CheckFits(j, t) ==
    /\ j.old \in Row <=> j.new \in Row
    /\ j.new \in Row => j.new.expiry <= t /\ Terms(j.new) = Terms(j.old)
    /\ Has(j.todo, "fill") => j.new \in Row
    /\ Head(j.todo) \notin {"lookup", "read"} => j.day <= t

\* A maintenance pass means to change the status of an overdue row only.
PassFits(j) ==
    j.new \in Row /\ j.old \in Row =>
        /\ j.new.tier = j.old.tier /\ j.new.expiry = j.old.expiry
        /\ j.new.status # j.old.status => j.new.status = "expired" /\ j.old.expiry < j.day

\* A writer that changes what the checks look at removes the entry next.
WriteFits(j) == Has(j.todo, "commit") /\ Terms(j.new) # Terms(j.old) => Removes(j.todo)

Fits(p, j, t, d) ==
    /\ j \in Job /\ j.todo # <<>> /\ j.day <= d
    /\ Paired(j.todo) /\ Timely(j.todo)
    /\ Has(j.todo, "commit") => j.old \in Row /\ j.new \in Row
    /\ p \in Check => CheckFits(j, t)
    /\ p \notin Check => Once(j.todo) /\ ~Has(j.todo, "fill")
    /\ p \in Maintainer => PassFits(j)
    /\ p \in Writer => WriteFits(j)

JobsFit(jobs, t, d) ==
    /\ jobs \in [Process -> Job \cup {None}]
    /\ \A p \in Process : jobs[p] # None => Fits(p, jobs[p], t, d)

\* The row, the cached entry and the days served are within the term.
Within(r, e, s, t) ==
    /\ r.expiry <= t
    /\ e # None => e.expiry <= t
    /\ s <= t

TermInv ==
    /\ TypeOK
    /\ Within(row, cache, servedOn, term)
    /\ JobsFit(job, term, today)

LEMMA FitsLater ==
    ASSUME NEW t \in Nat, NEW d \in Nat, NEW u \in Nat, NEW e \in Nat, t <= u, d <= e,
           NEW jobs, JobsFit(jobs, t, d)
    PROVE  JobsFit(jobs, u, e)
<1>1. ASSUME NEW p \in Process, jobs[p] # None PROVE Fits(p, jobs[p], u, e)
  <2> DEFINE j == jobs[p]
  <2>1. Fits(p, j, t, d)
    BY <1>1 DEF JobsFit
  <2>2. j.day \in Nat /\ (j.new \in Row => j.new.expiry \in Nat)
    BY <2>1 DEF Fits, Job, Row
  <2>3. j.day <= e
    BY <2>1, <2>2 DEF Fits
  <2>4. CheckFits(j, t) => CheckFits(j, u)
    BY <2>2 DEF CheckFits
  <2> HIDE DEF j
  <2>5. Fits(p, j, u, e)
    BY <2>1, <2>3, <2>4 DEF Fits
  <2> QED BY <2>5 DEF j
<1> QED BY <1>1 DEF JobsFit

\* The process that turns to a fitting job, or to none, is the only one that
\* moves.
LEMMA BecomeFits ==
    ASSUME NEW t, NEW d, JobsFit(job, t, d), NEW p \in Process, NEW j,
           j.todo = <<>> \/ Fits(p, j, t, d), Become(p, j)
    PROVE  JobsFit(job', t, d)
<1> DEFINE i == IF j.todo = <<>> THEN None ELSE j
<1>1. job' = [job EXCEPT ![p] = i] /\ job \in [Process -> Job \cup {None}]
  BY DEF Become, JobsFit
<1>2. i = None \/ (i \in Job /\ Fits(p, i, t, d))
  BY DEF Fits
<1> HIDE DEF i
<1>3. job' \in [Process -> Job \cup {None}]
  BY <1>1, <1>2
<1>4. ASSUME NEW q \in Process, job'[q] # None PROVE Fits(q, job'[q], t, d)
  BY <1>1, <1>2, <1>4 DEF JobsFit
<1> QED BY <1>3, <1>4 DEF JobsFit

LEMMA BusyFits ==
    ASSUME TermInv, NEW p \in Process, ~Idle(p)
    PROVE  Fits(p, job[p], term, today)
BY DEF TermInv, JobsFit, Idle

\* Making a call that is not part of the verdict on the term.
LEMMA ProceedFits ==
    ASSUME TermInv, NEW p \in Process, ~Idle(p), Head(job[p].todo) \notin {"lookup", "read"},
           Proceed(p)
    PROVE  JobsFit(job', term, today)
<1> DEFINE j == job[p]
           i == [j EXCEPT !.todo = Tail(j.todo)]
<1>1. Fits(p, j, term, today)
  BY BusyFits
<1>2. j \in Job /\ j.todo \in Seq(Call) /\ j.todo # <<>>
  BY <1>1 DEF Fits, Job
<1>3. /\ i \in Job /\ i.todo = Tail(j.todo) /\ i.day = j.day /\ i.old = j.old /\ i.new = j.new
  BY <1>2, TailCalls DEF Job
<1>4. Become(p, i)
  BY DEF Proceed, Goto
<1> HIDE DEF i
<1>5. CheckFits(j, term) => CheckFits(i, term)
  BY <1>2, <1>3, TailCalls DEF CheckFits
<1>6. (PassFits(j) => PassFits(i)) /\ (WriteFits(j) => WriteFits(i))
  BY <1>2, <1>3, TailCalls DEF PassFits, WriteFits
<1>7. i.todo = <<>> \/ Fits(p, i, term, today)
  BY <1>1, <1>2, <1>3, <1>5, <1>6, TailCalls DEF Fits
<1> HIDE DEF j
<1>8. JobsFit(job, term, today)
  BY DEF TermInv
<1> QED BY <1>4, <1>7, <1>8, BecomeFits

-----------------------------------------------------------------------------
(* What the operators on rows and jobs return.                             *)

LEMMA MergeType ==
    ASSUME NEW o \in Row, NEW n \in Row, NEW r \in Row
    PROVE  Merge(o, n, r) \in Row
BY DEF Merge, Row

LEMMA NewCycleType ==
    ASSUME NEW r \in Row, NEW d \in Nat
    PROVE  NewCycle(r, d) \in Row /\ NewCycle(r, d).expiry = r.expiry /\ Terms(NewCycle(r, d)) = Terms(r)
BY DEF NewCycle, Terms, Row

LEMMA OvertakenType ==
    ASSUME NEW e \in Entry \cup {None}, NEW r
    PROVE  /\ Overtaken(e, r) \in Entry \cup {None}
           /\ Overtaken(e, r) = None <=> e = None
           /\ Overtaken(e, r) # None => Overtaken(e, r).expiry = e.expiry
BY NoneAssumption DEF Overtaken, Entry

LEMMA RewriteType ==
    ASSUME today \in Nat, row \in Row, NEW r \in Row, NEW calls \in Seq(Call)
    PROVE  /\ Rewrite(calls, r) \in Job
           /\ Rewrite(calls, r).todo = calls /\ Rewrite(calls, r).day = 0
           /\ Rewrite(calls, r).old = row /\ Rewrite(calls, r).new = r
BY DEF Rewrite, Fresh, Job

LEMMA ResetCalls ==
    /\ ResetQuota \in Seq(Call) /\ Paired(ResetQuota) /\ Once(ResetQuota) /\ Timely(ResetQuota)
    /\ \A x : Has(ResetQuota, x) <=> x = "unquota" \/ x = "unlist"
<1>1. "unquota" \in Call /\ "unlist" \in Call
  BY DEF Call
<1> QED BY <1>1, TwoCalls DEF ResetQuota

-----------------------------------------------------------------------------
(* A step that changes jobs only.                                          *)

LEMMA JobStep ==
    ASSUME TermInv, JobsFit(job', term, today),
           UNCHANGED <<today, row, cache, quota, listed, redisUp, servedOn, term, poisoned>>,
           requests' \in 0 .. MaxRequests, faults' \in 0 .. MaxFaults
    PROVE  TermInv'
<1>1. TypeOK'
  BY DEF TermInv, TypeOK, JobsFit
<1> QED BY <1>1 DEF TermInv, Within

\* A request's API process starts on a list of calls that it commits once.
LEMMA WriteStep ==
    ASSUME TermInv, NEW w \in Writer, NEW calls \in Seq(Call), NEW r \in Row,
           calls # <<>>, Paired(calls), Once(calls), ~Has(calls, "fill"),
           Timely(calls), Terms(r) # Terms(row) => Removes(calls),
           StartWrite(w, calls, r)
    PROVE  TermInv'
<1> DEFINE j == Rewrite(calls, r)
<1>1. today \in Nat /\ row \in Row /\ requests \in 0 .. MaxRequests /\ faults \in 0 .. MaxFaults
  BY DEF TermInv, TypeOK
<1>2. j \in Job /\ j.todo = calls /\ j.day = 0 /\ j.old = row /\ j.new = r
  BY <1>1, RewriteType
<1>3. w \in Process /\ w \notin Check /\ w \notin Maintainer
  BY ProcessAssumption DEF Process
<1>4. /\ Become(w, j) /\ requests < MaxRequests /\ requests' = requests + 1
      /\ UNCHANGED <<today, row, cache, quota, listed, redisUp, servedOn, term, faults, poisoned>>
  BY DEF StartWrite
<1> HIDE DEF j
<1>5. Fits(w, j, term, today)
  BY <1>1, <1>2, <1>3 DEF Fits, WriteFits
<1>6. JobsFit(job', term, today)
  BY <1>3, <1>4, <1>5, BecomeFits DEF TermInv
<1>7. requests' \in 0 .. MaxRequests
  BY <1>1, <1>4, BoundAssumption
<1> QED BY <1>1, <1>4, <1>6, <1>7, JobStep

LEMMA WriteStartStep ==
    ASSUME TermInv, NEW w \in Writer, WriteStart(w)
    PROVE  TermInv'
<1>1. today \in Nat /\ row \in Row
  BY DEF TermInv, TypeOK
<1>2. /\ CommitThenInvalidate \in Seq(Call) /\ CommitThenInvalidate # <<>>
      /\ Paired(CommitThenInvalidate) /\ Once(CommitThenInvalidate)
      /\ Timely(CommitThenInvalidate) /\ Removes(CommitThenInvalidate)
      /\ \A x : Has(CommitThenInvalidate, x) <=> x = "commit" \/ x = "invalidate"
  <2>1. "commit" \in Call /\ "invalidate" \in Call
    BY DEF Call
  <2> QED BY <2>1, TwoCalls DEF CommitThenInvalidate
<1>3. CASE StartFulfil(w)
  <2> DEFINE calls == CommitThenInvalidate \o ResetQuota
  <2>1. /\ calls \in Seq(Call) /\ Paired(calls) /\ Once(calls) /\ ~Has(calls, "fill")
        /\ Has(calls, "commit") /\ Timely(calls) /\ Removes(calls)
    BY <1>2, ResetCalls, JoinedCalls
  <2>2. calls # <<>>
    BY <2>1, NoCalls
  <2>3. PICK t \in Tier : StartWrite(w, calls, Fulfilled(row, t))
    BY <1>3 DEF StartFulfil, CommitThenInvalidate
  <2>4. Fulfilled(row, t) \in Row
    BY <1>1, DayAssumption DEF Fulfilled, Row, Status
  <2> HIDE DEF calls
  <2> QED BY <2>1, <2>2, <2>3, <2>4, WriteStep
<1>4. CASE StartTierChange(w)
  <2>1. PICK t \in Tier : StartWrite(w, CommitThenInvalidate, [row EXCEPT !.tier = t])
    BY <1>4 DEF StartTierChange
  <2>2. [row EXCEPT !.tier = t] \in Row
    BY <1>1 DEF Row
  <2> QED BY <1>2, <2>1, <2>2, WriteStep
<1>5. CASE StartSettings(w)
  BY <1>1, <1>2, <1>5, WriteStep DEF StartSettings
<1>6. CASE StartOverride(w)
  <2>1. PICK s \in Status, e \in OverrideDay \cup {row.expiry} :
            StartWrite(w, CommitThenInvalidate, [row EXCEPT !.status = s, !.expiry = e])
    BY <1>6 DEF StartOverride
  <2>2. [row EXCEPT !.status = s, !.expiry = e] \in Row
    BY <1>1, DayAssumption DEF Row
  <2> QED BY <1>2, <2>1, <2>2, WriteStep
<1>7. CASE StartTokenRequest(w)
  <2>1. PICK q \in {<<>>, <<"used">>} : StartWrite(w, ResetQuota \o q \o <<"commit">>, NewCycle(row, today))
    BY <1>7 DEF StartTokenRequest
  <2>2. q \in Seq(Call) /\ Paired(q) /\ Once(q) /\ ~Has(q, "commit") /\ ~Has(q, "fill")
    <3>1. "used" \in Call
      BY DEF Call
    <3>2. CASE q = <<>>
      BY <3>2, NoCalls
    <3>3. CASE q = <<"used">>
      BY <3>1, <3>3, OneCall
    <3> QED BY <3>2, <3>3
  <2> DEFINE before == ResetQuota \o q
             calls == before \o <<"commit">>
  <2>3. before \in Seq(Call) /\ Paired(before) /\ ~Has(before, "commit") /\ ~Has(before, "fill")
    BY <2>2, ResetCalls, JoinedCalls
  <2>4. /\ <<"commit">> \in Seq(Call) /\ Paired(<<"commit">>) /\ Once(<<"commit">>)
        /\ ~Has(<<"commit">>, "fill") /\ Has(<<"commit">>, "commit") /\ ~Has(<<"commit">>, "invalidate")
    <3>1. "commit" \in Call
      BY DEF Call
    <3> QED BY <3>1, OneCall
  <2>5. StartWrite(w, calls, NewCycle(row, today))
    BY <2>1
  <2> HIDE DEF before
  <2>6. /\ calls \in Seq(Call) /\ Paired(calls) /\ Once(calls) /\ ~Has(calls, "fill")
        /\ Has(calls, "commit") /\ Timely(calls)
    BY <2>3, <2>4, JoinedCalls
  <2>7. calls # <<>>
    BY <2>6, NoCalls
  <2> HIDE DEF calls
  <2> QED BY <1>1, <2>5, <2>6, <2>7, NewCycleType, WriteStep
<1> QED BY <1>3, <1>4, <1>5, <1>6, <1>7 DEF WriteStart

-----------------------------------------------------------------------------
(* The gate.                                                               *)

LEMMA StartCheckStep ==
    ASSUME TermInv, NEW c \in Check, StartCheck(c)
    PROVE  TermInv'
<1>1. PICK rfid \in BOOLEAN : Become(c, [Fresh(<<"lookup">>) EXCEPT !.day = today, !.rfid = rfid])
  BY DEF StartCheck
<1> DEFINE j == [Fresh(<<"lookup">>) EXCEPT !.day = today, !.rfid = rfid]
<1>2. today \in Nat /\ requests \in 0 .. MaxRequests /\ faults \in 0 .. MaxFaults
  BY DEF TermInv, TypeOK
<1>3. "lookup" \in Call
  BY DEF Call
<1>4. <<"lookup">> \in Seq(Call) /\ Paired(<<"lookup">>) /\ Timely(<<"lookup">>) /\ ~Has(<<"lookup">>, "commit")
      /\ ~Has(<<"lookup">>, "fill") /\ Head(<<"lookup">>) = "lookup" /\ <<"lookup">> # <<>>
  BY <1>3, OneCall
<1>5. /\ j \in Job /\ j.todo = <<"lookup">> /\ j.day = today
      /\ j.old = None /\ j.new = None
  BY <1>2, <1>4 DEF Fresh, Job
<1> HIDE DEF j
<1>6. c \in Process /\ c \notin Maintainer /\ c \notin Writer
  BY ProcessAssumption DEF Process
<1>7. CheckFits(j, term)
  BY <1>4, <1>5, NoneAssumption DEF CheckFits
<1>8. Fits(c, j, term, today)
  BY <1>2, <1>4, <1>5, <1>6, <1>7, ProcessAssumption DEF Fits
<1>9. JobsFit(job', term, today)
  BY <1>1, <1>6, <1>8, BecomeFits DEF TermInv, j
<1> QED BY <1>2, <1>9, JobStep, BoundAssumption DEF StartCheck

LEMMA LookupStep ==
    ASSUME TermInv, NEW c \in Check, Lookup(c)
    PROVE  TermInv'
<1>1. c \in Process /\ c \notin Maintainer /\ c \notin Writer /\ ~Idle(c)
  BY ProcessAssumption DEF Process, Lookup, At
<1>2. Fits(c, job[c], term, today) /\ job[c] \in Job /\ CheckFits(job[c], term)
  BY <1>1, BusyFits DEF Fits
<1>3. requests \in 0 .. MaxRequests /\ faults \in 0 .. MaxFaults /\ term \in Nat
      /\ cache \in Entry \cup {None} /\ job[c].day \in Nat
  BY <1>2 DEF TermInv, TypeOK, Job
<1>4. "incr" \in Call /\ "read" \in Call
  BY DEF Call
<1>5. CASE redisUp /\ cache # None
  <2> DEFINE ok == CacheLets(cache, job[c].day, job[c].rfid)
             j == [job[c] EXCEPT !.todo = IF ok THEN <<"incr">> ELSE <<>>,
                                 !.tier = cache.tier, !.rfid = FALSE]
  <2>1. Become(c, j)
    BY <1>5 DEF Lookup
  <2>2. cache.tier \in Tier /\ cache.expiry \in Nat /\ cache.expiry <= term
    BY <1>3, <1>5 DEF Entry, TermInv, Within
  <2>3. CASE ~ok
    <3>1. j.todo = <<>>
      BY <1>2, <2>3 DEF Job
    <3>2. JobsFit(job', term, today)
      BY <1>1, <2>1, <3>1, BecomeFits DEF TermInv
    <3> QED BY <1>3, <3>2, JobStep DEF Lookup
  <2>4. CASE ok
    <3>1. job[c].day <= term
      BY <1>3, <2>2, <2>4 DEF CacheLets, Lets, InForce
    <3>2. /\ j.todo = <<"incr">> /\ j.day = job[c].day /\ j.old = job[c].old /\ j.new = job[c].new
          /\ j \in Job
      BY <1>2, <1>4, <2>2, <2>4, OneCall DEF Job
    <3> HIDE DEF j
    <3>3. CheckFits(j, term)
      BY <1>2, <1>4, <3>1, <3>2, OneCall DEF CheckFits
    <3>4. Fits(c, j, term, today)
      BY <1>1, <1>2, <1>4, <3>2, <3>3, OneCall DEF Fits
    <3>5. JobsFit(job', term, today)
      BY <1>1, <2>1, <3>4, BecomeFits DEF TermInv
    <3> QED BY <1>3, <3>5, JobStep DEF Lookup
  <2> QED BY <2>3, <2>4
<1>6. CASE ~(redisUp /\ cache # None)
  <2> DEFINE j == [job[c] EXCEPT !.todo = <<"read">>]
  <2>1. Become(c, j)
    BY <1>6 DEF Lookup, Goto
  <2>2. /\ j.todo = <<"read">> /\ j.day = job[c].day /\ j.old = job[c].old /\ j.new = job[c].new
        /\ j \in Job
    BY <1>2, <1>4, OneCall DEF Job
  <2> HIDE DEF j
  <2>3. CheckFits(j, term)
    BY <1>2, <1>4, <2>2, OneCall DEF CheckFits
  <2>4. Fits(c, j, term, today)
    BY <1>1, <1>2, <1>4, <2>2, <2>3, OneCall DEF Fits
  <2>5. JobsFit(job', term, today)
    BY <1>1, <2>1, <2>4, BecomeFits DEF TermInv
  <2> QED BY <1>3, <2>5, JobStep DEF Lookup
<1> QED BY <1>5, <1>6

LEMMA ReadStep ==
    ASSUME TermInv, NEW c \in Check, Read(c)
    PROVE  TermInv'
<1>1. c \in Process /\ c \notin Maintainer /\ c \notin Writer /\ ~Idle(c)
  BY ProcessAssumption DEF Process, Read, At
<1>2. Fits(c, job[c], term, today) /\ job[c] \in Job
  BY <1>1, BusyFits DEF Fits
<1>3. requests \in 0 .. MaxRequests /\ faults \in 0 .. MaxFaults /\ term \in Nat
      /\ row \in Row /\ row.expiry \in Nat /\ row.tier \in Tier
      /\ job[c].day \in Nat /\ row.expiry <= term
  BY <1>2 DEF TermInv, TypeOK, Job, Row, Within
<1>4. CASE ~InForce(row, job[c].day)
  <2> DEFINE j == [job[c] EXCEPT !.todo = <<>>]
  <2>1. Become(c, j) /\ j.todo = <<>>
    BY <1>2, <1>4 DEF Read, Goto, Job
  <2>2. JobsFit(job', term, today)
    BY <1>1, <2>1, BecomeFits DEF TermInv
  <2> QED BY <1>3, <2>2, JobStep DEF Read
<1>5. CASE InForce(row, job[c].day)
  <2> DEFINE day == job[c].day
             cycle == IF CycleOver(row, day) THEN <<"commit">> \o ResetQuota ELSE <<>>
             rest == IF Lets(row, day, job[c].rfid) THEN <<"fill", "incr">> ELSE <<>>
             calls == cycle \o rest
             j == [job[c] EXCEPT !.todo = calls, !.old = row, !.new = NewCycle(row, day),
                                 !.tier = row.tier, !.rfid = FALSE]
  <2>1. Become(c, j)
    BY <1>5 DEF Read
  <2>2. cycle \in Seq(Call) /\ Paired(cycle) /\ Timely(cycle)
    <3>1. "commit" \in Call
      BY DEF Call
    <3>2. <<"commit">> \in Seq(Call) /\ Paired(<<"commit">>) /\ Timely(<<"commit">>)
      BY <3>1, OneCall
    <3>3. /\ <<"commit">> \o ResetQuota \in Seq(Call) /\ Paired(<<"commit">> \o ResetQuota)
          /\ Timely(<<"commit">> \o ResetQuota)
      BY <3>2, ResetCalls, JoinedCalls
    <3> QED BY <3>3, NoCalls
  <2>3. rest \in Seq(Call) /\ Paired(rest) /\ ~Has(rest, "invalidate")
    <3>1. "fill" \in Call /\ "incr" \in Call
      BY DEF Call
    <3>2. /\ <<"fill", "incr">> \in Seq(Call) /\ Paired(<<"fill", "incr">>)
          /\ ~Has(<<"fill", "incr">>, "invalidate")
      BY <3>1, TwoCalls
    <3> QED BY <3>2, NoCalls
  <2> HIDE DEF cycle, rest
  <2>4. calls \in Seq(Call) /\ Paired(calls) /\ Timely(calls)
    BY <2>2, <2>3, JoinedCalls
  <2> HIDE DEF calls
  <2>5. NewCycle(row, day) \in Row /\ NewCycle(row, day).expiry = row.expiry
        /\ Terms(NewCycle(row, day)) = Terms(row)
    BY <1>3, NewCycleType
  <2>6. /\ j \in Job /\ j.todo = calls /\ j.day = day /\ j.old = row
        /\ j.new = NewCycle(row, day)
    BY <1>2, <1>3, <2>4, <2>5 DEF Job
  <2> HIDE DEF j
  <2>7. day <= term
    BY <1>3, <1>5 DEF InForce
  <2>8. CheckFits(j, term)
    BY <1>3, <2>5, <2>6, <2>7 DEF CheckFits
  <2>9. j.todo = <<>> \/ Fits(c, j, term, today)
    BY <1>1, <1>2, <1>3, <2>4, <2>5, <2>6, <2>8 DEF Fits
  <2>10. JobsFit(job', term, today)
    BY <1>1, <2>1, <2>9, BecomeFits DEF TermInv
  <2> QED BY <1>3, <2>10, JobStep DEF Read
<1> QED BY <1>4, <1>5

LEMMA FillStep ==
    ASSUME TermInv, NEW c \in Check, Fill(c)
    PROVE  TermInv'
<1>1. c \in Process /\ ~Idle(c) /\ Head(job[c].todo) = "fill"
  BY DEF Process, Fill, At
<1>2. Fits(c, job[c], term, today) /\ job[c] \in Job /\ job[c].todo \in Seq(Call)
      /\ job[c].todo # <<>> /\ CheckFits(job[c], term)
  BY <1>1, BusyFits DEF Fits, Job
<1>3. job[c].new \in Row /\ job[c].new.expiry <= term
  BY <1>1, <1>2, TailCalls DEF CheckFits
<1>4. JobsFit(job', term, today)
  BY <1>1, ProceedFits DEF Fill
<1> DEFINE r == job[c].new
           entry == [tier |-> r.tier, status |-> r.status, expiry |-> r.expiry,
                     set |-> today, stale |-> FALSE]
<1>5. entry \in Entry /\ entry.expiry = r.expiry
  BY <1>3 DEF Row, Entry, TermInv, TypeOK
<1>6. cache' = IF redisUp THEN Overtaken(entry, row) ELSE cache
  BY DEF Fill
<1> HIDE DEF entry
<1>7. /\ Overtaken(entry, row) \in Entry \cup {None}
      /\ Overtaken(entry, row) # None => Overtaken(entry, row).expiry = entry.expiry
  BY <1>5, OvertakenType
<1>8. cache' \in Entry \cup {None} /\ (cache' # None => cache'.expiry <= term)
  BY <1>3, <1>5, <1>6, <1>7 DEF TermInv, TypeOK, Within
<1>9. TypeOK'
  BY <1>4, <1>8 DEF TermInv, TypeOK, Fill, JobsFit
<1> QED BY <1>4, <1>8, <1>9 DEF TermInv, Within, Fill

\* Going over to a single call of no consequence for the term, or ending.
LEMMA TurnFits ==
    ASSUME TermInv, NEW p \in Process, ~Idle(p), Head(job[p].todo) \notin {"lookup", "read"},
           NEW j \in Job, j.day = job[p].day, j.old = job[p].old, j.new = job[p].new,
           NEW x \in Call \ {"commit", "fill", "unquota"}, j.todo \in {<<>>, <<x>>},
           Become(p, j)
    PROVE  JobsFit(job', term, today)
<1>1. Fits(p, job[p], term, today)
  BY BusyFits
<1>2. CASE j.todo = <<>>
  BY <1>2, BecomeFits DEF TermInv
<1>3. CASE j.todo = <<x>>
  <2>1. /\ <<x>> # <<>> /\ Paired(<<x>>) /\ Once(<<x>>) /\ Timely(<<x>>)
        /\ ~Has(<<x>>, "commit") /\ ~Has(<<x>>, "fill")
    BY OneCall
  <2>2. CheckFits(job[p], term) => CheckFits(j, term)
    BY <1>3, <2>1 DEF CheckFits
  <2>3. (PassFits(job[p]) => PassFits(j)) /\ WriteFits(j)
    BY <1>3, <2>1 DEF PassFits, WriteFits
  <2>4. Fits(p, j, term, today)
    BY <1>1, <1>3, <2>1, <2>2, <2>3 DEF Fits
  <2> QED BY <2>4, BecomeFits DEF TermInv
<1> QED BY <1>2, <1>3

\* The same, nothing else of the job changing.
LEMMA GotoFits ==
    ASSUME TermInv, NEW p \in Process, ~Idle(p), Head(job[p].todo) \notin {"lookup", "read"},
           NEW x \in Call \ {"commit", "fill", "unquota"}, NEW calls \in {<<>>, <<x>>},
           Goto(p, calls)
    PROVE  JobsFit(job', term, today)
<1> DEFINE j == [job[p] EXCEPT !.todo = calls]
<1>1. job[p] \in Job
  BY BusyFits DEF Fits
<1>2. calls \in Seq(Call)
  BY OneCall, NoCalls
<1>3. /\ j \in Job /\ j.todo = calls /\ j.day = job[p].day
      /\ j.old = job[p].old /\ j.new = job[p].new
  BY <1>1, <1>2 DEF Job
<1>4. Become(p, j)
  BY DEF Goto
<1> HIDE DEF j
<1> QED BY <1>3, <1>4, TurnFits

LEMMA IncrementStep ==
    ASSUME TermInv, NEW c \in Check, Increment(c)
    PROVE  TermInv'
<1>1. c \in Process /\ ~Idle(c) /\ Head(job[c].todo) \notin {"lookup", "read"}
  BY DEF Process, Increment, At
<1>2. job[c] \in Job /\ quota \in Nat
  BY <1>1, BusyFits DEF Fits, TermInv, TypeOK
<1>3. JobsFit(job', term, today)
  <2>1. CASE redisUp
    <3> DEFINE j == [job[c] EXCEPT !.todo = <<"list">>, !.n = quota + 1]
    <3>1. "list" \in Call \ {"commit", "fill", "unquota"}
      BY DEF Call
    <3>2. /\ j \in Job /\ j.todo = <<"list">> /\ j.day = job[c].day
          /\ j.old = job[c].old /\ j.new = job[c].new
      <4>1. <<"list">> \in Seq(Call)
        BY <3>1, OneCall
      <4>2. quota + 1 \in Nat
        BY <1>2
      <4> QED BY <1>2, <4>1, <4>2 DEF Job
    <3>3. Become(c, j)
      BY <2>1 DEF Increment
    <3> HIDE DEF j
    <3> QED BY <1>1, <3>1, <3>2, <3>3, TurnFits
  <2>2. CASE ~redisUp
    <3>1. "fallback" \in Call \ {"commit", "fill", "unquota"}
      BY DEF Call
    <3> QED BY <1>1, <2>2, <3>1, GotoFits DEF Increment
  <2> QED BY <2>1, <2>2
<1>4. TypeOK'
  BY <1>2, <1>3 DEF TermInv, TypeOK, Increment, JobsFit
<1> QED BY <1>3, <1>4 DEF TermInv, Within, Increment

\* Serving a check of a day within the term.
LEMMA ServeType ==
    ASSUME TermInv, NEW d \in Nat, d <= term, Serve(d)
    PROVE  servedOn' \in Nat /\ servedOn' <= term
BY DEF TermInv, TypeOK, Within, Serve

LEMMA ListStep ==
    ASSUME TermInv, NEW c \in Check, List(c)
    PROVE  TermInv'
<1>1. c \in Process /\ ~Idle(c) /\ Head(job[c].todo) \notin {"lookup", "read"}
  BY DEF Process, List, At
<1>2. job[c].day \in Nat /\ job[c].day <= term
  <2>1. Fits(c, job[c], term, today)
    BY <1>1, BusyFits
  <2> QED BY <1>1, <2>1 DEF Fits, CheckFits, Job
<1>3. JobsFit(job', term, today)
  <2>1. CASE redisUp
    BY <1>1, <2>1, ProceedFits DEF List
  <2>2. CASE ~redisUp
    <3>1. "fallback" \in Call \ {"commit", "fill", "unquota"}
      BY DEF Call
    <3> QED BY <1>1, <2>2, <3>1, GotoFits DEF List
  <2> QED BY <2>1, <2>2
<1>4. servedOn' \in Nat /\ servedOn' <= term
  <2>1. CASE servedOn' = servedOn
    BY <2>1 DEF TermInv, TypeOK, Within
  <2>2. CASE Serve(job[c].day)
    BY <1>2, <2>2, ServeType
  <2> QED BY <2>1, <2>2 DEF List
<1>5. listed' \in BOOLEAN
  BY DEF List, TermInv, TypeOK
<1>6. TypeOK'
  BY <1>3, <1>4, <1>5 DEF TermInv, TypeOK, List, JobsFit
<1> QED BY <1>3, <1>4, <1>6 DEF TermInv, Within, List

LEMMA FallbackStep ==
    ASSUME TermInv, NEW c \in Check, Fallback(c)
    PROVE  TermInv'
<1> DEFINE r == IF job[c].old = None THEN row ELSE job[c].new
<1>1. c \in Process /\ c \notin Maintainer /\ c \notin Writer /\ ~Idle(c) /\ Head(job[c].todo) \notin {"lookup", "read"}
  BY ProcessAssumption DEF Process, Fallback, At
<1>2. Fits(c, job[c], term, today) /\ job[c] \in Job /\ CheckFits(job[c], term)
  BY <1>1, BusyFits DEF Fits
<1>3. r \in Row /\ r.expiry <= term
  BY <1>2, NoneAssumption DEF CheckFits, Job, TermInv, TypeOK, Within
<1>4. JobsFit(job', term, today)
  <2>1. CASE ~(r.usage < Limit[job[c].tier])
    <3>1. Goto(c, <<>>)
      BY <2>1 DEF Fallback
    <3>2. "list" \in Call \ {"commit", "fill", "unquota"}
      BY DEF Call
    <3> QED BY <1>1, <3>1, <3>2, GotoFits
  <2>2. CASE r.usage < Limit[job[c].tier]
    <3> DEFINE s == [r EXCEPT !.usage = @ + 1]
               j == [job[c] EXCEPT !.todo = <<"commit">>, !.old = r, !.new = s]
    <3>1. Become(c, j)
      BY <2>2 DEF Fallback
    <3> HIDE DEF r
    <3>2. s \in Row /\ s.expiry = r.expiry /\ Terms(s) = Terms(r)
      BY <1>3 DEF Row, Terms
    <3> HIDE DEF s
    <3>3. "commit" \in Call
      BY DEF Call
    <3>4. /\ j \in Job /\ j.todo = <<"commit">> /\ j.day = job[c].day /\ j.old = r /\ j.new = s
      BY <1>2, <1>3, <3>2, <3>3, OneCall DEF Job
    <3> HIDE DEF j
    <3>5. CheckFits(j, term)
      BY <1>1, <1>2, <1>3, <3>2, <3>4 DEF CheckFits
    <3>6. Fits(c, j, term, today)
      BY <1>1, <1>2, <1>3, <3>2, <3>3, <3>4, <3>5, OneCall DEF Fits
    <3> QED BY <1>1, <3>1, <3>6, BecomeFits DEF TermInv
  <2> QED BY <2>1, <2>2
<1>5. requests \in 0 .. MaxRequests /\ faults \in 0 .. MaxFaults
  BY DEF TermInv, TypeOK
<1> QED BY <1>4, <1>5, JobStep DEF Fallback

LEMMA UsedStep ==
    ASSUME TermInv, NEW w \in Writer, Used(w)
    PROVE  TermInv'
<1>1. w \in Process /\ ~Idle(w) /\ Head(job[w].todo) \notin {"lookup", "read"}
  BY DEF Process, Used, At
<1>2. Proceed(w) \/ Goto(w, <<>>)
  BY DEF Used
<1>3. "list" \in Call \ {"commit", "fill", "unquota"}
  BY DEF Call
<1>4. JobsFit(job', term, today)
  BY <1>1, <1>2, <1>3, GotoFits, ProceedFits
<1>5. requests \in 0 .. MaxRequests /\ faults \in 0 .. MaxFaults
  BY DEF TermInv, TypeOK
<1> QED BY <1>4, <1>5, JobStep DEF Used

-----------------------------------------------------------------------------
(* The maintenance pass.                                                   *)

LEMMA StartMaintenanceStep ==
    ASSUME TermInv, NEW m \in Maintainer, StartMaintenance(m)
    PROVE  TermInv'
<1> DEFINE j == Fresh(<<"drain">>)
<1>1. "drain" \in Call \ {"commit", "fill", "unquota", "invalidate"}
  BY DEF Call
<1>2. /\ <<"drain">> \in Seq(Call) /\ Paired(<<"drain">>) /\ Timely(<<"drain">>) /\ Once(<<"drain">>)
      /\ ~Has(<<"drain">>, "commit") /\ ~Has(<<"drain">>, "fill") /\ <<"drain">> # <<>>
  BY <1>1, OneCall
<1>3. j \in Job /\ j.todo = <<"drain">> /\ j.day = 0 /\ j.old = None /\ j.new = None
  BY <1>2 DEF Fresh, Job
<1>4. Become(m, j)
  BY DEF StartMaintenance
<1> HIDE DEF j
<1>5. m \in Process /\ m \notin Check /\ m \notin Writer
  BY ProcessAssumption DEF Process
<1>6. today \in Nat /\ requests \in 0 .. MaxRequests /\ faults \in 0 .. MaxFaults
  BY DEF TermInv, TypeOK
<1>7. Fits(m, j, term, today)
  BY <1>2, <1>3, <1>5, <1>6, NoneAssumption DEF Fits, PassFits
<1>8. JobsFit(job', term, today)
  BY <1>4, <1>5, <1>7, BecomeFits DEF TermInv
<1> QED BY <1>6, <1>8, JobStep DEF StartMaintenance

LEMMA RefuseLogsStep ==
    ASSUME TermInv, NEW m \in Maintainer, RefuseLogs(m)
    PROVE  TermInv'
<1>1. m \in Process /\ ~Idle(m) /\ Head(job[m].todo) \notin {"lookup", "read"}
  BY DEF Process, RefuseLogs, At
<1>2. JobsFit(job', term, today)
  <2>1. Goto(m, <<>>)
    BY Zenon DEF RefuseLogs
  <2>2. "drain" \in Call \ {"commit", "fill", "unquota"}
    BY DEF Call
  <2> QED BY <1>1, <2>1, <2>2, GotoFits
<1>3. poisoned' \in BOOLEAN
  <2>1. redisUp \in BOOLEAN
    BY Zenon DEF TermInv, TypeOK
  <2>2. poisoned' = redisUp
    BY Zenon DEF RefuseLogs
  <2> QED BY <2>1, <2>2, Zenon
<1>4. UNCHANGED <<today, row, cache, quota, listed, redisUp, servedOn, term, requests, faults>>
  BY Zenon DEF RefuseLogs
<1>5. TypeOK'
  BY <1>2, <1>3, <1>4 DEF TermInv, TypeOK, JobsFit
<1> QED BY <1>2, <1>4, <1>5 DEF TermInv, Within

LEMMA BillStep ==
    ASSUME TermInv, NEW m \in Maintainer, Bill(m)
    PROVE  TermInv'
<1> DEFINE cycle == IF CycleOver(row, today) THEN <<"invalidate">> \o ResetQuota ELSE <<>>
           retire == IF Overdue(row, today) THEN <<"invalidate">> ELSE <<>>
           commit == IF cycle \o retire = <<>> THEN <<>> ELSE <<"commit">>
           calls == cycle \o retire \o commit \o <<"members">>
           n == NewCycle(row, today)
           r == [n EXCEPT !.status = IF Overdue(row, today) THEN "expired" ELSE @]
           j == [Rewrite(calls, r) EXCEPT !.day = today]
<1>1. today \in Nat /\ row \in Row /\ requests \in 0 .. MaxRequests /\ faults \in 0 .. MaxFaults
  BY DEF TermInv, TypeOK
<1>2. m \in Process /\ m \notin Check /\ m \notin Writer
  BY ProcessAssumption DEF Process
<1>3. Become(m, j)
  BY DEF Bill
<1>4. "invalidate" \in Call /\ "commit" \in Call /\ "members" \in Call
  BY DEF Call
<1>5. /\ <<"invalidate">> \in Seq(Call) /\ Paired(<<"invalidate">>) /\ Once(<<"invalidate">>)
      /\ \A x : Has(<<"invalidate">>, x) <=> x = "invalidate"
  BY <1>4, OneCall
<1>6. cycle \in Seq(Call) /\ Paired(cycle) /\ ~Has(cycle, "commit") /\ ~Has(cycle, "fill")
  BY <1>5, ResetCalls, JoinedCalls, NoCalls
<1>7. retire \in Seq(Call) /\ Paired(retire) /\ ~Has(retire, "commit") /\ ~Has(retire, "fill")
  BY <1>5, NoCalls
<1>8. /\ commit \in Seq(Call) /\ Paired(commit) /\ Once(commit) /\ ~Has(commit, "fill")
      /\ ~Has(commit, "invalidate") /\ (Has(commit, "commit") \/ cycle \o retire = <<>>)
  <2>1. /\ <<"commit">> \in Seq(Call) /\ Paired(<<"commit">>) /\ Once(<<"commit">>)
        /\ ~Has(<<"commit">>, "fill") /\ ~Has(<<"commit">>, "invalidate")
        /\ Has(<<"commit">>, "commit")
    BY <1>4, OneCall
  <2> HIDE DEF cycle, retire
  <2> QED BY <2>1, NoCalls
<1>9. /\ <<"members">> \in Seq(Call) /\ Paired(<<"members">>)
      /\ ~Has(<<"members">>, "commit") /\ ~Has(<<"members">>, "fill")
      /\ Has(<<"members">>, "members") /\ ~Has(<<"members">>, "invalidate")
  BY <1>4, OneCall
<1>10. /\ r \in Row /\ r.tier = row.tier /\ r.expiry = row.expiry
       /\ r.status # row.status => r.status = "expired" /\ Overdue(row, today)
  <2>1. n \in Row /\ Terms(n) = Terms(row)
    BY <1>1, NewCycleType
  <2>2. n.tier = row.tier /\ n.status = row.status /\ n.expiry = row.expiry
    BY <2>1 DEF Terms
  <2> HIDE DEF n
  <2> QED BY <2>1, <2>2 DEF Row, Status
<1> HIDE DEF cycle, retire, commit, r
<1>11. /\ cycle \o retire \in Seq(Call) /\ Paired(cycle \o retire)
       /\ ~Has(cycle \o retire, "commit") /\ ~Has(cycle \o retire, "fill")
  BY <1>6, <1>7, JoinedCalls
<1>12. /\ cycle \o retire \o commit \in Seq(Call) /\ Paired(cycle \o retire \o commit)
       /\ Once(cycle \o retire \o commit) /\ ~Has(cycle \o retire \o commit, "fill")
       /\ Timely(cycle \o retire \o commit)
  <2>1. CASE Has(commit, "commit")
    BY <1>8, <1>11, <2>1, JoinedCalls
  <2>2. CASE cycle \o retire = <<>>
    <3>1. Timely(cycle \o retire)
      BY <2>2, NoCalls
    <3> QED BY <1>8, <1>11, <3>1, JoinedCalls
  <2> QED BY <1>8, <2>1, <2>2
<1>13. /\ calls \in Seq(Call) /\ Paired(calls) /\ Once(calls) /\ ~Has(calls, "fill")
       /\ Has(calls, "members") /\ Timely(calls)
  BY <1>9, <1>12, JoinedCalls
<1>14. calls # <<>>
  BY <1>13, NoCalls
<1> HIDE DEF calls
<1>15. j \in Job /\ j.todo = calls /\ j.day = today /\ j.old = row /\ j.new = r
  BY <1>1, <1>10, <1>13, RewriteType DEF Job
<1> HIDE DEF j
<1>16. PassFits(j)
  BY <1>10, <1>15 DEF PassFits, Overdue
<1>17. Fits(m, j, term, today)
  BY <1>1, <1>2, <1>10, <1>13, <1>14, <1>15, <1>16 DEF Fits
<1>18. JobsFit(job', term, today)
  BY <1>2, <1>3, <1>17, BecomeFits DEF TermInv
<1> QED BY <1>1, <1>18, JobStep DEF Bill

LEMMA MembersStep ==
    ASSUME TermInv, NEW m \in Maintainer, Members(m)
    PROVE  TermInv'
<1>1. m \in Process /\ ~Idle(m) /\ Head(job[m].todo) \notin {"lookup", "read"}
  BY DEF Process, Members, At
<1>2. "count" \in Call \ {"commit", "fill", "unquota"}
  BY DEF Call
<1>3. JobsFit(job', term, today)
  BY <1>1, <1>2, GotoFits DEF Members
<1>4. requests \in 0 .. MaxRequests /\ faults \in 0 .. MaxFaults
  BY DEF TermInv, TypeOK
<1> QED BY <1>3, <1>4, JobStep DEF Members

LEMMA CountStep ==
    ASSUME TermInv, NEW m \in Maintainer, Count(m)
    PROVE  TermInv'
<1> DEFINE calls == IF redisUp /\ quota > 0 THEN <<"select">> ELSE <<>>
           j == [job[m] EXCEPT !.todo = calls, !.n = quota]
<1>1. m \in Process /\ ~Idle(m) /\ Head(job[m].todo) \notin {"lookup", "read"}
  BY DEF Process, Count, At
<1>2. "select" \in Call \ {"commit", "fill", "unquota"}
  BY DEF Call
<1>3. job[m] \in Job /\ quota \in Nat /\ requests \in 0 .. MaxRequests /\ faults \in 0 .. MaxFaults
  BY <1>1, BusyFits DEF Fits, TermInv, TypeOK
<1>4. Become(m, j)
  BY DEF Count
<1>5. calls \in {<<>>, <<"select">>} /\ calls \in Seq(Call)
  BY <1>2, OneCall, NoCalls
<1> HIDE DEF calls
<1>6. j \in Job /\ j.todo = calls /\ j.day = job[m].day /\ j.old = job[m].old /\ j.new = job[m].new
  BY <1>3, <1>5 DEF Job
<1> HIDE DEF j
<1>7. JobsFit(job', term, today)
  BY <1>1, <1>2, <1>4, <1>5, <1>6, TurnFits
<1> QED BY <1>3, <1>7, JobStep DEF Count

LEMMA SelectStep ==
    ASSUME TermInv, NEW m \in Maintainer, Select(m)
    PROVE  TermInv'
<1> DEFINE r == Synced(row, job[m].n)
           j == [job[m] EXCEPT !.todo = <<"commit">>, !.n = 0, !.old = row, !.new = r]
<1>1. m \in Process /\ m \notin Check /\ m \notin Writer /\ ~Idle(m)
  BY ProcessAssumption DEF Process, Select, At
<1>2. /\ job[m] \in Job /\ job[m].n \in Nat /\ job[m].day <= today
      /\ row \in Row /\ requests \in 0 .. MaxRequests /\ faults \in 0 .. MaxFaults
  <2>1. Fits(m, job[m], term, today)
    BY <1>1, BusyFits
  <2> QED BY <2>1 DEF Fits, Job, TermInv, TypeOK
<1>3. Become(m, j)
  BY DEF Select
<1>4. r \in Row /\ Terms(r) = Terms(row)
  BY <1>2 DEF Synced, Row, Terms
<1> HIDE DEF r
<1>5. "commit" \in Call
  BY DEF Call
<1>6. /\ <<"commit">> \in Seq(Call) /\ <<"commit">> # <<>> /\ Paired(<<"commit">>)
      /\ Once(<<"commit">>) /\ ~Has(<<"commit">>, "fill") /\ Timely(<<"commit">>)
  BY <1>5, OneCall
<1>7. j \in Job /\ j.todo = <<"commit">> /\ j.day = job[m].day /\ j.old = row /\ j.new = r
  BY <1>2, <1>4, <1>6 DEF Job
<1> HIDE DEF j
<1>8. PassFits(j)
  BY <1>4, <1>7 DEF PassFits, Terms
<1>9. Fits(m, j, term, today)
  BY <1>1, <1>2, <1>4, <1>6, <1>7, <1>8 DEF Fits
<1>10. JobsFit(job', term, today)
  BY <1>1, <1>3, <1>9, BecomeFits DEF TermInv
<1> QED BY <1>2, <1>10, JobStep DEF Select

-----------------------------------------------------------------------------
(* The calls that several jobs make.                                       *)

\* What a commit leaves of the job: a check its row, another job none.
LEMMA CommitFits ==
    ASSUME TermInv, NEW p \in Process, At(p, "commit"),
           Become(p, [job[p] EXCEPT !.todo = Tail(@),
                                    !.old = IF p \in Check THEN job[p].new ELSE None,
                                    !.new = IF p \in Check THEN job[p].new ELSE None])
    PROVE  JobsFit(job', term, today)
<1> DEFINE r == IF p \in Check THEN job[p].new ELSE None
           j == [job[p] EXCEPT !.todo = Tail(@), !.old = r, !.new = r]
<1>1. /\ Fits(p, job[p], term, today) /\ job[p] \in Job
      /\ job[p].todo \in Seq(Call) /\ job[p].todo # <<>> /\ Head(job[p].todo) = "commit"
  BY BusyFits DEF At, Fits, Job
<1>2. /\ Tail(job[p].todo) \in Seq(Call) /\ Has(job[p].todo, "commit")
      /\ \A x : Has(Tail(job[p].todo), x) => Has(job[p].todo, x)
      /\ Paired(Tail(job[p].todo)) /\ Timely(Tail(job[p].todo))
      /\ Once(job[p].todo) => Once(Tail(job[p].todo)) /\ ~Has(Tail(job[p].todo), "commit")
  BY <1>1, TailCalls DEF Fits
<1>3. r \in Row \cup {None} /\ job[p].new \in Row
  BY <1>1, <1>2 DEF Fits
<1>4. j \in Job /\ j.todo = Tail(job[p].todo) /\ j.day = job[p].day /\ j.old = r /\ j.new = r
  BY <1>1, <1>2, <1>3 DEF Job
<1>5. Become(p, j)
  OBVIOUS
<1> HIDE DEF j
<1>6. p \in Check => CheckFits(j, term)
  BY <1>1, <1>2, <1>3, <1>4 DEF Fits, CheckFits
<1>7. /\ p \in Maintainer => PassFits(j)
      /\ p \in Writer => WriteFits(j)
  BY <1>1, <1>2, <1>4, NoneAssumption, ProcessAssumption DEF PassFits, WriteFits, Fits
<1>8. j.todo = <<>> \/ Fits(p, j, term, today)
  BY <1>1, <1>2, <1>3, <1>4, <1>6, <1>7 DEF Fits
<1> QED BY <1>5, <1>8, BecomeFits DEF TermInv

LEMMA CommitStep ==
    ASSUME TermInv, NEW p \in Process, Commit(p)
    PROVE  TermInv'
<1> DEFINE r == Merge(job[p].old, job[p].new, row)
<1>1. Fits(p, job[p], term, today) /\ Head(job[p].todo) = "commit" /\ ~Idle(p)
  BY BusyFits DEF Commit, At
<1>2. job[p] \in Job /\ job[p].todo \in Seq(Call) /\ job[p].todo # <<>> /\ Has(job[p].todo, "commit")
  BY <1>1, TailCalls DEF Fits, Job
<1>3. row' = r /\ r \in Row /\ r.expiry \in Nat
  <2>1. job[p].old \in Row /\ job[p].new \in Row /\ row \in Row
    BY <1>1, <1>2 DEF Fits, TermInv, TypeOK
  <2>2. r \in Row
    BY <2>1, MergeType
  <2> QED BY <2>2 DEF Commit, Row
<1> HIDE DEF r
<1>4. term \in Nat /\ term' \in Nat /\ term <= term' /\ row'.expiry <= term' /\ today \in Nat
  BY <1>3 DEF Commit, TermInv, TypeOK
<1>5. cache' \in Entry \cup {None} /\ (cache' # None => cache'.expiry <= term')
  <2>1. cache' = cache \/ cache' = Overtaken(cache, r)
    BY <1>3 DEF Commit
  <2>2. cache \in Entry \cup {None} /\ (cache # None => cache.expiry <= term /\ cache.expiry \in Nat)
    BY DEF TermInv, TypeOK, Within, Entry
  <2> QED BY <1>4, <2>1, <2>2, OvertakenType
<1>6. servedOn' \in Nat /\ servedOn' <= term'
  <2>1. CASE servedOn' = servedOn
    BY <1>4, <2>1 DEF TermInv, TypeOK, Within
  <2>2. CASE p \in Check /\ Serve(job[p].day)
    <3>1. job[p].day \in Nat /\ job[p].day <= term
      BY <1>1, <1>2, <2>2 DEF Fits, CheckFits, Job
    <3>2. servedOn' \in Nat /\ servedOn' <= term
      BY <2>2, <3>1, ServeType
    <3> QED BY <1>4, <3>2
  <2> QED BY <2>1, <2>2 DEF Commit
<1>7. JobsFit(job', term, today)
  <2>1. Become(p, [job[p] EXCEPT !.todo = Tail(@),
                                 !.old = IF p \in Check THEN job[p].new ELSE None,
                                 !.new = IF p \in Check THEN job[p].new ELSE None])
    BY DEF Commit
  <2> QED BY <2>1, CommitFits DEF Commit
<1>8. JobsFit(job', term', today')
  <2>1. today' = today
    BY DEF Commit
  <2> QED BY <1>4, <1>7, <2>1, FitsLater
<1>9. TypeOK'
  BY <1>3, <1>4, <1>5, <1>6, <1>7 DEF TermInv, TypeOK, Commit, JobsFit
<1> QED BY <1>4, <1>5, <1>6, <1>8, <1>9 DEF TermInv, Within

LEMMA InvalidateStep ==
    ASSUME TermInv, NEW p \in Process, Invalidate(p)
    PROVE  TermInv'
<1>1. JobsFit(job', term, today)
  BY ProceedFits DEF Invalidate, At
<1>2. cache' \in Entry \cup {None} /\ (cache' # None => cache'.expiry <= term)
  <2>1. cache' = None \/ cache' = Overtaken(cache, row)
    BY DEF Invalidate
  <2>2. cache \in Entry \cup {None} /\ (cache # None => cache.expiry <= term)
    BY DEF TermInv, TypeOK, Within
  <2> QED BY <2>1, <2>2, OvertakenType
<1>3. TypeOK'
  BY <1>1, <1>2 DEF TermInv, TypeOK, Invalidate, JobsFit
<1> QED BY <1>1, <1>2, <1>3 DEF TermInv, Within, Invalidate

LEMMA DeleteCounterStep ==
    ASSUME TermInv, NEW p \in Process, DeleteCounter(p)
    PROVE  TermInv'
<1>1. ~Idle(p) /\ Head(job[p].todo) = "unquota"
  BY DEF DeleteCounter, At
<1>2. Fits(p, job[p], term, today) /\ job[p] \in Job /\ job[p].todo \in Seq(Call) /\ job[p].todo # <<>>
  BY <1>1, BusyFits DEF Fits, Job
<1> DEFINE rest == Tail(job[p].todo)
           calls == IF redisUp THEN rest ELSE Tail(rest)
           j == [job[p] EXCEPT !.todo = calls]
<1>3. /\ rest \in Seq(Call) /\ rest # <<>> /\ Paired(rest) /\ Timely(rest)
      /\ Removes(job[p].todo) => Removes(rest)
      /\ \A x : Has(rest, x) => Has(job[p].todo, x)
      /\ Once(job[p].todo) => Once(rest)
  BY <1>1, <1>2, TailCalls DEF Fits
<1> HIDE DEF rest
<1>4. /\ calls \in Seq(Call) /\ Paired(calls) /\ Timely(calls)
      /\ Removes(job[p].todo) => Removes(calls)
      /\ \A x : Has(calls, x) => Has(job[p].todo, x)
      /\ Once(job[p].todo) => Once(calls)
  BY <1>3, TailCalls
<1>5. Become(p, j)
  BY DEF DeleteCounter, Goto, rest
<1> HIDE DEF calls
<1>6. j \in Job /\ j.todo = calls /\ j.day = job[p].day /\ j.old = job[p].old /\ j.new = job[p].new
  BY <1>2, <1>4 DEF Job
<1> HIDE DEF j
<1>7. CheckFits(job[p], term) => CheckFits(j, term)
  BY <1>1, <1>4, <1>6 DEF CheckFits
<1>8. (PassFits(job[p]) => PassFits(j)) /\ (WriteFits(job[p]) => WriteFits(j))
  BY <1>4, <1>6 DEF PassFits, WriteFits
<1>9. j.todo = <<>> \/ Fits(p, j, term, today)
  BY <1>2, <1>4, <1>6, <1>7, <1>8 DEF Fits
<1>10. JobsFit(job', term, today)
  BY <1>5, <1>9, BecomeFits DEF TermInv
<1>11. TypeOK'
  BY <1>10 DEF TermInv, TypeOK, DeleteCounter, JobsFit
<1> QED BY <1>10, <1>11 DEF TermInv, Within, DeleteCounter

LEMMA UnlistStep ==
    ASSUME TermInv, NEW p \in Process, Unlist(p)
    PROVE  TermInv'
<1>1. JobsFit(job', term, today)
  BY ProceedFits DEF Unlist, At
<1>2. TypeOK'
  BY <1>1 DEF TermInv, TypeOK, Unlist, JobsFit
<1> QED BY <1>1, <1>2 DEF TermInv, Within, Unlist

-----------------------------------------------------------------------------
(* Time and faults.                                                        *)

LEMMA NextDayStep ==
    ASSUME TermInv, NextDay
    PROVE  TermInv'
<1>1. today \in Nat /\ today' = today + 1 /\ term \in Nat
  BY DEF TermInv, TypeOK, NextDay
<1>2. JobsFit(job', term', today')
  BY <1>1, FitsLater DEF TermInv, NextDay
<1>3. TypeOK'
  BY <1>1 DEF TermInv, TypeOK, NextDay
<1> QED BY <1>2, <1>3 DEF TermInv, Within, NextDay

LEMMA CrashStep ==
    ASSUME TermInv, NEW p \in Process, Crash(p)
    PROVE  TermInv'
<1>1. JobsFit(job', term, today)
  BY DEF TermInv, JobsFit, Crash
<1>2. cache' \in Entry \cup {None} /\ (cache' # None => cache'.expiry <= term)
  <2>1. cache' = cache \/ cache' = Overtaken(cache, row)
    BY DEF Crash
  <2>2. cache \in Entry \cup {None} /\ (cache # None => cache.expiry <= term)
    BY DEF TermInv, TypeOK, Within
  <2> QED BY <2>1, <2>2, OvertakenType
<1>3. faults' \in 0 .. MaxFaults
  BY BoundAssumption DEF TermInv, TypeOK, Crash
<1>4. poisoned' \in BOOLEAN
  <2>1. poisoned \in BOOLEAN
    BY Zenon DEF TermInv, TypeOK
  <2>2. poisoned' \in {poisoned, poisoned /\ ~At(p, "drain")}
    BY Zenon DEF Crash
  <2> HIDE DEF At
  <2> QED BY <2>1, <2>2, Zenon
<1>5. UNCHANGED <<today, row, quota, listed, redisUp, servedOn, term, requests>>
  BY Zenon DEF Crash
<1>6. TypeOK'
  BY <1>1, <1>2, <1>3, <1>4, <1>5 DEF TermInv, TypeOK, JobsFit
<1> QED BY <1>1, <1>2, <1>5, <1>6 DEF TermInv, Within

LEMMA TermInvInitial == Init => TermInv
<1> SUFFICES ASSUME Init PROVE TermInv
  OBVIOUS
<1>1. today \in Nat /\ row \in Row /\ row.expiry = FirstExpiry /\ term = FirstExpiry /\ servedOn = 0
      /\ FirstExpiry \in Nat
  BY DayAssumption, TierAssumption DEF Init, Row, Status
<1>2. cache \in Entry \cup {None} /\ (cache # None => cache.expiry = FirstExpiry)
  <2> DEFINE e == [tier |-> FirstTier, status |-> "active", expiry |-> FirstExpiry,
                   set |-> FirstDay, stale |-> FALSE]
  <2>1. e \in Entry /\ e.expiry = FirstExpiry
    BY DayAssumption, TierAssumption DEF Entry, Status
  <2>2. cache = None \/ cache = e
    BY DEF Init
  <2> HIDE DEF e
  <2> QED BY <2>1, <2>2
<1>3. JobsFit(job, term, today)
  BY DEF Init, JobsFit
<1>4. quota \in Nat /\ listed \in BOOLEAN /\ redisUp \in BOOLEAN
      /\ poisoned \in BOOLEAN
      /\ requests \in 0 .. MaxRequests /\ faults \in 0 .. MaxFaults
  <2>1. listed \in BOOLEAN /\ redisUp \in BOOLEAN /\ poisoned \in BOOLEAN
    BY Zenon DEF Init
  <2>2. quota = 0 /\ requests = 0 /\ faults = 0
    BY DEF Init
  <2>3. quota \in Nat /\ requests \in 0 .. MaxRequests /\ faults \in 0 .. MaxFaults
    BY <2>2, BoundAssumption
  <2> QED BY <2>1, <2>3
<1>5. TypeOK
  BY <1>1, <1>2, <1>3, <1>4 DEF TypeOK, JobsFit
<1> QED BY <1>1, <1>2, <1>3, <1>5 DEF TermInv, Within

LEMMA TermInvInductive == TermInv /\ [Next]_vars => TermInv'
<1> SUFFICES ASSUME TermInv, [Next]_vars PROVE TermInv'
  OBVIOUS
<1>1. CASE \E c \in Check : StartCheck(c) \/ CheckStep(c)
  BY <1>1, StartCheckStep, LookupStep, ReadStep, FillStep, IncrementStep, ListStep, FallbackStep
     DEF CheckStep
<1>2. CASE \E w \in Writer : WriteStart(w) \/ Used(w)
  BY <1>2, WriteStartStep, UsedStep
<1>3. CASE \E m \in Maintainer : MaintenanceStep(m)
  BY <1>3, StartMaintenanceStep, RefuseLogsStep, BillStep, MembersStep, CountStep, SelectStep DEF MaintenanceStep
<1>4. CASE \E p \in Process : SharedStep(p) \/ Crash(p)
  BY <1>4, CommitStep, InvalidateStep, DeleteCounterStep, UnlistStep, CrashStep DEF SharedStep
<1>5. CASE NextDay
  BY <1>5, NextDayStep
<1>6. CASE CacheExpires
  BY <1>6, NoneAssumption DEF CacheExpires, TermInv, TypeOK, Within, JobsFit
<1>7. CASE Outage
  <2>1. TypeOK'
    <3>1. redisUp' \in BOOLEAN
      BY <1>7, Zenon DEF Outage
    <3>2. faults' \in 0 .. MaxFaults
      <4>1. faults' = faults + 1 /\ faults < MaxFaults
        BY <1>7 DEF Outage
      <4> QED BY <4>1, BoundAssumption DEF TermInv, TypeOK
    <3>3. UNCHANGED <<today, row, cache, quota, listed, job, servedOn, term, requests, poisoned>>
      BY <1>7 DEF Outage
    <3> QED BY <3>1, <3>2, <3>3 DEF TermInv, TypeOK
  <2>2. UNCHANGED <<today, row, cache, job, servedOn, term>>
    BY <1>7 DEF Outage
  <2> QED BY <2>1, <2>2 DEF TermInv, Within
<1>8. CASE Recovery
  BY <1>8 DEF Recovery, TermInv, TypeOK, Within, JobsFit
<1>9. CASE PoisonLogs
  <2>1. requests' \in 0 .. MaxRequests
    BY <1>9, BoundAssumption DEF PoisonLogs, TermInv, TypeOK
  <2>2. UNCHANGED <<today, row, cache, quota, listed, redisUp, job, servedOn, term, faults>>
    BY <1>9, Zenon DEF PoisonLogs
  <2>3. poisoned' \in BOOLEAN
    BY <1>9, Zenon DEF PoisonLogs
  <2> QED BY <2>1, <2>2, <2>3 DEF TermInv, TypeOK, Within, JobsFit
<1>10. CASE LoseLogs
  <2>1. UNCHANGED <<today, row, cache, quota, listed, redisUp, job, servedOn, term, requests, faults>>
    BY <1>10, Zenon DEF LoseLogs
  <2>2. poisoned' \in BOOLEAN
    BY <1>10, Zenon DEF LoseLogs
  <2> QED BY <2>1, <2>2 DEF TermInv, TypeOK, Within, JobsFit
<1>11. CASE UNCHANGED vars
  BY <1>11 DEF vars, TermInv, TypeOK, Within, JobsFit
<1> QED BY <1>1, <1>2, <1>3, <1>4, <1>5, <1>6, <1>7, <1>8, <1>9, <1>10, <1>11 DEF Next

-----------------------------------------------------------------------------
(* Theorems.                                                               *)

\* In every reachable state each job keeps to the row it has read: no commit
\* without a row, no second one by a writer, no verdict but on a day within
\* the term, no retirement but of a row that was overdue.
THEOREM JobsKeepToTheirRow == Spec => []TermInv
BY TermInvInitial, TermInvInductive, PTL DEF Spec

\* Every variable of the subscription, and every job, is of its type in every
\* reachable state, faults and outages included; an UPDATE of a merged row is a row.
THEOREM TypeCorrect == Spec => []TypeOK
<1>1. TermInv => TypeOK
  BY DEF TermInv
<1> QED BY <1>1, JobsKeepToTheirRow, PTL

\* Nobody goes through the gate on a day beyond the latest date the estate has
\* been given, whatever cache, midnights, outages and crashes do
\* (verification.py 130-140, 170-183).
THEOREM ServesInTerm == Spec => []ServedOnlyInTerm
<1>1. TermInv => ServedOnlyInTerm
  BY DEF TermInv, Within, ServedOnlyInTerm
<1> QED BY <1>1, JobsKeepToTheirRow, PTL

\* A commit that expires a running subscription is an override, or that of a
\* pass whose row was overtaken: the only steps that write the row are commits,
\* a check's commit keeps the status, and a pass retires an overdue row only.
LEMMA RunningStaysActive ==
    ASSUME TermInv, [Next]_vars,
           row.status = "active", today <= row.expiry, row'.status = "expired"
    PROVE  \/ \E w \in Writer : At(w, "commit") /\ job[w].new.status = "expired"
           \/ \E m \in Maintainer : At(m, "commit") /\ job[m].old.expiry # row.expiry
<1>1. PICK p \in Process : Commit(p)
  <2>1. row' # row
    OBVIOUS
  <2> QED BY <2>1
     DEF Next, vars, StartCheck, CheckStep, Lookup, Read, Fill, Increment, List, Fallback,
         WriteStart, StartFulfil, StartTierChange, StartSettings, StartOverride, StartTokenRequest,
         StartWrite, Used, MaintenanceStep, StartMaintenance, RefuseLogs, Bill, Members, Count,
         Select, SharedStep,
         Invalidate, DeleteCounter, Unlist, PoisonLogs, LoseLogs, NextDay, CacheExpires, Crash, Outage, Recovery
<1> DEFINE j == job[p]
<1>2. At(p, "commit") /\ ~Idle(p) /\ row' = Merge(j.old, j.new, row)
  BY <1>1 DEF Commit, At
<1>3. Fits(p, j, term, today)
  BY <1>2, BusyFits
<1>4. j.old \in Row /\ j.new \in Row /\ j.day \in Nat /\ j.day <= today
  <2>1. Has(j.todo, "commit")
    BY <1>2, <1>3, TailCalls DEF At, Fits, Job
  <2> QED BY <1>3, <2>1 DEF Fits, Job
<1>5. j.new.status = "expired" /\ j.new.status # j.old.status
  BY <1>2 DEF Merge
<1>6. CASE p \in Check
  BY <1>3, <1>4, <1>5, <1>6 DEF Fits, CheckFits, Terms
<1>7. CASE p \in Writer
  BY <1>2, <1>5, <1>7
<1>8. CASE p \in Maintainer
  <2>1. j.old.expiry < j.day
    BY <1>3, <1>4, <1>5, <1>8 DEF Fits, PassFits
  <2>2. j.old.expiry # row.expiry
    BY <1>4, <2>1 DEF TermInv, TypeOK, Row
  <2> QED BY <1>2, <1>8, <2>2
<1> QED BY <1>6, <1>7, <1>8 DEF Process

\* A subscription whose term is running is retired by an override, or by a pass
\* that had read it before its expiry date changed, and by nothing else
\* (maintenance.py 89-96).
THEOREM RetiresOverdue == Spec => RetiredOnlyWhenOverdue
<1>1. TermInv /\ [Next]_vars =>
        [row.status = "active" /\ today <= row.expiry /\ row'.status = "expired" =>
            \/ \E w \in Writer : At(w, "commit") /\ job[w].new.status = "expired"
            \/ \E m \in Maintainer : At(m, "commit") /\ job[m].old.expiry # row.expiry]_vars
  BY RunningStaysActive
<1> QED BY <1>1, JobsKeepToTheirRow, PTL DEF Spec, RetiredOnlyWhenOverdue

-----------------------------------------------------------------------------
(* The cached entry. *)

\* An entry that is not out of date agrees with the row, or neither lets
\* anybody through, or the writer of the row is about to remove it.
Trust ==
    cache # None /\ ~cache.stale =>
        \/ Terms(cache) = Terms(row)
        \/ ~InForce(cache, today) /\ ~InForce(row, today)
        \/ \E p \in Process : Uninvalidated(p)

LEMMA OvertakenAgrees ==
    ASSUME NEW e \in Entry \cup {None}, NEW r, Overtaken(e, r) # None, ~Overtaken(e, r).stale
    PROVE  Terms(Overtaken(e, r)) = Terms(r)
BY NoneAssumption DEF Overtaken, Entry

\* Between its commit and its DELETE a writer makes no other call.
LEMMA UninvalidatedAt ==
    ASSUME TermInv, NEW p \in Process, Uninvalidated(p)
    PROVE  At(p, "invalidate")
<1> DEFINE s == job[p].todo
<1>1. ~Idle(p) /\ Fits(p, job[p], term, today)
  BY BusyFits DEF Uninvalidated
<1>2. s \in Seq(Call) /\ s # <<>> /\ Timely(s)
  BY <1>1 DEF Fits, Job
<1>3. Len(s) \in Nat /\ DOMAIN s = 1 .. Len(s) /\ Head(s) = s[1]
  BY <1>2, LenProperties, TailCalls
<1> HIDE DEF s
<1>4. PICK i \in 1 .. Len(s) : s[i] = "invalidate"
  BY <1>3 DEF Uninvalidated, s
<1>5. \A k \in 1 .. Len(s) : s[k] # "commit"
  BY <1>3 DEF Uninvalidated, s
<1>6. i # 1 => i - 1 \in 1 .. Len(s)
  BY <1>3
<1>7. \A k \in i .. Len(s) : k \in 1 .. Len(s)
  BY <1>3
<1>8. i = 1
  BY <1>2, <1>4, <1>5, <1>6, <1>7 DEF Timely
<1> QED BY <1>1, <1>3, <1>4, <1>8 DEF At, s

\* Only a process that moves loses its job, and a process at its DELETE moves
\* by making it or by dying.
LEMMA UninvalidatedStays ==
    ASSUME TermInv, [Next]_vars, NEW q \in Process, Uninvalidated(q)
    PROVE  Uninvalidated(q)' \/ Invalidate(q) \/ Crash(q)
<1>1. At(q, "invalidate") /\ ~Idle(q) /\ Head(job[q].todo) = "invalidate"
  BY UninvalidatedAt DEF At
<1>2. ASSUME NEW p \in Process, NEW j, Become(p, j), p # q PROVE Uninvalidated(q)'
  <2>1. job'[q] = job[q]
    BY <1>2 DEF Become, TermInv, TypeOK
  <2> QED BY <2>1 DEF Uninvalidated, Idle
<1>3. CASE UNCHANGED job
  BY <1>3 DEF Uninvalidated, Idle
<1>4. CASE \E c \in Check : StartCheck(c) \/ CheckStep(c)
  <2>1. PICK c \in Check : StartCheck(c) \/ CheckStep(c)
    BY <1>4
  <2>2. c \in Process /\ c # q
    BY <1>1, <2>1 DEF Process, StartCheck, Takes, CheckStep, Lookup, Read, Fill, Increment, List,
                      Fallback, At
  <2>3. \E j : Become(c, j)
    BY <2>1 DEF StartCheck, CheckStep, Lookup, Read, Fill, Increment, List, Fallback, Goto, Proceed
  <2> QED BY <1>2, <2>2, <2>3
<1>5. CASE \E w \in Writer : WriteStart(w) \/ Used(w)
  <2>1. PICK w \in Writer : WriteStart(w) \/ Used(w)
    BY <1>5
  <2>2. w \in Process /\ w # q
    BY <1>1, <2>1 DEF Process, WriteStart, StartFulfil, StartTierChange, StartSettings, StartOverride,
                      StartTokenRequest, StartWrite, Takes, Used, At
  <2>3. \E j : Become(w, j)
    BY <2>1 DEF WriteStart, StartFulfil, StartTierChange, StartSettings, StartOverride,
                StartTokenRequest, StartWrite, Used, Goto, Proceed
  <2> QED BY <1>2, <2>2, <2>3
<1>6. CASE \E m \in Maintainer : MaintenanceStep(m)
  <2>1. PICK m \in Maintainer : MaintenanceStep(m)
    BY <1>6
  <2>2. m \in Process /\ m # q
    BY <1>1, <2>1 DEF Process, MaintenanceStep, StartMaintenance, RefuseLogs, Bill, Members, Count,
         Select, At
  <2>3. \E j : Become(m, j)
    BY <2>1 DEF MaintenanceStep, StartMaintenance, RefuseLogs, Bill, Members, Count,
         Select, Goto
  <2> QED BY <1>2, <2>2, <2>3
<1>7. ASSUME NEW p \in Process, SharedStep(p)
      PROVE  Uninvalidated(q)' \/ Invalidate(q)
  <2>1. CASE p = q
    BY <1>1, <1>7, <2>1 DEF SharedStep, Commit, DeleteCounter, Unlist, At
  <2>2. CASE p # q
    <3>1. \E j : Become(p, j)
      BY <1>7 DEF SharedStep, Commit, Invalidate, DeleteCounter, Unlist, Goto, Proceed
    <3> QED BY <1>2, <2>2, <3>1
  <2> QED BY <2>1, <2>2
<1>8. ASSUME NEW p \in Process, Crash(p)
      PROVE  Uninvalidated(q)' \/ Crash(q)
  <2>1. CASE p # q
    <3>1. job'[q] = job[q]
      BY <1>8, <2>1 DEF Crash, TermInv, TypeOK
    <3> QED BY <3>1 DEF Uninvalidated, Idle
  <2> QED BY <1>8, <2>1
<1>9. CASE PoisonLogs \/ LoseLogs \/ NextDay \/ CacheExpires \/ Outage \/ Recovery \/ UNCHANGED vars
  BY <1>3, <1>9 DEF PoisonLogs, LoseLogs, NextDay, CacheExpires, Outage, Recovery, vars
<1> QED BY <1>4, <1>5, <1>6, <1>7, <1>8, <1>9 DEF Next

\* A step that leaves row and entry alone, time passing or not.
LEMMA TrustStays ==
    ASSUME TermInv, Trust, UNCHANGED <<row, cache>>, today' \in Nat, today <= today',
           \A q \in Process : Uninvalidated(q) => Uninvalidated(q)'
    PROVE  Trust'
<1>1. today \in Nat /\ row.expiry \in Nat /\ (cache # None => cache.expiry \in Nat)
  BY DEF TermInv, TypeOK, Row, Entry
<1>2. ~InForce(row, today) => ~InForce(row, today')
  BY <1>1 DEF InForce
<1>3. cache # None /\ ~InForce(cache, today) => ~InForce(cache, today')
  BY <1>1 DEF InForce
<1> HIDE DEF InForce, Uninvalidated
<1>4. InForce(row, today)' <=> InForce(row, today')
  BY DEF InForce
<1>5. InForce(cache, today)' <=> InForce(cache, today')
  BY DEF InForce
<1>6. Terms(cache)' = Terms(cache) /\ Terms(row)' = Terms(row)
  BY DEF Terms
<1> QED BY <1>2, <1>3, <1>4, <1>5, <1>6 DEF Trust

\* A check changes no column that matters, a writer that does goes on to its
\* DELETE, and a pass retires what nobody would let through.
LEMMA CommitTrust ==
    ASSUME TermInv, Trust, NEW p \in Process, Commit(p),
           \A q \in Process : Uninvalidated(q) => Uninvalidated(q)'
    PROVE  Trust'
<1> DEFINE j == job[p]
           r == Merge(j.old, j.new, row)
<1>1. Fits(p, j, term, today) /\ Head(j.todo) = "commit" /\ At(p, "commit") /\ ~Idle(p)
  BY BusyFits DEF Commit, At
<1>2. j \in Job /\ j.todo \in Seq(Call) /\ j.todo # <<>> /\ Has(j.todo, "commit")
  BY <1>1, TailCalls DEF Fits, Job
<1>3. /\ j.old \in Row /\ j.new \in Row /\ row \in Row /\ today \in Nat
      /\ cache \in Entry \cup {None}
  BY <1>1, <1>2 DEF Fits, TermInv, TypeOK
<1>4. /\ row' = r /\ today' = today
      /\ cache' = IF p \in Maintainer /\ Terms(j.old) # Terms(row) THEN Overtaken(cache, r) ELSE cache
  BY DEF Commit
<1>5. Terms(r) = <<IF j.new.tier # j.old.tier THEN j.new.tier ELSE row.tier,
                   IF j.new.status # j.old.status THEN j.new.status ELSE row.status,
                   IF j.new.expiry # j.old.expiry THEN j.new.expiry ELSE row.expiry>>
  BY DEF Terms, Merge
<1>6. Terms(j.new) = Terms(j.old) => Terms(r) = Terms(row)
  BY <1>5 DEF Terms
<1>7. CASE Terms(r) = Terms(row) /\ cache' = cache
  <2>1. InForce(row', today) <=> InForce(row, today)
    BY <1>4, <1>7 DEF InForce, Terms
  <2> HIDE DEF r
  <2>2. Terms(row') = Terms(row)
    BY <1>4, <1>7
  <2>3. /\ InForce(row, today)' <=> InForce(row', today)
        /\ InForce(cache, today)' <=> InForce(cache, today)
        /\ Terms(row)' = Terms(row')
        /\ Terms(cache)' = Terms(cache)
    BY <1>4, <1>7 DEF InForce, Terms
  <2> HIDE DEF InForce, Terms, Uninvalidated
  <2> QED BY <1>7, <2>1, <2>2, <2>3 DEF Trust
<1>8. CASE p \in Check
  BY <1>1, <1>3, <1>4, <1>6, <1>7, <1>8, ProcessAssumption DEF Fits, CheckFits
<1>9. CASE p \in Writer
  <2>1. CASE Terms(j.new) = Terms(j.old)
    BY <1>4, <1>6, <1>7, <1>9, <2>1, ProcessAssumption
  <2>2. CASE Terms(j.new) # Terms(j.old)
    <3> DEFINE s == j.todo
    <3>1. Removes(s) /\ Once(s) /\ s \in Seq(Call) /\ s # <<>>
      BY <1>1, <1>2, <1>9, <2>2, ProcessAssumption DEF Fits, WriteFits
    <3> HIDE DEF s
    <3>2. /\ Len(s) \in Nat /\ Len(s) > 0 /\ Len(Tail(s)) = Len(s) - 1 /\ Head(s) = s[1]
          /\ Tail(s) \in Seq(Call)
          /\ \A i \in 1 .. Len(Tail(s)) : Tail(s)[i] = s[i + 1]
      BY <3>1, HeadTailProperties, EmptySeq
    <3>3. 1 < Len(s) /\ s[1 + 1] = "invalidate"
      <4>1. 1 \in 1 .. Len(s) /\ s[1] = "commit"
        BY <1>1, <3>2 DEF s
      <4> QED BY <3>1, <4>1 DEF Removes
    <3>4. 1 \in 1 .. Len(Tail(s)) /\ Tail(s)[1] = "invalidate"
      BY <3>2, <3>3
    <3>5. ~Has(Tail(s), "commit")
      <4>1. Head(s) = "commit"
        BY <1>1 DEF s
      <4> QED BY <3>1, <4>1, TailCalls
    <3>6. DOMAIN Tail(s) = 1 .. Len(Tail(s)) /\ Tail(s) # <<>>
      BY <3>2, <3>3, LenProperties
    <3> DEFINE i == [j EXCEPT !.todo = Tail(s), !.old = None, !.new = None]
    <3>7. Become(p, i)
      BY <1>9, ProcessAssumption DEF Commit, s
    <3>8. i.todo = Tail(s) /\ i \in Job
      BY <1>2, <3>2 DEF Job
    <3> HIDE DEF i
    <3>9. job'[p] = i /\ i # None
      BY <3>6, <3>7, <3>8, NoneAssumption DEF Become, TermInv, TypeOK
    <3>10. Uninvalidated(p)'
      BY <3>4, <3>5, <3>6, <3>8, <3>9 DEF Uninvalidated, Idle, Has
    <3> QED BY <3>10 DEF Trust
  <2> QED BY <2>1, <2>2
<1>10. CASE p \in Maintainer
  <2>1. CASE Terms(j.old) # Terms(row)
    <3>1. cache' = Overtaken(cache, r)
      BY <1>4, <1>10, <2>1
    <3> HIDE DEF r
    <3>2. cache' # None /\ ~cache'.stale => Terms(cache') = Terms(row')
      BY <1>3, <1>4, <3>1, OvertakenAgrees
    <3> QED BY <3>2 DEF Trust, Terms
  <2>2. CASE Terms(j.old) = Terms(row)
    <3>1. cache' = cache
      BY <1>4, <2>2
    <3>2. PassFits(j)
      BY <1>1, <1>10 DEF Fits
    <3>3. /\ j.new.tier = j.old.tier /\ j.new.expiry = j.old.expiry
          /\ j.new.status # j.old.status => j.new.status = "expired" /\ j.old.expiry < j.day
      BY <1>3, <3>2 DEF PassFits
    <3>4. CASE j.new.status = j.old.status
      <4>1. Terms(j.new) = Terms(j.old)
        BY <3>3, <3>4 DEF Terms
      <4> QED BY <1>6, <1>7, <3>1, <4>1
    <3>5. CASE j.new.status # j.old.status
      <4>1. row.expiry < today /\ row.expiry \in Nat
        <5>1. j.day \in Nat /\ j.day <= today
          BY <1>1, <1>2 DEF Fits, Job
        <5>2. row.expiry = j.old.expiry /\ row.expiry \in Nat
          BY <1>3, <2>2 DEF Terms, Row
        <5> QED BY <1>3, <3>3, <3>5, <5>1, <5>2
      <4>2. ~InForce(row, today)
        BY <1>3, <4>1 DEF InForce
      <4>3. ~InForce(row', today)
        <5>1. row'.status = "expired"
          BY <1>4, <3>3, <3>5 DEF Merge
        <5> QED BY <5>1 DEF InForce
      <4>4. Terms(cache) = Terms(row) => ~InForce(cache, today)
        BY <4>2 DEF InForce, Terms
      <4>5. /\ InForce(row, today)' <=> InForce(row', today)
            /\ InForce(cache, today)' <=> InForce(cache, today)
        BY <1>4, <3>1 DEF InForce
      <4> HIDE DEF InForce, Terms, Uninvalidated
      <4> QED BY <3>1, <4>2, <4>3, <4>4, <4>5 DEF Trust
    <3> QED BY <3>4, <3>5
  <2> QED BY <2>1, <2>2
<1> QED BY <1>8, <1>9, <1>10 DEF Process

LEMMA TrustInitial == Init => Trust
BY NoneAssumption DEF Init, Trust, Terms

LEMMA TrustInductive == TermInv /\ Trust /\ [Next]_vars => Trust'
<1> SUFFICES ASSUME TermInv, Trust, [Next]_vars PROVE Trust'
  OBVIOUS
<1>0. cache \in Entry \cup {None} /\ today \in Nat /\ row \in Row
  BY DEF TermInv, TypeOK
\* Whatever was cached, it is compared with the row.
<1>1. ASSUME NEW e \in Entry \cup {None}, cache' = Overtaken(e, row), row' = row
      PROVE  Trust'
  <2>1. cache' # None /\ ~cache'.stale => Terms(cache') = Terms(row')
    BY <1>1, OvertakenAgrees
  <2> QED BY <2>1 DEF Trust, Terms
<1>2. CASE \E p \in Process : Invalidate(p)
  <2>1. PICK p \in Process : Invalidate(p)
    BY <1>2
  <2>2. row' = row /\ (cache' = None \/ cache' = Overtaken(cache, row))
    BY <2>1 DEF Invalidate
  <2>3. CASE cache' = None
    BY <2>3 DEF Trust
  <2> QED BY <1>0, <1>1, <2>2, <2>3
<1>3. ASSUME \A q \in Process : ~Invalidate(q), \A q \in Process : Uninvalidated(q) => ~Crash(q)
      PROVE  \A q \in Process : Uninvalidated(q) => Uninvalidated(q)'
  BY <1>3, UninvalidatedStays
<1>4. ASSUME NEW p \in Process, Crash(p), ~\E q \in Process : Invalidate(q)
      PROVE  Trust'
  <2>1. row' = row /\ today' = today
        /\ cache' = IF At(p, "invalidate") THEN Overtaken(cache, row) ELSE cache
    BY <1>4 DEF Crash
  <2>2. CASE At(p, "invalidate")
    BY <1>0, <1>1, <2>1, <2>2
  <2>3. CASE ~At(p, "invalidate")
    <3>1. ~Uninvalidated(p)
      BY <2>3, UninvalidatedAt
    <3>2. \A q \in Process : Uninvalidated(q) => Uninvalidated(q)'
      <4> SUFFICES ASSUME NEW q \in Process, Uninvalidated(q) PROVE Uninvalidated(q)'
        OBVIOUS
      <4>1. job'[q] = job[q]
        BY <1>4, <3>1 DEF Crash, TermInv, TypeOK
      <4> QED BY <4>1 DEF Uninvalidated, Idle
    <3> QED BY <1>0, <2>1, <2>3, <3>2, TrustStays
  <2> QED BY <2>2, <2>3
<1>5. ASSUME NEW p \in Process, Commit(p), ~\E q \in Process : Invalidate(q), ~\E q \in Process : Crash(q)
      PROVE  Trust'
  BY <1>3, <1>5, CommitTrust
<1>6. ASSUME NEW c \in Check, Fill(c), ~\E q \in Process : Invalidate(q), ~\E q \in Process : Crash(q)
      PROVE  Trust'
  <2> DEFINE r == job[c].new
             entry == [tier |-> r.tier, status |-> r.status, expiry |-> r.expiry,
                       set |-> today, stale |-> FALSE]
  <2>1. row' = row /\ today' = today /\ cache' = IF redisUp THEN Overtaken(entry, row) ELSE cache
    BY <1>6 DEF Fill
  <2>2. CASE redisUp
    <3>1. c \in Process /\ ~Idle(c) /\ Head(job[c].todo) = "fill"
      BY <1>6 DEF Process, Fill, At
    <3>2. Fits(c, job[c], term, today) /\ job[c].todo \in Seq(Call) /\ job[c].todo # <<>>
      BY <3>1, BusyFits DEF Fits, Job
    <3>3. r \in Row
      BY <3>1, <3>2, TailCalls DEF Fits, CheckFits
    <3>4. entry \in Entry
      BY <1>0, <3>3 DEF Row, Entry
    <3> HIDE DEF entry
    <3> QED BY <1>1, <2>1, <2>2, <3>4
  <2>3. CASE ~redisUp
    BY <1>0, <1>3, <1>6, <2>1, <2>3, TrustStays
  <2> QED BY <2>2, <2>3
<1>7. CASE CacheExpires
  BY <1>7 DEF CacheExpires, Trust
<1>8. CASE /\ UNCHANGED <<row, cache>> /\ today' \in Nat /\ today <= today'
           /\ ~\E q \in Process : Invalidate(q) \/ Crash(q)
  BY <1>3, <1>8, TrustStays
<1>9. \/ UNCHANGED <<row, cache, today>> \/ NextDay \/ CacheExpires
      \/ \E c \in Check : Fill(c)
      \/ \E p \in Process : Commit(p) \/ Invalidate(p) \/ Crash(p)
  BY DEF Next, vars, StartCheck, CheckStep, Lookup, Read, Increment, List, Fallback,
         WriteStart, StartFulfil, StartTierChange, StartSettings, StartOverride, StartTokenRequest,
         StartWrite, Used, MaintenanceStep, StartMaintenance, RefuseLogs, Bill, Members, Count,
         Select, SharedStep,
         DeleteCounter, Unlist, PoisonLogs, LoseLogs, Outage, Recovery
<1>10. UNCHANGED <<row, cache, today>> \/ NextDay
           => UNCHANGED <<row, cache>> /\ today' \in Nat /\ today <= today'
  BY <1>0 DEF NextDay
<1> QED BY <1>2, <1>4, <1>5, <1>6, <1>7, <1>8, <1>9, <1>10

\* The gate decides on the cached entry what it would decide on the row, in
\* both directions and with the tier's limit, unless one of the races that
\* Entry marks made it stale or a writer is between its commit and its DELETE,
\* for every set of processes, tiers and dates and any number of faults
\* (verification.py 129-149, 202-210; redis.py 84-93; maintenance.py 81-96).
THEOREM CacheIsHonest == Spec => []CacheHonest
<1>1. TermInv /\ Trust => CacheHonest
  <2> SUFFICES ASSUME TermInv, Trust, cache # None, ~cache.stale, ~\E p \in Process : Uninvalidated(p)
               PROVE  /\ \A rfid \in BOOLEAN : CacheLets(cache, today, rfid) <=> Lets(row, today, rfid)
                      /\ InForce(row, today) => cache.tier = row.tier
    BY DEF CacheHonest
  <2>1. CASE Terms(cache) = Terms(row)
    BY <2>1 DEF Terms, CacheLets, Lets, InForce
  <2>2. CASE ~InForce(cache, today) /\ ~InForce(row, today)
    BY <2>2 DEF CacheLets, Lets
  <2> QED BY <2>1, <2>2 DEF Trust
<1> QED BY <1>1, TrustInitial, TrustInductive, JobsKeepToTheirRow, PTL DEF Spec
=============================================================================
