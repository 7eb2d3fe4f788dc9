----------------------- MODULE VisitorGateAdmissions ------------------------
(***************************************************************************)
(* As long as Redis answers, the cache and the row each let a visitor in   *)
(* at most once, and nobody is let in again by a later request, for every  *)
(* set of passes, codes, requests and drainers and every number of crashes *)
(* and failed batches.                                                     *)
(*                                                                         *)
(* A pass's one cache entry is in one place: about to be cached, cached,   *)
(* in the hands of one request, or spent (CacheInv).                       *)
(*                                                                         *)
(* The row stays pending until the worker drains the queue, so it is the   *)
(* claim that decides.  Once a request has won it, the code stays claimed  *)
(* until the pass has expired, and for as long as a request holds the      *)
(* code: a request that read the row before the expiry still loses         *)
(* (RowInv).  So it stays when the cache let the visitor in, and a request *)
(* that begins later is refused by it (ReentryInv).                        *)
(***************************************************************************)
EXTENDS VisitorGateRecords

\* Redis answers, and no request is in the fallback of a failed GETDEL.
Healthy ==
    /\ redisUp
    /\ \A p \in Verifier : pc[p] \notin {"getEntry", "deleteEntry", "getExit", "deleteExit"}

-----------------------------------------------------------------------------
(* The one cache entry of a pass. *)

\* Desk request i is issuing t and has not cached it yet.
Issuing(i, t) == dpc[i] \in {"insert", "cachePass"} /\ dtok[i] = t

\* Request p took t from the cache and has not answered yet.
Holding(p, t) == pc[p] \in {"claimEntry", "liveIn", "queueIn"} /\ via[p] = "cache" /\ tok[p] = t

CacheInv ==
    /\ \A i, j \in Desk, t \in Token : Issuing(i, t) /\ Issuing(j, t) => i = j
    /\ \A i \in Desk, t \in Token : Issuing(i, t) =>
           /\ \A c \in Code : visitorCache[c] # t
           /\ \A p \in Verifier : ~Holding(p, t)
           /\ cacheIn[t] = 0
    /\ \A c, e \in Code, t \in Token : visitorCache[c] = t /\ visitorCache[e] = t => c = e
    /\ \A c \in Code, t \in Token : visitorCache[c] = t =>
           (\A p \in Verifier : ~Holding(p, t)) /\ cacheIn[t] = 0
    /\ \A p, q \in Verifier, t \in Token : Holding(p, t) /\ Holding(q, t) => p = q
    /\ \A p \in Verifier, t \in Token : Holding(p, t) => cacheIn[t] = 0
    /\ \A t \in Token : cacheIn[t] <= 1
    \* A pass that was ever cached has a row, so it is not issued again.
    /\ \A i \in Desk, t \in Token : dpc[i] = "cachePass" /\ dtok[i] = t => status[t] # "absent"
    /\ \A c \in Code, t \in Token : visitorCache[c] = t => status[t] # "absent"
    /\ \A p \in Verifier, t \in Token : Holding(p, t) => status[t] # "absent"
    /\ \A t \in Token : cacheIn[t] > 0 => status[t] # "absent"
    \* The path with the deciding claim is the row's.
    /\ \A p \in Verifier : pc[p] = "claimEntryNX" => via[p] = "row"

\* No row that exists stops existing, and no cache entry moves.
Calm ==
    /\ \A t \in Token : status[t] # "absent" => status'[t] # "absent"
    /\ \A c \in Code : visitorCache'[c] \in {visitorCache[c], NoToken}
    /\ cacheIn' = cacheIn

\* No request takes a pass from the cache.
RequestsCalm ==
    \A p \in Verifier :
        /\ \A t \in Token : Holding(p, t)' => Holding(p, t)
        /\ pc'[p] = "claimEntryNX" => via'[p] = "row"

\* No pass begins to be issued.
DesksCalm ==
    \A i \in Desk, t \in Token :
        /\ Issuing(i, t)' => Issuing(i, t)
        /\ dpc'[i] = "cachePass" /\ dtok'[i] = t => dpc[i] = "cachePass" /\ dtok[i] = t

LEMMA CalmStep ==
    ASSUME TypeInv, CacheInv, Calm, RequestsCalm, DesksCalm
    PROVE  CacheInv'
<1>1. \A c \in Code, t \in Token : visitorCache'[c] = t => visitorCache[c] = t
  BY DistinctAssumption DEF Calm
<1>2. \A t \in Token : cacheIn'[t] = cacheIn[t]
  BY DEF Calm
<1> HIDE DEF Holding, Issuing
<1> QED BY <1>1, <1>2 DEF CacheInv, Calm, RequestsCalm, DesksCalm

\* The moves of a request that take nothing from the cache.
LEMMA CalmMoves ==
    ASSUME TypeInv, CacheInv, NEW p \in Verifier
    PROVE  /\ UNCHANGED reqVars => RequestsCalm
           /\ Finish(p) => RequestsCalm
           /\ \A l : Goto(p, l) /\ l \notin {"claimEntry", "liveIn", "queueIn", "claimEntryNX"}
                  => RequestsCalm
           /\ \A l : Goto(p, l) /\ pc[p] \in {"claimEntry", "liveIn"} /\ l \in {"liveIn", "queueIn"}
                  => RequestsCalm
           /\ \A t, v, l : Take(p, t, v, l) /\ l = "claimEntryNX" /\ v = "row" => RequestsCalm
           /\ \A t, v, l : Take(p, t, v, l) /\ l \in ExitPC => RequestsCalm
<1>0. /\ pc \in [Verifier -> {"idle"} \cup EntryPC \cup ExitPC]
      /\ tok \in [Verifier -> Token \cup {NoToken}]
      /\ via \in [Verifier -> {"none", "cache", "row", "entryCode"}]
      /\ \A q \in Verifier : pc[q] = "claimEntryNX" => via[q] = "row"
  BY DEF TypeInv, RequestInv, RequestTypeOK, CacheInv
<1>1. UNCHANGED reqVars => RequestsCalm
  BY <1>0 DEF RequestsCalm, Holding, reqVars
<1>2. Finish(p) => RequestsCalm
  BY <1>0 DEF RequestsCalm, Holding, Finish
<1>3. ASSUME NEW l, Goto(p, l)
      PROVE  /\ l \notin {"claimEntry", "liveIn", "queueIn", "claimEntryNX"} => RequestsCalm
             /\ pc[p] \in {"claimEntry", "liveIn"} /\ l \in {"liveIn", "queueIn"} => RequestsCalm
  BY <1>0, <1>3 DEF RequestsCalm, Holding, Goto
<1>4. ASSUME NEW t, NEW v, NEW l, Take(p, t, v, l)
      PROVE  /\ l = "claimEntryNX" /\ v = "row" => RequestsCalm
             /\ l \in ExitPC => RequestsCalm
  BY <1>0, <1>4 DEF RequestsCalm, Holding, Take, ExitPC
<1> QED BY <1>1, <1>2, <1>3, <1>4

LEMMA CalmDesks ==
    ASSUME NEW i \in Desk, TypeInv
    PROVE  /\ UNCHANGED deskVars => DesksCalm
           /\ Close(i) => DesksCalm
           /\ \A l : DeskGoto(i, l) /\ l \notin {"insert", "cachePass"} => DesksCalm
           /\ \A t, c, l : Open(i, t, c, l) /\ l \notin {"insert", "cachePass"} => DesksCalm
BY DEF DesksCalm, Issuing, Close, DeskGoto, Open, TypeInv, DeskInv, DeskTypeOK, deskVars

LEMMA PersistKeepsRows ==
    ASSUME NEW t \in Token, NEW to \in {"checked_in", "checked_out"}, Persist(t, to), QueueTypeOK
    PROVE  \A u \in Token : status[u] # "absent" => status'[u] # "absent"
BY DEF Persist, QueueTypeOK, rowVars

LEMMA CacheInit == Init => CacheInv
BY DistinctAssumption DEF Init, CacheInv, Issuing, Holding

LEMMA BeginKeepsCache ==
    ASSUME TypeInv, CacheInv, NEW p \in Verifier, RequestStart(p)
    PROVE  CacheInv'
<1>1. Calm
  BY DEF Calm, RequestStart, Arrive, rowVars, redisVars, histVars
<1>2. DesksCalm
  BY DEF DesksCalm, Issuing, RequestStart, Arrive, deskVars
<1>3. RequestsCalm
  BY DEF RequestsCalm, Holding, RequestStart, Arrive,
         TypeInv, RequestInv, RequestTypeOK, CacheInv
<1> QED BY <1>1, <1>2, <1>3, CalmStep

LEMMA ExitKeepsCache ==
    ASSUME TypeInv, Healthy, CacheInv, NEW p \in Verifier, ExitStep(p)
    PROVE  CacheInv'
<1>1. UNCHANGED <<deskVars, visitorCache, cacheIn>>
  BY DEF ExitStep, ConsumeExit, GetExit, DeleteExit, ClaimExit, FindExit, FindByEntryCode, CheckExit,
         ClaimExitNX, LiveOut, QueueOut, redisVars, histVars
<1>2. DesksCalm
  BY <1>1 DEF DesksCalm, Issuing, deskVars
<1>3. RequestsCalm
  <2>1. CASE ClaimExit(p) \/ LiveOut(p) \/ QueueOut(p)
    BY <2>1, CalmMoves DEF ClaimExit, LiveOut, QueueOut
  <2>2. CASE CheckExit(p) \/ ClaimExitNX(p)
    BY <2>2, CalmMoves DEF CheckExit, ClaimExitNX
  <2>3. CASE FindExit(p) \/ FindByEntryCode(p)
    <3>1. "checkExit" \in ExitPC
      BY DEF ExitPC
    <3> QED BY <2>3, <3>1, CalmMoves DEF FindExit, FindByEntryCode
  <2>4. CASE ConsumeExit(p)
    <3>1. "claimExit" \in ExitPC
      BY DEF ExitPC
    <3> QED BY <2>4, <3>1, CalmMoves DEF ConsumeExit
  <2>5. ~GetExit(p) /\ ~DeleteExit(p)
    BY DEF GetExit, DeleteExit, Healthy
  <2> QED BY <2>1, <2>2, <2>3, <2>4, <2>5 DEF ExitStep
<1>4. \A t \in Token : status[t] # "absent" => status'[t] # "absent"
  <2>1. CASE QueueOut(p)
    <3>1. tok[p] \in Token /\ QueueTypeOK
      BY <2>1 DEF QueueOut, TypeInv, RequestInv, TokenPC
    <3> QED BY <2>1, <3>1, PersistKeepsRows DEF QueueOut
  <2>2. CASE ~QueueOut(p)
    BY <2>2 DEF ExitStep, ConsumeExit, GetExit, DeleteExit, ClaimExit, FindExit, FindByEntryCode,
                CheckExit, ClaimExitNX, LiveOut, rowVars
  <2> QED BY <2>1, <2>2
<1>5. Calm
  BY <1>1, <1>4 DEF Calm
<1> QED BY <1>2, <1>3, <1>5, CalmStep

LEMMA EntryKeepsCache ==
    ASSUME TypeInv, Healthy, CacheInv, NEW p \in Verifier, EntryStep(p)
    PROVE  CacheInv'
<1>1. DesksCalm
  BY DEF EntryStep, CheckEntry, ConsumeEntry, GetEntry, DeleteEntry, ClaimEntry, FindEntry,
         ClaimEntryNX, LiveIn, QueueIn, DesksCalm, Issuing, deskVars
<1>2. ASSUME UNCHANGED <<rowVars, visitorCache, cacheIn>>
      PROVE  Calm
  BY <1>2 DEF Calm, rowVars
<1>3. CASE CheckEntry(p)
  <2>1. Calm
    BY <1>2, <1>3 DEF CheckEntry, redisVars, histVars
  <2>2. RequestsCalm
    BY <1>3, CalmMoves DEF CheckEntry
  <2> QED BY <1>1, <2>1, <2>2, CalmStep
<1>4. CASE ClaimEntry(p) \/ LiveIn(p)
  <2>1. Calm
    BY <1>2, <1>4 DEF ClaimEntry, LiveIn, histVars
  <2>2. RequestsCalm
    BY <1>4, CalmMoves DEF ClaimEntry, LiveIn
  <2> QED BY <1>1, <2>1, <2>2, CalmStep
<1>5. CASE FindEntry(p)
  <2>1. Calm
    BY <1>2, <1>5 DEF FindEntry, redisVars, histVars
  <2>2. RequestsCalm
    BY <1>5, CalmMoves DEF FindEntry
  <2> QED BY <1>1, <2>1, <2>2, CalmStep
<1>6. CASE ClaimEntryNX(p)
  <2>1. Calm
    BY <1>2, <1>6 DEF ClaimEntryNX, histVars
  <2>2. via[p] = "row"
    BY <1>6 DEF ClaimEntryNX, CacheInv
  <2>3. RequestsCalm
    BY <1>6, <2>2, CalmMoves
    DEF ClaimEntryNX, RequestsCalm, Holding, Goto, TypeInv, RequestInv, RequestTypeOK, CacheInv
  <2> QED BY <1>1, <2>1, <2>3, CalmStep
\* The entry leaves the cache for the hands of one request ...
<1>7. CASE ConsumeEntry(p)
  <2> DEFINE t == Cached(visitorCache, code[p])
  <2>1. CASE t = NoToken
    <3>1. Calm
      BY <1>7 DEF ConsumeEntry, Calm, RemoveFromCache, rowVars, histVars, TypeInv, RedisTypeOK
    <3>2. RequestsCalm
      BY <1>7, <2>1, CalmMoves DEF ConsumeEntry, Healthy
    <3> QED BY <1>1, <3>1, <3>2, CalmStep
  <2>2. CASE t # NoToken
    <3>1. code[p] \in Code /\ t \in Token /\ visitorCache[code[p]] = t
      BY <1>7, <2>2 DEF ConsumeEntry, Healthy, Cached, TypeInv, RequestInv, RedisTypeOK
    <3>2. \A c \in Code : visitorCache'[c] = IF c = code[p] THEN NoToken ELSE visitorCache[c]
      BY <1>7, <2>2 DEF ConsumeEntry, Healthy, Cached, RemoveFromCache, TypeInv, RedisTypeOK
    <3>3. \A u \in Token : visitorCache'[code[p]] # u
      BY <3>1, <3>2, DistinctAssumption
    <3>4. \A q \in Verifier, u \in Token : Holding(q, u)' <=> Holding(q, u) \/ (q = p /\ u = t)
      BY <1>7, <2>2 DEF ConsumeEntry, Healthy, Take, Holding, TypeInv, RequestInv, RequestTypeOK
    <3>5. \A q \in Verifier : pc'[q] = "claimEntryNX" => via'[q] = "row"
      BY <1>7, <2>2 DEF ConsumeEntry, Healthy, Take, TypeInv, RequestInv, RequestTypeOK, CacheInv
    <3>6. UNCHANGED <<status, cacheIn>>
      BY <1>7 DEF ConsumeEntry, rowVars, histVars
    <3> HIDE DEF t, Holding, Issuing
    <3> QED BY <1>1, <3>1, <3>2, <3>3, <3>4, <3>5, <3>6 DEF CacheInv, DesksCalm
  <2> QED BY <2>1, <2>2
\* ... and is spent when that request answers.
<1>8. CASE QueueIn(p)
  <2>1. tok[p] \in Token
    BY <1>8 DEF QueueIn, TypeInv, RequestInv, TokenPC
  <2>2. \A u \in Token : status[u] # "absent" => status'[u] # "absent"
    BY <1>8, <2>1, PersistKeepsRows DEF QueueIn, TypeInv
  <2>3. RequestsCalm
    BY <1>8, CalmMoves DEF QueueIn
  <2>4. UNCHANGED visitorCache
    BY <1>8 DEF QueueIn, redisVars
  <2>5. CASE via[p] # "cache"
    <3>1. Calm
      BY <1>8, <2>2, <2>4, <2>5 DEF QueueIn, Calm
    <3> QED BY <1>1, <2>3, <3>1, CalmStep
  <2>6. CASE via[p] = "cache"
    <3>1. Holding(p, tok[p])
      BY <1>8, <2>6 DEF QueueIn, Holding
    <3>2. \A u \in Token : ~Holding(p, u)'
      BY <1>8 DEF QueueIn, Finish, Holding, TypeInv, RequestInv, RequestTypeOK
    <3>3. \A u \in Token : cacheIn'[u] = IF u = tok[p] THEN cacheIn[u] + 1 ELSE cacheIn[u]
      BY <1>8, <2>6 DEF QueueIn, TypeInv, HistoryTypeOK
    <3>4. cacheIn[tok[p]] = 0
      BY <2>1, <3>1 DEF CacheInv
    <3>5. cacheIn'[tok[p]] = 1
      BY <2>1, <3>3, <3>4
    <3> HIDE DEF Holding, Issuing
    <3> QED BY <1>1, <2>1, <2>2, <2>3, <2>4, <3>1, <3>2, <3>3, <3>5
            DEF CacheInv, DesksCalm, RequestsCalm
  <2> QED BY <2>5, <2>6
<1>9. ~GetEntry(p) /\ ~DeleteEntry(p)
  BY DEF GetEntry, DeleteEntry, Healthy
<1> QED BY <1>3, <1>4, <1>5, <1>6, <1>7, <1>8, <1>9 DEF EntryStep

\* Issuing begins for a pass without a row, hence never cached before.
LEMMA DeskStartKeepsCache ==
    ASSUME TypeInv, CacheInv, NEW i \in Desk, DeskStart(i)
    PROVE  CacheInv'
<1>1. UNCHANGED <<rowVars, redisVars, reqVars, histVars>>
  BY DEF DeskStart, DrawEntryCode, StartBookout, StartCheckout
<1>2. UNCHANGED <<status, visitorCache, cacheIn, pc, via, tok>>
  BY <1>1 DEF rowVars, redisVars, reqVars, histVars
<1>3. Calm
  BY <1>2 DEF Calm
<1>4. RequestsCalm
  BY <1>1, <1>2 DEF RequestsCalm, Holding, CacheInv
<1>5. CASE \E t \in Token : StartBookout(i, t) \/ StartCheckout(i, t)
  <2>1. DesksCalm
    BY <1>5, CalmDesks DEF StartBookout, StartCheckout
  <2> QED BY <1>3, <1>4, <2>1, CalmStep
<1>6. ASSUME NEW t \in Token, NEW c \in Code, DrawEntryCode(i, t, c)
      PROVE  CacheInv'
  <2>1. status[t] = "absent" /\ \A j \in Desk : dtok[j] # t
    BY <1>6 DEF DrawEntryCode
  <2>2. \A j \in Desk, u \in Token : Issuing(j, u)' <=> Issuing(j, u) \/ (j = i /\ u = t)
    BY <1>6 DEF DrawEntryCode, Open, Issuing, TypeInv, DeskInv, DeskTypeOK
  <2>3. \A j \in Desk : ~Issuing(j, t)
    BY <2>1 DEF Issuing
  <2>4. \A j \in Desk, u \in Token : dpc'[j] = "cachePass" /\ dtok'[j] = u
                                        => dpc[j] = "cachePass" /\ dtok[j] = u
    BY <1>6 DEF DrawEntryCode, Open, TypeInv, DeskInv, DeskTypeOK
  <2>5. \A p \in Verifier, u \in Token : Holding(p, u)' <=> Holding(p, u)
    BY <1>2 DEF Holding
  <2>6. /\ \A e \in Code : visitorCache[e] # t
        /\ \A p \in Verifier : ~Holding(p, t)
        /\ cacheIn[t] \in Nat /\ ~(cacheIn[t] > 0)
    BY <2>1 DEF CacheInv, TypeInv, HistoryTypeOK
  <2>7. cacheIn[t] = 0
    BY <2>6
  <2> HIDE DEF Holding, Issuing
  <2> QED BY <1>2, <2>2, <2>3, <2>4, <2>5, <2>6, <2>7 DEF CacheInv
<1> QED BY <1>5, <1>6 DEF DeskStart

LEMMA DeskStepKeepsCache ==
    ASSUME TypeInv, CacheInv, NEW i \in Desk, DeskStep(i)
    PROVE  CacheInv'
<1>0. UNCHANGED reqVars /\ UNCHANGED cacheIn
  BY DEF DeskStep, InsertPass, CachePass, SetBookout, CacheBookout, DeskLive, DeskQueue, DeskForget,
         DeskForgetAgain, NoCodeFree, DrawBookoutCode, histVars
<1>1. RequestsCalm
  BY <1>0 DEF RequestsCalm, Holding, CacheInv, reqVars
<1>2. \A p \in Verifier, t \in Token : Holding(p, t)' <=> Holding(p, t)
  BY <1>0 DEF Holding, reqVars
\* Inserting makes the row ...
<1>3. CASE InsertPass(i)
  <2>1. dtok[i] \in Token /\ Issuing(i, dtok[i])
    BY <1>3 DEF InsertPass, Issuing, TypeInv, DeskInv
  <2>2. \A t \in Token : status'[t] = IF t = dtok[i] THEN "pending" ELSE status[t]
    BY <1>3 DEF InsertPass, TypeInv, QueueTypeOK
  <2>3. UNCHANGED visitorCache
    BY <1>3 DEF InsertPass, redisVars
  <2>4. \A j \in Desk, t \in Token : Issuing(j, t)' <=> Issuing(j, t)
    BY <1>3 DEF InsertPass, DeskGoto, Issuing, TypeInv, DeskInv, DeskTypeOK
  <2>5. \A j \in Desk, t \in Token : dpc'[j] = "cachePass" /\ dtok'[j] = t
            => (dpc[j] = "cachePass" /\ dtok[j] = t) \/ t = dtok[i]
    BY <1>3 DEF InsertPass, DeskGoto, TypeInv, DeskInv, DeskTypeOK
  <2>6. \A p \in Verifier : pc'[p] = "claimEntryNX" => via'[p] = "row"
    BY <1>1 DEF RequestsCalm
  <2> HIDE DEF Holding, Issuing
  <2> QED BY <1>0, <1>2, <2>1, <2>2, <2>3, <2>4, <2>5, <2>6 DEF CacheInv
\* ... and caching the pass ends its issuing.
<1>4. CASE CachePass(i)
  <2> DEFINE t == dtok[i]
  <2>1. t \in Token /\ Issuing(i, t) /\ dpc[i] = "cachePass"
    BY <1>4 DEF CachePass, Issuing, TypeInv, DeskInv
  <2>2. UNCHANGED status
    BY <1>4 DEF CachePass, rowVars
  <2>3. status[t] # "absent"
    BY <2>1 DEF CacheInv
  <2>4. \A j \in Desk, u \in Token : Issuing(j, u)' <=> Issuing(j, u) /\ j # i
    BY <1>4 DEF CachePass, Close, Issuing, TypeInv, DeskInv, DeskTypeOK
  <2>5. \A j \in Desk, u \in Token : dpc'[j] = "cachePass" /\ dtok'[j] = u
                                        => dpc[j] = "cachePass" /\ dtok[j] = u
    BY <1>4 DEF CachePass, Close, TypeInv, DeskInv, DeskTypeOK
  <2>6. \A c \in Code : \/ visitorCache'[c] = visitorCache[c]
                        \/ visitorCache'[c] = t /\ c = dcode[i]
    BY <1>4 DEF CachePass, PutInCache, TypeInv, RedisTypeOK
  <2>7. \A p \in Verifier : pc'[p] = "claimEntryNX" => via'[p] = "row"
    BY <1>1 DEF RequestsCalm
  <2> HIDE DEF t, Holding, Issuing
  <2> QED BY <1>0, <1>2, <2>1, <2>2, <2>3, <2>4, <2>5, <2>6, <2>7 DEF CacheInv
<1>5. CASE ~InsertPass(i) /\ ~CachePass(i)
  <2>1. UNCHANGED visitorCache
    BY <1>5 DEF DeskStep, SetBookout, CacheBookout, DeskLive, DeskQueue, DeskForget, DeskForgetAgain, NoCodeFree,
                DrawBookoutCode, redisVars
  <2>2. \A t \in Token : status[t] # "absent" => status'[t] # "absent"
    <3>1. CASE DeskQueue(i)
      <4>1. dtok[i] \in Token /\ QueueTypeOK
        BY <3>1 DEF DeskQueue, TypeInv, DeskInv
      <4> QED BY <3>1, <4>1, PersistKeepsRows DEF DeskQueue
    <3>2. CASE ~DeskQueue(i)
      BY <1>5, <3>2 DEF DeskStep, SetBookout, CacheBookout, DeskLive, DeskForget, DeskForgetAgain, NoCodeFree,
                        DrawBookoutCode, rowVars
    <3> QED BY <3>1, <3>2
  <2>3. Calm
    BY <1>0, <2>1, <2>2 DEF Calm
  <2>4. DesksCalm
    <3>1. CASE \E c \in Code : DrawBookoutCode(i, c)
      BY <3>1 DEF DrawBookoutCode, DesksCalm, Issuing, TypeInv, DeskInv, DeskTypeOK
    <3>2. CASE \/ SetBookout(i) \/ CacheBookout(i) \/ DeskLive(i) \/ DeskQueue(i)
               \/ DeskForget(i) \/ DeskForgetAgain(i) \/ NoCodeFree(i)
      BY <3>2, CalmDesks DEF SetBookout, CacheBookout, DeskLive, DeskQueue, DeskForget, DeskForgetAgain, NoCodeFree
    <3> QED BY <1>5, <3>1, <3>2 DEF DeskStep
  <2> QED BY <1>1, <2>3, <2>4, CalmStep
<1> QED BY <1>3, <1>4, <1>5

\* Time, maintenance, crashes, the worker and the network only take away.
LEMMA EnvironmentKeepsCache ==
    ASSUME TypeInv, CacheInv,
           \/ Expiry \/ CleanupExpiredTokens \/ ApiCrash \/ WorkerStep \/ NetworkStep
           \/ UNCHANGED vars
    PROVE  CacheInv'
<1>1. \A t \in Token : status[t] # "absent" => status'[t] # "absent"
  <2>1. CASE WorkerStep
    BY <2>1, DrainKeepsRows DEF WorkerStep, TypeInv
  <2>2. CASE CleanupExpiredTokens
    BY <2>2 DEF CleanupExpiredTokens, StalePasses
  <2>3. CASE Expiry
    BY <2>3 DEF Expiry, VisitorCacheExpires, BookoutCacheExpires, ClaimExpires, PassExpires,
                BookoutExpires, LiveExpires, rowVars
  <2>4. CASE ApiCrash \/ NetworkStep \/ UNCHANGED vars
    BY <2>4 DEF ApiCrash, NetworkStep, vars, rowVars
  <2> QED BY <2>1, <2>2, <2>3, <2>4
<1>2. UNCHANGED cacheIn
  BY DEF Expiry, VisitorCacheExpires, BookoutCacheExpires, ClaimExpires, PassExpires, BookoutExpires,
         LiveExpires, CleanupExpiredTokens, ApiCrash, WorkerStep, NetworkStep, vars, histVars
<1>3. \A c \in Code : visitorCache'[c] \in {visitorCache[c], NoToken}
  <2>1. CASE Expiry
    BY <2>1 DEF Expiry, VisitorCacheExpires, BookoutCacheExpires, ClaimExpires, PassExpires,
                BookoutExpires, LiveExpires, redisVars, TypeInv, RedisTypeOK
  <2>2. CASE ~Expiry
    BY <2>2 DEF CleanupExpiredTokens, ApiCrash, WorkerStep, NetworkStep, vars, redisVars
  <2> QED BY <2>1, <2>2
<1>4. CASE ApiCrash
  <2>1. RequestsCalm /\ DesksCalm
    BY <1>4 DEF ApiCrash, RequestsCalm, DesksCalm, Holding, Issuing
  <2> QED BY <1>1, <1>2, <1>3, <2>1, CalmStep DEF Calm
<1>5. CASE ~ApiCrash
  <2>1. UNCHANGED <<reqVars, deskVars>>
    BY <1>5 DEF Expiry, VisitorCacheExpires, BookoutCacheExpires, ClaimExpires, PassExpires,
                BookoutExpires, LiveExpires, CleanupExpiredTokens, WorkerStep, NetworkStep, vars
  <2>2. RequestsCalm /\ DesksCalm
    BY <2>1 DEF RequestsCalm, DesksCalm, Holding, Issuing, CacheInv, reqVars, deskVars
  <2> QED BY <1>1, <1>2, <1>3, <2>2, CalmStep DEF Calm
<1> QED BY <1>4, <1>5

\* Redis answers until an outage.
LEMMA HealthyStays ==
    ASSUME TypeInv, Healthy, [Next]_vars, outages' = outages
    PROVE  Healthy'
<1>0. outages \in Nat /\ pc \in [Verifier -> {"idle"} \cup EntryPC \cup ExitPC]
  BY BudgetAssumption DEF TypeInv, QueueTypeOK, RequestInv, RequestTypeOK
<1>1. CASE \E p \in Verifier : RequestStart(p)
  BY <1>0, <1>1 DEF RequestStart, Arrive, Healthy, netVars
<1>2. CASE \E p \in Verifier : ExitStep(p)
  <2>1. PICK p \in Verifier : ExitStep(p)
    BY <1>2
  <2>2. UNCHANGED redisUp
    BY <2>1 DEF ExitStep, ConsumeExit, GetExit, DeleteExit, ClaimExit, FindExit, FindByEntryCode,
                CheckExit, ClaimExitNX, LiveOut, QueueOut, netVars
  <2>3. pc'[p] \notin {"getEntry", "deleteEntry", "getExit", "deleteExit"}
        /\ \A q \in Verifier \ {p} : pc'[q] = pc[q]
    BY <1>0, <2>1 DEF ExitStep, ConsumeExit, GetExit, DeleteExit, ClaimExit, FindExit,
                FindByEntryCode, CheckExit, ClaimExitNX, LiveOut, QueueOut, Goto, Take, Finish, Healthy
  <2> QED BY <2>2, <2>3 DEF Healthy
<1>3. CASE \E p \in Verifier : EntryStep(p)
  <2>1. PICK p \in Verifier : EntryStep(p)
    BY <1>3
  <2>2. UNCHANGED redisUp
    BY <2>1 DEF EntryStep, CheckEntry, ConsumeEntry, GetEntry, DeleteEntry, ClaimEntry, FindEntry,
                ClaimEntryNX, LiveIn, QueueIn, netVars
  <2>3. pc'[p] \notin {"getEntry", "deleteEntry", "getExit", "deleteExit"}
        /\ \A q \in Verifier \ {p} : pc'[q] = pc[q]
    BY <1>0, <2>1 DEF EntryStep, CheckEntry, ConsumeEntry, GetEntry, DeleteEntry, ClaimEntry,
                FindEntry, ClaimEntryNX, LiveIn, QueueIn, Goto, Take, Finish, Healthy
  <2> QED BY <2>2, <2>3 DEF Healthy
<1>4. CASE \E i \in Desk : DeskStart(i) \/ DeskStep(i)
  <2>1. UNCHANGED netVars /\ UNCHANGED reqVars
    BY <1>4 DEF DeskStart, DrawEntryCode, StartBookout, StartCheckout, DeskStep, InsertPass,
                CachePass, SetBookout, CacheBookout, DeskLive, DeskQueue, DeskForget,
                DeskForgetAgain, NoCodeFree, DrawBookoutCode
  <2> QED BY <2>1 DEF Healthy, netVars, reqVars
<1>5. CASE Expiry \/ CleanupExpiredTokens \/ WorkerStep \/ UNCHANGED vars
  <2>1. UNCHANGED netVars /\ UNCHANGED reqVars
    BY <1>5 DEF Expiry, VisitorCacheExpires, BookoutCacheExpires, ClaimExpires, PassExpires,
                BookoutExpires, LiveExpires, CleanupExpiredTokens, WorkerStep, vars
  <2> QED BY <2>1 DEF Healthy, netVars, reqVars
<1>6. CASE ApiCrash
  BY <1>6 DEF ApiCrash, Healthy, netVars
<1>7. CASE NetworkStep
  BY <1>0, <1>7 DEF NetworkStep, RedisOutage, RedisRecovery, Healthy, reqVars
<1> QED BY <1>1, <1>2, <1>3, <1>4, <1>5, <1>6, <1>7 DEF Next

LEMMA NextKeepsCache ==
    ASSUME TypeInv, Healthy, CacheInv, [Next]_vars
    PROVE  CacheInv'
BY BeginKeepsCache, ExitKeepsCache, EntryKeepsCache, DeskStartKeepsCache, DeskStepKeepsCache,
   EnvironmentKeepsCache
DEF Next

-----------------------------------------------------------------------------
(* The row of a pass. *)

\* Request p won the claim after reading row t, and has not answered yet.
Winning(p, t) == pc[p] \in {"liveIn", "queueIn"} /\ via[p] = "row" /\ tok[p] = t

\* The row of t has let its visitor in, or is about to.
Spent(t) == rowIn[t] > 0 \/ \E p \in Verifier : Winning(p, t)

RowInv ==
    /\ \A t \in Token : rowIn[t] <= 1
    /\ \A p \in Verifier, t \in Token : Winning(p, t) => rowIn[t] = 0
    /\ \A p, q \in Verifier, t \in Token : Winning(p, t) /\ Winning(q, t) => p = q
    \* The claim outlives the row's validity, and every request that read the row.
    /\ \A t \in Token : Spent(t) => entryCode[t] \in Code /\ (entryCode[t] \in claimed \/ expired[t])
    /\ \A p \in Verifier, t \in Token : pc[p] = "claimEntryNX" /\ tok[p] = t =>
           /\ entryCode[t] = code[p]
           /\ Spent(t) => code[p] \in claimed
    \* A row keeps the code it was inserted with.
    /\ \A t \in Token : entryCode[t] # NoCode => status[t] # "absent"
    /\ \A i \in Desk, t \in Token : dpc[i] = "insert" /\ dtok[i] = t => entryCode[t] = NoCode
    \* The path without the deciding claim is the cache's.
    /\ \A p \in Verifier : pc[p] = "claimEntry" => via[p] = "cache"

-----------------------------------------------------------------------------
\* No row loses its code, its place or its expiry, and no claim is withdrawn.
RowsCalm ==
    /\ \A t \in Token : status[t] # "absent" => status'[t] # "absent"
    /\ \A t \in Token : expired[t] => expired'[t]
    /\ claimed \subseteq claimed'
    /\ entryCode' = entryCode
    /\ rowIn' = rowIn

\* No request reads a row or wins a claim on one.
ReadersCalm ==
    \A p \in Verifier :
        /\ \A t \in Token : Winning(p, t)' => Winning(p, t)
        /\ pc'[p] = "claimEntryNX" => pc[p] = "claimEntryNX" /\ tok'[p] = tok[p] /\ code'[p] = code[p]
        /\ pc'[p] = "claimEntry" => via'[p] = "cache"

\* No pass is drawn.
DrawersCalm ==
    \A i \in Desk, t \in Token : dpc'[i] = "insert" /\ dtok'[i] = t => dpc[i] = "insert" /\ dtok[i] = t

LEMMA CalmRowStep ==
    ASSUME TypeInv, RowInv, RowsCalm, ReadersCalm, DrawersCalm
    PROVE  RowInv'
<1>1. \A t \in Token : Spent(t)' => Spent(t)
  BY DEF RowsCalm, ReadersCalm, Spent
<1>2. \A t \in Token : rowIn'[t] = rowIn[t] /\ entryCode'[t] = entryCode[t]
  BY DEF RowsCalm
<1> HIDE DEF Winning, Spent
<1> QED BY <1>1, <1>2 DEF RowInv, RowsCalm, ReadersCalm, DrawersCalm

\* The moves of a request that win nothing.
LEMMA CalmReaders ==
    ASSUME TypeInv, RowInv, NEW p \in Verifier
    PROVE  /\ UNCHANGED reqVars => ReadersCalm
           /\ Finish(p) => ReadersCalm
           /\ \A l : Goto(p, l) /\ l \notin {"claimEntry", "liveIn", "queueIn", "claimEntryNX"}
                  => ReadersCalm
           /\ Goto(p, "queueIn") /\ pc[p] = "liveIn" => ReadersCalm
           /\ Goto(p, "liveIn") /\ pc[p] = "claimEntry" => ReadersCalm
           /\ \A t, v, l : Take(p, t, v, l) /\ l \in ExitPC => ReadersCalm
           /\ \A t : Take(p, t, "cache", "claimEntry") => ReadersCalm
<1>0. /\ pc \in [Verifier -> {"idle"} \cup EntryPC \cup ExitPC]
      /\ code \in [Verifier -> Code \cup {NoCode}]
      /\ tok \in [Verifier -> Token \cup {NoToken}]
      /\ via \in [Verifier -> {"none", "cache", "row", "entryCode"}]
      /\ \A q \in Verifier : pc[q] = "claimEntry" => via[q] = "cache"
  BY DEF TypeInv, RequestInv, RequestTypeOK, RowInv
<1>1. UNCHANGED reqVars => ReadersCalm
  BY <1>0 DEF ReadersCalm, Winning, reqVars
<1>2. Finish(p) => ReadersCalm
  BY <1>0 DEF ReadersCalm, Winning, Finish
<1>3. ASSUME NEW l, Goto(p, l)
      PROVE  /\ l \notin {"claimEntry", "liveIn", "queueIn", "claimEntryNX"} => ReadersCalm
             /\ l = "queueIn" /\ pc[p] = "liveIn" => ReadersCalm
             /\ l = "liveIn" /\ pc[p] = "claimEntry" => ReadersCalm
  BY <1>0, <1>3 DEF ReadersCalm, Winning, Goto
<1>4. ASSUME NEW t, NEW v, NEW l, Take(p, t, v, l)
      PROVE  /\ l \in ExitPC => ReadersCalm
             /\ v = "cache" /\ l = "claimEntry" => ReadersCalm
  BY <1>0, <1>4 DEF ReadersCalm, Winning, Take, ExitPC
<1> QED BY <1>1, <1>2, <1>3, <1>4

LEMMA CalmDrawers ==
    ASSUME NEW i \in Desk, TypeInv
    PROVE  /\ UNCHANGED deskVars => DrawersCalm
           /\ Close(i) => DrawersCalm
           /\ \A l : DeskGoto(i, l) /\ l # "insert" => DrawersCalm
           /\ \A t, c, l : Open(i, t, c, l) /\ l # "insert" => DrawersCalm
BY DEF DrawersCalm, Close, DeskGoto, Open, TypeInv, DeskInv, DeskTypeOK, deskVars

LEMMA ClaimsGrow ==
    ASSUME NEW c
    PROVE  claimed \subseteq AfterClaim(c)
BY DEF AfterClaim

LEMMA RowInit == Init => RowInv
BY DistinctAssumption DEF Init, RowInv, Spent, Winning

LEMMA BeginKeepsRow ==
    ASSUME TypeInv, RowInv, NEW p \in Verifier, RequestStart(p)
    PROVE  RowInv'
<1>1. RowsCalm
  BY DEF RowsCalm, RequestStart, Arrive, rowVars, rowMore, redisVars, histVars
<1>2. DrawersCalm
  BY DEF DrawersCalm, RequestStart, Arrive, deskVars
<1>3. ReadersCalm
  BY DEF ReadersCalm, Winning, RequestStart, Arrive, TypeInv, RequestInv, RequestTypeOK, RowInv
<1> QED BY <1>1, <1>2, <1>3, CalmRowStep

LEMMA ExitKeepsRow ==
    ASSUME TypeInv, Healthy, RowInv, NEW p \in Verifier, ExitStep(p)
    PROVE  RowInv'
<1>1. UNCHANGED <<deskVars, rowMore, rowIn>> /\ claimed \subseteq claimed'
  BY ClaimsGrow
  DEF ExitStep, ConsumeExit, GetExit, DeleteExit, ClaimExit, FindExit, FindByEntryCode, CheckExit,
      ClaimExitNX, LiveOut, QueueOut, redisVars, histVars
<1>2. DrawersCalm
  BY <1>1 DEF DrawersCalm, deskVars
<1>3. ReadersCalm
  <2>1. CASE ClaimExit(p) \/ LiveOut(p) \/ QueueOut(p)
    BY <2>1, CalmReaders DEF ClaimExit, LiveOut, QueueOut
  <2>2. CASE CheckExit(p) \/ ClaimExitNX(p)
    BY <2>2, CalmReaders DEF CheckExit, ClaimExitNX
  <2>3. CASE FindExit(p) \/ FindByEntryCode(p)
    <3>1. "checkExit" \in ExitPC
      BY DEF ExitPC
    <3> QED BY <2>3, <3>1, CalmReaders DEF FindExit, FindByEntryCode
  <2>4. CASE ConsumeExit(p)
    <3>1. "claimExit" \in ExitPC
      BY DEF ExitPC
    <3> QED BY <2>4, <3>1, CalmReaders DEF ConsumeExit
  <2>5. ~GetExit(p) /\ ~DeleteExit(p)
    BY DEF GetExit, DeleteExit, Healthy
  <2> QED BY <2>1, <2>2, <2>3, <2>4, <2>5 DEF ExitStep
<1>4. \A t \in Token : status[t] # "absent" => status'[t] # "absent"
  <2>1. CASE QueueOut(p)
    <3>1. tok[p] \in Token /\ QueueTypeOK
      BY <2>1 DEF QueueOut, TypeInv, RequestInv, TokenPC
    <3> QED BY <2>1, <3>1, PersistKeepsRows DEF QueueOut
  <2>2. CASE ~QueueOut(p)
    BY <2>2 DEF ExitStep, ConsumeExit, GetExit, DeleteExit, ClaimExit, FindExit, FindByEntryCode,
                CheckExit, ClaimExitNX, LiveOut, rowVars
  <2> QED BY <2>1, <2>2
<1>5. RowsCalm
  BY <1>1, <1>4 DEF RowsCalm, rowMore
<1> QED BY <1>2, <1>3, <1>5, CalmRowStep

LEMMA EntryKeepsRow ==
    ASSUME TypeInv, Healthy, RowInv, CacheInv, NEW p \in Verifier, EntryStep(p)
    PROVE  RowInv'
<1>1. DrawersCalm
  BY DEF EntryStep, CheckEntry, ConsumeEntry, GetEntry, DeleteEntry, ClaimEntry, FindEntry,
         ClaimEntryNX, LiveIn, QueueIn, DrawersCalm, deskVars
<1>2. UNCHANGED rowMore /\ claimed \subseteq claimed'
  BY ClaimsGrow
  DEF EntryStep, CheckEntry, ConsumeEntry, GetEntry, DeleteEntry, ClaimEntry, FindEntry,
      ClaimEntryNX, LiveIn, QueueIn, redisVars
<1>3. ASSUME UNCHANGED <<rowVars, rowIn>>
      PROVE  RowsCalm
  BY <1>2, <1>3 DEF RowsCalm, rowVars, rowMore
<1>4. CASE CheckEntry(p) \/ ConsumeEntry(p) \/ ClaimEntry(p) \/ LiveIn(p)
  <2>1. RowsCalm
    BY <1>3, <1>4 DEF CheckEntry, ConsumeEntry, ClaimEntry, LiveIn, histVars
  <2>2. ReadersCalm
    BY <1>4, CalmReaders DEF CheckEntry, ConsumeEntry, ClaimEntry, LiveIn, Healthy
  <2> QED BY <1>1, <2>1, <2>2, CalmRowStep
\* A request that reads the row of a spent pass finds its code claimed.
<1>5. CASE FindEntry(p)
  <2>1. UNCHANGED <<rowVars, rowMore, redisVars, deskVars, histVars>>
    BY <1>5 DEF FindEntry
  <2>2. CASE Finish(p)
    BY <1>1, <1>3, <2>1, <2>2, CalmReaders, CalmRowStep DEF histVars
  <2>3. CASE ~Finish(p)
    <3>1. PICK t \in Token : t \in EntryRows(code[p]) /\ Take(p, t, "row", "claimEntryNX")
      BY <1>5, <2>3 DEF FindEntry, EntryRows
    <3>2. entryCode[t] = code[p] /\ ~expired[t] /\ code[p] \in Code
      BY <1>5, <3>1 DEF EntryRows, FindEntry, TypeInv, RequestInv
    <3>3. Spent(t) => code[p] \in claimed
      BY <3>2 DEF RowInv
    <3>4. /\ pc'[p] = "claimEntryNX" /\ tok'[p] = t /\ code' = code
          /\ \A q \in Verifier \ {p} : pc'[q] = pc[q] /\ tok'[q] = tok[q] /\ via'[q] = via[q]
      BY <3>1 DEF Take, TypeInv, RequestInv, RequestTypeOK
    <3>5. \A q \in Verifier, u \in Token : Winning(q, u)' <=> Winning(q, u)
      BY <1>5, <3>4 DEF Winning, FindEntry
    <3>6. UNCHANGED <<rowIn, entryCode, claimed, expired, status, dpc, dtok>>
      BY <2>1 DEF rowVars, rowMore, redisVars, deskVars, histVars
    <3>7. \A u \in Token : Spent(u)' <=> Spent(u)
      BY <3>5, <3>6 DEF Spent
    <3> HIDE DEF Winning, Spent
    <3> QED BY <3>2, <3>3, <3>4, <3>5, <3>6, <3>7 DEF RowInv
  <2> QED BY <2>2, <2>3
\* The claim it then wins is the first one.
<1>6. CASE ClaimEntryNX(p)
  <2>1. UNCHANGED <<rowVars, rowMore, deskVars, histVars>>
    BY <1>6 DEF ClaimEntryNX
  <2>2. CASE Finish(p)
    BY <1>1, <1>3, <2>1, <2>2, CalmReaders, CalmRowStep DEF histVars
  <2>3. CASE ~Finish(p)
    <3> DEFINE t == tok[p]
    <3>1. Goto(p, "liveIn") /\ code[p] \notin claimed /\ claimed' = claimed \cup {code[p]}
      BY <1>6, <2>3 DEF ClaimEntryNX, ClaimWon, AfterClaim, Healthy
    <3>2. t \in Token /\ code[p] \in Code /\ entryCode[t] = code[p] /\ ~Spent(t)
      BY <1>6, <3>1 DEF ClaimEntryNX, RowInv, TypeInv, RequestInv, TokenPC
    <3>3. rowIn[t] = 0 /\ \A q \in Verifier : ~Winning(q, t)
      BY <3>2 DEF Spent, TypeInv, HistoryTypeOK
    <3>4. /\ pc'[p] = "liveIn" /\ UNCHANGED <<tok, via, code>>
          /\ \A q \in Verifier \ {p} : pc'[q] = pc[q]
      BY <3>1 DEF Goto, TypeInv, RequestInv, RequestTypeOK
    <3>5. \A q \in Verifier, u \in Token : Winning(q, u)' => Winning(q, u) \/ (q = p /\ u = t)
      BY <3>4 DEF Winning
    <3>6. UNCHANGED <<rowIn, entryCode, expired, status, dpc, dtok>>
      BY <2>1 DEF rowVars, rowMore, deskVars, histVars
    <3>7. \A u \in Token : Spent(u)' => Spent(u) \/ u = t
      BY <3>5, <3>6 DEF Spent
    <3>8. \A q \in Verifier : /\ pc'[q] = "claimEntryNX" => pc[q] = "claimEntryNX"
                              /\ pc'[q] = "claimEntry" => pc[q] = "claimEntry"
      BY <3>4
    <3> HIDE DEF t, Winning, Spent
    <3> QED BY <3>1, <3>2, <3>3, <3>4, <3>5, <3>6, <3>7, <3>8 DEF RowInv
  <2> QED BY <2>2, <2>3
<1>7. CASE QueueIn(p)
  <2>1. tok[p] \in Token
    BY <1>7 DEF QueueIn, TypeInv, RequestInv, TokenPC
  <2>2. \A u \in Token : status[u] # "absent" => status'[u] # "absent"
    BY <1>7, <2>1, PersistKeepsRows DEF QueueIn, TypeInv
  <2>3. ReadersCalm
    BY <1>7, CalmReaders DEF QueueIn
  <2>4. CASE via[p] # "row"
    <3>1. RowsCalm
      BY <1>2, <1>7, <2>2, <2>4 DEF QueueIn, RowsCalm, rowMore
    <3> QED BY <1>1, <2>3, <3>1, CalmRowStep
  <2>5. CASE via[p] = "row"
    <3>1. Winning(p, tok[p])
      BY <1>7, <2>5 DEF QueueIn, Winning
    <3>2. \A u \in Token : ~Winning(p, u)'
      BY <1>7 DEF QueueIn, Finish, Winning, TypeInv, RequestInv, RequestTypeOK
    <3>3. \A u \in Token : rowIn'[u] = IF u = tok[p] THEN rowIn[u] + 1 ELSE rowIn[u]
      BY <1>7, <2>5 DEF QueueIn, TypeInv, HistoryTypeOK
    <3>4. rowIn[tok[p]] = 0
      BY <2>1, <3>1 DEF RowInv
    <3>5. rowIn'[tok[p]] = 1
      BY <2>1, <3>3, <3>4
    <3>6. \A u \in Token : Spent(u)' => Spent(u)
      BY <2>1, <2>3, <3>1, <3>3 DEF Spent, ReadersCalm
    <3>7. UNCHANGED <<entryCode, expired, claimed>>
      BY <1>7 DEF QueueIn, rowMore, redisVars
    <3> HIDE DEF Winning, Spent
    <3> QED BY <1>1, <2>1, <2>2, <2>3, <3>1, <3>2, <3>3, <3>5, <3>6, <3>7
            DEF RowInv, DrawersCalm, ReadersCalm
  <2> QED BY <2>4, <2>5
<1>8. ~GetEntry(p) /\ ~DeleteEntry(p)
  BY DEF GetEntry, DeleteEntry, Healthy
<1> QED BY <1>4, <1>5, <1>6, <1>7, <1>8 DEF EntryStep

\* A pass is drawn for a token without a row, so without a code.
LEMMA DeskStartKeepsRow ==
    ASSUME TypeInv, RowInv, NEW i \in Desk, DeskStart(i)
    PROVE  RowInv'
<1>1. UNCHANGED <<rowVars, rowMore, redisVars, reqVars, histVars>>
  BY DEF DeskStart, DrawEntryCode, StartBookout, StartCheckout
<1>2. UNCHANGED <<status, entryCode, expired, claimed, rowIn, pc, code, via, tok>>
  BY <1>1 DEF rowVars, rowMore, redisVars, reqVars, histVars
<1>3. CASE \E t \in Token : StartBookout(i, t) \/ StartCheckout(i, t)
  <2>1. DrawersCalm
    BY <1>3, CalmDrawers DEF StartBookout, StartCheckout
  <2>2. RowsCalm /\ ReadersCalm
    BY <1>2 DEF RowsCalm, ReadersCalm, Winning, RowInv
  <2> QED BY <2>1, <2>2, CalmRowStep
<1>4. ASSUME NEW t \in Token, NEW c \in Code, DrawEntryCode(i, t, c)
      PROVE  RowInv'
  <2>1. status[t] = "absent"
    BY <1>4 DEF DrawEntryCode
  <2>2. entryCode[t] = NoCode
    BY <2>1 DEF RowInv
  <2>3. \A j \in Desk, u \in Token : dpc'[j] = "insert" /\ dtok'[j] = u
                                        => (dpc[j] = "insert" /\ dtok[j] = u) \/ u = t
    BY <1>4 DEF DrawEntryCode, Open, TypeInv, DeskInv, DeskTypeOK
  <2>4. \A p \in Verifier, u \in Token : Winning(p, u)' <=> Winning(p, u)
    BY <1>2 DEF Winning
  <2>5. \A u \in Token : Spent(u)' <=> Spent(u)
    BY <1>2, <2>4 DEF Spent
  <2> HIDE DEF Winning, Spent
  <2> QED BY <1>2, <2>2, <2>3, <2>4, <2>5 DEF RowInv
<1> QED BY <1>3, <1>4 DEF DeskStart

LEMMA DeskStepKeepsRow ==
    ASSUME TypeInv, CacheInv, RowInv, NEW i \in Desk, DeskStep(i)
    PROVE  RowInv'
<1>1. UNCHANGED reqVars /\ UNCHANGED rowIn
  BY DEF DeskStep, InsertPass, CachePass, SetBookout, CacheBookout, DeskLive, DeskQueue, DeskForget,
         DeskForgetAgain, NoCodeFree, DrawBookoutCode, histVars
<1>2. UNCHANGED <<claimed, expired>>
  BY DEF DeskStep, InsertPass, CachePass, SetBookout, CacheBookout, DeskLive, DeskQueue, DeskForget,
         DeskForgetAgain, NoCodeFree, DrawBookoutCode, redisVars, rowMore
<1>3. ReadersCalm
  BY <1>1 DEF ReadersCalm, Winning, RowInv, reqVars
\* A row is inserted where there was none, for a pass nobody has used.
<1>4. CASE InsertPass(i)
  <2> DEFINE t == dtok[i]
  <2>1. t \in Token /\ entryCode[t] = NoCode /\ Issuing(i, t)
    BY <1>4 DEF InsertPass, TypeInv, DeskInv, RowInv, Issuing
  <2>2. ~Spent(t) /\ \A p \in Verifier : pc[p] = "claimEntryNX" => tok[p] # t
    BY <2>1, DistinctAssumption DEF RowInv, TypeInv, RequestInv
  <2>3. /\ \A u \in Token : u # t => entryCode'[u] = entryCode[u] /\ status'[u] = status[u]
        /\ status'[t] = "pending"
    BY <1>4, <2>1 DEF InsertPass, TypeInv, QueueTypeOK, RowTypeOK
  <2>4. \A j \in Desk, u \in Token : dpc'[j] = "insert" /\ dtok'[j] = u
                                        => dpc[j] = "insert" /\ dtok[j] = u /\ u # t
    BY <1>4, <2>1 DEF InsertPass, DeskGoto, Issuing, CacheInv, TypeInv, DeskInv, DeskTypeOK
  <2>5. UNCHANGED <<pc, code, tok, via>>
    BY <1>1 DEF reqVars
  <2>6. \A p \in Verifier, u \in Token : Winning(p, u)' <=> Winning(p, u)
    BY <2>5 DEF Winning
  <2>7. \A u \in Token : Spent(u)' <=> Spent(u)
    BY <1>1, <2>6 DEF Spent
  <2> HIDE DEF t, Winning, Spent
  <2> QED BY <1>1, <1>2, <2>2, <2>3, <2>4, <2>5, <2>6, <2>7 DEF RowInv
<1>5. CASE ~InsertPass(i)
  <2>1. UNCHANGED entryCode
    BY <1>5 DEF DeskStep, CachePass, SetBookout, CacheBookout, DeskLive, DeskQueue, DeskForget,
                DeskForgetAgain, NoCodeFree, DrawBookoutCode, rowMore
  <2>2. \A t \in Token : status[t] # "absent" => status'[t] # "absent"
    <3>1. CASE DeskQueue(i)
      <4>1. dtok[i] \in Token /\ QueueTypeOK
        BY <3>1 DEF DeskQueue, TypeInv, DeskInv
      <4> QED BY <3>1, <4>1, PersistKeepsRows DEF DeskQueue
    <3>2. CASE ~DeskQueue(i)
      BY <1>5, <3>2 DEF DeskStep, CachePass, SetBookout, CacheBookout, DeskLive, DeskForget,
                        DeskForgetAgain, NoCodeFree, DrawBookoutCode, rowVars
    <3> QED BY <3>1, <3>2
  <2>3. RowsCalm
    BY <1>1, <1>2, <2>1, <2>2 DEF RowsCalm
  <2>4. DrawersCalm
    <3>1. CASE \E c \in Code : DrawBookoutCode(i, c)
      BY <3>1 DEF DrawBookoutCode, DrawersCalm, TypeInv, DeskInv, DeskTypeOK
    <3>2. CASE \/ CachePass(i) \/ SetBookout(i) \/ CacheBookout(i) \/ DeskLive(i)
               \/ DeskQueue(i) \/ DeskForget(i) \/ DeskForgetAgain(i) \/ NoCodeFree(i)
      BY <3>2, CalmDrawers
      DEF CachePass, SetBookout, CacheBookout, DeskLive, DeskQueue, DeskForget, DeskForgetAgain, NoCodeFree
    <3> QED BY <1>5, <3>1, <3>2 DEF DeskStep
  <2> QED BY <1>3, <2>3, <2>4, CalmRowStep
<1> QED BY <1>4, <1>5

\* Time withdraws a claim only when nothing that needs it is left.
LEMMA EnvironmentKeepsRow ==
    ASSUME TypeInv, RowInv,
           \/ Expiry \/ CleanupExpiredTokens \/ ApiCrash \/ WorkerStep \/ NetworkStep
           \/ UNCHANGED vars
    PROVE  RowInv'
<1>1. \A t \in Token : status[t] # "absent" => status'[t] # "absent"
  <2>1. CASE WorkerStep
    BY <2>1, DrainKeepsRows DEF WorkerStep, TypeInv
  <2>2. CASE CleanupExpiredTokens
    BY <2>2 DEF CleanupExpiredTokens, StalePasses
  <2>3. CASE Expiry
    BY <2>3 DEF Expiry, VisitorCacheExpires, BookoutCacheExpires, ClaimExpires, PassExpires,
                BookoutExpires, LiveExpires, rowVars
  <2>4. CASE ApiCrash \/ NetworkStep \/ UNCHANGED vars
    BY <2>4 DEF ApiCrash, NetworkStep, vars, rowVars
  <2> QED BY <2>1, <2>2, <2>3, <2>4
<1>2. UNCHANGED <<rowIn, entryCode>>
  BY DEF Expiry, VisitorCacheExpires, BookoutCacheExpires, ClaimExpires, PassExpires, BookoutExpires,
         LiveExpires, CleanupExpiredTokens, ApiCrash, WorkerStep, NetworkStep, vars, histVars, rowMore
<1>3. CASE \E c \in Code : ClaimExpires(c)
  <2>1. PICK c \in Code : ClaimExpires(c)
    BY <1>3
  <2>2. /\ \A t \in Token : entryCode[t] = c => expired[t]
        /\ \A p \in Verifier : code[p] # c
        /\ claimed' = claimed \ {c}
        /\ UNCHANGED <<status, expired, dpc, dtok, pc, code, tok, via>>
    BY <2>1 DEF ClaimExpires, rowVars, rowMore, reqVars, deskVars
  <2>3. \A p \in Verifier, u \in Token : Winning(p, u)' <=> Winning(p, u)
    BY <2>2 DEF Winning
  <2>4. \A u \in Token : Spent(u)' <=> Spent(u)
    BY <1>2, <2>3 DEF Spent
  <2> HIDE DEF Winning, Spent
  <2> QED BY <1>2, <2>2, <2>3, <2>4 DEF RowInv
<1>4. CASE ~\E c \in Code : ClaimExpires(c)
  <2>1. claimed \subseteq claimed' /\ \A t \in Token : expired[t] => expired'[t]
    BY <1>4 DEF Expiry, VisitorCacheExpires, BookoutCacheExpires, PassExpires, BookoutExpires,
                LiveExpires, CleanupExpiredTokens, ApiCrash, WorkerStep, NetworkStep, vars,
                redisVars, rowMore, TypeInv, RowTypeOK
  <2>2. RowsCalm
    BY <1>1, <1>2, <2>1 DEF RowsCalm
  <2>3. CASE ApiCrash
    <3>1. ReadersCalm /\ DrawersCalm
      BY <2>3 DEF ApiCrash, ReadersCalm, DrawersCalm, Winning
    <3> QED BY <2>2, <3>1, CalmRowStep
  <2>4. CASE ~ApiCrash
    <3>1. UNCHANGED <<reqVars, deskVars>>
      BY <2>4 DEF Expiry, VisitorCacheExpires, BookoutCacheExpires, ClaimExpires, PassExpires,
                  BookoutExpires, LiveExpires, CleanupExpiredTokens, WorkerStep, NetworkStep, vars
    <3>2. ReadersCalm /\ DrawersCalm
      BY <3>1 DEF ReadersCalm, DrawersCalm, Winning, RowInv, reqVars, deskVars
    <3> QED BY <2>2, <3>2, CalmRowStep
  <2> QED BY <2>3, <2>4
<1> QED BY <1>3, <1>4

LEMMA NextKeepsRow ==
    ASSUME TypeInv, Healthy, CacheInv, RowInv, [Next]_vars
    PROVE  RowInv'
BY BeginKeepsRow, ExitKeepsRow, EntryKeepsRow, DeskStartKeepsRow, DeskStepKeepsRow,
   EnvironmentKeepsRow
DEF Next

-----------------------------------------------------------------------------
\* An outage that was is not forgotten.
LEMMA OutagesGrow == TypeInv /\ [Next]_vars /\ outages' = 0 => outages = 0
<1> SUFFICES ASSUME TypeInv, [Next]_vars, outages' = 0 PROVE outages = 0
  OBVIOUS
<1>1. outages \in Nat
  BY BudgetAssumption DEF TypeInv, QueueTypeOK
<1>2. CASE NetworkStep
  BY <1>1, <1>2 DEF NetworkStep, RedisOutage, RedisRecovery
<1>3. CASE ~NetworkStep
  BY <1>3 DEF Next, RequestStart, Arrive, ExitStep, ConsumeExit, GetExit, DeleteExit, ClaimExit,
     FindExit, FindByEntryCode, CheckExit, ClaimExitNX, LiveOut, QueueOut, EntryStep, CheckEntry,
     ConsumeEntry, GetEntry, DeleteEntry, ClaimEntry, FindEntry, ClaimEntryNX, LiveIn, QueueIn,
     DeskStart, DrawEntryCode, StartBookout, StartCheckout, DeskStep, InsertPass, CachePass,
     SetBookout, CacheBookout, DeskLive, DeskQueue, DeskForget, DeskForgetAgain, NoCodeFree, DrawBookoutCode,
     Expiry, VisitorCacheExpires, BookoutCacheExpires, ClaimExpires, PassExpires, BookoutExpires,
     LiveExpires, CleanupExpiredTokens, ApiCrash, WorkerStep, netVars, vars
<1> QED BY <1>2, <1>3

-----------------------------------------------------------------------------
(* The requests that come later. *)

\* The visitor of t is in, or about to be told so.
Admitting(t) == Arrived(t) \/ \E p \in Verifier : pc[p] \in {"liveIn", "queueIn"} /\ tok[p] = t

ReentryInv ==
    \* The code of an admitted pass is claimed for as long as the pass is valid.
    /\ \A t \in Token : Admitting(t) => entryCode[t] \in Code /\ (entryCode[t] \in claimed \/ expired[t])
    \* What is cached, or taken from the cache, is the code of a valid pass.
    /\ \A c \in Code, t \in Token : visitorCache[c] = t => entryCode[t] = c /\ ~expired[t]
    /\ \A i \in Desk, t \in Token :
           dpc[i] = "cachePass" /\ dtok[i] = t => entryCode[t] = dcode[i] /\ ~expired[t]
    /\ \A p \in Verifier, t \in Token : pc[p] = "claimEntry" /\ tok[p] = t => entryCode[t] = code[p]
    \* Past the check of its code, a request can find no valid pass that it saw admitted.
    /\ \A p \in Verifier, t \in Token : t \in seen[p] => Arrived(t)
    /\ \A p \in Verifier, t \in Token :
           pc[p] \in {"consumeEntry", "findEntry"} /\ t \in seen[p] /\ entryCode[t] = code[p] => expired[t]
    /\ \A p \in Verifier :
           pc[p] \in {"claimEntry", "claimEntryNX", "liveIn", "queueIn"} => tok[p] \notin seen[p]

AdmissionInv == outages = 0 => Healthy /\ CacheInv /\ RowInv /\ ReentryInv

-----------------------------------------------------------------------------
\* What a request may do while Redis answers.
RequestMoves(q) ==
    \/ pc'[q] = pc[q] /\ code'[q] = code[q] /\ tok'[q] = tok[q] /\ seen'[q] = seen[q]
    \/ pc'[q] = "idle" /\ seen'[q] = {}
    \/ pc'[q] \in {"checkEntry", "consumeExit"} /\ seen'[q] = {t \in Token : Arrived(t)}
    \/ /\ code'[q] = code[q] /\ seen'[q] = seen[q]
       /\ \/ pc'[q] \in ExitPC \cup {"checkEntry"}
          \/ pc'[q] = "consumeEntry" /\ code[q] \notin claimed
          \/ pc'[q] = "findEntry" /\ pc[q] = "consumeEntry"
          \/ pc'[q] = "claimEntry" /\ pc[q] = "consumeEntry" /\ visitorCache[code[q]] = tok'[q]
          \/ pc'[q] = "claimEntryNX" /\ pc[q] = "findEntry" /\ tok'[q] \in EntryRows(code[q])
          \/ /\ tok'[q] = tok[q]
             /\ \/ pc'[q] = "liveIn" /\ pc[q] \in {"claimEntry", "claimEntryNX"} /\ code[q] \in claimed'
                \/ pc'[q] = "queueIn" /\ pc[q] = "liveIn"

LEMMA RequestStep ==
    ASSUME TypeInv, Healthy, [Next]_vars, NEW q \in Verifier
    PROVE  RequestMoves(q)
<1>0. /\ pc \in [Verifier -> {"idle"} \cup EntryPC \cup ExitPC]
      /\ code \in [Verifier -> Code \cup {NoCode}]
      /\ tok \in [Verifier -> Token \cup {NoToken}]
      /\ seen \in [Verifier -> SUBSET Token]
  BY DEF TypeInv, RequestInv, RequestTypeOK
<1>1. ASSUME pc'[q] = pc[q], code'[q] = code[q], tok'[q] = tok[q], seen'[q] = seen[q]
      PROVE  RequestMoves(q)
  BY <1>1 DEF RequestMoves
<1>2. ASSUME NEW p \in Verifier, p # q, RequestStart(p) \/ ExitStep(p) \/ EntryStep(p)
      PROVE  RequestMoves(q)
  <2>1. pc'[q] = pc[q] /\ code'[q] = code[q] /\ tok'[q] = tok[q] /\ seen'[q] = seen[q]
    <3>1. CASE RequestStart(p)
      BY <1>0, <1>2, <3>1 DEF RequestStart, Arrive
    <3>2. \A l : Goto(p, l) => pc'[q] = pc[q] /\ UNCHANGED <<code, tok, seen>>
      BY <1>0, <1>2 DEF Goto
    <3>3. \A t, v, l : Take(p, t, v, l) =>
             pc'[q] = pc[q] /\ tok'[q] = tok[q] /\ UNCHANGED <<code, seen>>
      BY <1>0, <1>2 DEF Take
    <3>4. Finish(p) => pc'[q] = pc[q] /\ code'[q] = code[q] /\ tok'[q] = tok[q] /\ seen'[q] = seen[q]
      BY <1>0, <1>2 DEF Finish
    <3>5. (\E l : Goto(p, l)) \/ (\E t, v, l : Take(p, t, v, l)) \/ Finish(p) \/ RequestStart(p)
      BY <1>2 DEF ExitStep, ConsumeExit, GetExit, DeleteExit, ClaimExit, FindExit, FindByEntryCode,
                  CheckExit, ClaimExitNX, LiveOut, QueueOut, EntryStep, CheckEntry, ConsumeEntry,
                  GetEntry, DeleteEntry, ClaimEntry, FindEntry, ClaimEntryNX, LiveIn, QueueIn
    <3> QED BY <3>1, <3>2, <3>3, <3>4, <3>5
  <2> QED BY <1>1, <2>1
<1>3. CASE RequestStart(q)
  BY <1>0, <1>3 DEF RequestStart, Arrive, RequestMoves
<1>4. Finish(q) => RequestMoves(q)
  BY <1>0 DEF Finish, RequestMoves
<1>5. \A l : Goto(q, l) => pc'[q] = l /\ UNCHANGED <<code, tok, seen>>
  BY <1>0 DEF Goto
<1>6. \A t, v, l : Take(q, t, v, l) => pc'[q] = l /\ tok'[q] = t /\ UNCHANGED <<code, seen>>
  BY <1>0 DEF Take
<1>7. ASSUME NEW l \in ExitPC \cup {"checkEntry"}, pc'[q] = l, UNCHANGED <<code, seen>>
      PROVE  RequestMoves(q)
  BY <1>7 DEF RequestMoves
<1>8. CASE ExitStep(q)
  <2>1. Finish(q) \/ \E l \in ExitPC \cup {"checkEntry"} : Goto(q, l) \/ \E t, v : Take(q, t, v, l)
    BY <1>8 DEF ExitStep, ConsumeExit, GetExit, DeleteExit, ClaimExit, FindExit, FindByEntryCode,
                CheckExit, ClaimExitNX, LiveOut, QueueOut, ExitPC
  <2> QED BY <1>4, <1>5, <1>6, <1>7, <2>1
<1>9. CASE EntryStep(q)
  <2>1. CASE CheckEntry(q)
    BY <1>4, <1>5, <2>1 DEF CheckEntry, IsClaimed, Healthy, RequestMoves
  <2>2. CASE ConsumeEntry(q)
    BY <1>5, <1>6, <2>2 DEF ConsumeEntry, Cached, Healthy, RequestMoves
  <2>3. CASE ClaimEntry(q)
    BY <1>5, <2>3 DEF ClaimEntry, AfterClaim, Healthy, RequestMoves
  <2>4. CASE FindEntry(q)
    BY <1>4, <1>6, <2>4 DEF FindEntry, RequestMoves
  <2>5. CASE ClaimEntryNX(q)
    BY <1>4, <1>5, <2>5 DEF ClaimEntryNX, AfterClaim, Healthy, RequestMoves
  <2>6. CASE LiveIn(q)
    BY <1>5, <2>6 DEF LiveIn, RequestMoves
  <2>7. CASE QueueIn(q)
    BY <1>4, <2>7 DEF QueueIn
  <2>8. ~GetEntry(q) /\ ~DeleteEntry(q)
    BY DEF GetEntry, DeleteEntry, Healthy
  <2> QED BY <1>9, <2>1, <2>2, <2>3, <2>4, <2>5, <2>6, <2>7, <2>8 DEF EntryStep
<1>10. CASE ApiCrash
  BY <1>10 DEF ApiCrash, RequestMoves
<1>11. CASE UNCHANGED reqVars
  BY <1>1, <1>11 DEF reqVars
<1>12. \/ UNCHANGED reqVars \/ ApiCrash
       \/ \E p \in Verifier : RequestStart(p) \/ ExitStep(p) \/ EntryStep(p)
  BY DEF Next, DeskStart, DrawEntryCode, StartBookout, StartCheckout, DeskStep, InsertPass, CachePass,
         SetBookout, CacheBookout, DeskLive, DeskQueue, DeskForget, DeskForgetAgain, NoCodeFree,
         DrawBookoutCode, Expiry, VisitorCacheExpires, BookoutCacheExpires, ClaimExpires, PassExpires,
         BookoutExpires, LiveExpires, CleanupExpiredTokens, WorkerStep, NetworkStep, vars
<1> QED BY <1>2, <1>3, <1>8, <1>9, <1>10, <1>11, <1>12

\* A pass of which anything is known keeps its code, and stays expired.
LEMMA CodesStay ==
    ASSUME TypeInv, IssueInv, [Next]_vars, NEW t \in Token, status[t] # "absent"
    PROVE  entryCode'[t] = entryCode[t] /\ (expired[t] => expired'[t])
<1>1. ASSUME NEW i \in Desk, InsertPass(i)
      PROVE  entryCode'[t] = entryCode[t] /\ expired' = expired
  BY <1>1 DEF InsertPass, IssueInv, TypeInv, RowTypeOK
<1>2. CASE \E u \in Token : PassExpires(u)
  BY <1>2 DEF PassExpires, TypeInv, RowTypeOK
<1>3. CASE UNCHANGED <<entryCode, expired>>
  BY <1>3
<1>4. \/ UNCHANGED <<entryCode, expired>>
      \/ \E i \in Desk : InsertPass(i)
      \/ \E u \in Token : PassExpires(u)
  BY DEF Next, RequestStart, Arrive, ExitStep, ConsumeExit, GetExit, DeleteExit, ClaimExit, FindExit,
         FindByEntryCode, CheckExit, ClaimExitNX, LiveOut, QueueOut, EntryStep, CheckEntry, ConsumeEntry,
         GetEntry, DeleteEntry, ClaimEntry, FindEntry, ClaimEntryNX, LiveIn, QueueIn, DeskStart,
         DrawEntryCode, StartBookout, StartCheckout, DeskStep, CachePass, SetBookout, CacheBookout,
         DeskLive, DeskQueue, DeskForget, DeskForgetAgain, NoCodeFree, DrawBookoutCode, Expiry,
         VisitorCacheExpires, BookoutCacheExpires, ClaimExpires, BookoutExpires, LiveExpires,
         CleanupExpiredTokens, ApiCrash, WorkerStep, NetworkStep, vars, rowMore
<1> QED BY <1>1, <1>2, <1>3, <1>4

\* The claim on the code of a valid pass is not withdrawn.
LEMMA ClaimsStay ==
    ASSUME TypeInv, [Next]_vars, NEW t \in Token, entryCode[t] \in claimed
    PROVE  entryCode[t] \in claimed' \/ expired[t]
<1>1. CASE \E c \in Code : ClaimExpires(c)
  BY <1>1 DEF ClaimExpires
<1>2. CASE claimed \subseteq claimed'
  BY <1>2
<1>3. claimed \subseteq claimed' \/ \E c \in Code : ClaimExpires(c)
  BY ClaimsGrow
  DEF Next, RequestStart, Arrive, ExitStep, ConsumeExit, GetExit, DeleteExit, ClaimExit, FindExit,
         FindByEntryCode, CheckExit, ClaimExitNX, LiveOut, QueueOut, EntryStep, CheckEntry, ConsumeEntry,
         GetEntry, DeleteEntry, ClaimEntry, FindEntry, ClaimEntryNX, LiveIn, QueueIn, DeskStart,
         DrawEntryCode, StartBookout, StartCheckout, DeskStep, InsertPass, CachePass, SetBookout, CacheBookout,
         DeskLive, DeskQueue, DeskForget, DeskForgetAgain, NoCodeFree, DrawBookoutCode, Expiry,
         VisitorCacheExpires, BookoutCacheExpires, PassExpires, BookoutExpires, LiveExpires,
         CleanupExpiredTokens, ApiCrash, WorkerStep, NetworkStep, vars, redisVars
<1> QED BY <1>1, <1>2, <1>3

\* A valid pass is cached, or about to be, with the code of its row.
LEMMA CachedMoves ==
    ASSUME TypeInv, [Next]_vars, NEW c \in Code, NEW t \in Token, visitorCache'[c] = t
    PROVE  visitorCache[c] = t \/ \E i \in Desk : dpc[i] = "cachePass" /\ dtok[i] = t /\ dcode[i] = c
<1>0. visitorCache \in [Code -> Token \cup {NoToken}] /\ NoToken \notin Token
  BY DistinctAssumption DEF TypeInv, RedisTypeOK
<1>1. CASE \E i \in Desk : CachePass(i)
  BY <1>0, <1>1 DEF CachePass, PutInCache
<1>2. CASE (\E p \in Verifier : ConsumeEntry(p) \/ DeleteEntry(p)) \/ \E d \in Code : VisitorCacheExpires(d)
  BY <1>0, <1>2 DEF ConsumeEntry, DeleteEntry, VisitorCacheExpires, RemoveFromCache
<1>3. CASE UNCHANGED visitorCache
  BY <1>3
<1>4. \/ UNCHANGED visitorCache
      \/ \E i \in Desk : CachePass(i)
      \/ \E p \in Verifier : ConsumeEntry(p) \/ DeleteEntry(p)
      \/ \E d \in Code : VisitorCacheExpires(d)
  BY DEF Next, RequestStart, Arrive, ExitStep, ConsumeExit, GetExit, DeleteExit, ClaimExit, FindExit,
         FindByEntryCode, CheckExit, ClaimExitNX, LiveOut, QueueOut, EntryStep, CheckEntry, GetEntry,
         ClaimEntry, FindEntry, ClaimEntryNX, LiveIn, QueueIn, DeskStart, DrawEntryCode,
         StartBookout, StartCheckout, DeskStep, InsertPass, SetBookout, CacheBookout, DeskLive,
         DeskQueue, DeskForget, DeskForgetAgain, NoCodeFree, DrawBookoutCode, Expiry,
         BookoutCacheExpires, ClaimExpires, PassExpires, BookoutExpires, LiveExpires, CleanupExpiredTokens,
         ApiCrash, WorkerStep, NetworkStep, vars, redisVars
<1> QED BY <1>1, <1>2, <1>3, <1>4

LEMMA CachingMoves ==
    ASSUME TypeInv, [Next]_vars, NEW i \in Desk, dpc'[i] = "cachePass"
    PROVE  \/ dpc[i] = "cachePass" /\ dtok'[i] = dtok[i] /\ dcode'[i] = dcode[i]
           \/ InsertPass(i) /\ dtok'[i] = dtok[i] /\ dcode'[i] = dcode[i]
<1>0. /\ dpc \in [Desk -> DeskPC] /\ dtok \in [Desk -> Token \cup {NoToken}]
      /\ dcode \in [Desk -> Code \cup {NoCode}]
  BY DEF TypeInv, DeskInv, DeskTypeOK
<1>1. ASSUME NEW j \in Desk, DeskStart(j)
      PROVE  dpc[i] = "cachePass" /\ dtok'[i] = dtok[i] /\ dcode'[i] = dcode[i]
  BY <1>0, <1>1 DEF DeskStart, DrawEntryCode, StartBookout, StartCheckout, Open
<1>2. ASSUME NEW j \in Desk, InsertPass(j)
      PROVE  (dpc[i] = "cachePass" \/ i = j) /\ dtok'[i] = dtok[i] /\ dcode'[i] = dcode[i]
  BY <1>0, <1>2 DEF InsertPass, DeskGoto
<1>3. ASSUME NEW j \in Desk, DeskStep(j), ~InsertPass(j)
      PROVE  dpc[i] = "cachePass" /\ dtok'[i] = dtok[i] /\ dcode'[i] = dcode[i]
  <2>1. CASE CachePass(j) \/ CacheBookout(j) \/ DeskQueue(j) \/ DeskForget(j) \/ DeskForgetAgain(j) \/ NoCodeFree(j)
    BY <1>0, <2>1 DEF CachePass, CacheBookout, DeskQueue, DeskForget, DeskForgetAgain, NoCodeFree,
                      DeskGoto, Close
  <2>2. CASE SetBookout(j) \/ DeskLive(j) \/ \E c \in Code : DrawBookoutCode(j, c)
    BY <1>0, <2>2 DEF SetBookout, DeskLive, DrawBookoutCode, DeskGoto
  <2> QED BY <1>3, <2>1, <2>2 DEF DeskStep
<1>4. ~ApiCrash
  BY DEF ApiCrash
<1>5. CASE UNCHANGED deskVars
  BY <1>5 DEF deskVars
<1>6. \/ UNCHANGED deskVars \/ ApiCrash
      \/ \E j \in Desk : DeskStart(j) \/ DeskStep(j)
  BY DEF Next, RequestStart, Arrive, ExitStep, ConsumeExit, GetExit, DeleteExit, ClaimExit, FindExit,
         FindByEntryCode, CheckExit, ClaimExitNX, LiveOut, QueueOut, EntryStep, CheckEntry, ConsumeEntry,
         GetEntry, DeleteEntry, ClaimEntry, FindEntry, ClaimEntryNX, LiveIn, QueueIn, Expiry,
         VisitorCacheExpires, BookoutCacheExpires, ClaimExpires, PassExpires, BookoutExpires, LiveExpires,
         CleanupExpiredTokens, WorkerStep, NetworkStep, vars
<1> QED BY <1>1, <1>2, <1>3, <1>4, <1>5, <1>6

\* A pass expires only when no cache holds it.
LEMMA ExpiryMoves ==
    ASSUME TypeInv, [Next]_vars, NEW t \in Token, expired'[t]
    PROVE  \/ expired[t]
           \/ /\ \A c \in Code : visitorCache'[c] # t
              /\ \A i \in Desk : dtok'[i] = t => dpc'[i] # "cachePass"
<1>1. CASE \E u \in Token : PassExpires(u)
  BY <1>1 DEF PassExpires, TypeInv, RowTypeOK, redisVars, deskVars
<1>2. CASE UNCHANGED expired
  BY <1>2
<1>3. UNCHANGED expired \/ \E u \in Token : PassExpires(u)
  BY DEF Next, RequestStart, Arrive, ExitStep, ConsumeExit, GetExit, DeleteExit, ClaimExit, FindExit,
         FindByEntryCode, CheckExit, ClaimExitNX, LiveOut, QueueOut, EntryStep, CheckEntry, ConsumeEntry,
         GetEntry, DeleteEntry, ClaimEntry, FindEntry, ClaimEntryNX, LiveIn, QueueIn, DeskStart,
         DrawEntryCode, StartBookout, StartCheckout, DeskStep, InsertPass, CachePass, SetBookout, CacheBookout,
         DeskLive, DeskQueue, DeskForget, DeskForgetAgain, NoCodeFree, DrawBookoutCode, Expiry,
         VisitorCacheExpires, BookoutCacheExpires, ClaimExpires, BookoutExpires, LiveExpires,
         CleanupExpiredTokens, ApiCrash, WorkerStep, NetworkStep, vars, rowMore
<1> QED BY <1>1, <1>2, <1>3

LEMMA ArrivalsStay ==
    ASSUME TypeInv, [Next]_vars
    PROVE  \A t \in Token : Arrived(t) => Arrived(t)'
<1>1. ASSUME NEW p \in Verifier, QueueIn(p)
      PROVE  \A t \in Token : Arrived(t) => Arrived(t)'
  BY <1>1 DEF QueueIn, Arrived, TypeInv, HistoryTypeOK
<1>2. CASE UNCHANGED <<cacheIn, rowIn>>
  BY <1>2 DEF Arrived
<1>3. UNCHANGED <<cacheIn, rowIn>> \/ \E p \in Verifier : QueueIn(p)
  BY DEF Next, RequestStart, Arrive, ExitStep, ConsumeExit, GetExit, DeleteExit, ClaimExit, FindExit,
         FindByEntryCode, CheckExit, ClaimExitNX, LiveOut, QueueOut, EntryStep, CheckEntry, ConsumeEntry,
         GetEntry, DeleteEntry, ClaimEntry, FindEntry, ClaimEntryNX, LiveIn, DeskStart, DrawEntryCode,
         StartBookout, StartCheckout, DeskStep, InsertPass, CachePass, SetBookout, CacheBookout, DeskLive,
         DeskQueue, DeskForget, DeskForgetAgain, NoCodeFree, DrawBookoutCode, Expiry, VisitorCacheExpires,
         BookoutCacheExpires, ClaimExpires, PassExpires, BookoutExpires, LiveExpires, CleanupExpiredTokens,
         ApiCrash, WorkerStep, NetworkStep, vars, histVars
<1> QED BY <1>1, <1>2, <1>3

\* Who is let in had the claim on its code won (verification.py 499-559).
LEMMA AdmittingMoves ==
    ASSUME TypeInv, Healthy, RowInv, ReentryInv, [Next]_vars, NEW t \in Token, Admitting(t)'
    PROVE  \/ Admitting(t)
           \/ \E p \in Verifier : /\ pc[p] \in {"claimEntry", "claimEntryNX"} /\ tok[p] = t
                                  /\ entryCode[t] = code[p] /\ code[p] \in Code \cap claimed'
<1>1. ASSUME Arrived(t)' PROVE Admitting(t)
  <2>1. CASE \A u \in Token : Arrived(u)' <=> Arrived(u)
    BY <1>1, <2>1 DEF Admitting
  <2>2. ASSUME NEW p \in Verifier, QueueIn(p), Arrived(t)' => Arrived(t) \/ t = tok[p]
        PROVE  Admitting(t)
    BY <1>1, <2>2 DEF Admitting, QueueIn
  <2> HIDE DEF Arrived
  <2> QED BY <2>1, <2>2, ArrivedMoves
<1>2. ASSUME NEW p \in Verifier, pc'[p] \in {"liveIn", "queueIn"}, tok'[p] = t
      PROVE  \/ Admitting(t)
             \/ /\ pc[p] \in {"claimEntry", "claimEntryNX"} /\ tok[p] = t
                /\ entryCode[t] = code[p] /\ code[p] \in Code \cap claimed'
  <2>1. RequestMoves(p) /\ ~(pc'[p] \in ExitPC \cup {"checkEntry"})
    BY <1>2, RequestStep DEF ExitPC
  <2>2. tok[p] = t
    BY <1>2, <2>1 DEF RequestMoves
  <2>3. \/ pc[p] \in {"liveIn", "queueIn"}
        \/ pc[p] \in {"claimEntry", "claimEntryNX"} /\ code[p] \in claimed'
    BY <1>2, <2>1 DEF RequestMoves
  <2>4. pc[p] \in {"claimEntry", "claimEntryNX"} => entryCode[t] = code[p] /\ code[p] \in Code
    BY <2>2 DEF RowInv, ReentryInv, TypeInv, RequestInv
  <2> QED BY <2>2, <2>3, <2>4 DEF Admitting
<1> QED BY <1>1, <1>2 DEF Admitting

\* The conjuncts of ReentryInv, one after the other.
LEMMA KeepsClaimed ==
    ASSUME TypeInv, IssueInv, Healthy, RowInv, ReentryInv, [Next]_vars, NEW t \in Token, Admitting(t)'
    PROVE  entryCode'[t] \in Code /\ (entryCode'[t] \in claimed' \/ expired'[t])
<1>1. CASE Admitting(t)
  <2>1. Touched(t)
    BY <1>1 DEF Admitting, Touched, EntryEvidence, EnteringPC
  <2>2. status[t] # "absent"
    BY <2>1 DEF IssueInv
  <2>3. entryCode[t] \in Code /\ (entryCode[t] \in claimed \/ expired[t])
    BY <1>1 DEF ReentryInv
  <2> QED BY <2>2, <2>3, CodesStay, ClaimsStay
<1>2. ASSUME NEW p \in Verifier, pc[p] \in {"claimEntry", "claimEntryNX"}, tok[p] = t,
             entryCode[t] = code[p], code[p] \in Code \cap claimed'
      PROVE  entryCode'[t] \in Code /\ entryCode'[t] \in claimed'
  <2>1. status[t] # "absent"
    BY <1>2 DEF IssueInv, Touched, EntryEvidence, EnteringPC
  <2> QED BY <1>2, <2>1, CodesStay
<1> QED BY <1>1, <1>2, AdmittingMoves

LEMMA KeepsCachedValid ==
    ASSUME TypeInv, IssueInv, ReentryInv, [Next]_vars, NEW c \in Code, NEW t \in Token,
           visitorCache'[c] = t
    PROVE  entryCode'[t] = c /\ ~expired'[t]
<1>1. entryCode[t] = c /\ ~expired[t]
  BY CachedMoves DEF ReentryInv
<1>2. status[t] # "absent"
  BY CachedMoves DEF IssueInv, Touched, CacheEvidence, IssueEvidence
<1> QED BY <1>1, <1>2, CodesStay, ExpiryMoves

LEMMA KeepsCachingValid ==
    ASSUME TypeInv, IssueInv, ReentryInv, [Next]_vars, NEW i \in Desk, NEW t \in Token,
           dpc'[i] = "cachePass", dtok'[i] = t
    PROVE  entryCode'[t] = dcode'[i] /\ ~expired'[t]
<1>1. CASE dpc[i] = "cachePass" /\ dtok'[i] = dtok[i] /\ dcode'[i] = dcode[i]
  <2>1. entryCode[t] = dcode[i] /\ ~expired[t] /\ dtok[i] = t
    BY <1>1 DEF ReentryInv
  <2>2. status[t] # "absent"
    BY <1>1, <2>1 DEF IssueInv, Touched, IssueEvidence
  <2> QED BY <1>1, <2>1, <2>2, CodesStay, ExpiryMoves
<1>2. CASE InsertPass(i) /\ dtok'[i] = dtok[i] /\ dcode'[i] = dcode[i]
  <2>1. dpc[i] = "insert" /\ dtok[i] = t /\ entryCode'[t] = dcode[i] /\ expired' = expired
    BY <1>2 DEF InsertPass, TypeInv, RowTypeOK
  <2>2. ~expired[t]
    BY <2>1 DEF IssueInv, Touched, Excused
  <2> QED BY <1>2, <2>1, <2>2
<1> QED BY <1>1, <1>2, CachingMoves

LEMMA KeepsTakenCode ==
    ASSUME TypeInv, IssueInv, Healthy, ReentryInv, [Next]_vars, NEW p \in Verifier, NEW t \in Token,
           pc'[p] = "claimEntry", tok'[p] = t
    PROVE  entryCode'[t] = code'[p]
<1>1. RequestMoves(p) /\ "claimEntry" \notin ExitPC
  BY RequestStep DEF ExitPC
<1>2. \/ pc[p] = "claimEntry" /\ tok[p] = t /\ code'[p] = code[p]
      \/ pc[p] = "consumeEntry" /\ visitorCache[code[p]] = t /\ code'[p] = code[p]
  BY <1>1 DEF RequestMoves
<1>3. code[p] \in Code
  BY <1>2 DEF TypeInv, RequestInv
<1>4. entryCode[t] = code[p]
  BY <1>2, <1>3 DEF ReentryInv
<1>5. status[t] # "absent"
  BY <1>2, <1>3 DEF IssueInv, Touched, EntryEvidence, EnteringPC, CacheEvidence
<1> QED BY <1>2, <1>4, <1>5, CodesStay

LEMMA KeepsSeenArrived ==
    ASSUME TypeInv, Healthy, ReentryInv, [Next]_vars, NEW p \in Verifier, NEW t \in Token, t \in seen'[p]
    PROVE  Arrived(t)'
<1>1. RequestMoves(p)
  BY RequestStep
<1>2. t \in seen[p] \/ Arrived(t)
  BY <1>1 DEF RequestMoves
<1>3. Arrived(t)
  BY <1>2 DEF ReentryInv
<1> QED BY <1>3, ArrivalsStay

LEMMA KeepsSeenExpired ==
    ASSUME TypeInv, IssueInv, Healthy, ReentryInv, [Next]_vars, NEW p \in Verifier, NEW t \in Token,
           pc'[p] \in {"consumeEntry", "findEntry"}, t \in seen'[p], entryCode'[t] = code'[p]
    PROVE  expired'[t]
<1>1. RequestMoves(p) /\ {"consumeEntry", "findEntry"} \cap ExitPC = {}
  BY RequestStep DEF ExitPC
<1>2. /\ t \in seen[p] /\ code'[p] = code[p]
      /\ pc[p] \in {"consumeEntry", "findEntry"} \/ code[p] \notin claimed
  BY <1>1 DEF RequestMoves
<1>3. Arrived(t)
  BY <1>2 DEF ReentryInv
<1>4. status[t] # "absent"
  BY <1>3 DEF IssueInv, Touched
<1>5. entryCode'[t] = entryCode[t] /\ (expired[t] => expired'[t])
  BY <1>4, CodesStay
<1>6. entryCode[t] \in claimed \/ expired[t]
  BY <1>3 DEF ReentryInv, Admitting
<1>7. expired[t]
  BY <1>2, <1>5, <1>6 DEF ReentryInv
<1> QED BY <1>5, <1>7

\* A request takes a pass by the code of a valid row: not one it saw admitted.
LEMMA KeepsTakenUnseen ==
    ASSUME TypeInv, Healthy, ReentryInv, [Next]_vars, NEW p \in Verifier,
           pc'[p] \in {"claimEntry", "claimEntryNX", "liveIn", "queueIn"}
    PROVE  tok'[p] \notin seen'[p]
<1>1. RequestMoves(p) /\ {"claimEntry", "claimEntryNX", "liveIn", "queueIn"} \cap ExitPC = {}
  BY RequestStep DEF ExitPC
<1>2. seen'[p] = seen[p]
  BY <1>1 DEF RequestMoves
<1>3. CASE tok'[p] = tok[p] /\ pc[p] \in {"claimEntry", "claimEntryNX", "liveIn", "queueIn"}
  BY <1>2, <1>3 DEF ReentryInv
<1>4. CASE pc[p] = "consumeEntry" /\ visitorCache[code[p]] = tok'[p]
  <2>1. code[p] \in Code /\ seen[p] \subseteq Token
    BY <1>4 DEF TypeInv, RequestInv, RequestTypeOK
  <2> QED BY <1>2, <1>4, <2>1 DEF ReentryInv
<1>5. CASE pc[p] = "findEntry" /\ tok'[p] \in EntryRows(code[p])
  <2>1. seen[p] \subseteq Token
    BY DEF TypeInv, RequestInv, RequestTypeOK
  <2> QED BY <1>2, <1>5, <2>1 DEF ReentryInv, EntryRows
<1> QED BY <1>1, <1>3, <1>4, <1>5 DEF RequestMoves

LEMMA NextKeepsReentry ==
    ASSUME TypeInv, IssueInv, Healthy, RowInv, ReentryInv, [Next]_vars
    PROVE  ReentryInv'
<1>1. \A t \in Token :
          Admitting(t)' => entryCode'[t] \in Code /\ (entryCode'[t] \in claimed' \/ expired'[t])
  BY KeepsClaimed
<1>2. \A c \in Code, t \in Token : visitorCache'[c] = t => entryCode'[t] = c /\ ~expired'[t]
  BY KeepsCachedValid
<1>3. \A i \in Desk, t \in Token :
          dpc'[i] = "cachePass" /\ dtok'[i] = t => entryCode'[t] = dcode'[i] /\ ~expired'[t]
  BY KeepsCachingValid
<1>4. \A p \in Verifier, t \in Token : pc'[p] = "claimEntry" /\ tok'[p] = t => entryCode'[t] = code'[p]
  BY KeepsTakenCode
<1>5. \A p \in Verifier, t \in Token : t \in seen'[p] => Arrived(t)'
  BY KeepsSeenArrived
<1>6. \A p \in Verifier, t \in Token :
          pc'[p] \in {"consumeEntry", "findEntry"} /\ t \in seen'[p] /\ entryCode'[t] = code'[p]
              => expired'[t]
  BY KeepsSeenExpired
<1>7. \A p \in Verifier :
          pc'[p] \in {"claimEntry", "claimEntryNX", "liveIn", "queueIn"} => tok'[p] \notin seen'[p]
  BY KeepsTakenUnseen
<1> HIDE DEF Admitting, Arrived
<1> QED BY <1>1, <1>2, <1>3, <1>4, <1>5, <1>6, <1>7 DEF ReentryInv

LEMMA ReentryInit == Init => ReentryInv
BY DistinctAssumption DEF Init, ReentryInv, Admitting, Arrived

-----------------------------------------------------------------------------
LEMMA AdmissionInvariance == Spec => []AdmissionInv
<1>1. Init => IssueInv /\ AdmissionInv
  <2>1. Init => Healthy
    BY DEF Init, QueueInit, Healthy
  <2> QED BY <2>1, IssueInit, CacheInit, RowInit, ReentryInit DEF AdmissionInv
<1>2. TypeInv /\ IssueInv /\ AdmissionInv /\ [Next]_vars => AdmissionInv'
  <2> SUFFICES ASSUME TypeInv, IssueInv, AdmissionInv, [Next]_vars, outages' = 0
               PROVE  Healthy' /\ CacheInv' /\ RowInv' /\ ReentryInv'
    BY DEF AdmissionInv
  <2>1. outages' = outages /\ Healthy /\ CacheInv /\ RowInv /\ ReentryInv
    BY OutagesGrow DEF AdmissionInv
  <2> QED BY <2>1, HealthyStays, NextKeepsCache, NextKeepsRow, NextKeepsReentry
<1> QED BY <1>1, <1>2, NextKeepsIssues, TypeInvariance, PTL DEF Spec

\* As long as Redis answered, each way in let a pass's visitor in at most once,
\* whatever requests, drainers, crashes and failed batches there were
\* (verification.py 486-567, token_state.py 70-73, redis.py 184-208, 599-612).
THEOREM EachPathOnce == Spec => []EachPathAdmitsOnce
<1>1. AdmissionInv => EachPathAdmitsOnce
  BY DEF AdmissionInv, CacheInv, RowInv, EachPathAdmitsOnce, CacheAdmitsOnce, RowAdmitsOnce
<1> QED BY <1>1, AdmissionInvariance, PTL

\* As long as Redis answered, a request that began after a visitor was let in
\* does not let that visitor in again, although the row says pending until the
\* queue is drained: the code stays claimed as long as the pass is valid
\* (verification.py 486-559, redis.py 599-612).
THEOREM NoReentry == Spec => []NoReentryBeforeDrain
<1>1. AdmissionInv => NoReentryBeforeDrain
  BY DEF AdmissionInv, ReentryInv, NoReentryBeforeDrain, NoReentryAfterAdmission
<1> QED BY <1>1, AdmissionInvariance, PTL
=============================================================================
