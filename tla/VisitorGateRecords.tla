------------------------- MODULE VisitorGateRecords -------------------------
(***************************************************************************)
(* What the gate writes down is true and is kept, through any number of    *)
(* outages, crashes and failed batches.                                    *)
(*                                                                         *)
(* Whoever is checked out came, or let the pass run out.  A check-out is   *)
(* decided on the row, the live status, the book-out cache or what a       *)
(* request read of them earlier, and passes through the queue: all of that *)
(* is Evidence, and no step makes Evidence out of nothing.                 *)
(*                                                                         *)
(* Whoever was let in is in the row, or on the way to it, unless a fault   *)
(* lost a popped batch.  The one step that could take a row back is the    *)
(* INSERT of the pass; so the invariant says that nothing is known of a    *)
(* pass before its INSERT.                                                 *)
(***************************************************************************)
EXTENDS VisitorGateProofs

\* A check-out of t would be justified.
Excused(t) == t \in entered \/ expired[t]

\* Where a request holds a pass that may leave, or has let it in.
LeavingPC == {"queueIn", "deleteExit", "claimExit", "checkExit", "claimExitNX", "liveOut", "queueOut"}

LeavingDeskPC == {"drawBookout", "setBookout", "cacheBookout", "deskLive", "deskQueue"}

RowEvidence(t)     == status[t] \in {"checked_in", "checked_out", "expired"}
RedisEvidence(t)   == live[t] # "none" \/ \E c \in Code : bookoutCache[c] = t
RequestEvidence(t) == \E p \in Verifier : pc[p] \in LeavingPC /\ tok[p] = t
DeskEvidence(t)    == \E i \in Desk : dpc[i] \in LeavingDeskPC /\ dtok[i] = t

\* Anything on whose word somebody is checked out of t.
Evidence(t) ==
    RowEvidence(t) \/ Underway(t) \/ RedisEvidence(t) \/ RequestEvidence(t) \/ DeskEvidence(t)

DepartureInv ==
    \A t \in Token : Evidence(t) \/ departures[t] > 0 => Excused(t)

\* A step adds no evidence but what follows from evidence, an entry or expiry.
Founded ==
    \A t \in Token : Evidence(t)' \/ departures'[t] > 0 => Evidence(t) \/ departures[t] > 0 \/ Excused(t)'

\* Nobody comes out of having entered, and no pass out of having expired.
LEMMA ExcusedStays ==
    ASSUME TypeInv, [Next]_vars
    PROVE  \A t \in Token : Excused(t) => Excused(t)'
<1>1. entered \subseteq entered'
  BY DEF Next, RequestStart, Arrive, ExitStep, ConsumeExit, GetExit, DeleteExit, ClaimExit, FindExit,
         FindByEntryCode, CheckExit, ClaimExitNX, LiveOut, QueueOut, EntryStep, CheckEntry,
         ConsumeEntry, GetEntry, DeleteEntry, ClaimEntry, FindEntry, ClaimEntryNX, LiveIn, QueueIn,
         DeskStart, DrawEntryCode, StartBookout, StartCheckout, DeskStep, InsertPass, CachePass,
         SetBookout, CacheBookout, DeskLive, DeskQueue, DeskForget, DeskForgetAgain, NoCodeFree,
         DrawBookoutCode, Expiry, VisitorCacheExpires, BookoutCacheExpires, ClaimExpires, PassExpires,
         BookoutExpires, LiveExpires, CleanupExpiredTokens, ApiCrash, WorkerStep, NetworkStep,
         vars, histVars
<1>2. \A t \in Token : expired[t] => expired'[t]
  BY DEF Next, RequestStart, Arrive, ExitStep, ConsumeExit, GetExit, DeleteExit, ClaimExit, FindExit,
         FindByEntryCode, CheckExit, ClaimExitNX, LiveOut, QueueOut, EntryStep, CheckEntry,
         ConsumeEntry, GetEntry, DeleteEntry, ClaimEntry, FindEntry, ClaimEntryNX, LiveIn, QueueIn,
         DeskStart, DrawEntryCode, StartBookout, StartCheckout, DeskStep, InsertPass, CachePass,
         SetBookout, CacheBookout, DeskLive, DeskQueue, DeskForget, DeskForgetAgain, NoCodeFree,
         DrawBookoutCode, Expiry, VisitorCacheExpires, BookoutCacheExpires, ClaimExpires, PassExpires,
         BookoutExpires, LiveExpires, CleanupExpiredTokens, ApiCrash, WorkerStep, NetworkStep,
         vars, rowMore, TypeInv, RowTypeOK
<1> QED BY <1>1, <1>2 DEF Excused

\* Evidence of a kind whose variables do not move is the same afterwards.
LEMMA EvidenceFrame ==
    /\ UNCHANGED status => \A t \in Token : RowEvidence(t)' <=> RowEvidence(t)
    /\ UNCHANGED <<queue, batch>> => \A t \in Token : Underway(t)' <=> Underway(t)
    /\ UNCHANGED <<live, bookoutCache>> => \A t \in Token : RedisEvidence(t)' <=> RedisEvidence(t)
    /\ UNCHANGED <<pc, tok>> => \A t \in Token : RequestEvidence(t)' <=> RequestEvidence(t)
    /\ UNCHANGED <<dpc, dtok>> => \A t \in Token : DeskEvidence(t)' <=> DeskEvidence(t)
BY DEF RowEvidence, Underway, RedisEvidence, RequestEvidence, DeskEvidence

\* What the moves of a request add.
LEMMA EvidenceMoves ==
    ASSUME RequestInv, NEW p \in Verifier
    PROVE  /\ Finish(p) => \A t \in Token : RequestEvidence(t)' => RequestEvidence(t)
           /\ \A l : Goto(p, l) /\ (l \in LeavingPC => pc[p] \in LeavingPC)
                  => \A t \in Token : RequestEvidence(t)' => RequestEvidence(t)
           /\ \A t, v, l : Take(p, t, v, l)
                  => \A u \in Token : RequestEvidence(u)' => RequestEvidence(u) \/ (l \in LeavingPC /\ u = t)
<1>1. pc \in [Verifier -> {"idle"} \cup EntryPC \cup ExitPC] /\ tok \in [Verifier -> Token \cup {NoToken}]
  BY DEF RequestInv, RequestTypeOK
<1>2. "idle" \notin LeavingPC
  BY DEF LeavingPC
<1>3. Finish(p) => \A t \in Token : RequestEvidence(t)' => RequestEvidence(t)
  BY <1>1, <1>2 DEF Finish, RequestEvidence
<1>4. \A l : Goto(p, l) /\ (l \in LeavingPC => pc[p] \in LeavingPC)
          => \A t \in Token : RequestEvidence(t)' => RequestEvidence(t)
  BY <1>1 DEF Goto, RequestEvidence
<1>5. \A t, v, l : Take(p, t, v, l)
          => \A u \in Token : RequestEvidence(u)' => RequestEvidence(u) \/ (l \in LeavingPC /\ u = t)
  BY <1>1 DEF Take, RequestEvidence
<1> QED BY <1>3, <1>4, <1>5

\* Two kinds of evidence move at most, and every new piece has a reason.
LEMMA FoundedStep ==
    ASSUME UNCHANGED <<rowVars, pipeVars, deskVars, departures>>,
           \A t \in Token : RedisEvidence(t)' \/ RequestEvidence(t)' => Evidence(t) \/ Excused(t)'
    PROVE  Founded
<1>1. /\ \A t \in Token : RowEvidence(t)' <=> RowEvidence(t)
      /\ \A t \in Token : Underway(t)' <=> Underway(t)
      /\ \A t \in Token : DeskEvidence(t)' <=> DeskEvidence(t)
  BY EvidenceFrame DEF rowVars, pipeVars, deskVars
<1> HIDE DEF RowEvidence, Underway, DeskEvidence, RedisEvidence, RequestEvidence, Excused
<1> QED BY <1>1 DEF Founded, Evidence

\* An exit is authorised on evidence only: a row or a live status that says
\* checked in, or a cached book-out (verification.py 366-484).
LEMMA ExitIsFounded ==
    ASSUME TypeInv, NEW p \in Verifier, ExitStep(p)
    PROVE  Founded
<1>0. RequestInv /\ QueueTypeOK /\ RedisTypeOK
  BY DEF TypeInv
<1>1. \A t \in Token : RequestEvidence(t) \/ RedisEvidence(t) \/ RowEvidence(t) => Evidence(t)
  BY DEF Evidence
<1>2. ASSUME RemoveFromCache(bookoutCache, code[p]) = bookoutCache', UNCHANGED live
      PROVE  \A t \in Token : RedisEvidence(t)' => RedisEvidence(t)
  BY <1>0, <1>2, DistinctAssumption DEF RemoveFromCache, RedisEvidence, RedisTypeOK
<1>3. CASE ConsumeExit(p)
  <2> DEFINE t == Cached(bookoutCache, code[p])
  <2>1. t # NoToken => t \in Token /\ RedisEvidence(t)
    BY <1>0, <1>3 DEF ConsumeExit, Cached, RedisEvidence, RedisTypeOK, RequestInv
  <2>2. \A u \in Token : RequestEvidence(u)' => RequestEvidence(u) \/ (t # NoToken /\ u = t)
    <3>1. "getExit" \notin LeavingPC /\ "findExit" \notin LeavingPC
      BY DEF LeavingPC
    <3> HIDE DEF t, RequestEvidence
    <3>2. CASE ~redisUp \/ t = NoToken
      BY <1>0, <1>3, <3>1, <3>2, EvidenceMoves DEF ConsumeExit, t
    <3>3. CASE redisUp /\ t # NoToken
      BY <1>0, <1>3, <3>3, EvidenceMoves DEF ConsumeExit, t
    <3> QED BY <3>2, <3>3
  <2> HIDE DEF t, RequestEvidence, RedisEvidence
  <2> QED BY <1>1, <1>2, <1>3, <2>1, <2>2, FoundedStep DEF ConsumeExit, histVars
<1>4. CASE GetExit(p)
  <2> DEFINE t == Cached(bookoutCache, code[p])
  <2>1. t # NoToken => t \in Token /\ RedisEvidence(t)
    BY <1>0, <1>4 DEF GetExit, Cached, RedisEvidence, RedisTypeOK, RequestInv
  <2>2. \A u \in Token : RequestEvidence(u)' => RequestEvidence(u) \/ (t # NoToken /\ u = t)
    <3>1. "findExit" \notin LeavingPC
      BY DEF LeavingPC
    <3> HIDE DEF t, RequestEvidence
    <3> QED BY <1>0, <1>4, <3>1, EvidenceMoves DEF GetExit, t
  <2>3. \A u \in Token : RedisEvidence(u)' <=> RedisEvidence(u)
    BY <1>4, EvidenceFrame DEF GetExit, redisVars
  <2> HIDE DEF t, RequestEvidence, RedisEvidence
  <2> QED BY <1>1, <1>4, <2>1, <2>2, <2>3, FoundedStep DEF GetExit, histVars
<1>5. CASE DeleteExit(p)
  <2>1. \A u \in Token : RequestEvidence(u)' => RequestEvidence(u)
    <3>1. "findExit" \notin LeavingPC /\ "deleteExit" \in LeavingPC
      BY DEF LeavingPC
    <3> HIDE DEF RequestEvidence
    <3> QED BY <1>0, <1>5, <3>1, EvidenceMoves DEF DeleteExit
  <2> HIDE DEF RequestEvidence, RedisEvidence
  <2> QED BY <1>1, <1>2, <1>5, <2>1, FoundedStep DEF DeleteExit, histVars
<1>6. CASE ClaimExit(p) \/ CheckExit(p) \/ ClaimExitNX(p)
  <2>1. \A u \in Token : RequestEvidence(u)' => RequestEvidence(u)
    <3>1. {"claimExit", "checkExit", "claimExitNX"} \subseteq LeavingPC
      BY DEF LeavingPC
    <3> HIDE DEF RequestEvidence
    <3> QED BY <1>0, <1>6, <3>1, EvidenceMoves DEF ClaimExit, CheckExit, ClaimExitNX
  <2>2. \A u \in Token : RedisEvidence(u)' <=> RedisEvidence(u)
    BY <1>6, EvidenceFrame DEF ClaimExit, CheckExit, ClaimExitNX, redisVars
  <2> HIDE DEF RequestEvidence, RedisEvidence
  <2> QED BY <1>1, <1>6, <2>1, <2>2, FoundedStep DEF ClaimExit, CheckExit, ClaimExitNX, histVars
<1>7. CASE FindExit(p)
  <2>1. \A u \in Token : RequestEvidence(u)' => RequestEvidence(u) \/ u \in ExitRows(code[p])
    <3>1. "findByEntryCode" \notin LeavingPC /\ "checkEntry" \notin LeavingPC
      BY DEF LeavingPC
    <3> HIDE DEF RequestEvidence
    <3> QED BY <1>0, <1>7, <3>1, EvidenceMoves DEF FindExit
  <2>2. \A u \in ExitRows(code[p]) : RowEvidence(u)
    BY DEF ExitRows, RowEvidence
  <2>3. \A u \in Token : RedisEvidence(u)' <=> RedisEvidence(u)
    BY <1>7, EvidenceFrame DEF FindExit, redisVars
  <2> HIDE DEF RequestEvidence, RedisEvidence, RowEvidence
  <2> QED BY <1>1, <1>7, <2>1, <2>2, <2>3, FoundedStep DEF FindExit, histVars
<1>8. CASE FindByEntryCode(p)
  <2>1. \A u \in Token : RequestEvidence(u)' => RequestEvidence(u) \/ EffectiveStatus(u) = "checked_in"
    <3> HIDE DEF RequestEvidence
    <3> QED BY <1>0, <1>8, EvidenceMoves DEF FindByEntryCode
  <2>2. \A u \in Token : EffectiveStatus(u) = "checked_in" => RowEvidence(u) \/ RedisEvidence(u)
    BY DEF EffectiveStatus, RowEvidence, RedisEvidence
  <2>3. \A u \in Token : RedisEvidence(u)' <=> RedisEvidence(u)
    BY <1>8, EvidenceFrame DEF FindByEntryCode, redisVars
  <2> HIDE DEF RequestEvidence, RedisEvidence, RowEvidence
  <2> QED BY <1>1, <1>8, <2>1, <2>2, <2>3, FoundedStep DEF FindByEntryCode, histVars
<1>9. CASE LiveOut(p)
  <2>1. "liveOut" \in LeavingPC
    BY DEF LeavingPC
  <2>2. RequestEvidence(tok[p])
    BY <1>9, <2>1 DEF LiveOut, RequestEvidence
  <2>3. \A u \in Token : RequestEvidence(u)' => RequestEvidence(u)
    <3> HIDE DEF RequestEvidence
    <3> QED BY <1>0, <1>9, <2>1, EvidenceMoves DEF LiveOut
  <2>4. \A u \in Token : RedisEvidence(u)' => RedisEvidence(u) \/ u = tok[p]
    BY <1>0, <1>9 DEF LiveOut, AfterLive, RedisEvidence, RedisTypeOK
  <2> HIDE DEF RequestEvidence, RedisEvidence
  <2> QED BY <1>1, <1>9, <2>2, <2>3, <2>4, FoundedStep DEF LiveOut, histVars
<1>10. CASE QueueOut(p)
  <2>1. "queueOut" \in LeavingPC
    BY DEF LeavingPC
  <2>2. RequestEvidence(tok[p]) /\ tok[p] \in Token
    BY <1>0, <1>10, <2>1 DEF QueueOut, RequestEvidence, RequestInv, TokenPC
  <2>3. \A u \in Token : RequestEvidence(u)' => RequestEvidence(u)
    <3> HIDE DEF RequestEvidence
    <3> QED BY <1>0, <1>10, EvidenceMoves DEF QueueOut
  <2>4. \A u \in Token : Underway(u)' \/ RowEvidence(u)' => Underway(u) \/ RowEvidence(u) \/ u = tok[p]
    <3> HIDE DEF Underway
    <3> QED BY <1>0, <1>10, <2>2, PersistEvents DEF QueueOut, RowEvidence
  <2>5. \A u \in Token : departures'[u] > 0 => departures[u] > 0 \/ u = tok[p]
    BY <1>10 DEF QueueOut, TypeInv, HistoryTypeOK
  <2>6. \A u \in Token : (RedisEvidence(u)' <=> RedisEvidence(u)) /\ (DeskEvidence(u)' <=> DeskEvidence(u))
    BY <1>10, EvidenceFrame DEF QueueOut, redisVars, deskVars
  <2> HIDE DEF RequestEvidence, RedisEvidence, RowEvidence, DeskEvidence, Underway, Excused
  <2> QED BY <2>2, <2>3, <2>4, <2>5, <2>6 DEF Founded, Evidence
<1> QED BY <1>3, <1>4, <1>5, <1>6, <1>7, <1>8, <1>9, <1>10 DEF ExitStep

LEMMA BeginIsFounded ==
    ASSUME TypeInv, NEW p \in Verifier, RequestStart(p)
    PROVE  Founded
<1>1. "checkEntry" \notin LeavingPC /\ "consumeExit" \notin LeavingPC
  BY DEF LeavingPC
<1>2. \A t \in Token : RequestEvidence(t)' => RequestEvidence(t)
  BY <1>1 DEF RequestStart, Arrive, RequestEvidence, TypeInv, RequestInv, RequestTypeOK
<1>3. UNCHANGED <<rowVars, pipeVars, deskVars, departures, live, bookoutCache>>
  BY DEF RequestStart, Arrive, histVars, redisVars
<1>4. \A t \in Token : RedisEvidence(t)' <=> RedisEvidence(t)
  BY <1>3, EvidenceFrame
<1> HIDE DEF RequestEvidence, RedisEvidence
<1> QED BY <1>2, <1>3, <1>4, FoundedStep DEF Evidence

\* An entry brings its own reason: the visitor came (token_state.py 75-90).
LEMMA EntryIsFounded ==
    ASSUME TypeInv, NEW p \in Verifier, EntryStep(p)
    PROVE  Founded
<1>0. RequestInv /\ QueueTypeOK /\ RedisTypeOK
  BY DEF TypeInv
<1>1. CASE \/ CheckEntry(p) \/ ConsumeEntry(p) \/ GetEntry(p) \/ DeleteEntry(p) \/ ClaimEntry(p)
           \/ FindEntry(p) \/ ClaimEntryNX(p)
  <2>1. {"consumeEntry", "getEntry", "findEntry", "deleteEntry", "claimEntry", "claimEntryNX", "liveIn"}
            \cap LeavingPC = {}
    BY DEF LeavingPC
  <2>2. \A t \in Token : RequestEvidence(t)' => RequestEvidence(t)
    <3> HIDE DEF RequestEvidence
    <3>1. CASE CheckEntry(p) \/ ClaimEntry(p) \/ ClaimEntryNX(p)
      BY <1>0, <2>1, <3>1, EvidenceMoves DEF CheckEntry, ClaimEntry, ClaimEntryNX
    <3>2. CASE ConsumeEntry(p) \/ GetEntry(p) \/ DeleteEntry(p) \/ FindEntry(p)
      BY <1>0, <2>1, <3>2, EvidenceMoves DEF ConsumeEntry, GetEntry, DeleteEntry, FindEntry
    <3> QED BY <1>1, <3>1, <3>2
  <2>3. UNCHANGED <<rowVars, pipeVars, deskVars, departures, live, bookoutCache>>
    BY <1>1 DEF CheckEntry, ConsumeEntry, GetEntry, DeleteEntry, ClaimEntry, FindEntry, ClaimEntryNX,
                histVars, redisVars
  <2>4. \A t \in Token : RedisEvidence(t)' <=> RedisEvidence(t)
    BY <2>3, EvidenceFrame
  <2> HIDE DEF RequestEvidence, RedisEvidence
  <2> QED BY <2>2, <2>3, <2>4, FoundedStep DEF Evidence
<1>2. CASE LiveIn(p)
  <2>1. tok[p] \in entered'
    BY <1>2 DEF LiveIn
  <2>2. \A t \in Token : Excused(t)' \/ t # tok[p]
    BY <2>1 DEF Excused
  <2>3. \A u \in Token : RedisEvidence(u)' => RedisEvidence(u) \/ u = tok[p]
    BY <1>0, <1>2 DEF LiveIn, AfterLive, RedisEvidence, RedisTypeOK
  <2>4. \A u \in Token : RequestEvidence(u)' => RequestEvidence(u) \/ u = tok[p]
    BY <1>0, <1>2 DEF LiveIn, Goto, RequestEvidence, RequestInv, RequestTypeOK
  <2> HIDE DEF RequestEvidence, RedisEvidence, Excused
  <2> QED BY <1>2, <2>2, <2>3, <2>4, FoundedStep DEF LiveIn, Evidence
<1>3. CASE QueueIn(p)
  <2>1. "queueIn" \in LeavingPC
    BY DEF LeavingPC
  <2>2. RequestEvidence(tok[p]) /\ tok[p] \in Token
    BY <1>0, <1>3, <2>1 DEF QueueIn, RequestEvidence, RequestInv, TokenPC
  <2>3. \A u \in Token : RequestEvidence(u)' => RequestEvidence(u)
    <3> HIDE DEF RequestEvidence
    <3> QED BY <1>0, <1>3, EvidenceMoves DEF QueueIn
  <2>4. \A u \in Token : Underway(u)' \/ RowEvidence(u)' => Underway(u) \/ RowEvidence(u) \/ u = tok[p]
    <3> HIDE DEF Underway
    <3> QED BY <1>0, <1>3, <2>2, PersistEvents DEF QueueIn, RowEvidence
  <2>5. departures' = departures
    BY <1>3 DEF QueueIn
  <2>6. \A u \in Token : (RedisEvidence(u)' <=> RedisEvidence(u)) /\ (DeskEvidence(u)' <=> DeskEvidence(u))
    BY <1>3, EvidenceFrame DEF QueueIn, redisVars, deskVars
  <2> HIDE DEF RequestEvidence, RedisEvidence, RowEvidence, DeskEvidence, Underway, Excused
  <2> QED BY <2>2, <2>3, <2>4, <2>5, <2>6 DEF Founded, Evidence
<1> QED BY <1>1, <1>2, <1>3 DEF EntryStep

\* A book-out or checkout starts on a status that is neither pending nor
\* checked out (tokens.py 278-291 and 351-364).
LEMMA DeskStartIsFounded ==
    ASSUME TypeInv, NEW i \in Desk, DeskStart(i)
    PROVE  Founded
<1>1. UNCHANGED <<status, queue, batch, live, bookoutCache, pc, tok, departures>>
  BY DEF DeskStart, DrawEntryCode, StartBookout, StartCheckout, rowVars, pipeVars, redisVars, reqVars,
         histVars
<1>2. \A t \in Token : status[t] # "absent" /\ MayLeave(EffectiveStatus(t))
                           => RowEvidence(t) \/ RedisEvidence(t)
  BY DEF MayLeave, EffectiveStatus, RowEvidence, RedisEvidence, TypeInv, QueueTypeOK, RowStatus
<1>3. \A t \in Token : DeskEvidence(t)' => DeskEvidence(t) \/ RowEvidence(t) \/ RedisEvidence(t)
  <2>1. dpc \in [Desk -> DeskPC] /\ dtok \in [Desk -> Token \cup {NoToken}]
    BY DEF TypeInv, DeskInv, DeskTypeOK
  <2>2. CASE \E t \in Token, c \in Code : DrawEntryCode(i, t, c)
    BY <2>1, <2>2 DEF DrawEntryCode, Open, DeskEvidence, LeavingDeskPC
  <2>3. ASSUME NEW t \in Token, StartBookout(i, t) \/ StartCheckout(i, t)
        PROVE  \A u \in Token : DeskEvidence(u)' => DeskEvidence(u) \/ RowEvidence(u) \/ RedisEvidence(u)
    <3>1. RowEvidence(t) \/ RedisEvidence(t)
      BY <1>2, <2>3 DEF StartBookout, StartCheckout
    <3>2. \A u \in Token : DeskEvidence(u)' => DeskEvidence(u) \/ u = t
      BY <2>1, <2>3 DEF StartBookout, StartCheckout, Open, DeskEvidence
    <3> QED BY <3>1, <3>2
  <2> QED BY <2>2, <2>3 DEF DeskStart
<1>4. \A t \in Token : /\ RowEvidence(t)' <=> RowEvidence(t)
                       /\ Underway(t)' <=> Underway(t)
                       /\ RedisEvidence(t)' <=> RedisEvidence(t)
                       /\ RequestEvidence(t)' <=> RequestEvidence(t)
  BY <1>1, EvidenceFrame
<1> HIDE DEF RequestEvidence, RedisEvidence, RowEvidence, DeskEvidence, Underway
<1> QED BY <1>1, <1>3, <1>4 DEF Founded, Evidence

LEMMA DeskStepIsFounded ==
    ASSUME TypeInv, NEW i \in Desk, DeskStep(i)
    PROVE  Founded
<1>0. /\ dpc \in [Desk -> DeskPC] /\ dtok \in [Desk -> Token \cup {NoToken}]
      /\ QueueTypeOK /\ RedisTypeOK /\ RowTypeOK
      /\ dpc[i] # "idle" => dtok[i] \in Token
  BY DEF TypeInv, DeskInv, DeskTypeOK
<1>1. \A t \in Token : DeskEvidence(t)' => DeskEvidence(t)
  <2>1. CASE \/ InsertPass(i) \/ CachePass(i) \/ CacheBookout(i) \/ DeskQueue(i) \/ DeskForget(i)
             \/ DeskForgetAgain(i) \/ NoCodeFree(i)
    BY <1>0, <2>1 DEF InsertPass, CachePass, CacheBookout, DeskQueue, DeskForget, DeskForgetAgain,
                      NoCodeFree, DeskGoto, Close, DeskEvidence, LeavingDeskPC
  <2>2. CASE SetBookout(i) \/ DeskLive(i) \/ \E c \in Code : DrawBookoutCode(i, c)
    BY <1>0, <2>2 DEF SetBookout, DeskLive, DrawBookoutCode, DeskGoto, DeskEvidence, LeavingDeskPC
  <2> QED BY <2>1, <2>2 DEF DeskStep
<1>2. UNCHANGED <<pc, tok>>
  BY DEF DeskStep, InsertPass, CachePass, SetBookout, CacheBookout, DeskLive, DeskQueue, DeskForget,
         DeskForgetAgain, NoCodeFree, DrawBookoutCode, reqVars
<1>3. \A t \in Token : RequestEvidence(t)' <=> RequestEvidence(t)
  BY <1>2, EvidenceFrame
<1>4. dpc[i] \in LeavingDeskPC => DeskEvidence(dtok[i])
  BY <1>0 DEF DeskEvidence
<1>5. CASE DeskQueue(i)
  <2>1. dtok[i] \in Token /\ DeskEvidence(dtok[i])
    BY <1>0, <1>4, <1>5 DEF DeskQueue, LeavingDeskPC
  <2>2. \A u \in Token : Underway(u)' \/ RowEvidence(u)' => Underway(u) \/ RowEvidence(u) \/ u = dtok[i]
    <3> HIDE DEF Underway
    <3> QED BY <1>0, <1>5, <2>1, PersistEvents DEF DeskQueue, RowEvidence
  <2>3. \A u \in Token : departures'[u] > 0 => departures[u] > 0 \/ u = dtok[i]
    BY <1>5 DEF DeskQueue, TypeInv, HistoryTypeOK
  <2>4. \A u \in Token : RedisEvidence(u)' <=> RedisEvidence(u)
    BY <1>5, EvidenceFrame DEF DeskQueue, redisVars
  <2> HIDE DEF RequestEvidence, RedisEvidence, RowEvidence, DeskEvidence, Underway, Excused
  <2> QED BY <1>1, <1>3, <2>1, <2>2, <2>3, <2>4 DEF Founded, Evidence
<1>6. CASE ~DeskQueue(i)
  <2>1. UNCHANGED <<queue, batch, departures>>
    BY <1>6 DEF DeskStep, InsertPass, CachePass, SetBookout, CacheBookout, DeskLive, DeskForget,
                DeskForgetAgain, NoCodeFree, DrawBookoutCode, pipeVars, histVars
  <2>2. \A u \in Token : RowEvidence(u)' => RowEvidence(u)
    <3>1. CASE InsertPass(i)
      BY <1>0, <3>1 DEF InsertPass, RowEvidence, QueueTypeOK
    <3>2. CASE ~InsertPass(i)
      BY <1>6, <3>2, EvidenceFrame DEF DeskStep, CachePass, SetBookout, CacheBookout, DeskLive, DeskForget,
                DeskForgetAgain, NoCodeFree, DrawBookoutCode, rowVars
    <3> QED BY <3>1, <3>2
  <2>3. \A u \in Token : RedisEvidence(u)' => RedisEvidence(u) \/ (u = dtok[i] /\ DeskEvidence(u))
    <3>1. CASE InsertPass(i) \/ CachePass(i) \/ SetBookout(i) \/ NoCodeFree(i) \/ \E c \in Code : DrawBookoutCode(i, c)
      BY <3>1, EvidenceFrame DEF InsertPass, CachePass, SetBookout, NoCodeFree, DrawBookoutCode, redisVars
    <3>2. CASE CacheBookout(i)
      <4>1. DeskEvidence(dtok[i])
        BY <1>4, <3>2 DEF CacheBookout, LeavingDeskPC
      <4>2. \A u \in Token : RedisEvidence(u)' => RedisEvidence(u) \/ u = dtok[i]
        BY <1>0, <3>2 DEF CacheBookout, PutInCache, RedisEvidence, RedisTypeOK
      <4> QED BY <4>1, <4>2
    <3>3. CASE DeskLive(i)
      <4>1. DeskEvidence(dtok[i])
        BY <1>4, <3>3 DEF DeskLive, LeavingDeskPC
      <4>2. \A u \in Token : RedisEvidence(u)' => RedisEvidence(u) \/ u = dtok[i]
        BY <1>0, <3>3 DEF DeskLive, AfterLive, RedisEvidence, RedisTypeOK
      <4> QED BY <4>1, <4>2
    <3>4. CASE DeskForget(i) \/ DeskForgetAgain(i)
      BY <1>0, <3>4, DistinctAssumption
      DEF DeskForget, DeskForgetAgain, RemoveFromCache, RedisEvidence, RedisTypeOK
    <3> QED BY <1>6, <3>1, <3>2, <3>3, <3>4 DEF DeskStep
  <2>4. \A u \in Token : Underway(u)' <=> Underway(u)
    BY <2>1, EvidenceFrame
  <2> HIDE DEF RequestEvidence, RedisEvidence, RowEvidence, DeskEvidence, Underway, Excused
  <2> QED BY <1>1, <1>3, <2>1, <2>2, <2>3, <2>4 DEF Founded, Evidence
<1> QED BY <1>5, <1>6

\* The worker moves evidence from the queue to the row; time gives the other
\* reason, a pass that ran out; the rest takes evidence away.
LEMMA EnvironmentIsFounded ==
    ASSUME TypeInv,
           \/ Expiry \/ CleanupExpiredTokens \/ ApiCrash \/ WorkerStep \/ NetworkStep
           \/ UNCHANGED vars
    PROVE  Founded
<1>0. RequestInv /\ QueueTypeOK /\ RedisTypeOK /\ RowTypeOK
  BY DEF TypeInv
<1>1. departures' = departures
  BY DEF Expiry, VisitorCacheExpires, BookoutCacheExpires, ClaimExpires, PassExpires, BookoutExpires,
         LiveExpires, CleanupExpiredTokens, ApiCrash, WorkerStep, NetworkStep, vars, histVars
<1>2. CASE ApiCrash
  <2>1. \A t \in Token : ~RequestEvidence(t)' /\ ~DeskEvidence(t)'
    BY <1>2 DEF ApiCrash, RequestEvidence, DeskEvidence, LeavingPC, LeavingDeskPC
  <2>2. UNCHANGED <<status, queue, batch, live, bookoutCache>>
    BY <1>2 DEF ApiCrash, rowVars, redisVars
  <2>3. \A t \in Token : /\ RowEvidence(t)' <=> RowEvidence(t)
                         /\ Underway(t)' <=> Underway(t)
                         /\ RedisEvidence(t)' <=> RedisEvidence(t)
    BY <2>2, EvidenceFrame
  <2> HIDE DEF RequestEvidence, RedisEvidence, RowEvidence, DeskEvidence, Underway
  <2> QED BY <1>1, <2>1, <2>3 DEF Founded, Evidence
<1>3. CASE ~ApiCrash
  <2>1. UNCHANGED <<pc, tok, dpc, dtok>>
    BY <1>3 DEF Expiry, VisitorCacheExpires, BookoutCacheExpires, ClaimExpires, PassExpires,
                BookoutExpires, LiveExpires, CleanupExpiredTokens, WorkerStep, NetworkStep, vars,
                reqVars, deskVars
  <2>2. \A t \in Token : (RequestEvidence(t)' <=> RequestEvidence(t)) /\ (DeskEvidence(t)' <=> DeskEvidence(t))
    BY <2>1, EvidenceFrame
  <2>3. \A t \in Token : RedisEvidence(t)' => RedisEvidence(t)
    <3>1. CASE Expiry
      BY <1>0, <3>1, DistinctAssumption
      DEF Expiry, VisitorCacheExpires, BookoutCacheExpires, ClaimExpires, PassExpires, BookoutExpires,
          LiveExpires, redisVars, RedisEvidence, RedisTypeOK
    <3>2. CASE ~Expiry
      <4>1. UNCHANGED <<live, bookoutCache>>
        BY <1>3, <3>2 DEF CleanupExpiredTokens, WorkerStep, NetworkStep, vars, redisVars
      <4> QED BY <4>1, EvidenceFrame
    <3> QED BY <3>1, <3>2
  <2>4. \A t \in Token : Underway(t)' \/ RowEvidence(t)' => Underway(t) \/ RowEvidence(t) \/ Excused(t)'
    <3>1. CASE WorkerStep
      <4>1. (\E d \in Drainer : DrainStep(d)) \/ DrainFault
        BY <3>1 DEF WorkerStep
      <4> HIDE DEF Underway
      <4> QED BY <1>0, <4>1, DrainEvents DEF RowEvidence
    <3>2. CASE CleanupExpiredTokens
      <4>1. UNCHANGED <<queue, batch>> /\ expired' = expired
        BY <3>2 DEF CleanupExpiredTokens, pipeVars
      <4>2. \A t \in Token : RowEvidence(t)' => RowEvidence(t) \/ expired'[t]
        BY <3>2, <4>1 DEF CleanupExpiredTokens, StalePasses, RowEvidence
      <4> HIDE DEF Underway, RowEvidence
      <4> QED BY <4>1, <4>2, EvidenceFrame DEF Excused
    <3>3. CASE Expiry \/ NetworkStep \/ UNCHANGED vars
      <4>1. UNCHANGED <<status, queue, batch>>
        BY <3>3 DEF Expiry, VisitorCacheExpires, BookoutCacheExpires, ClaimExpires, PassExpires,
                    BookoutExpires, LiveExpires, NetworkStep, vars, rowVars, pipeVars
      <4> QED BY <4>1, EvidenceFrame
    <3> QED BY <1>3, <3>1, <3>2, <3>3
  <2> HIDE DEF RequestEvidence, RedisEvidence, RowEvidence, DeskEvidence, Underway, Excused
  <2> QED BY <1>1, <2>2, <2>3, <2>4 DEF Founded, Evidence
<1> QED BY <1>2, <1>3

LEMMA NextIsFounded == TypeInv /\ [Next]_vars => Founded
BY BeginIsFounded, ExitIsFounded, EntryIsFounded, DeskStartIsFounded, DeskStepIsFounded,
   EnvironmentIsFounded
DEF Next

LEMMA DepartureInit == Init => DepartureInv
<1> SUFFICES ASSUME Init PROVE DepartureInv
  OBVIOUS
<1>1. \A t \in Token : ~Underway(t)
  BY DEF Init, QueueInit, Underway, Mentioned
<1>2. \A t \in Token : ~RowEvidence(t) /\ ~RedisEvidence(t) /\ ~RequestEvidence(t) /\ ~DeskEvidence(t)
  BY DistinctAssumption
  DEF Init, RowEvidence, RedisEvidence, RequestEvidence, DeskEvidence, LeavingPC, LeavingDeskPC
<1>3. \A t \in Token : ~(departures[t] > 0)
  BY DEF Init
<1> QED BY <1>1, <1>2, <1>3 DEF DepartureInv, Evidence

LEMMA NextKeepsDepartures == TypeInv /\ DepartureInv /\ [Next]_vars => DepartureInv'
<1> HIDE DEF Excused, Evidence
<1> QED BY NextIsFounded, ExcusedStays DEF DepartureInv, Founded

\* With any number of passes, gate and desk requests, outages, crashes and
\* failed batches, nobody is checked out who neither came nor let the pass run
\* out (tokens.py 278-291 and 351-364, verification.py 366-484).
THEOREM DeparturesJustified == Spec => []DepartureJustified
<1>1. DepartureInv => DepartureJustified
  BY DEF DepartureInv, DepartureJustified, Excused
<1>2. Spec => []DepartureInv
  BY DepartureInit, NextKeepsDepartures, TypeInvariance, PTL DEF Spec
<1> QED BY <1>1, <1>2, PTL

-----------------------------------------------------------------------------
(* The way of an admission to its row. *)

\* Where a request holds a pass it is to let in.
EnteringPC == {"deleteEntry", "claimEntry", "claimEntryNX", "liveIn", "queueIn"}

CacheEvidence(t) == \E c \in Code : visitorCache[c] = t
EntryEvidence(t) == \E p \in Verifier : pc[p] \in EnteringPC /\ tok[p] = t
IssueEvidence(t) == \E i \in Desk : dpc[i] = "cachePass" /\ dtok[i] = t

\* Anything at all is known of t.
Touched(t) ==
    \/ Evidence(t) \/ departures[t] > 0 \/ Excused(t) \/ Arrived(t)
    \/ CacheEvidence(t) \/ EntryEvidence(t) \/ IssueEvidence(t) \/ entryCode[t] # NoCode

IssueInv ==
    /\ \A t \in Token : Touched(t) => status[t] # "absent"
    /\ \A i \in Desk, t \in Token : dpc[i] = "insert" /\ dtok[i] = t =>
           status[t] = "absent" /\ \A j \in Desk \ {i} : dtok[j] # t

DeliveryInv == IssueInv /\ AdmissionReachesRow

-----------------------------------------------------------------------------
(* Which steps make a row. *)

\* Queueing or writing an event makes no row, and takes none away.
LEMMA PersistKeepsAbsence ==
    ASSUME QueueTypeOK, NEW t \in Token, NEW to \in {"checked_in", "checked_out"}, Persist(t, to),
           status[t] # "absent"
    PROVE  \A u \in Token : status'[u] = "absent" <=> status[u] = "absent"
BY PersistEvents

\* Only the INSERT makes a row (tokens.py 216-226).
LEMMA SameRows ==
    ASSUME TypeInv, IssueInv, [Next]_vars, \A i \in Desk : ~InsertPass(i)
    PROVE  \A u \in Token : status'[u] = "absent" <=> status[u] = "absent"
<1>0. QueueTypeOK /\ RequestInv /\ DeskInv
  BY DEF TypeInv
<1>1. ASSUME NEW p \in Verifier, QueueIn(p) \/ QueueOut(p)
      PROVE  \A u \in Token : status'[u] = "absent" <=> status[u] = "absent"
  <2>1. tok[p] \in Token /\ RequestEvidence(tok[p])
    BY <1>0, <1>1 DEF QueueIn, QueueOut, RequestInv, TokenPC, RequestEvidence, LeavingPC
  <2>2. status[tok[p]] # "absent"
    BY <2>1 DEF IssueInv, Touched, Evidence
  <2> QED BY <1>0, <1>1, <2>1, <2>2, PersistKeepsAbsence DEF QueueIn, QueueOut
<1>2. ASSUME NEW i \in Desk, DeskQueue(i)
      PROVE  \A u \in Token : status'[u] = "absent" <=> status[u] = "absent"
  <2>1. dtok[i] \in Token /\ DeskEvidence(dtok[i])
    BY <1>0, <1>2 DEF DeskQueue, DeskInv, DeskEvidence, LeavingDeskPC
  <2>2. status[dtok[i]] # "absent"
    BY <2>1 DEF IssueInv, Touched, Evidence
  <2> QED BY <1>0, <1>2, <2>1, <2>2, PersistKeepsAbsence DEF DeskQueue
<1>3. CASE WorkerStep
  <2>1. \A u \in Token : status'[u] = status[u] \/ (Underway(u) /\ status'[u] # "absent")
    <3>1. (\E d \in Drainer : DrainStep(d)) \/ DrainFault
      BY <1>3 DEF WorkerStep
    <3> HIDE DEF Underway
    <3> QED BY <1>0, <3>1, DrainEvents DEF Shown
  <2> HIDE DEF Underway
  <2> QED BY <2>1 DEF IssueInv, Touched, Evidence
<1>4. CASE CleanupExpiredTokens
  BY <1>4 DEF CleanupExpiredTokens, StalePasses
<1>5. CASE UNCHANGED status
  BY <1>5
<1>6. \/ UNCHANGED status \/ WorkerStep \/ CleanupExpiredTokens
      \/ \E p \in Verifier : QueueIn(p) \/ QueueOut(p)
      \/ \E i \in Desk : DeskQueue(i)
  BY DEF Next, RequestStart, Arrive, ExitStep, ConsumeExit, GetExit, DeleteExit, ClaimExit, FindExit,
         FindByEntryCode, CheckExit, ClaimExitNX, LiveOut, EntryStep, CheckEntry, ConsumeEntry, GetEntry,
         DeleteEntry, ClaimEntry, FindEntry, ClaimEntryNX, LiveIn, DeskStart, DrawEntryCode, StartBookout,
         StartCheckout, DeskStep, CachePass, SetBookout, CacheBookout, DeskLive, DeskForget,
         DeskForgetAgain, NoCodeFree, DrawBookoutCode, Expiry, VisitorCacheExpires, BookoutCacheExpires,
         ClaimExpires, PassExpires, BookoutExpires, LiveExpires, ApiCrash, NetworkStep, vars, rowVars
<1> QED BY <1>1, <1>2, <1>3, <1>4, <1>5, <1>6

-----------------------------------------------------------------------------
(* How each thing that is known of a pass comes about. *)

\* A visitor enters in LiveIn only, and only a row expires.
LEMMA ExcusedMoves ==
    ASSUME TypeInv, [Next]_vars
    PROVE  \A t \in Token : Excused(t)' => Excused(t) \/ EntryEvidence(t) \/ status[t] # "absent"
<1>1. CASE \E p \in Verifier : LiveIn(p)
  <2>1. PICK p \in Verifier : LiveIn(p)
    BY <1>1
  <2>2. entered' = entered \cup {tok[p]} /\ expired' = expired /\ EntryEvidence(tok[p])
    BY <2>1 DEF LiveIn, EntryEvidence, EnteringPC, rowMore
  <2> QED BY <2>2 DEF Excused
<1>2. CASE \E u \in Token : PassExpires(u)
  <2>1. PICK u \in Token : PassExpires(u)
    BY <1>2
  <2>2. \A t \in Token : expired'[t] => expired[t] \/ status[t] # "absent"
    BY <2>1 DEF PassExpires, TypeInv, RowTypeOK
  <2>3. entered' = entered
    BY <2>1 DEF PassExpires, histVars
  <2> QED BY <2>2, <2>3 DEF Excused
<1>3. CASE UNCHANGED <<entered, expired>>
  BY <1>3 DEF Excused
<1>4. \/ UNCHANGED <<entered, expired>>
      \/ \E p \in Verifier : LiveIn(p)
      \/ \E u \in Token : PassExpires(u)
  BY DEF Next, RequestStart, Arrive, ExitStep, ConsumeExit, GetExit, DeleteExit, ClaimExit, FindExit,
         FindByEntryCode, CheckExit, ClaimExitNX, LiveOut, QueueOut, EntryStep, CheckEntry, ConsumeEntry,
         GetEntry, DeleteEntry, ClaimEntry, FindEntry, ClaimEntryNX, QueueIn, DeskStart, DrawEntryCode,
         StartBookout, StartCheckout, DeskStep, InsertPass, CachePass, SetBookout, CacheBookout, DeskLive,
         DeskQueue, DeskForget, DeskForgetAgain, NoCodeFree, DrawBookoutCode, Expiry, VisitorCacheExpires,
         BookoutCacheExpires, ClaimExpires, BookoutExpires, LiveExpires, CleanupExpiredTokens, ApiCrash,
         WorkerStep, NetworkStep, vars, rowMore, histVars
<1> QED BY <1>1, <1>2, <1>3, <1>4

\* A check-in is answered in QueueIn only.
LEMMA ArrivedMoves ==
    ASSUME TypeInv, [Next]_vars
    PROVE  \/ \A t \in Token : Arrived(t)' <=> Arrived(t)
           \/ \E p \in Verifier : QueueIn(p) /\ \A t \in Token : Arrived(t)' => Arrived(t) \/ t = tok[p]
<1>1. ASSUME NEW p \in Verifier, QueueIn(p)
      PROVE  \A t \in Token : Arrived(t)' => Arrived(t) \/ t = tok[p]
  BY <1>1 DEF QueueIn, Arrived, TypeInv, HistoryTypeOK
<1>2. CASE UNCHANGED <<cacheIn, rowIn>>
  BY <1>2 DEF Arrived
<1>3. UNCHANGED <<cacheIn, rowIn>> \/ \E p \in Verifier : QueueIn(p)
  BY DEF Next, RequestStart, Arrive, ExitStep, ConsumeExit, GetExit, DeleteExit, ClaimExit, FindExit,
         FindByEntryCode, CheckExit, ClaimExitNX, LiveOut, QueueOut, EntryStep, CheckEntry, ConsumeEntry,
         GetEntry, DeleteEntry, ClaimEntry, FindEntry, ClaimEntryNX, LiveIn, DeskStart, DrawEntryCode,
         StartBookout, StartCheckout, DeskStep, InsertPass, CachePass, SetBookout, CacheBookout, DeskLive,
         DeskQueue, DeskForget, DeskForgetAgain, NoCodeFree, DrawBookoutCode, Expiry, VisitorCacheExpires,
         BookoutCacheExpires, ClaimExpires, PassExpires, BookoutExpires, LiveExpires, CleanupExpiredTokens,
         ApiCrash, WorkerStep, NetworkStep, vars, histVars
<1> QED BY <1>1, <1>2, <1>3

\* A pass is cached by the request that has just inserted it (tokens.py 228-240).
LEMMA CacheMoves ==
    ASSUME TypeInv, [Next]_vars
    PROVE  \A t \in Token : CacheEvidence(t)' => CacheEvidence(t) \/ IssueEvidence(t)
<1>0. visitorCache \in [Code -> Token \cup {NoToken}] /\ NoToken \notin Token
  BY DistinctAssumption DEF TypeInv, RedisTypeOK
<1>1. CASE \E i \in Desk : CachePass(i)
  <2>1. PICK i \in Desk : CachePass(i)
    BY <1>1
  <2>2. IssueEvidence(dtok[i])
    BY <2>1 DEF CachePass, IssueEvidence
  <2>3. \A t \in Token : CacheEvidence(t)' => CacheEvidence(t) \/ t = dtok[i]
    BY <1>0, <2>1 DEF CachePass, PutInCache, CacheEvidence
  <2> QED BY <2>2, <2>3
<1>2. CASE (\E p \in Verifier : ConsumeEntry(p) \/ DeleteEntry(p)) \/ \E c \in Code : VisitorCacheExpires(c)
  BY <1>0, <1>2 DEF ConsumeEntry, DeleteEntry, VisitorCacheExpires, RemoveFromCache, CacheEvidence
<1>3. CASE UNCHANGED visitorCache
  BY <1>3 DEF CacheEvidence
<1>4. \/ UNCHANGED visitorCache
      \/ \E i \in Desk : CachePass(i)
      \/ \E p \in Verifier : ConsumeEntry(p) \/ DeleteEntry(p)
      \/ \E c \in Code : VisitorCacheExpires(c)
  BY DEF Next, RequestStart, Arrive, ExitStep, ConsumeExit, GetExit, DeleteExit, ClaimExit, FindExit,
         FindByEntryCode, CheckExit, ClaimExitNX, LiveOut, QueueOut, EntryStep, CheckEntry, GetEntry,
         ClaimEntry, FindEntry, ClaimEntryNX, LiveIn, QueueIn, DeskStart, DrawEntryCode,
         StartBookout, StartCheckout, DeskStep, InsertPass, SetBookout, CacheBookout, DeskLive,
         DeskQueue, DeskForget, DeskForgetAgain, NoCodeFree, DrawBookoutCode, Expiry,
         BookoutCacheExpires, ClaimExpires, PassExpires, BookoutExpires, LiveExpires, CleanupExpiredTokens,
         ApiCrash, WorkerStep, NetworkStep, vars, redisVars
<1> QED BY <1>1, <1>2, <1>3, <1>4

LEMMA EntryEvidenceMoves ==
    ASSUME RequestInv, NEW p \in Verifier
    PROVE  /\ Finish(p) => \A t \in Token : EntryEvidence(t)' => EntryEvidence(t)
           /\ \A l : Goto(p, l) /\ (l \in EnteringPC => pc[p] \in EnteringPC)
                  => \A t \in Token : EntryEvidence(t)' => EntryEvidence(t)
           /\ \A t, v, l : Take(p, t, v, l)
                  => \A u \in Token : EntryEvidence(u)' => EntryEvidence(u) \/ (l \in EnteringPC /\ u = t)
<1>1. pc \in [Verifier -> {"idle"} \cup EntryPC \cup ExitPC] /\ tok \in [Verifier -> Token \cup {NoToken}]
  BY DEF RequestInv, RequestTypeOK
<1>2. "idle" \notin EnteringPC
  BY DEF EnteringPC
<1>3. Finish(p) => \A t \in Token : EntryEvidence(t)' => EntryEvidence(t)
  BY <1>1, <1>2 DEF Finish, EntryEvidence
<1>4. \A l : Goto(p, l) /\ (l \in EnteringPC => pc[p] \in EnteringPC)
          => \A t \in Token : EntryEvidence(t)' => EntryEvidence(t)
  BY <1>1 DEF Goto, EntryEvidence
<1>5. \A t, v, l : Take(p, t, v, l)
          => \A u \in Token : EntryEvidence(u)' => EntryEvidence(u) \/ (l \in EnteringPC /\ u = t)
  BY <1>1 DEF Take, EntryEvidence
<1> QED BY <1>3, <1>4, <1>5

\* A request holds a pass to let in that it found in the cache or by the code
\* of its row (verification.py 486-559).
LEMMA EntryMoves ==
    ASSUME TypeInv, [Next]_vars
    PROVE  \A t \in Token :
               EntryEvidence(t)' => EntryEvidence(t) \/ CacheEvidence(t) \/ entryCode[t] # NoCode
<1>0. RequestInv /\ NoCode \notin Code /\ visitorCache \in [Code -> Token \cup {NoToken}]
  BY DistinctAssumption DEF TypeInv, RedisTypeOK
<1>1. ASSUME NEW p \in Verifier, ExitStep(p)
      PROVE  \A t \in Token : EntryEvidence(t)' => EntryEvidence(t)
  <2>1. {"getExit", "findExit", "claimExit", "deleteExit", "liveOut", "findByEntryCode", "checkEntry", "checkExit",
         "claimExitNX", "queueOut"} \cap EnteringPC = {}
    BY DEF EnteringPC
  <2> HIDE DEF EntryEvidence
  <2>2. CASE ConsumeExit(p) \/ GetExit(p) \/ DeleteExit(p)
    BY <1>0, <2>1, <2>2, EntryEvidenceMoves DEF ConsumeExit, GetExit, DeleteExit
  <2>3. CASE FindExit(p) \/ FindByEntryCode(p)
    BY <1>0, <2>1, <2>3, EntryEvidenceMoves DEF FindExit, FindByEntryCode
  <2>4. CASE ClaimExit(p) \/ CheckExit(p) \/ ClaimExitNX(p) \/ LiveOut(p) \/ QueueOut(p)
    BY <1>0, <2>1, <2>4, EntryEvidenceMoves DEF ClaimExit, CheckExit, ClaimExitNX, LiveOut, QueueOut
  <2> QED BY <1>1, <2>2, <2>3, <2>4 DEF ExitStep
<1>2. ASSUME NEW p \in Verifier, ConsumeEntry(p) \/ GetEntry(p)
      PROVE  \A t \in Token : EntryEvidence(t)' => EntryEvidence(t) \/ CacheEvidence(t)
  <2> DEFINE u == Cached(visitorCache, code[p])
  <2>1. u # NoToken => CacheEvidence(u)
    BY <1>0, <1>2 DEF ConsumeEntry, GetEntry, Cached, CacheEvidence, RequestInv
  <2>2. "getEntry" \notin EnteringPC /\ "findEntry" \notin EnteringPC
    BY DEF EnteringPC
  <2> HIDE DEF EntryEvidence, CacheEvidence, u
  <2>3. CASE ConsumeEntry(p)
    BY <1>0, <2>1, <2>2, <2>3, EntryEvidenceMoves DEF ConsumeEntry, u
  <2>4. CASE GetEntry(p)
    BY <1>0, <2>1, <2>2, <2>4, EntryEvidenceMoves DEF GetEntry, u
  <2> QED BY <1>2, <2>3, <2>4
<1>3. ASSUME NEW p \in Verifier, FindEntry(p)
      PROVE  \A t \in Token : EntryEvidence(t)' => EntryEvidence(t) \/ entryCode[t] # NoCode
  <2>1. \A u \in EntryRows(code[p]) : entryCode[u] # NoCode
    BY <1>0, <1>3 DEF FindEntry, EntryRows, RequestInv
  <2> HIDE DEF EntryEvidence
  <2> QED BY <1>0, <1>3, <2>1, EntryEvidenceMoves DEF FindEntry
<1>4. ASSUME NEW p \in Verifier,
             CheckEntry(p) \/ DeleteEntry(p) \/ ClaimEntry(p) \/ ClaimEntryNX(p) \/ LiveIn(p) \/ QueueIn(p)
      PROVE  \A t \in Token : EntryEvidence(t)' => EntryEvidence(t)
  <2>1. /\ "consumeEntry" \notin EnteringPC /\ "findEntry" \notin EnteringPC
        /\ {"deleteEntry", "claimEntry", "claimEntryNX", "liveIn", "queueIn"} \subseteq EnteringPC
    BY DEF EnteringPC
  <2> HIDE DEF EntryEvidence
  <2>2. CASE CheckEntry(p) \/ DeleteEntry(p) \/ ClaimEntry(p)
    BY <1>0, <2>1, <2>2, EntryEvidenceMoves DEF CheckEntry, DeleteEntry, ClaimEntry
  <2>3. CASE ClaimEntryNX(p) \/ LiveIn(p) \/ QueueIn(p)
    BY <1>0, <2>1, <2>3, EntryEvidenceMoves DEF ClaimEntryNX, LiveIn, QueueIn
  <2> QED BY <1>4, <2>2, <2>3
<1>5. ASSUME NEW p \in Verifier, RequestStart(p)
      PROVE  \A t \in Token : EntryEvidence(t)' => EntryEvidence(t)
  <2>1. "checkEntry" \notin EnteringPC /\ "consumeExit" \notin EnteringPC
    BY DEF EnteringPC
  <2> QED BY <1>0, <1>5, <2>1 DEF RequestStart, Arrive, EntryEvidence, RequestInv, RequestTypeOK
<1>6. CASE ApiCrash
  BY <1>6 DEF ApiCrash, EntryEvidence, EnteringPC
<1>7. CASE UNCHANGED <<pc, tok>>
  BY <1>7 DEF EntryEvidence
<1>8. \/ UNCHANGED <<pc, tok>> \/ ApiCrash
      \/ \E p \in Verifier : RequestStart(p) \/ ExitStep(p) \/ EntryStep(p)
  BY DEF Next, DeskStart, DrawEntryCode,
         StartBookout, StartCheckout, DeskStep, InsertPass, CachePass, SetBookout, CacheBookout, DeskLive,
         DeskQueue, DeskForget, DeskForgetAgain, NoCodeFree, DrawBookoutCode, Expiry, VisitorCacheExpires,
         BookoutCacheExpires, ClaimExpires, PassExpires, BookoutExpires, LiveExpires, CleanupExpiredTokens,
         WorkerStep, NetworkStep, vars, reqVars
<1> HIDE DEF EntryEvidence, CacheEvidence
<1> QED BY <1>1, <1>2, <1>3, <1>4, <1>5, <1>6, <1>7, <1>8 DEF EntryStep

\* A pass gets its code, and goes on to the cache, in its INSERT
\* (tokens.py 216-226).
LEMMA IssueMoves ==
    ASSUME TypeInv, [Next]_vars
    PROVE  \A t \in Token :
               IssueEvidence(t)' \/ entryCode'[t] # NoCode
                   => IssueEvidence(t) \/ entryCode[t] # NoCode \/ status'[t] # "absent"
<1>0. /\ dpc \in [Desk -> DeskPC] /\ dtok \in [Desk -> Token \cup {NoToken}]
      /\ entryCode \in [Token -> Code \cup {NoCode}] /\ status \in [Token -> RowStatus]
  BY DEF TypeInv, DeskInv, DeskTypeOK, RowTypeOK, QueueTypeOK
<1>1. ASSUME NEW i \in Desk, InsertPass(i)
      PROVE  /\ dtok[i] \in Token => status'[dtok[i]] # "absent"
             /\ \A t \in Token : entryCode'[t] # entryCode[t] => t = dtok[i]
             /\ \A t \in Token : IssueEvidence(t)' => IssueEvidence(t) \/ t = dtok[i]
  BY <1>0, <1>1 DEF InsertPass, DeskGoto, IssueEvidence
<1>2. ASSUME NEW i \in Desk, DeskStart(i)
      PROVE  \A t \in Token : IssueEvidence(t)' => IssueEvidence(t)
  BY <1>0, <1>2 DEF DeskStart, DrawEntryCode, StartBookout, StartCheckout, Open, IssueEvidence
<1>3. ASSUME NEW i \in Desk, DeskStep(i), ~InsertPass(i)
      PROVE  \A t \in Token : IssueEvidence(t)' => IssueEvidence(t)
  <2>1. CASE CachePass(i) \/ CacheBookout(i) \/ DeskQueue(i) \/ DeskForget(i) \/ DeskForgetAgain(i) \/ NoCodeFree(i)
    BY <1>0, <2>1 DEF CachePass, CacheBookout, DeskQueue, DeskForget, DeskForgetAgain, NoCodeFree,
                      DeskGoto, Close, IssueEvidence
  <2>2. CASE SetBookout(i) \/ DeskLive(i) \/ \E c \in Code : DrawBookoutCode(i, c)
    BY <1>0, <2>2 DEF SetBookout, DeskLive, DrawBookoutCode, DeskGoto, IssueEvidence
  <2> QED BY <1>3, <2>1, <2>2 DEF DeskStep
<1>4. ASSUME ApiCrash \/ UNCHANGED <<dpc, dtok>>
      PROVE  \A t \in Token : IssueEvidence(t)' => IssueEvidence(t)
  BY <1>4 DEF ApiCrash, IssueEvidence
<1>5. \/ UNCHANGED <<dpc, dtok>> \/ ApiCrash
      \/ \E i \in Desk : DeskStart(i) \/ DeskStep(i)
  BY DEF Next, RequestStart, Arrive, ExitStep, ConsumeExit, GetExit, DeleteExit, ClaimExit, FindExit,
         FindByEntryCode, CheckExit, ClaimExitNX, LiveOut, QueueOut, EntryStep, CheckEntry, ConsumeEntry,
         GetEntry, DeleteEntry, ClaimEntry, FindEntry, ClaimEntryNX, LiveIn, QueueIn, Expiry,
         VisitorCacheExpires, BookoutCacheExpires, ClaimExpires, PassExpires, BookoutExpires, LiveExpires,
         CleanupExpiredTokens, WorkerStep, NetworkStep, vars, deskVars
<1>6. \/ entryCode' = entryCode
      \/ \E i \in Desk : InsertPass(i)
  BY DEF Next, RequestStart, Arrive, ExitStep, ConsumeExit, GetExit, DeleteExit, ClaimExit, FindExit,
         FindByEntryCode, CheckExit, ClaimExitNX, LiveOut, QueueOut, EntryStep, CheckEntry, ConsumeEntry,
         GetEntry, DeleteEntry, ClaimEntry, FindEntry, ClaimEntryNX, LiveIn, QueueIn, DeskStart,
         DrawEntryCode, StartBookout, StartCheckout, DeskStep, CachePass, SetBookout, CacheBookout,
         DeskLive, DeskQueue, DeskForget, DeskForgetAgain, NoCodeFree, DrawBookoutCode, Expiry,
         VisitorCacheExpires, BookoutCacheExpires, ClaimExpires, PassExpires, BookoutExpires, LiveExpires,
         CleanupExpiredTokens, ApiCrash, WorkerStep, NetworkStep, vars, rowMore
<1> HIDE DEF IssueEvidence
<1>7. \A t \in Token : IssueEvidence(t)' => IssueEvidence(t) \/ status'[t] # "absent"
  <2>1. CASE \E i \in Desk : InsertPass(i)
    BY <1>1, <2>1
  <2>2. CASE \E i \in Desk : DeskStart(i) \/ (DeskStep(i) /\ ~InsertPass(i))
    BY <1>2, <1>3, <2>2
  <2> QED BY <1>4, <1>5, <2>1, <2>2
<1>8. \A t \in Token : entryCode'[t] = entryCode[t] \/ status'[t] # "absent"
  BY <1>1, <1>6
<1> QED BY <1>7, <1>8

-----------------------------------------------------------------------------
(* The invariant. *)

LEMMA RowsStay ==
    ASSUME TypeInv, IssueInv, [Next]_vars
    PROVE  \A t \in Token : status[t] # "absent" => status'[t] # "absent"
<1>1. ASSUME NEW i \in Desk, InsertPass(i)
      PROVE  \A t \in Token : status[t] # "absent" => status'[t] # "absent"
  BY <1>1 DEF InsertPass, TypeInv, QueueTypeOK
<1> QED BY <1>1, SameRows

\* What becomes known of a pass was known, or its row is there.
LEMMA KnownHaveRows ==
    ASSUME TypeInv, IssueInv, [Next]_vars
    PROVE  \A t \in Token : Touched(t)' => status'[t] # "absent"
<1>1. ASSUME NEW t \in Token, Evidence(t)' \/ departures'[t] > 0 \/ Excused(t)'
      PROVE  Touched(t) \/ status[t] # "absent"
  <2> HIDE DEF Evidence, Excused, EntryEvidence
  <2> QED BY <1>1, NextIsFounded, ExcusedMoves DEF Founded, Touched
<1>2. ASSUME NEW t \in Token, Arrived(t)'
      PROVE  Touched(t)
  <2>1. Arrived(t) \/ \E p \in Verifier : QueueIn(p) /\ t = tok[p]
    BY <1>2, ArrivedMoves
  <2>2. ASSUME NEW p \in Verifier, QueueIn(p), t = tok[p]
        PROVE  EntryEvidence(t)
    BY <2>2 DEF QueueIn, EntryEvidence, EnteringPC
  <2> QED BY <2>1, <2>2 DEF Touched
<1>3. ASSUME NEW t \in Token, CacheEvidence(t)' \/ EntryEvidence(t)'
      PROVE  Touched(t)
  <2> HIDE DEF CacheEvidence, EntryEvidence, IssueEvidence
  <2> QED BY <1>3, CacheMoves, EntryMoves DEF Touched
<1>4. ASSUME NEW t \in Token, IssueEvidence(t)' \/ entryCode'[t] # NoCode
      PROVE  Touched(t) \/ status'[t] # "absent"
  <2> HIDE DEF IssueEvidence
  <2> QED BY <1>4, IssueMoves DEF Touched
<1>5. \A t \in Token : Touched(t) => status[t] # "absent"
  BY DEF IssueInv
<1>6. ASSUME NEW t \in Token, Touched(t)'
      PROVE  \/ Evidence(t)' \/ departures'[t] > 0 \/ Excused(t)' \/ Arrived(t)'
             \/ CacheEvidence(t)' \/ EntryEvidence(t)' \/ IssueEvidence(t)' \/ entryCode'[t] # NoCode
  BY <1>6 DEF Touched
<1> HIDE DEF Touched, Evidence, Excused, Arrived, CacheEvidence, EntryEvidence, IssueEvidence
<1> QED BY <1>1, <1>2, <1>3, <1>4, <1>5, <1>6, RowsStay

\* A pass to be inserted is at one desk (tokens.py 186-226).
LEMMA InsertAlone ==
    ASSUME TypeInv, IssueInv, [Next]_vars
    PROVE  \A i \in Desk, t \in Token : dpc'[i] = "insert" /\ dtok'[i] = t =>
               status'[t] = "absent" /\ \A j \in Desk \ {i} : dtok'[j] # t
<1>0. /\ dpc \in [Desk -> DeskPC] /\ dtok \in [Desk -> Token \cup {NoToken}] /\ NoToken \notin Token
      /\ status \in [Token -> RowStatus]
      /\ \A i \in Desk : dpc[i] # "idle" => dtok[i] \in Token
  BY DistinctAssumption DEF TypeInv, DeskInv, DeskTypeOK, QueueTypeOK
<1>1. \A i \in Desk, t \in Token : dpc[i] = "insert" /\ dtok[i] = t =>
          status[t] = "absent" /\ \A j \in Desk \ {i} : dtok[j] # t
  BY DEF IssueInv
<1>2. CASE \E i \in Desk : InsertPass(i)
  <2>1. PICK i \in Desk : InsertPass(i)
    BY <1>2
  <2>2. /\ dpc[i] = "insert" /\ dpc' = [dpc EXCEPT ![i] = "cachePass"] /\ dtok' = dtok
        /\ status' = [status EXCEPT ![dtok[i]] = "pending"]
    BY <2>1 DEF InsertPass, DeskGoto
  <2>3. ASSUME NEW j \in Desk, NEW t \in Token, dpc'[j] = "insert", dtok'[j] = t
        PROVE  status'[t] = "absent" /\ \A k \in Desk \ {j} : dtok'[k] # t
    <3>1. j # i /\ dpc[j] = "insert" /\ dtok[j] = t
      BY <1>0, <2>2, <2>3
    <3>2. status[t] = "absent" /\ \A k \in Desk \ {j} : dtok[k] # t
      BY <1>1, <3>1
    <3> QED BY <1>0, <2>2, <3>1, <3>2
  <2> QED BY <2>3
<1>3. CASE ~\E i \in Desk : InsertPass(i)
  <2>1. \A u \in Token : status'[u] = "absent" <=> status[u] = "absent"
    BY <1>3, SameRows
  <2>2. ASSUME NEW i \in Desk, NEW u \in Token, \E c \in Code : DrawEntryCode(i, u, c)
        PROVE  \A j \in Desk, t \in Token : dpc'[j] = "insert" /\ dtok'[j] = t =>
                   status[t] = "absent" /\ \A k \in Desk \ {j} : dtok'[k] # t
    BY <1>0, <1>1, <2>2 DEF DrawEntryCode, Open
  <2>3. ASSUME NEW i \in Desk, NEW u \in Token, StartBookout(i, u) \/ StartCheckout(i, u)
        PROVE  \A j \in Desk, t \in Token : dpc'[j] = "insert" /\ dtok'[j] = t =>
                   status[t] = "absent" /\ \A k \in Desk \ {j} : dtok'[k] # t
    BY <1>0, <1>1, <2>3 DEF StartBookout, StartCheckout, Open
  <2>4. ASSUME NEW i \in Desk, DeskStep(i), ~InsertPass(i)
        PROVE  \A j \in Desk, t \in Token : dpc'[j] = "insert" /\ dtok'[j] = t =>
                   status[t] = "absent" /\ \A k \in Desk \ {j} : dtok'[k] # t
    <3>1. /\ dpc'[i] # "insert" /\ dtok'[i] \in {dtok[i], NoToken}
          /\ \A j \in Desk \ {i} : dpc'[j] = dpc[j] /\ dtok'[j] = dtok[j]
      BY <1>0, <2>4 DEF DeskStep, CachePass, SetBookout, CacheBookout, DeskLive, DeskQueue, DeskForget,
                        DeskForgetAgain, NoCodeFree, DrawBookoutCode, DeskGoto, Close
    <3> QED BY <1>0, <1>1, <3>1
  <2>5. ASSUME ApiCrash
        PROVE  \A j \in Desk : dpc'[j] # "insert"
    BY <2>5 DEF ApiCrash
  <2>6. \/ UNCHANGED <<dpc, dtok>> \/ ApiCrash
        \/ \E i \in Desk : DeskStart(i) \/ DeskStep(i)
    BY DEF Next, RequestStart, Arrive, ExitStep, ConsumeExit, GetExit, DeleteExit, ClaimExit, FindExit,
           FindByEntryCode, CheckExit, ClaimExitNX, LiveOut, QueueOut, EntryStep, CheckEntry, ConsumeEntry,
           GetEntry, DeleteEntry, ClaimEntry, FindEntry, ClaimEntryNX, LiveIn, QueueIn, Expiry,
           VisitorCacheExpires, BookoutCacheExpires, ClaimExpires, PassExpires, BookoutExpires, LiveExpires,
           CleanupExpiredTokens, WorkerStep, NetworkStep, vars, deskVars
  <2>7. CASE \E i \in Desk : DeskStart(i)
    BY <2>1, <2>2, <2>3, <2>7 DEF DeskStart
  <2>8. CASE \E i \in Desk : DeskStep(i)
    BY <1>3, <2>1, <2>4, <2>8
  <2>9. CASE UNCHANGED <<dpc, dtok>>
    BY <1>1, <2>1, <2>9
  <2> QED BY <2>5, <2>6, <2>7, <2>8, <2>9
<1> QED BY <1>2, <1>3

LEMMA IssueInit == Init => IssueInv /\ AdmissionReachesRow
<1> SUFFICES ASSUME Init PROVE IssueInv /\ AdmissionReachesRow
  OBVIOUS
<1>1. \A t \in Token : ~Underway(t)
  BY DEF Init, QueueInit, Underway, Mentioned
<1>2. \A t \in Token : ~RowEvidence(t) /\ ~RedisEvidence(t) /\ ~RequestEvidence(t) /\ ~DeskEvidence(t)
  BY DistinctAssumption
  DEF Init, RowEvidence, RedisEvidence, RequestEvidence, DeskEvidence, LeavingPC, LeavingDeskPC
<1>3. \A t \in Token : ~(departures[t] > 0) /\ ~Excused(t) /\ ~Arrived(t) /\ entryCode[t] = NoCode
  BY DEF Init, Excused, Arrived
<1>4. \A t \in Token : ~CacheEvidence(t) /\ ~EntryEvidence(t) /\ ~IssueEvidence(t)
  BY DistinctAssumption DEF Init, CacheEvidence, EntryEvidence, EnteringPC, IssueEvidence
<1>5. \A i \in Desk : dpc[i] # "insert"
  BY DEF Init
<1> HIDE DEF Underway, RowEvidence, RedisEvidence, RequestEvidence, DeskEvidence, Excused, Arrived,
             CacheEvidence, EntryEvidence, IssueEvidence
<1> QED BY <1>1, <1>2, <1>3, <1>4, <1>5 DEF IssueInv, Touched, Evidence, AdmissionReachesRow

LEMMA NextKeepsIssues == TypeInv /\ IssueInv /\ [Next]_vars => IssueInv'
<1> HIDE DEF Touched
<1> QED BY KnownHaveRows, InsertAlone DEF IssueInv

-----------------------------------------------------------------------------
(* Delivery. *)

\* An answer queues its event or writes its row.
LEMMA PersistDelivers ==
    ASSUME QueueTypeOK, NEW t \in Token, NEW to \in {"checked_in", "checked_out"}, Persist(t, to)
    PROVE  /\ (Underway(t) \/ Shown(t))'
           /\ \A u \in Token : Underway(u) \/ Shown(u) => (Underway(u) \/ Shown(u))'
           /\ lost' = lost
<1> HIDE DEF Underway
<1> QED BY PersistEvents DEF Shown

LEMMA NextDelivers ==
    ASSUME TypeInv, IssueInv, [Next]_vars, AdmissionReachesRow
    PROVE  AdmissionReachesRow'
<1>0. QueueTypeOK /\ RequestInv /\ DeskInv
  BY DEF TypeInv
<1>1. \A t \in Token : Arrived(t) /\ t \notin lost => Underway(t) \/ Shown(t)
  BY DEF AdmissionReachesRow, Shown
<1> SUFFICES \A t \in Token : Arrived(t)' /\ t \notin lost' => Underway(t)' \/ Shown(t)'
  BY DEF AdmissionReachesRow, Shown
<1>2. ASSUME NEW p \in Verifier, QueueIn(p)
      PROVE  \A t \in Token : Arrived(t)' /\ t \notin lost' => Underway(t)' \/ Shown(t)'
  <2>1. tok[p] \in Token /\ Persist(tok[p], "checked_in")
    BY <1>0, <1>2 DEF QueueIn, RequestInv, TokenPC
  <2>2. \A t \in Token : Arrived(t)' => Arrived(t) \/ t = tok[p]
    BY <1>2 DEF QueueIn, Arrived, TypeInv, HistoryTypeOK
  <2> HIDE DEF Underway, Shown, Arrived
  <2> QED BY <1>0, <1>1, <2>1, <2>2, PersistDelivers
<1>3. CASE ~\E p \in Verifier : QueueIn(p)
  <2>1. \A t \in Token : Arrived(t)' <=> Arrived(t)
    BY <1>3, ArrivedMoves
  <2>2. ASSUME NEW p \in Verifier, QueueOut(p)
        PROVE  \A t \in Token : Arrived(t) /\ t \notin lost' => Underway(t)' \/ Shown(t)'
    <3>1. tok[p] \in Token /\ Persist(tok[p], "checked_out")
      BY <1>0, <2>2 DEF QueueOut, RequestInv, TokenPC
    <3> HIDE DEF Underway, Shown, Arrived
    <3> QED BY <1>0, <1>1, <3>1, PersistDelivers
  <2>3. ASSUME NEW i \in Desk, DeskQueue(i)
        PROVE  \A t \in Token : Arrived(t) /\ t \notin lost' => Underway(t)' \/ Shown(t)'
    <3>1. dtok[i] \in Token /\ Persist(dtok[i], "checked_out")
      BY <1>0, <2>3 DEF DeskQueue, DeskInv
    <3> HIDE DEF Underway, Shown, Arrived
    <3> QED BY <1>0, <1>1, <3>1, PersistDelivers
  <2>4. ASSUME WorkerStep
        PROVE  \A t \in Token : Arrived(t) /\ t \notin lost' => Underway(t)' \/ Shown(t)'
    <3>1. (\E d \in Drainer : DrainStep(d)) \/ DrainFault
      BY <2>4 DEF WorkerStep
    <3>2. /\ \A u \in Token : Underway(u) => Underway(u)' \/ Shown(u)' \/ u \in lost'
          /\ \A u \in Token : (status'[u] = status[u] /\ used'[u] = used[u]) \/ Shown(u)'
          /\ lost \subseteq lost'
      <4> HIDE DEF Underway, Shown
      <4> QED BY <1>0, <3>1, DrainEvents
    <3>3. \A u \in Token : Shown(u) => Shown(u)'
      BY <3>2 DEF Shown
    <3> HIDE DEF Underway, Shown, Arrived
    <3> QED BY <1>1, <3>2, <3>3
  <2>5. ASSUME CleanupExpiredTokens
        PROVE  \A t \in Token : Arrived(t) /\ t \notin lost' => Underway(t)' \/ Shown(t)'
    <3>1. UNCHANGED <<queue, batch, lost>>
      BY <2>5 DEF CleanupExpiredTokens, pipeVars
    <3>2. \A t \in Token : Shown(t) => Shown(t)'
      BY <2>5 DEF CleanupExpiredTokens, StalePasses, Shown
    <3>3. \A t \in Token : Underway(t)' <=> Underway(t)
      BY <3>1, EvidenceFrame
    <3> HIDE DEF Underway, Shown, Arrived
    <3> QED BY <1>1, <3>1, <3>2, <3>3
  <2>6. ASSUME NEW i \in Desk, InsertPass(i)
        PROVE  \A t \in Token : Arrived(t) /\ t \notin lost' => Underway(t)' \/ Shown(t)'
    <3>1. UNCHANGED <<queue, batch, lost>>
      BY <2>6 DEF InsertPass, pipeVars
    <3>2. dtok[i] \in Token /\ status[dtok[i]] = "absent"
      BY <1>0, <2>6 DEF InsertPass, DeskInv, IssueInv
    <3>3. \A t \in Token : Arrived(t) => t # dtok[i]
      BY <3>2 DEF IssueInv, Touched
    <3>4. \A t \in Token : t # dtok[i] /\ Shown(t) => Shown(t)'
      BY <2>6 DEF InsertPass, Shown
    <3>5. \A t \in Token : Underway(t)' <=> Underway(t)
      BY <3>1, EvidenceFrame
    <3> HIDE DEF Underway, Shown, Arrived
    <3> QED BY <1>1, <3>1, <3>3, <3>4, <3>5
  <2>7. ASSUME UNCHANGED <<status, used, queue, batch, lost>>
        PROVE  \A t \in Token : Arrived(t) /\ t \notin lost' => Underway(t)' \/ Shown(t)'
    <3>1. \A t \in Token : (Underway(t)' <=> Underway(t)) /\ (Shown(t)' <=> Shown(t))
      BY <2>7, EvidenceFrame DEF Shown
    <3> HIDE DEF Underway, Shown, Arrived
    <3> QED BY <1>1, <2>7, <3>1
  <2>8. \/ UNCHANGED <<status, used, queue, batch, lost>> \/ WorkerStep \/ CleanupExpiredTokens
        \/ \E p \in Verifier : QueueIn(p) \/ QueueOut(p)
        \/ \E i \in Desk : DeskQueue(i) \/ InsertPass(i)
    BY DEF Next, RequestStart, Arrive, ExitStep, ConsumeExit, GetExit, DeleteExit, ClaimExit, FindExit,
           FindByEntryCode, CheckExit, ClaimExitNX, LiveOut, EntryStep, CheckEntry, ConsumeEntry, GetEntry,
           DeleteEntry, ClaimEntry, FindEntry, ClaimEntryNX, LiveIn, DeskStart, DrawEntryCode, StartBookout,
           StartCheckout, DeskStep, CachePass, SetBookout, CacheBookout, DeskLive, DeskForget,
           DeskForgetAgain, NoCodeFree, DrawBookoutCode, Expiry, VisitorCacheExpires, BookoutCacheExpires,
           ClaimExpires, PassExpires, BookoutExpires, LiveExpires, ApiCrash, NetworkStep, vars, rowVars,
           pipeVars
  <2> HIDE DEF Underway, Shown, Arrived
  <2> QED BY <1>3, <2>1, <2>2, <2>3, <2>4, <2>5, <2>6, <2>7, <2>8
<1> QED BY <1>2, <1>3

\* With any number of passes, gate and desk requests, outages, crashes and
\* failed batches, a check-in that was answered is in the row or on its way to
\* it, unless a fault lost a popped batch: no sweep, later INSERT, check-out or
\* duplicate batch takes it back (token_state.py 75-99 and 176-233, tokens.py
\* 216-226, maintenance.py cleanup_expired_tokens).
THEOREM AdmissionsReachRow == Spec => []AdmissionReachesRow
<1>1. Init => DeliveryInv
  BY IssueInit DEF DeliveryInv
<1>2. TypeInv /\ DeliveryInv /\ [Next]_vars => DeliveryInv'
  BY NextKeepsIssues, NextDelivers DEF DeliveryInv
<1>3. DeliveryInv => AdmissionReachesRow
  BY DEF DeliveryInv
<1> QED BY <1>1, <1>2, <1>3, TypeInvariance, PTL DEF Spec
=============================================================================
