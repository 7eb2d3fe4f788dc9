--------------------------- MODULE VisitorGateProofs ---------------------------
(***************************************************************************)
(* What VisitorGate guarantees for every set of passes, codes, requests    *)
(* and drainers, and every number of faults and outages.                   *)
(*                                                                         *)
(* Here the types.  A queued event names a row, so the types are inductive *)
(* only together with what a request in flight has in hand (RequestInv,    *)
(* DeskInv).  VisitorGateRecords and VisitorGateAdmissions build on this.  *)
(***************************************************************************)
EXTENDS VisitorGate, TokenStateQueueProofs

\* Where a request has found its row.
TokenPC == {"deleteEntry", "claimEntry", "claimEntryNX", "liveIn", "queueIn",
            "deleteExit", "claimExit", "checkExit", "claimExitNX", "liveOut", "queueOut"}

RequestInv ==
    /\ RequestTypeOK
    /\ \A p \in Verifier : pc[p] # "idle" => code[p] \in Code
    /\ \A p \in Verifier : pc[p] \in TokenPC => tok[p] \in Token

DeskInv ==
    /\ DeskTypeOK
    /\ \A i \in Desk : dpc[i] # "idle" => dtok[i] \in Token

TypeInv == QueueTypeOK /\ RowTypeOK /\ RedisTypeOK /\ RequestInv /\ DeskInv /\ HistoryTypeOK

-----------------------------------------------------------------------------
(* What stays well typed because it stays. *)

LEMMA RowFrame == RowTypeOK /\ UNCHANGED rowMore => RowTypeOK'
BY DEF RowTypeOK, rowMore

LEMMA RedisFrame == RedisTypeOK /\ UNCHANGED redisVars => RedisTypeOK'
BY DEF RedisTypeOK, redisVars

LEMMA RequestFrame == RequestInv /\ UNCHANGED reqVars => RequestInv'
BY DEF RequestInv, RequestTypeOK, reqVars

LEMMA DeskFrame == DeskInv /\ UNCHANGED deskVars => DeskInv'
BY DEF DeskInv, DeskTypeOK, deskVars

LEMMA HistoryFrame == HistoryTypeOK /\ UNCHANGED histVars => HistoryTypeOK'
BY DEF HistoryTypeOK, histVars

-----------------------------------------------------------------------------
(* The moves requests are made of. *)

LEMMA GotoType ==
    ASSUME RequestInv, NEW p \in Verifier, NEW l \in EntryPC \cup ExitPC, Goto(p, l),
           pc[p] # "idle", l \in TokenPC => tok[p] \in Token
    PROVE  RequestInv'
BY DEF RequestInv, RequestTypeOK, Goto

LEMMA TakeType ==
    ASSUME RequestInv, NEW p \in Verifier, NEW t \in Token, NEW l \in EntryPC \cup ExitPC,
           NEW v \in {"cache", "row", "entryCode"}, Take(p, t, v, l), pc[p] # "idle"
    PROVE  RequestInv'
BY DEF RequestInv, RequestTypeOK, Take

\* The request has nothing in hand again.
LEMMA DropType ==
    ASSUME RequestInv, NEW p \in Verifier, NEW l \in (EntryPC \cup ExitPC) \ TokenPC,
           Take(p, NoToken, "none", l), pc[p] # "idle"
    PROVE  RequestInv'
BY DEF RequestInv, RequestTypeOK, Take

LEMMA FinishType ==
    ASSUME RequestInv, NEW p \in Verifier, Finish(p)
    PROVE  RequestInv'
BY DEF RequestInv, RequestTypeOK, Finish, TokenPC

LEMMA ArriveType ==
    ASSUME RequestInv, NEW p \in Verifier, NEW c \in Code, NEW d \in {"entry", "exit", "any"},
           Arrive(p, c, d)
    PROVE  RequestInv'
<1>1. checks' \in 0 .. MaxChecks
  BY BoundAssumption DEF Arrive, RequestInv, RequestTypeOK
<1>2. RequestTypeOK'
  BY <1>1 DEF Arrive, RequestInv, RequestTypeOK, EntryPC, ExitPC
<1> QED BY <1>2 DEF Arrive, RequestInv, RequestTypeOK, TokenPC

-----------------------------------------------------------------------------
(* The moves of the desk. *)

LEMMA DeskGotoType ==
    ASSUME DeskInv, NEW i \in Desk, NEW l \in DeskPC, DeskGoto(i, l), dpc[i] # "idle"
    PROVE  DeskInv'
BY DEF DeskInv, DeskTypeOK, DeskGoto

LEMMA CloseType ==
    ASSUME DeskInv, NEW i \in Desk, Close(i)
    PROVE  DeskInv'
BY DEF DeskInv, DeskTypeOK, Close, DeskPC

LEMMA OpenType ==
    ASSUME DeskInv, NEW i \in Desk, NEW t \in Token, NEW c \in Code \cup {NoCode},
           NEW l \in DeskPC, Open(i, t, c, l)
    PROVE  DeskInv'
<1>1. deskOps' \in 0 .. MaxDeskOps
  BY BoundAssumption DEF Open, DeskInv, DeskTypeOK
<1> QED BY <1>1 DEF Open, DeskInv, DeskTypeOK

-----------------------------------------------------------------------------
(* Redis calls. *)

LEMMA RemoveFromCacheType ==
    ASSUME NEW cache \in [Code -> Token \cup {NoToken}], NEW c
    PROVE  RemoveFromCache(cache, c) \in [Code -> Token \cup {NoToken}]
BY DEF RemoveFromCache

LEMMA PutInCacheType ==
    ASSUME NEW cache \in [Code -> Token \cup {NoToken}], NEW c, NEW t \in Token
    PROVE  PutInCache(cache, c, t) \in [Code -> Token \cup {NoToken}]
BY DEF PutInCache

LEMMA AfterClaimType ==
    ASSUME RedisTypeOK, NEW c \in Code
    PROVE  AfterClaim(c) \subseteq Code
BY DEF AfterClaim, RedisTypeOK

LEMMA AfterLiveType ==
    ASSUME RedisTypeOK, NEW t, NEW s \in {"checked_in", "checked_out"}
    PROVE  AfterLive(t, s) \in [Token -> {"none", "checked_in", "checked_out"}]
BY DEF AfterLive, RedisTypeOK

-----------------------------------------------------------------------------
(* TypeInv is inductive. *)

LEMMA TypeInit == Init => TypeInv
<1> SUFFICES ASSUME Init PROVE TypeInv
  OBVIOUS
<1>1. QueueTypeOK
  BY QueueInitType DEF Init, RowStatus
<1>2. RowTypeOK /\ RedisTypeOK /\ HistoryTypeOK
  BY DEF Init, RowTypeOK, RedisTypeOK, HistoryTypeOK
<1>3. RequestInv
  BY BoundAssumption DEF Init, RequestInv, RequestTypeOK, TokenPC
<1>4. DeskInv
  BY BoundAssumption DEF Init, DeskInv, DeskTypeOK, DeskPC
<1> QED BY <1>1, <1>2, <1>3, <1>4 DEF TypeInv

LEMMA BeginKeepsTypes ==
    ASSUME TypeInv, NEW p \in Verifier, RequestStart(p)
    PROVE  TypeInv'
BY ArriveType, QueueFrame, RowFrame, RedisFrame, DeskFrame, HistoryFrame
DEF RequestStart, Arrive, TypeInv

LEMMA ExitKeepsTypes ==
    ASSUME TypeInv, NEW p \in Verifier, ExitStep(p)
    PROVE  TypeInv'
<1> USE DEF TypeInv
<1>0. /\ pc[p] # "idle" => code[p] \in Code
      /\ pc[p] \in TokenPC => tok[p] \in Token
  BY DEF RequestInv
<1>1. CASE ClaimExit(p)
  <2>1. RequestInv'
    BY <1>0, <1>1, GotoType DEF ClaimExit, TokenPC, ExitPC
  <2>2. RedisTypeOK'
    BY <1>0, <1>1, AfterClaimType DEF ClaimExit, RedisTypeOK
  <2> QED BY <1>1, <2>1, <2>2, QueueFrame, RowFrame, DeskFrame, HistoryFrame DEF ClaimExit
<1>2. CASE FindExit(p)
  <2>1. RequestInv'
    BY <1>0, <1>2, GotoType, TakeType, FinishType
    DEF FindExit, ExitRows, TokenPC, ExitPC, EntryPC
  <2> QED BY <1>2, <2>1, QueueFrame, RowFrame, RedisFrame, DeskFrame, HistoryFrame DEF FindExit
<1>3. CASE FindByEntryCode(p)
  <2>1. RequestInv'
    BY <1>0, <1>3, TakeType, FinishType DEF FindByEntryCode, ExitPC
  <2> QED BY <1>3, <2>1, QueueFrame, RowFrame, RedisFrame, DeskFrame, HistoryFrame
          DEF FindByEntryCode
<1>4. CASE CheckExit(p)
  <2>1. RequestInv'
    BY <1>0, <1>4, GotoType, FinishType DEF CheckExit, TokenPC, ExitPC
  <2> QED BY <1>4, <2>1, QueueFrame, RowFrame, RedisFrame, DeskFrame, HistoryFrame DEF CheckExit
<1>5. CASE ClaimExitNX(p)
  <2>1. RequestInv'
    BY <1>0, <1>5, GotoType, FinishType DEF ClaimExitNX, TokenPC, ExitPC
  <2>2. RedisTypeOK'
    BY <1>0, <1>5, AfterClaimType DEF ClaimExitNX, RedisTypeOK
  <2> QED BY <1>5, <2>1, <2>2, QueueFrame, RowFrame, DeskFrame, HistoryFrame DEF ClaimExitNX
<1>6. CASE LiveOut(p)
  <2>1. RequestInv'
    BY <1>0, <1>6, GotoType DEF LiveOut, TokenPC, ExitPC
  <2>2. RedisTypeOK'
    BY <1>6, AfterLiveType DEF LiveOut, RedisTypeOK
  <2> QED BY <1>6, <2>1, <2>2, QueueFrame, RowFrame, DeskFrame, HistoryFrame DEF LiveOut
<1>7. CASE QueueOut(p)
  <2>1. tok[p] \in Token
    BY <1>0, <1>7 DEF QueueOut, TokenPC
  <2>2. QueueTypeOK'
    BY <1>7, <2>1, PersistType DEF QueueOut
  <2>3. HistoryTypeOK'
    BY <1>7, <2>1 DEF QueueOut, HistoryTypeOK
  <2> QED BY <1>7, <2>2, <2>3, FinishType, RowFrame, RedisFrame, DeskFrame DEF QueueOut
<1>8. CASE ConsumeExit(p)
  <2>1. code[p] \in Code
    BY <1>0, <1>8 DEF ConsumeExit
  <2>2. Cached(bookoutCache, code[p]) \in Token \cup {NoToken}
    BY <2>1 DEF Cached, RedisTypeOK
  <2>3. RequestInv'
    BY <1>8, <2>2, GotoType, TakeType DEF ConsumeExit, TokenPC, ExitPC
  <2>4. RedisTypeOK'
    BY <1>8, RemoveFromCacheType DEF ConsumeExit, RedisTypeOK
  <2> QED BY <1>8, <2>3, <2>4, QueueFrame, RowFrame, DeskFrame, HistoryFrame DEF ConsumeExit
<1>9. CASE GetExit(p)
  <2>1. code[p] \in Code
    BY <1>0, <1>9 DEF GetExit
  <2>2. Cached(bookoutCache, code[p]) \in Token \cup {NoToken}
    BY <2>1 DEF Cached, RedisTypeOK
  <2>3. RequestInv'
    BY <1>9, <2>2, GotoType, TakeType DEF GetExit, TokenPC, ExitPC
  <2> QED BY <1>9, <2>3, QueueFrame, RowFrame, RedisFrame, DeskFrame, HistoryFrame DEF GetExit
<1>10. CASE DeleteExit(p)
  <2>1. RequestInv'
    BY <1>0, <1>10, GotoType, DropType DEF DeleteExit, TokenPC, ExitPC
  <2>2. RedisTypeOK'
    BY <1>10, RemoveFromCacheType DEF DeleteExit, RedisTypeOK
  <2> QED BY <1>10, <2>1, <2>2, QueueFrame, RowFrame, DeskFrame, HistoryFrame DEF DeleteExit
<1> QED BY <1>1, <1>2, <1>3, <1>4, <1>5, <1>6, <1>7, <1>8, <1>9, <1>10 DEF ExitStep

LEMMA EntryKeepsTypes ==
    ASSUME TypeInv, NEW p \in Verifier, EntryStep(p)
    PROVE  TypeInv'
<1> USE DEF TypeInv
<1>0. /\ pc[p] # "idle" => code[p] \in Code
      /\ pc[p] \in TokenPC => tok[p] \in Token
  BY DEF RequestInv
<1>1. CASE CheckEntry(p)
  <2>1. RequestInv'
    BY <1>0, <1>1, GotoType, FinishType DEF CheckEntry, TokenPC, EntryPC
  <2> QED BY <1>1, <2>1, QueueFrame, RowFrame, RedisFrame, DeskFrame, HistoryFrame DEF CheckEntry
<1>2. CASE ConsumeEntry(p)
  <2>1. code[p] \in Code
    BY <1>0, <1>2 DEF ConsumeEntry
  <2>2. Cached(visitorCache, code[p]) \in Token \cup {NoToken}
    BY <2>1 DEF Cached, RedisTypeOK
  <2>3. RequestInv'
    BY <1>2, <2>2, GotoType, TakeType DEF ConsumeEntry, TokenPC, EntryPC
  <2>4. RedisTypeOK'
    BY <1>2, RemoveFromCacheType DEF ConsumeEntry, RedisTypeOK
  <2> QED BY <1>2, <2>3, <2>4, QueueFrame, RowFrame, DeskFrame, HistoryFrame DEF ConsumeEntry
<1>3. CASE ClaimEntry(p)
  <2>1. RequestInv'
    BY <1>0, <1>3, GotoType DEF ClaimEntry, TokenPC, EntryPC
  <2>2. RedisTypeOK'
    BY <1>0, <1>3, AfterClaimType DEF ClaimEntry, RedisTypeOK
  <2> QED BY <1>3, <2>1, <2>2, QueueFrame, RowFrame, DeskFrame, HistoryFrame DEF ClaimEntry
<1>4. CASE FindEntry(p)
  <2>1. RequestInv'
    BY <1>0, <1>4, TakeType, FinishType DEF FindEntry, EntryRows, EntryPC
  <2> QED BY <1>4, <2>1, QueueFrame, RowFrame, RedisFrame, DeskFrame, HistoryFrame DEF FindEntry
<1>5. CASE ClaimEntryNX(p)
  <2>1. RequestInv'
    BY <1>0, <1>5, GotoType, FinishType DEF ClaimEntryNX, TokenPC, EntryPC
  <2>2. RedisTypeOK'
    BY <1>0, <1>5, AfterClaimType DEF ClaimEntryNX, RedisTypeOK
  <2> QED BY <1>5, <2>1, <2>2, QueueFrame, RowFrame, DeskFrame, HistoryFrame DEF ClaimEntryNX
<1>6. CASE LiveIn(p)
  <2>1. RequestInv'
    BY <1>0, <1>6, GotoType DEF LiveIn, TokenPC, EntryPC
  <2>2. RedisTypeOK'
    BY <1>6, AfterLiveType DEF LiveIn, RedisTypeOK
  <2>3. HistoryTypeOK'
    BY <1>0, <1>6 DEF LiveIn, HistoryTypeOK, TokenPC
  <2> QED BY <1>6, <2>1, <2>2, <2>3, QueueFrame, RowFrame, DeskFrame DEF LiveIn
<1>7. CASE QueueIn(p)
  <2>1. tok[p] \in Token
    BY <1>0, <1>7 DEF QueueIn, TokenPC
  <2>2. QueueTypeOK'
    BY <1>7, <2>1, PersistType DEF QueueIn
  <2>3. HistoryTypeOK'
    BY <1>7, <2>1 DEF QueueIn, HistoryTypeOK
  <2> QED BY <1>7, <2>2, <2>3, FinishType, RowFrame, RedisFrame, DeskFrame DEF QueueIn
<1>8. CASE GetEntry(p)
  <2>1. code[p] \in Code
    BY <1>0, <1>8 DEF GetEntry
  <2>2. Cached(visitorCache, code[p]) \in Token \cup {NoToken}
    BY <2>1 DEF Cached, RedisTypeOK
  <2>3. RequestInv'
    BY <1>8, <2>2, GotoType, TakeType DEF GetEntry, TokenPC, EntryPC
  <2> QED BY <1>8, <2>3, QueueFrame, RowFrame, RedisFrame, DeskFrame, HistoryFrame DEF GetEntry
<1>9. CASE DeleteEntry(p)
  <2>1. RequestInv'
    BY <1>0, <1>9, GotoType, DropType DEF DeleteEntry, TokenPC, EntryPC
  <2>2. RedisTypeOK'
    BY <1>9, RemoveFromCacheType DEF DeleteEntry, RedisTypeOK
  <2> QED BY <1>9, <2>1, <2>2, QueueFrame, RowFrame, DeskFrame, HistoryFrame DEF DeleteEntry
<1> QED BY <1>1, <1>2, <1>3, <1>4, <1>5, <1>6, <1>7, <1>8, <1>9 DEF EntryStep

LEMMA DeskStartKeepsTypes ==
    ASSUME TypeInv, NEW i \in Desk, DeskStart(i)
    PROVE  TypeInv'
<1>1. PICK t \in Token : \/ \E c \in Code : DrawEntryCode(i, t, c)
                         \/ StartBookout(i, t)
                         \/ StartCheckout(i, t)
  BY DEF DeskStart
<1>2. bookout[t] \in Code \cup {NoCode}
  BY DEF TypeInv, RowTypeOK
<1>3. DeskInv'
  BY <1>1, <1>2, OpenType DEF DrawEntryCode, StartBookout, StartCheckout, DeskPC, TypeInv
<1>4. UNCHANGED <<rowVars, pipeVars, netVars, rowMore, redisVars, reqVars, histVars>>
  BY <1>1 DEF DrawEntryCode, StartBookout, StartCheckout
<1> QED BY <1>3, <1>4, QueueFrame, RowFrame, RedisFrame, RequestFrame, HistoryFrame DEF TypeInv

LEMMA DeskStepKeepsTypes ==
    ASSUME TypeInv, NEW i \in Desk, DeskStep(i)
    PROVE  TypeInv'
<1> USE DEF TypeInv
<1>0. dpc[i] # "idle" => dtok[i] \in Token
  BY DEF DeskInv
<1>1. CASE InsertPass(i)
  <2>1. QueueTypeOK'
    BY <1>1 DEF InsertPass, QueueTypeOK, RowStatus, pipeVars, netVars
  <2>2. RowTypeOK'
    BY <1>1 DEF InsertPass, RowTypeOK, DeskInv, DeskTypeOK
  <2>3. DeskInv'
    BY <1>1, DeskGotoType DEF InsertPass, DeskPC
  <2> QED BY <1>1, <2>1, <2>2, <2>3, RedisFrame, RequestFrame, HistoryFrame DEF InsertPass
<1>2. CASE CachePass(i)
  <2>1. RedisTypeOK'
    BY <1>0, <1>2, PutInCacheType DEF CachePass, RedisTypeOK
  <2> QED BY <1>2, <2>1, CloseType, QueueFrame, RowFrame, RequestFrame, HistoryFrame DEF CachePass
<1>3. CASE SetBookout(i)
  <2>1. RowTypeOK'
    BY <1>3 DEF SetBookout, RowTypeOK, DeskInv, DeskTypeOK
  <2>2. DeskInv'
    BY <1>3, DeskGotoType DEF SetBookout, DeskPC
  <2> QED BY <1>3, <2>1, <2>2, QueueFrame, RedisFrame, RequestFrame, HistoryFrame DEF SetBookout
<1>4. CASE CacheBookout(i)
  <2>1. RedisTypeOK'
    BY <1>0, <1>4, PutInCacheType DEF CacheBookout, RedisTypeOK
  <2> QED BY <1>4, <2>1, CloseType, QueueFrame, RowFrame, RequestFrame, HistoryFrame
          DEF CacheBookout
<1>5. CASE DeskLive(i)
  <2>1. RedisTypeOK'
    BY <1>5, AfterLiveType DEF DeskLive, RedisTypeOK
  <2>2. DeskInv'
    BY <1>5, DeskGotoType DEF DeskLive, DeskPC
  <2> QED BY <1>5, <2>1, <2>2, QueueFrame, RowFrame, RequestFrame, HistoryFrame DEF DeskLive
<1>6. CASE DeskQueue(i)
  <2>1. dtok[i] \in Token
    BY <1>0, <1>6 DEF DeskQueue
  <2>2. QueueTypeOK'
    BY <1>6, <2>1, PersistType DEF DeskQueue
  <2>3. HistoryTypeOK'
    BY <1>6, <2>1 DEF DeskQueue, HistoryTypeOK
  <2>4. DeskInv'
    BY <1>6, DeskGotoType, CloseType DEF DeskQueue, DeskPC
  <2> QED BY <1>6, <2>2, <2>3, <2>4, RowFrame, RedisFrame, RequestFrame DEF DeskQueue
<1>7. CASE DeskForget(i)
  <2>1. RedisTypeOK'
    BY <1>7, RemoveFromCacheType DEF DeskForget, RedisTypeOK
  <2>2. DeskInv'
    BY <1>7, CloseType, DeskGotoType DEF DeskForget, DeskPC
  <2> QED BY <1>7, <2>1, <2>2, QueueFrame, RowFrame, RequestFrame, HistoryFrame DEF DeskForget
<1>9. CASE DeskForgetAgain(i)
  <2>1. RedisTypeOK'
    BY <1>9, RemoveFromCacheType DEF DeskForgetAgain, RedisTypeOK
  <2> QED BY <1>9, <2>1, CloseType, QueueFrame, RowFrame, RequestFrame, HistoryFrame
          DEF DeskForgetAgain
<1>10. CASE NoCodeFree(i)
  BY <1>10, CloseType, QueueFrame, RowFrame, RedisFrame, RequestFrame, HistoryFrame DEF NoCodeFree
<1>8. ASSUME NEW c \in Code, DrawBookoutCode(i, c)
      PROVE  TypeInv'
  <2>1. DeskInv'
    BY <1>8 DEF DrawBookoutCode, DeskInv, DeskTypeOK, DeskPC
  <2> QED BY <1>8, <2>1, QueueFrame, RowFrame, RedisFrame, RequestFrame, HistoryFrame
          DEF DrawBookoutCode
<1> QED BY <1>1, <1>2, <1>3, <1>4, <1>5, <1>6, <1>7, <1>8, <1>9, <1>10
    DEF DeskStep

LEMMA ExpiryKeepsTypes ==
    ASSUME TypeInv, Expiry
    PROVE  TypeInv'
<1> USE DEF TypeInv
<1>1. ASSUME NEW c \in Code, VisitorCacheExpires(c) \/ BookoutCacheExpires(c) \/ ClaimExpires(c)
      PROVE  TypeInv'
  <2>1. RedisTypeOK'
    BY <1>1 DEF VisitorCacheExpires, BookoutCacheExpires, ClaimExpires, RedisTypeOK
  <2>2. UNCHANGED <<rowVars, pipeVars, netVars, rowMore, reqVars, deskVars, histVars>>
    BY <1>1 DEF VisitorCacheExpires, BookoutCacheExpires, ClaimExpires
  <2> QED BY <2>1, <2>2, QueueFrame, RowFrame, RequestFrame, DeskFrame, HistoryFrame
<1>2. ASSUME NEW t \in Token, PassExpires(t) \/ BookoutExpires(t)
      PROVE  TypeInv'
  <2>1. RowTypeOK'
    BY <1>2 DEF PassExpires, BookoutExpires, RowTypeOK
  <2>2. UNCHANGED <<rowVars, pipeVars, netVars, redisVars, reqVars, deskVars, histVars>>
    BY <1>2 DEF PassExpires, BookoutExpires
  <2> QED BY <2>1, <2>2, QueueFrame, RedisFrame, RequestFrame, DeskFrame, HistoryFrame
<1>3. ASSUME NEW t \in Token, LiveExpires(t)
      PROVE  TypeInv'
  <2>1. RedisTypeOK'
    BY <1>3 DEF LiveExpires, RedisTypeOK
  <2> QED BY <1>3, <2>1, QueueFrame, RowFrame, RequestFrame, DeskFrame, HistoryFrame
          DEF LiveExpires
<1> QED BY <1>1, <1>2, <1>3 DEF Expiry

LEMMA CleanupKeepsTypes ==
    ASSUME TypeInv, CleanupExpiredTokens
    PROVE  TypeInv'
<1>1. QueueTypeOK'
  BY DEF TypeInv, CleanupExpiredTokens, QueueTypeOK, RowStatus, pipeVars, netVars
<1>2. RowTypeOK'
  BY DEF TypeInv, CleanupExpiredTokens, RowTypeOK
<1> QED BY <1>1, <1>2, RedisFrame, RequestFrame, DeskFrame, HistoryFrame
        DEF TypeInv, CleanupExpiredTokens

LEMMA CrashKeepsTypes ==
    ASSUME TypeInv, ApiCrash
    PROVE  TypeInv'
<1>1. faults' \in 0 .. MaxFaults
  BY BudgetAssumption DEF ApiCrash, TypeInv, QueueTypeOK
<1>2. QueueTypeOK'
  BY <1>1 DEF ApiCrash, TypeInv, QueueTypeOK, rowVars, netVars
<1>3. RequestInv'
  BY DEF ApiCrash, TypeInv, RequestInv, RequestTypeOK, TokenPC
<1>4. DeskInv'
  BY DEF ApiCrash, TypeInv, DeskInv, DeskTypeOK, DeskPC
<1> QED BY <1>2, <1>3, <1>4, RowFrame, RedisFrame, HistoryFrame DEF TypeInv, ApiCrash

LEMMA WorkerKeepsTypes ==
    ASSUME TypeInv, WorkerStep
    PROVE  TypeInv'
<1>1. QueueTypeOK'
  BY DequeueType, CommitBatchType, DrainFaultType DEF WorkerStep, DrainStep, TypeInv
<1> QED BY <1>1, RowFrame, RedisFrame, RequestFrame, DeskFrame, HistoryFrame
        DEF TypeInv, WorkerStep

LEMMA NetworkKeepsTypes ==
    ASSUME TypeInv, NetworkStep
    PROVE  TypeInv'
BY RedisNetworkType, RowFrame, RedisFrame, RequestFrame, DeskFrame, HistoryFrame
DEF TypeInv, NetworkStep

LEMMA StutterKeepsTypes ==
    ASSUME TypeInv, UNCHANGED vars
    PROVE  TypeInv'
BY QueueFrame, RowFrame, RedisFrame, RequestFrame, DeskFrame, HistoryFrame DEF TypeInv, vars

LEMMA NextKeepsTypes == TypeInv /\ [Next]_vars => TypeInv'
BY BeginKeepsTypes, ExitKeepsTypes, EntryKeepsTypes, DeskStartKeepsTypes, DeskStepKeepsTypes,
   ExpiryKeepsTypes, CleanupKeepsTypes, CrashKeepsTypes, WorkerKeepsTypes, NetworkKeepsTypes,
   StutterKeepsTypes
DEF Next

LEMMA TypeInvariance == Spec => []TypeInv
BY TypeInit, NextKeepsTypes, PTL DEF Spec

\* Every variable of the gate has its type, with any number of passes, codes,
\* concurrent requests and drainers, and through any outage, crash or failed
\* batch: in particular a queued event always names a row (token_state.py).
THEOREM TypeCorrect == Spec => []TypeOK
<1>1. TypeInv => TypeOK
  BY DEF TypeInv, TypeOK, RequestInv, DeskInv
<1> QED BY <1>1, TypeInvariance, PTL
=============================================================================
