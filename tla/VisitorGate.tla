------------------------------ MODULE VisitorGate ------------------------------
(***************************************************************************)
(* One estate's visitor passes: issued at the desk (services/tokens.py),   *)
(* verified at the gate (services/verification.py, verify_visitor_token),  *)
(* written behind through TokenStateQueue, swept by the maintenance job    *)
(* (services/maintenance.py).                                              *)
(*                                                                         *)
(* A gate request is a process with a program counter: one action is the   *)
(* code from one await on shared state to the next, so requests, the desk, *)
(* the worker, TTLs and crashes interleave wherever the event loop lets    *)
(* them.  The subscription check in front of every operation, and the      *)
(* access log and e-mail behind it, touch none of this state.              *)
(***************************************************************************)
EXTENDS TokenStateQueue

CONSTANTS
    Code,         \* codes the generator may draw
    Verifier,     \* concurrent gate requests
    Desk,         \* concurrent resident / security requests
    NoCode, NoToken,
    MaxChecks,    \* bound on gate requests
    MaxDeskOps    \* bound on desk operations

ASSUME DistinctAssumption == NoCode \notin Code /\ NoToken \notin Token
ASSUME BoundAssumption == MaxChecks \in Nat /\ MaxDeskOps \in Nat

VARIABLES
    \* columns of visitor_tokens
    entryCode,       \* code
    expired,         \* expires_at has passed (24 h after creation)
    bookout,         \* bookout_code
    bookoutExpired,  \* bookout_expires_at has passed (2 h)
    \* Redis
    visitorCache,    \* residence:visitor_token:<code>, 20 min
    bookoutCache,    \* residence:bookout_token:<code>, 20 min
    claimed,         \* codes with a residence:token_claimed key, 24 h
    live,            \* residence:token_live_status:<id>, 24 h
    \* gate requests
    pc, code, dir, tok, via,
    \* desk requests
    dpc, dtok, dcode,
    \* history, and the bounds
    entered,         \* tokens whose check-in became visible
    cacheIn,         \* cacheIn[t]: check-ins authorised from the visitor cache
    rowIn,           \* rowIn[t]: check-ins authorised from the Postgres row
    departures,      \* departures[t]: check-outs authorised
    seen,            \* seen[p]: tokens already checked in when request p began
    checks, deskOps

rowMore  == <<entryCode, expired, bookout, bookoutExpired>>
redisVars == <<visitorCache, bookoutCache, claimed, live>>
reqVars  == <<pc, code, dir, tok, via, seen, checks>>
deskVars == <<dpc, dtok, dcode, deskOps>>
histVars == <<entered, cacheIn, rowIn, departures>>
vars == <<rowVars, pipeVars, netVars, rowMore, redisVars, reqVars, deskVars, histVars>>

EntryPC == {"checkEntry", "consumeEntry", "getEntry", "deleteEntry", "claimEntry",
            "findEntry", "claimEntryNX", "liveIn", "queueIn"}
ExitPC  == {"consumeExit", "getExit", "deleteExit", "claimExit",
            "findExit", "findByEntryCode", "checkExit", "claimExitNX", "liveOut", "queueOut"}
DeskPC  == {"idle", "insert", "cachePass", "drawBookout", "setBookout", "cacheBookout",
            "deskLive", "deskQueue", "deskForget", "deskForgetAgain"}

RowTypeOK ==
    /\ entryCode \in [Token -> Code \cup {NoCode}]
    /\ expired \in [Token -> BOOLEAN]
    /\ bookout \in [Token -> Code \cup {NoCode}]
    /\ bookoutExpired \in [Token -> BOOLEAN]

RedisTypeOK ==
    /\ visitorCache \in [Code -> Token \cup {NoToken}]
    /\ bookoutCache \in [Code -> Token \cup {NoToken}]
    /\ claimed \subseteq Code
    /\ live \in [Token -> {"none", "checked_in", "checked_out"}]

RequestTypeOK ==
    /\ pc \in [Verifier -> {"idle"} \cup EntryPC \cup ExitPC]
    /\ code \in [Verifier -> Code \cup {NoCode}]
    /\ dir \in [Verifier -> {"entry", "exit", "any"}]
    /\ tok \in [Verifier -> Token \cup {NoToken}]
    /\ via \in [Verifier -> {"none", "cache", "row", "entryCode"}]
    /\ seen \in [Verifier -> SUBSET Token]
    /\ checks \in 0 .. MaxChecks

DeskTypeOK ==
    /\ dpc \in [Desk -> DeskPC]
    /\ dtok \in [Desk -> Token \cup {NoToken}]
    /\ dcode \in [Desk -> Code \cup {NoCode}]
    /\ deskOps \in 0 .. MaxDeskOps

HistoryTypeOK ==
    /\ entered \subseteq Token
    /\ cacheIn \in [Token -> Nat]
    /\ rowIn \in [Token -> Nat]
    /\ departures \in [Token -> Nat]

\* Every variable has its type (models/token.py, core/redis.py).
TypeOK == QueueTypeOK /\ RowTypeOK /\ RedisTypeOK /\ RequestTypeOK /\ DeskTypeOK /\ HistoryTypeOK

Init ==
    /\ QueueInit
    /\ status = [t \in Token |-> "absent"]
    /\ used = [t \in Token |-> FALSE]
    /\ entryCode = [t \in Token |-> NoCode]
    /\ expired = [t \in Token |-> FALSE]
    /\ bookout = [t \in Token |-> NoCode]
    /\ bookoutExpired = [t \in Token |-> FALSE]
    /\ visitorCache = [c \in Code |-> NoToken]
    /\ bookoutCache = [c \in Code |-> NoToken]
    /\ claimed = {}
    /\ live = [t \in Token |-> "none"]
    /\ pc = [p \in Verifier |-> "idle"]
    /\ code = [p \in Verifier |-> NoCode]
    /\ dir = [p \in Verifier |-> "any"]
    /\ tok = [p \in Verifier |-> NoToken]
    /\ via = [p \in Verifier |-> "none"]
    /\ seen = [p \in Verifier |-> {}]
    /\ dpc = [i \in Desk |-> "idle"]
    /\ dtok = [i \in Desk |-> NoToken]
    /\ dcode = [i \in Desk |-> NoCode]
    /\ entered = {}
    /\ cacheIn = [t \in Token |-> 0]
    /\ rowIn = [t \in Token |-> 0]
    /\ departures = [t \in Token |-> 0]
    /\ checks = 0
    /\ deskOps = 0

-----------------------------------------------------------------------------
(* What one Redis call does, and what its wrapper answers when Redis is down. *)

\* What GETDEL or GET finds: the entry, or NoToken.
Cached(cache, c) == IF redisUp THEN cache[c] ELSE NoToken

\* Mutant: GET, without the delete.
LeaveInCache(cache, c) == cache

RemoveFromCache(cache, c) == IF redisUp THEN [cache EXCEPT ![c] = NoToken] ELSE cache

\* Mutant: the code where the row's id belongs.
PutCodeInCache(cache, c, t) == IF redisUp THEN [cache EXCEPT ![c] = c] ELSE cache

\* cache_visitor_token, cache_bookout_token: SET with a 20 min TTL.
PutInCache(cache, c, t) == IF redisUp THEN [cache EXCEPT ![c] = t] ELSE cache

\* is_token_code_claimed: no when Redis is down.
IsClaimed(c) == redisUp /\ c \in claimed

\* claim_token_code: SET NX.  Won, also when Redis is down.
ClaimWon(c) == redisUp => c \notin claimed

\* Mutant: the claim key is never written.
NoClaim(c) == claimed

AfterClaim(c) == IF redisUp THEN claimed \cup {c} ELSE claimed

\* set_token_live_status.
AfterLive(t, s) == IF redisUp THEN [live EXCEPT ![t] = s] ELSE live

\* (live or {}).get("status") or token.status
EffectiveStatus(t) == IF redisUp /\ live[t] # "none" THEN live[t] ELSE status[t]

-----------------------------------------------------------------------------
(* Moves of a gate request. *)

Arrived(t) == cacheIn[t] + rowIn[t] > 0

Goto(p, l) ==
    /\ pc' = [pc EXCEPT ![p] = l]
    /\ UNCHANGED <<code, dir, tok, via, seen, checks>>

\* The request has found row t, and how.
Take(p, t, v, l) ==
    /\ pc' = [pc EXCEPT ![p] = l]
    /\ tok' = [tok EXCEPT ![p] = t]
    /\ via' = [via EXCEPT ![p] = v]
    /\ UNCHANGED <<code, dir, seen, checks>>

\* The request answers and is gone.
Finish(p) ==
    /\ pc' = [pc EXCEPT ![p] = "idle"]
    /\ code' = [code EXCEPT ![p] = NoCode]
    /\ dir' = [dir EXCEPT ![p] = "any"]
    /\ tok' = [tok EXCEPT ![p] = NoToken]
    /\ via' = [via EXCEPT ![p] = "none"]
    /\ seen' = [seen EXCEPT ![p] = {}]
    /\ UNCHANGED checks

\* A request for code c and direction d arrives.  Every lane but "entry"
\* looks for an exit first.
Arrive(p, c, d) ==
    /\ pc[p] = "idle"
    /\ checks < MaxChecks
    /\ checks' = checks + 1
    /\ pc' = [pc EXCEPT ![p] = IF d = "entry" THEN "checkEntry" ELSE "consumeExit"]
    /\ code' = [code EXCEPT ![p] = c]
    /\ dir' = [dir EXCEPT ![p] = d]
    /\ seen' = [seen EXCEPT ![p] = {t \in Token : Arrived(t)}]
    /\ UNCHANGED <<tok, via>>
    /\ UNCHANGED <<rowVars, pipeVars, netVars, rowMore, redisVars, deskVars, histVars>>

-----------------------------------------------------------------------------
(* The exit half of verify_visitor_token. *)

\* consume_cached_bookout_token: GETDEL.
ConsumeExit(p) ==
    /\ pc[p] = "consumeExit"
    /\ LET t == Cached(bookoutCache, code[p])
       IN  IF ~redisUp THEN Goto(p, "getExit")
           ELSE IF t = NoToken THEN Goto(p, "findExit") ELSE Take(p, t, "cache", "claimExit")
    /\ bookoutCache' = RemoveFromCache(bookoutCache, code[p])
    /\ UNCHANGED <<visitorCache, claimed, live>>
    /\ UNCHANGED <<rowVars, pipeVars, netVars, rowMore, deskVars, histVars>>

\* Its fallback when GETDEL raises: GET ...
GetExit(p) ==
    /\ pc[p] = "getExit"
    /\ LET t == Cached(bookoutCache, code[p])
       IN  IF t = NoToken THEN Goto(p, "findExit") ELSE Take(p, t, "cache", "deleteExit")
    /\ UNCHANGED <<rowVars, pipeVars, netVars, rowMore, redisVars, deskVars, histVars>>

\* ... then DELETE, whose count nobody looks at.
DeleteExit(p) ==
    /\ pc[p] = "deleteExit"
    /\ IF redisUp THEN Goto(p, "claimExit") ELSE Take(p, NoToken, "none", "findExit")
    /\ bookoutCache' = RemoveFromCache(bookoutCache, code[p])
    /\ UNCHANGED <<visitorCache, claimed, live>>
    /\ UNCHANGED <<rowVars, pipeVars, netVars, rowMore, deskVars, histVars>>

\* The cached book-out code was this request's: claim it, whatever the answer.
ClaimExit(p) ==
    /\ pc[p] = "claimExit"
    /\ claimed' = AfterClaim(code[p])
    /\ Goto(p, "liveOut")
    /\ UNCHANGED <<visitorCache, bookoutCache, live>>
    /\ UNCHANGED <<rowVars, pipeVars, netVars, rowMore, deskVars, histVars>>

\* Rows whose book-out code is c, checked in as far as Postgres knows.
ExitRows(c) == {t \in Token : bookout[t] = c /\ status[t] = "checked_in" /\ ~bookoutExpired[t]}

\* SELECT by book-out code.  Two rows raise MultipleResultsFound.
FindExit(p) ==
    LET rows == ExitRows(code[p])
    IN  /\ pc[p] = "findExit"
        /\ IF Cardinality(rows) > 1 THEN Finish(p)
           ELSE IF rows = {} THEN Goto(p, IF dir[p] = "exit" THEN "findByEntryCode" ELSE "checkEntry")
           ELSE \E t \in rows : Take(p, t, "row", "checkExit")
        /\ UNCHANGED <<rowVars, pipeVars, netVars, rowMore, redisVars, deskVars, histVars>>

\* Exit by the original entry code, on the live status or else the row's.
FindByEntryCode(p) ==
    LET rows == {t \in Token : entryCode[t] = code[p]}
        inside == {t \in rows : EffectiveStatus(t) = "checked_in"}
    IN  /\ pc[p] = "findByEntryCode"
        /\ \/ \E t \in inside : rows = {t} /\ Take(p, t, "entryCode", "checkExit")
           \/ ~(\E t \in inside : rows = {t}) /\ Finish(p)
        /\ UNCHANGED <<rowVars, pipeVars, netVars, rowMore, redisVars, deskVars, histVars>>

\* A claimed code is refused.
CheckExit(p) ==
    /\ pc[p] = "checkExit"
    /\ IF IsClaimed(code[p]) THEN Finish(p) ELSE Goto(p, "claimExitNX")
    /\ UNCHANGED <<rowVars, pipeVars, netVars, rowMore, redisVars, deskVars, histVars>>

\* persist_token_check_out with already_claimed=False: the claim decides.
ClaimExitNX(p) ==
    /\ pc[p] = "claimExitNX"
    /\ claimed' = AfterClaim(code[p])
    /\ IF ClaimWon(code[p]) THEN Goto(p, "liveOut") ELSE Finish(p)
    /\ UNCHANGED <<visitorCache, bookoutCache, live>>
    /\ UNCHANGED <<rowVars, pipeVars, netVars, rowMore, deskVars, histVars>>

LiveOut(p) ==
    /\ pc[p] = "liveOut"
    /\ live' = AfterLive(tok[p], "checked_out")
    /\ Goto(p, "queueOut")
    /\ UNCHANGED <<visitorCache, bookoutCache, claimed>>
    /\ UNCHANGED <<rowVars, pipeVars, netVars, rowMore, deskVars, histVars>>

\* The check-out is queued or written, and the exit authorised.
QueueOut(p) ==
    /\ pc[p] = "queueOut"
    /\ Persist(tok[p], "checked_out")
    /\ departures' = [departures EXCEPT ![tok[p]] = @ + 1]
    /\ Finish(p)
    /\ UNCHANGED <<netVars, rowMore, redisVars, deskVars, entered, cacheIn, rowIn>>

-----------------------------------------------------------------------------
(* The entry half of verify_visitor_token. *)

\* The entry lane, or a lane without a direction that found no exit: a claimed
\* code is refused.
CheckEntry(p) ==
    /\ pc[p] = "checkEntry"
    /\ IF IsClaimed(code[p]) THEN Finish(p) ELSE Goto(p, "consumeEntry")
    /\ UNCHANGED <<rowVars, pipeVars, netVars, rowMore, redisVars, deskVars, histVars>>

\* consume_cached_visitor_token: GETDEL.
ConsumeEntry(p) ==
    /\ pc[p] = "consumeEntry"
    /\ LET t == Cached(visitorCache, code[p])
       IN  IF ~redisUp THEN Goto(p, "getEntry")
           ELSE IF t = NoToken THEN Goto(p, "findEntry") ELSE Take(p, t, "cache", "claimEntry")
    /\ visitorCache' = RemoveFromCache(visitorCache, code[p])
    /\ UNCHANGED <<bookoutCache, claimed, live>>
    /\ UNCHANGED <<rowVars, pipeVars, netVars, rowMore, deskVars, histVars>>

\* Its fallback when GETDEL raises: GET ...
GetEntry(p) ==
    /\ pc[p] = "getEntry"
    /\ LET t == Cached(visitorCache, code[p])
       IN  IF t = NoToken THEN Goto(p, "findEntry") ELSE Take(p, t, "cache", "deleteEntry")
    /\ UNCHANGED <<rowVars, pipeVars, netVars, rowMore, redisVars, deskVars, histVars>>

\* ... then DELETE, whose count nobody looks at.
DeleteEntry(p) ==
    /\ pc[p] = "deleteEntry"
    /\ IF redisUp THEN Goto(p, "claimEntry") ELSE Take(p, NoToken, "none", "findEntry")
    /\ visitorCache' = RemoveFromCache(visitorCache, code[p])
    /\ UNCHANGED <<bookoutCache, claimed, live>>
    /\ UNCHANGED <<rowVars, pipeVars, netVars, rowMore, deskVars, histVars>>

\* The cached pass was this request's: claim its code, whatever the answer.
ClaimEntry(p) ==
    /\ pc[p] = "claimEntry"
    /\ claimed' = AfterClaim(code[p])
    /\ Goto(p, "liveIn")
    /\ UNCHANGED <<visitorCache, bookoutCache, live>>
    /\ UNCHANGED <<rowVars, pipeVars, netVars, rowMore, deskVars, histVars>>

EntryRows(c) == {t \in Token : entryCode[t] = c /\ ~used[t] /\ ~expired[t]}

\* SELECT by entry code.  Two rows raise MultipleResultsFound.
FindEntry(p) ==
    LET rows == EntryRows(code[p])
    IN  /\ pc[p] = "findEntry"
        /\ \/ \E t \in rows : rows = {t} /\ Take(p, t, "row", "claimEntryNX")
           \/ ~(\E t \in rows : rows = {t}) /\ Finish(p)
        /\ UNCHANGED <<rowVars, pipeVars, netVars, rowMore, redisVars, deskVars, histVars>>

\* persist_token_check_in with already_claimed=False: the claim decides.
ClaimEntryNX(p) ==
    /\ pc[p] = "claimEntryNX"
    /\ claimed' = AfterClaim(code[p])
    /\ IF ClaimWon(code[p]) THEN Goto(p, "liveIn") ELSE Finish(p)
    /\ UNCHANGED <<visitorCache, bookoutCache, live>>
    /\ UNCHANGED <<rowVars, pipeVars, netVars, rowMore, deskVars, histVars>>

LiveIn(p) ==
    /\ pc[p] = "liveIn"
    /\ live' = AfterLive(tok[p], "checked_in")
    /\ entered' = entered \cup {tok[p]}
    /\ Goto(p, "queueIn")
    /\ UNCHANGED <<visitorCache, bookoutCache, claimed>>
    /\ UNCHANGED <<rowVars, pipeVars, netVars, rowMore, deskVars, cacheIn, rowIn, departures>>

\* The check-in is queued or written, and the entry authorised.
QueueIn(p) ==
    /\ pc[p] = "queueIn"
    /\ Persist(tok[p], "checked_in")
    /\ cacheIn' = IF via[p] = "cache" THEN [cacheIn EXCEPT ![tok[p]] = @ + 1] ELSE cacheIn
    /\ rowIn' = IF via[p] = "row" THEN [rowIn EXCEPT ![tok[p]] = @ + 1] ELSE rowIn
    /\ Finish(p)
    /\ UNCHANGED <<netVars, rowMore, redisVars, deskVars, entered, departures>>

EntryStep(p) ==
    \/ CheckEntry(p) \/ ConsumeEntry(p) \/ GetEntry(p) \/ DeleteEntry(p) \/ ClaimEntry(p) \/ FindEntry(p)
    \/ ClaimEntryNX(p) \/ LiveIn(p) \/ QueueIn(p)

ExitStep(p) ==
    \/ ConsumeExit(p) \/ GetExit(p) \/ DeleteExit(p) \/ ClaimExit(p) \/ FindExit(p) \/ FindByEntryCode(p) \/ CheckExit(p)
    \/ ClaimExitNX(p) \/ LiveOut(p) \/ QueueOut(p)

-----------------------------------------------------------------------------
(* Resident and security requests: create_visitor_token,                   *)
(* create_bookout_token, direct_security_checkout.                         *)

\* is_visitor_code_active.
CodeActive(c) ==
    \/ IsClaimed(c)
    \/ \E t \in Token : entryCode[t] = c /\ status[t] \in {"pending", "checked_in"} /\ ~expired[t]
    \/ ExitRows(c) # {}

\* Desk request i starts on token t, at l.
Open(i, t, c, l) ==
    /\ dpc[i] = "idle"
    /\ deskOps < MaxDeskOps
    /\ deskOps' = deskOps + 1
    /\ dpc' = [dpc EXCEPT ![i] = l]
    /\ dtok' = [dtok EXCEPT ![i] = t]
    /\ dcode' = [dcode EXCEPT ![i] = c]

DeskGoto(i, l) ==
    /\ dpc' = [dpc EXCEPT ![i] = l]
    /\ UNCHANGED <<dtok, dcode, deskOps>>

Close(i) ==
    /\ dpc' = [dpc EXCEPT ![i] = "idle"]
    /\ dtok' = [dtok EXCEPT ![i] = NoToken]
    /\ dcode' = [dcode EXCEPT ![i] = NoCode]
    /\ UNCHANGED deskOps

\* A code that is not active is drawn for a new pass.
DrawEntryCode(i, t, c) ==
    /\ status[t] = "absent"
    /\ \A j \in Desk : dtok[j] # t
    /\ ~CodeActive(c)
    /\ Open(i, t, c, "insert")
    /\ UNCHANGED <<rowVars, pipeVars, netVars, rowMore, redisVars, reqVars, histVars>>

InsertPass(i) ==
    /\ dpc[i] = "insert"
    /\ status' = [status EXCEPT ![dtok[i]] = "pending"]
    /\ entryCode' = [entryCode EXCEPT ![dtok[i]] = dcode[i]]
    /\ DeskGoto(i, "cachePass")
    /\ UNCHANGED <<used, expired, bookout, bookoutExpired>>
    /\ UNCHANGED <<pipeVars, netVars, redisVars, reqVars, histVars>>

CachePass(i) ==
    /\ dpc[i] = "cachePass"
    /\ visitorCache' = PutInCache(visitorCache, dcode[i], dtok[i])
    /\ Close(i)
    /\ UNCHANGED <<bookoutCache, claimed, live>>
    /\ UNCHANGED <<rowVars, pipeVars, netVars, rowMore, reqVars, histVars>>

\* Mutant: a pending pass may leave.
NotGone(s) == s # "checked_out"

\* Neither pending nor checked out.  "expired" passes.
MayLeave(s) == s \notin {"pending", "checked_out"}

StartBookout(i, t) ==
    /\ status[t] # "absent"
    /\ MayLeave(EffectiveStatus(t))
    /\ Open(i, t, NoCode, "drawBookout")
    /\ UNCHANGED <<rowVars, pipeVars, netVars, rowMore, redisVars, reqVars, histVars>>

DrawBookoutCode(i, c) ==
    /\ dpc[i] = "drawBookout"
    /\ ~CodeActive(c)
    /\ dcode' = [dcode EXCEPT ![i] = c]
    /\ dpc' = [dpc EXCEPT ![i] = "setBookout"]
    /\ UNCHANGED <<dtok, deskOps>>
    /\ UNCHANGED <<rowVars, pipeVars, netVars, rowMore, redisVars, reqVars, histVars>>

\* Every code drawn was active (40 draws): 503.
NoCodeFree(i) ==
    /\ dpc[i] = "drawBookout"
    /\ \E c \in Code : CodeActive(c)
    /\ Close(i)
    /\ UNCHANGED <<rowVars, pipeVars, netVars, rowMore, redisVars, reqVars, histVars>>

\* UPDATE of the two book-out columns; the status is not looked at again.
SetBookout(i) ==
    /\ dpc[i] = "setBookout"
    /\ bookout' = [bookout EXCEPT ![dtok[i]] = dcode[i]]
    /\ bookoutExpired' = [bookoutExpired EXCEPT ![dtok[i]] = FALSE]
    /\ DeskGoto(i, "cacheBookout")
    /\ UNCHANGED <<entryCode, expired>>
    /\ UNCHANGED <<rowVars, pipeVars, netVars, redisVars, reqVars, histVars>>

CacheBookout(i) ==
    /\ dpc[i] = "cacheBookout"
    /\ bookoutCache' = PutInCache(bookoutCache, dcode[i], dtok[i])
    /\ Close(i)
    /\ UNCHANGED <<visitorCache, claimed, live>>
    /\ UNCHANGED <<rowVars, pipeVars, netVars, rowMore, reqVars, histVars>>

\* The row as read, with its book-out code, is what the checkout works on.
StartCheckout(i, t) ==
    /\ status[t] # "absent"
    /\ MayLeave(EffectiveStatus(t))
    /\ Open(i, t, bookout[t], "deskLive")
    /\ UNCHANGED <<rowVars, pipeVars, netVars, rowMore, redisVars, reqVars, histVars>>

DeskLive(i) ==
    /\ dpc[i] = "deskLive"
    /\ live' = AfterLive(dtok[i], "checked_out")
    /\ DeskGoto(i, "deskQueue")
    /\ UNCHANGED <<visitorCache, bookoutCache, claimed>>
    /\ UNCHANGED <<rowVars, pipeVars, netVars, rowMore, reqVars, histVars>>

DeskQueue(i) ==
    /\ dpc[i] = "deskQueue"
    /\ Persist(dtok[i], "checked_out")
    /\ departures' = [departures EXCEPT ![dtok[i]] = @ + 1]
    /\ IF dcode[i] = NoCode THEN Close(i) ELSE DeskGoto(i, "deskForget")
    /\ UNCHANGED <<netVars, rowMore, redisVars, reqVars, entered, cacheIn, rowIn>>

\* consume_cached_bookout_token, whosever the entry is: GETDEL ...
DeskForget(i) ==
    /\ dpc[i] = "deskForget"
    /\ bookoutCache' = RemoveFromCache(bookoutCache, dcode[i])
    /\ IF redisUp THEN Close(i) ELSE DeskGoto(i, "deskForgetAgain")
    /\ UNCHANGED <<visitorCache, claimed, live>>
    /\ UNCHANGED <<rowVars, pipeVars, netVars, rowMore, reqVars, histVars>>

\* ... or, when it raises, GET and DELETE.
DeskForgetAgain(i) ==
    /\ dpc[i] = "deskForgetAgain"
    /\ bookoutCache' = RemoveFromCache(bookoutCache, dcode[i])
    /\ Close(i)
    /\ UNCHANGED <<visitorCache, claimed, live>>
    /\ UNCHANGED <<rowVars, pipeVars, netVars, rowMore, reqVars, histVars>>

DeskStep(i) ==
    \/ InsertPass(i) \/ CachePass(i) \/ SetBookout(i) \/ CacheBookout(i)
    \/ DeskLive(i) \/ DeskQueue(i) \/ DeskForget(i) \/ DeskForgetAgain(i)
    \/ NoCodeFree(i)
    \/ \E c \in Code : DrawBookoutCode(i, c)

DeskStart(i) ==
    \E t \in Token :
        \/ \E c \in Code : DrawEntryCode(i, t, c)
        \/ StartBookout(i, t)
        \/ StartCheckout(i, t)

-----------------------------------------------------------------------------
(* Time, maintenance and crashes.                                          *)
(* Times are ordered as the code sets them: a cached code (20 min) goes    *)
(* before the row's expiry (24 h, or 2 h for a book-out), which goes       *)
(* before the claim on its code (24 h from its use).  A request is short   *)
(* against all of them, and the worker drains well within a day.           *)

VisitorCacheExpires(c) ==
    /\ visitorCache[c] # NoToken
    /\ visitorCache' = [visitorCache EXCEPT ![c] = NoToken]
    /\ UNCHANGED <<bookoutCache, claimed, live>>
    /\ UNCHANGED <<rowVars, pipeVars, netVars, rowMore, reqVars, deskVars, histVars>>

BookoutCacheExpires(c) ==
    /\ bookoutCache[c] # NoToken
    /\ bookoutCache' = [bookoutCache EXCEPT ![c] = NoToken]
    /\ UNCHANGED <<visitorCache, claimed, live>>
    /\ UNCHANGED <<rowVars, pipeVars, netVars, rowMore, reqVars, deskVars, histVars>>

PassExpires(t) ==
    /\ status[t] # "absent"
    /\ ~expired[t]
    /\ \A c \in Code : visitorCache[c] # t
    /\ \A i \in Desk : dtok[i] = t => dpc[i] # "cachePass"
    /\ \A p \in Verifier : tok[p] = t => via[p] # "cache"
    /\ expired' = [expired EXCEPT ![t] = TRUE]
    /\ UNCHANGED <<entryCode, bookout, bookoutExpired>>
    /\ UNCHANGED <<rowVars, pipeVars, netVars, redisVars, reqVars, deskVars, histVars>>

BookoutExpires(t) ==
    /\ bookout[t] # NoCode
    /\ ~bookoutExpired[t]
    /\ \A c \in Code : bookoutCache[c] # t
    /\ \A i \in Desk : dtok[i] = t => dpc[i] # "cacheBookout"
    /\ \A p \in Verifier : tok[p] = t => via[p] # "cache"
    /\ bookoutExpired' = [bookoutExpired EXCEPT ![t] = TRUE]
    /\ UNCHANGED <<entryCode, expired, bookout>>
    /\ UNCHANGED <<rowVars, pipeVars, netVars, redisVars, reqVars, deskVars, histVars>>

ClaimExpires(c) ==
    /\ c \in claimed
    /\ \A t \in Token : /\ entryCode[t] = c => expired[t]
                        /\ bookout[t] = c => bookoutExpired[t]
    /\ visitorCache[c] = NoToken /\ bookoutCache[c] = NoToken
    /\ \A p \in Verifier : code[p] # c
    /\ \A i \in Desk : dcode[i] # c
    /\ claimed' = claimed \ {c}
    /\ UNCHANGED <<visitorCache, bookoutCache, live>>
    /\ UNCHANGED <<rowVars, pipeVars, netVars, rowMore, reqVars, deskVars, histVars>>

LiveExpires(t) ==
    /\ live[t] # "none"
    /\ expired[t]
    /\ ~Underway(t)
    /\ \A p \in Verifier : tok[p] # t
    /\ \A i \in Desk : dtok[i] # t
    /\ live' = [live EXCEPT ![t] = "none"]
    /\ UNCHANGED <<visitorCache, bookoutCache, claimed>>
    /\ UNCHANGED <<rowVars, pipeVars, netVars, rowMore, reqVars, deskVars, histVars>>

StalePasses == {t \in Token : status[t] = "pending" /\ expired[t]}

StaleBookouts == {t \in Token : bookout[t] # NoCode /\ bookoutExpired[t]}

\* cleanup_expired_tokens: both UPDATEs in one transaction.
CleanupExpiredTokens ==
    /\ StalePasses \cup StaleBookouts # {}
    /\ status' = [t \in Token |-> IF t \in StalePasses THEN "expired" ELSE status[t]]
    /\ bookout' = [t \in Token |-> IF t \in StaleBookouts THEN NoCode ELSE bookout[t]]
    /\ bookoutExpired' = [t \in Token |-> bookoutExpired[t] /\ t \notin StaleBookouts]
    /\ UNCHANGED <<used, entryCode, expired>>
    /\ UNCHANGED <<pipeVars, netVars, redisVars, reqVars, deskVars, histVars>>

\* The API process dies, with every request in it.
ApiCrash ==
    /\ faults < MaxFaults
    /\ (\E p \in Verifier : pc[p] # "idle") \/ \E i \in Desk : dpc[i] # "idle"
    /\ faults' = faults + 1
    /\ pc' = [p \in Verifier |-> "idle"]
    /\ code' = [p \in Verifier |-> NoCode]
    /\ dir' = [p \in Verifier |-> "any"]
    /\ tok' = [p \in Verifier |-> NoToken]
    /\ via' = [p \in Verifier |-> "none"]
    /\ seen' = [p \in Verifier |-> {}]
    /\ dpc' = [i \in Desk |-> "idle"]
    /\ dtok' = [i \in Desk |-> NoToken]
    /\ dcode' = [i \in Desk |-> NoCode]
    /\ UNCHANGED <<checks, deskOps, queue, batch, lost>>
    /\ UNCHANGED <<rowVars, netVars, rowMore, redisVars, histVars>>

Expiry ==
    \/ \E c \in Code : VisitorCacheExpires(c) \/ BookoutCacheExpires(c) \/ ClaimExpires(c)
    \/ \E t \in Token : PassExpires(t) \/ BookoutExpires(t) \/ LiveExpires(t)

\* The worker's and the network's steps leave the gate's own state alone.
WorkerStep ==
    /\ (\E d \in Drainer : DrainStep(d)) \/ DrainFault
    /\ UNCHANGED <<netVars, rowMore, redisVars, reqVars, deskVars, histVars>>

NetworkStep ==
    /\ RedisOutage \/ RedisRecovery
    /\ UNCHANGED <<rowVars, pipeVars, rowMore, redisVars, reqVars, deskVars, histVars>>

RequestStart(p) == \E c \in Code, d \in {"entry", "exit", "any"} : Arrive(p, c, d)

Next ==
    \/ \E p \in Verifier : RequestStart(p) \/ ExitStep(p) \/ EntryStep(p)
    \/ \E i \in Desk : DeskStart(i) \/ DeskStep(i)
    \/ Expiry
    \/ CleanupExpiredTokens
    \/ ApiCrash
    \/ WorkerStep
    \/ NetworkStep

Spec == Init /\ [][Next]_vars

-----------------------------------------------------------------------------
(* Properties. *)

\* A cached pass lets its visitor in at most once.
CacheAdmitsOnce == \A t \in Token : cacheIn[t] <= 1

\* The Postgres row lets its visitor in at most once.
RowAdmitsOnce == \A t \in Token : rowIn[t] <= 1

\* A request that began after a visitor was let in does not let that visitor
\* in again.
NoReentryAfterAdmission ==
    \A p \in Verifier : pc[p] \in {"liveIn", "queueIn"} => tok[p] \notin seen[p]

\* As long as Redis answered, a pass let its visitor in at most once from the
\* cache, by GETDEL, and at most once from its row, by the claim on its code,
\* which outlives the row's validity (verification.py 499-559, token_state.py
\* 70-73, redis.py 184-208 and 599-612).
EachPathAdmitsOnce == outages = 0 => CacheAdmitsOnce /\ RowAdmitsOnce

\* As long as Redis answered, no later request repeats an admission, although
\* the row says pending until the queue is drained (verification.py 486-559).
NoReentryBeforeDrain == outages = 0 => NoReentryAfterAdmission

\* Nobody is checked out who neither arrived nor let the pass run out, in
\* whatever state Redis and the queue are.  Who let it run out may be: the
\* status "expired" is not among those refused (tokens.py 278-291 and 351-364,
\* verification.py 417-440).
DepartureJustified ==
    \A t \in Token : departures[t] > 0 => t \in entered \/ expired[t]

\* A check-in that was answered is in the row, or on its way to it, whatever
\* outage, database failure or maintenance sweep came between, unless a fault
\* lost a popped batch (token_state.py, maintenance.py cleanup_expired_tokens).
AdmissionReachesRow ==
    \A t \in Token : Arrived(t) /\ t \notin lost =>
        Underway(t) \/ (used[t] /\ status[t] \in {"checked_in", "checked_out"})

\* What the docstring of verify_visitor_token promises: a pass lets its visitor
\* in once.  The answer of claim_token_code is not looked at after a cache hit
\* (verification.py 354, 499-512).
OneTimeUse == \A t \in Token : cacheIn[t] + rowIn[t] <= 1

\* What the comment in verify_visitor_token promises: a visitor who is inside
\* may leave by the entry code.  That code is claimed by the entry itself
\* (verification.py 428, 441-443).
EntryCodeExitHonoured ==
    [][\A p \in Verifier :
        pc[p] = "checkExit" /\ via[p] = "entryCode" /\ departures[tok[p]] = 0 => pc'[p] # "idle"]_vars
=============================================================================
