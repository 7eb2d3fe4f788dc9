-------------------------------- MODULE Limiter --------------------------------
(***************************************************************************)
(* A limiter of app/core/redis.py for one client.  It is one of two: the   *)
(* lockout after failed attempts, at the gate (endpoints verify.py) and at *)
(* login (auth.py, admin/auth.py), or the window that throttles the making *)
(* of tokens (tokens.py).  Either is a few Redis commands in a row, one    *)
(* action per command, from several requests at once.  The two share no    *)
(* key, so a behaviour has one of them, chosen at its start.               *)
(*                                                                         *)
(* Time passes in ticks.  Counts above a limit are all alike, so requests  *)
(* need no bound.                                                          *)
(***************************************************************************)
EXTENDS Integers, Sequences, FiniteSets

CONSTANTS
    Request,      \* requests of the client that may be under way at once
    MaxFailures,  \* failures that lead to a lockout (5)
    MaxMade,      \* tokens that may be made in a window (30, 40)
    Window,       \* ticks a counter lives (60 s)
    Block,        \* ticks a lockout lasts (60 s)
    MaxFaults     \* bound on faults

ASSUME RequestAssumption == IsFiniteSet(Request)
ASSUME LimitAssumption == MaxFailures \in Nat \ {0} /\ MaxMade \in Nat \ {0}
ASSUME TimeAssumption == Window \in Nat \ {0, 1} /\ Block \in Nat \ {0, 1} /\ MaxFaults \in Nat

VARIABLES
    limiter,      \* which limiter it is
    counter,      \* the counter, of failures or of tokens made
    blocked,      \* ticks the block key has to live, 0 when there is none
    redisUp,      \* whether Redis answers
    todo,         \* todo[p]: the commands request p has still to give
    late,         \* requests that have seen a tick
    streak,       \* history: failures, or tokens, since a counter or block ended
    ageless,      \* history: a counter has missed its EXPIRE
    outages, crashes   \* faults so far

vars == <<limiter, counter, blocked, redisUp, todo, late, streak, ageless, outages, crashes>>

Limit == IF limiter = "lockout" THEN MaxFailures ELSE MaxMade

\* A count, and the ticks it has to live, 0 when it has no TTL.
Counter(max) == [n : 0 .. max + 1, ttl : 0 .. Window]
NoCounter    == [n |-> 0, ttl |-> 0]

Command == {"blocked", "verify", "reset", "incr", "expire", "block", "clear"}

\* The most that can pass while Redis answers.  Attempts under way when the
\* last failure is counted come on top of the limit; a token is allowed or
\* refused by its own INCR, so none does.
Bound == IF limiter = "lockout" THEN MaxFailures + Cardinality(Request) - 1 ELSE MaxMade

\* Where the history stops counting.
Ceiling == Bound + MaxFaults + 1

\* Every variable has its type; counts run to one above the limit.
TypeOK ==
    /\ limiter \in {"lockout", "throttle"}
    /\ counter \in Counter(Limit)
    /\ blocked \in 0 .. Block
    /\ redisUp \in BOOLEAN /\ ageless \in BOOLEAN
    /\ todo \in [Request -> Seq(Command)]
    /\ late \subseteq Request
    /\ streak \in 0 .. Ceiling
    /\ outages \in Nat /\ crashes \in Nat /\ outages + crashes <= MaxFaults

-----------------------------------------------------------------------------
At(p, command) == todo[p] # <<>> /\ Head(todo[p]) = command

Goto(p, commands) ==
    /\ todo' = [todo EXCEPT ![p] = commands]
    /\ late' = IF commands = <<>> THEN late \ {p} ELSE late

Proceed(p) == Goto(p, Tail(todo[p]))

\* Requests in no particular order: a new one takes a free place.
Takes(p) == todo[p] = <<>> /\ p = CHOOSE q \in Request : todo[q] = <<>>

OneMore == IF streak < Ceiling THEN streak + 1 ELSE streak

\* INCR.
Incremented(c) == IF c.n > Limit THEN c ELSE [c EXCEPT !.n = @ + 1]

\* Mutant: every INCR is followed by an EXPIRE.
AlwaysExpires(n) == TRUE

\* A new counter is given its TTL by the request that made it.
Expires(n) == n = 1

\* Mutant: the TTL is a tick longer than the window.
WithLongTTL(c) == IF c.n > 0 THEN [c EXCEPT !.ttl = Window + 1] ELSE c

\* EXPIRE of a counter that may be gone by now.
WithTTL(c) == IF c.n > 0 THEN [c EXCEPT !.ttl = Window] ELSE c

-----------------------------------------------------------------------------
(* The lockout: check, verify, then record or reset.                       *)

StartAttempt(p) ==
    /\ limiter = "lockout"
    /\ Takes(p)
    /\ Goto(p, <<"blocked", "verify">>)
    /\ UNCHANGED <<limiter, counter, blocked, redisUp, streak, ageless, outages, crashes>>

\* Mutant: an attempt that is turned away starts the block again.
BlockAgain(b) == Block

\* What an attempt that is turned away leaves of the block.
BlockLeft(b) == b

\* TTL of the block key: while it is there, attempts are turned away.
CheckBlocked(p) ==
    /\ At(p, "blocked")
    /\ IF redisUp /\ blocked > 0
       THEN Goto(p, <<>>) /\ blocked' = BlockLeft(blocked)
       ELSE Proceed(p) /\ UNCHANGED blocked
    /\ UNCHANGED <<limiter, counter, redisUp, streak, ageless, outages, crashes>>

\* The code is good, or the password right.
Succeed(p) ==
    /\ At(p, "verify")
    /\ Goto(p, <<"reset">>)
    /\ UNCHANGED <<limiter, counter, blocked, redisUp, streak, ageless, outages, crashes>>

Fail(p) ==
    /\ At(p, "verify")
    /\ Goto(p, <<"incr">>)
    /\ streak' = OneMore
    /\ UNCHANGED <<limiter, counter, blocked, redisUp, ageless, outages, crashes>>

\* The attempt ends with an error of its own, such as an expired subscription:
\* neither a success nor a failure.
Abort(p) ==
    /\ At(p, "verify")
    /\ Goto(p, <<>>)
    /\ UNCHANGED <<limiter, counter, blocked, redisUp, streak, ageless, outages, crashes>>

\* DELETE of the counter after a success.
Reset(p) ==
    /\ At(p, "reset")
    /\ Proceed(p)
    /\ IF redisUp THEN counter' = NoCounter /\ streak' = 0 ELSE UNCHANGED <<counter, streak>>
    /\ UNCHANGED <<limiter, blocked, redisUp, ageless, outages, crashes>>

\* Mutant: the counter is deleted before the block is there.
ClearFirst == <<"clear", "block">>

\* How a client is locked out.
LockOut == <<"block", "clear">>

\* INCR of the counter, and what the count leads to.  Without Redis the
\* failure is not recorded.
CountFailure(p) ==
    /\ limiter = "lockout" /\ At(p, "incr")
    /\ LET c == Incremented(counter)
       IN  IF redisUp
           THEN /\ counter' = c
                /\ Goto(p, (IF Expires(c.n) THEN <<"expire">> ELSE <<>>)
                           \o (IF c.n >= MaxFailures THEN LockOut ELSE <<>>))
           ELSE Goto(p, <<>>) /\ UNCHANGED counter
    /\ UNCHANGED <<limiter, blocked, redisUp, streak, ageless, outages, crashes>>

\* EXPIRE.  An error ends the recording, and nobody is told.
Expire(p) ==
    /\ At(p, "expire")
    /\ IF redisUp THEN counter' = WithTTL(counter) /\ Proceed(p) ELSE Goto(p, <<>>) /\ UNCHANGED counter
    /\ ageless' = (ageless \/ ~redisUp)
    /\ UNCHANGED <<limiter, blocked, redisUp, streak, outages, crashes>>

SetBlock(p) ==
    /\ At(p, "block")
    /\ IF redisUp THEN blocked' = Block /\ Proceed(p) ELSE Goto(p, <<>>) /\ UNCHANGED blocked
    /\ UNCHANGED <<limiter, counter, redisUp, streak, ageless, outages, crashes>>

ClearFailures(p) ==
    /\ At(p, "clear")
    /\ Proceed(p)
    /\ counter' = IF redisUp THEN NoCounter ELSE counter
    /\ UNCHANGED <<limiter, blocked, redisUp, streak, ageless, outages, crashes>>

-----------------------------------------------------------------------------
(* The throttle: check_rate_limit before a token is made.                  *)

StartMaking(p) ==
    /\ limiter = "throttle"
    /\ Takes(p)
    /\ Goto(p, <<"incr">>)
    /\ UNCHANGED <<limiter, counter, blocked, redisUp, streak, ageless, outages, crashes>>

\* A count above the limit refuses; without Redis everything is allowed.
CountMade(p) ==
    /\ limiter = "throttle" /\ At(p, "incr")
    /\ LET c == Incremented(counter)
       IN  IF redisUp
           THEN /\ counter' = c
                /\ streak' = IF c.n <= MaxMade THEN OneMore ELSE streak
                /\ Goto(p, IF Expires(c.n) THEN <<"expire">> ELSE <<>>)
           ELSE Goto(p, <<>>) /\ streak' = OneMore /\ UNCHANGED counter
    /\ UNCHANGED <<limiter, blocked, redisUp, ageless, outages, crashes>>

-----------------------------------------------------------------------------
(* Time and faults.                                                        *)

Aged(c) == IF c.ttl = 1 THEN NoCounter ELSE [c EXCEPT !.ttl = IF @ = 0 THEN 0 ELSE @ - 1]

\* A tick, of 30 s: a request may see one, not two.
Tick ==
    /\ late = {}
    /\ late' = {p \in Request : todo[p] # <<>>}
    /\ counter' = Aged(counter)
    /\ blocked' = IF blocked > 0 THEN blocked - 1 ELSE 0
    /\ streak' = IF counter.ttl = 1 \/ blocked = 1 THEN 0 ELSE streak
    /\ UNCHANGED <<limiter, redisUp, todo, ageless, outages, crashes>>

\* A process dies in the middle of a request.
Crash(p) ==
    /\ todo[p] # <<>>
    /\ outages + crashes < MaxFaults
    /\ crashes' = crashes + 1
    /\ Goto(p, <<>>)
    /\ ageless' = (ageless \/ At(p, "expire"))
    /\ UNCHANGED <<limiter, counter, blocked, redisUp, streak, outages>>

Outage ==
    /\ redisUp
    /\ outages + crashes < MaxFaults
    /\ outages' = outages + 1
    /\ redisUp' = FALSE
    /\ UNCHANGED <<limiter, counter, blocked, todo, late, streak, ageless, crashes>>

Recovery ==
    /\ ~redisUp
    /\ redisUp' = TRUE
    /\ UNCHANGED <<limiter, counter, blocked, todo, late, streak, ageless, outages, crashes>>

-----------------------------------------------------------------------------
Init ==
    /\ limiter \in {"lockout", "throttle"}
    /\ counter = NoCounter
    /\ blocked = 0
    /\ redisUp = TRUE
    /\ todo = [p \in Request |-> <<>>]
    /\ late = {}
    /\ streak = 0
    /\ ageless = FALSE
    /\ outages = 0 /\ crashes = 0

RequestStep(p) ==
    \/ CheckBlocked(p) \/ Succeed(p) \/ Fail(p) \/ Abort(p) \/ Reset(p)
    \/ CountFailure(p) \/ Expire(p) \/ SetBlock(p) \/ ClearFailures(p) \/ CountMade(p)

Next ==
    \/ \E p \in Request : StartAttempt(p) \/ StartMaking(p) \/ RequestStep(p) \/ Crash(p)
    \/ Tick \/ Outage \/ Recovery

\* Time passes, Redis comes back, and a request that was taken up goes on.
Fairness ==
    /\ WF_vars(Tick) /\ WF_vars(Recovery)
    /\ \A p \in Request : WF_vars(RequestStep(p))

Spec == Init /\ [][Next]_vars /\ Fairness

-----------------------------------------------------------------------------
(* Properties.                                                             *)

\* As long as Redis answers, no more attempts fail between two ends of a
\* counter or block than the limit, the other requests under way and the
\* requests that died, although check, count and block are commands of their
\* own; and no more tokens are made in a window than the limit (redis.py
\* 407-468, 716-776, 780-810).
AttemptsBounded == outages = 0 => streak <= Bound + crashes

\* A lockout ends, however often the client tries meanwhile (redis.py 407-423,
\* 716-732).
LockoutEnds == blocked > 0 ~> blocked = 0

\* A counter ends, so that nobody is refused for ever for what was long ago,
\* however often the client tries.  Excepted is a counter that missed its
\* EXPIRE, by a crash or an outage right after its INCR (redis.py 444-446,
\* 796-800).
CountersEnd == counter.n > 0 ~> (counter.n = 0 \/ ageless)
=============================================================================
