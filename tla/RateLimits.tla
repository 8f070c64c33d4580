------------------------------ MODULE RateLimits ------------------------------
(***************************************************************************)
(* Request limits for one key: the token bucket or the sliding window in   *)
(* Redis with the hourly window behind it                                  *)
(* (src/src/rate-limit/services/rate-limit.service.ts), and the counter of *)
(* login attempts in the memory of one process                             *)
(* (src/src/auth/services/rate-limit.service.ts).  The scripts are atomic, *)
(* but each request brings its own idea of the time and several servers    *)
(* run them, so scripts run out of the order of their times.               *)
(***************************************************************************)
EXTENDS Integers, FiniteSets, FiniteSetsExt

CONSTANTS
    Requests,                \* requests under way at a time
    Limiters,                \* the configurations to try
    Capacity,                \* burstSize, else requestsPerMinute: any size beside refill and window
    RefillTokens, RefillTicks,  \* requestsPerMinute / 60, as a fraction
    Limit, Window,           \* requestsPerMinute, windowSizeSeconds
    HourLimit, Hour,         \* requestsPerHour, its window
    MaxAttempts, LoginWindow,
    Lag,                     \* the most a script runs after its request read the clock
    LastTick,                \* bound: time
    MaxRateFaults            \* bound: Redis calls that fail, restarts of the process

Ticks == 0 .. LastTick
ASSUME RateAssumption ==
    /\ Limiters \subseteq [strategy: {"TOKEN_BUCKET", "SLIDING_WINDOW", "LOGIN"}, hourly: BOOLEAN]
    /\ {Capacity, RefillTokens, RefillTicks, Limit, Window, HourLimit, Hour} \subseteq Nat \ {0}
    /\ {MaxAttempts, LoginWindow, Lag, LastTick, MaxRateFaults} \subseteq Nat

VARIABLES
    clock,
    limiter,        \* the limiter requests meet; hourly: whether requestsPerHour is set
    bucket,         \* the hash tb:key: tokens, lastRefill, and the tick its key expires
    windows,        \* the sorted sets sw:key and sw:key:hour: times they hold, and expiry
    rpc, stamp,     \* request -> the check it comes to, the time it read for it
    granted,        \* history: tick -> requests the bucket let pass with a time up to that
                    \* tick, and whether a window let any pass with that time
    attempts,       \* rateLimitStore's entry: count, resetTime (-1: no entry)
    passed,         \* history: tick -> login attempts let through up to that tick since the
                    \* process started
    rateFaults

rateVars == <<clock, limiter, bucket, windows, rpc, stamp, granted, attempts, passed, rateFaults>>

Tiers == {"minute", "hour"}
LimitOf(tier) == IF tier = "minute" THEN Limit ELSE HourLimit
SizeOf(tier) == IF tier = "minute" THEN Window ELSE Hour
NoBucket == [tokens |-> Capacity, lastRefill |-> 0, expires |-> -1]
NoWindow == [times |-> {}, expires |-> -1]
NoEntry == [count |-> 0, resetTime |-> -1]
Checks == {"bucket"} \cup Tiers
Never == [t \in Ticks |-> 0]

RateInit ==
    /\ clock = 0
    /\ limiter \in Limiters
    /\ bucket = NoBucket
    /\ windows = [tier \in Tiers |-> NoWindow]
    /\ rpc = [r \in Requests |-> "idle"]
    /\ stamp = [r \in Requests |-> 0]
    /\ granted = [k \in Checks |-> Never]
    /\ attempts = NoEntry
    /\ passed = Never
    /\ rateFaults = 0

RateAt(r, check, time) ==
    /\ rpc' = [rpc EXCEPT ![r] = check]
    /\ stamp' = [stamp EXCEPT ![r] = time]
OneMore(totals, time) == [t \in Ticks |-> totals[t] + IF t >= time THEN 1 ELSE 0]
Grant(check, time) ==
    granted' = IF check = "bucket" THEN [granted EXCEPT ![check] = OneMore(@, time)]
                                   ELSE [granted EXCEPT ![check][time] = 1]
Refuse == UNCHANGED granted
ThenHourly(r) == IF limiter.hourly THEN RateAt(r, "hour", clock) ELSE RateAt(r, "idle", 0)

-----------------------------------------------------------------------------
(* checkRateLimit: the strategy's check, then the hourly one if there is one, *)
(* whatever the first said; each reads the clock before its script runs.      *)
CheckRateLimit(r) ==
    /\ rpc[r] = "idle"
    /\ limiter.strategy # "LOGIN"
    /\ RateAt(r, IF limiter.strategy = "TOKEN_BUCKET" THEN "bucket" ELSE "minute", clock)
    /\ UNCHANGED <<clock, limiter, bucket, windows, granted, attempts, passed, rateFaults>>

(* Mutant: what was refilled is not capped. *)
TokensUncapped(now) == bucket.tokens + ((now - bucket.lastRefill) * RefillTokens) \div RefillTicks

Tokens(now) ==
    Min({Capacity, bucket.tokens + ((now - bucket.lastRefill) * RefillTokens) \div RefillTicks})

\* the script; a key that expired reads as a full bucket
CheckTokenBucket(r) ==
    LET now == stamp[r]
        tokens == IF bucket.expires > clock THEN Tokens(now) ELSE Capacity
        allowed == tokens >= 1
    IN /\ rpc[r] = "bucket"
       /\ bucket' = [tokens |-> IF allowed THEN tokens - 1 ELSE tokens,
                     lastRefill |-> now, expires |-> clock + Window]
       /\ IF allowed THEN Grant("bucket", now) ELSE Refuse
       /\ ThenHourly(r)
       /\ UNCHANGED <<clock, limiter, windows, attempts, passed, rateFaults>>

Kept(tier, now) ==
    IF windows[tier].expires > clock THEN {t \in windows[tier].times : t > now - SizeOf(tier)} ELSE {}

(* The member of the sorted set is the time itself: requests of one millisecond *)
(* are one entry.                                                               *)
CheckSlidingWindow(r) ==
    \E tier \in Tiers :
        LET now == stamp[r]
            times == Kept(tier, now)
            allowed == Cardinality(times) < LimitOf(tier)
        IN /\ rpc[r] = tier
           /\ windows' = [windows EXCEPT ![tier] =
                  [times |-> IF allowed THEN times \cup {now} ELSE times,
                   expires |-> clock + SizeOf(tier)]]
           /\ IF allowed THEN Grant(tier, now) ELSE Refuse
           /\ IF tier = "minute" THEN ThenHourly(r) ELSE RateAt(r, "idle", 0)
           /\ UNCHANGED <<clock, limiter, bucket, attempts, passed, rateFaults>>

\* without an answer from Redis a check allows the request and counts nothing
RedisFault(r) ==
    /\ rpc[r] # "idle"
    /\ rateFaults < MaxRateFaults
    /\ rateFaults' = rateFaults + 1
    /\ IF rpc[r] = "hour" THEN RateAt(r, "idle", 0) ELSE ThenHourly(r)
    /\ UNCHANGED <<clock, limiter, bucket, windows, granted, attempts, passed>>

-----------------------------------------------------------------------------
\* one synchronous call: no other attempt comes between
CheckLogin ==
    LET fresh == [count |-> 0, resetTime |-> clock + LoginWindow]
        entry == IF clock >= attempts.resetTime THEN fresh ELSE attempts
    IN /\ limiter.strategy = "LOGIN"
       /\ attempts' = [entry EXCEPT !.count = @ + 1]
       /\ passed' = IF entry.count + 1 <= MaxAttempts THEN OneMore(passed, clock) ELSE passed
       /\ entry.count <= MaxAttempts    \* bound: attempts counted beyond the limit
       /\ UNCHANGED <<clock, limiter, bucket, windows, rpc, stamp, granted, rateFaults>>

CleanupExpiredEntries ==
    /\ attempts.resetTime # -1 /\ clock >= attempts.resetTime
    /\ attempts' = NoEntry
    /\ UNCHANGED <<clock, limiter, bucket, windows, rpc, stamp, granted, passed, rateFaults>>

\* a restart forgets every counter; history starts again with the process
Restart ==
    /\ limiter.strategy = "LOGIN"
    /\ rateFaults < MaxRateFaults
    /\ rateFaults' = rateFaults + 1
    /\ attempts' = NoEntry
    /\ passed' = Never
    /\ UNCHANGED <<clock, limiter, bucket, windows, rpc, stamp, granted>>

Tick ==
    /\ clock < LastTick
    /\ \A r \in Requests : rpc[r] # "idle" => stamp[r] + Lag > clock
    /\ clock' = clock + 1
    /\ UNCHANGED <<limiter, bucket, windows, rpc, stamp, granted, attempts, passed, rateFaults>>

RateNext ==
    \/ \E r \in Requests :
         CheckRateLimit(r) \/ CheckTokenBucket(r) \/ CheckSlidingWindow(r) \/ RedisFault(r)
    \/ CheckLogin \/ CleanupExpiredEntries \/ Restart \/ Tick

RateSpec == RateInit /\ [][RateNext]_rateVars

-----------------------------------------------------------------------------
RateTypeOK ==
    /\ clock \in Ticks
    /\ bucket.tokens <= Capacity
    /\ \A tier \in Tiers : windows[tier].times \subseteq Ticks
    /\ \A r \in Requests : rpc[r] \in Checks \cup {"idle"} /\ stamp[r] \in 0 .. clock
    /\ attempts.count \in 0 .. MaxAttempts + 1
    /\ rateFaults \in 0 .. MaxRateFaults

Upto(totals, t) == IF t < 0 THEN 0 ELSE totals[t]
Between(totals, a, b) == Upto(totals, b) - Upto(totals, a - 1)

(* What the window after which a bucket's key expires does not refill of it: an *)
(* expiry gives that much, times RefillTicks, away.                             *)
Surplus == Max({0, Capacity * RefillTicks - RefillTokens * Window})

(* Of the requests Redis answered, a bucket lets pass no more between two times  *)
(* than it holds and refills and what the expiries of its key give away, though  *)
(* its updates come out of order: a full bucket for one that a window does not   *)
(* fill, and the ticks by which a late script shortens an expiry.                *)
BucketsBound ==
    limiter.strategy = "TOKEN_BUCKET" => \A a, b \in Ticks : a <= b =>
        Between(granted["bucket"], a, b) * RefillTicks
            <= Capacity * RefillTicks + RefillTokens * (b - a)
               + (Surplus + RefillTokens * Lag) * ((b - a + Lag) \div Window)

(* In a window, the times at which a sliding window let anything pass are at most *)
(* the limit, again but for the lag of the scripts.  Times, not requests: those   *)
(* of one millisecond are one entry.                                              *)
WindowsBound ==
    limiter.strategy = "SLIDING_WINDOW" => \A tier \in Tiers, b \in Ticks :
        Cardinality({t \in b - SizeOf(tier) + Lag + 1 .. b : t \in Ticks /\ granted[tier][t] > 0})
            <= LimitOf(tier)

(* In any window of time one process lets through at most twice the attempts: *)
(* a counter's window and the next can each be used up around its end.        *)
LoginsBound ==
    limiter.strategy = "LOGIN" => \A a \in Ticks :
        Between(passed, a, Min({LastTick, a + LoginWindow - 1})) <= 2 * MaxAttempts

(* What the limiters do promise: of the requests that Redis answered a bucket, and   *)
(* of the milliseconds in which it answered any a sliding window, lets pass no more  *)
(* than this in any order of scripts and expiries; a request that it did not answer  *)
(* passes and leaves no trace.  The login counter promises twice its attempts.       *)
LimitsHold == BucketsBound /\ WindowsBound /\ LoginsBound
===============================================================================
