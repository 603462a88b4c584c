----------------------------- MODULE RateLimiter ----------------------------
(***************************************************************************)
(* server/internal/ratelimit/limiter.go: token buckets made on demand and  *)
(* thrown away when idle.  One mutex covers each operation.                *)
(*                                                                         *)
(* The buckets are golang.org/x/time/rate limiters: credit is brought up   *)
(* to date when a bucket is asked, and nothing is stored on a refusal.     *)
(***************************************************************************)
EXTENDS RateLimits

CONSTANTS
    MaxTime,    \* bound: the clock
    MaxStart    \* bound: observations begin before this time

Bucket == [credit : Nat, last : Nat, lastAccess : Nat]

ASSUME BucketAssumption == None \notin Bucket

VARIABLES
    now,        \* the clock, in seconds
    buckets,    \* Limiter.buckets: credit at time last, and lastAccess; or None
    answer,     \* the last answer given
    since,      \* the beginning of an observation, at any time; or None
    granted     \* actions allowed since then, per key

limiterVars == <<now, buckets, answer, since, granted>>

\* The credit of a key now; a bucket that does not exist would be made full.
Credit(k) ==
    IF buckets[k] = None THEN Full(k)
    ELSE Refill(k, buckets[k].credit, now - buckets[k].last)

LimiterInit ==
    /\ now = 0
    /\ buckets = [k \in Keys |-> None]
    /\ answer = None
    /\ since = None
    /\ granted = [k \in Keys |-> 0]

\* A bug for the checks to find: a refusal renews the bucket.
AllowRenewing(k) ==
    LET ok == Credit(k) >= Price(k)
    IN  /\ answer' = <<k, ok>>
        /\ granted' = IF ok /\ since # None THEN [granted EXCEPT ![k] = @ + 1] ELSE granted
        /\ buckets' = [buckets EXCEPT ![k] =
                [credit |-> IF ok THEN Credit(k) - Price(k) ELSE Full(k),
                 last |-> now, lastAccess |-> now]]
        /\ UNCHANGED <<now, since>>

Allow(k) ==
    LET ok == Credit(k) >= Price(k)
        b == IF buckets[k] = None
             THEN [credit |-> Full(k), last |-> now, lastAccess |-> now]
             ELSE buckets[k]
    IN  /\ answer' = <<k, ok>>
        /\ granted' = IF ok /\ since # None THEN [granted EXCEPT ![k] = @ + 1] ELSE granted
        /\ buckets' = [buckets EXCEPT ![k] =
                IF ok THEN [credit |-> Credit(k) - Price(k), last |-> now, lastAccess |-> now]
                ELSE [b EXCEPT !.lastAccess = now]]
        /\ UNCHANGED <<now, since>>

Idle(k) == buckets[k] # None /\ now - buckets[k].lastAccess > MaxAge[k[1]]

\* A bug for the checks to find: a bucket goes once the next token is due.
CleanupEager ==
    /\ buckets' = [k \in Keys |-> IF buckets[k] # None
                                     /\ now - buckets[k].lastAccess > Price(k)
                                  THEN None ELSE buckets[k]]
    /\ UNCHANGED <<now, answer, since, granted>>

Cleanup ==
    /\ buckets' = [k \in Keys |-> IF Idle(k) THEN None ELSE buckets[k]]
    /\ UNCHANGED <<now, answer, since, granted>>

\* The clock moves; an observation begins.
Tick(d) ==
    /\ now + d <= MaxTime
    /\ now' = now + d
    /\ UNCHANGED <<buckets, answer, since, granted>>

Observe ==
    /\ since = None /\ now < MaxStart
    /\ since' = now
    /\ UNCHANGED <<now, buckets, answer, granted>>

LimiterNext ==
    \/ \E k \in Keys : Allow(k)
    \/ Cleanup
    \/ \E d \in Steps : Tick(d)
    \/ Observe

LimiterSpec == LimiterInit /\ [][LimiterNext]_limiterVars

-----------------------------------------------------------------------------
\* Types; no bucket holds more than its burst or comes from the future.
LimiterTypeOK ==
    /\ now \in Nat
    /\ buckets \in [Keys -> Bucket \cup {None}]
    /\ answer \in (Keys \X BOOLEAN) \cup {None}
    /\ since \in Nat \cup {None}
    /\ since # None => since <= now
    /\ granted \in [Keys -> Nat]
    /\ \A k \in Keys : buckets[k] # None =>
          /\ buckets[k].credit <= Full(k)
          /\ buckets[k].last <= buckets[k].lastAccess
          /\ buckets[k].lastAccess <= now

\* Throwing idle buckets away changes no answer, ever: the limiter behaves as
\* the one that keeps every bucket (cleanup may run at any time).
Ideal == INSTANCE IdealLimiter WITH credit <- [k \in Keys |-> Credit(k)]
ImplementsIdeal == Ideal!Spec

\* In any period of time, whenever it begins and whatever is cleaned up, a key
\* is allowed no more than its burst and one action per Every seconds.
RateBound ==
    since # None => \A k \in Keys : granted[k] * Price(k) <= Full(k) + (now - since)
=============================================================================
