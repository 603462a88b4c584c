---------------------------- MODULE IdealLimiter ----------------------------
(***************************************************************************)
(* What the rate limiter promises: every key has a token bucket that is    *)
(* full at first, gains a token every Every seconds and is never thrown    *)
(* away; an action is allowed exactly when its bucket holds a token.       *)
(***************************************************************************)
EXTENDS RateLimits

VARIABLES
    now,        \* the clock
    credit,     \* per key, its tokens in seconds
    answer      \* the last answer given: <<key, allowed>>

Init ==
    /\ now = 0
    /\ credit = [k \in Keys |-> Full(k)]
    /\ answer = None

Allow(k) ==
    /\ answer' = <<k, credit[k] >= Price(k)>>
    /\ credit' = [credit EXCEPT ![k] = IF @ >= Price(k) THEN @ - Price(k) ELSE @]
    /\ UNCHANGED now

Wait(d) ==
    /\ now' = now + d
    /\ credit' = [k \in Keys |-> Refill(k, credit[k], d)]
    /\ UNCHANGED answer

Next == (\E k \in Keys : Allow(k)) \/ (\E d \in Steps : Wait(d))

Spec == Init /\ [][Next]_<<now, credit, answer>>
=============================================================================
