----------------------------- MODULE RateLimits -----------------------------
(***************************************************************************)
(* The parameters of server/internal/ratelimit/limiter.go, in seconds.  A  *)
(* token of a bucket is worth Every seconds of waiting, so that a bucket's *)
(* tokens are counted in whole seconds of credit.                          *)
(***************************************************************************)
EXTENDS Integers

CONSTANTS
    Keys,       \* composite keys: <<limit type, IP or client ID>>
    Steps,      \* how far the clock moves at once
    None

Types == {"room", "chat", "fail"}

ASSUME RateAssumption ==
    /\ \A k \in Keys : k[1] \in Types
    /\ Steps \subseteq Nat
    /\ None \notin Nat

\* limitParams: the rate, as seconds per token, and the burst.
Every == [room |-> 360, chat |-> 1, fail |-> 120]
Burst == [room |-> 2, chat |-> 10, fail |-> 2]

\* cleanup: how long an idle bucket is kept.
MaxAge == [room |-> 7200, chat |-> 120, fail |-> 1200]

Price(k) == Every[k[1]]
Full(k) == Burst[k[1]] * Every[k[1]]

\* The credit c after d seconds of waiting.
Refill(k, c, d) == IF c + d <= Full(k) THEN c + d ELSE Full(k)
=============================================================================
