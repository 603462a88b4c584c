---------------------------- MODULE MCRateLimiter ---------------------------
(***************************************************************************)
(* Ann joins rooms, in steps of half a token and of more than the two      *)
(* hours after which an idle bucket is thrown away.                        *)
(***************************************************************************)
EXTENDS RateLimiter

CONSTANT ann

MCKeys == {<<"room", ann>>}
MCSteps == {180, 7201}
=============================================================================
