--------------------------- MODULE MCRateLimiter ---------------------------
(* Constants for model-checking RateLimiter. *)
EXTENDS RateLimiter, TLC

CONSTANTS t1, t2, c1, c2

ShortAndLong == ("ip" :> 1) @@ ("login" :> 2)
TwoAndOne == ("ip" :> 2) @@ ("login" :> 1)

=============================================================================
