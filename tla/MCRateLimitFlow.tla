--------------------------- MODULE MCRateLimitFlow ---------------------------
(***************************************************************************)
(* RateLimitFlow on a small instance, with two keys of different limits.   *)
(***************************************************************************)
EXTENDS RateLimitFlow

CONSTANTS k1, k2

Keys == {k1, k2}
Limits == [k \in Keys |-> IF k = k1 THEN 2 ELSE 1]
=============================================================================
