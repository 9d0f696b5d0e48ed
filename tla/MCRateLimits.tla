---------------------------- MODULE MCRateLimits ----------------------------
(* Instances of RateLimits for TLC.                                        *)
EXTENDS RateLimits

CONSTANTS r1, r2, k1, k2

McRequests == {r1, r2}
McKeys == {k1, k2}
=============================================================================
