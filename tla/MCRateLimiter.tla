---------------------------- MODULE MCRateLimiter ----------------------------
(* Instances of RateLimiter for TLC.                                        *)
EXTENDS RateLimiter, TLC

\* The calls of check are interchangeable.
Symmetry == Permutations(Requests)
=============================================================================
