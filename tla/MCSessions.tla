----------------------------- MODULE MCSessions -----------------------------
(* Instances of Sessions for TLC.                                           *)
EXTENDS Sessions, TLC

\* Requests, tokens and creations are interchangeable.
Symmetry ==
    Permutations(Requests) \cup Permutations(Tokens) \cup Permutations(Creations)
=============================================================================
