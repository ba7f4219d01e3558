------------------------- MODULE MCDocumentRegistry -------------------------
(* Instances of DocumentRegistry for TLC.                                   *)
EXTENDS DocumentRegistry, TLC

\* Requests of one kind and files are interchangeable.
Symmetry ==
    Permutations(Uploads) \cup Permutations(Deletions) \cup Permutations(Slots)
=============================================================================
