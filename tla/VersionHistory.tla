--------------------------- MODULE VersionHistory ---------------------------
(* What the documents table promises a reader about one file name in one    *)
(* department: at any time there is at most one current version, a new      *)
(* upload replaces it by its successor in a single step, and a current      *)
(* version may be withdrawn.  Nothing is said of how many statements the    *)
(* gateway needs for that; DocumentRegistry says it.                        *)
EXTENDS Naturals

CONSTANT Slots          \* pairs <filename, department>

VARIABLE current        \* current[s]: the version a reader sees, 0 for none

Init == current = [s \in Slots |-> 0]

Publish(s) == current' = [current EXCEPT ![s] = @ + 1]

Withdraw(s) == current[s] > 0 /\ current' = [current EXCEPT ![s] = 0]

Next == \E s \in Slots : Publish(s) \/ Withdraw(s)

Spec == Init /\ [][Next]_current
=============================================================================
