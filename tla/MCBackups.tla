------------------------------ MODULE MCBackups ------------------------------
(* Behaviours that begin on the day FirstClock, after nights some of which  *)
(* left a backup.                                                            *)
EXTENDS Backups, TLC

CONSTANT FirstClock

Earlier == {[kind |-> k, date |-> t \div DayTicks, modified |-> t, whole |-> TRUE] :
              k \in Kinds, t \in 0..(FirstClock - 1)}

MCInit ==
    /\ clock = FirstClock
    /\ due = [k \in Kinds |-> Today]
    /\ queue = [k \in Kinds |-> 0]
    /\ run = [w \in Workers |-> Idle]
    /\ files = [d \in Dates |-> "none"]
    /\ bucket \in {{}, Earlier}
    /\ crashes = 0

MCSpec == MCInit /\ [][Next]_vars

\* The processes of the worker are alike.
Symmetry == Permutations(Workers)
=============================================================================
