------------------------------ MODULE KeptSets ------------------------------
(***************************************************************************)
(* What backup.sh promises whoever restores from its directory, however    *)
(* many files a set is made of: sets appear and change only as the newest, *)
(* and none goes unless as many newer ones stay as are kept.               *)
(***************************************************************************)
EXTENDS Naturals, FiniteSets

CONSTANTS Day, Keep, Role, Dump

VARIABLE sets  \* the complete sets, by date

Set == [globals : SUBSET Role, dump : Dump]

Init == sets = [d \in {} |-> {}]

\* A set of the newest date appears, or takes the place of the day's earlier one.
Put(d, s) ==
  /\ \A e \in DOMAIN sets : e <= d
  /\ sets' = [e \in DOMAIN sets \cup {d} |-> IF e = d THEN s ELSE sets[e]]

Drop(d) ==
  /\ d \in DOMAIN sets /\ Cardinality({e \in DOMAIN sets : e > d}) >= Keep
  /\ sets' = [e \in DOMAIN sets \ {d} |-> sets[e]]

Next == \E d \in Day : Drop(d) \/ \E s \in Set : Put(d, s)

Spec == Init /\ [][Next]_sets
=============================================================================
