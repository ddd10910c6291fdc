---------------------------- MODULE MCKeyCustody ----------------------------
(* KeyCustody on small sets of keys and runs. *)
EXTENDS KeyCustody, TLC

\* The keys are interchangeable, and so are the runs.
Symmetry == Permutations(Key) \cup Permutations(Run)
=============================================================================
