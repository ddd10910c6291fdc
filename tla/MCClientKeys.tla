----------------------------- MODULE MCClientKeys ----------------------------
(* ClientKeys on small sets of names, keys and runs. *)
EXTENDS ClientKeys, TLC

\* The names are interchangeable, and so are the keys and the runs.
Symmetry == Permutations(Name) \cup Permutations(Key) \cup Permutations(Run)
=============================================================================
