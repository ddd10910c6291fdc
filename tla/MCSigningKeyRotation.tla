------------------------ MODULE MCSigningKeyRotation ------------------------
(* SigningKeyRotation on small sets of keys and operators. *)
EXTENDS SigningKeyRotationProofs, TLC

\* The keys other than the first are interchangeable, and so are the operators.
Symmetry == Permutations(Key \ {FirstKey}) \cup Permutations(Operator)
\* Two states that differ in which keys have signed go on alike: only the run about
\* abandoned keys looks at it.
View == <<registry, realm, files, pc, step, kid, state, memory>>
=============================================================================
