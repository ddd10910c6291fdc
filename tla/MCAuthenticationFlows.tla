----------------------- MODULE MCAuthenticationFlows ------------------------
(* AuthenticationFlows on two flows of two steps. *)
EXTENDS AuthenticationFlows

\* The first definition declares and binds flow 1, the second adds flow 2 and binds it,
\* and the third goes back to flow 1.
MCDeclared == [d \in Revision |-> IF d = "r1" THEN {1} ELSE {1, 2}]
MCBinds    == [d \in Revision |-> IF d = "r2" THEN 2 ELSE 1]
=============================================================================
