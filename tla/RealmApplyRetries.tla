-------------------------- MODULE RealmApplyRetries --------------------------
(***************************************************************************)
(* realm-apply run again and again, after the interruptions, the edits and *)
(* the commits have come to an end.  The fairness is the deployment's: a   *)
(* run is carried to its end (it has a timeout of five minutes), and an    *)
(* operator who finds the realm refused adopts it in the end.              *)
(***************************************************************************)
EXTENDS RealmApply

VARIABLE calm   \* whether nothing disturbs the realm, the checkout or a run any more

retryVars == <<vars, calm>>

\* A run that cannot go on is refused; only a disturbance stops another.
Refuse ==
  /\ ~ENABLED Proceed
  /\ Stop
  /\ UNCHANGED calm

Disturb ==
  /\ ~calm
  /\ \/ Stop
     \/ Edits
     \/ (\E r \in Revision : ChangeTree(r)) \/ Commit
  /\ UNCHANGED calm

\* The end of the disturbances leaves a committed tree, of values Keycloak keeps.
Calm ==
  /\ tree = head /\ \A o \in Object \ {Defaults} : Declares[tree][o] \in {Nothing} \cup {v \in Value : Kept[v] = v}
  /\ calm' = TRUE /\ UNCHANGED vars

Go == Proceed /\ UNCHANGED calm

Try(a) == Begin(a) /\ UNCHANGED calm

RetryInit == Init /\ calm = FALSE

RetryNext == (\E a \in BOOLEAN : Try(a)) \/ Go \/ Refuse \/ Disturb \/ Calm

RetryFairness == WF_retryVars(Go) /\ WF_retryVars(Refuse) /\ SF_retryVars(Try(TRUE))

RetrySpec == RetryInit /\ [][RetryNext]_retryVars /\ RetryFairness

-----------------------------------------------------------------------------

\* Whatever was interrupted, edited or recorded before, a realm that is adopted ends up
\* as the checkout declares it, with a record later runs can take as their baseline.
AdoptedRealmConverges ==
  [](calm => <>[](record = [revision |-> head, digest |-> head] /\ Differs(head) = {}))

=============================================================================
