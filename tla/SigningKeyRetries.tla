------------------------- MODULE SigningKeyRetries --------------------------
(***************************************************************************)
(* The rotation steps under operators who try again.  A run is refused     *)
(* when it cannot go on, and is interrupted at most MaxCrashes times where *)
(* it could have.  The fairness is the operators': a run is carried to its *)
(* end or its refusal, and every step is run again on every key.           *)
(***************************************************************************)
EXTENDS SigningKeyRotation

CONSTANT MaxCrashes   \* bound: interruptions in a behaviour

ASSUME RetriesAssumption == MaxCrashes \in Nat

VARIABLE crashes

retryVars == <<vars, crashes>>

Crash(o) ==
  /\ crashes < MaxCrashes
  /\ ENABLED Proceed(o)
  /\ Stop(o)
  /\ crashes' = crashes + 1

Refuse(o) ==
  /\ ~ENABLED Proceed(o)
  /\ Stop(o)
  /\ UNCHANGED crashes

Go(o) == Proceed(o) /\ UNCHANGED crashes

Try(s, k) == (\E o \in Operator : Begin(o, s, k)) /\ UNCHANGED crashes

RetryInit == Init /\ crashes = 0

RetryNext ==
  \/ \E s \in Steps, k \in Key : Try(s, k)
  \/ \E o \in Operator : Go(o) \/ Crash(o) \/ Refuse(o)
  \/ (\E k \in Key : Ceremony(k)) /\ UNCHANGED crashes

RetryFairness ==
  /\ \A o \in Operator : WF_retryVars(Go(o)) /\ WF_retryVars(Refuse(o))
  /\ \A s \in Steps, k \in Key : SF_retryVars(Try(s, k))

RetrySpec == RetryInit /\ [][RetryNext]_retryVars /\ RetryFairness

-----------------------------------------------------------------------------

\* An abandonment or revocation of a staged key that stopped after the provider and
\* before the files is undone by staging the key again (agree refuses to resume it).
UnpublishedStagedKeysComeBack ==
  \A k \in Key : registry[k] = "staged" /\ provider[k] = "absent" /\ files[k] = KeyFiles
    ~> provider[k] # "absent" \/ files[k] # KeyFiles

\* "A provider already removed is not an error, so an interrupted step can run again"
\* (RemoveSigningKey): a key on its way out is destroyed in the end.
InterruptedRemovalRunsAgain ==
  \A k \in Key : registry[k] = "retiring" /\ provider[k] = "absent" ~> files[k] = {}

=============================================================================
