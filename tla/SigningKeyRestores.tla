------------------------ MODULE SigningKeyRestores --------------------------
(***************************************************************************)
(* The rotation steps and restores of the kernel's database.  A set holds  *)
(* the realm's providers and neither the keys directory nor the registry,  *)
(* so a restored realm may lack keys that were staged since, sign with one *)
(* that was demoted since, and publish one that was destroyed since.  The  *)
(* script refuses its steps on a key whose two states disagree; operators  *)
(* then run the kernel's half of a step by hand                            *)
(* (docs/runbooks/unknown-kid.md, step 6).                                 *)
(*                                                                         *)
(* Simplifications.  One set is kept, of any age.  A restore is one step,  *)
(* with no run in progress: its own steps are the subject of Backups.      *)
(* Of the tokens only those matter that no key of the realm can sign.      *)
(***************************************************************************)
EXTENDS SigningKeyRetries

CONSTANT MaxRestores   \* bound: restores in a behaviour

ASSUME RestoresAssumption == MaxRestores \in Nat

VARIABLES
  backup,    \* the realm in the set
  restores

restoreVars == <<retryVars, backup, restores>>

Realm == [provider |-> provider, priority |-> priority, fallback |-> fallback]

TakeBackup ==
  /\ backup' = Realm
  /\ UNCHANGED <<retryVars, restores>>

RestoreRealm ==
  /\ restores < MaxRestores /\ restores' = restores + 1
  /\ \A o \in Operator : pc[o] = "idle"
  /\ provider' = backup.provider
  /\ priority' = backup.priority
  /\ fallback' = backup.fallback
  /\ UNCHANGED <<registry, files, signed, pc, step, kid, state, memory, crashes, backup>>

\* After a restore: the registry has the key in the key set, or active, and the realm
\* may not.
Lacking(k, s) ==
  /\ restores > 0
  /\ \/ s = "stage" /\ registry[k] \in {"active", "retiring"} /\ k \notin Present
     \/ s = "activate" /\ registry[k] = "active" /\ k \in Present

\* signing-key stage -kid and signing-key activate -kid, for what the realm lacks.  The
\* registry is told nothing.
ByHand(o, k, s) ==
  /\ \A p \in Operator : pc[p] = "idle"
  /\ Lacking(k, s)
  /\ Goto(o, "idle", IF s = "stage" THEN "lookup" ELSE "snapshot")
  /\ step' = [step EXCEPT ![o] = s]
  /\ kid'  = [kid  EXCEPT ![o] = k]
  /\ UNCHANGED <<registry, realm, files, signed, state, memory, crashes, backup, restores>>

RestoresInit == RetryInit /\ backup = Realm /\ restores = 0

RestoresNext ==
  \/ RetryNext /\ UNCHANGED <<backup, restores>>
  \/ Serving = {} /\ IssueToken /\ UNCHANGED <<crashes, backup, restores>>
  \/ TakeBackup \/ RestoreRealm
  \/ \E o \in Operator, k \in Key, s \in {"stage", "activate"} : ByHand(o, k, s)

Kept == UNCHANGED <<backup, restores>>

\* What operators try again: the script's step, or by hand what the realm lacks.
Repair(k, s) ==
  IF Lacking(k, s) THEN \E o \in Operator : ByHand(o, k, s) ELSE Try(s, k) /\ Kept

RestoresFairness ==
  /\ \A o \in Operator : WF_restoreVars(Go(o) /\ Kept) /\ WF_restoreVars(Refuse(o) /\ Kept)
  /\ \A k \in Key, s \in {"stage", "activate"} : SF_restoreVars(Repair(k, s))

RestoresSpec == RestoresInit /\ [][RestoresNext]_restoreVars /\ RestoresFairness

-----------------------------------------------------------------------------

\* A restore to any point is repaired from custody, never by a new key: the key the
\* registry has active comes to sign again, wherever the repair or a step stops, and
\* though the restored realm may publish keys whose files are gone (TDD-identity-kernel-
\* 002, Compromise and Recovery: "the restore takes the current active key from custody").
RegistrysKeySignsAgain ==
  \A k \in Key : registry[k] = "active" /\ Top # {k} ~> registry[k] # "active" \/ Top = {k}

\* A demoted key that a restore made active again stops being active, as long as it
\* has its files: of a provider that cannot load its key Keycloak refuses every write.
RestoredDemotedKeysStop ==
  \A k \in Key : registry[k] = "retiring" /\ provider[k] = "active" ~>
    registry[k] # "retiring" \/ provider[k] # "active" \/ files[k] # KeyFiles

\* Without a restore no hand is needed.  An activation interrupted anywhere heals by
\* running again: the key the realm no longer signs with, and every step on it refused
\* while the registry still has it active, is demoted in the registry too (the
\* staged:active row of agree).
InterruptedActivationHeals ==
  \A k \in Key : registry[k] = "active" /\ provider[k] = "passive" /\ restores = 0 ~>
    registry[k] = "retiring" \/ restores > 0
=============================================================================
