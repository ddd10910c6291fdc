------------------------- MODULE SigningKeyRotation -------------------------
(***************************************************************************)
(* The realm signing keys' rotation steps: scripts/signing-key-rotation.sh *)
(* run by operators, the kernel's half of each step (cmd/signing-key and   *)
(* internal/realmdef/signingkey.go), the realm's key providers, the keys   *)
(* directory and identity-control's registry.                              *)
(*                                                                         *)
(* A step is a sequence of calls on four systems that share no             *)
(* transaction, so each read and each write is an action of its own, and   *)
(* an operator's run may stop between any two of them.  The script takes   *)
(* no lock: which runs never overlap is what the operators ensure, and the *)
(* constants TakeTurns and KeysTakeTurns say.                              *)
(*                                                                         *)
(* Simplifications.  A ceremony leaves a key's three files in place at     *)
(* once.  The registry's approvals are not modelled: a check succeeds      *)
(* whenever the key's state admits the transition, as if the approval were *)
(* always there; the wait a check enforces is the subject of               *)
(* SigningKeyWindows.  Reading the certificates and the providers at the   *)
(* start of a command is one step.  Priorities are counted in hundreds.    *)
(***************************************************************************)
EXTENDS Naturals, FiniteSets

CONSTANTS
  Key,             \* the keys, each standing for its kid
  FirstKey,        \* the key realm-apply activated on the empty realm
  FirstKeyState,   \* its state in the registry: "none" until it is registered
  Operator,        \* the operators, each running at most one step at a time
  TakeTurns,       \* the steps of which one at most is in progress at a time
  KeysTakeTurns,   \* whether one step at most is in progress on a key
  MaxPriority      \* bound: no activation raises a priority above it

ASSUME RotationAssumption ==
  /\ FirstKey \in Key
  /\ FirstKeyState \in {"none", "active"}
  /\ TakeTurns \subseteq {"stage", "activate", "retire", "abandon", "revoke"}
  /\ KeysTakeTurns \in BOOLEAN
  /\ MaxPriority \in Nat \ {0}

VARIABLES
  registry,   \* each key's state in identity-control's registry
  provider,   \* each key's provider in the realm, as provider_state reads it
  priority,   \* that provider's priority
  fallback,   \* whether the realm holds a fallback-PS256 key
  files,      \* each key's files in the keys directory
  signed,     \* history: the keys that have signed a token
  pc,         \* where each operator's run is
  step,       \* the step it runs
  kid,        \* the key it runs it on
  state,      \* the registry's state of the key, as its run read it
  handle,     \* the providers its last read found, while they exist
  custody,    \* the keys whose certificates its command found
  raise,      \* the priority an activation will write, 0 for none
  others,     \* the active keys an activation has still to demote
  stale       \* their priorities, as the activation read them

realm   == <<provider, priority, fallback>>
memory  == <<handle, custody, raise, others, stale>>
vars    == <<registry, realm, files, signed, pc, step, kid, state, memory>>

-----------------------------------------------------------------------------

RegistryStates == {"none", "staged", "active", "retiring", "retired", "revoked"}
ProviderStates == {"absent", "passive", "active"}
KeyFiles       == {"p12", "password", "crt"}
Steps          == {"stage", "activate", "retire", "abandon", "revoke"}

PCs == {"idle", "register", "permit", "keystores", "lookup", "post", "staged",
        "agreeRegistry", "agreeProvider", "check",
        "snapshot", "raise", "demote", "activated",
        "find", "delete", "removed", "destroy", "record"}

TypeOK ==
  /\ registry \in [Key -> RegistryStates]
  /\ provider \in [Key -> ProviderStates]
  /\ priority \in [Key -> Nat]
  /\ fallback \in BOOLEAN
  /\ files    \in [Key -> SUBSET KeyFiles]
  /\ signed   \in SUBSET Key
  /\ pc       \in [Operator -> PCs]
  /\ step     \in [Operator -> Steps]
  /\ kid      \in [Operator -> Key]
  /\ state    \in [Operator -> RegistryStates]
  /\ handle   \in [Operator -> SUBSET Key]
  /\ custody  \in [Operator -> SUBSET Key]
  /\ raise    \in [Operator -> Nat]
  /\ others   \in [Operator -> SUBSET Key]
  /\ stale    \in [Operator -> [Key -> Nat]]

-----------------------------------------------------------------------------
(* The realm and the keys directory, as a command reads them. *)

Present == {k \in Key : provider[k] # "absent"}
Active  == {k \in Key : provider[k] = "active"}
Held    == {k \in Key : "crt" \in files[k]}

\* A provider reads its keystore, and its password, whenever a session uses it.
Loadable(k) == {"p12", "password"} \subseteq files[k]
Serving     == {k \in Active : Loadable(k)}

\* The serving keys of the highest priority, one of which signs.
Top == {k \in Serving : \A j \in Serving : priority[j] <= priority[k]}

\* The invariants each command verifies after it acts, and the key it returns.
\* Each comes from one read of the keys, which the providers read before it must
\* match, so a verification that succeeds describes the moment of that read.
SigningKeyVerified(held) ==
  /\ Present # {}
  /\ \A k \in Present : Loadable(k) /\ k \in held
  /\ ~fallback
  /\ \E k \in Key : Active = {k}

\* check_keystores: every keystore opens with its password, and there is one.
KeystoresOpen ==
  /\ \A k \in Key : "p12" \in files[k] => "password" \in files[k]
  /\ \E k \in Key : "p12" \in files[k]

\* Mutant: an activation that was interrupted does not agree.
AgreeAtRest(registered, found) ==
  <<registered, found>> \in
    {<<"staged", "passive">>, <<"active", "active">>, <<"retiring", "passive">>,
     <<"retired", "absent">>, <<"revoked", "absent">>}

\* The registry and realm states with which a step goes on.
Agree(registered, found) ==
  <<registered, found>> \in
    {<<"staged", "passive">>, <<"active", "active">>, <<"retiring", "passive">>,
     <<"retired", "absent">>, <<"revoked", "absent">>, <<"staged", "active">>}

\* The registry states from which a step's transition is approved and recorded.
From(s) == {r \in RegistryStates :
  <<s, r>> \in {<<"activate", "staged">>, <<"retire", "retiring">>, <<"abandon", "staged">>,
               <<"revoke", "staged">>, <<"revoke", "retiring">>}}

\* Mutant: an abandonment recorded under its own name, a state the registry has not.
ToUnknown(s) ==
  IF s = "activate" THEN "active" ELSE IF s = "revoke" THEN "revoked"
  ELSE IF s = "abandon" THEN "abandoned" ELSE "retired"

To(s) == IF s = "activate" THEN "active" ELSE IF s = "revoke" THEN "revoked" ELSE "retired"

-----------------------------------------------------------------------------
(* Control of an operator's run. *)

Goto(o, from, to) == pc[o] = from /\ pc' = [pc EXCEPT ![o] = to]

\* The run ends; what it and its commands held in memory goes with them.
End(o) ==
  /\ pc'      = [pc      EXCEPT ![o] = "idle"]
  /\ step'    = [step    EXCEPT ![o] = "stage"]
  /\ kid'     = [kid     EXCEPT ![o] = FirstKey]
  /\ state'   = [state   EXCEPT ![o] = "none"]
  /\ handle'  = [handle  EXCEPT ![o] = {}]
  /\ custody' = [custody EXCEPT ![o] = {}]
  /\ raise'   = [raise   EXCEPT ![o] = 0]
  /\ others'  = [others  EXCEPT ![o] = {}]
  /\ stale'   = [stale   EXCEPT ![o] = [k \in Key |-> 0]]

Begin(o, s, k) ==
  /\ \A p \in Operator : pc[p] # "idle" =>
       /\ ~(s \in TakeTurns /\ step[p] \in TakeTurns)
       /\ KeysTakeTurns => k # kid[p]
  /\ Goto(o, "idle", IF s = "stage" THEN "register" ELSE "agreeRegistry")
  /\ step' = [step EXCEPT ![o] = s]
  /\ kid'  = [kid  EXCEPT ![o] = k]
  /\ UNCHANGED <<registry, realm, files, signed, state, memory>>

\* The run stops: a refusal, a call that failed, a verification that failed
\* (recorded as failed, which changes no state), or the run's own crash.
Stop(o) ==
  /\ pc[o] # "idle"
  /\ End(o)
  /\ UNCHANGED <<registry, realm, files, signed>>

-----------------------------------------------------------------------------
(* stage: register the key, check the keystores, create its provider. *)

Register(o) ==
  /\ Goto(o, "register", "permit")
  /\ IF registry[kid[o]] = "none"
       THEN /\ kid[o] \in Held
            /\ registry' = [registry EXCEPT ![kid[o]] = "staged"]
       ELSE UNCHANGED registry
  /\ UNCHANGED <<realm, files, signed, step, kid, state, memory>>

\* Mutant: stage asks the two states to agree, like every other step.
PermitAgreed(o) ==
  /\ Agree(registry[kid[o]], provider[kid[o]])
  /\ registry[kid[o]] = "staged" \/ provider[kid[o]] = "active"
  /\ Goto(o, "permit", "keystores")
  /\ UNCHANGED <<registry, realm, files, signed, step, kid, state, memory>>

Permit(o) ==
  /\ registry[kid[o]] = "staged" \/ provider[kid[o]] = "active"
  /\ Goto(o, "permit", "keystores")
  /\ UNCHANGED <<registry, realm, files, signed, step, kid, state, memory>>

CheckKeystores(o) ==
  /\ KeystoresOpen
  /\ Goto(o, "keystores", "lookup")
  /\ UNCHANGED <<registry, realm, files, signed, step, kid, state, memory>>

\* Mutant: the realm verified before a provider is added to it.
StageLookupVerified(o) ==
  /\ kid[o] \in Held /\ SigningKeyVerified(Held)
  /\ custody' = [custody EXCEPT ![o] = Held]
  /\ Goto(o, "lookup", IF kid[o] \in Present THEN "staged" ELSE "post")
  /\ UNCHANGED <<registry, realm, files, signed, step, kid, state,
                 handle, raise, others, stale>>

\* A provider that exists is left alone.
StageLookup(o) ==
  /\ kid[o] \in Held
  /\ custody' = [custody EXCEPT ![o] = Held]
  /\ Goto(o, "lookup", IF kid[o] \in Present THEN "staged" ELSE "post")
  /\ UNCHANGED <<registry, realm, files, signed, step, kid, state,
                 handle, raise, others, stale>>

\* Keycloak refuses a keystore it cannot open.  Assumed of the operators, as nothing shows
\* what Keycloak does with a second provider of a name: two stagings of one key, of which
\* the later would post one, do not both get here.
StagePost(o) ==
  /\ kid[o] \notin Present /\ Loadable(kid[o])
  /\ provider' = [provider EXCEPT ![kid[o]] = "passive"]
  /\ priority' = [priority EXCEPT ![kid[o]] = 1]
  /\ Goto(o, "post", "staged")
  /\ UNCHANGED <<registry, fallback, files, signed, step, kid, state, memory>>

Staged(o) ==
  /\ pc[o] = "staged"
  /\ SigningKeyVerified(custody[o])
  /\ End(o)
  /\ UNCHANGED <<registry, realm, files, signed>>

-----------------------------------------------------------------------------
(* What every other step does first: agree, then the registry's check. *)

AgreeRegistry(o) ==
  /\ Goto(o, "agreeRegistry", "agreeProvider")
  /\ state' = [state EXCEPT ![o] = registry[kid[o]]]
  /\ UNCHANGED <<registry, realm, files, signed, step, kid, memory>>

\* retire, abandon and revoke also apply to the state just read alone.
AgreeProvider(o) ==
  /\ Agree(state[o], provider[kid[o]])
  /\ step[o] # "activate" => state[o] \in From(step[o])
  /\ Goto(o, "agreeProvider", "check")
  /\ UNCHANGED <<registry, realm, files, signed, step, kid, state, memory>>

\* Mutant: the check's refusal does not stop the step.
CheckUnheeded(o) ==
  /\ Goto(o, "check", IF step[o] = "activate" THEN "snapshot" ELSE "find")
  /\ UNCHANGED <<registry, realm, files, signed, step, kid, state, memory>>

\* Mutant: the files destroyed first, the provider left to be removed.
CheckThenDestroy(o) ==
  /\ registry[kid[o]] \in From(step[o])
  /\ Goto(o, "check", IF step[o] = "activate" THEN "snapshot" ELSE "destroy")
  /\ UNCHANGED <<registry, realm, files, signed, step, kid, state, memory>>

Check(o) ==
  /\ registry[kid[o]] \in From(step[o])
  /\ Goto(o, "check", IF step[o] = "activate" THEN "snapshot" ELSE "find")
  /\ UNCHANGED <<registry, realm, files, signed, step, kid, state, memory>>

-----------------------------------------------------------------------------
(* activate: one read, the new key raised above every other, the others demoted. *)

Highest == CHOOSE n \in {priority[k] : k \in Present} :
             \A k \in Present : priority[k] <= n

\* Mutant: a key that is active already is left alone, other active keys or not.
SnapshotActiveAlone(o) ==
  LET k   == kid[o]
      put == k \notin Active
  IN /\ k \in Present
     /\ put => Highest < MaxPriority
     /\ handle'  = [handle  EXCEPT ![o] = Present]
     /\ custody' = [custody EXCEPT ![o] = Held]
     /\ others'  = [others  EXCEPT ![o] = IF put THEN Active \ {k} ELSE {}]
     /\ stale'   = [stale   EXCEPT ![o] = priority]
     /\ raise'   = [raise   EXCEPT ![o] = IF put THEN Highest + 1 ELSE 0]
     /\ Goto(o, "snapshot", IF put THEN "raise" ELSE "demote")
     /\ UNCHANGED <<registry, realm, files, signed, step, kid, state>>

Snapshot(o) ==
  LET k      == kid[o]
      rivals == Active \ {k}
      alone  == k \in Active /\ rivals = {}
      put    == ~alone /\ (k \notin Active \/ priority[k] < Highest)
  IN /\ k \in Present
     /\ put => Highest < MaxPriority
     /\ handle'  = [handle  EXCEPT ![o] = Present]
     /\ custody' = [custody EXCEPT ![o] = Held]
     /\ others'  = [others  EXCEPT ![o] = rivals]
     /\ stale'   = [stale   EXCEPT ![o] = priority]
     /\ raise'   = [raise   EXCEPT ![o] = IF put THEN Highest + 1 ELSE 0]
     /\ Goto(o, "snapshot", IF put THEN "raise" ELSE "demote")
     /\ UNCHANGED <<registry, realm, files, signed, step, kid, state>>

\* A write is a full representation: what was read, laid under what changes.  The
\* kernel refuses one to a provider that is gone or whose keystore it cannot open.
WriteProvider(o, k, as, at) ==
  /\ k \in handle[o] /\ Loadable(k)
  /\ provider' = [provider EXCEPT ![k] = as]
  /\ priority' = [priority EXCEPT ![k] = at]
  /\ UNCHANGED fallback

\* Mutant: the new key made active with the priority it was staged with.
RaiseStagedPriority(o) ==
  /\ Goto(o, "raise", "demote")
  /\ WriteProvider(o, kid[o], "active", stale[o][kid[o]])
  /\ UNCHANGED <<registry, files, signed, step, kid, state, memory>>

Raise(o) ==
  /\ Goto(o, "raise", "demote")
  /\ WriteProvider(o, kid[o], "active", raise[o])
  /\ UNCHANGED <<registry, files, signed, step, kid, state, memory>>

Demote(o, k) ==
  /\ k \in others[o]
  /\ Goto(o, "demote", "demote")
  /\ WriteProvider(o, k, "passive", stale[o][k])
  /\ others' = [others EXCEPT ![o] = @ \ {k}]
  /\ UNCHANGED <<registry, files, signed, step, kid, state, handle, custody, raise, stale>>

Demoted(o) ==
  /\ others[o] = {}
  /\ Goto(o, "demote", "activated")
  /\ UNCHANGED <<registry, realm, files, signed, step, kid, state, memory>>

Activated(o) ==
  /\ SigningKeyVerified(custody[o]) /\ Active = {kid[o]}
  /\ Goto(o, "activated", "record")
  /\ UNCHANGED <<registry, realm, files, signed, step, kid, state, memory>>

-----------------------------------------------------------------------------
(* retire, abandon, revoke: the provider removed, then the files destroyed. *)

\* Mutant: a removal does not look whether the key is active.
FindActiveToo(o) ==
  /\ handle'  = [handle  EXCEPT ![o] = Present]
  /\ custody' = [custody EXCEPT ![o] = Held]
  /\ Goto(o, "find", IF kid[o] \in Present THEN "delete" ELSE "removed")
  /\ UNCHANGED <<registry, realm, files, signed, step, kid, state, raise, others, stale>>

\* A provider already removed is passed over.
Find(o) ==
  /\ kid[o] \notin Active
  /\ handle'  = [handle  EXCEPT ![o] = Present]
  /\ custody' = [custody EXCEPT ![o] = Held]
  /\ Goto(o, "find", IF kid[o] \in Present THEN "delete" ELSE "removed")
  /\ UNCHANGED <<registry, realm, files, signed, step, kid, state, raise, others, stale>>

Delete(o) ==
  /\ kid[o] \in handle[o]
  /\ Goto(o, "delete", "removed")
  /\ provider' = [provider EXCEPT ![kid[o]] = "absent"]
  /\ priority' = [priority EXCEPT ![kid[o]] = 0]
  /\ handle'   = [p \in Operator |-> handle[p] \ {kid[o]}]
  /\ UNCHANGED <<registry, fallback, files, signed, step, kid, state,
                 custody, raise, others, stale>>

Removed(o) ==
  /\ kid[o] \notin Present /\ SigningKeyVerified(custody[o] \ {kid[o]})
  /\ Goto(o, "removed", "destroy")
  /\ UNCHANGED <<registry, realm, files, signed, step, kid, state, memory>>

\* Mutant: destroy begins with the password.
NextFilePasswordFirst(k) ==
  IF "password" \in files[k] THEN "password" ELSE IF "p12" \in files[k] THEN "p12" ELSE "crt"

\* The order in which destroy removes a key's files, one that is gone passed over.
NextFile(k) ==
  IF "p12" \in files[k] THEN "p12" ELSE IF "password" \in files[k] THEN "password" ELSE "crt"

Destroy(o) ==
  /\ files[kid[o]] # {}
  /\ Goto(o, "destroy", "destroy")
  /\ files' = [files EXCEPT ![kid[o]] = @ \ {NextFile(kid[o])}]
  /\ UNCHANGED <<registry, realm, signed, step, kid, state, memory>>

\* Mutant: recorded without reading the files back absent.
RecordUnread(o) ==
  /\ Goto(o, "destroy", "record")
  /\ UNCHANGED <<registry, realm, files, signed, step, kid, state, memory>>

ReadBackAbsent(o) ==
  /\ files[kid[o]] = {}
  /\ Goto(o, "destroy", "record")
  /\ UNCHANGED <<registry, realm, files, signed, step, kid, state, memory>>

-----------------------------------------------------------------------------
(* record: the registry's transition, with the previous active key's demotion. *)

Record(o) ==
  /\ pc[o] = "record"
  /\ registry[kid[o]] \in From(step[o])
  /\ registry' = [k \in Key |->
       IF k = kid[o] THEN To(step[o])
       ELSE IF step[o] = "activate" /\ registry[k] = "active" THEN "retiring"
       ELSE registry[k]]
  /\ End(o)
  /\ UNCHANGED <<realm, files, signed>>

-----------------------------------------------------------------------------
(* The environment: the ceremony, and Keycloak issuing a token. *)

Ceremony(k) ==
  /\ registry[k] = "none" /\ files[k] = {}
  /\ files' = [files EXCEPT ![k] = KeyFiles]
  /\ UNCHANGED <<registry, realm, signed, pc, step, kid, state, memory>>

\* With no serving key Keycloak generates fallback-PS256 and signs with that.
IssueToken ==
  /\ \/ \E k \in Top : signed' = signed \cup {k} /\ UNCHANGED fallback
     \/ Serving = {} /\ fallback' = TRUE /\ UNCHANGED signed
  /\ UNCHANGED <<registry, provider, priority, files, pc, step, kid, state, memory>>

-----------------------------------------------------------------------------

Init ==
  /\ registry = [k \in Key |-> IF k = FirstKey THEN FirstKeyState ELSE "none"]
  /\ provider = [k \in Key |-> IF k = FirstKey THEN "active" ELSE "absent"]
  /\ priority = [k \in Key |-> IF k = FirstKey THEN 1 ELSE 0]
  /\ fallback = FALSE
  /\ files    = [k \in Key |-> IF k = FirstKey THEN KeyFiles ELSE {}]
  /\ signed   = {}
  /\ pc       = [o \in Operator |-> "idle"]
  /\ step     = [o \in Operator |-> "stage"]
  /\ kid      = [o \in Operator |-> FirstKey]
  /\ state    = [o \in Operator |-> "none"]
  /\ handle   = [o \in Operator |-> {}]
  /\ custody  = [o \in Operator |-> {}]
  /\ raise    = [o \in Operator |-> 0]
  /\ others   = [o \in Operator |-> {}]
  /\ stale    = [o \in Operator |-> [k \in Key |-> 0]]

StageStep(o) ==
  Register(o) \/ Permit(o) \/ CheckKeystores(o) \/ StageLookup(o) \/ StagePost(o) \/ Staged(o)

ActivateStep(o) ==
  \/ Snapshot(o) \/ Raise(o) \/ Demoted(o) \/ Activated(o)
  \/ \E k \in Key : Demote(o, k)

RemoveStep(o) ==
  Find(o) \/ Delete(o) \/ Removed(o) \/ Destroy(o) \/ ReadBackAbsent(o)

\* A run going on, as against stopping.
Proceed(o) ==
  \/ StageStep(o) \/ ActivateStep(o) \/ RemoveStep(o)
  \/ AgreeRegistry(o) \/ AgreeProvider(o) \/ Check(o) \/ Record(o)

Next ==
  \/ \E o \in Operator, s \in Steps, k \in Key : Begin(o, s, k)
  \/ \E o \in Operator : Proceed(o) \/ Stop(o)
  \/ \E k \in Key : Ceremony(k)
  \/ IssueToken

Spec == Init /\ [][Next]_vars

-----------------------------------------------------------------------------
(* What operators who take turns can rely on, whatever step fails or stops. *)

\* No moment has no active key: there is always a key that signs, so Keycloak never
\* generates fallback-PS256.  An activation raises the new key before it demotes the
\* old one, and a removal refuses the active key (ActivateSigningKey, RemoveSigningKey).
NoMomentWithoutActiveKey == Serving # {}

\* While an activation has left two keys active, or was interrupted there, which of
\* them signs is never in doubt (ActivateSigningKey writes highest+100).
OneKeySigns == \A j, k \in Active : priority[j] = priority[k] => j = k

\* A key starts signing only while the registry has it staged and the realm already
\* publishes it (agree and check before ActivateSigningKey).
OnlyStagedKeysStartSigning ==
  [][\A k \in Top' \ Top : registry[k] = "staged" /\ k \in Present]_vars

\* A key the registry has demoted is never active in the realm again, although the
\* demotion and its record are steps of two systems (ADR-IAM-002 5.5 Q6).
DemotedKeysStayPassive ==
  \A k \in Active : registry[k] \notin {"retiring", "retired", "revoked"}

\* Every provider can load its key: no step destroys, or leaves half destroyed, the
\* files of a key the realm publishes (the provider goes before the files).
ProvidersAreBacked == \A k \in Present : files[k] = KeyFiles

\* The registry says retired or revoked only of a key that is out of the key set and
\* whose files are gone, and it stays so (the record comes last, on evidence).
RecordedKeysAreGone ==
  \A k \in Key : registry[k] \in {"retired", "revoked"} =>
    k \notin Present /\ files[k] = {}

\* The steps implement what the key set's consumers are promised (PublishedKeySet).
KeySet == INSTANCE PublishedKeySet WITH
  published <- Present,
  signer    <- CHOOSE k \in Top : TRUE,
  past      <- {k \in Key : registry[k] \in {"retiring", "retired", "revoked"}},
  gone      <- {k \in Key : registry[k] \in {"retired", "revoked"}}

ImplementsKeySet == KeySet!Spec

\* The kernel can restart at any moment: its start check finds every keystore with its
\* password, also between the removals of destroy (check_keystores in start.sh).
KernelCanRestart == KeystoresOpen

(* What holds however operators' runs interleave. *)

\* A kernel that restarts never finds a keystore it cannot open, also between the
\* removals of two runs that destroy the same key (destroy removes the keystore first).
KeystoresHavePasswords == \A k \in Key : "p12" \in files[k] => "password" \in files[k]

\* The evidence the registry holds of a retired or revoked key is true, and stays so:
\* nothing is left of its files (destroy reads them back absent before the record).
RecordedFilesAreGone ==
  \A k \in Key : registry[k] \in {"retired", "revoked"} => files[k] = {}

(* What the code or its documents say, and the steps do not ensure. *)

\* "abandon: a staged key that never signed" (signing-key-rotation.sh, usage).
AbandonedKeysNeverSigned ==
  [][\A k \in Key : registry[k] = "staged" /\ registry'[k] = "retired" => k \notin signed]_vars

=============================================================================
