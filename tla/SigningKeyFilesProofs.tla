----------------------- MODULE SigningKeyFilesProofs ------------------------
(***************************************************************************)
(* Proofs about the keys directory and what the registry records of it.    *)
(* What keeps a kernel's restart and the registry's evidence safe holds    *)
(* however the operators' runs interleave, wherever they stop, and through *)
(* restores of the realm (SigningKeyRestores); that no provider loses its  *)
(* files needs the turns FilesApart says.                                  *)
(***************************************************************************)
EXTENDS SigningKeyRotationProofs, SigningKeyRestores

\* No stage of a key overlaps a removal of it, nor one removal another.
FilesApart == KeysTakeTurns \/ Removals \cup {"stage"} \subseteq TakeTurns

-----------------------------------------------------------------------------
(* However the runs interleave. *)

\* A removal past its check.
Leaving(o) == pc[o] = "find" \/ Removing(o)

\* The key of a removal past its check is one the registry knows, so no ceremony makes
\* its files anew.
LeavingKnown == \A o \in Operator : Leaving(o) => registry[kid[o]] # "none"

\* A removal that will be recorded has read its key's files back absent.
ReadBack ==
  \A o \in Operator : pc[o] = "record" /\ step[o] # "activate" => files[kid[o]] = {}

RecordsInv == LeavingKnown /\ ReadBack /\ KeystoresHavePasswords /\ RecordedFilesAreGone

\* How a run comes to be past the check of a removal.
LEMMA LeavingMoves ==
  ASSUME LocalOK, StepsMatch, [Next]_vars, NEW o \in Operator, Leaving(o)'
  PROVE  \/ SameRun(o) /\ Leaving(o)
         \/ Check(o) /\ step[o] # "activate"
         \/ (Find(o) \/ Delete(o) \/ Removed(o) \/ Destroy(o) \/ ReadBackAbsent(o)) /\ Leaving(o)
<1>1. ASSUME NEW s \in Steps, NEW k \in Key
      PROVE  ~Begin(o, s, k)
  BY DEF Begin, Goto, LocalOK, Leaving, Removing
<1>2. ~(Stop(o) \/ Staged(o) \/ Record(o))
  BY DEF Stop, Staged, Record, End, LocalOK, Leaving, Removing
<1>3. ~(StageStep(o) /\ ~Staged(o))
  BY DEF StageStep, Register, Permit, CheckKeystores, StageLookup, StagePost, Goto, LocalOK,
         Leaving, Removing
<1>4. ~ActivateStep(o)
  BY DEF ActivateStep, Snapshot, Raise, Demote, Demoted, Activated, Goto, LocalOK,
         Leaving, Removing, StepsMatch, Activating
<1>5. ~(AgreeRegistry(o) \/ AgreeProvider(o))
  BY DEF AgreeRegistry, AgreeProvider, Goto, LocalOK, Leaving, Removing
<1>6. CASE SameRun(o)
  BY <1>6 DEF SameRun, Leaving, Removing
<1>7. CASE Check(o)
  BY <1>7 DEF Check, Goto, LocalOK, Leaving, Removing
<1>8. CASE RemoveStep(o)
  BY <1>8 DEF RemoveStep, Find, Delete, Removed, Destroy, ReadBackAbsent, Goto, LocalOK,
              Leaving, Removing
<1> QED
  BY <1>1, <1>2, <1>3, <1>4, <1>5, <1>6, <1>7, <1>8, RunMoves DEF Proceed

\* The registry forgets no key.
LEMMA NoKeyForgotten ==
  ASSUME TypeOK, [Next]_vars, NEW k \in Key, registry[k] # "none"
  PROVE  registry'[k] # "none"
<1>1. ASSUME NEW o \in Operator, Register(o)
      PROVE  registry'[k] # "none"
  BY <1>1 DEF Register, TypeOK
<1>2. ASSUME NEW o \in Operator, Record(o)
      PROVE  registry'[k] # "none"
  <2>1. \A s : To(s) # "none"
    BY DEF To
  <2> QED BY <1>2, <2>1 DEF Record, TypeOK
<1> QED BY <1>1, <1>2, RegistryWrites

LEMMA LeavingKnownStep ==
  ASSUME TypeOK, StepsMatch, LeavingKnown, [Next]_vars
  PROVE  LeavingKnown'
<1>0. LocalOK
  BY TypeParts
<1> SUFFICES ASSUME NEW o \in Operator, Leaving(o)'
             PROVE  registry'[kid'[o]] # "none"
  BY DEF LeavingKnown
<1>1. kid'[o] = kid[o] /\ kid[o] \in Key
  BY <1>0, LeavingMoves DEF LocalOK, SameRun, Check, Find, Delete, Removed, Destroy, ReadBackAbsent
<1>2. registry[kid[o]] # "none"
  <2>1. CASE Check(o)
    BY <2>1 DEF Check, From
  <2>2. CASE Leaving(o)
    BY <2>2 DEF LeavingKnown
  <2> QED BY <1>0, <2>1, <2>2, LeavingMoves
<1> QED BY <1>1, <1>2, NoKeyForgotten

\* Files of a key the registry knows are only ever removed.
LEMMA KnownFilesShrink ==
  ASSUME TypeOK, [Next]_vars, NEW k \in Key, registry[k] # "none"
  PROVE  files'[k] \subseteq files[k]
<1>1. ASSUME NEW o \in Operator, Destroy(o)
      PROVE  files'[k] \subseteq files[k]
  BY <1>1 DEF Destroy, TypeOK
<1>2. ASSUME NEW j \in Key, Ceremony(j)
      PROVE  files'[k] \subseteq files[k]
  BY <1>2 DEF Ceremony, TypeOK
<1> QED BY <1>1, <1>2, FilesWrites

LEMMA ReadBackStep ==
  ASSUME TypeOK, StepsMatch, LeavingKnown, ReadBack, [Next]_vars
  PROVE  ReadBack'
<1>0. LocalOK
  BY TypeParts
<1> SUFFICES ASSUME NEW o \in Operator, pc'[o] = "record", step'[o] # "activate"
             PROVE  files'[kid'[o]] = {}
  BY DEF ReadBack
<1>1. Leaving(o)'
  BY DEF Leaving, Removing
<1>2. /\ SameRun(o) \/ ReadBackAbsent(o)
      /\ Leaving(o)
  BY <1>0, <1>1, LeavingMoves
     DEF Check, Find, Delete, Removed, Destroy, Goto, LocalOK
<1>3. kid'[o] = kid[o] /\ kid[o] \in Key
  BY <1>0, <1>2 DEF SameRun, ReadBackAbsent, LocalOK
<1>4. files[kid[o]] = {}
  BY <1>2 DEF SameRun, ReadBackAbsent, ReadBack
<1>5. registry[kid[o]] # "none"
  BY <1>2 DEF LeavingKnown
<1> QED BY <1>3, <1>4, <1>5, KnownFilesShrink

LEMMA KeystoresStep ==
  ASSUME TypeOK, KeystoresHavePasswords, [Next]_vars
  PROVE  KeystoresHavePasswords'
<1>1. ASSUME NEW o \in Operator, Destroy(o)
      PROVE  KeystoresHavePasswords'
  <2>1. files' = [files EXCEPT ![kid[o]] = @ \ {NextFile(kid[o])}] /\ kid[o] \in Key
    BY <1>1 DEF Destroy, TypeOK
  <2>2. "p12" \in files'[kid[o]] => "password" \in files'[kid[o]]
    BY <2>1 DEF NextFile, TypeOK
  <2> QED BY <2>1, <2>2 DEF KeystoresHavePasswords, TypeOK
<1>2. ASSUME NEW k \in Key, Ceremony(k)
      PROVE  KeystoresHavePasswords'
  BY <1>2 DEF Ceremony, KeystoresHavePasswords, TypeOK, KeyFiles
<1> QED BY <1>1, <1>2, FilesWrites DEF KeystoresHavePasswords

LEMMA RecordedStep ==
  ASSUME TypeOK, ReadBack, RecordedFilesAreGone, [Next]_vars
  PROVE  RecordedFilesAreGone'
<1> SUFFICES ASSUME NEW k \in Key, registry'[k] \in {"retired", "revoked"}
             PROVE  files'[k] = {}
  BY DEF RecordedFilesAreGone
<1>1. CASE registry[k] \in {"retired", "revoked"}
  BY <1>1, KnownFilesShrink DEF RecordedFilesAreGone
<1>2. CASE registry[k] \notin {"retired", "revoked"}
  <2>1. PICK o \in Operator : Record(o)
    <3>1. ASSUME NEW o \in Operator, Register(o)
          PROVE  FALSE
      BY <1>2, <3>1 DEF Register, TypeOK
    <3> QED BY <1>2, <3>1, RegistryWrites
  <2>2. k = kid[o] /\ step[o] # "activate"
    BY <1>2, <2>1 DEF Record, To, TypeOK
  <2>3. files[k] = {}
    BY <2>1, <2>2 DEF Record, ReadBack
  <2>4. registry[k] # "none"
    BY <2>1, <2>2 DEF Record, From
  <2> QED BY <2>3, <2>4, KnownFilesShrink
<1> QED BY <1>1, <1>2

LEMMA RecordsInvInit == Init => RecordsInv
<1> SUFFICES ASSUME Init
             PROVE  RecordsInv
  OBVIOUS
<1>1. \A o \in Operator : pc[o] = "idle"
  BY DEF Init
<1>2. LeavingKnown /\ ReadBack
  BY <1>1 DEF LeavingKnown, ReadBack, Leaving, Removing
<1>3. KeystoresHavePasswords /\ RecordedFilesAreGone
  BY RotationAssumption DEF Init, KeystoresHavePasswords, RecordedFilesAreGone, KeyFiles
<1> QED BY <1>2, <1>3 DEF RecordsInv

\* What a removal past its check knows, and what follows for the directory and the
\* registry, of any operators (destroy in cmd/signing-key/main.go, the record in
\* scripts/signing-key-rotation.sh).
THEOREM RecordsInvHolds == Spec => []RecordsInv
<1>1. /\ RecordsInv /\ TypeOK /\ Capped /\ StepsMatch /\ [Next]_vars
      => RecordsInv'
  BY LeavingKnownStep, ReadBackStep, KeystoresStep, RecordedStep DEF RecordsInv
<1> QED BY <1>1, RecordsInvInit, TypesHold, PTL DEF Spec

\* A kernel that restarts never finds a keystore without its password, whichever runs
\* destroy keys at the same time and wherever they stop (destroy removes the keystore
\* first).
THEOREM RestartsFindPasswords == Spec => []KeystoresHavePasswords
<1>1. RecordsInv => KeystoresHavePasswords
  BY DEF RecordsInv
<1> QED BY <1>1, RecordsInvHolds, PTL

\* Of a key the registry has retired or revoked no file is left, of any operators'
\* runs (destroy reads the files back absent before the record).
THEOREM RecordsAreTrue == Spec => []RecordedFilesAreGone
<1>1. RecordsInv => RecordedFilesAreGone
  BY DEF RecordsInv
<1> QED BY <1>1, RecordsInvHolds, PTL

-----------------------------------------------------------------------------
(* And whatever restores do to the realm under the directory and the registry. *)

\* A set holds a realm that was.
BackupTyped ==
  /\ backup.provider \in [Key -> ProviderStates]
  /\ backup.priority \in [Key -> 0..MaxPriority]
  /\ backup.fallback \in BOOLEAN

RestoresInv == TypeOK /\ Capped /\ StepsMatch /\ RecordsInv /\ BackupTyped

\* A retry and a run by hand are steps of the rotation, but for where the latter begins.
LEMMA RestoresMoves ==
  ASSUME [RestoresNext]_restoreVars
  PROVE  \/ [Next]_vars /\ (backup' = backup \/ backup' = Realm)
         \/ RestoreRealm
         \/ \E o \in Operator, k \in Key, s \in {"stage", "activate"} : ByHand(o, k, s)
<1>1. RetryNext => Next
  BY DEF RetryNext, Next, Try, Go, Crash, Refuse
<1>2. TakeBackup => UNCHANGED vars /\ backup' = Realm
  BY DEF TakeBackup, retryVars
<1>3. UNCHANGED restoreVars => UNCHANGED <<vars, backup>>
  BY DEF restoreVars, retryVars
<1> QED BY <1>1, <1>2, <1>3 DEF RestoresNext, Next

\* A dump of the realm of the moment is of the right type.
LEMMA RealmIsTyped == ASSUME TypeOK, Capped PROVE
  /\ Realm.provider \in [Key -> ProviderStates]
  /\ Realm.priority \in [Key -> 0..MaxPriority]
  /\ Realm.fallback \in BOOLEAN
  BY RotationAssumption DEF Realm, TypeOK, Capped

\* A restore writes the realm alone, and a run by hand begins past the check of no removal.
LEMMA RestoresInvStep == ASSUME RestoresInv, [RestoresNext]_restoreVars PROVE RestoresInv'
<1> USE DEF RestoresInv
<1>1. CASE [Next]_vars /\ (backup' = backup \/ backup' = Realm)
  <2>1. TypeOK'
    BY <1>1, LocalStep, SharedStep DEF TypeOK, LocalOK, SharedOK
  <2>2. Capped' /\ StepsMatch' /\ RecordsInv'
    BY <1>1, CappedStep, StepsMatchStep, LeavingKnownStep, ReadBackStep, KeystoresStep, RecordedStep
       DEF RecordsInv
  <2>3. BackupTyped'
    BY <1>1, RealmIsTyped DEF BackupTyped
  <2> QED BY <2>1, <2>2, <2>3
<1>2. CASE RestoreRealm
  <2>1. /\ provider' \in [Key -> ProviderStates] /\ priority' \in [Key -> 0..MaxPriority]
        /\ fallback' \in BOOLEAN
    BY <1>2 DEF RestoreRealm, BackupTyped
  <2>2. UNCHANGED <<registry, files, signed, pc, step, kid, state, handle, custody, raise, others, stale, backup>>
    BY <1>2 DEF RestoreRealm, memory
  <2>3. TypeOK'
    BY <2>1, <2>2 DEF TypeOK
  <2>4. Capped'
    BY <2>1, <2>2, RotationAssumption DEF Capped
  <2>5. StepsMatch' /\ RecordsInv' /\ BackupTyped'
    BY <2>2 DEF StepsMatch, Activating, Removing, RecordsInv, LeavingKnown, Leaving, ReadBack,
       KeystoresHavePasswords, RecordedFilesAreGone, BackupTyped
  <2> QED BY <2>3, <2>4, <2>5
<1>3. ASSUME NEW o \in Operator, NEW k \in Key, NEW s \in {"stage", "activate"}, ByHand(o, k, s)
      PROVE  RestoresInv'
  <2>1. /\ UNCHANGED <<registry, provider, priority, fallback, files, signed, state, handle, custody, raise,
                       others, stale, backup>>
        /\ pc' = [pc EXCEPT ![o] = IF s = "stage" THEN "lookup" ELSE "snapshot"]
        /\ step' = [step EXCEPT ![o] = s] /\ kid' = [kid EXCEPT ![o] = k]
    BY <1>3 DEF ByHand, Goto, realm, memory
  <2>2. TypeOK'
    BY <2>1 DEF TypeOK, PCs, Steps
  <2>3. Capped' /\ BackupTyped'
    BY <2>1 DEF Capped, BackupTyped
  <2>4. \A p \in Operator :
          \/ p = o /\ step'[p] = s /\ pc'[p] = IF s = "stage" THEN "lookup" ELSE "snapshot"
          \/ pc'[p] = pc[p] /\ step'[p] = step[p] /\ kid'[p] = kid[p]
    BY <2>1 DEF TypeOK
  <2>5. StepsMatch'
    BY <2>4 DEF StepsMatch, Activating, Removing
  <2>6. \A p \in Operator : Leaving(p)' => Leaving(p) /\ kid'[p] = kid[p] /\ pc'[p] = pc[p] /\ step'[p] = step[p]
    BY <2>4 DEF Leaving, Removing
  <2>7. RecordsInv'
    BY <2>1, <2>6 DEF RecordsInv, LeavingKnown, Leaving, Removing, ReadBack, KeystoresHavePasswords,
       RecordedFilesAreGone
  <2> QED BY <2>2, <2>3, <2>5, <2>7
<1> QED BY <1>1, <1>2, <1>3, RestoresMoves

\* The same two promises through any number of restores, to any point, and the repairs by
\* hand that follow (docs/runbooks/unknown-kid.md): the directory and the registry are
\* outside the set, and the order of a removal's calls does not rest on the realm.
THEOREM RestoresKeepFilesAndRecords == RestoresSpec => [](KeystoresHavePasswords /\ RecordedFilesAreGone)
<1>1. RestoresInit => RestoresInv
  BY TypesInit, RecordsInvInit, RealmIsTyped DEF RestoresInit, RetryInit, RestoresInv, BackupTyped
<1>2. RestoresInv /\ [RestoresNext]_restoreVars => RestoresInv'
  BY RestoresInvStep
<1>3. RestoresInv => KeystoresHavePasswords /\ RecordedFilesAreGone
  BY DEF RestoresInv, RecordsInv
<1> QED BY <1>1, <1>2, <1>3, PTL DEF RestoresSpec

-----------------------------------------------------------------------------
(* While the stages and removals of a key take turns. *)

StagePCs == {"register", "permit", "keystores", "lookup", "post", "staged"}

\* A run where only a stage goes is a stage.
StagesMatch == \A o \in Operator : pc[o] \in StagePCs => step[o] = "stage"

\* What Begin keeps apart stays apart.
FilesTurns ==
  \A o, p \in Operator :
    /\ o # p /\ pc[o] # "idle" /\ pc[p] # "idle"
    /\ step[o] \in Removals /\ step[p] \in Removals \cup {"stage"}
    => kid[p] # kid[o]

\* What is destroyed is out of the key set.
OutOfKeySet ==
  \A o \in Operator :
    pc[o] = "destroy" \/ (pc[o] = "record" /\ step[o] # "activate") => kid[o] \notin Present

\* A stage about to post its provider still has the certificate it found.
PostsHeld == \A o \in Operator : pc[o] = "post" => "crt" \in files[kid[o]]

FilesInv ==
  /\ StagesMatch /\ FilesTurns /\ HandlesExist
  /\ OutOfKeySet /\ PostsHeld /\ ProvidersAreBacked

LEMMA StagesMatchStep ==
  ASSUME TypeOK, StagesMatch, [Next]_vars
  PROVE  StagesMatch'
<1>0. LocalOK
  BY TypeParts
<1> SUFFICES ASSUME NEW o \in Operator, pc'[o] \in StagePCs
             PROVE  step'[o] = "stage"
  BY DEF StagesMatch
<1> USE <1>0 DEF StagePCs
<1>1. CASE SameRun(o)
  BY <1>1 DEF SameRun, StagesMatch
<1>2. ASSUME NEW s \in Steps, NEW k \in Key, Begin(o, s, k)
      PROVE  step'[o] = "stage"
  BY <1>2 DEF Begin, Goto, LocalOK
<1>3. CASE Stop(o) \/ Staged(o) \/ Record(o)
  BY <1>3 DEF Stop, Staged, Record, End, LocalOK
<1>4. CASE StageStep(o) /\ ~Staged(o)
  BY <1>4 DEF StageStep, Register, Permit, CheckKeystores, StageLookup, StagePost,
              Goto, LocalOK, StagesMatch
<1>5. ~ActivateStep(o)
  BY DEF ActivateStep, Snapshot, Raise, Demote, Demoted, Activated, Goto, LocalOK
<1>6. ~RemoveStep(o)
  BY DEF RemoveStep, Find, Delete, Removed, Destroy, ReadBackAbsent, Goto, LocalOK
<1>7. ~(AgreeRegistry(o) \/ AgreeProvider(o) \/ Check(o))
  BY DEF AgreeRegistry, AgreeProvider, Check, Goto, LocalOK
<1> QED
  BY <1>1, <1>2, <1>3, <1>4, <1>5, <1>6, <1>7, RunMoves DEF Proceed

LEMMA FilesTurnsStep ==
  ASSUME FilesApart, TypeOK, FilesTurns, [Next]_vars
  PROVE  FilesTurns'
<1>0. LocalOK
  BY TypeParts
<1> SUFFICES ASSUME NEW o \in Operator, NEW p \in Operator,
                    o # p, pc'[o] # "idle", pc'[p] # "idle",
                    step'[o] \in Removals, step'[p] \in Removals \cup {"stage"}
             PROVE  kid'[p] # kid'[o]
  BY DEF FilesTurns
<1>1. ASSUME NEW q \in Operator, NEW s \in Steps, NEW k \in Key, Begin(q, s, k)
      PROVE  kid'[p] # kid'[o]
  <2>1. /\ step'[q] = s /\ kid'[q] = k
        /\ \A r \in Operator : r # q =>
             pc'[r] = pc[r] /\ step'[r] = step[r] /\ kid'[r] = kid[r]
    BY <1>0, <1>1 DEF Begin, Goto, LocalOK
  <2>2. \A r \in Operator : pc[r] # "idle" =>
          ~(s \in TakeTurns /\ step[r] \in TakeTurns) /\ (KeysTakeTurns => k # kid[r])
    BY <1>1 DEF Begin
  <2>3. CASE q = o
    BY <2>1, <2>2, <2>3 DEF FilesApart, Removals
  <2>4. CASE q = p
    BY <2>1, <2>2, <2>4 DEF FilesApart, Removals
  <2>5. CASE q # o /\ q # p
    BY <2>1, <2>5 DEF FilesTurns
  <2> QED BY <2>3, <2>4, <2>5
<1> QED
  BY <1>0, <1>1, RunsKeepTheirKeys DEF FilesTurns

LEMMA OutOfKeySetStep ==
  ASSUME TypeOK, StepsMatch, FilesInv, [Next]_vars
  PROVE  OutOfKeySet'
<1>0. LocalOK /\ StagesMatch /\ FilesTurns /\ HandlesExist /\ OutOfKeySet
  BY TypeParts DEF FilesInv
<1> SUFFICES ASSUME NEW o \in Operator,
                    pc'[o] = "destroy" \/ (pc'[o] = "record" /\ step'[o] # "activate")
             PROVE  kid'[o] \notin Present'
  BY DEF OutOfKeySet
<1>1. Leaving(o)'
  BY DEF Leaving, Removing
<1>2. \/ SameRun(o) \/ Removed(o) \/ Destroy(o) \/ ReadBackAbsent(o)
  BY <1>0, <1>1, LeavingMoves DEF Check, Find, Delete, Goto, LocalOK
<1>3. CASE Removed(o) \/ Destroy(o) \/ ReadBackAbsent(o)
  <2>1. UNCHANGED provider /\ kid'[o] = kid[o] /\ kid[o] \notin Present
    BY <1>0, <1>3 DEF Removed, Destroy, ReadBackAbsent, Goto, realm, OutOfKeySet
  <2> QED BY <2>1, SameRealm
<1>4. CASE SameRun(o)
  <2>1. kid'[o] = kid[o] /\ kid[o] \notin Present /\ pc[o] # "idle" /\ pc[o] # "post"
    BY <1>0, <1>4 DEF SameRun, OutOfKeySet
  <2>2. step[o] \in Removals
    BY <1>4 DEF SameRun, StepsMatch, Removing
  <2>3. ASSUME NEW p \in Operator, StagePost(p)
        PROVE  kid[o] \notin Present'
    <3>1. pc[p] = "post" /\ p # o
      BY <2>1, <2>3 DEF StagePost, Goto
    <3>2. step[p] = "stage" /\ pc[p] # "idle"
      BY <1>0, <3>1 DEF StagesMatch, StagePCs
    <3>3. kid[p] # kid[o]
      BY <1>0, <2>1, <2>2, <3>1, <3>2 DEF FilesTurns
    <3> QED BY <1>0, <2>1, <2>3, <3>3, PresentEffect
  <2>4. ASSUME NEW p \in Operator, Raise(p) \/ Delete(p)
        PROVE  kid[o] \notin Present'
    BY <1>0, <2>1, <2>4, PresentEffect
  <2>5. ASSUME NEW p \in Operator, NEW k \in Key, Demote(p, k)
        PROVE  kid[o] \notin Present'
    BY <1>0, <2>1, <2>5, PresentEffect
  <2> QED BY <2>1, <2>3, <2>4, <2>5, RealmWrites, SameRealm
<1> QED BY <1>2, <1>3, <1>4

LEMMA PostsHeldStep ==
  ASSUME TypeOK, StepsMatch, FilesInv, [Next]_vars
  PROVE  PostsHeld'
<1>0. LocalOK /\ StagesMatch /\ FilesTurns /\ PostsHeld
  BY TypeParts DEF FilesInv
<1> SUFFICES ASSUME NEW o \in Operator, pc'[o] = "post"
             PROVE  "crt" \in files'[kid'[o]]
  BY DEF PostsHeld
<1>1. SameRun(o) \/ StageLookup(o)
  <2>1. ASSUME NEW s \in Steps, NEW k \in Key
        PROVE  ~Begin(o, s, k)
    BY <1>0 DEF Begin, Goto, LocalOK
  <2>2. ~(Stop(o) \/ Staged(o) \/ Record(o))
    BY <1>0 DEF Stop, Staged, Record, End, LocalOK
  <2>3. ~(Register(o) \/ Permit(o) \/ CheckKeystores(o) \/ StagePost(o))
    BY <1>0 DEF Register, Permit, CheckKeystores, StagePost, Goto, LocalOK
  <2>4. ~(ActivateStep(o) \/ RemoveStep(o))
    BY <1>0 DEF ActivateStep, Snapshot, Raise, Demote, Demoted, Activated, RemoveStep, Find,
                Delete, Removed, Destroy, ReadBackAbsent, Goto, LocalOK
  <2>5. ~(AgreeRegistry(o) \/ AgreeProvider(o) \/ Check(o))
    BY <1>0 DEF AgreeRegistry, AgreeProvider, Check, Goto, LocalOK
  <2> QED BY <1>0, <2>1, <2>2, <2>3, <2>4, <2>5, RunMoves DEF Proceed, StageStep
<1>2. CASE StageLookup(o)
  BY <1>0, <1>2 DEF StageLookup, Held
<1>3. CASE SameRun(o)
  <2>1. pc[o] = "post" /\ kid'[o] = kid[o] /\ step[o] = "stage" /\ "crt" \in files[kid[o]]
    BY <1>0, <1>3 DEF SameRun, StagesMatch, StagePCs, PostsHeld
  <2>2. ASSUME NEW p \in Operator, Destroy(p)
        PROVE  "crt" \in files'[kid[o]]
    <3>1. pc[p] = "destroy"
      BY <2>2 DEF Destroy, Goto
    <3>2. p # o /\ step[p] \in Removals /\ pc[p] # "idle"
      BY <2>1, <3>1 DEF StepsMatch, Removing
    <3>3. kid[p] # kid[o]
      BY <1>0, <2>1, <3>2 DEF FilesTurns
    <3> QED BY <2>1, <2>2, <3>3 DEF Destroy, TypeOK
  <2>3. ASSUME NEW k \in Key, Ceremony(k)
        PROVE  "crt" \in files'[kid[o]]
    BY <2>1, <2>3 DEF Ceremony, TypeOK
  <2> QED BY <2>1, <2>2, <2>3, FilesWrites
<1> QED BY <1>1, <1>2, <1>3

LEMMA ProvidersStep ==
  ASSUME TypeOK, FilesInv, [Next]_vars
  PROVE  ProvidersAreBacked'
<1>0. HandlesExist /\ OutOfKeySet /\ PostsHeld /\ ProvidersAreBacked
  BY DEF FilesInv
<1>1. ASSUME NEW o \in Operator, Destroy(o)
      PROVE  ProvidersAreBacked'
  <2>1. kid[o] \notin Present /\ UNCHANGED provider
    BY <1>0, <1>1 DEF Destroy, Goto, realm, OutOfKeySet
  <2>2. \A k \in Key \ {kid[o]} : files'[k] = files[k]
    BY <1>1 DEF Destroy, TypeOK
  <2> QED BY <1>0, <2>1, <2>2, SameRealm DEF ProvidersAreBacked, Present
<1>2. ASSUME NEW k \in Key, Ceremony(k)
      PROVE  ProvidersAreBacked'
  <2>1. k \notin Present /\ UNCHANGED provider
    BY <1>0, <1>2 DEF Ceremony, realm, ProvidersAreBacked, KeyFiles
  <2>2. \A j \in Key \ {k} : files'[j] = files[j]
    BY <1>2 DEF Ceremony, TypeOK
  <2> QED BY <1>0, <2>1, <2>2, SameRealm DEF ProvidersAreBacked, Present
<1>3. CASE UNCHANGED files
  <2>1. ASSUME NEW o \in Operator, StagePost(o)
        PROVE  ProvidersAreBacked'
    <3>1. files[kid[o]] = KeyFiles
      BY <1>0, <2>1 DEF StagePost, Goto, Loadable, PostsHeld, TypeOK, KeyFiles
    <3> QED BY <1>0, <1>3, <2>1, <3>1, PresentEffect DEF ProvidersAreBacked
  <2>2. ASSUME NEW o \in Operator, Raise(o) \/ Delete(o)
        PROVE  ProvidersAreBacked'
    BY <1>0, <1>3, <2>2, PresentEffect DEF ProvidersAreBacked
  <2>3. ASSUME NEW o \in Operator, NEW k \in Key, Demote(o, k)
        PROVE  ProvidersAreBacked'
    BY <1>0, <1>3, <2>3, PresentEffect DEF ProvidersAreBacked
  <2> QED BY <1>0, <1>3, <2>1, <2>2, <2>3, RealmWrites, SameRealm DEF ProvidersAreBacked
<1> QED BY <1>1, <1>2, <1>3, FilesWrites

LEMMA FilesInvInit == Init => FilesInv
<1> SUFFICES ASSUME Init
             PROVE  FilesInv
  OBVIOUS
<1>1. \A o \in Operator : pc[o] = "idle" /\ handle[o] = {}
  BY DEF Init
<1>2. StagesMatch /\ FilesTurns /\ HandlesExist /\ OutOfKeySet /\ PostsHeld
  BY <1>1 DEF StagesMatch, StagePCs, FilesTurns, HandlesExist, OutOfKeySet, PostsHeld
<1>3. ProvidersAreBacked
  BY RotationAssumption DEF Init, ProvidersAreBacked, Present
<1> QED BY <1>2, <1>3 DEF FilesInv

\* What a stage and a removal know of a key's files and provider while the runs on one
\* key take turns (StageSigningKey, RemoveSigningKey, destroy).
THEOREM FilesInvHolds == ASSUME FilesApart PROVE Spec => []FilesInv
<1>1. /\ FilesInv /\ TypeOK /\ Capped /\ StepsMatch /\ [Next]_vars
      => FilesInv'
  BY StagesMatchStep, FilesTurnsStep, HandlesExistStep, OutOfKeySetStep, PostsHeldStep,
     ProvidersStep DEF FilesInv
<1> QED BY <1>1, FilesInvInit, TypesHold, PTL DEF Spec

\* Every provider can load its key, wherever runs stop (the provider goes before the files).
THEOREM ProvidersKeepTheirFiles == ASSUME FilesApart PROVE Spec => []ProvidersAreBacked
<1>1. FilesInv => ProvidersAreBacked
  BY DEF FilesInv
<1> QED BY <1>1, FilesInvHolds, PTL

\* A key the registry has retired or revoked is out of the key set and its files are
\* gone, and it stays so.
THEOREM RecordedKeysStayGone == ASSUME FilesApart PROVE Spec => []RecordedKeysAreGone
<1>1. ProvidersAreBacked /\ RecordedFilesAreGone => RecordedKeysAreGone
  BY DEF ProvidersAreBacked, RecordedFilesAreGone, RecordedKeysAreGone, KeyFiles
<1> QED BY <1>1, ProvidersKeepTheirFiles, RecordsAreTrue, PTL

\* The kernel can restart at any moment: there is a keystore, and every one opens.
THEOREM KernelsRestart == ASSUME Disciplined PROVE Spec => []KernelCanRestart
<1>1. NoMomentWithoutActiveKey /\ KeystoresHavePasswords => KernelCanRestart
  BY DEF NoMomentWithoutActiveKey, KeystoresHavePasswords, KernelCanRestart, KeystoresOpen,
         Serving, Active, Loadable
<1> QED BY <1>1, AlwaysAnActiveKey, RestartsFindPasswords, PTL

=============================================================================
