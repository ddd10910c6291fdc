---------------------- MODULE SigningKeyRotationProofs ----------------------
(***************************************************************************)
(* Proofs about the rotation steps, for any keys, any number of operators  *)
(* and any bound on priorities.  A run may stop anywhere.  Types hold      *)
(* however runs interleave; the rest needs of the operators what           *)
(* Disciplined says.                                                       *)
(***************************************************************************)
EXTENDS SigningKeyRotation, WellFoundedInduction, TLAPS

Removals == {"retire", "abandon", "revoke"}

\* Activations take turns, and no removal of a key overlaps its activation.
Disciplined ==
  /\ "activate" \in TakeTurns
  /\ KeysTakeTurns \/ Removals \subseteq TakeTurns

-----------------------------------------------------------------------------
(* The inductive invariant, in parts. *)

Activating(o) ==
  \/ pc[o] \in {"snapshot", "raise", "demote", "activated"}
  \/ pc[o] = "record" /\ step[o] = "activate"

\* A removal past the read that found its key not active.
Removing(o) ==
  \/ pc[o] \in {"delete", "removed", "destroy"}
  \/ pc[o] = "record" /\ step[o] # "activate"

\* No priority, as the realm has it or a run remembers it, is above the bound.
Capped ==
  /\ \A k \in Key : priority[k] <= MaxPriority
  /\ \A o \in Operator : raise[o] <= MaxPriority
  /\ \A o \in Operator, k \in Key : stale[o][k] <= MaxPriority

\* A run is where its step goes.
StepsMatch ==
  \A o \in Operator :
    /\ Activating(o) => step[o] = "activate"
    /\ Removing(o) \/ pc[o] = "find" => step[o] \in Removals
    /\ pc[o] \in {"agreeRegistry", "agreeProvider", "check"} => step[o] # "stage"

\* What Begin keeps apart stays apart.
Turns ==
  \A o, p \in Operator :
    o # p /\ pc[o] # "idle" /\ pc[p] # "idle" /\ step[o] = "activate" =>
      /\ step[p] # "activate"
      /\ step[p] \in Removals => kid[p] # kid[o]

\* Every active key can sign.
ActiveLoadable == \A k \in Active : Loadable(k)

\* A passive key never outranks every active one.
TopIsActive ==
  /\ \A k \in Present : 1 <= priority[k]
  /\ \E k \in Active : \A j \in Present : priority[j] <= priority[k]

\* What a run found is still there or is known to be gone.
HandlesExist == \A o \in Operator : handle[o] \subseteq Present

\* An activation's key is still staged, and its priority still the highest.
ActivationsLead ==
  \A o \in Operator :
    /\ Activating(o) => registry[kid[o]] = "staged"
    /\ pc[o] = "raise" => 2 <= raise[o] /\ \A j \in Present : priority[j] < raise[o]
    /\ pc[o] = "demote" =>
         kid[o] \in Active /\ \A j \in Present : priority[j] <= priority[kid[o]]
    /\ pc[o] \in {"raise", "demote"} =>
         \A j \in others[o] : j \in Active /\ j # kid[o] /\ stale[o][j] = priority[j]
    /\ pc[o] = "record" /\ step[o] = "activate" => Active = {kid[o]}

\* A removal's key is still not active.
RemovalsLag == \A o \in Operator : Removing(o) => kid[o] \notin Active

IInv ==
  /\ TypeOK /\ Capped /\ StepsMatch /\ Turns
  /\ ActiveLoadable /\ TopIsActive /\ OneKeySigns /\ HandlesExist
  /\ ActivationsLead /\ RemovalsLag /\ DemotedKeysStayPassive

-----------------------------------------------------------------------------
(* Facts about the definitions. *)

\* Numbers that are bounded have a highest one.
LEMMA BoundedSetHasHighest ==
  ASSUME NEW S, S \subseteq Nat, S # {}, NEW b \in Nat, \A n \in S : n <= b
  PROVE  \E n \in S : \A m \in S : m <= n
<1> DEFINE Below == {b - n : n \in S}
           Less  == {ss \in Nat \X Nat : ss[1] < ss[2]}
<1>0. IsWellFoundedOn(Less, Nat)
  BY NatLessThanWellFounded DEF OpToRel
<1>1. Below \subseteq Nat /\ Below # {}
  <2>1. \A n \in S : b - n \in Nat
    OBVIOUS
  <2>2. PICK n \in S : TRUE
    OBVIOUS
  <2>3. b - n \in Below
    OBVIOUS
  <2> QED BY <2>1, <2>3
<1>2. \E x \in Below : \A y \in Below : <<y, x>> \notin Less
  <2> HIDE DEF Below, Less
  <2> QED BY <1>0, <1>1, WFMin
<1>3. PICK n \in S : \A y \in Below : <<y, b - n>> \notin Less
  BY <1>2
<1>4. ASSUME NEW m \in S
      PROVE  m <= n
  <2>1. b - m \in Below /\ b - m \in Nat /\ b - n \in Nat
    OBVIOUS
  <2>2. <<b - m, b - n>> \notin Less
    BY <1>3, <2>1
  <2>3. ~(b - m < b - n)
    BY <2>1, <2>2
  <2> QED BY <2>3
<1> QED BY <1>4
\* The priorities of the realm's providers have a highest one (ActivateSigningKey).
LEMMA HighestIsHighest ==
  ASSUME TypeOK, Capped, Present # {}
  PROVE  /\ Highest \in Nat /\ Highest <= MaxPriority
         /\ \A k \in Present : priority[k] <= Highest
<1> DEFINE Priorities == {priority[k] : k \in Present}
<1>1. MaxPriority \in Nat
  BY RotationAssumption
<1>2. \A k \in Present : priority[k] \in Nat /\ priority[k] <= MaxPriority
  BY DEF Present, TypeOK, Capped
<1>3. Priorities \subseteq Nat /\ Priorities # {} /\ \A n \in Priorities : n <= MaxPriority
  BY <1>2
<1>4. \E n \in Priorities : \A m \in Priorities : m <= n
  <2> HIDE DEF Priorities
  <2> QED BY <1>1, <1>3, BoundedSetHasHighest
<1>5. \E n \in Priorities : \A k \in Present : priority[k] <= n
  BY <1>4
<1>6. Highest \in Priorities /\ \A k \in Present : priority[k] <= Highest
  BY <1>5 DEF Highest
<1> QED BY <1>2, <1>6

-----------------------------------------------------------------------------
(* Which actions a step of the system can be. *)

\* What changes the providers: the four writes of the kernel's commands.
LEMMA RealmWrites ==
  ASSUME [Next]_vars
  PROVE  \/ UNCHANGED <<provider, priority>>
         \/ \E o \in Operator : StagePost(o) \/ Raise(o) \/ Delete(o)
         \/ \E o \in Operator, k \in Key : Demote(o, k)
  BY DEF Next, Proceed, StageStep, ActivateStep, RemoveStep, vars, realm, memory,
         Begin, Stop, Register, Permit, CheckKeystores, StageLookup, Staged,
         AgreeRegistry, AgreeProvider, Check, Snapshot, Demoted, Activated, Find,
         Removed, Destroy, ReadBackAbsent, Record, Ceremony, IssueToken

\* What changes the keys directory.
LEMMA FilesWrites ==
  ASSUME [Next]_vars
  PROVE  \/ UNCHANGED files
         \/ \E o \in Operator : Destroy(o)
         \/ \E k \in Key : Ceremony(k)
  BY DEF Next, Proceed, StageStep, ActivateStep, RemoveStep, vars, realm, memory,
         Begin, Stop, Register, Permit, CheckKeystores, StageLookup, StagePost, Staged,
         AgreeRegistry, AgreeProvider, Check, Snapshot, Raise, Demote, Demoted, Activated,
         Find, Delete, Removed, ReadBackAbsent, Record, IssueToken

\* What changes the registry.
LEMMA RegistryWrites ==
  ASSUME [Next]_vars
  PROVE  UNCHANGED registry \/ \E o \in Operator : Register(o) \/ Record(o)
  BY DEF Next, Proceed, StageStep, ActivateStep, RemoveStep, vars, realm, memory,
         Begin, Stop, Permit, CheckKeystores, StageLookup, StagePost, Staged,
         AgreeRegistry, AgreeProvider, Check, Snapshot, Raise, Demote, Demoted, Activated,
         Find, Delete, Removed, Destroy, ReadBackAbsent, Ceremony, IssueToken

-----------------------------------------------------------------------------
(* Each part of the invariant is preserved. *)

\* The run's own variables, of every operator.
LocalOK ==
  /\ pc      \in [Operator -> PCs]
  /\ step    \in [Operator -> Steps]
  /\ kid     \in [Operator -> Key]
  /\ state   \in [Operator -> RegistryStates]
  /\ handle  \in [Operator -> SUBSET Key]
  /\ custody \in [Operator -> SUBSET Key]
  /\ raise   \in [Operator -> Nat]
  /\ others  \in [Operator -> SUBSET Key]
  /\ stale   \in [Operator -> [Key -> Nat]]

\* The systems the runs share.
SharedOK ==
  /\ registry \in [Key -> RegistryStates]
  /\ provider \in [Key -> ProviderStates]
  /\ priority \in [Key -> Nat]
  /\ fallback \in BOOLEAN
  /\ files    \in [Key -> SUBSET KeyFiles]
  /\ signed   \in SUBSET Key

LEMMA TypeParts == TypeOK <=> LocalOK /\ SharedOK
  BY DEF TypeOK, LocalOK, SharedOK

\* A run that moves on keeps its variables in their types.
LEMMA GotoType ==
  ASSUME LocalOK, NEW o \in Operator, NEW from, NEW to \in PCs, Goto(o, from, to)
  PROVE  pc' \in [Operator -> PCs]
  BY DEF LocalOK, Goto

LEMMA EndType ==
  ASSUME LocalOK, NEW o \in Operator, End(o)
  PROVE  LocalOK'
<1>1. [k \in Key |-> 0] \in [Key -> Nat]
  OBVIOUS
<1>2. stale' \in [Operator -> [Key -> Nat]]
  BY <1>1 DEF End, LocalOK
<1>3. FirstKey \in Key
  BY RotationAssumption
<1> QED
  BY <1>2, <1>3 DEF End, LocalOK, PCs, Steps, RegistryStates

LEMMA LocalStep ==
  ASSUME TypeOK, Capped, [Next]_vars
  PROVE  LocalOK'
<1>0. LocalOK
  BY TypeParts
<1> USE <1>0
<1>1. ASSUME NEW o \in Operator, NEW s \in Steps, NEW k \in Key, Begin(o, s, k)
      PROVE  LocalOK'
  BY <1>1 DEF Begin, Goto, memory, LocalOK, PCs
<1>2. ASSUME NEW o \in Operator, End(o)
      PROVE  LocalOK'
  BY <1>2, EndType
<1>3. ASSUME NEW o \in Operator, StageLookup(o)
      PROVE  LocalOK'
  <2>1. Held \subseteq Key
    BY DEF Held
  <2> QED BY <1>3, <2>1 DEF StageLookup, Goto, LocalOK, PCs
<1>4. ASSUME NEW o \in Operator, Snapshot(o)
      PROVE  LocalOK'
  <2>1. Highest \in Nat
    BY <1>4, HighestIsHighest DEF Snapshot
  <2>2. Held \subseteq Key /\ Present \subseteq Key /\ Active \subseteq Key
    BY DEF Held, Present, Active
  <2>3. priority \in [Key -> Nat]
    BY DEF TypeOK
  <2> QED
    BY <1>4, <2>1, <2>2, <2>3 DEF Snapshot, Goto, LocalOK, PCs
<1>5. ASSUME NEW o \in Operator, NEW k \in Key, Demote(o, k)
      PROVE  LocalOK'
  BY <1>5 DEF Demote, Goto, LocalOK, PCs
<1>6. ASSUME NEW o \in Operator, Find(o)
      PROVE  LocalOK'
  <2>1. Held \subseteq Key /\ Present \subseteq Key
    BY DEF Held, Present
  <2> QED BY <1>6, <2>1 DEF Find, Goto, LocalOK, PCs
<1>7. ASSUME NEW o \in Operator, Delete(o)
      PROVE  LocalOK'
  BY <1>7 DEF Delete, Goto, LocalOK, PCs
<1>8. ASSUME NEW o \in Operator, AgreeRegistry(o)
      PROVE  LocalOK'
  <2>1. registry[kid[o]] \in RegistryStates
    BY DEF TypeOK
  <2> QED BY <1>8, <2>1 DEF AgreeRegistry, Goto, memory, LocalOK, PCs
<1>9. ASSUME NEW o \in Operator, NEW from, NEW to \in PCs, Goto(o, from, to),
             UNCHANGED <<step, kid, state, memory>>
      PROVE  LocalOK'
  BY <1>9 DEF Goto, memory, LocalOK
<1>10. CASE UNCHANGED <<pc, step, kid, state, memory>>
  BY <1>10 DEF memory, LocalOK
<1>11. ASSUME NEW o \in Operator,
              \/ Register(o) \/ Permit(o) \/ CheckKeystores(o) \/ StagePost(o)
              \/ Raise(o) \/ Demoted(o) \/ Activated(o) \/ Removed(o)
              \/ Destroy(o) \/ ReadBackAbsent(o) \/ AgreeProvider(o) \/ Check(o)
       PROVE  LocalOK'
  BY <1>9, <1>11 DEF Register, Permit, CheckKeystores, StagePost, Raise, Demoted, Activated,
       Removed, Destroy, ReadBackAbsent, AgreeProvider, Check, PCs
<1> QED
  BY <1>1, <1>2, <1>3, <1>4, <1>5, <1>6, <1>7, <1>8, <1>10, <1>11
     DEF Next, Proceed, StageStep, ActivateStep, RemoveStep, Stop, Staged, Record,
         Ceremony, IssueToken, vars

LEMMA SharedStep ==
  ASSUME TypeOK, [Next]_vars
  PROVE  SharedOK'
<1>0. LocalOK /\ SharedOK
  BY TypeParts
<1> USE <1>0
<1>1. registry' \in [Key -> RegistryStates]
  <2>1. ASSUME NEW o \in Operator, Register(o)
        PROVE  registry' \in [Key -> RegistryStates]
    BY <2>1 DEF Register, SharedOK, RegistryStates
  <2>2. ASSUME NEW o \in Operator, Record(o)
        PROVE  registry' \in [Key -> RegistryStates]
    <3>1. \A s : To(s) \in RegistryStates
      BY DEF To, RegistryStates
    <3> QED BY <2>2, <3>1 DEF Record, SharedOK, RegistryStates
  <2> QED BY <2>1, <2>2, RegistryWrites DEF SharedOK
<1>2. provider' \in [Key -> ProviderStates] /\ priority' \in [Key -> Nat]
  <2>1. ASSUME NEW o \in Operator, StagePost(o) \/ Raise(o) \/ Delete(o)
        PROVE  provider' \in [Key -> ProviderStates] /\ priority' \in [Key -> Nat]
    <3>1. CASE StagePost(o)
      BY <3>1 DEF StagePost, SharedOK, ProviderStates
    <3>2. CASE Raise(o)
      BY <3>2 DEF Raise, WriteProvider, SharedOK, LocalOK, ProviderStates
    <3>3. CASE Delete(o)
      BY <3>3 DEF Delete, SharedOK, ProviderStates
    <3> QED BY <2>1, <3>1, <3>2, <3>3
  <2>2. ASSUME NEW o \in Operator, NEW k \in Key, Demote(o, k)
        PROVE  provider' \in [Key -> ProviderStates] /\ priority' \in [Key -> Nat]
    BY <2>2 DEF Demote, WriteProvider, SharedOK, LocalOK, ProviderStates
  <2> QED BY <2>1, <2>2, RealmWrites DEF SharedOK
<1>3. files' \in [Key -> SUBSET KeyFiles]
  <2>1. ASSUME NEW o \in Operator, Destroy(o)
        PROVE  files' \in [Key -> SUBSET KeyFiles]
    BY <2>1 DEF Destroy, SharedOK, LocalOK
  <2>2. ASSUME NEW k \in Key, Ceremony(k)
        PROVE  files' \in [Key -> SUBSET KeyFiles]
    BY <2>2 DEF Ceremony, SharedOK
  <2> QED BY <2>1, <2>2, FilesWrites DEF SharedOK
<1>4. fallback' \in BOOLEAN /\ signed' \in SUBSET Key
  <2>1. Top \subseteq Key
    BY DEF Top, Serving, Active
  <2>2. CASE IssueToken
    BY <2>1, <2>2 DEF IssueToken, SharedOK
  <2>3. CASE UNCHANGED <<fallback, signed>>
    BY <2>3 DEF SharedOK
  <2> QED
    BY <2>2, <2>3 DEF Next, Proceed, StageStep, ActivateStep, RemoveStep, vars, realm,
         Begin, Stop, Register, Permit, CheckKeystores, StageLookup, StagePost, Staged,
         AgreeRegistry, AgreeProvider, Check, Snapshot, Raise, Demote, Demoted, Activated,
         WriteProvider, Find, Delete, Removed, Destroy, ReadBackAbsent, Record, Ceremony
<1> QED BY <1>1, <1>2, <1>3, <1>4 DEF SharedOK

\* No priority rises above the bound: an activation takes what it writes from one read.
LEMMA CappedStep ==
  ASSUME TypeOK, Capped, [Next]_vars
  PROVE  Capped'
<1>0. MaxPriority \in Nat /\ 1 <= MaxPriority /\ 0 <= MaxPriority
  BY RotationAssumption
<1>1. \A k \in Key : priority'[k] <= MaxPriority
  <2>1. ASSUME NEW o \in Operator, StagePost(o) \/ Raise(o) \/ Delete(o)
        PROVE  \A k \in Key : priority'[k] <= MaxPriority
    <3>1. raise[o] <= MaxPriority
      BY DEF Capped
    <3> QED BY <1>0, <2>1, <3>1 DEF StagePost, Raise, WriteProvider, Delete, TypeOK, Capped
  <2>2. ASSUME NEW o \in Operator, NEW j \in Key, Demote(o, j)
        PROVE  \A k \in Key : priority'[k] <= MaxPriority
    BY <2>2 DEF Demote, WriteProvider, TypeOK, Capped
  <2> QED BY <2>1, <2>2, RealmWrites DEF Capped
<1>2. /\ \A o \in Operator : raise'[o] <= MaxPriority
      /\ \A o \in Operator, k \in Key : stale'[o][k] <= MaxPriority
  <2>1. ASSUME NEW o \in Operator, Snapshot(o)
        PROVE  /\ \A p \in Operator : raise'[p] <= MaxPriority
               /\ \A p \in Operator, k \in Key : stale'[p][k] <= MaxPriority
    <3>1. Highest \in Nat
      BY <2>1, HighestIsHighest DEF Snapshot
    <3>2. \/ raise' = [raise EXCEPT ![o] = Highest + 1] /\ Highest < MaxPriority
          \/ raise' = [raise EXCEPT ![o] = 0]
      BY <2>1 DEF Snapshot
    <3>3. raise'[o] <= MaxPriority
      BY <1>0, <3>1, <3>2 DEF TypeOK
    <3>4. stale'[o] = priority
      BY <2>1 DEF Snapshot, TypeOK
    <3>5. \A p \in Operator \ {o} : raise'[p] = raise[p] /\ stale'[p] = stale[p]
      BY <2>1 DEF Snapshot, TypeOK
    <3> QED BY <3>3, <3>4, <3>5 DEF Capped
  <2>2. ASSUME NEW o \in Operator, End(o)
        PROVE  /\ \A p \in Operator : raise'[p] <= MaxPriority
               /\ \A p \in Operator, k \in Key : stale'[p][k] <= MaxPriority
    BY <1>0, <2>2 DEF End, TypeOK, Capped
  <2>3. \/ UNCHANGED <<raise, stale>>
        \/ \E o \in Operator : Snapshot(o) \/ End(o)
    BY DEF Next, Proceed, StageStep, ActivateStep, RemoveStep, vars, memory,
           Begin, Stop, Register, Permit, CheckKeystores, StageLookup, StagePost, Staged,
           AgreeRegistry, AgreeProvider, Check, Raise, Demote, Demoted, Activated, Find, Delete,
           Removed, Destroy, ReadBackAbsent, Record, Ceremony, IssueToken
  <2> QED BY <2>1, <2>2, <2>3 DEF Capped
<1> QED BY <1>1, <1>2 DEF Capped

-----------------------------------------------------------------------------
(* A run's own part of a step. *)

SameRun(o) ==
  /\ pc'[o] = pc[o] /\ step'[o] = step[o] /\ kid'[o] = kid[o]
  /\ raise'[o] = raise[o] /\ others'[o] = others[o] /\ stale'[o] = stale[o]

\* A run's variables change only by its own moves.
LEMMA RunMoves ==
  ASSUME LocalOK, [Next]_vars, NEW o \in Operator
  PROVE  \/ SameRun(o)
         \/ \E s \in Steps, k \in Key : Begin(o, s, k)
         \/ Stop(o) \/ Proceed(o)
<1>1. ASSUME NEW p \in Operator, p # o, NEW s \in Steps, NEW k \in Key, Begin(p, s, k)
      PROVE  SameRun(o)
  BY <1>1 DEF Begin, Goto, memory, LocalOK, SameRun
<1>2. ASSUME NEW p \in Operator, p # o, Stop(p) \/ Staged(p) \/ Record(p)
      PROVE  SameRun(o)
  BY <1>2 DEF Stop, Staged, Record, End, LocalOK, SameRun
<1>3. ASSUME NEW p \in Operator, p # o, StageStep(p), ~Staged(p)
      PROVE  SameRun(o)
  BY <1>3 DEF StageStep, Register, Permit, CheckKeystores, StageLookup, StagePost,
              Goto, memory, LocalOK, SameRun
<1>4. ASSUME NEW p \in Operator, p # o, ActivateStep(p)
      PROVE  SameRun(o)
  <2>1. CASE Snapshot(p)
    BY <1>4, <2>1 DEF Snapshot, Goto, LocalOK, SameRun
  <2>2. ASSUME NEW k \in Key, Demote(p, k)
        PROVE  SameRun(o)
    BY <1>4, <2>2 DEF Demote, Goto, LocalOK, SameRun
  <2> QED
    BY <1>4, <2>1, <2>2 DEF ActivateStep, Raise, Demoted, Activated, Goto, memory,
                            LocalOK, SameRun
<1>5. ASSUME NEW p \in Operator, p # o, RemoveStep(p)
      PROVE  SameRun(o)
  BY <1>5 DEF RemoveStep, Find, Delete, Removed, Destroy, ReadBackAbsent, Goto, memory,
              LocalOK, SameRun
<1>6. ASSUME NEW p \in Operator, p # o, AgreeRegistry(p) \/ AgreeProvider(p) \/ Check(p)
      PROVE  SameRun(o)
  BY <1>6 DEF AgreeRegistry, AgreeProvider, Check, Goto, memory, LocalOK, SameRun
<1>7. CASE (\E k \in Key : Ceremony(k)) \/ IssueToken \/ UNCHANGED vars
  BY <1>7 DEF Ceremony, IssueToken, vars, memory, SameRun
<1> QED
  BY <1>1, <1>2, <1>3, <1>4, <1>5, <1>6, <1>7 DEF Next, Proceed

\* A step begins a run, or every run that goes on is of the step and the key it was of.
LEMMA RunsKeepTheirKeys ==
  ASSUME LocalOK, [Next]_vars
  PROVE  \/ \E o \in Operator, s \in Steps, k \in Key : Begin(o, s, k)
         \/ \A o \in Operator : \/ pc'[o] = "idle"
                                \/ pc[o] # "idle" /\ step'[o] = step[o] /\ kid'[o] = kid[o]
<1> SUFFICES ASSUME NEW o \in Operator, ~ \E s \in Steps, k \in Key : Begin(o, s, k)
             PROVE  \/ pc'[o] = "idle"
                    \/ pc[o] # "idle" /\ step'[o] = step[o] /\ kid'[o] = kid[o]
  OBVIOUS
<1>1. CASE SameRun(o)
  BY <1>1 DEF SameRun
<1>2. CASE Stop(o) \/ Staged(o) \/ Record(o)
  BY <1>2 DEF Stop, Staged, Record, End, LocalOK
<1>3. CASE Proceed(o) /\ ~Staged(o) /\ ~Record(o)
  BY <1>3 DEF Proceed, StageStep, ActivateStep, RemoveStep, Register, Permit,
       CheckKeystores, StageLookup, StagePost, AgreeRegistry, AgreeProvider, Check,
       Snapshot, Raise, Demote, Demoted, Activated, Find, Delete, Removed, Destroy,
       ReadBackAbsent, Goto
<1> QED BY <1>1, <1>2, <1>3, RunMoves

LEMMA StepsMatchStep ==
  ASSUME TypeOK, StepsMatch, [Next]_vars
  PROVE  StepsMatch'
<1>0. LocalOK /\ StepsMatch
  BY TypeParts
<1> SUFFICES ASSUME NEW o \in Operator
             PROVE  /\ Activating(o)' => step'[o] = "activate"
                    /\ Removing(o)' \/ pc'[o] = "find" => step'[o] \in Removals
                    /\ pc'[o] \in {"agreeRegistry", "agreeProvider", "check"}
                         => step'[o] # "stage"
  BY DEF StepsMatch
<1> USE <1>0 DEF StepsMatch, Activating, Removing
<1>1. CASE SameRun(o)
  BY <1>1 DEF SameRun
<1>2. ASSUME NEW s \in Steps, NEW k \in Key, Begin(o, s, k)
      PROVE  /\ step'[o] = s
             /\ pc'[o] = IF s = "stage" THEN "register" ELSE "agreeRegistry"
  BY <1>2 DEF Begin, Goto, LocalOK
<1>3. CASE Stop(o) \/ Staged(o) \/ Record(o)
  BY <1>3 DEF Stop, Staged, Record, End, LocalOK
<1>4. CASE StageStep(o) /\ ~Staged(o)
  BY <1>4 DEF StageStep, Register, Permit, CheckKeystores, StageLookup, StagePost,
              Goto, LocalOK
<1>5. CASE ActivateStep(o)
  BY <1>5 DEF ActivateStep, Snapshot, Raise, Demote, Demoted, Activated, Goto, LocalOK
<1>6. CASE RemoveStep(o)
  BY <1>6 DEF RemoveStep, Find, Delete, Removed, Destroy, ReadBackAbsent, Goto, LocalOK,
              Removals
<1>7. CASE AgreeRegistry(o) \/ AgreeProvider(o) \/ Check(o)
  BY <1>7 DEF AgreeRegistry, AgreeProvider, Check, Goto, LocalOK, Steps, Removals
<1> QED
  BY <1>1, <1>2, <1>3, <1>4, <1>5, <1>6, <1>7, RunMoves DEF Proceed

LEMMA TurnsStep ==
  ASSUME Disciplined, IInv, [Next]_vars
  PROVE  Turns'
<1>0. LocalOK /\ Turns
  BY TypeParts DEF IInv
<1> SUFFICES ASSUME NEW o \in Operator, NEW p \in Operator,
                    o # p, pc'[o] # "idle", pc'[p] # "idle", step'[o] = "activate"
             PROVE  step'[p] # "activate" /\ (step'[p] \in Removals => kid'[p] # kid'[o])
  BY DEF Turns
<1>1. ASSUME NEW q \in Operator, NEW s \in Steps, NEW k \in Key, Begin(q, s, k)
      PROVE  step'[p] # "activate" /\ (step'[p] \in Removals => kid'[p] # kid'[o])
  <2>1. /\ step'[q] = s /\ kid'[q] = k
        /\ \A r \in Operator : r # q =>
             pc'[r] = pc[r] /\ step'[r] = step[r] /\ kid'[r] = kid[r]
    BY <1>0, <1>1 DEF Begin, Goto, LocalOK
  <2>2. \A r \in Operator : pc[r] # "idle" =>
          ~(s \in TakeTurns /\ step[r] \in TakeTurns) /\ (KeysTakeTurns => k # kid[r])
    BY <1>1 DEF Begin
  <2>3. CASE q = o
    BY <2>1, <2>2, <2>3 DEF Disciplined, Removals
  <2>4. CASE q = p
    BY <2>1, <2>2, <2>4 DEF Disciplined, Removals
  <2>5. CASE q # o /\ q # p
    BY <1>0, <2>1, <2>5 DEF Turns
  <2> QED BY <2>3, <2>4, <2>5
<1> QED
  BY <1>0, <1>1, RunsKeepTheirKeys DEF Turns

-----------------------------------------------------------------------------
(* What each write does to the realm, as the invariant lets it. *)

LEMMA StagePostEffect ==
  ASSUME TypeOK, NEW o \in Operator, StagePost(o)
  PROVE  /\ Active' = Active /\ Present' = Present \cup {kid[o]}
         /\ kid[o] \notin Present /\ priority'[kid[o]] = 1
         /\ \A j \in Present : priority'[j] = priority[j]
  BY DEF StagePost, TypeOK, Active, Present

LEMMA RaiseEffect ==
  ASSUME TypeOK, HandlesExist, ActivationsLead, NEW o \in Operator, Raise(o)
  PROVE  /\ Active' = Active \cup {kid[o]} /\ Present' = Present
         /\ kid[o] \in Present /\ Loadable(kid[o]) /\ registry[kid[o]] = "staged"
         /\ priority'[kid[o]] = raise[o] /\ \A j \in Present : priority[j] < raise[o]
         /\ \A j \in Present \ {kid[o]} : priority'[j] = priority[j]
<1>1. pc[o] = "raise" /\ kid[o] \in handle[o] /\ Loadable(kid[o])
  BY DEF Raise, Goto, WriteProvider
<1>2. kid[o] \in Present
  BY <1>1 DEF HandlesExist
<1>3. registry[kid[o]] = "staged" /\ \A j \in Present : priority[j] < raise[o]
  BY <1>1 DEF ActivationsLead, Activating
<1> QED
  BY <1>1, <1>2, <1>3 DEF Raise, WriteProvider, TypeOK, Active, Present

LEMMA DemoteEffect ==
  ASSUME TypeOK, ActivationsLead, NEW o \in Operator, NEW k \in Key, Demote(o, k)
  PROVE  /\ Active' = Active \ {k} /\ Present' = Present /\ priority' = priority
         /\ k \in Active /\ k # kid[o]
         /\ kid[o] \in Active /\ \A j \in Present : priority[j] <= priority[kid[o]]
<1>1. pc[o] = "demote" /\ k \in others[o]
  BY DEF Demote, Goto
<1>2. k \in Active /\ k # kid[o] /\ stale[o][k] = priority[k]
  BY <1>1 DEF ActivationsLead
<1>3. kid[o] \in Active /\ \A j \in Present : priority[j] <= priority[kid[o]]
  BY <1>1 DEF ActivationsLead
<1>4. priority' = priority
  BY <1>2 DEF Demote, WriteProvider, TypeOK
<1> QED
  BY <1>2, <1>3, <1>4 DEF Demote, WriteProvider, TypeOK, Active, Present

LEMMA DeleteEffect ==
  ASSUME TypeOK, RemovalsLag, NEW o \in Operator, Delete(o)
  PROVE  /\ Active' = Active /\ Present' = Present \ {kid[o]} /\ kid[o] \notin Active
         /\ \A j \in Present \ {kid[o]} : priority'[j] = priority[j]
<1>1. pc[o] = "delete" /\ kid[o] \notin Active
  BY DEF Delete, Goto, RemovalsLag, Removing
<1> QED
  BY <1>1 DEF Delete, TypeOK, Active, Present

\* What each write does to the key set alone, whoever else runs.
LEMMA PresentEffect ==
  ASSUME TypeOK, HandlesExist, NEW o \in Operator
  PROVE  /\ StagePost(o) => Present' = Present \cup {kid[o]}
         /\ Raise(o) => Present' = Present
         /\ \A k \in Key : Demote(o, k) => Present' = Present
         /\ Delete(o) => Present' = Present \ {kid[o]}
<1>1. handle[o] \subseteq Present
  BY DEF HandlesExist
<1> QED
  BY <1>1 DEF StagePost, Raise, Demote, WriteProvider, Delete, TypeOK, Present

\* The key sets, when no provider is written.
LEMMA SameRealm ==
  ASSUME UNCHANGED provider
  PROVE  Active' = Active /\ Present' = Present
  BY DEF Active, Present

-----------------------------------------------------------------------------
(* The realm's parts of the invariant. *)

LEMMA ActiveLoadableStep ==
  ASSUME IInv, [Next]_vars
  PROVE  ActiveLoadable'
<1>0. TypeOK /\ ActiveLoadable /\ HandlesExist /\ ActivationsLead /\ RemovalsLag
  BY DEF IInv
<1>1. \A k \in Active' : Loadable(k)
  <2>1. ASSUME NEW o \in Operator, StagePost(o) \/ Raise(o) \/ Delete(o)
        PROVE  \A k \in Active' : Loadable(k)
    BY <1>0, <2>1, StagePostEffect, RaiseEffect, DeleteEffect DEF ActiveLoadable
  <2>2. ASSUME NEW o \in Operator, NEW k \in Key, Demote(o, k)
        PROVE  \A j \in Active' : Loadable(j)
    BY <1>0, <2>2, DemoteEffect DEF ActiveLoadable
  <2> QED BY <1>0, <2>1, <2>2, RealmWrites, SameRealm DEF ActiveLoadable
<1>2. CASE UNCHANGED files
  BY <1>1, <1>2 DEF ActiveLoadable, Loadable
<1>3. ASSUME NEW o \in Operator, Destroy(o)
      PROVE  ActiveLoadable'
  <2>1. kid[o] \notin Active
    BY <1>0, <1>3 DEF Destroy, Goto, RemovalsLag, Removing
  <2>2. UNCHANGED provider /\ \A k \in Key \ {kid[o]} : files'[k] = files[k]
    BY <1>0, <1>3 DEF Destroy, realm, TypeOK
  <2> QED BY <1>0, <2>1, <2>2, SameRealm DEF ActiveLoadable, Loadable, Active
<1>4. ASSUME NEW k \in Key, Ceremony(k)
      PROVE  ActiveLoadable'
  <2>1. files[k] = {} /\ UNCHANGED provider /\ \A j \in Key \ {k} : files'[j] = files[j]
    BY <1>0, <1>4 DEF Ceremony, realm, TypeOK
  <2>2. k \notin Active
    BY <1>0, <2>1 DEF ActiveLoadable, Loadable
  <2> QED BY <1>0, <2>1, <2>2, SameRealm DEF ActiveLoadable, Loadable, Active
<1> QED BY <1>2, <1>3, <1>4, FilesWrites

LEMMA TopIsActiveStep ==
  ASSUME IInv, [Next]_vars
  PROVE  (TopIsActive /\ OneKeySigns)'
<1>0. /\ TypeOK /\ TopIsActive /\ OneKeySigns
      /\ HandlesExist /\ ActivationsLead /\ RemovalsLag
  BY DEF IInv
<1>a. Active \subseteq Present /\ \A k \in Present : priority[k] \in Nat
  BY <1>0 DEF Active, Present, TypeOK
<1>1. ASSUME NEW o \in Operator, StagePost(o)
      PROVE  (TopIsActive /\ OneKeySigns)'
  BY <1>0, <1>a, <1>1, StagePostEffect DEF TopIsActive, OneKeySigns
<1>2. ASSUME NEW o \in Operator, Raise(o)
      PROVE  (TopIsActive /\ OneKeySigns)'
  <2>1. raise[o] \in Nat
    BY <1>0 DEF TypeOK
  <2> QED BY <1>0, <1>a, <1>2, <2>1, RaiseEffect DEF TopIsActive, OneKeySigns
<1>3. ASSUME NEW o \in Operator, NEW k \in Key, Demote(o, k)
      PROVE  (TopIsActive /\ OneKeySigns)'
  BY <1>0, <1>a, <1>3, DemoteEffect DEF TopIsActive, OneKeySigns
<1>4. ASSUME NEW o \in Operator, Delete(o)
      PROVE  (TopIsActive /\ OneKeySigns)'
  BY <1>0, <1>a, <1>4, DeleteEffect DEF TopIsActive, OneKeySigns
<1>5. CASE UNCHANGED <<provider, priority>>
  BY <1>0, <1>5, SameRealm DEF TopIsActive, OneKeySigns
<1> QED BY <1>1, <1>2, <1>3, <1>4, <1>5, RealmWrites

LEMMA HandlesExistStep ==
  ASSUME TypeOK, HandlesExist, [Next]_vars
  PROVE  HandlesExist'
<1>1. ASSUME NEW o \in Operator, Delete(o)
      PROVE  HandlesExist'
  <2>1. \A p \in Operator : handle'[p] = handle[p] \ {kid[o]}
    BY <1>1 DEF Delete
  <2> QED BY <1>1, <2>1, PresentEffect DEF HandlesExist
<1>2. ASSUME ~ \E o \in Operator : Delete(o)
      PROVE  Present \subseteq Present'
  BY <1>2, PresentEffect, RealmWrites, SameRealm
<1>3. ASSUME NEW o \in Operator, Snapshot(o) \/ Find(o)
      PROVE  HandlesExist'
  <2>1. Present' = Present
    BY <1>3, SameRealm DEF Snapshot, Find, realm
  <2>2. \A p \in Operator : handle'[p] = IF p = o THEN Present ELSE handle[p]
    BY <1>3 DEF Snapshot, Find, TypeOK
  <2> QED BY <2>1, <2>2 DEF HandlesExist
<1>4. ASSUME NEW o \in Operator, End(o), ~ \E p \in Operator : Delete(p)
      PROVE  HandlesExist'
  <2>1. \A p \in Operator : handle'[p] = IF p = o THEN {} ELSE handle[p]
    BY <1>4 DEF End, TypeOK
  <2> QED BY <1>2, <1>4, <2>1 DEF HandlesExist
<1>5. ASSUME UNCHANGED handle, ~ \E o \in Operator : Delete(o)
      PROVE  HandlesExist'
  BY <1>2, <1>5 DEF HandlesExist
<1>6. \/ UNCHANGED handle
      \/ \E o \in Operator : Delete(o) \/ Snapshot(o) \/ Find(o) \/ End(o)
  BY DEF Next, Proceed, StageStep, ActivateStep, RemoveStep, vars, memory,
         Begin, Stop, Register, Permit, CheckKeystores, StageLookup, StagePost, Staged,
         AgreeRegistry, AgreeProvider, Check, Raise, Demote, Demoted, Activated,
         Removed, Destroy, ReadBackAbsent, Record, Ceremony, IssueToken
<1> QED BY <1>1, <1>3, <1>4, <1>5, <1>6

-----------------------------------------------------------------------------
(* The runs' parts of the invariant. *)

\* While a key is being activated, no other run activates or removes it.
LEMMA ActivatesAlone ==
  ASSUME StepsMatch, Turns, NEW o \in Operator, NEW p \in Operator, o # p, Activating(o)
  PROVE  ~Activating(p) /\ (Removing(p) => kid[p] # kid[o])
<1>1. pc[o] # "idle" /\ step[o] = "activate"
  BY DEF StepsMatch, Activating
<1>2. Activating(p) => pc[p] # "idle" /\ step[p] = "activate"
  BY DEF StepsMatch, Activating
<1>3. Removing(p) => pc[p] # "idle" /\ step[p] \in Removals
  BY DEF StepsMatch, Removing
<1> QED BY <1>1, <1>2, <1>3 DEF Turns

\* How a run comes to be past the check of an activation.
LEMMA ActivatingMoves ==
  ASSUME LocalOK, StepsMatch, [Next]_vars, NEW o \in Operator, Activating(o)'
  PROVE  \/ SameRun(o) \/ Check(o) \/ Snapshot(o) \/ Raise(o)
         \/ \E k \in Key : Demote(o, k)
         \/ Demoted(o) \/ Activated(o)
<1>1. ASSUME NEW s \in Steps, NEW k \in Key
      PROVE  ~Begin(o, s, k)
  BY DEF Begin, Goto, LocalOK, Activating
<1>2. ~(Stop(o) \/ Staged(o) \/ Record(o))
  BY DEF Stop, Staged, Record, End, LocalOK, Activating
<1>3. ~(StageStep(o) /\ ~Staged(o))
  BY DEF StageStep, Register, Permit, CheckKeystores, StageLookup, StagePost, Goto, LocalOK,
         Activating
<1>4. ~RemoveStep(o)
  BY DEF RemoveStep, Find, Delete, Removed, Destroy, ReadBackAbsent, Goto, LocalOK,
         Activating, StepsMatch, Removing, Removals
<1>5. ~(AgreeRegistry(o) \/ AgreeProvider(o))
  BY DEF AgreeRegistry, AgreeProvider, Goto, LocalOK, Activating
<1> QED
  BY <1>1, <1>2, <1>3, <1>4, <1>5, RunMoves DEF Proceed, ActivateStep

\* How the key of an activation may see the realm written by another run.
LEMMA OthersWrite ==
  ASSUME IInv, [Next]_vars, NEW o \in Operator, Activating(o), SameRun(o)
  PROVE  \/ UNCHANGED <<provider, priority>>
         \/ \E p \in Operator : StagePost(p) \/ Delete(p)
<1>1. ASSUME NEW p \in Operator, Raise(p)
      PROVE  FALSE
  <2>1. p # o
    BY <1>1, TypeParts DEF IInv, Raise, Goto, SameRun, LocalOK
  <2>2. Activating(p)
    BY <1>1 DEF Raise, Goto, Activating
  <2> QED BY <2>1, <2>2, ActivatesAlone DEF IInv
<1>2. ASSUME NEW p \in Operator, NEW k \in Key, Demote(p, k)
      PROVE  FALSE
  <2>1. p # o
    BY <1>2, TypeParts DEF IInv, Demote, SameRun, LocalOK
  <2>2. Activating(p)
    BY <1>2 DEF Demote, Goto, Activating
  <2> QED BY <2>1, <2>2, ActivatesAlone DEF IInv
<1> QED BY <1>1, <1>2, RealmWrites

\* The key of an activation stays staged until its record.
LEMMA StaysStaged ==
  ASSUME IInv, [Next]_vars, NEW o \in Operator, Activating(o)'
  PROVE  registry'[kid'[o]] = "staged"
<1>0. LocalOK /\ TypeOK /\ StepsMatch /\ Turns /\ ActivationsLead
  BY TypeParts DEF IInv
<1>1. CASE Check(o)
  BY <1>0, <1>1 DEF Check, Goto, From, StepsMatch, Activating, LocalOK
<1>2. CASE ~Check(o)
  <2>1. Activating(o) /\ kid'[o] = kid[o] /\ ~Record(o)
    BY <1>0, <1>2, ActivatingMoves DEF SameRun, Snapshot, Raise, Demote, Demoted, Activated,
         Record, End, Goto, LocalOK, Activating
  <2>2. registry[kid[o]] = "staged"
    BY <1>0, <2>1 DEF ActivationsLead
  <2>3. ASSUME NEW p \in Operator, Register(p)
        PROVE  registry'[kid[o]] = "staged"
    BY <1>0, <2>2, <2>3 DEF Register, TypeOK
  <2>4. ASSUME NEW p \in Operator, Record(p)
        PROVE  registry'[kid[o]] = "staged"
    <3>1. p # o /\ (Activating(p) \/ Removing(p))
      BY <2>1, <2>4 DEF Record, Activating, Removing
    <3>2. kid[p] # kid[o]
      BY <1>0, <2>1, <3>1, ActivatesAlone
    <3> QED BY <1>0, <2>2, <2>4, <3>2 DEF Record, LocalOK
  <2> QED BY <2>1, <2>2, <2>3, <2>4, RegistryWrites
<1> QED BY <1>1, <1>2

\* The priority an activation will write stays above every provider's.
LEMMA StaysAbove ==
  ASSUME IInv, [Next]_vars, NEW o \in Operator, pc'[o] = "raise"
  PROVE  2 <= raise'[o] /\ \A j \in Present' : priority'[j] < raise'[o]
<1>0. LocalOK /\ TypeOK /\ Capped /\ StepsMatch /\ TopIsActive /\ ActivationsLead /\ RemovalsLag
  BY TypeParts DEF IInv
<1>1. CASE SameRun(o)
  <2>1. pc[o] = "raise" /\ Activating(o) /\ raise'[o] = raise[o]
    BY <1>1 DEF SameRun, Activating
  <2>2. 2 <= raise[o] /\ \A j \in Present : priority[j] < raise[o]
    BY <1>0, <2>1 DEF ActivationsLead
  <2>3. ASSUME NEW p \in Operator, StagePost(p)
        PROVE  \A j \in Present' : priority'[j] < raise[o]
    BY <1>0, <2>2, <2>3, StagePostEffect DEF LocalOK
  <2>4. ASSUME NEW p \in Operator, Delete(p)
        PROVE  \A j \in Present' : priority'[j] < raise[o]
    BY <1>0, <2>2, <2>4, DeleteEffect
  <2> QED BY <1>1, <2>1, <2>2, <2>3, <2>4, OthersWrite, SameRealm
<1>2. CASE Snapshot(o)
  <2>1. UNCHANGED <<provider, priority>> /\ kid[o] \in Present /\ raise'[o] = Highest + 1
    BY <1>0, <1>2 DEF Snapshot, Goto, realm, LocalOK
  <2>2. Highest \in Nat /\ \A k \in Present : priority[k] <= Highest
    BY <1>0, <2>1, HighestIsHighest
  <2>3. \A k \in Present : priority[k] \in Nat /\ 1 <= priority[k]
    BY <1>0 DEF TopIsActive, TypeOK, Present
  <2> QED BY <2>1, <2>2, <2>3, SameRealm
<1>3. Activating(o)'
  BY DEF Activating
<1> QED
  BY <1>0, <1>1, <1>2, <1>3, ActivatingMoves
     DEF Check, Raise, Demote, Demoted, Activated, Goto, LocalOK

\* From the moment it is raised, the key of an activation leads until all are demoted.
LEMMA StaysOnTop ==
  ASSUME IInv, [Next]_vars, NEW o \in Operator, pc'[o] = "demote"
  PROVE  kid'[o] \in Active' /\ \A j \in Present' : priority'[j] <= priority'[kid'[o]]
<1>0. /\ LocalOK /\ TypeOK /\ Capped /\ StepsMatch /\ TopIsActive /\ HandlesExist
      /\ ActivationsLead /\ RemovalsLag
  BY TypeParts DEF IInv
<1>a. Active \subseteq Present /\ \A k \in Present : priority[k] \in Nat
  BY <1>0 DEF Active, Present, TypeOK
<1>1. CASE SameRun(o)
  <2>1. pc[o] = "demote" /\ Activating(o) /\ kid'[o] = kid[o]
    BY <1>1 DEF SameRun, Activating
  <2>2. kid[o] \in Active /\ \A j \in Present : priority[j] <= priority[kid[o]]
    BY <1>0, <2>1 DEF ActivationsLead
  <2>3. ASSUME NEW p \in Operator, StagePost(p)
        PROVE  kid[o] \in Active' /\ \A j \in Present' : priority'[j] <= priority'[kid[o]]
    BY <1>0, <1>a, <2>2, <2>3, StagePostEffect DEF TopIsActive
  <2>4. ASSUME NEW p \in Operator, Delete(p)
        PROVE  kid[o] \in Active' /\ \A j \in Present' : priority'[j] <= priority'[kid[o]]
    BY <1>0, <1>a, <2>2, <2>4, DeleteEffect
  <2> QED BY <1>1, <2>1, <2>2, <2>3, <2>4, OthersWrite, SameRealm
<1>2. CASE Snapshot(o)
  <2>1. UNCHANGED <<provider, priority>> /\ kid'[o] = kid[o] /\ kid[o] \in Present
    BY <1>2 DEF Snapshot, realm
  <2>2. kid[o] \in Active /\ (Active \ {kid[o]} = {} \/ ~(priority[kid[o]] < Highest))
    BY <1>0, <1>2 DEF Snapshot, Goto, LocalOK
  <2>3. Highest \in Nat /\ \A k \in Present : priority[k] <= Highest
    BY <1>0, <2>1, HighestIsHighest
  <2>4. \A j \in Present : priority[j] <= priority[kid[o]]
    <3>1. CASE Active \ {kid[o]} = {}
      BY <1>0, <2>2, <3>1 DEF TopIsActive
    <3>2. CASE ~(priority[kid[o]] < Highest)
      BY <1>a, <2>1, <2>3, <3>2
    <3> QED BY <2>2, <3>1, <3>2
  <2> QED BY <2>1, <2>2, <2>4, SameRealm
<1>3. CASE Raise(o)
  <2>1. kid'[o] = kid[o] /\ raise[o] \in Nat
    BY <1>0, <1>3 DEF Raise, LocalOK
  <2> QED BY <1>0, <1>a, <1>3, <2>1, RaiseEffect
<1>4. ASSUME NEW k \in Key, Demote(o, k)
      PROVE  kid'[o] \in Active' /\ \A j \in Present' : priority'[j] <= priority'[kid'[o]]
  <2>1. kid'[o] = kid[o]
    BY <1>4 DEF Demote
  <2> QED BY <1>0, <1>4, <2>1, DemoteEffect
<1>5. Activating(o)'
  BY DEF Activating
<1> QED
  BY <1>0, <1>1, <1>2, <1>3, <1>4, <1>5, ActivatingMoves
     DEF Check, Demoted, Activated, Goto, LocalOK

\* The keys an activation has still to demote are active, with the priorities it read.
LEMMA RivalsStayAsRead ==
  ASSUME IInv, [Next]_vars, NEW o \in Operator, pc'[o] \in {"raise", "demote"}
  PROVE  \A j \in others'[o] : j \in Active' /\ j # kid'[o] /\ stale'[o][j] = priority'[j]
<1>0. LocalOK /\ TypeOK /\ StepsMatch /\ HandlesExist /\ ActivationsLead /\ RemovalsLag
  BY TypeParts DEF IInv
<1>a. Active \subseteq Present
  BY DEF Active, Present
<1>b. pc[o] \in {"raise", "demote"} =>
        \A j \in others[o] : j \in Active /\ j # kid[o] /\ stale[o][j] = priority[j]
  BY <1>0 DEF ActivationsLead
<1>1. CASE SameRun(o)
  <2>1. /\ pc[o] \in {"raise", "demote"} /\ Activating(o) /\ kid'[o] = kid[o]
        /\ others'[o] = others[o] /\ stale'[o] = stale[o]
    BY <1>1 DEF SameRun, Activating
  <2>2. ASSUME NEW p \in Operator, StagePost(p)
        PROVE  \A j \in others[o] : j \in Active' /\ priority'[j] = priority[j]
    BY <1>0, <1>a, <1>b, <2>1, <2>2, StagePostEffect
  <2>3. ASSUME NEW p \in Operator, Delete(p)
        PROVE  \A j \in others[o] : j \in Active' /\ priority'[j] = priority[j]
    BY <1>0, <1>a, <1>b, <2>1, <2>3, DeleteEffect
  <2> QED BY <1>1, <1>b, <2>1, <2>2, <2>3, OthersWrite, SameRealm
<1>2. CASE Snapshot(o)
  <2>1. /\ UNCHANGED <<provider, priority>> /\ kid'[o] = kid[o]
        /\ others'[o] = Active \ {kid[o]} /\ stale'[o] = priority
    BY <1>0, <1>2 DEF Snapshot, realm, LocalOK
  <2> QED BY <2>1, SameRealm
<1>3. CASE Raise(o)
  <2>1. /\ pc[o] = "raise" /\ kid'[o] = kid[o]
        /\ others'[o] = others[o] /\ stale'[o] = stale[o]
    BY <1>3 DEF Raise, Goto, memory
  <2> QED BY <1>0, <1>a, <1>b, <1>3, <2>1, RaiseEffect
<1>4. ASSUME NEW k \in Key, Demote(o, k)
      PROVE  \A j \in others'[o] : j \in Active' /\ j # kid'[o] /\ stale'[o][j] = priority'[j]
  <2>1. /\ pc[o] = "demote" /\ kid'[o] = kid[o]
        /\ others'[o] = others[o] \ {k} /\ stale'[o] = stale[o]
    BY <1>0, <1>4 DEF Demote, Goto, LocalOK
  <2> QED BY <1>0, <1>b, <1>4, <2>1, DemoteEffect
<1>5. Activating(o)'
  BY DEF Activating
<1> QED
  BY <1>0, <1>1, <1>2, <1>3, <1>4, <1>5, ActivatingMoves
     DEF Check, Demoted, Activated, Goto, LocalOK

\* From the verification of an activation to its record its key is the only active one.
LEMMA StaysAlone ==
  ASSUME IInv, [Next]_vars, NEW o \in Operator, pc'[o] = "record", step'[o] = "activate"
  PROVE  Active' = {kid'[o]}
<1>0. LocalOK /\ TypeOK /\ StepsMatch /\ ActivationsLead /\ RemovalsLag
  BY TypeParts DEF IInv
<1>1. CASE SameRun(o)
  <2>1. Activating(o) /\ kid'[o] = kid[o] /\ Active = {kid[o]}
    BY <1>0, <1>1 DEF SameRun, Activating, ActivationsLead
  <2> QED
    BY <1>0, <1>1, <2>1, OthersWrite, SameRealm, StagePostEffect, DeleteEffect
<1>2. CASE Activated(o)
  BY <1>2, SameRealm DEF Activated, realm
<1>3. Activating(o)'
  BY DEF Activating
<1> QED
  BY <1>0, <1>1, <1>2, <1>3, ActivatingMoves
     DEF Check, Snapshot, Raise, Demote, Demoted, Goto, LocalOK

LEMMA ActivationsLeadStep ==
  ASSUME IInv, [Next]_vars
  PROVE  ActivationsLead'
  BY StaysStaged, StaysAbove, StaysOnTop, RivalsStayAsRead, StaysAlone DEF ActivationsLead

LEMMA RemovalsLagStep ==
  ASSUME IInv, [Next]_vars
  PROVE  RemovalsLag'
<1>0. /\ LocalOK /\ TypeOK /\ StepsMatch /\ Turns
      /\ HandlesExist /\ ActivationsLead /\ RemovalsLag
  BY TypeParts DEF IInv
<1> SUFFICES ASSUME NEW o \in Operator, Removing(o)'
             PROVE  kid'[o] \notin Active'
  BY DEF RemovalsLag
<1>1. CASE Find(o)
  BY <1>1, SameRealm DEF Find, realm
<1>2. CASE ~Find(o)
  <2>1. Removing(o) /\ kid'[o] = kid[o]
    <3>1. ASSUME NEW s \in Steps, NEW k \in Key
          PROVE  ~Begin(o, s, k)
      BY <1>0 DEF Begin, Goto, LocalOK, Removing
    <3>2. ~(Stop(o) \/ Staged(o) \/ Record(o))
      BY <1>0 DEF Stop, Staged, Record, End, LocalOK, Removing
    <3>3. ~(StageStep(o) /\ ~Staged(o))
      BY <1>0 DEF StageStep, Register, Permit, CheckKeystores, StageLookup, StagePost, Goto,
                  LocalOK, Removing
    <3>4. ~ActivateStep(o)
      BY <1>0 DEF ActivateStep, Snapshot, Raise, Demote, Demoted, Activated, Goto, LocalOK,
                  Removing, StepsMatch, Activating
    <3>5. ~(AgreeRegistry(o) \/ AgreeProvider(o) \/ Check(o))
      BY <1>0 DEF AgreeRegistry, AgreeProvider, Check, Goto, LocalOK, Removing
    <3>6. CASE SameRun(o)
      BY <3>6 DEF SameRun, Removing
    <3>7. CASE RemoveStep(o)
      BY <1>0, <1>2, <3>7 DEF RemoveStep, Delete, Removed, Destroy, ReadBackAbsent, Goto, Removing
    <3> QED BY <1>0, <3>1, <3>2, <3>3, <3>4, <3>5, <3>6, <3>7, RunMoves DEF Proceed
  <2>2. kid[o] \notin Active
    BY <1>0, <2>1 DEF RemovalsLag
  <2>3. ASSUME NEW p \in Operator, Raise(p)
        PROVE  kid[o] \notin Active'
    <3>1. Activating(p) /\ p # o
      BY <2>1, <2>3 DEF Raise, Goto, Activating, Removing
    <3>2. kid[o] # kid[p]
      BY <1>0, <2>1, <3>1, ActivatesAlone
    <3> QED BY <1>0, <2>2, <2>3, <3>2, RaiseEffect
  <2>4. ASSUME NEW p \in Operator, StagePost(p) \/ Delete(p)
        PROVE  kid[o] \notin Active'
    BY <1>0, <2>2, <2>4, StagePostEffect, DeleteEffect
  <2>5. ASSUME NEW p \in Operator, NEW k \in Key, Demote(p, k)
        PROVE  kid[o] \notin Active'
    BY <1>0, <2>2, <2>5, DemoteEffect
  <2> QED BY <2>1, <2>2, <2>3, <2>4, <2>5, RealmWrites, SameRealm
<1> QED BY <1>1, <1>2

LEMMA DemotedStep ==
  ASSUME IInv, [Next]_vars
  PROVE  DemotedKeysStayPassive'
<1>0. /\ LocalOK /\ TypeOK /\ HandlesExist
      /\ ActivationsLead /\ RemovalsLag /\ DemotedKeysStayPassive
  BY TypeParts DEF IInv
<1>1. ASSUME NEW o \in Operator, Record(o)
      PROVE  DemotedKeysStayPassive'
  <2>1. Active' = Active /\ Active \subseteq Key
    BY <1>1, SameRealm DEF Record, realm, Active
  <2>2. CASE step[o] = "activate"
    <3>1. Active = {kid[o]}
      BY <1>0, <1>1, <2>2 DEF Record, ActivationsLead
    <3> QED BY <1>0, <1>1, <2>1, <2>2, <3>1 DEF Record, To, DemotedKeysStayPassive
  <2>3. CASE step[o] # "activate"
    <3>1. kid[o] \notin Active
      BY <1>0, <1>1, <2>3 DEF Record, RemovalsLag, Removing
    <3> QED BY <1>0, <1>1, <2>1, <2>3, <3>1 DEF Record, DemotedKeysStayPassive
  <2> QED BY <2>2, <2>3
<1>2. ASSUME NEW o \in Operator, Register(o)
      PROVE  DemotedKeysStayPassive'
  <2>1. Active' = Active /\ Active \subseteq Key
    BY <1>2, SameRealm DEF Register, realm, Active
  <2>2. \A k \in Key : registry'[k] = registry[k] \/ registry'[k] = "staged"
    BY <1>0, <1>2 DEF Register, TypeOK
  <2> QED BY <1>0, <2>1, <2>2 DEF DemotedKeysStayPassive
<1>3. CASE UNCHANGED registry
  <2>1. ASSUME NEW o \in Operator, StagePost(o) \/ Raise(o) \/ Delete(o)
        PROVE  DemotedKeysStayPassive'
    BY <1>0, <1>3, <2>1, StagePostEffect, RaiseEffect, DeleteEffect DEF DemotedKeysStayPassive
  <2>2. ASSUME NEW o \in Operator, NEW k \in Key, Demote(o, k)
        PROVE  DemotedKeysStayPassive'
    BY <1>0, <1>3, <2>2, DemoteEffect DEF DemotedKeysStayPassive
  <2> QED BY <1>0, <1>3, <2>1, <2>2, RealmWrites, SameRealm DEF DemotedKeysStayPassive
<1> QED BY <1>1, <1>2, <1>3, RegistryWrites

-----------------------------------------------------------------------------
(* The theorems. *)

\* The realm as realm-apply leaves it, and no run: types hold at the start.
LEMMA TypesInit == Init => TypeOK /\ Capped /\ StepsMatch
<1> SUFFICES ASSUME Init
             PROVE  TypeOK /\ Capped /\ StepsMatch
  OBVIOUS
<1>1. TypeOK
  <2>1. [k \in Key |-> 0] \in [Key -> Nat]
    OBVIOUS
  <2>2. stale \in [Operator -> [Key -> Nat]]
    BY <2>1 DEF Init
  <2> QED
    BY <2>2, RotationAssumption
       DEF Init, TypeOK, RegistryStates, ProviderStates, KeyFiles, Steps, PCs
<1>2. Capped
  BY RotationAssumption DEF Init, Capped
<1>3. \A o \in Operator : pc[o] = "idle"
  BY DEF Init
<1>4. StepsMatch
  BY <1>3 DEF StepsMatch, Activating, Removing
<1> QED BY <1>1, <1>2, <1>4

\* However the runs of any operators interleave, every variable keeps its type, and a
\* run is where its step goes.
THEOREM TypesHold == Spec => [](TypeOK /\ Capped /\ StepsMatch)
<1>1. TypeOK /\ Capped /\ StepsMatch /\ [Next]_vars => (TypeOK /\ Capped /\ StepsMatch)'
  <2> SUFFICES ASSUME TypeOK, Capped, StepsMatch, [Next]_vars
               PROVE  (TypeOK /\ Capped /\ StepsMatch)'
    OBVIOUS
  <2>1. TypeOK'
    BY LocalStep, SharedStep DEF TypeOK, LocalOK, SharedOK
  <2> QED BY <2>1, CappedStep, StepsMatchStep
<1> QED BY <1>1, TypesInit, PTL DEF Spec

\* Every variable keeps its type.
THEOREM TypeCorrect == Spec => []TypeOK
<1> QED BY TypesHold, PTL

\* The realm as realm-apply leaves it, and no run: the invariant holds at the start.
LEMMA IInvInit == Init => IInv
<1> SUFFICES ASSUME Init
             PROVE  IInv
  OBVIOUS
<1>1. TypeOK /\ Capped /\ StepsMatch
  BY TypesInit
<1>2. Active = {FirstKey} /\ Present = {FirstKey} /\ priority[FirstKey] = 1
  BY RotationAssumption DEF Init, Active, Present
<1>3. ActiveLoadable /\ TopIsActive /\ OneKeySigns /\ DemotedKeysStayPassive
  BY <1>2, RotationAssumption
     DEF Init, ActiveLoadable, Loadable, KeyFiles, TopIsActive, OneKeySigns,
         DemotedKeysStayPassive
<1>4. /\ \A o \in Operator : pc[o] = "idle" /\ step[o] = "stage" /\ handle[o] = {}
  BY DEF Init
<1>5. Turns /\ HandlesExist /\ ActivationsLead /\ RemovalsLag
  BY <1>4 DEF Turns, HandlesExist, ActivationsLead, RemovalsLag, Activating, Removing
<1> QED BY <1>1, <1>3, <1>5 DEF IInv

\* The inductive invariant holds in every behaviour of disciplined operators, wherever
\* their runs stop (scripts/signing-key-rotation.sh, internal/realmdef/signingkey.go).
THEOREM InvariantHolds == ASSUME Disciplined PROVE Spec => []IInv
<1>1. IInv /\ [Next]_vars => IInv'
  <2> SUFFICES ASSUME IInv, [Next]_vars
               PROVE  IInv'
    OBVIOUS
  <2>0. TypeOK /\ Capped /\ StepsMatch /\ HandlesExist
    BY DEF IInv
  <2>1. TypeOK'
    BY <2>0, LocalStep, SharedStep DEF TypeOK, LocalOK, SharedOK
  <2>2. Capped' /\ StepsMatch'
    BY <2>0, CappedStep, StepsMatchStep
  <2> QED
    BY <2>0, <2>1, <2>2, TurnsStep, ActiveLoadableStep, TopIsActiveStep, HandlesExistStep,
       ActivationsLeadStep, RemovalsLagStep, DemotedStep DEF IInv
<1> QED BY <1>1, IInvInit, PTL DEF Spec

\* "So no moment has no active key" (ActivateSigningKey), whichever steps fail or stop.
THEOREM AlwaysAnActiveKey == ASSUME Disciplined PROVE Spec => []NoMomentWithoutActiveKey
<1>1. IInv => NoMomentWithoutActiveKey
  BY DEF IInv, TopIsActive, ActiveLoadable, Serving, NoMomentWithoutActiveKey
<1> QED BY <1>1, InvariantHolds, PTL

\* No two active keys ever share a priority, so which of them signs is never in doubt.
THEOREM OneKeyAlwaysSigns == ASSUME Disciplined PROVE Spec => []OneKeySigns
<1>1. IInv => OneKeySigns
  BY DEF IInv
<1> QED BY <1>1, InvariantHolds, PTL

\* A key the registry has demoted is never active in the realm again.
THEOREM NoDemotedKeySigns == ASSUME Disciplined PROVE Spec => []DemotedKeysStayPassive
<1>1. IInv => DemotedKeysStayPassive
  BY DEF IInv
<1> QED BY <1>1, InvariantHolds, PTL

\* A key starts signing only while the registry has it staged and the realm publishes it.
THEOREM StagedBeforeSigning == ASSUME Disciplined PROVE Spec => OnlyStagedKeysStartSigning
<1>1. /\ IInv  => Top = {k \in Active : \A j \in Active : priority[j] <= priority[k]}
      /\ IInv' => Top' = {k \in Active' : \A j \in Active' : priority'[j] <= priority'[k]}
  BY DEF IInv, ActiveLoadable, Serving, Top
<1>2. ASSUME IInv, IInv', [Next]_vars
      PROVE  \A k \in Top' \ Top : registry[k] = "staged" /\ k \in Present
  <2>0. /\ TypeOK /\ OneKeySigns /\ HandlesExist /\ ActivationsLead /\ RemovalsLag
    BY <1>2 DEF IInv
  <2>a. Active \subseteq Present /\ \A k \in Present : priority[k] \in Nat
    BY <2>0 DEF Active, Present, TypeOK
  <2>1. /\ Top = {k \in Active : \A j \in Active : priority[j] <= priority[k]}
        /\ Top' = {k \in Active' : \A j \in Active' : priority'[j] <= priority'[k]}
    BY <1>1, <1>2
  <2>2. ASSUME NEW o \in Operator, StagePost(o) \/ Delete(o)
        PROVE  Top' = Top
    <3>1. Active' = Active /\ \A j \in Active : priority'[j] = priority[j]
      BY <2>0, <2>a, <2>2, StagePostEffect, DeleteEffect
    <3> QED BY <2>1, <3>1
  <2>3. ASSUME NEW o \in Operator, Raise(o)
        PROVE  \A k \in Top' : registry[k] = "staged" /\ k \in Present
    <3>1. raise[o] \in Nat
      BY <2>0 DEF TypeOK
    <3>2. Top' \subseteq {kid[o]}
      BY <2>0, <2>a, <2>1, <2>3, <3>1, RaiseEffect
    <3> QED BY <2>0, <2>3, <3>2, RaiseEffect
  <2>4. ASSUME NEW o \in Operator, NEW k \in Key, Demote(o, k)
        PROVE  Top' \subseteq Top
    <3>1. Top' \subseteq {kid[o]}
      BY <2>0, <2>a, <2>1, <2>4, DemoteEffect DEF OneKeySigns
    <3>2. kid[o] \in Top
      BY <2>0, <2>a, <2>1, <2>4, DemoteEffect
    <3> QED BY <3>1, <3>2
  <2>5. CASE UNCHANGED <<provider, priority>>
    BY <2>1, <2>5, SameRealm
  <2> QED BY <1>2, <2>2, <2>3, <2>4, <2>5, RealmWrites
<1>3. IInv /\ IInv' /\ [Next]_vars
        => [\A k \in Top' \ Top : registry[k] = "staged" /\ k \in Present]_vars
  BY <1>2
<1> QED BY <1>3, InvariantHolds, PTL DEF Spec, OnlyStagedKeysStartSigning

=============================================================================
