------------------------ MODULE SigningKeySetProofs -------------------------
(***************************************************************************)
(* The proof that the rotation steps implement what the consumers of the   *)
(* realm's key set are promised (PublishedKeySet), for any keys and        *)
(* operators, while runs take turns as Disciplined and FilesApart say; and *)
(* that in time (SigningKeyWindows) a retirement outlasts the tokens.      *)
(***************************************************************************)
EXTENDS SigningKeyFilesProofs, SigningKeyWindows

\* The refinement mapping of SigningKeyRotation, by name.
Signer == CHOOSE k \in Top : TRUE
Past   == {k \in Key : registry[k] \in {"retiring", "retired", "revoked"}}
Gone   == {k \in Key : registry[k] \in {"retired", "revoked"}}

\* The registry has one active key at most: each activation demotes the one before.
OneRegistered ==
  \A j, k \in Key : registry[j] = "active" /\ registry[k] = "active" => j = k

LEMMA OneRegisteredStep ==
  ASSUME TypeOK, OneRegistered, [Next]_vars
  PROVE  OneRegistered'
<1>1. ASSUME NEW o \in Operator, Register(o)
      PROVE  OneRegistered'
  BY <1>1 DEF Register, TypeOK, OneRegistered
<1>2. ASSUME NEW o \in Operator, Record(o)
      PROVE  OneRegistered'
  BY <1>2 DEF Record, To, TypeOK, OneRegistered
<1> QED BY <1>1, <1>2, RegistryWrites DEF OneRegistered

THEOREM OneRegisteredHolds == Spec => []OneRegistered
<1>1. Init => OneRegistered
  BY DEF Init, OneRegistered
<1>2. OneRegistered /\ TypeOK /\ [Next]_vars => OneRegistered'
  BY OneRegisteredStep
<1> QED BY <1>1, <1>2, TypeCorrect, PTL DEF Spec

-----------------------------------------------------------------------------

\* One key signs: the active one of the highest priority.
LEMMA SignerLeads ==
  ASSUME IInv
  PROVE  /\ Top = {Signer} /\ Signer \in Active
         /\ \A j \in Active : priority[j] <= priority[Signer]
<1>1. Top = {k \in Active : \A j \in Active : priority[j] <= priority[k]}
  BY DEF IInv, ActiveLoadable, Serving, Top
<1>2. \E k \in Active : \A j \in Active : priority[j] <= priority[k]
  BY DEF IInv, TopIsActive, Active, Present
<1>3. \A k \in Active : priority[k] \in Nat
  BY DEF IInv, TypeOK, Active
<1>4. \A j, k \in Top : j = k
  BY <1>1, <1>3 DEF IInv, OneKeySigns
<1>5. Signer \in Top
  BY <1>1, <1>2 DEF Signer
<1> QED BY <1>1, <1>4, <1>5

\* A step that writes no provider leaves the key set and its signer as they are.
LEMMA SameKeySet ==
  ASSUME IInv, IInv', UNCHANGED <<provider, priority>>
  PROVE  Present' = Present /\ Signer' = Signer
<1>1. Present' = Present /\ Active' = Active
  BY SameRealm
<1>2. /\ Top  = {k \in Active  : \A j \in Active  : priority[j]  <= priority[k]}
      /\ Top' = {k \in Active' : \A j \in Active' : priority'[j] <= priority'[k]}
  BY DEF IInv, ActiveLoadable, Serving, Top
<1>3. Top' = Top
  BY <1>1, <1>2
<1> QED BY <1>1, <1>3 DEF Signer

\* The signer after a step, by what it leads.
LEMMA NextSigner ==
  ASSUME IInv', NEW k \in Active', \A j \in Active' : priority'[j] <= priority'[k]
  PROVE  Signer' = k
<1>1. Top' = {i \in Active' : \A j \in Active' : priority'[j] <= priority'[i]}
  BY DEF IInv, ActiveLoadable, Serving, Top
<1>2. \A j \in Active' : priority'[j] \in Nat
  BY DEF IInv, TypeOK, Active
<1>3. Top' = {k}
  BY <1>1, <1>2 DEF IInv, OneKeySigns
<1> QED BY <1>3 DEF Signer

-----------------------------------------------------------------------------

\* Each write of a provider is a step of the key set, or leaves it as it is.
LEMMA RealmRefines ==
  ASSUME IInv, IInv', FilesInv, RecordsInv, [Next]_vars, UNCHANGED registry
  PROVE  \/ KeySet!Next
         \/ UNCHANGED <<Present, Signer, Past, Gone>>
<1>0. /\ TypeOK /\ OneKeySigns /\ HandlesExist /\ ActivationsLead /\ RemovalsLag
      /\ RecordedFilesAreGone
  BY DEF IInv, RecordsInv
<1>a. Active \subseteq Present /\ \A k \in Present : priority[k] \in Nat
  BY <1>0 DEF Active, Present, TypeOK
<1>b. Past' = Past /\ Gone' = Gone
  BY DEF Past, Gone
<1>c. /\ Signer \in Active /\ \A j \in Active : priority[j] <= priority[Signer]
  BY SignerLeads
<1>1. ASSUME NEW o \in Operator, StagePost(o)
      PROVE  KeySet!Next
  <2>1. /\ Present' = Present \cup {kid[o]} /\ kid[o] \notin Present /\ kid[o] \in Key
        /\ Active' = Active /\ \A j \in Active : priority'[j] = priority[j]
    BY <1>0, <1>a, <1>1, StagePostEffect DEF TypeOK
  <2>2. kid[o] \notin Gone
    BY <1>0, <1>1 DEF StagePost, Loadable, RecordedFilesAreGone, Gone
  <2>3. Signer' = Signer
    BY <1>c, <2>1, NextSigner
  <2>4. KeySet!Publish(kid[o])
    BY <1>b, <2>1, <2>2, <2>3 DEF KeySet!Publish, Signer, Past, Gone
  <2> QED BY <2>1, <2>4 DEF KeySet!Next
<1>2. ASSUME NEW o \in Operator, Raise(o)
      PROVE  KeySet!Next
  <2>1. /\ Present' = Present /\ Active' = Active \cup {kid[o]}
        /\ kid[o] \in Present /\ kid[o] \in Key /\ registry[kid[o]] = "staged"
        /\ priority'[kid[o]] = raise[o] /\ raise[o] \in Nat
        /\ \A j \in Present : priority[j] < raise[o]
        /\ \A j \in Present \ {kid[o]} : priority'[j] = priority[j]
    BY <1>0, <1>2, RaiseEffect DEF TypeOK
  <2>2. Signer' = kid[o]
    BY <1>a, <2>1, NextSigner
  <2>3. kid[o] \notin Past
    BY <2>1 DEF Past
  <2>4. KeySet!Switch(kid[o])
    BY <1>b, <2>1, <2>2, <2>3 DEF KeySet!Switch, Signer, Past, Gone
  <2> QED BY <2>1, <2>4 DEF KeySet!Next
<1>3. ASSUME NEW o \in Operator, NEW k \in Key, Demote(o, k)
      PROVE  UNCHANGED <<Present, Signer, Past, Gone>>
  <2>1. /\ Present' = Present /\ Active' = Active \ {k} /\ priority' = priority
        /\ k # kid[o] /\ kid[o] \in Active
        /\ \A j \in Present : priority[j] <= priority[kid[o]]
    BY <1>0, <1>3, DemoteEffect
  <2>2. Signer = kid[o]
    BY <1>0, <1>a, <1>c, <2>1 DEF OneKeySigns
  <2>3. Signer' = kid[o]
    BY <1>a, <2>1, NextSigner
  <2> QED BY <1>b, <2>1, <2>2, <2>3
<1>4. ASSUME NEW o \in Operator, Delete(o)
      PROVE  KeySet!Next
  <2>1. /\ Present' = Present \ {kid[o]} /\ kid[o] \notin Active /\ kid[o] \in Key
        /\ Active' = Active /\ \A j \in Active : priority'[j] = priority[j]
    BY <1>0, <1>a, <1>4, DeleteEffect DEF TypeOK
  <2>2. kid[o] \in Present
    BY <1>0, <1>4 DEF Delete, HandlesExist
  <2>3. Signer' = Signer
    BY <1>c, <2>1, NextSigner
  <2>4. KeySet!Withdraw(kid[o])
    BY <1>b, <1>c, <2>1, <2>2, <2>3 DEF KeySet!Withdraw, Signer, Past, Gone
  <2> QED BY <2>1, <2>4 DEF KeySet!Next
<1>5. CASE UNCHANGED <<provider, priority>>
  BY <1>b, <1>5, SameKeySet
<1> QED BY <1>1, <1>2, <1>3, <1>4, <1>5, RealmWrites

\* Each record is the end of a key's turn, or of the key, or leaves the key set as it is.
LEMMA RecordRefines ==
  ASSUME IInv, IInv', FilesInv, OneRegistered, NEW o \in Operator, Record(o)
  PROVE  \/ KeySet!Next
         \/ UNCHANGED <<Present, Signer, Past, Gone>>
<1>0. TypeOK /\ ActivationsLead /\ OutOfKeySet /\ kid[o] \in Key /\ pc[o] = "record"
  BY DEF IInv, FilesInv, Record, TypeOK
<1>1. Present' = Present /\ Signer' = Signer
  BY SameKeySet DEF Record, realm
<1>2. CASE step[o] = "activate"
  <2>1. /\ registry[kid[o]] = "staged"
        /\ Signer = kid[o]
    BY <1>0, <1>2, SignerLeads DEF ActivationsLead, Activating
  <2>2. \A k \in Key : registry'[k] = IF k = kid[o] THEN "active"
                                      ELSE IF registry[k] = "active" THEN "retiring"
                                      ELSE registry[k]
    BY <1>2 DEF Record, To
  <2>3. Gone' = Gone
    BY <2>1, <2>2 DEF Gone
  <2>4. ASSUME NEW k \in Key, registry[k] = "active"
        PROVE  KeySet!Next
    <3>1. k # kid[o] /\ k # Signer
      BY <2>1, <2>4
    <3>2. Past' = Past \cup {k}
      BY <2>1, <2>2, <2>4, <3>1 DEF Past, OneRegistered
    <3>3. KeySet!Demote(k)
      BY <1>1, <2>3, <3>1, <3>2 DEF KeySet!Demote, Signer, Past, Gone
    <3> QED BY <3>3 DEF KeySet!Next
  <2>5. ASSUME \A k \in Key : registry[k] # "active"
        PROVE  Past' = Past
    BY <2>1, <2>2, <2>5 DEF Past
  <2> QED BY <1>1, <2>3, <2>4, <2>5
<1>3. CASE step[o] # "activate"
  <2>1. PICK k \in Key : k = kid[o]
    BY <1>0
  <2>2. k \notin Present
    BY <1>0, <1>3, <2>1 DEF OutOfKeySet
  <2>3. \A j \in Key : registry'[j] = IF j = k THEN To(step[o]) ELSE registry[j]
    BY <1>3, <2>1 DEF Record
  <2>4. To(step[o]) \in {"retired", "revoked"}
    BY <1>3 DEF To
  <2>5. Past' = Past \cup {k} /\ Gone' = Gone \cup {k}
    BY <2>3, <2>4 DEF Past, Gone
  <2>6. KeySet!Bury(k)
    BY <1>1, <2>2, <2>5 DEF KeySet!Bury, Signer, Past, Gone
  <2> QED BY <2>6 DEF KeySet!Next
<1> QED BY <1>2, <1>3

\* The steps of any number of operators on any keys implement the key set its consumers
\* are promised: the signer changes only to a key already published and never demoted,
\* only another key leaves the set, and no recorded end is undone.
THEOREM KeySetIsKept == ASSUME Disciplined, FilesApart PROVE Spec => ImplementsKeySet
<1>1. Init => KeySet!Init
  <2> SUFFICES ASSUME Init
               PROVE  KeySet!Init
    OBVIOUS
  <2>1. IInv
    BY IInvInit
  <2>2. Present = {FirstKey} /\ Active = {FirstKey}
    BY RotationAssumption DEF Init, Present, Active
  <2>3. Signer = FirstKey
    BY <2>1, <2>2, SignerLeads
  <2>4. Past = {} /\ Gone = {}
    BY RotationAssumption DEF Init, Past, Gone
  <2> QED BY <2>2, <2>3, <2>4 DEF KeySet!Init, Signer, Past, Gone
<1>2. ASSUME IInv, IInv', FilesInv, RecordsInv, OneRegistered, [Next]_vars
      PROVE  \/ KeySet!Next
             \/ UNCHANGED <<Present, Signer, Past, Gone>>
  <2>1. ASSUME NEW o \in Operator, Register(o)
        PROVE  UNCHANGED <<Present, Signer, Past, Gone>>
    <3>1. Present' = Present /\ Signer' = Signer
      BY <1>2, <2>1, SameKeySet DEF Register, realm
    <3>2. \A k \in Key : \/ registry'[k] = registry[k]
                         \/ registry[k] = "none" /\ registry'[k] = "staged"
      BY <1>2, <2>1 DEF IInv, TypeOK, Register
    <3> QED BY <3>1, <3>2 DEF Past, Gone
  <2>2. ASSUME NEW o \in Operator, Record(o)
        PROVE  KeySet!Next \/ UNCHANGED <<Present, Signer, Past, Gone>>
    BY <1>2, <2>2, RecordRefines
  <2> QED BY <1>2, <2>1, <2>2, RealmRefines, RegistryWrites
<1>3. IInv /\ IInv' /\ FilesInv /\ RecordsInv /\ OneRegistered /\ [Next]_vars
      => [KeySet!Next]_<<Present, CHOOSE k \in Top : TRUE,
           {k \in Key : registry[k] \in {"retiring", "retired", "revoked"}},
           {k \in Key : registry[k] \in {"retired", "revoked"}}>>
  BY <1>2 DEF Signer, Past, Gone
<1> QED
  BY <1>1, <1>3, InvariantHolds, FilesInvHolds, RecordsInvHolds, OneRegisteredHolds, PTL
     DEF Spec, ImplementsKeySet, KeySet!Spec


-----------------------------------------------------------------------------
(* In time: what a retirement's window leaves to be verified. *)

\* There is a longest lifetime, and every window is a number.
LEMMA LongestIsLongest ==
  /\ Longest \in Nat /\ \A n \in Lifetimes : n \in Nat /\ n <= Longest
  /\ CacheWindow \in Nat /\ RetirementWindow \in Nat /\ Margin \in Nat
<1>1. Longest \in Lifetimes /\ \A n \in Lifetimes : n <= Longest
  BY WindowsAssumption DEF Longest
<1> QED BY <1>1, WindowsAssumption

\* Time passes between the steps and changes none of what they read but the clocks.
LEMMA StepsInTime ==
  ASSUME [WindowsNext]_windowVars
  PROVE  /\ [Next]_vars
         /\ \/ Clocks
            \/ Tick
            \/ \E n \in Lifetimes : SetLifespan(n)
            \/ UNCHANGED windowVars
  BY DEF WindowsNext, windowVars, Next, Tick, SetLifespan

\* Whatever the clocks say, the steps are those of the rotation.
LEMMA RotatesInTime == WindowsSpec => Spec
<1>1. WindowsInit => Init
  BY DEF WindowsInit
<1>2. [WindowsNext]_windowVars => [Next]_vars
  BY StepsInTime
<1> QED BY <1>1, <1>2, PTL DEF WindowsSpec, Spec

\* The clocks stay within the windows.
ClocksOK ==
  /\ age   \in [Key -> 0..RetirementWindow]
  /\ shown \in [Key -> 0..CacheWindow]
  /\ live  \in [Key -> 0..(Longest + Margin)]
  /\ lifespan \in Lifetimes

\* They start within them.
LEMMA ClocksInit == WindowsInit => ClocksOK
  BY LongestIsLongest DEF WindowsInit, ClocksOK

\* A lifetime that is raised raises no clock beyond the longest.
LEMMA ClocksStep == ASSUME ClocksOK, [WindowsNext]_windowVars PROVE ClocksOK'
<1> USE LongestIsLongest DEF ClocksOK
<1>1. lifespan \in Nat /\ lifespan <= Longest
  OBVIOUS
<1>2. CASE Clocks
  BY <1>1, <1>2 DEF Clocks
<1>3. CASE Tick
  BY <1>3 DEF Tick
<1>4. ASSUME NEW n \in Lifetimes, SetLifespan(n) PROVE ClocksOK'
  <2>1. n \in Nat /\ n <= Longest
    OBVIOUS
  <2> QED BY <1>4, <2>1 DEF SetLifespan
<1>5. CASE UNCHANGED windowVars
  BY <1>5 DEF windowVars, clocks
<1> QED BY <1>2, <1>3, <1>4, <1>5, StepsInTime

\* The clocks of check and windows (retirement.go) and the steps they are read by keep their
\* types at any pace of time and through any change of lifetimes.
THEOREM WindowTypes == WindowsSpec => []WindowsTypeOK
<1>1. ClocksOK /\ [WindowsNext]_windowVars => ClocksOK'
  BY ClocksStep
<1>2. TypeOK /\ ClocksOK => WindowsTypeOK
  BY DEF ClocksOK, WindowsTypeOK
<1> QED BY <1>1, <1>2, ClocksInit, RotatesInTime, TypeCorrect, PTL DEF WindowsSpec

\* What a key signed outlives neither a floor nor, once the key is demoted, what is left of it.
Fading ==
  \A k \in Key :
    /\ live[k] <= lifespan + Margin
    /\ registry[k] = "retiring" /\ live[k] > 0 => live[k] + age[k] <= lifespan + Margin

\* A retirement past its check is of a key that signs no more and whose tokens have expired.
RetiresSilent ==
  \A o \in Operator : Leaving(o) /\ step[o] = "retire" => kid[o] \in Past /\ live[kid[o]] = 0

\* No demoted key signs, so what it signed only grows older.
LEMMA PastKeysDoNotSign == ASSUME IInv PROVE \A k \in Past : k \notin Top
  BY DEF IInv, DemotedKeysStayPassive, Past, Top, Serving

\* A retiring key's age and what is left of its tokens add up to a floor at most: each tick
\* moves one to the other, and a lifetime that rises only raises the floor.
LEMMA FadingStep ==
  ASSUME ~Lowering, IInv, IInv', ClocksOK, Fading, [WindowsNext]_windowVars
  PROVE  Fading'
<1> SUFFICES ASSUME NEW k \in Key
             PROVE  /\ live'[k] <= lifespan' + Margin
                    /\ registry'[k] = "retiring" /\ live'[k] > 0 => live'[k] + age'[k] <= lifespan' + Margin
  BY DEF Fading
<1>0. /\ live[k] \in Nat /\ age[k] \in Nat /\ lifespan \in Nat /\ Margin \in Nat
      /\ live[k] <= lifespan + Margin
      /\ registry[k] = "retiring" /\ live[k] > 0 => live[k] + age[k] <= lifespan + Margin
  BY LongestIsLongest DEF ClocksOK, Fading
<1>1. registry'[k] = "retiring" => k \notin Top'
  BY PastKeysDoNotSign DEF IInv, DemotedKeysStayPassive, Top, Serving
<1>2. CASE Clocks
  <2>1. /\ age'[k] = IF registry'[k] = registry[k] THEN age[k] ELSE 0
        /\ live'[k] = IF k \in Top' THEN lifespan + Margin ELSE live[k]
        /\ lifespan' = lifespan
    BY <1>2 DEF Clocks
  <2> QED BY <1>0, <1>1, <2>1
<1>3. CASE Tick
  <2>1. /\ age'[k] = IF age[k] < RetirementWindow THEN age[k] + 1 ELSE age[k]
        /\ live'[k] = IF k \in Top \/ live[k] = 0 THEN live[k] ELSE live[k] - 1
        /\ lifespan' = lifespan /\ registry' = registry
    BY <1>3 DEF Tick, vars
  <2>2. registry[k] = "retiring" => k \notin Top
    BY DEF IInv, DemotedKeysStayPassive, Top, Serving
  <2> QED BY <1>0, <2>1, <2>2
<1>4. ASSUME NEW n \in Lifetimes, SetLifespan(n)
      PROVE  /\ live'[k] <= lifespan' + Margin
             /\ registry'[k] = "retiring" /\ live'[k] > 0 => live'[k] + age'[k] <= lifespan' + Margin
  <2>1. /\ live'[k] = IF k \in Top /\ live[k] < n + Margin THEN n + Margin ELSE live[k]
        /\ age' = age /\ lifespan' = n /\ registry' = registry /\ n > lifespan /\ n \in Nat
    BY <1>4, LongestIsLongest DEF SetLifespan, vars
  <2>2. registry[k] = "retiring" => k \notin Top
    BY DEF IInv, DemotedKeysStayPassive, Top, Serving
  <2> QED BY <1>0, <2>1, <2>2
<1>5. CASE UNCHANGED windowVars
  BY <1>0, <1>5 DEF windowVars, clocks, vars
<1> QED BY <1>2, <1>3, <1>4, <1>5, StepsInTime

\* No transition of the registry takes a key back.
LEMMA PastStays == ASSUME TypeOK, [Next]_vars PROVE Past \subseteq Past'
<1>1. ASSUME NEW o \in Operator, Register(o) PROVE Past \subseteq Past'
  BY <1>1 DEF Register, TypeOK, Past
<1>2. ASSUME NEW o \in Operator, Record(o) PROVE Past \subseteq Past'
  BY <1>2 DEF Record, TypeOK, Past, From, To
<1> QED BY <1>1, <1>2, RegistryWrites DEF Past

\* A call moves one run on.
LEMMA OneRunMoves ==
  ASSUME NEW p \in Operator, Proceed(p)
  PROVE  \E at : pc' = [pc EXCEPT ![p] = at]
<1>1. CASE StageStep(p) \/ Record(p)
  BY <1>1 DEF StageStep, Register, Permit, CheckKeystores, StageLookup, StagePost, Staged, Record, Goto, End
<1>2. CASE ActivateStep(p)
  BY <1>2 DEF ActivateStep, Snapshot, Raise, Demote, Demoted, Activated, Goto
<1>3. CASE RemoveStep(p)
  BY <1>3 DEF RemoveStep, Find, Delete, Removed, Destroy, ReadBackAbsent, Goto
<1>4. CASE AgreeRegistry(p) \/ AgreeProvider(p) \/ Check(p)
  BY <1>4 DEF AgreeRegistry, AgreeProvider, Check, Goto
<1> QED BY <1>1, <1>2, <1>3, <1>4 DEF Proceed

\* No run, no step.
IdleIsClear == \A o \in Operator : pc[o] = "idle" => step[o] = "stage"

\* A run that ends leaves no step behind.
LEMMA IdleIsClearStep == ASSUME LocalOK, IdleIsClear, [Next]_vars PROVE IdleIsClear'
<1> SUFFICES ASSUME NEW o \in Operator, pc'[o] = "idle" PROVE step'[o] = "stage"
  BY DEF IdleIsClear
<1>1. CASE SameRun(o)
  BY <1>1 DEF SameRun, IdleIsClear
<1>2. ASSUME NEW s \in Steps, NEW k \in Key PROVE ~Begin(o, s, k)
  BY DEF Begin, Goto, LocalOK
<1>3. CASE Stop(o) \/ Staged(o) \/ Record(o)
  BY <1>3 DEF Stop, Staged, Record, End, LocalOK
<1>4. ~(Proceed(o) /\ ~Staged(o) /\ ~Record(o))
  BY DEF Proceed, StageStep, ActivateStep, RemoveStep, Register, Permit, CheckKeystores, StageLookup, StagePost,
     AgreeRegistry, AgreeProvider, Check, Snapshot, Raise, Demote, Demoted, Activated, Find, Delete, Removed,
     Destroy, ReadBackAbsent, Goto, LocalOK
<1> QED BY <1>1, <1>2, <1>3, <1>4, RunMoves

\* The check of a retirement passes a key whose age has reached the floor, hence with nothing
\* left to verify; and nothing is signed with it between the check and the removal.
LEMMA RetiresSilentStep ==
  ASSUME IInv, IInv', ClocksOK, Fading, RetiresSilent, [WindowsNext]_windowVars
  PROVE  RetiresSilent'
<1>0. [Next]_vars /\ TypeOK /\ LocalOK /\ StepsMatch
  BY StepsInTime, TypeParts DEF IInv
<1> SUFFICES ASSUME NEW o \in Operator, Leaving(o)', step'[o] = "retire"
             PROVE  kid'[o] \in Past' /\ live'[kid'[o]] = 0
  BY DEF RetiresSilent
<1>1. kid'[o] = kid[o] /\ kid[o] \in Key /\ step'[o] = step[o]
  BY <1>0, LeavingMoves DEF LocalOK, SameRun, Check, Find, Delete, Removed, Destroy, ReadBackAbsent
<1>2. kid[o] \in Past /\ live[kid[o]] = 0
  <2>1. CASE Check(o)
    <3>1. pc[o] = "check" /\ pc'[o] \in {"snapshot", "find"}
      BY <1>0, <2>1 DEF Check, Goto, LocalOK
    <3>2. WaitIsOver(o)
      <4>1. ASSUME NEW p \in Operator, Proceed(p) PROVE p = o
        BY <1>0, <3>1, <4>1, OneRunMoves DEF LocalOK
      <4>2. ASSUME NEW p \in Operator, Stop(p) \/ \E s \in Steps, k \in Key : Begin(p, s, k) PROVE FALSE
        BY <1>0, <3>1, <4>2 DEF LocalOK, Stop, End, Begin, Goto
      <4>3. ~ UNCHANGED pc
        BY <3>1
      <4> QED BY <3>1, <4>1, <4>2, <4>3 DEF WindowsNext, windowVars, vars, Tick, SetLifespan, Ceremony
    <3>3. registry[kid[o]] = "retiring" /\ lifespan + Margin <= age[kid[o]]
      <4>1. /\ lifespan + Margin <= RetirementWindow /\ age[kid[o]] >= RetirementWindow
            /\ registry[kid[o]] = "retiring"
        BY <1>1, <2>1, <3>2 DEF WaitIsOver, RetirementFloor, Check, From
      <4>2. lifespan \in Nat /\ Margin \in Nat /\ RetirementWindow \in Nat /\ age[kid[o]] \in Nat
        BY <1>1, LongestIsLongest DEF ClocksOK
      <4> QED BY <4>1, <4>2
    <3>4. live[kid[o]] \in Nat /\ age[kid[o]] \in Nat /\ lifespan \in Nat /\ Margin \in Nat
      BY <1>1, LongestIsLongest DEF ClocksOK
    <3> QED BY <1>1, <3>3, <3>4 DEF Fading, Past
  <2>2. CASE Leaving(o)
    BY <1>1, <2>2 DEF RetiresSilent
  <2> QED BY <1>0, <2>1, <2>2, LeavingMoves
<1>3. kid[o] \in Past' /\ kid[o] \notin Top /\ kid[o] \notin Top'
  BY <1>0, <1>2, PastStays, PastKeysDoNotSign DEF IInv, DemotedKeysStayPassive, Past, Top, Serving
<1>4. live'[kid[o]] = 0
  <2>1. CASE Clocks
    BY <1>1, <1>2, <1>3, <2>1 DEF Clocks
  <2>2. CASE Tick
    BY <1>1, <1>2, <2>2 DEF Tick
  <2>3. ASSUME NEW n \in Lifetimes, SetLifespan(n) PROVE live'[kid[o]] = 0
    BY <1>1, <1>2, <1>3, <2>3 DEF SetLifespan
  <2>4. CASE UNCHANGED windowVars
    BY <1>2, <2>4 DEF windowVars, clocks
  <2> QED BY <2>1, <2>2, <2>3, <2>4, StepsInTime
<1> QED BY <1>1, <1>3, <1>4

\* No retirement takes a key out of the key set while a token it signed may still have to be
\* verified, whatever the lifetimes, the margin and the windows: what windows computes as the
\* floor (retirement.go, RetirementFloor) covers the last token at the moment of the demotion,
\* as long as no lifetime is lowered while keys retire.
THEOREM RetirementsWaitForTokens ==
  ASSUME Disciplined, FilesApart, ~Lowering
  PROVE  WindowsSpec => RetiredKeysSignedNothingLive
<1>1. WindowsInit => Fading /\ RetiresSilent /\ IdleIsClear
  <2> SUFFICES ASSUME WindowsInit PROVE Fading /\ RetiresSilent /\ IdleIsClear
    OBVIOUS
  <2>1. \A k \in Key : registry[k] # "retiring"
    BY RotationAssumption DEF WindowsInit, Init
  <2>2. lifespan \in Nat /\ Margin \in Nat /\ \A k \in Key : live[k] = 0 \/ live[k] = lifespan + Margin
    BY LongestIsLongest DEF WindowsInit
  <2>3. \A o \in Operator : pc[o] = "idle" /\ step[o] = "stage"
    BY DEF WindowsInit, Init
  <2> QED BY <2>1, <2>2, <2>3 DEF Fading, RetiresSilent, IdleIsClear, Leaving, Removing
<1>2. /\ ClocksOK /\ [WindowsNext]_windowVars => ClocksOK'
      /\ IInv /\ IdleIsClear /\ [WindowsNext]_windowVars => IdleIsClear'
      /\ IInv /\ IInv' /\ ClocksOK /\ Fading /\ RetiresSilent /\ [WindowsNext]_windowVars =>
           Fading' /\ RetiresSilent'
  BY ClocksStep, FadingStep, RetiresSilentStep, IdleIsClearStep, StepsInTime, TypeParts DEF IInv
<1>3. ASSUME IInv, FilesInv, IdleIsClear, RetiresSilent, [WindowsNext]_windowVars
      PROVE  [\A o \in Operator :
                step[o] = "retire" /\ kid[o] \in Present \ Present' => live[kid[o]] = 0]_windowVars
  <2> SUFFICES ASSUME NEW o \in Operator, step[o] = "retire", kid[o] \in Present \ Present'
               PROVE  live[kid[o]] = 0
    OBVIOUS
  <2>0. TypeOK /\ LocalOK /\ [Next]_vars
    BY <1>3, StepsInTime, TypeParts DEF IInv
  <2>1. PICK p \in Operator : Delete(p) /\ kid[p] = kid[o]
    <3>1. \A p \in Operator :
            /\ StagePost(p) \/ Raise(p) \/ (\E k \in Key : Demote(p, k)) => Present \subseteq Present'
            /\ Delete(p) => Present' = Present \ {kid[p]}
      BY <1>3, <2>0, PresentEffect DEF IInv
    <3> QED BY <2>0, <3>1, RealmWrites, SameRealm
  <2>2. pc[p] = "delete" /\ step[p] \in Removals
    BY <1>3, <2>1 DEF Delete, Goto, IInv, StepsMatch, Removing
  <2>3. o = p
    <3>1. pc[o] # "idle"
      BY <1>3 DEF IdleIsClear
    <3> QED BY <1>3, <2>1, <2>2, <3>1 DEF FilesInv, FilesTurns, Removals
  <2> QED BY <1>3, <2>2, <2>3 DEF RetiresSilent, Leaving, Removing
<1> QED
  BY <1>1, <1>2, <1>3, ClocksInit, RotatesInTime, InvariantHolds, FilesInvHolds, PTL
     DEF WindowsSpec, RetiredKeysSignedNothingLive
=============================================================================
