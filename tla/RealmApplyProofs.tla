-------------------------- MODULE RealmApplyProofs --------------------------
(***************************************************************************)
(* Proofs about a realm-apply run, for any objects, revisions and values,  *)
(* any normalisation by Keycloak, and runs that stop anywhere: the types,  *)
(* whoever edits the realm; and what a run replaces and records, as long   *)
(* as administrators leave the realm alone during a run (EditsWait).       *)
(***************************************************************************)
EXTENDS RealmApplyRetries, TLAPS

\* Runs repeated until the realm converges are runs: what follows holds of them too.
LEMMA RetriesAreRuns == RetrySpec => Spec
<1>1. RetryInit => Init
  BY DEF RetryInit
<1>2. [RetryNext]_retryVars => [Next]_vars
  BY DEF RetryNext, Try, Go, Refuse, Disturb, Calm, retryVars, Next
<1> QED BY <1>1, <1>2, PTL DEF RetrySpec, Spec

\* The calls between a plan and the verification.
Writing == {"write", "remove", "add"}

\* The reads of the checkout before them.
Checking == {"status", "head"}

-----------------------------------------------------------------------------
(* Whoever edits the realm, and whenever. *)

\* The lists exist with the realm, a run writes to a realm that exists, and only what its
\* definition declares is left to write.
TypesInv ==
  /\ TypeOK
  /\ exists => live[Defaults] \in Lists
  /\ pc \in Writing \cup {"replan"} => exists
  /\ pc \in Writing \cup Checking => \A o \in todo : Declares[wanted][o] # Nothing

LEMMA StartTypes == ASSUME Init PROVE TypeOK
<1>1. Unlisted \in Lists
  BY DEF Unlisted, Lists
<1> QED BY <1>1, RealmAssumption DEF Init, TypeOK, PCs

LEMMA TypesStep == ASSUME TypesInv, [Next]_vars PROVE TypesInv'
<1> USE RealmAssumption DEF TypesInv, TypeOK, PCs, Writing, Checking, realm, checkout, memory, run, Goto
<1>1. ASSUME NEW a \in BOOLEAN, Begin(a) PROVE TypesInv'
  BY <1>1 DEF Begin
<1>2. CASE ReadRecord
  BY <1>2 DEF ReadRecord, Digests
<1>3. CASE Plan
  BY <1>3 DEF Plan, Differs, Attributes, Digests
<1>4. CASE CleanStatus
  BY <1>4 DEF CleanStatus
<1>24. CASE CleanRevision
  BY <1>24 DEF CleanRevision
<1>5. CASE Create
  BY <1>5 DEF Create, Holds, OneListEach
<1>6. CASE Replan
  BY <1>6 DEF Replan, Attributes, Differs
<1>7. ASSUME NEW o \in Object, Write(o) PROVE TypesInv'
  BY <1>7 DEF Write, IsNext, Holds
<1>8. CASE ReadLists
  BY <1>8 DEF ReadLists, IsNext
<1>9. ASSUME NEW s \in Scope, NEW l \in List, Remove(s, l) PROVE TypesInv'
  BY <1>9 DEF Remove, Lists
<1>10. ASSUME NEW s \in Scope, NEW l \in List, Add(s, l) PROVE TypesInv'
  BY <1>10 DEF Add, Lists
<1>11. CASE Removed
  BY <1>11 DEF Removed
<1>12. CASE Added
  BY <1>12 DEF Added
<1>13. CASE Written
  BY <1>13 DEF Written
<1>14. CASE Verify
  BY <1>14 DEF Verify
<1>15. CASE ReadAttributes
  BY <1>15 DEF ReadAttributes, Attributes
<1>16. CASE WriteRecord
  BY <1>16 DEF WriteRecord, Digests
<1>17. CASE ReadBack
  BY <1>17 DEF ReadBack, End, Unlisted, Lists
<1>18. CASE Stop
  BY <1>18 DEF Stop, End, Unlisted, Lists
<1>19. CASE EditOther
  BY <1>19 DEF EditOther, MayEdit
<1>20. ASSUME NEW o \in Object, NEW v \in Value \cup OneListEach \cup {Nothing}, Edit(o, v)
       PROVE  TypesInv'
  <2>1. v \in Value \cup Lists \cup {Nothing} /\ (o = Defaults => v \in Lists)
    BY <1>20 DEF Edit, Holds, OneListEach
  <2>2. /\ exists /\ UNCHANGED <<exists, record, other, tree, head, moved, pc, adopt, wanted, previous, revision, todo,
                                 made, seen, listed>>
        /\ live' = [live EXCEPT ![o] = v]
    BY <1>20 DEF Edit, MayEdit
  <2> QED BY <2>1, <2>2
<1>21. ASSUME NEW r \in Revision, ChangeTree(r) PROVE TypesInv'
  BY <1>21 DEF ChangeTree
<1>22. CASE Commit
  BY <1>22 DEF Commit
<1>23. CASE UNCHANGED vars
  BY <1>23 DEF vars
<1> QED
  BY <1>1, <1>2, <1>3, <1>4, <1>5, <1>6, <1>7, <1>8, <1>9, <1>10, <1>11, <1>12, <1>13,
     <1>14, <1>15, <1>16, <1>17, <1>18, <1>19, <1>20, <1>21, <1>22, <1>23, <1>24
     DEF Next, Proceed, Edits

\* The variables keep their types, whoever edits the realm between any two calls: a run
\* writes only what its definition declares, and to a realm that has its lists of scopes.
THEOREM RealmApplyTypes == Spec => []TypeOK
<1>1. Init => TypesInv
  BY StartTypes DEF Init, TypesInv, Writing, Checking
<1>2. TypesInv /\ [Next]_vars => TypesInv'
  BY TypesStep
<1>3. TypesInv => TypeOK
  BY DEF TypesInv
<1> QED BY <1>1, <1>2, <1>3, PTL DEF Spec

-----------------------------------------------------------------------------
(* While administrators leave the realm alone during a run. *)

\* The default scopes exist with the realm, and no scope is in both lists.
DefaultsHeld == IF exists THEN live[Defaults] \in OneListEach ELSE live[Defaults] = Nothing

\* Where the run is says whether the realm exists, and what the run has planned.
Planned ==
  /\ pc \in Writing \cup {"replan"} => exists
  /\ pc = "replan" => made
  /\ pc \in Writing \cup Checking => \A o \in todo : Declares[wanted][o] # Nothing

\* The attributes are as the run last read them, until it writes its record.
Knowing == pc \in Writing \cup Checking \cup {"create", "record"} => seen = Attributes

\* So are the lists, and once the removals are done no list has too much.
ListsKnown ==
  /\ pc \in {"remove", "add"} =>
       /\ listed = live[Defaults]
       /\ Declares[wanted][Defaults] \in OneListEach
       /\ Defaults \notin todo
  /\ pc = "add" => \A s \in Scope : listed[s] \subseteq Declares[wanted][Defaults][s]

\* What the baseline of a run that does not adopt is.
Baseline ==
  pc = "plan" /\ ~adopt => previous = IF record = Nothing THEN Nothing ELSE record.digest

\* Such a run still has to write only what is as it was recorded.
Guarded ==
  ~adopt /\ ~made /\ exists /\ pc \in Writing \cup Checking =>
    /\ record # Nothing
    /\ \A o \in todo : Declares[record.digest][o] \in {Nothing, live[o]}

\* What is verified stays so until it is recorded.
Converged == pc \in {"attributes", "record"} => Differs(wanted) = {}

RunInv ==
  /\ TypeOK /\ DefaultsHeld /\ Planned /\ Knowing /\ ListsKnown
  /\ Baseline /\ Guarded /\ Converged

-----------------------------------------------------------------------------

\* Unless the tree changed meanwhile, the commit a run reads is of the definition it loaded.
CommitRead ==
  ~moved =>
    /\ pc \in {"readRecord", "plan", "status"} => tree = wanted
    /\ pc = "head" => tree = wanted /\ head = wanted
    /\ pc \in Writing \cup {"create", "replan", "verify", "attributes", "record"} => revision = wanted

LEMMA RunInvInit == Init => RunInv
<1> SUFFICES ASSUME Init PROVE RunInv
  OBVIOUS
<1>1. DefaultsHeld
  BY RealmAssumption DEF Init, DefaultsHeld
<1> QED
  BY <1>1, StartTypes DEF Init, RunInv, Planned, Knowing, ListsKnown, Baseline, Guarded, Converged, Writing, Checking

LEMMA RunInvStep == ASSUME EditsWait, RunInv, [Next]_vars PROVE RunInv'
<1> USE RealmAssumption
    DEF RunInv, TypeOK, DefaultsHeld, Planned, Knowing, ListsKnown, Baseline, Guarded, Converged, PCs, Writing, Checking
<1> USE DEF realm, checkout, memory, run, Goto
<1>1. ASSUME NEW a \in BOOLEAN, Begin(a) PROVE RunInv'
  BY <1>1 DEF Begin
<1>2. CASE ReadRecord
  BY <1>2 DEF ReadRecord, Digests
<1>3. CASE Plan
  BY <1>3 DEF Plan, Differs, Drift, Unmanaged, Attributes, Digests
<1>4. CASE CleanStatus
  BY <1>4 DEF CleanStatus, Attributes
<1>24. CASE CleanRevision
  BY <1>24 DEF CleanRevision, Attributes
<1>5. CASE Create
  <2>1. /\ exists' /\ made' /\ pc' = "replan"
        /\ UNCHANGED <<record, other, checkout, adopt, wanted, previous, revision, todo, memory>>
        /\ live' = [Builtin EXCEPT ![RealmObject] =
                      IF Declares[wanted][RealmObject] = Nothing THEN @ ELSE Kept[Declares[wanted][RealmObject]]]
    BY <1>5 DEF Create
  <2>2. live'[Defaults] = Builtin[Defaults] /\ Builtin[Defaults] \in OneListEach
    BY <2>1 DEF Holds
  <2>3. DefaultsHeld'
    BY <2>1, <2>2
  <2>4. Declares[wanted][RealmObject] \in Value \cup {Nothing}
    BY DEF Holds
  <2>5. live' \in [Object -> Value \cup Lists \cup {Nothing}]
    BY <2>1, <2>4 DEF OneListEach
  <2>6. TypeOK'
    BY <2>1, <2>5
  <2> QED BY <2>1, <2>3, <2>6
<1>6. CASE Replan
  BY <1>6 DEF Replan, Attributes, Differs
<1>7. ASSUME NEW o \in Object, Write(o) PROVE RunInv'
  BY <1>7 DEF Write, IsNext, Attributes, Holds, Differs
<1>8. CASE ReadLists
  BY <1>8 DEF ReadLists, IsNext, Attributes, Holds, OneListEach
<1>9. ASSUME NEW s \in Scope, NEW l \in List, Remove(s, l) PROVE RunInv'
  BY <1>9 DEF Remove, Attributes, OneListEach, Lists
<1>10. CASE Removed
  BY <1>10 DEF Removed, Surplus, Attributes
<1>11. ASSUME NEW s \in Scope, NEW l \in List, Add(s, l) PROVE RunInv'
  <2> DEFINE d == Declares[wanted][Defaults]
             new == live[Defaults][s] \cup {l}
  <2> USE <1>11 DEF Add
  <2>1. /\ pc = "add" /\ pc' = "add" /\ exists
        /\ live \in [Object -> Value \cup Lists \cup {Nothing}] /\ Defaults \in Object
        /\ listed \in Lists /\ live[Defaults] = listed
        /\ d \in OneListEach /\ Defaults \notin todo
    OBVIOUS
  <2>2. new \subseteq d[s]
    BY <2>1 DEF Missing, Lists
  <2>3. d[s] \subseteq List /\ d[s] # List
    BY <2>1 DEF OneListEach, Lists
  <2>4. new # List
    BY <2>2, <2>3
  <2>5. live' = [live EXCEPT ![Defaults] = [live[Defaults] EXCEPT ![s] = new]]
    OBVIOUS
  <2>6. live'[Defaults] \in OneListEach
    BY <2>1, <2>2, <2>3, <2>4, <2>5 DEF OneListEach, Lists
  <2>7. listed' = live'[Defaults]
    BY <2>1, <2>5 DEF Lists
  <2>8. TypeOK'
    BY <2>1, <2>5, <2>6 DEF OneListEach
  <2>9. ListsKnown'
    BY <2>1, <2>2, <2>7 DEF Lists
  <2> QED
    BY <2>1, <2>5, <2>6, <2>8, <2>9 DEF Attributes
<1>12. CASE Added
  BY <1>12 DEF Added, Attributes
<1>13. CASE Written
  BY <1>13 DEF Written
<1>14. CASE Verify
  BY <1>14 DEF Verify, Differs
<1>15. CASE ReadAttributes
  BY <1>15 DEF ReadAttributes, Attributes, Differs
<1>16. CASE WriteRecord
  BY <1>16 DEF WriteRecord, Digests
<1>17. CASE ReadBack
  BY <1>17 DEF ReadBack, End, Unlisted, Lists
<1>18. CASE Stop
  BY <1>18 DEF Stop, End, Unlisted, Lists
<1>19. CASE EditOther
  BY <1>19 DEF EditOther, MayEdit
<1>20. ASSUME NEW o \in Object, NEW v \in Value \cup OneListEach \cup {Nothing}, Edit(o, v)
       PROVE  RunInv'
  BY <1>20 DEF Edit, MayEdit, Holds, OneListEach
<1>21. ASSUME NEW r \in Revision, ChangeTree(r) PROVE RunInv'
  <2>1. UNCHANGED <<realm, head, pc, run>> /\ tree' = r /\ moved' \in BOOLEAN
    BY <1>21 DEF ChangeTree
  <2>2. TypeOK'
    BY <2>1
  <2>3. Differs(wanted)' = Differs(wanted) /\ Attributes' = Attributes
    BY <2>1 DEF Differs, Attributes
  <2> QED BY <2>1, <2>2, <2>3
<1>22. CASE Commit
  BY <1>22 DEF Commit, Differs, Attributes
<1>23. CASE UNCHANGED vars
  BY <1>23 DEF vars, Differs, Attributes
<1> QED
  BY <1>1, <1>2, <1>3, <1>4, <1>5, <1>6, <1>7, <1>8, <1>9, <1>10, <1>11, <1>12, <1>13, <1>14,
     <1>15, <1>16, <1>17, <1>18, <1>19, <1>20, <1>21, <1>22, <1>23, <1>24
     DEF Next, Proceed, Edits

\* What a run knows of the realm at each of its steps, whoever stops it.
THEOREM RunInvHolds == ASSUME EditsWait PROVE Spec => []RunInv
BY RunInvInit, RunInvStep, PTL DEF Spec

-----------------------------------------------------------------------------

\* No scope is ever in both default lists, whichever call of an apply is the last
\* (applyDefaults: every removal before any addition).
THEOREM ScopesStayApart == ASSUME EditsWait PROVE Spec => []NoScopeInBothLists
<1>1. RunInv => NoScopeInBothLists
  BY DEF RunInv, DefaultsHeld, NoScopeInBothLists, OneListEach
<1> QED
  BY <1>1, RunInvHolds, PTL

\* A run neither loses nor brings back what nobody declares, and the record changes
\* only where it is made (applyRealm and record, which both send the attributes whole).
THEOREM AttributesAreKept == ASSUME EditsWait PROVE Spec => OthersAttributesStay
<1>1. ASSUME RunInv, [Next]_vars
      PROVE  (other' # other => pc = "idle") /\ (record' # record => pc = "record")
  <2> USE <1>1 DEF realm, checkout, memory, run
  <2>1. ASSUME NEW o \in Object, Write(o)
        PROVE  other' = other /\ record' = record
    BY <2>1 DEF Write, Goto, RunInv, Knowing, Writing, Checking, Attributes
  <2>2. CASE WriteRecord
    BY <2>2 DEF WriteRecord, Goto, RunInv, Knowing, Attributes
  <2>3. CASE EditOther
    BY <2>3 DEF EditOther, MayEdit
  <2> QED
    BY <2>1, <2>2, <2>3
       DEF Next, Proceed, Edits, Begin, ReadRecord, Plan, CleanStatus, CleanRevision, Create, Replan, ReadLists, Remove,
           Removed, Add, Added, Written, Verify, ReadAttributes, ReadBack, Stop, Edit, ChangeTree, Commit, vars
<1> QED
  BY <1>1, RunInvHolds, PTL DEF Spec, OthersAttributesStay

\* The record is written by one action.
LEMMA RecordWritten ==
  ASSUME RunInv, [Next]_vars, record' # record
  PROVE  WriteRecord
<1> USE DEF realm, checkout, memory, run
<1>1. ASSUME NEW o \in Object
      PROVE  ~Write(o)
  BY DEF Write, Goto, RunInv, Knowing, Writing, Checking, Attributes
<1> QED
  BY <1>1
     DEF Next, Proceed, Edits, Begin, ReadRecord, Plan, CleanStatus, CleanRevision, Create, Replan, ReadLists, Remove,
         Removed, Add, Added, Written, Verify, ReadAttributes, ReadBack, Stop, Edit, EditOther,
         ChangeTree, Commit, vars

\* The definition whose digest a run records is what the realm holds, also where Keycloak
\* keeps another value than it was sent, or the checkout moves under the run.
THEOREM RecordedDigestsAreLive == ASSUME EditsWait PROVE Spec => RecordedDigestIsLive
<1>1. ASSUME RunInv, [Next]_vars, record' # record
      PROVE  \A o \in Object : Declares[record'.digest][o] \in {Nothing, live'[o]}
  BY <1>1, RecordWritten DEF WriteRecord, Goto, RunInv, Converged, Differs
<1> QED
  BY <1>1, RunInvHolds, PTL DEF Spec, RecordedDigestIsLive

\* A commit may be added, or the tree changed, at any call: what is clean is committed.
LEMMA CommitReadStep == ASSUME CommitRead, [Next]_vars PROVE CommitRead'
<1> USE DEF CommitRead, Writing, Goto, realm, checkout, memory, run
<1>1. ASSUME NEW a \in BOOLEAN, Begin(a) PROVE CommitRead'
  BY <1>1 DEF Begin
<1>2. CASE ReadRecord \/ Plan \/ CleanStatus \/ CleanRevision
  BY <1>2 DEF ReadRecord, Plan, CleanStatus, CleanRevision
<1>3. CASE Create \/ Replan \/ ReadLists \/ Removed \/ Added \/ Written \/ Verify \/ ReadAttributes \/ WriteRecord
  BY <1>3 DEF Create, Replan, ReadLists, Removed, Added, Written, Verify, ReadAttributes, WriteRecord
<1>4. ASSUME NEW o \in Object, Write(o) PROVE CommitRead'
  BY <1>4 DEF Write
<1>5. ASSUME NEW s \in Scope, NEW l \in List, Remove(s, l) \/ Add(s, l) PROVE CommitRead'
  BY <1>5 DEF Remove, Add
<1>6. CASE ReadBack \/ Stop
  BY <1>6 DEF ReadBack, Stop, End
<1>7. CASE Edits \/ UNCHANGED vars
  BY <1>7 DEF Edits, EditOther, Edit, vars
<1>8. ASSUME NEW r \in Revision, ChangeTree(r) PROVE CommitRead'
  BY <1>8 DEF ChangeTree
<1>9. CASE Commit
  BY <1>9 DEF Commit
<1> QED BY <1>1, <1>2, <1>3, <1>4, <1>5, <1>6, <1>7, <1>8, <1>9 DEF Next, Proceed

\* The recorded revision is the commit of the definition that was applied, unless the tree
\* changed under the run before the commit was read: the definition is loaded first, and what
\* is uncommitted then is refused or committed by the time the commit is read.
THEOREM RecordedRevisionsReproduce == ASSUME EditsWait PROVE Spec => RecordedRevisionReproduces
<1>1. Init => CommitRead
  BY DEF Init, CommitRead, Writing
<1>2. CommitRead /\ [Next]_vars => CommitRead'
  BY CommitReadStep
<1>3. ASSUME RunInv, CommitRead, [Next]_vars, record' # record
      PROVE  record'.revision = record'.digest \/ moved
  BY <1>3, RecordWritten DEF WriteRecord, Goto, CommitRead
<1> QED
  BY <1>1, <1>2, <1>3, RunInvHolds, PTL DEF Spec, RecordedRevisionReproduces

\* A run without -adopt replaces what the recorded definition governs only while it is as
\* that definition declares it (the drift, unmanaged and digest refusals, some calls before
\* the write).  What the recorded definition does not declare it replaces unasked.
THEOREM GovernedStateIsSafe == ASSUME EditsWait PROVE Spec => GovernedStateIsReplacedAsRecorded
<1>1. ASSUME RunInv, [Next]_vars, pc = "write", ~adopt, ~made
      PROVE  \A o \in todo \ todo' : /\ record # Nothing
                                    /\ Declares[record.digest][o] \in {Nothing, live[o]}
  BY <1>1 DEF RunInv, Planned, Guarded, Writing, Checking
<1> QED
  BY <1>1, RunInvHolds, PTL DEF Spec, GovernedStateIsReplacedAsRecorded
=============================================================================
