------------------------------ MODULE RealmApply -----------------------------
(***************************************************************************)
(* realm-apply (cmd/realm-apply, NewPlan and Apply in internal/realmdef):  *)
(* a run reads what the last apply recorded in the realm, judges drift     *)
(* against the definition at that revision, refuses or converges the realm *)
(* object by object, verifies it, and records the revision it applied.     *)
(*                                                                         *)
(* The realm, the checkout and the run are three parties.  Administrators  *)
(* edit the realm, the checkout moves under the run, and the run stops     *)
(* anywhere.  One run is in progress at a time; AuthenticationFlows is     *)
(* about two.                                                              *)
(*                                                                         *)
(* Simplifications.  An object has one value, which the definition governs *)
(* or does not, except the default client scopes, which are written call   *)
(* by call; of the realm's attributes only the record and one that nobody  *)
(* declares are told apart; NewPlan's reads are one step; a revision       *)
(* stands for its content, so that two digests are equal when two          *)
(* revisions are.                                                          *)
(***************************************************************************)
EXTENDS Naturals

CONSTANTS
  Object,      \* the managed objects, numbered in the order Apply writes them
  RealmObject, \* of those, the realm's own fields, written with its attributes
  Defaults,    \* of those, the default client scopes
  Scope,       \* the client scopes
  Value,       \* what an object may hold, other than Defaults
  Revision,    \* the definition's commits
  Declares,    \* Declares[r][o]: what revision r declares of o
  Nothing,     \* an object absent from the realm, or not declared; no record; no baseline
  Builtin,     \* what Keycloak puts in a new realm
  Kept,        \* Kept[v]: what Keycloak keeps of a value v it is sent
  EditsWait    \* whether administrators leave the realm alone during a run

\* The lists a new client takes its scopes from, and those that have each scope.
List  == {"default", "optional"}
Lists == [Scope -> SUBSET List]
OneListEach == {l \in Lists : \A s \in Scope : l[s] # List}

\* What an object may be declared or edited to hold.
Holds(o) == IF o = Defaults THEN OneListEach ELSE Value

ASSUME RealmAssumption ==
  /\ Object \subseteq Nat /\ RealmObject \in Object /\ Defaults \in Object \ {RealmObject}
  /\ Nothing \notin Value \cup Revision
  /\ \A r \in Revision, o \in Object : Declares[r][o] \in Holds(o) \cup {Nothing}
  /\ Builtin \in [Object -> Value \cup OneListEach \cup {Nothing}]
  /\ \A o \in Object : Builtin[o] \in Holds(o) \/ (Builtin[o] = Nothing /\ o # Defaults)
  /\ Kept \in [Value -> Value]
  /\ EditsWait \in BOOLEAN

VARIABLES
  exists,     \* whether the realm exists
  live,       \* the live objects
  record,     \* the recorded revision and digest, or Nothing
  other,      \* whether the realm has an attribute that no definition declares
  tree,       \* the definition in the checkout
  head,       \* the checkout's commit
  moved,      \* history: whether the tree changed after the run loaded it and before the run
              \* had read the commit
  pc,         \* where the run is
  adopt,      \* whether it was given -adopt
  wanted,     \* the definition it loaded
  previous,   \* the baseline, or Nothing
  revision,   \* the commit it will record
  todo,       \* the objects its plan has still to write
  made,       \* whether this run created the realm
  seen,       \* the realm's record and other attribute, as it last read them
  listed      \* the lists its default client scopes are in, as far as it knows

realm    == <<exists, live, record, other>>
checkout == <<tree, head, moved>>
memory   == <<seen, listed>>
run      == <<adopt, wanted, previous, revision, todo, made, memory>>
vars     == <<realm, checkout, pc, run>>

-----------------------------------------------------------------------------

Digests == {[revision |-> r, digest |-> d] : r, d \in Revision}

PCs == {"idle", "readRecord", "plan", "status", "head", "create", "replan",
        "write", "remove", "add", "verify", "attributes", "record", "readBack"}

TypeOK ==
  /\ exists \in BOOLEAN
  /\ live \in [Object -> Value \cup Lists \cup {Nothing}]
  /\ record \in Digests \cup {Nothing} /\ other \in BOOLEAN
  /\ tree \in Revision /\ head \in Revision /\ moved \in BOOLEAN
  /\ pc \in PCs
  /\ adopt \in BOOLEAN /\ made \in BOOLEAN
  /\ wanted \in Revision /\ revision \in Revision
  /\ previous \in Revision \cup {Nothing}
  /\ todo \in SUBSET Object
  /\ seen \in [record : Digests \cup {Nothing}, other : BOOLEAN]
  /\ listed \in Lists

\* compare: the objects that differ from what a definition declares, and only that.
Differs(d) == {o \in Object : Declares[d][o] \notin {Nothing, live[o]}}

Drift == IF previous = Nothing THEN {} ELSE Differs(previous)

Attributes == [record |-> record, other |-> other]

Unlisted == [s \in Scope |-> {}]

Unmanaged == exists /\ previous = Nothing /\ record = Nothing

-----------------------------------------------------------------------------
(* A run. *)

Goto(from, to) == pc = from /\ pc' = to

End ==
  /\ pc' = "idle" /\ adopt' = FALSE /\ made' = FALSE /\ todo' = {}
  /\ wanted' = head /\ revision' = head /\ previous' = Nothing
  /\ seen' = [record |-> Nothing, other |-> FALSE] /\ listed' = Unlisted

\* The definition is loaded once, from the tree as it is.
Begin(a) ==
  /\ Goto("idle", "readRecord")
  /\ adopt' = a /\ wanted' = tree /\ moved' = FALSE
  /\ UNCHANGED <<realm, tree, head, previous, revision, todo, made, memory>>

\* Mutant: the baseline is taken from the recorded revision whatever was applied.
ReadRecordUndigested ==
  /\ Goto("readRecord", "plan")
  /\ previous' = IF record = Nothing \/ adopt THEN Nothing ELSE record.revision
  /\ UNCHANGED <<realm, checkout, adopt, wanted, revision, todo, made, memory>>

\* Mutant: -adopt takes a baseline too, and is refused over drift like any run.
ReadRecordAdopting ==
  /\ Goto("readRecord", "plan")
  /\ record # Nothing => record.revision = record.digest
  /\ previous' = IF record = Nothing THEN Nothing ELSE record.revision
  /\ UNCHANGED <<realm, checkout, adopt, wanted, revision, todo, made, memory>>

\* The baseline must reproduce the recorded digest; -adopt takes none.
ReadRecord ==
  /\ Goto("readRecord", "plan")
  /\ record # Nothing /\ ~adopt => record.revision = record.digest
  /\ previous' = IF record = Nothing \/ adopt THEN Nothing ELSE record.revision
  /\ UNCHANGED <<realm, checkout, adopt, wanted, revision, todo, made, memory>>

Plan ==
  /\ exists => Drift = {}
  /\ Unmanaged => adopt
  /\ Goto("plan", "status")
  /\ todo' = Differs(wanted)
  /\ seen' = Attributes
  /\ UNCHANGED <<realm, checkout, adopt, wanted, previous, revision, made, listed>>

\* Mutant: the checkout may hold changes that are not committed.
UncheckedStatus ==
  /\ Goto("status", "head")
  /\ UNCHANGED <<realm, checkout, run>>

\* git status finds nothing uncommitted, now and not when the definition was loaded.
CleanStatus ==
  /\ tree = head
  /\ Goto("status", "head")
  /\ UNCHANGED <<realm, checkout, run>>

\* git rev-parse reads the commit after that.
CleanRevision ==
  /\ revision' = head
  /\ Goto("head", IF exists THEN "write" ELSE "create")
  /\ UNCHANGED <<realm, checkout, adopt, wanted, previous, todo, made, memory>>

\* The realm is created with its own fields; Keycloak refuses a second one of the name.
Create ==
  /\ ~exists
  /\ Goto("create", "replan")
  /\ exists' = TRUE /\ made' = TRUE
  /\ live' = [Builtin EXCEPT ![RealmObject] =
                IF Declares[wanted][RealmObject] = Nothing THEN @ ELSE Kept[Declares[wanted][RealmObject]]]
  /\ UNCHANGED <<record, other, checkout, adopt, wanted, previous, revision, todo, memory>>

Replan ==
  /\ Goto("replan", "write")
  /\ todo' = Differs(wanted)
  /\ seen' = Attributes
  /\ UNCHANGED <<realm, checkout, adopt, wanted, previous, revision, made, listed>>

IsNext(o) == o \in todo /\ \A p \in todo : o <= p

\* Mutant: the realm's attributes sent as the definition declares them.
WriteAttributesAlone(o) ==
  /\ IsNext(o) /\ o # Defaults
  /\ Goto("write", "write")
  /\ live' = [live EXCEPT ![o] = Kept[Declares[wanted][o]]]
  /\ o = RealmObject => record' = Nothing /\ other' = FALSE
  /\ o # RealmObject => UNCHANGED <<record, other>>
  /\ todo' = todo \ {o}
  /\ UNCHANGED <<exists, checkout, adopt, wanted, previous, revision, made, memory>>

\* The realm's attributes are one map: the declared are laid over those the plan read.
Write(o) ==
  /\ IsNext(o) /\ o # Defaults
  /\ Goto("write", "write")
  /\ live' = [live EXCEPT ![o] = Kept[Declares[wanted][o]]]
  /\ o = RealmObject => record' = seen.record /\ other' = seen.other
  /\ o # RealmObject => UNCHANGED <<record, other>>
  /\ todo' = todo \ {o}
  /\ UNCHANGED <<exists, checkout, adopt, wanted, previous, revision, made, memory>>

\* The lists are read again, and every removal comes before any addition.
ReadLists ==
  /\ IsNext(Defaults)
  /\ Goto("write", "remove")
  /\ listed' = live[Defaults]
  /\ todo' = todo \ {Defaults}
  /\ UNCHANGED <<realm, checkout, adopt, wanted, previous, revision, made, seen>>

Surplus == [s \in Scope |-> listed[s] \ Declares[wanted][Defaults][s]]
Missing == [s \in Scope |-> Declares[wanted][Defaults][s] \ listed[s]]

\* The default list is done before the optional one.
InTurn(l, left) == l = "optional" => \A s \in Scope : "default" \notin left[s]

Remove(s, l) ==
  /\ l \in Surplus[s] /\ InTurn(l, Surplus)
  /\ Goto("remove", "remove")
  /\ live'   = [live   EXCEPT ![Defaults][s] = @ \ {l}]
  /\ listed' = [listed EXCEPT ![s] = @ \ {l}]
  /\ UNCHANGED <<exists, record, other, checkout, adopt, wanted, previous, revision, todo, made, seen>>

\* Mutant: the additions begin once the default list is cleared.
RemovedFromDefault ==
  /\ \A s \in Scope : "default" \notin Surplus[s]
  /\ Goto("remove", "add")
  /\ UNCHANGED <<realm, checkout, run>>

Removed ==
  /\ \A s \in Scope : Surplus[s] = {}
  /\ Goto("remove", "add")
  /\ UNCHANGED <<realm, checkout, run>>

Add(s, l) ==
  /\ l \in Missing[s] /\ InTurn(l, Missing)
  /\ Goto("add", "add")
  /\ live'   = [live   EXCEPT ![Defaults][s] = @ \cup {l}]
  /\ listed' = [listed EXCEPT ![s] = @ \cup {l}]
  /\ UNCHANGED <<exists, record, other, checkout, adopt, wanted, previous, revision, todo, made, seen>>

Added ==
  /\ \A s \in Scope : Missing[s] = {}
  /\ Goto("add", "write")
  /\ UNCHANGED <<realm, checkout, run>>

Written ==
  /\ todo = {}
  /\ Goto("write", "verify")
  /\ UNCHANGED <<realm, checkout, run>>

\* Mutant: recorded without comparing the realm again.
VerifyNothing ==
  /\ Goto("verify", "attributes")
  /\ UNCHANGED <<realm, checkout, run>>

\* ErrNotConverged otherwise; the signing key and the retirement window may fail too.
Verify ==
  /\ Differs(wanted) = {}
  /\ Goto("verify", "attributes")
  /\ UNCHANGED <<realm, checkout, run>>

ReadAttributes ==
  /\ Goto("attributes", "record")
  /\ seen' = Attributes
  /\ UNCHANGED <<realm, checkout, adopt, wanted, previous, revision, todo, made, listed>>

\* Mutant: the digest recorded is that of the baseline.
WriteBaseline ==
  /\ Goto("record", "readBack")
  /\ record' = [revision |-> revision, digest |-> previous]
  /\ other' = seen.other
  /\ UNCHANGED <<exists, live, checkout, run>>

WriteRecord ==
  /\ Goto("record", "readBack")
  /\ record' = [revision |-> revision, digest |-> wanted]
  /\ other' = seen.other
  /\ UNCHANGED <<exists, live, checkout, run>>

ReadBack ==
  /\ pc = "readBack" /\ record = [revision |-> revision, digest |-> wanted]
  /\ End
  /\ UNCHANGED <<realm, checkout>>

\* A refusal, a call that failed, a check that failed, or the run's crash.
Stop ==
  /\ pc # "idle"
  /\ End
  /\ UNCHANGED <<realm, checkout>>

-----------------------------------------------------------------------------
(* The administrators, and the checkout. *)

MayEdit == exists /\ (EditsWait => pc = "idle")

Edit(o, v) ==
  /\ MayEdit /\ v # live[o]
  /\ v \in Holds(o) \/ (v = Nothing /\ o # Defaults)
  /\ live' = [live EXCEPT ![o] = v]
  /\ UNCHANGED <<exists, record, other, checkout, pc, run>>

EditOther ==
  /\ MayEdit
  /\ other' = ~other
  /\ UNCHANGED <<exists, live, record, checkout, pc, run>>

Edits == EditOther \/ \E o \in Object, v \in Value \cup OneListEach \cup {Nothing} : Edit(o, v)

ChangeTree(r) ==
  /\ tree' = r /\ r # tree
  /\ moved' = (moved \/ pc \in {"readRecord", "plan", "status", "head"})
  /\ UNCHANGED <<realm, head, pc, run>>

Commit ==
  /\ head' = tree /\ head # tree
  /\ UNCHANGED <<realm, tree, moved, pc, run>>

-----------------------------------------------------------------------------

Init ==
  /\ exists = FALSE /\ live = [o \in Object |-> Nothing]
  /\ record = Nothing /\ other = FALSE
  /\ tree \in Revision /\ head = tree /\ moved = FALSE
  /\ pc = "idle" /\ adopt = FALSE /\ made = FALSE /\ todo = {}
  /\ wanted = head /\ revision = head /\ previous = Nothing
  /\ seen = [record |-> Nothing, other |-> FALSE] /\ listed = Unlisted

Proceed ==
  \/ ReadRecord \/ Plan \/ CleanStatus \/ CleanRevision \/ Create \/ Replan
  \/ (\E o \in Object : Write(o)) \/ ReadLists
  \/ \E s \in Scope, l \in List : Remove(s, l) \/ Add(s, l)
  \/ Removed \/ Added \/ Written \/ Verify \/ ReadAttributes \/ WriteRecord \/ ReadBack

Next ==
  \/ \E a \in BOOLEAN : Begin(a)
  \/ Proceed \/ Stop
  \/ Edits
  \/ (\E r \in Revision : ChangeTree(r)) \/ Commit

Spec == Init /\ [][Next]_vars

-----------------------------------------------------------------------------

\* What a run replaces without -adopt is as the recorded definition left it, wherever that
\* definition governs it, unless the run made the realm itself: whatever runs stopped, realms
\* it did not apply and trees that were committed late came before (the drift, unmanaged and
\* digest refusals).  An object the recorded definition does not govern, on which drift is
\* not judged, is replaced whoever set it, the first time a commit governs it.
GovernedStateIsReplacedAsRecorded ==
  [][pc = "write" /\ pc' # "idle" /\ ~adopt /\ ~made =>
       \A o \in todo \ todo' : /\ record # Nothing
                             /\ Declares[record.digest][o] \in {Nothing, live[o]}]_vars

\* A scope that moves between the lists is never in both, for a new client to take it from
\* twice, whichever call an apply stops at (every removal before any addition).
NoScopeInBothLists ==
  live[Defaults] # Nothing => \A s \in Scope : live[Defaults][s] # List

\* Attributes are replaced as one map, twice in an apply; neither write loses what nobody
\* declares, and the record the next drift check depends on changes only when it is made.
OthersAttributesStay ==
  [][(other' # other => pc = "idle") /\ (record' # record => pc = "record")]_vars

\* The definition whose digest is recorded is what the realm holds at that moment, also where
\* Keycloak keeps another value than it was sent (Verify before record in Apply).
RecordedDigestIsLive ==
  [][record' # record => \A o \in Object :
       Declares[record'.digest][o] \in {Nothing, live'[o]}]_vars

\* The revision recorded reproduces what was applied (main.go:236-238), whatever the tree held
\* uncommitted when the run began, was committed since, or is changed to after its commit was
\* read.  Excepted is a tree that changed between the load of the definition and the reads of
\* status and commit: its new commit is then recorded for the old definition.
RecordedRevisionReproduces ==
  [][record' # record => record'.revision = record'.digest \/ moved]_vars

=============================================================================
