-------------------------- MODULE AuthenticationFlows ------------------------
(***************************************************************************)
(* How realm-apply changes the authentication flow people sign in with     *)
(* (internal/realmdef/flows.go and the flow part of Apply): a declared     *)
(* flow is built call by call, then bound in one update.  A build that     *)
(* stopped is deleted and made again, unless the flow is bound.            *)
(*                                                                         *)
(* Runs may overlap and stop between any two calls.  Drift and the record  *)
(* are the subject of RealmApply.                                          *)
(*                                                                         *)
(* Simplifications.  There is one binding.  A sub-flow's steps count as    *)
(* steps of the flow, and every step has a configuration.  A step is known *)
(* by its place, which differs from its id only where runs overlap and one *)
(* makes a flow again under another.                                       *)
(***************************************************************************)
EXTENDS Naturals, Sequences

CONSTANTS
  Run,            \* runs of realm-apply
  RunsTakeTurns,  \* whether one at most is in progress
  Flow,           \* the aliases, numbered in the order a definition declares them
  Builtin,        \* Keycloak's own browser flow
  Absent,         \* an alias no flow has
  Revision,       \* the definitions
  Declared,       \* Declared[d]: the flows definition d declares
  Binds,          \* Binds[d]: the one it binds
  Steps,          \* how many steps a declared flow has
  MaxCrashes,     \* bound: interruptions in a behaviour
  MaxEdits        \* bound: edits of a flow by hand in a behaviour

\* What is sent of a step after it is added.
Settings == {"requirement", "config"}

Step == [step : 1..Steps, set : SUBSET Settings]

ASSUME FlowsAssumption ==
  /\ RunsTakeTurns \in BOOLEAN
  /\ Flow \subseteq Nat /\ Builtin \notin Flow
  /\ Declared \in [Revision -> SUBSET Flow]
  /\ \A d \in Revision : Binds[d] \in Declared[d]
  /\ Absent \notin Seq(Step)
  /\ Steps \in Nat \ {0} /\ MaxCrashes \in Nat /\ MaxEdits \in Nat

VARIABLES
  flows,      \* each alias's steps, each with what is set of it, or Absent
  bound,      \* the flow sign-ins run through
  pc,         \* where each run is
  wanted,     \* its definition
  fresh,      \* the flows its plan still has to build
  broken,     \* the flows its plan still has to rebuild
  seenBound,  \* the binding its plan saw
  at,         \* the step it builds next
  added,      \* the place of the step it last added, as listed
  crashes,    \* interruptions so far
  edits,      \* edits by hand so far
  edited      \* history: the flows changed by hand since they were built

realm  == <<flows, bound>>
plan   == <<wanted, fresh, broken, seenBound, at, added>>
bounds == <<crashes, edits>>
vars   == <<realm, pc, plan, bounds, edited>>

-----------------------------------------------------------------------------

\* What diffExecutions finds equal to the declaration.
Whole == [i \in 1..Steps |-> [step |-> i, set |-> Settings]]

PCs == {"idle", "plan", "next", "delete", "post", "add", "list", "set", "config", "verify"}

TypeOK ==
  /\ flows \in [Flow -> {Absent} \cup Seq(Step)]
  /\ bound \in Flow \cup {Builtin}
  /\ pc \in [Run -> PCs]
  /\ wanted \in [Run -> Revision]
  /\ fresh \in [Run -> SUBSET Flow] /\ broken \in [Run -> SUBSET Flow]
  /\ seenBound \in [Run -> Flow \cup {Builtin}]
  /\ at \in [Run -> 1..(Steps + 1)] /\ added \in [Run -> Nat]
  /\ crashes \in 0..MaxCrashes /\ edits \in 0..MaxEdits
  /\ edited \in SUBSET Flow

\* The flow a run is at: the first its plan has left.
Current(r) == CHOOSE f \in fresh[r] \cup broken[r] : \A g \in fresh[r] \cup broken[r] : f <= g

Goto(r, from, to) == pc[r] = from /\ pc' = [pc EXCEPT ![r] = to]

End(r) ==
  /\ pc'        = [pc        EXCEPT ![r] = "idle"]
  /\ fresh'     = [fresh     EXCEPT ![r] = {}]
  /\ broken'    = [broken    EXCEPT ![r] = {}]
  /\ seenBound' = [seenBound EXCEPT ![r] = Builtin]
  /\ at'        = [at        EXCEPT ![r] = 1]
  /\ added'     = [added     EXCEPT ![r] = 0]

-----------------------------------------------------------------------------

Begin(r, d) ==
  /\ RunsTakeTurns => \A q \in Run : pc[q] = "idle"
  /\ Goto(r, "idle", "plan")
  /\ wanted' = [wanted EXCEPT ![r] = d]
  /\ UNCHANGED <<realm, fresh, broken, seenBound, at, added, bounds, edited>>

Plan(r) ==
  LET differ == {f \in Declared[wanted[r]] : flows[f] # Whole} IN
  /\ Goto(r, "plan", "next")
  /\ fresh'     = [fresh     EXCEPT ![r] = {f \in differ : flows[f] = Absent}]
  /\ broken'    = [broken    EXCEPT ![r] = {f \in differ : flows[f] # Absent}]
  /\ seenBound' = [seenBound EXCEPT ![r] = bound]
  /\ UNCHANGED <<realm, wanted, at, added, bounds, edited>>

\* A flow the realm lacks is built.
Create(r) ==
  /\ Goto(r, "next", "post")
  /\ fresh[r] \cup broken[r] # {} /\ Current(r) \in fresh[r]
  /\ UNCHANGED <<realm, plan, bounds, edited>>

\* Mutant: a flow is built again without being deleted first.
RebuildInPlace(r) ==
  /\ Goto(r, "next", "post")
  /\ fresh[r] \cup broken[r] # {} /\ Current(r) \in broken[r]
  /\ Current(r) # seenBound[r]
  /\ UNCHANGED <<realm, plan, bounds, edited>>

\* A flow that differs is rebuilt only where no binding names it (ErrFlowChanged).
RebuildUnbound(r) ==
  /\ Goto(r, "next", "delete")
  /\ fresh[r] \cup broken[r] # {} /\ Current(r) \in broken[r]
  /\ Current(r) # seenBound[r]
  /\ UNCHANGED <<realm, plan, bounds, edited>>

\* Keycloak refuses to delete a flow in use.
Delete(r) ==
  /\ Goto(r, "delete", "post")
  /\ Current(r) # bound
  /\ flows' = [flows EXCEPT ![Current(r)] = Absent]
  /\ edited' = edited \ {Current(r)}
  /\ UNCHANGED <<bound, plan, bounds>>

\* Keycloak refuses a second flow of an alias.
Post(r) ==
  /\ Goto(r, "post", "add")
  /\ flows[Current(r)] = Absent
  /\ flows' = [flows EXCEPT ![Current(r)] = <<>>]
  /\ at' = [at EXCEPT ![r] = 1]
  /\ UNCHANGED <<bound, wanted, fresh, broken, seenBound, added, bounds, edited>>

\* Mutant: one step too many.
AddExecutionOn(r) ==
  /\ Goto(r, "add", "list")
  /\ flows[Current(r)] # Absent
  /\ flows' = [flows EXCEPT ![Current(r)] = Append(@, [step |-> at[r], set |-> {}])]
  /\ UNCHANGED <<bound, plan, bounds, edited>>

\* Keycloak adds a step disabled.
AddExecution(r) ==
  /\ Goto(r, "add", "list")
  /\ at[r] <= Steps /\ flows[Current(r)] # Absent
  /\ flows' = [flows EXCEPT ![Current(r)] = Append(@, [step |-> at[r], set |-> {}])]
  /\ UNCHANGED <<bound, plan, bounds, edited>>

\* The step just added is taken to be the last one listed.
ListExecutions(r) ==
  /\ Goto(r, "list", "set")
  /\ flows[Current(r)] \notin {Absent, <<>>}
  /\ added' = [added EXCEPT ![r] = Len(flows[Current(r)])]
  /\ UNCHANGED <<realm, wanted, fresh, broken, seenBound, at, bounds, edited>>

\* An update of the step that was listed, which may be gone.
Send(r, setting) ==
  LET f == Current(r) IN
  /\ flows[f] # Absent /\ added[r] \in DOMAIN flows[f]
  /\ flows' = [flows EXCEPT ![f][added[r]].set = @ \cup {setting}]

SetRequirement(r) ==
  /\ Goto(r, "set", "config")
  /\ Send(r, "requirement")
  /\ UNCHANGED <<bound, plan, bounds, edited>>

Configure(r) ==
  /\ Goto(r, "config", "add")
  /\ Send(r, "config")
  /\ at' = [at EXCEPT ![r] = @ + 1]
  /\ UNCHANGED <<bound, wanted, fresh, broken, seenBound, added, bounds, edited>>

Built(r) ==
  /\ Goto(r, "add", "next")
  /\ at[r] > Steps
  /\ fresh'  = [fresh  EXCEPT ![r] = @ \ {Current(r)}]
  /\ broken' = [broken EXCEPT ![r] = @ \ {Current(r)}]
  /\ UNCHANGED <<realm, wanted, seenBound, at, added, bounds, edited>>

\* Mutant: bound before the flows are built.
BindFirst(r) ==
  /\ Goto(r, "next", "verify")
  /\ bound' = Binds[wanted[r]]
  /\ UNCHANGED <<flows, plan, bounds, edited>>

\* Bindings come after the flows; one the plan saw in place is left alone.  Keycloak binds
\* a flow it has.
Bind(r) ==
  /\ Goto(r, "next", "verify")
  /\ fresh[r] \cup broken[r] = {}
  /\ flows[Binds[wanted[r]]] # Absent
  /\ bound' = IF seenBound[r] = Binds[wanted[r]] THEN bound ELSE Binds[wanted[r]]
  /\ UNCHANGED <<flows, plan, bounds, edited>>

Verify(r) ==
  /\ pc[r] = "verify"
  /\ bound = Binds[wanted[r]] /\ \A f \in Declared[wanted[r]] : flows[f] = Whole
  /\ End(r)
  /\ UNCHANGED <<realm, wanted, bounds, edited>>

Proceed(r) ==
  \/ Plan(r) \/ Create(r) \/ RebuildUnbound(r) \/ Delete(r) \/ Post(r)
  \/ AddExecution(r) \/ ListExecutions(r) \/ SetRequirement(r) \/ Configure(r)
  \/ Built(r) \/ Bind(r) \/ Verify(r)

\* A call Keycloak refuses, ErrFlowChanged or ErrNotConverged.
Refuse(r) ==
  /\ pc[r] # "idle" /\ ~ENABLED Proceed(r)
  /\ End(r)
  /\ UNCHANGED <<realm, wanted, bounds, edited>>

Crash(r) ==
  /\ pc[r] # "idle" /\ crashes < MaxCrashes
  /\ End(r)
  /\ crashes' = crashes + 1
  /\ UNCHANGED <<realm, wanted, edits, edited>>

\* An administrator removes a step of a flow.
EditByHand(f) ==
  /\ flows[f] \notin {Absent, <<>>} /\ edits < MaxEdits
  /\ flows' = [flows EXCEPT ![f] = SubSeq(@, 1, Len(@) - 1)]
  /\ edits' = edits + 1
  /\ edited' = edited \cup {f}
  /\ UNCHANGED <<bound, pc, plan, crashes>>

-----------------------------------------------------------------------------

Init ==
  /\ flows = [f \in Flow |-> Absent] /\ bound = Builtin
  /\ pc = [r \in Run |-> "idle"]
  /\ wanted \in [Run -> Revision]
  /\ fresh = [r \in Run |-> {}] /\ broken = [r \in Run |-> {}]
  /\ seenBound = [r \in Run |-> Builtin]
  /\ at = [r \in Run |-> 1] /\ added = [r \in Run |-> 0]
  /\ crashes = 0 /\ edits = 0 /\ edited = {}

Next ==
  \/ \E r \in Run : (\E d \in Revision : Begin(r, d)) \/ Proceed(r) \/ Refuse(r) \/ Crash(r)
  \/ \E f \in Flow : EditByHand(f)

Spec == Init /\ [][Next]_vars

\* A run is carried to its end, and realm-apply runs again with every definition.
FairSpec ==
  /\ Spec
  /\ \A r \in Run :
       /\ WF_vars(Proceed(r)) /\ WF_vars(Refuse(r))
       /\ \A d \in Revision : SF_vars(Begin(r, d))

-----------------------------------------------------------------------------

\* No sign-in ever runs through a half-built flow: the bound flow is as declared unless
\* somebody edited it by hand, whatever runs stopped part way (buildFlow before bindFlow).
BoundFlowIsWhole == bound # Builtin /\ bound \notin edited => flows[bound] = Whole

\* A run never touches the flow people sign in with, not even one edited by hand, which it
\* refuses instead of rebuilding (rebuildUnbound, ErrFlowChanged).
BoundFlowIsLeftAlone ==
  [][\A f \in Flow : f = bound /\ flows'[f] # flows[f] => EditByHand(f)]_vars

\* A build that stopped part way does not stay so: the next apply deletes it and builds
\* it again whole, unless the bound flow was edited by hand and the apply is refused.
HalfBuiltFlowsAreRebuilt ==
  \A f \in Flow :
    flows[f] \notin {Absent, Whole} /\ f # bound
      ~> flows[f] = Whole \/ f = bound \/ bound \in edited

=============================================================================
