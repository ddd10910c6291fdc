---------------------- MODULE AuthenticationFlowsProofs ----------------------
(***************************************************************************)
(* Proofs about the flow people sign in with, for any flows of any length, *)
(* any definitions, any edits by hand and runs that stop between any two   *)
(* calls.  That it exists holds however runs overlap; that it is whole and *)
(* is left alone, where one run is in progress at a time.                  *)
(***************************************************************************)
EXTENDS AuthenticationFlows, SequenceTheorems, TLAPS

\* A run that rebuilds or builds a flow, and one that has a plan.
Building(r) == pc[r] \in {"delete", "post", "add", "list", "set", "config"}
Planning(r) == pc[r] = "next" \/ Building(r)

Pending(r) == fresh[r] \cup broken[r]

OneRuns == \A q, r \in Run : pc[q] # "idle" /\ pc[r] # "idle" => q = r

\* Keycloak has the flow it binds.
BoundExists == bound # Builtin => bound \in Flow /\ flows[bound] # Absent

\* What a run builds is pending in its plan and is not bound.
Targets ==
  \A r \in Run :
    /\ Planning(r) => seenBound[r] = bound /\ bound \notin fresh[r]
    /\ Building(r) => Current(r) \in Pending(r) /\ Current(r) # bound

\* The declared flows that are not pending are whole, or were edited since.
Progress ==
  \A r \in Run : Planning(r) =>
    \A f \in Declared[wanted[r]] \ Pending(r) : flows[f] = Whole \/ f \in edited

\* The first n steps of a flow that is built, and one more of which that much is set.
Part(n) == [i \in 1..n |-> [step |-> i, set |-> Settings]]

With(n, set) == Append(Part(n - 1), [step |-> n, set |-> set])

\* How far the flow a run builds has come.
Partial ==
  \A r \in Run :
    LET f == Current(r) IN
    /\ pc[r] = "add" /\ f \notin edited => flows[f] = Part(at[r] - 1)
    /\ pc[r] \in {"list", "set", "config"} => at[r] <= Steps
    /\ pc[r] \in {"list", "set"} /\ f \notin edited => flows[f] = With(at[r], {})
    /\ pc[r] = "config" /\ f \notin edited => flows[f] = With(at[r], {"requirement"})
    /\ pc[r] \in {"set", "config"} /\ f \notin edited => added[r] = at[r]

FlowInv ==
  TypeOK /\ OneRuns /\ BoundExists /\ Targets /\ Progress /\ Partial /\ BoundFlowIsWhole

-----------------------------------------------------------------------------
(* Lists of steps. *)

LEMMA PartProperties ==
  ASSUME NEW n \in 0..Steps
  PROVE  Part(n) \in Seq(Step) /\ Len(Part(n)) = n /\ \A i \in 1..n : Part(n)[i] = [step |-> i, set |-> Settings]
<1>1. n \in Nat /\ \A i \in 1..n : [step |-> i, set |-> Settings] \in Step
  BY FlowsAssumption DEF Step
<1>2. Part(n) \in [1..n -> Step]
  BY <1>1 DEF Part
<1> QED
  BY <1>1, <1>2, SeqDef DEF Part

\* The step added is the last.
LEMMA WithProperties ==
  ASSUME NEW n \in 1..Steps, NEW set \in SUBSET Settings
  PROVE  /\ With(n, set) \in Seq(Step) /\ Len(With(n, set)) = n /\ With(n, set)[n] = [step |-> n, set |-> set]
         /\ \A i \in 1..(n - 1) : With(n, set)[i] = [step |-> i, set |-> Settings]
<1>1. n - 1 \in 0..Steps /\ n \in Nat
  BY FlowsAssumption
<1>2. /\ Part(n - 1) \in Seq(Step) /\ Len(Part(n - 1)) = n - 1
      /\ \A i \in 1..(n - 1) : Part(n - 1)[i] = [step |-> i, set |-> Settings]
  BY <1>1, PartProperties
<1>3. [step |-> n, set |-> set] \in Step
  BY DEF Step
<1> QED
  BY <1>1, <1>2, <1>3 DEF With

LEMMA SetStep ==
  ASSUME NEW n \in 1..Steps, NEW S \in SUBSET Settings, NEW T \in SUBSET Settings
  PROVE  [[step |-> n, set |-> S] EXCEPT !.set = T] = [step |-> n, set |-> T]
<1> DEFINE a == [step |-> n, set |-> S]
           b == [a EXCEPT !.set = T]
           c == [step |-> n, set |-> T]
<1>1. a \in Step /\ c \in Step
  BY DEF Step
<1>2. DOMAIN a = {"step", "set"} /\ DOMAIN c = {"step", "set"}
  OBVIOUS
<1>3. DOMAIN b = {"step", "set"}
  BY <1>2
<1>4. b.step = c.step
  OBVIOUS
<1>5. b.set = c.set
  BY <1>2
<1>6. b = [x \in {"step", "set"} |-> b[x]] /\ c = [x \in {"step", "set"} |-> c[x]]
  BY <1>2, <1>3
<1> HIDE DEF b, c
<1> QED
  BY <1>4, <1>5, <1>6 DEF b, c

\* What an update of the step in its place makes of the list.
LEMMA WithSet ==
  ASSUME NEW n \in 1..Steps, NEW S \in SUBSET Settings, NEW x \in Settings, NEW s, s = With(n, S)
  PROVE  [s EXCEPT ![n] = [s[n] EXCEPT !.set = s[n].set \cup {x}]] = With(n, S \cup {x})
<1> DEFINE T == S \cup {x}
           e == [step |-> n, set |-> T]
           t == [s EXCEPT ![n] = e]
           v == With(n, T)
<1>0. T \in SUBSET Settings
  OBVIOUS
<1> HIDE DEF T
<1>1. /\ s \in Seq(Step) /\ Len(s) = n /\ s[n] = [step |-> n, set |-> S] /\ n \in 1..Len(s)
      /\ \A i \in 1..(n - 1) : s[i] = [step |-> i, set |-> Settings]
  BY WithProperties, FlowsAssumption
<1>2. [s[n] EXCEPT !.set = T] = e
  BY <1>0, <1>1, SetStep
<1>3. e \in Step
  BY <1>0 DEF Step
<1> HIDE DEF e
<1>4. t \in Seq(Step) /\ Len(t) = Len(s) /\ \A i \in 1..Len(s) : t[i] = IF i = n THEN e ELSE s[i]
  BY <1>1, <1>3, ExceptSeq
<1>5. /\ v \in Seq(Step) /\ Len(v) = n /\ v[n] = e
      /\ \A i \in 1..(n - 1) : v[i] = [step |-> i, set |-> Settings]
  BY <1>0, WithProperties DEF e
<1>6. ASSUME NEW i \in 1..n PROVE t[i] = v[i]
  <2>1. CASE i = n
    BY <1>1, <1>4, <1>5, <2>1
  <2>2. CASE i \in 1..(n - 1)
    <3>1. t[i] = s[i]
      BY <1>1, <1>4, <2>2, FlowsAssumption
    <3> QED BY <1>1, <1>5, <2>2, <3>1
  <2> QED BY <2>1, <2>2, FlowsAssumption
<1> HIDE DEF t, v
<1>7. t = v
  BY <1>1, <1>4, <1>5, <1>6, SeqEqual
<1>8. s[n].set = S
  BY <1>1
<1> QED BY <1>2, <1>7, <1>8 DEF t, v, T

\* With all of it set, one more step is built.
LEMMA PartGrows == ASSUME NEW n \in 1..Steps PROVE With(n, Settings) = Part(n)
<1>1. n \in 0..Steps /\ n \in Nat /\ Settings \in SUBSET Settings
  BY FlowsAssumption
<1>2. /\ With(n, Settings) \in Seq(Step) /\ Len(With(n, Settings)) = n
      /\ \A i \in 1..n : With(n, Settings)[i] = [step |-> i, set |-> Settings]
  <2>1. /\ With(n, Settings) \in Seq(Step) /\ Len(With(n, Settings)) = n
        /\ With(n, Settings)[n] = [step |-> n, set |-> Settings]
        /\ \A i \in 1..(n - 1) : With(n, Settings)[i] = [step |-> i, set |-> Settings]
    BY <1>1, WithProperties
  <2>2. \A i \in 1..n : i = n \/ i \in 1..(n - 1)
    BY <1>1
  <2> QED BY <2>1, <2>2
<1>3. /\ Part(n) \in Seq(Step) /\ Len(Part(n)) = n
      /\ \A i \in 1..n : Part(n)[i] = [step |-> i, set |-> Settings]
  BY <1>1, PartProperties
<1> QED BY <1>1, <1>2, <1>3, SeqEqual

LEMMA PartEnds == Part(0) = <<>> /\ Part(Steps) = Whole
<1>1. 0 \in 0..Steps /\ Steps \in Nat
  BY FlowsAssumption
<1>2. Part(0) = <<>>
  BY <1>1, PartProperties, EmptySeq
<1> QED
  BY <1>2 DEF Part, Whole

-----------------------------------------------------------------------------
(* However runs overlap. *)

\* What a run builds is pending in its own plan, whatever others do to the flow meanwhile.
InStep ==
  \A r \in Run :
    /\ Building(r) => Current(r) \in Pending(r)
    /\ pc[r] \in {"list", "set", "config"} => at[r] <= Steps

OverlapInv == TypeOK /\ InStep /\ BoundExists

\* A run's plan is its own.
LEMMA SameCurrent ==
  ASSUME NEW r \in Run, fresh'[r] = fresh[r], broken'[r] = broken[r]
  PROVE  Current(r)' = Current(r) /\ Pending(r)' = Pending(r)
  BY DEF Current, Pending

\* An update of a step leaves a list of steps.
LEMMA SendWrites ==
  ASSUME TypeOK, NEW r \in Run, Current(r) \in Flow, NEW x \in Settings, Send(r, x)
  PROVE  LET s == flows[Current(r)]
             n == added[r]
             t == [s EXCEPT ![n] = [s[n] EXCEPT !.set = s[n].set \cup {x}]]
         IN  /\ s \in Seq(Step) /\ n \in 1..Len(s)
             /\ t \in Seq(Step) /\ flows' = [flows EXCEPT ![Current(r)] = t]
<1> DEFINE f == Current(r)
           s == flows[f]
           n == added[r]
           e == [s[n] EXCEPT !.set = s[n].set \cup {x}]
<1>1. s \in Seq(Step) /\ n \in DOMAIN s
  BY DEF Send, TypeOK
<1>2. n \in 1..Len(s) /\ s[n] \in Step
  BY <1>1
<1>3. e \in Step
  BY <1>2 DEF Step
<1>4. flows' = [flows EXCEPT ![f] = [s EXCEPT ![n] = e]]
  BY DEF Send
<1> HIDE DEF e
<1>5. [s EXCEPT ![n] = e] \in Seq(Step)
  BY <1>1, <1>2, <1>3, ExceptSeq
<1> QED BY <1>1, <1>2, <1>4, <1>5 DEF e

\* The calls that write to a flow being built.
Writes(r) == Delete(r) \/ Post(r) \/ AddExecution(r) \/ SetRequirement(r) \/ Configure(r)

\* Each writes a list of steps, or deletes a flow that is not bound.
LEMMA BuildWrites ==
  ASSUME OverlapInv, NEW r \in Run, Writes(r)
  PROVE  /\ Current(r) \in Flow
         /\ \E t \in {Absent} \cup Seq(Step) :
              /\ flows' = [flows EXCEPT ![Current(r)] = t]
              /\ t = Absent => Current(r) # bound
<1> DEFINE f == Current(r)
<1> USE DEF Writes
<1>1. f \in Flow /\ flows[f] \in {Absent} \cup Seq(Step) /\ at[r] \in 1..(Steps + 1) /\ TypeOK
  BY DEF OverlapInv, InStep, TypeOK, Pending, Building, Delete, Post, AddExecution, SetRequirement, Configure, Goto
<1>2. CASE Delete(r)
  BY <1>1, <1>2 DEF Delete
<1>3. CASE Post(r)
  <2>1. <<>> \in Seq(Step)
    BY EmptySeq
  <2>2. <<>> # Absent
    BY <2>1, FlowsAssumption
  <2> QED BY <1>1, <1>3, <2>1, <2>2 DEF Post
<1>4. CASE AddExecution(r)
  <2> DEFINE e == [step |-> at[r], set |-> {}]
  <2>1. e \in Step /\ flows[f] \in Seq(Step) /\ flows' = [flows EXCEPT ![f] = Append(flows[f], e)]
    BY <1>1, <1>4, FlowsAssumption DEF AddExecution, Step
  <2>2. Append(flows[f], e) \in Seq(Step)
    BY <2>1
  <2>3. Append(flows[f], e) # Absent
    BY <2>2, FlowsAssumption
  <2> HIDE DEF e
  <2> QED BY <1>1, <2>1, <2>2, <2>3
<1>5. CASE SetRequirement(r) \/ Configure(r)
  <2>1. PICK x \in Settings : Send(r, x)
    BY <1>5 DEF SetRequirement, Configure, Settings
  <2>2. PICK t \in Seq(Step) : flows' = [flows EXCEPT ![f] = t]
    BY <1>1, <2>1, SendWrites
  <2> QED BY <1>1, <2>2, FlowsAssumption
<1> QED BY <1>2, <1>3, <1>4, <1>5

\* An edit by hand leaves a list of steps.
LEMMA EditWrites ==
  ASSUME TypeOK, NEW f \in Flow, EditByHand(f)
  PROVE  \E t \in Seq(Step) : flows' = [flows EXCEPT ![f] = t]
<1>1. flows[f] \in Seq(Step) /\ flows[f] # <<>>
  BY DEF TypeOK, EditByHand
<1>2. SubSeq(flows[f], 1, Len(flows[f]) - 1) \in Seq(Step)
  <2>1. Len(flows[f]) \in Nat /\ \A i \in 1..Len(flows[f]) : flows[f][i] \in Step
    BY <1>1
  <2> QED BY <1>1, <2>1, SubSeqProperties
<1> QED BY <1>2 DEF EditByHand

LEMMA OverlapStep == ASSUME OverlapInv, [Next]_vars PROVE OverlapInv'
<1> USE FlowsAssumption DEF realm, plan, bounds, Goto, PCs
<1> USE DEF OverlapInv
<1>1. ASSUME NEW r \in Run,
             \/ (\E d \in Revision : Begin(r, d)) \/ Plan(r) \/ Create(r) \/ RebuildUnbound(r)
             \/ ListExecutions(r) \/ Bind(r)
      PROVE  OverlapInv'
  <2>1. \A q \in Run : q # r => Current(q)' = Current(q) /\ Pending(q)' = Pending(q)
    BY <1>1, SameCurrent DEF TypeOK, Begin, Plan, Create, RebuildUnbound, ListExecutions, Bind
  <2>2. CASE \E d \in Revision : Begin(r, d)
    BY <2>1, <2>2 DEF Begin, TypeOK, InStep, BoundExists, Building
  <2>3. CASE Plan(r)
    BY <2>1, <2>3 DEF Plan, TypeOK, InStep, BoundExists, Building
  <2>4. CASE Create(r) \/ RebuildUnbound(r)
    <3>1. /\ Current(r)' = Current(r) /\ Pending(r)' = Pending(r) /\ Current(r) \in Pending(r)
          /\ UNCHANGED <<flows, bound, wanted, fresh, broken, seenBound, at, added, crashes, edits, edited>>
      BY <2>4, SameCurrent DEF Create, RebuildUnbound, Pending
    <3>2. pc \in [Run -> PCs] /\ \E p \in {"post", "delete"} : pc' = [pc EXCEPT ![r] = p]
      BY <2>4 DEF Create, RebuildUnbound, TypeOK
    <3>3. pc' \in [Run -> PCs] /\ pc'[r] \in {"post", "delete"} /\ \A q \in Run : q # r => pc'[q] = pc[q]
      BY <3>2
    <3> QED BY <2>1, <3>1, <3>3 DEF TypeOK, InStep, BoundExists, Building
  <2>5. CASE Bind(r)
    BY <2>1, <2>5 DEF Bind, TypeOK, InStep, BoundExists, Building
  <2>6. CASE ListExecutions(r)
    <3>1. Current(r)' = Current(r) /\ Pending(r)' = Pending(r)
      BY <2>6, SameCurrent DEF ListExecutions
    <3>2. Current(r) \in Pending(r) /\ Len(flows[Current(r)]) \in Nat
      BY <2>6 DEF ListExecutions, InStep, Building, TypeOK, Pending
    <3>3. added' \in [Run -> Nat]
      BY <2>6, <3>2 DEF ListExecutions, TypeOK
    <3>4. /\ pc' = [pc EXCEPT ![r] = "set"] /\ pc[r] = "list"
          /\ UNCHANGED <<flows, bound, wanted, fresh, broken, seenBound, at, crashes, edits, edited>>
      BY <2>6 DEF ListExecutions
    <3> QED BY <2>1, <3>1, <3>2, <3>3, <3>4 DEF TypeOK, InStep, BoundExists, Building
  <2> QED BY <1>1, <2>2, <2>3, <2>4, <2>5, <2>6
<1>2. ASSUME NEW r \in Run, Writes(r)
      PROVE  OverlapInv'
  <2>1. \A q \in Run : Current(q)' = Current(q) /\ Pending(q)' = Pending(q)
    BY <1>2, SameCurrent DEF Writes, Delete, Post, AddExecution, SetRequirement, Configure
  <2>2. PICK t \in {Absent} \cup Seq(Step) :
          flows' = [flows EXCEPT ![Current(r)] = t] /\ (t = Absent => Current(r) # bound)
    BY <1>2, BuildWrites
  <2> DEFINE Effect ==
        /\ pc' \in [Run -> PCs] /\ \A q \in Run : q # r => pc'[q] = pc[q] /\ at'[q] = at[q]
        /\ at' \in [Run -> 1..(Steps + 1)] /\ Building(r)
        /\ pc'[r] \in {"list", "set", "config"} => at'[r] <= Steps
        /\ edited' \in SUBSET Flow /\ UNCHANGED <<bound, wanted, fresh, broken, seenBound, added, crashes, edits>>
  <2>3. Effect
    <3>0. /\ pc \in [Run -> PCs] /\ at \in [Run -> 1..(Steps + 1)] /\ edited \in SUBSET Flow
          /\ pc[r] \in {"list", "set", "config"} => at[r] <= Steps
      BY DEF TypeOK, InStep
    <3>1. CASE Delete(r)
      BY <3>0, <3>1 DEF Delete, Building
    <3>2. CASE Post(r)
      BY <3>0, <3>2 DEF Post, Building
    <3>3. CASE AddExecution(r)
      BY <3>0, <3>3 DEF AddExecution, Building
    <3>4. CASE SetRequirement(r)
      BY <3>0, <3>4 DEF SetRequirement, Building
    <3>5. CASE Configure(r)
      BY <3>0, <3>5 DEF Configure, Building
    <3> QED BY <1>2, <3>1, <3>2, <3>3, <3>4, <3>5 DEF Writes
  <2>4. flows' \in [Flow -> {Absent} \cup Seq(Step)] /\ BoundExists'
    BY <1>2, <2>2, <2>3, BuildWrites DEF TypeOK, BoundExists
  <2>5. TypeOK'
    BY <2>3, <2>4 DEF TypeOK
  <2>6. InStep'
    <3>1. ASSUME NEW q \in Run, q # r
          PROVE  (Building(q)' => Current(q)' \in Pending(q)') /\ (pc'[q] \in {"list", "set", "config"} => at'[q] <= Steps)
      BY <2>1, <2>3, <3>1 DEF InStep, Building
    <3>2. Current(r)' \in Pending(r)' /\ (pc'[r] \in {"list", "set", "config"} => at'[r] <= Steps)
      BY <2>1, <2>3 DEF InStep
    <3> QED BY <3>1, <3>2 DEF InStep
  <2> QED BY <2>4, <2>5, <2>6
<1>3. ASSUME NEW r \in Run, Built(r) PROVE OverlapInv'
  <2>1. \A q \in Run : q # r => Current(q)' = Current(q) /\ Pending(q)' = Pending(q)
    BY <1>3, SameCurrent DEF TypeOK, Built
  <2> QED BY <1>3, <2>1 DEF Built, TypeOK, InStep, BoundExists, Building
<1>4. ASSUME NEW r \in Run, Verify(r) \/ Refuse(r) \/ Crash(r) PROVE OverlapInv'
  <2>1. End(r) /\ UNCHANGED <<flows, bound, wanted, edited>> /\ crashes' \in 0..MaxCrashes /\ edits' \in 0..MaxEdits
    BY <1>4 DEF Verify, Refuse, Crash, TypeOK
  <2>2. \A q \in Run : q # r => Current(q)' = Current(q) /\ Pending(q)' = Pending(q)
    BY <2>1, SameCurrent DEF TypeOK, End
  <2> QED BY <2>1, <2>2 DEF End, TypeOK, InStep, BoundExists, Building
<1>5. ASSUME NEW f \in Flow, EditByHand(f) PROVE OverlapInv'
  <2>1. \A q \in Run : Current(q)' = Current(q) /\ Pending(q)' = Pending(q)
    BY <1>5, SameCurrent DEF EditByHand
  <2>2. PICK t \in Seq(Step) : flows' = [flows EXCEPT ![f] = t]
    BY <1>5, EditWrites
  <2>3. edits' \in 0..MaxEdits /\ edited' \in SUBSET Flow
        /\ UNCHANGED <<bound, pc, wanted, fresh, broken, seenBound, at, added, crashes>>
    BY <1>5 DEF EditByHand, TypeOK
  <2> QED BY <2>1, <2>2, <2>3 DEF TypeOK, InStep, BoundExists, Building
<1>6. CASE UNCHANGED vars
  BY <1>6, SameCurrent DEF vars, TypeOK, InStep, BoundExists, Building
<1> QED BY <1>1, <1>2, <1>3, <1>4, <1>5, <1>6 DEF Next, Proceed, Writes

LEMMA OverlapInvHolds == Spec => []OverlapInv
<1>1. Init => OverlapInv
  BY FlowsAssumption DEF Init, OverlapInv, TypeOK, InStep, BoundExists, Building, PCs
<1>2. OverlapInv /\ [Next]_vars => OverlapInv'
  BY OverlapStep
<1> QED BY <1>1, <1>2, PTL DEF Spec

\* Every step keeps the variables' types, the flows' lists of steps included, however many
\* runs overlap.
THEOREM FlowTypes == Spec => []TypeOK
<1>1. OverlapInv => TypeOK
  BY DEF OverlapInv
<1> QED BY <1>1, OverlapInvHolds, PTL

\* Whatever runs do to one another's flows, sign-ins have a flow to run through: none is
\* bound before it exists (bindFlow after buildFlow) or deleted while it is bound.
THEOREM BoundFlowAlwaysExists == Spec => []BoundExists
<1>1. OverlapInv => BoundExists
  BY DEF OverlapInv
<1> QED BY <1>1, OverlapInvHolds, PTL

-----------------------------------------------------------------------------
(* The steps, while one run at most is in progress. *)

LEMMA FlowInvInit == Init => FlowInv
  BY FlowsAssumption DEF Init, FlowInv, TypeOK, OneRuns, BoundExists, Targets, Progress, Partial, BoundFlowIsWhole,
     Planning, Building, PCs

\* A run alone with the realm, on which nothing it has planned changes.
LEMMA EndStep ==
  ASSUME FlowInv, NEW r \in Run, End(r), UNCHANGED <<realm, wanted, edited>>,
         crashes' \in 0..MaxCrashes, edits' \in 0..MaxEdits
  PROVE  FlowInv'
<1> USE DEF FlowInv, End, realm
<1>1. /\ pc'[r] = "idle" \/ r \notin DOMAIN pc
      /\ \A q \in Run \ {r} : pc'[q] = pc[q] /\ fresh'[q] = fresh[q] /\ broken'[q] = broken[q]
                            /\ seenBound'[q] = seenBound[q] /\ at'[q] = at[q] /\ added'[q] = added[q]
  BY DEF TypeOK
<1>2. TypeOK'
  BY FlowsAssumption DEF TypeOK, PCs
<1>3. \A q \in Run : pc'[q] # "idle" => pc'[q] = pc[q] /\ q # r
  BY <1>1 DEF TypeOK
<1>4. OneRuns' /\ BoundExists' /\ BoundFlowIsWhole'
  BY <1>3 DEF OneRuns, BoundExists, BoundFlowIsWhole
<1>5. \A q \in Run \ {r} : Current(q)' = Current(q) /\ Pending(q)' = Pending(q)
  BY <1>1 DEF Current, Pending
<1>6. Targets' /\ Progress' /\ Partial'
  BY <1>1, <1>3, <1>5 DEF Targets, Progress, Partial, Planning, Building
<1> QED
  BY <1>2, <1>4, <1>6

\* No other run is in progress beside one that is.
LEMMA Alone ==
  ASSUME FlowInv, NEW r \in Run, NEW c \in PCs, pc[r] # "idle", pc' = [pc EXCEPT ![r] = c]
  PROVE  /\ pc' \in [Run -> PCs] /\ pc'[r] = c
         /\ \A q \in Run : q # r => pc'[q] = "idle" /\ pc[q] = "idle"
         /\ OneRuns'
  BY DEF FlowInv, OneRuns, TypeOK

LEMMA FlowInvStep == ASSUME RunsTakeTurns, FlowInv, [Next]_vars PROVE FlowInv'
<1> USE FlowsAssumption DEF realm, plan, bounds, Goto, PCs
<1> USE DEF FlowInv
<1>1. ASSUME NEW r \in Run, NEW d \in Revision, Begin(r, d) PROVE FlowInv'
  BY <1>1 DEF Begin, TypeOK, OneRuns, BoundExists, Targets, Progress, Partial, BoundFlowIsWhole, Planning, Building
<1>2. ASSUME NEW r \in Run, Plan(r) PROVE FlowInv'
  <2> DEFINE differ == {f \in Declared[wanted[r]] : flows[f] # Whole}
             new == {f \in differ : flows[f] = Absent}
             old == {f \in differ : flows[f] # Absent}
  <2>1. pc'[r] = "next" /\ (\A q \in Run : q # r => pc'[q] = "idle") /\ OneRuns' /\ pc' \in [Run -> PCs]
    BY <1>2, Alone DEF Plan
  <2>2. /\ fresh' = [fresh EXCEPT ![r] = new] /\ broken' = [broken EXCEPT ![r] = old]
        /\ seenBound' = [seenBound EXCEPT ![r] = bound]
        /\ UNCHANGED <<flows, bound, wanted, at, added, crashes, edits, edited>>
    BY <1>2 DEF Plan
  <2>3. new \in SUBSET Flow /\ old \in SUBSET Flow /\ new \cup old = differ /\ bound \notin new
    BY DEF TypeOK, BoundExists
  <2> HIDE DEF new, old
  <2>4. fresh'[r] = new /\ broken'[r] = old /\ seenBound'[r] = bound
    BY <2>2 DEF TypeOK
  <2>5. TypeOK'
    BY <2>1, <2>2, <2>3 DEF TypeOK
  <2>6. BoundExists' /\ BoundFlowIsWhole' /\ Targets' /\ Partial'
    BY <2>1, <2>2, <2>3, <2>4 DEF BoundExists, BoundFlowIsWhole, Targets, Partial, Planning, Building
  <2>7. Progress'
    BY <2>1, <2>2, <2>3, <2>4 DEF Progress, Planning, Building, Pending
  <2> QED BY <2>1, <2>5, <2>6, <2>7
<1>3. ASSUME NEW r \in Run, Create(r) PROVE FlowInv'
  BY <1>3, SameCurrent DEF Create, TypeOK, OneRuns, BoundExists, Targets, Progress, Partial, BoundFlowIsWhole, Planning, Building, Pending
<1>4. ASSUME NEW r \in Run, RebuildUnbound(r) PROVE FlowInv'
  BY <1>4, SameCurrent DEF RebuildUnbound, TypeOK, OneRuns, BoundExists, Targets, Progress, Partial, BoundFlowIsWhole, Planning, Building, Pending
<1>5. ASSUME NEW r \in Run, Delete(r) PROVE FlowInv'
  <2> DEFINE f == Current(r)
  <2> USE <1>5 DEF Delete
  <2>1. pc'[r] = "post" /\ (\A q \in Run : q # r => pc'[q] = "idle") /\ OneRuns' /\ pc' \in [Run -> PCs]
    BY Alone
  <2>2. f \in Pending(r) /\ f # bound /\ seenBound[r] = bound /\ bound \notin fresh[r]
    BY DEF Targets, Planning, Building
  <2>3. f' = f /\ Pending(r)' = Pending(r)
    BY SameCurrent
  <2>4. f \in Flow
    BY <2>2 DEF Pending, TypeOK
  <2> HIDE DEF f
  <2>5. /\ flows' = [flows EXCEPT ![f] = Absent] /\ edited' = edited \ {f}
        /\ UNCHANGED <<bound, wanted, fresh, broken, seenBound, at, added, crashes, edits>>
    BY DEF f
  <2>6. \A g \in Flow : g # f => flows'[g] = flows[g] /\ (g \in edited <=> g \in edited')
    BY <2>5 DEF TypeOK
  <2>11. flows' \in [Flow -> {Absent} \cup Seq(Step)] /\ edited' \in SUBSET Flow
    <3>1. flows \in [Flow -> {Absent} \cup Seq(Step)] /\ edited \in SUBSET Flow
      BY DEF TypeOK
    <3> QED BY <2>5, <3>1
  <2>7. TypeOK'
    BY <2>1, <2>5, <2>11 DEF TypeOK
  <2>8. BoundExists' /\ BoundFlowIsWhole'
    BY <2>2, <2>5, <2>6 DEF BoundExists, BoundFlowIsWhole, TypeOK
  <2>9. Targets' /\ Partial'
    BY <2>1, <2>2, <2>3, <2>5 DEF f, Targets, Partial, Planning, Building
  <2>10. Progress'
    <3>1. ASSUME NEW g \in Declared[wanted[r]] \ Pending(r) PROVE flows'[g] = Whole \/ g \in edited'
      <4>1. g # f /\ g \in Flow /\ (flows[g] = Whole \/ g \in edited)
        BY <2>2 DEF Progress, Planning, Building, TypeOK
      <4> QED
        BY <2>6, <4>1
    <3> QED
      BY <2>1, <2>3, <2>5, <3>1 DEF Progress, Planning, Building
  <2> QED
    BY <2>1, <2>7, <2>8, <2>9, <2>10
<1>6. ASSUME NEW r \in Run, Post(r) PROVE FlowInv'
  <2> DEFINE f == Current(r)
  <2> USE <1>6 DEF Post
  <2>1. pc'[r] = "add" /\ (\A q \in Run : q # r => pc'[q] = "idle") /\ OneRuns' /\ pc' \in [Run -> PCs]
    BY Alone
  <2>2. f \in Pending(r) /\ f # bound /\ seenBound[r] = bound /\ bound \notin fresh[r]
    BY DEF Targets, Planning, Building
  <2>3. f' = f /\ Pending(r)' = Pending(r)
    BY SameCurrent
  <2>4. f \in Flow
    BY <2>2 DEF Pending, TypeOK
  <2> HIDE DEF f
  <2>5. /\ flows' = [flows EXCEPT ![f] = <<>>] /\ at' = [at EXCEPT ![r] = 1]
        /\ UNCHANGED <<bound, wanted, fresh, broken, seenBound, added, crashes, edits, edited>>
    BY DEF f
  <2>6. flows'[f] = <<>> /\ at'[r] = 1 /\ \A g \in Flow : g # f => flows'[g] = flows[g]
    BY <2>4, <2>5 DEF TypeOK
  <2>7. TypeOK'
    <3>1. <<>> \in Seq(Step) /\ 1 \in 1..(Steps + 1)
      BY EmptySeq
    <3>2. at' \in [Run -> 1..(Steps + 1)]
      BY <2>5, <3>1 DEF TypeOK
    <3>3. flows \in [Flow -> {Absent} \cup Seq(Step)]
      BY DEF TypeOK
    <3>4. flows' \in [Flow -> {Absent} \cup Seq(Step)]
      BY <2>5, <3>1, <3>3, Zenon
    <3> QED BY <2>1, <2>5, <3>2, <3>4 DEF TypeOK
  <2>8. BoundExists' /\ BoundFlowIsWhole'
    BY <2>2, <2>5, <2>6 DEF BoundExists, BoundFlowIsWhole, TypeOK
  <2>9. Targets'
    BY <2>1, <2>2, <2>3, <2>5 DEF f, Targets, Planning, Building
  <2>11. Partial'
    BY <2>1, <2>3, <2>6, PartEnds DEF f, Partial
  <2>10. Progress'
    <3>1. ASSUME NEW g \in Declared[wanted[r]] \ Pending(r) PROVE flows'[g] = Whole \/ g \in edited'
      <4>1. g # f /\ g \in Flow /\ (flows[g] = Whole \/ g \in edited)
        BY <2>2 DEF Progress, Planning, Building, TypeOK
      <4> QED
        BY <2>5, <2>6, <4>1
    <3> QED
      BY <2>1, <2>3, <2>5, <3>1 DEF Progress, Planning, Building
  <2> QED
    BY <2>1, <2>7, <2>8, <2>9, <2>10, <2>11
<1>7. ASSUME NEW r \in Run, AddExecution(r) PROVE FlowInv'
  <2> DEFINE f == Current(r)
             e == [step |-> at[r], set |-> {}]
  <2> USE <1>7 DEF AddExecution
  <2>1. pc'[r] = "list" /\ (\A q \in Run : q # r => pc'[q] = "idle") /\ OneRuns' /\ pc' \in [Run -> PCs]
    BY Alone
  <2>2. f \in Pending(r) /\ f # bound /\ seenBound[r] = bound /\ bound \notin fresh[r]
    BY DEF Targets, Planning, Building
  <2>3. f' = f /\ Pending(r)' = Pending(r)
    BY SameCurrent
  <2>4. f \in Flow /\ flows[f] \in Seq(Step) /\ at[r] \in 1..(Steps + 1)
    BY <2>2 DEF Pending, TypeOK
  <2> HIDE DEF f
  <2>5. /\ flows' = [flows EXCEPT ![f] = Append(flows[f], e)]
        /\ UNCHANGED <<bound, wanted, fresh, broken, seenBound, at, added, crashes, edits, edited>>
    BY DEF f
  <2>6. \A g \in Flow : g # f => flows'[g] = flows[g]
    BY <2>5 DEF TypeOK
  <2>7. e \in Step /\ at[r] <= Steps
    BY <2>4 DEF Step
  <2>8. flows'[f] = Append(flows[f], e) /\ Append(flows[f], e) \in Seq(Step)
    BY <2>4, <2>5, <2>7 DEF TypeOK
  <2>9. TypeOK'
    BY <2>1, <2>4, <2>5, <2>8 DEF TypeOK
  <2>11. BoundExists' /\ BoundFlowIsWhole'
    BY <2>2, <2>5, <2>6 DEF BoundExists, BoundFlowIsWhole, TypeOK
  <2>12. Targets'
    BY <2>1, <2>2, <2>3, <2>5 DEF f, Targets, Planning, Building
  <2>13. Partial'
    <3>1. f \notin edited => flows[f] = Part(at[r] - 1)
      BY DEF f, Partial
    <3>2. f \notin edited => flows'[f] = With(at[r], {})
      BY <2>8, <3>1 DEF With
    <3> QED
      BY <2>1, <2>3, <2>5, <2>7, <3>2 DEF f, Partial
  <2>10. Progress'
    <3>1. ASSUME NEW g \in Declared[wanted[r]] \ Pending(r) PROVE flows'[g] = Whole \/ g \in edited'
      <4>1. g # f /\ g \in Flow /\ (flows[g] = Whole \/ g \in edited)
        BY <2>2 DEF Progress, Planning, Building, TypeOK
      <4> QED
        BY <2>5, <2>6, <4>1
    <3> QED
      BY <2>1, <2>3, <2>5, <3>1 DEF Progress, Planning, Building
  <2> QED
    BY <2>1, <2>9, <2>10, <2>11, <2>12, <2>13
<1>16. ASSUME NEW r \in Run, ListExecutions(r) PROVE FlowInv'
  <2> DEFINE f == Current(r)
  <2> USE <1>16 DEF ListExecutions
  <2>1. pc'[r] = "set" /\ (\A q \in Run : q # r => pc'[q] = "idle") /\ OneRuns' /\ pc' \in [Run -> PCs]
    BY Alone
  <2>2. f \in Pending(r) /\ f # bound /\ seenBound[r] = bound /\ bound \notin fresh[r]
    BY DEF Targets, Planning, Building
  <2>3. f' = f /\ Pending(r)' = Pending(r)
    BY SameCurrent
  <2>4. f \in Flow /\ flows[f] \in Seq(Step) /\ at[r] \in 1..Steps
    <3>1. f \in Flow /\ at[r] \in 1..(Steps + 1) /\ flows[f] \in {Absent} \cup Seq(Step)
      BY <2>2 DEF Pending, TypeOK
    <3>2. at[r] <= Steps
      BY DEF Partial
    <3> QED BY <3>1, <3>2
  <2>5. /\ added' = [added EXCEPT ![r] = Len(flows[f])]
        /\ UNCHANGED <<flows, bound, wanted, fresh, broken, seenBound, at, crashes, edits, edited>>
    OBVIOUS
  <2> HIDE DEF f
  <2>6. added' \in [Run -> Nat] /\ added'[r] = Len(flows[f])
    BY <2>4, <2>5 DEF TypeOK
  <2>7. TypeOK'
    BY <2>1, <2>5, <2>6 DEF TypeOK
  <2>8. BoundExists' /\ BoundFlowIsWhole'
    BY <2>5 DEF BoundExists, BoundFlowIsWhole
  <2>9. Targets' /\ Progress'
    BY <2>1, <2>2, <2>3, <2>5 DEF f, Targets, Progress, Planning, Building
  <2>10. f \notin edited => flows[f] = With(at[r], {})
    BY DEF f, Partial
  <2>11. Len(With(at[r], {})) = at[r]
    BY <2>4, WithProperties
  <2>12. Partial'
    BY <2>1, <2>3, <2>4, <2>5, <2>6, <2>10, <2>11 DEF f, Partial
  <2> QED
    BY <2>1, <2>7, <2>8, <2>9, <2>12
<1>8. ASSUME NEW r \in Run, SetRequirement(r) \/ Configure(r) PROVE FlowInv'
  <2> DEFINE f == Current(r)
             n == added[r]
  <2>0. PICK x \in Settings :
          /\ Send(r, x) /\ UNCHANGED <<bound, wanted, fresh, broken, seenBound, added, crashes, edits, edited>>
          /\ \/ pc[r] = "set" /\ pc' = [pc EXCEPT ![r] = "config"] /\ x = "requirement" /\ at' = at
             \/ pc[r] = "config" /\ pc' = [pc EXCEPT ![r] = "add"] /\ x = "config" /\ at' = [at EXCEPT ![r] = @ + 1]
    BY <1>8 DEF SetRequirement, Configure, Settings
  <2>1. /\ pc'[r] = (IF pc[r] = "set" THEN "config" ELSE "add") /\ pc' \in [Run -> PCs] /\ OneRuns'
        /\ \A q \in Run : q # r => pc'[q] = "idle"
    BY <2>0, Alone
  <2>2. f \in Pending(r) /\ f # bound /\ seenBound[r] = bound /\ bound \notin fresh[r]
    BY <2>0 DEF Targets, Planning, Building
  <2>3. f' = f /\ Pending(r)' = Pending(r)
    BY <2>0, SameCurrent
  <2>4. f \in Flow /\ at[r] \in 1..Steps /\ at \in [Run -> 1..(Steps + 1)]
    BY <2>0, <2>2 DEF Pending, TypeOK, Partial
  <2> DEFINE s == flows[f]
             t == [s EXCEPT ![n] = [s[n] EXCEPT !.set = s[n].set \cup {x}]]
  <2>5. s \in Seq(Step) /\ t \in Seq(Step) /\ flows' = [flows EXCEPT ![f] = t]
    BY <2>0, <2>4, SendWrites
  <2> HIDE DEF t
  <2>6. flows'[f] = t /\ \A g \in Flow : g # f => flows'[g] = flows[g]
    BY <2>4, <2>5 DEF TypeOK
  <2>7. flows' \in [Flow -> {Absent} \cup Seq(Step)]
    BY <2>4, <2>5 DEF TypeOK
  <2>8. at' \in [Run -> 1..(Steps + 1)] /\ at'[r] = (IF pc[r] = "set" THEN at[r] ELSE at[r] + 1)
    <3>1. at[r] + 1 \in 1..(Steps + 1)
      BY <2>4
    <3> QED BY <2>0, <2>4, <3>1
  <2>9. TypeOK'
    BY <2>0, <2>1, <2>7, <2>8 DEF TypeOK
  <2>11. BoundExists' /\ BoundFlowIsWhole'
    BY <2>0, <2>2, <2>6 DEF BoundExists, BoundFlowIsWhole, TypeOK
  <2>12. Targets'
    BY <2>0, <2>1, <2>2, <2>3 DEF f, Targets, Planning, Building
  <2>13. Partial'
    <3>1. ASSUME f \notin edited
          PROVE  t = IF pc[r] = "set" THEN With(at[r], {"requirement"}) ELSE Part(at[r])
      <4>1. n = at[r] /\ s = With(at[r], IF pc[r] = "set" THEN {} ELSE {"requirement"})
        BY <2>0, <3>1 DEF f, Partial
      <4> DEFINE S == IF pc[r] = "set" THEN {} ELSE {"requirement"}
      <4>2. S \in SUBSET Settings /\ S \cup {x} = IF pc[r] = "set" THEN {"requirement"} ELSE Settings
        BY <2>0 DEF Settings
      <4> HIDE DEF S
      <4>3. t = With(at[r], S \cup {x})
        <5>1. s = With(at[r], S) /\ t = [s EXCEPT ![at[r]] = [s[at[r]] EXCEPT !.set = s[at[r]].set \cup {x}]]
          BY <4>1 DEF S, t
        <5> DEFINE m == at[r]
        <5>2. m \in 1..Steps
          BY <2>4
        <5> HIDE DEF s, t, m
        <5>3. [s EXCEPT ![m] = [s[m] EXCEPT !.set = s[m].set \cup {x}]] = With(m, S \cup {x})
          BY <4>2, <5>1, <5>2, WithSet DEF m
        <5> QED BY <5>1, <5>3 DEF m
      <4> QED BY <2>4, <4>2, <4>3, PartGrows
    <3>2. at[r] + 1 - 1 = at[r] /\ (f \notin edited => added'[r] = at[r]) /\ edited' = edited
      BY <2>0, <2>4 DEF f, Partial
    <3>3. CASE pc[r] = "set"
      <4>1. pc'[r] = "config" /\ at'[r] = at[r] /\ (f \notin edited => flows'[f] = With(at[r], {"requirement"}))
        BY <2>1, <2>6, <2>8, <3>1, <3>3
      <4> QED BY <2>1, <2>3, <2>4, <3>2, <4>1 DEF f, Partial
    <3>4. CASE pc[r] # "set"
      <4>1. pc'[r] = "add" /\ at'[r] = at[r] + 1 /\ (f \notin edited => flows'[f] = Part(at[r]))
        BY <2>1, <2>6, <2>8, <3>1, <3>4
      <4>3. at'[r] - 1 = at[r]
        BY <2>4, <4>1
      <4>2. f' \notin edited' => flows'[f'] = Part(at'[r] - 1)
        BY <2>3, <3>2, <4>1, <4>3, Zenon
      <4> QED BY <2>1, <4>1, <4>2 DEF f, Partial
    <3> QED BY <3>3, <3>4
  <2>10. Progress'
    <3>1. ASSUME NEW g \in Declared[wanted[r]] \ Pending(r) PROVE flows'[g] = Whole \/ g \in edited'
      <4>1. g # f /\ g \in Flow /\ (flows[g] = Whole \/ g \in edited)
        BY <2>0, <2>2 DEF Progress, Planning, Building, TypeOK
      <4> QED
        BY <2>0, <2>6, <4>1
    <3> QED
      BY <2>0, <2>1, <2>3, <3>1 DEF Progress, Planning, Building
  <2> QED
    BY <2>1, <2>9, <2>10, <2>11, <2>12, <2>13
<1>9. ASSUME NEW r \in Run, Built(r) PROVE FlowInv'
  <2> DEFINE f == Current(r)
  <2> USE <1>9 DEF Built
  <2>1. pc'[r] = "next" /\ (\A q \in Run : q # r => pc'[q] = "idle") /\ OneRuns' /\ pc' \in [Run -> PCs]
    BY Alone
  <2>2. f \in Pending(r) /\ f # bound /\ seenBound[r] = bound /\ bound \notin fresh[r]
    BY DEF Targets, Planning, Building
  <2>8. at[r] - 1 = Steps
    BY DEF TypeOK
  <2>3. f \notin edited => flows[f] = Whole
    BY <2>8, PartEnds DEF Partial
  <2> HIDE DEF f
  <2>4. /\ fresh' = [fresh EXCEPT ![r] = fresh[r] \ {f}] /\ broken' = [broken EXCEPT ![r] = broken[r] \ {f}]
        /\ UNCHANGED <<flows, bound, wanted, seenBound, at, added, crashes, edits, edited>>
    BY DEF f
  <2>5. Pending(r)' = Pending(r) \ {f}
    BY <2>4 DEF Pending, TypeOK
  <2>6. TypeOK' /\ BoundExists' /\ BoundFlowIsWhole' /\ Targets' /\ Partial'
    BY <2>1, <2>2, <2>4 DEF TypeOK, BoundExists, BoundFlowIsWhole, Targets, Partial, Planning, Building
  <2>7. Progress'
    <3>1. ASSUME NEW g \in Declared[wanted[r]], g \notin Pending(r)' PROVE flows[g] = Whole \/ g \in edited
      BY <2>3, <2>5, <3>1 DEF Progress, Planning, Building
    <3> QED
      BY <2>1, <2>4, <3>1 DEF Progress, Planning, Building
  <2> QED
    BY <2>1, <2>6, <2>7
<1>10. ASSUME NEW r \in Run, Bind(r) PROVE FlowInv'
  <2> DEFINE g == Binds[wanted[r]]
  <2>1. pc'[r] = "verify" /\ (\A q \in Run : q # r => pc'[q] = "idle") /\ OneRuns' /\ pc' \in [Run -> PCs]
    BY <1>10, Alone DEF Bind
  <2>2. g \in Declared[wanted[r]] /\ g \in Flow /\ g \notin Pending(r)
    BY <1>10 DEF Bind, Pending, TypeOK
  <2>3. flows[g] # Absent /\ (flows[g] = Whole \/ g \in edited)
    BY <1>10, <2>2 DEF Bind, Progress, Planning
  <2>4. UNCHANGED <<flows, wanted, fresh, broken, seenBound, at, added, crashes, edits, edited>> /\ bound' \in {bound, g}
    BY <1>10 DEF Bind
  <2>5. TypeOK'
    BY <2>1, <2>2, <2>4 DEF TypeOK
  <2>6. BoundExists' /\ BoundFlowIsWhole'
    BY <2>2, <2>3, <2>4 DEF BoundExists, BoundFlowIsWhole
  <2>7. Targets' /\ Progress' /\ Partial'
    BY <2>1 DEF Targets, Progress, Partial, Planning, Building
  <2> QED BY <2>1, <2>5, <2>6, <2>7
<1>11. ASSUME NEW r \in Run, Verify(r) PROVE FlowInv'
  BY <1>11, EndStep DEF Verify, TypeOK
<1>12. ASSUME NEW r \in Run, Refuse(r) PROVE FlowInv'
  BY <1>12, EndStep DEF Refuse, TypeOK
<1>13. ASSUME NEW r \in Run, Crash(r) PROVE FlowInv'
  BY <1>13, EndStep DEF Crash, TypeOK
<1>14. ASSUME NEW f \in Flow, EditByHand(f) PROVE FlowInv'
  <2> USE <1>14 DEF EditByHand
  <2>1. /\ flows' = [flows EXCEPT ![f] = SubSeq(flows[f], 1, Len(flows[f]) - 1)]
        /\ UNCHANGED <<bound, pc, wanted, fresh, broken, seenBound, at, added, crashes>>
        /\ edits' = edits + 1 /\ edits' \in 0..MaxEdits /\ edited' = edited \cup {f}
    BY DEF TypeOK
  <2>2. flows[f] \in Seq(Step) /\ flows[f] # <<>>
    BY DEF TypeOK
  <2>3. SubSeq(flows[f], 1, Len(flows[f]) - 1) \in Seq(Step)
    <3>1. Len(flows[f]) \in Nat /\ \A i \in 1..Len(flows[f]) : flows[f][i] \in Step
      BY <2>2
    <3> QED
      BY <2>2, <3>1, SubSeqProperties
  <2> DEFINE t == SubSeq(flows[f], 1, Len(flows[f]) - 1)
  <2> HIDE DEF t
  <2>11. flows' = [flows EXCEPT ![f] = t] /\ t \in Seq(Step) /\ t # Absent
    BY <2>1, <2>3 DEF t
  <2>12. flows \in [Flow -> {Absent} \cup Seq(Step)]
    BY DEF TypeOK
  <2>13. flows'[f] = t /\ \A g \in Flow : g # f => flows'[g] = flows[g]
    BY <2>11, <2>12
  <2>4. flows'[f] \in Seq(Step) /\ flows'[f] # Absent /\ \A g \in Flow : g # f => flows'[g] = flows[g]
    BY <2>11, <2>13
  <2>5. TypeOK'
    BY <2>1, <2>3 DEF TypeOK
  <2>6. \A r \in Run : Current(r)' = Current(r) /\ Pending(r)' = Pending(r)
    BY <2>1, SameCurrent
  <2>7. OneRuns' /\ BoundExists' /\ BoundFlowIsWhole'
    BY <2>1, <2>4 DEF OneRuns, BoundExists, BoundFlowIsWhole, TypeOK
  <2>8. Targets'
    BY <2>1, <2>6 DEF Targets, Planning, Building
  <2>9. Progress'
    <3>1. ASSUME NEW r \in Run, Planning(r), NEW g \in Declared[wanted[r]] \ Pending(r)
          PROVE  flows'[g] = Whole \/ g \in edited'
      <4>1. g \in Flow /\ (flows[g] = Whole \/ g \in edited)
        BY <3>1 DEF Progress, TypeOK
      <4> QED
        BY <2>1, <2>4, <4>1
    <3> QED
      BY <2>1, <2>6, <3>1 DEF Progress, Planning, Building
  <2>10. Partial'
    <3>1. ASSUME NEW r \in Run, pc[r] \in {"add", "list", "set", "config"}, Current(r) \notin edited'
          PROVE  flows'[Current(r)] = flows[Current(r)]
      <4>1. Current(r) \in Flow /\ Current(r) # f
        BY <2>1, <3>1 DEF Targets, Building, Pending, TypeOK
      <4> QED
        BY <2>4, <4>1
    <3> QED
      BY <2>1, <2>6, <3>1 DEF Partial
  <2> QED
    BY <2>5, <2>7, <2>8, <2>9, <2>10
<1>15. CASE UNCHANGED vars
  BY <1>15, SameCurrent DEF vars, TypeOK, OneRuns, BoundExists, Targets, Progress, Partial, BoundFlowIsWhole, Planning, Building, Pending
<1> QED
  BY <1>1, <1>2, <1>3, <1>4, <1>5, <1>6, <1>7, <1>8, <1>9, <1>10, <1>11, <1>12, <1>13, <1>14, <1>15, <1>16
     DEF Next, Proceed

-----------------------------------------------------------------------------
(* The results. *)

\* What a run has built is what its plan has left unbuilt taken from the declaration, step
\* by step, and the bound flow is never among it (buildFlow, rebuildUnbound, bindFlow).
THEOREM FlowInvHolds == ASSUME RunsTakeTurns PROVE Spec => []FlowInv
<1>1. Init => FlowInv
  BY FlowInvInit
<1>2. FlowInv /\ [Next]_vars => FlowInv'
  BY FlowInvStep
<1> QED
  BY <1>1, <1>2, PTL DEF Spec

\* No sign-in ever runs through a flow a stopped run left half built: bindFlow comes after
\* every buildFlow, and a rebuild skips the bound flow (rebuildUnbound).
THEOREM BoundFlowStaysWhole == ASSUME RunsTakeTurns PROVE Spec => []BoundFlowIsWhole
<1>1. FlowInv => BoundFlowIsWhole
  BY DEF FlowInv
<1> QED
  BY <1>1, FlowInvHolds, PTL

\* No call of a run changes the bound flow, whatever stopped before it (ErrFlowChanged).
THEOREM BoundFlowIsNotTouched == ASSUME RunsTakeTurns PROVE Spec => BoundFlowIsLeftAlone
<1>1. ASSUME FlowInv, [Next]_vars, NEW f \in Flow, f = bound, flows'[f] # flows[f] PROVE EditByHand(f)
  <2> USE <1>1 DEF realm, plan, bounds, Goto, End, FlowInv
  <2>1. flows' # flows
    OBVIOUS
  <2>2. ASSUME NEW r \in Run, flows' = [flows EXCEPT ![Current(r)] = flows'[Current(r)]], Building(r) PROVE FALSE
    BY <2>2 DEF Targets, TypeOK
  <2>3. ASSUME NEW r \in Run, Building(r) PROVE Current(r) \in Flow
    BY <2>3 DEF Targets, Pending, TypeOK
  <2>4. ASSUME NEW r \in Run, Proceed(r) PROVE FALSE
    <3>1. Writes(r)
      BY <2>1, <2>4 DEF Proceed, Plan, Create, RebuildUnbound, ListExecutions, Built, Bind, Verify, Writes
    <3>2. Building(r)
      BY <3>1 DEF Writes, Building, Delete, Post, AddExecution, SetRequirement, Configure
    <3>3. TypeOK /\ Current(r) \in Flow /\ OverlapInv
      BY <2>3, <3>2 DEF OverlapInv, InStep, Targets, Partial
    <3>4. flows' = [flows EXCEPT ![Current(r)] = flows'[Current(r)]]
      BY <3>1, <3>3, BuildWrites DEF TypeOK
    <3> QED
      BY <2>2, <3>2, <3>4
  <2>5. \E g \in Flow : EditByHand(g)
    BY <2>1, <2>4 DEF Next, Begin, Refuse, Crash, vars
  <2>6. PICK g \in Flow : EditByHand(g)
    BY <2>5
  <2>7. g = f
    BY <2>6 DEF EditByHand, TypeOK
  <2> QED
    BY <2>6, <2>7
<1>2. FlowInv /\ [Next]_vars => [\A f \in Flow : f = bound /\ flows'[f] # flows[f] => EditByHand(f)]_vars
  BY <1>1
<1> QED
  BY <1>2, FlowInvHolds, PTL DEF Spec, BoundFlowIsLeftAlone
=============================================================================
