--------------------------- MODULE KeyCustodyProofs --------------------------
(***************************************************************************)
(* Proofs about custody, for any keys and any number of runs that stop     *)
(* anywhere: the types, however they overlap; and that what is in custody  *)
(* loads, as long as ceremonies and places take turns.  Destructions run   *)
(* beside them and beside one another.                                     *)
(***************************************************************************)
EXTENDS KeyCustody, TLAPS

Destroying(r) == pc[r] \in {"remove", "readBack"}
Working(r)    == pc[r] \notin {"idle", "remove", "readBack"}

\* Which file comes next.
LEMMA Files ==
  ASSUME TypeOK, NEW r \in Run
  PROVE  /\ next[r] \in {1, 2, 3} /\ File(r) \in KeyFiles
         /\ next[r] = 1 => File(r) = "p12"
         /\ next[r] = 2 => File(r) = "password"
         /\ next[r] = 3 => File(r) = "crt"
  BY DEF TypeOK, File, Order, KeyFiles

-----------------------------------------------------------------------------
(* However ceremonies, places and destructions overlap. *)

\* The key a ceremony or place works on was generated.
KidsMade == \A r \in Run : Working(r) /\ pc[r] # "read" => kid[r] \in made

TypesInv == TypeOK /\ KidsMade

LEMMA StartTypes == ASSUME Init PROVE TypeOK
<1>1. NoFiles \in [KeyFiles -> {None}]
  BY DEF NoFiles
<1>2. staging \in [KeyFiles -> made \cup {None}] /\ placed \in [Key -> [KeyFiles -> made \cup {None}]]
  BY <1>1 DEF Init
<1>3. made \in SUBSET Key /\ records \in SUBSET Key /\ destroyed \in SUBSET Key /\ dir \in BOOLEAN
  BY DEF Init
<1>4. pc \in [Run -> PCs] /\ command \in [Run -> Commands]
  BY DEF Init, PCs, Commands
<1>5. kid \in [Run -> Key \cup {None}] /\ next \in [Run -> 1..3]
  BY DEF Init
<1> QED
  BY <1>2, <1>3, <1>4, <1>5 DEF TypeOK

LEMMA TypesStep == ASSUME TypesInv, [Next]_vars PROVE TypesInv'
<1> USE CustodyAssumption DEF TypesInv, TypeOK, KidsMade, Working, PCs, Commands, keys, run, Goto, Advance
<1>1. ASSUME NEW r \in Run, NEW k \in Key, BeginCeremony(r, k) PROVE TypesInv'
  BY <1>1 DEF BeginCeremony, Begin
<1>2. ASSUME NEW r \in Run, NEW k \in Key, BeginDestroy(r, k) PROVE TypesInv'
  BY <1>2 DEF BeginDestroy, Begin
<1>3. ASSUME NEW r \in Run, BeginPlace(r) PROVE TypesInv'
  BY <1>3 DEF BeginPlace, Begin
<1>4. ASSUME NEW r \in Run, Look(r) PROVE TypesInv'
  BY <1>4 DEF Look
<1>5. ASSUME NEW r \in Run, Mkdir(r) PROVE TypesInv'
  BY <1>5 DEF Mkdir
<1>6. ASSUME NEW r \in Run, Install(r) PROVE TypesInv'
  BY <1>6, Files DEF Install
<1>7. ASSUME NEW r \in Run, ReadCertificate(r) PROVE TypesInv'
  BY <1>7 DEF ReadCertificate, KeyFiles
<1>8. ASSUME NEW r \in Run, LookTargets(r) PROVE TypesInv'
  BY <1>8 DEF LookTargets
<1>9. ASSUME NEW r \in Run, Move(r) PROVE TypesInv'
  BY <1>9, Files DEF Move
<1>10. ASSUME NEW r \in Run, RemoveStaging(r) PROVE TypesInv'
  <2>1. /\ pc' \in [Run -> PCs] /\ \A q \in Run : Working(q)' /\ pc'[q] # "read" =>
             Working(q) /\ pc[q] # "read" /\ kid'[q] = kid[q]
    BY <1>10 DEF RemoveStaging, End
  <2>2. command' \in [Run -> Commands] /\ kid' \in [Run -> Key \cup {None}] /\ next' \in [Run -> 1..3]
    BY <1>10 DEF RemoveStaging, End
  <2>3. dir' = FALSE /\ UNCHANGED <<made, staging, placed, records, destroyed>>
    BY <1>10 DEF RemoveStaging
  <2> QED BY <2>1, <2>2, <2>3
<1>11. ASSUME NEW r \in Run, WriteRecord(r) PROVE TypesInv'
  BY <1>11 DEF WriteRecord, End
<1>12. ASSUME NEW r \in Run, Remove(r) PROVE TypesInv'
  <2>1. placed' \in [Key -> [KeyFiles -> made \cup {None}]]
    <3>1. CASE kid[r] \in Key
      BY <1>12, <3>1, Files DEF Remove
    <3>2. CASE kid[r] \notin Key
      <4>1. placed' = placed
        BY <1>12, <3>2 DEF Remove
      <4> QED BY <4>1
    <3> QED BY <3>1, <3>2
  <2>2. /\ pc' = [pc EXCEPT ![r] = pc'[r]] /\ pc'[r] \in {"remove", "readBack"}
        /\ next' \in [Run -> 1..3] /\ UNCHANGED <<command, kid>>
    BY <1>12, Files DEF Remove
  <2>3. UNCHANGED <<made, dir, staging, records, destroyed>>
    BY <1>12 DEF Remove
  <2> QED BY <2>1, <2>2, <2>3
<1>13. ASSUME NEW r \in Run, ReadBack(r) PROVE TypesInv'
  BY <1>13 DEF ReadBack, End
<1>14. ASSUME NEW r \in Run, Stop(r) PROVE TypesInv'
  BY <1>14 DEF Stop, End
<1>15. CASE ClearStaging
  BY <1>15 DEF ClearStaging, NoFiles
<1>16. CASE UNCHANGED vars
  BY <1>16 DEF vars
<1> QED
  BY <1>1, <1>2, <1>3, <1>4, <1>5, <1>6, <1>7, <1>8, <1>9, <1>10, <1>11, <1>12, <1>13,
     <1>14, <1>15, <1>16
     DEF Next, CeremonyStep, PlaceStep

\* Every file in keys/new, in custody and among the records is of a key that was made,
\* however the tools' runs overlap.
THEOREM CustodyTypes == Spec => []TypeOK
<1>1. Init => TypesInv
  BY StartTypes DEF Init, TypesInv, KidsMade, Working
<1>2. TypesInv /\ [Next]_vars => TypesInv'
  BY TypesStep
<1>3. TypesInv => TypeOK
  BY DEF TypesInv
<1> QED BY <1>1, <1>2, <1>3, PTL DEF Spec

-----------------------------------------------------------------------------
(* While ceremonies and places take turns. *)

CeremoniesTakeTurns == {"ceremony", "place"} \subseteq TakeTurns

OneWorks == \A q, r \in Run : Working(q) /\ Working(r) => q = r

\* What a run's place says of its command line.
Commanded ==
  \A r \in Run :
    /\ Destroying(r) => command[r] = "destroy" /\ kid[r] \in destroyed
    /\ Working(r) => command[r] \in {"ceremony", "place"}
    /\ Working(r) /\ pc[r] # "read" => kid[r] \in made
    /\ pc[r] \notin {"install", "move", "remove"} => next[r] = 1

\* The files in keys/new are of one key, that of the ceremony or place which works on it.
OneStaged ==
  /\ \A f, g \in KeyFiles : staging[f] # None /\ staging[g] # None => staging[f] = staging[g]
  /\ ~dir => staging = NoFiles
  /\ \A r \in Run :
       /\ pc[r] = "mkdir" => ~dir
       /\ pc[r] \in {"install", "lookTargets", "move"} =>
            \A f \in KeyFiles : staging[f] \in {None, kid[r]}

\* A key's names hold its own files, and what place has moved is there, unless the key
\* was destroyed meanwhile.
Moved ==
  /\ \A k \in Key, f \in KeyFiles : placed[k][f] \in {None, k}
  /\ \A r \in Run : pc[r] = "move" /\ kid[r] \notin destroyed =>
       /\ next[r] \in {2, 3} => placed[kid[r]]["p12"] = kid[r]
       /\ next[r] = 3 => placed[kid[r]]["password"] = kid[r]

CustodyInv == TypeOK /\ OneWorks /\ Commanded /\ OneStaged /\ Moved /\ HeldKeysLoad

-----------------------------------------------------------------------------

LEMMA CustodyInvInit == Init => CustodyInv
<1> SUFFICES ASSUME Init PROVE CustodyInv
  OBVIOUS
<1>1. OneWorks /\ Commanded
  BY DEF Init, OneWorks, Commanded, Working, Destroying
<1>2. OneStaged
  BY DEF Init, OneStaged, NoFiles
<1>3. Moved /\ HeldKeysLoad
  BY DEF Init, Moved, HeldKeysLoad, NoFiles, KeyFiles
<1> QED
  BY StartTypes, <1>1, <1>2, <1>3 DEF CustodyInv

LEMMA CustodyInvStep == ASSUME CeremoniesTakeTurns, CustodyInv, [Next]_vars PROVE CustodyInv'
<1> USE CustodyAssumption DEF CeremoniesTakeTurns, CustodyInv, TypeOK, PCs, Commands
<1> USE DEF keys, run, Goto, Advance, OneWorks, Commanded, Working, Destroying
<1>1. ASSUME NEW r \in Run, NEW k \in Key, BeginCeremony(r, k) PROVE CustodyInv'
  BY <1>1 DEF BeginCeremony, Begin, OneStaged, Moved, HeldKeysLoad
<1>2. ASSUME NEW r \in Run, NEW k \in Key, BeginDestroy(r, k) PROVE CustodyInv'
  BY <1>2 DEF BeginDestroy, Begin, OneStaged, Moved, HeldKeysLoad
<1>3. ASSUME NEW r \in Run, BeginPlace(r) PROVE CustodyInv'
  BY <1>3 DEF BeginPlace, Begin, OneStaged, Moved, HeldKeysLoad
<1>4. ASSUME NEW r \in Run, Look(r) PROVE CustodyInv'
  BY <1>4 DEF Look, OneStaged, Moved, HeldKeysLoad
<1>5. ASSUME NEW r \in Run, Mkdir(r) PROVE CustodyInv'
  BY <1>5 DEF Mkdir, OneStaged, Moved, HeldKeysLoad, NoFiles
<1>6. ASSUME NEW r \in Run, Install(r) PROVE CustodyInv'
  BY <1>6, Files DEF Install, OneStaged, Moved, HeldKeysLoad
<1>7. ASSUME NEW r \in Run, ReadCertificate(r) PROVE CustodyInv'
  BY <1>7 DEF ReadCertificate, OneStaged, Moved, HeldKeysLoad, KeyFiles
<1>8. ASSUME NEW r \in Run, LookTargets(r) PROVE CustodyInv'
  BY <1>8 DEF LookTargets, OneStaged, Moved, HeldKeysLoad
<1>9. ASSUME NEW r \in Run, Move(r) PROVE CustodyInv'
  <2> DEFINE k == kid[r]
             f == File(r)
  <2>1. /\ pc[r] = "move" /\ k \in made /\ k \in Key /\ k # None /\ f \in KeyFiles
        /\ staging[f] = k
        /\ staging' = [staging EXCEPT ![f] = None]
        /\ placed'  = [placed EXCEPT ![k] = [placed[k] EXCEPT ![f] = k]]
        /\ \A q \in Run \ {r} : ~Working(q)
    <3>1. pc[r] = "move" /\ k \in made /\ f \in KeyFiles
      BY <1>9, Files DEF Move
    <3>2. staging[f] = k
      BY <1>9, <3>1 DEF Move, OneStaged
    <3> QED
      BY <1>9, <3>1, <3>2 DEF Move
  <2>2. TypeOK' /\ OneWorks' /\ Commanded'
    BY <1>9, <2>1, Files DEF Move
  <2>3. OneStaged'
    <3>1. \A g \in KeyFiles : staging'[g] \in {None, staging[g]} /\ staging[g] \in {None, k}
      BY <2>1 DEF OneStaged
    <3>2. dir' = dir /\ dir
      BY <1>9, <2>1 DEF Move, OneStaged, NoFiles
    <3>3. kid' = kid /\ \A q \in Run \ {r} : pc'[q] \notin {"mkdir", "install", "lookTargets", "move"}
      BY <1>9, <2>1 DEF Move
    <3>4. pc'[r] # "mkdir"
      BY <1>9 DEF Move
    <3> QED
      BY <2>1, <3>1, <3>2, <3>3, <3>4 DEF OneStaged
  <2>4. Moved'
    BY <1>9, <2>1, Files DEF Move, Moved, KeyFiles
  <2>5. ASSUME NEW j \in Key \ destroyed, placed'[j]["crt"] # None
        PROVE  placed'[j] = [g \in KeyFiles |-> j]
    <3>1. CASE j # k
      BY <2>1, <2>5, <3>1 DEF HeldKeysLoad
    <3>2. CASE j = k /\ placed[k]["crt"] # None
      BY <2>1, <2>5, <3>2 DEF HeldKeysLoad
    <3>3. CASE j = k /\ placed[k]["crt"] = None
      <4>1. f = "crt"
        BY <2>1, <2>5, <3>3 DEF KeyFiles
      <4>2. next[r] = 3
        BY <4>1, Files
      <4>3. placed[k]["p12"] = k /\ placed[k]["password"] = k
        BY <2>1, <2>5, <3>3, <4>2 DEF Moved
      <4>4. placed'[k] \in [KeyFiles -> made \cup {None}]
        BY <1>9, <2>2 DEF Move
      <4>5. \A g \in KeyFiles : placed'[k][g] = k
        BY <2>1, <4>1, <4>3 DEF KeyFiles
      <4> QED
        BY <3>3, <4>4, <4>5
    <3> QED
      BY <3>1, <3>2, <3>3
  <2>6. HeldKeysLoad'
    BY <1>9, <2>5 DEF Move, HeldKeysLoad
  <2> QED
    BY <2>2, <2>3, <2>4, <2>6
<1>10. ASSUME NEW r \in Run, RemoveStaging(r) PROVE CustodyInv'
  <2> USE <1>10 DEF RemoveStaging
  <2>1. /\ pc' \in [Run -> PCs] /\ pc'[r] \in {"record", "idle"}
        /\ \A q \in Run \ {r} : pc'[q] = pc[q] /\ kid'[q] = kid[q] /\ command'[q] = command[q] /\ next'[q] = next[q]
        /\ pc'[r] = "record" => kid'[r] = kid[r] /\ command'[r] = command[r]
        /\ next'[r] = 1
        /\ \A q \in Run \ {r} : ~Working(q)
        /\ dir' = FALSE /\ staging = NoFiles
        /\ UNCHANGED <<made, staging, placed, records, destroyed>>
    BY DEF End
  <2>2. TypeOK'
    <3>1. command' \in [Run -> Commands] /\ kid' \in [Run -> Key \cup {None}] /\ next' \in [Run -> 1..3]
      BY DEF End
    <3> QED
      BY <2>1, <3>1
  <2>3. OneWorks' /\ Commanded'
    BY <2>1
  <2>4. OneStaged'
    BY <2>1 DEF OneStaged
  <2>5. Moved' /\ HeldKeysLoad'
    BY <2>1 DEF Moved, HeldKeysLoad
  <2> QED
    BY <2>2, <2>3, <2>4, <2>5
<1>11. ASSUME NEW r \in Run, WriteRecord(r) PROVE CustodyInv'
  BY <1>11 DEF WriteRecord, End, OneStaged, Moved, HeldKeysLoad
<1>12. ASSUME NEW r \in Run, Remove(r) PROVE CustodyInv'
  <2> DEFINE k == kid[r]
  <2>1. /\ pc[r] = "remove" /\ k \in destroyed /\ File(r) \in KeyFiles
        /\ placed' = [placed EXCEPT ![k] = [placed[k] EXCEPT ![File(r)] = None]]
        /\ UNCHANGED <<made, dir, staging, records, destroyed>>
    BY <1>12, Files DEF Remove
  <2>2. TypeOK' /\ OneWorks' /\ Commanded'
    BY <1>12, <2>1, Files DEF Remove
  <2>3. OneStaged'
    BY <1>12, <2>1 DEF Remove, OneStaged
  <2>4. Moved'
    BY <1>12, <2>1 DEF Remove, Moved
  <2>5. HeldKeysLoad'
    BY <2>1 DEF HeldKeysLoad
  <2> QED
    BY <2>2, <2>3, <2>4, <2>5
<1>13. ASSUME NEW r \in Run, ReadBack(r) PROVE CustodyInv'
  BY <1>13 DEF ReadBack, End, OneStaged, Moved, HeldKeysLoad
<1>14. ASSUME NEW r \in Run, Stop(r) PROVE CustodyInv'
  BY <1>14 DEF Stop, End, OneStaged, Moved, HeldKeysLoad
<1>15. CASE ClearStaging
  BY <1>15 DEF ClearStaging, OneStaged, Moved, HeldKeysLoad, NoFiles
<1>16. CASE UNCHANGED vars
  BY <1>16 DEF vars, OneStaged, Moved, HeldKeysLoad
<1> QED
  BY <1>1, <1>2, <1>3, <1>4, <1>5, <1>6, <1>7, <1>8, <1>9, <1>10, <1>11, <1>12, <1>13, <1>14,
     <1>15, <1>16 DEF Next, CeremonyStep, PlaceStep

\* What the ceremonies and places that took turns have left in keys/new and in custody.
THEOREM CustodyInvHolds == ASSUME CeremoniesTakeTurns PROVE Spec => []CustodyInv
BY CustodyInvInit, CustodyInvStep, PTL DEF Spec

\* A certificate in custody has its own keystore and password, wherever ceremonies and
\* places stopped and however many destructions ran beside them.
THEOREM HeldKeysAlwaysLoad == ASSUME CeremoniesTakeTurns PROVE Spec => []HeldKeysLoad
BY CustodyInvHolds, PTL DEF CustodyInv
=============================================================================
