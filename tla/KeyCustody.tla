------------------------------ MODULE KeyCustody -----------------------------
(***************************************************************************)
(* How a realm signing key enters and leaves the keys directory: the       *)
(* ceremony (scripts/signing-key-ceremony.sh), which makes a keystore      *)
(* under keys/new (signing-keystore.sh), names it by its kid (`signing-key *)
(* place`) and writes its record; `place` run by itself; and `signing-key  *)
(* destroy`.                                                               *)
(*                                                                         *)
(* Each file is written, moved or removed in a step of its own, and a run  *)
(* stops between any two.  Only the test for keys/new keeps ceremonies     *)
(* apart; TakeTurns says which runs the operators keep apart themselves.   *)
(*                                                                         *)
(* Simplifications.  A file's content is the key it belongs to, modes and  *)
(* owners left out.  place looks for its three targets in one step.  The   *)
(* generator's mode for throwaway kernels is left out.                     *)
(***************************************************************************)
EXTENDS Naturals, Sequences

CONSTANTS
  Key,         \* the keys a generator can make, each standing for its kid
  Run,         \* runs of the tools
  TakeTurns,   \* the commands of which one at most runs at a time
  None         \* no file, no key

Commands == {"ceremony", "place", "destroy"}

ASSUME CustodyAssumption == TakeTurns \subseteq Commands /\ None \notin Key

VARIABLES
  made,        \* history: the keys generated so far
  dir,         \* whether keys/new exists
  staging,     \* whose keystore, password and certificate it holds
  placed,      \* what each key's three names in the keys directory hold
  records,     \* the keys with a ceremony record
  destroyed,   \* history: the keys a destroy was run on
  pc,          \* where each run is
  command,     \* what it runs
  kid,         \* the key it is about
  next         \* the file it comes to next

keys == <<dir, staging, placed, records>>
run  == <<command, kid, next>>
vars == <<made, keys, destroyed, pc, run>>

-----------------------------------------------------------------------------

\* The order in which the generator installs, place moves and destroy removes.
Order    == <<"p12", "password", "crt">>
KeyFiles == {"p12", "password", "crt"}
NoFiles  == [f \in KeyFiles |-> None]

PCs == {"idle", "look", "mkdir", "install", "read", "lookTargets", "move",
        "removeStaging", "record", "remove", "readBack"}

TypeOK ==
  /\ made \in SUBSET Key /\ records \in SUBSET Key /\ destroyed \in SUBSET Key
  /\ dir \in BOOLEAN
  /\ staging \in [KeyFiles -> made \cup {None}]
  /\ placed \in [Key -> [KeyFiles -> made \cup {None}]]
  /\ pc \in [Run -> PCs]
  /\ command \in [Run -> Commands]
  /\ kid \in [Run -> Key \cup {None}]
  /\ next \in [Run -> 1..3]

Goto(r, from, to) == pc[r] = from /\ pc' = [pc EXCEPT ![r] = to]

File(r) == Order[next[r]]

\* Mutant: the place in the order is not reset.
AdvanceOn(r, from, to) ==
  /\ Goto(r, from, IF next[r] = 3 THEN to ELSE from)
  /\ next' = [next EXCEPT ![r] = next[r] + 1]
  /\ UNCHANGED <<command, kid>>

\* From one file to the next, and after the last one on.
Advance(r, from, to) ==
  /\ Goto(r, from, IF next[r] = 3 THEN to ELSE from)
  /\ next' = [next EXCEPT ![r] = IF next[r] = 3 THEN 1 ELSE next[r] + 1]
  /\ UNCHANGED <<command, kid>>

End(r) ==
  /\ pc' = [pc EXCEPT ![r] = "idle"]
  /\ command' = [command EXCEPT ![r] = "place"]
  /\ kid' = [kid EXCEPT ![r] = None]
  /\ next' = [next EXCEPT ![r] = 1]

Begin(r, c, k, to) ==
  /\ \A q \in Run : pc[q] # "idle" => ~(c \in TakeTurns /\ command[q] \in TakeTurns)
  /\ Goto(r, "idle", to)
  /\ command' = [command EXCEPT ![r] = c]
  /\ kid' = [kid EXCEPT ![r] = k]
  /\ UNCHANGED <<keys, next>>

-----------------------------------------------------------------------------
(* The generator. *)

BeginCeremony(r, k) ==
  /\ k \notin made
  /\ Begin(r, "ceremony", k, "look")
  /\ made' = made \cup {k}
  /\ UNCHANGED destroyed

\* Mutant: an earlier key that was never placed is no obstacle.
LookNowhere(r) ==
  /\ Goto(r, "look", "mkdir")
  /\ UNCHANGED <<made, keys, destroyed, run>>

Look(r) ==
  /\ ~dir
  /\ Goto(r, "look", "mkdir")
  /\ UNCHANGED <<made, keys, destroyed, run>>

Mkdir(r) ==
  /\ Goto(r, "mkdir", "install")
  /\ dir' = TRUE
  /\ UNCHANGED <<made, staging, placed, records, destroyed, run>>

Install(r) ==
  /\ dir
  /\ Advance(r, "install", "read")
  /\ staging' = [staging EXCEPT ![File(r)] = kid[r]]
  /\ UNCHANGED <<made, dir, placed, records, destroyed>>

-----------------------------------------------------------------------------
(* place. *)

BeginPlace(r) == Begin(r, "place", None, "read") /\ UNCHANGED <<made, destroyed>>

\* The kid is the certificate's.
ReadCertificate(r) ==
  /\ staging["crt"] # None
  /\ Goto(r, "read", "lookTargets")
  /\ kid' = [kid EXCEPT ![r] = staging["crt"]]
  /\ UNCHANGED <<made, keys, destroyed, command, next>>

\* A kid is placed once.
LookTargets(r) ==
  /\ Goto(r, "lookTargets", "move")
  /\ placed[kid[r]] = NoFiles
  /\ UNCHANGED <<made, keys, destroyed, run>>

\* Mutant: the certificate is moved first.
MoveCertificateFirst(r) ==
  LET f == <<"crt", "p12", "password">>[next[r]] IN
  /\ Advance(r, "move", "removeStaging")
  /\ staging[f] # None
  /\ placed' = [placed EXCEPT ![kid[r]][f] = staging[f]]
  /\ staging' = [staging EXCEPT ![f] = None]
  /\ UNCHANGED <<made, dir, records, destroyed>>

Move(r) ==
  /\ Advance(r, "move", "removeStaging")
  /\ staging[File(r)] # None
  /\ placed' = [placed EXCEPT ![kid[r]][File(r)] = staging[File(r)]]
  /\ staging' = [staging EXCEPT ![File(r)] = None]
  /\ UNCHANGED <<made, dir, records, destroyed>>

\* The directory is removed only if it is empty.
RemoveStaging(r) ==
  /\ dir /\ staging = NoFiles
  /\ dir' = FALSE
  /\ \/ /\ command[r] = "ceremony"
        /\ Goto(r, "removeStaging", "record")
        /\ UNCHANGED run
     \/ /\ command[r] = "place" /\ pc[r] = "removeStaging"
        /\ End(r)
  /\ UNCHANGED <<made, staging, placed, records, destroyed>>

\* The record is written beside the key and moved into its name.
WriteRecord(r) ==
  /\ pc[r] = "record"
  /\ records' = records \cup {kid[r]}
  /\ End(r)
  /\ UNCHANGED <<made, dir, staging, placed, destroyed>>

-----------------------------------------------------------------------------
(* destroy, and what stops a run or clears up after one. *)

BeginDestroy(r, k) ==
  /\ Begin(r, "destroy", k, "remove")
  /\ destroyed' = destroyed \cup {k}
  /\ UNCHANGED made

\* A file that is gone is passed over; the ceremony's record stays.
Remove(r) ==
  /\ Advance(r, "remove", "readBack")
  /\ placed' = [placed EXCEPT ![kid[r]][File(r)] = None]
  /\ UNCHANGED <<made, dir, staging, records, destroyed>>

ReadBack(r) ==
  /\ pc[r] = "readBack" /\ placed[kid[r]] = NoFiles
  /\ End(r)
  /\ UNCHANGED <<made, keys, destroyed>>

\* A refusal, a failure or a crash.
Stop(r) ==
  /\ pc[r] # "idle"
  /\ End(r)
  /\ UNCHANGED <<made, keys, destroyed>>

\* An operator removes a keystore that was never placed, as the refusal says.
ClearStaging ==
  /\ dir /\ \A r \in Run : pc[r] # "idle" => command[r] = "destroy"
  /\ dir' = FALSE /\ staging' = NoFiles
  /\ UNCHANGED <<made, placed, records, destroyed, pc, run>>

-----------------------------------------------------------------------------

Init ==
  /\ made = {} /\ records = {} /\ destroyed = {}
  /\ dir = FALSE /\ staging = NoFiles
  /\ placed = [k \in Key |-> NoFiles]
  /\ pc = [r \in Run |-> "idle"]
  /\ command = [r \in Run |-> "place"]
  /\ kid = [r \in Run |-> None]
  /\ next = [r \in Run |-> 1]

CeremonyStep(r) == Look(r) \/ Mkdir(r) \/ Install(r) \/ WriteRecord(r)
PlaceStep(r)    == ReadCertificate(r) \/ LookTargets(r) \/ Move(r) \/ RemoveStaging(r)

Next ==
  \/ \E r \in Run, k \in Key : BeginCeremony(r, k) \/ BeginDestroy(r, k)
  \/ \E r \in Run : BeginPlace(r) \/ CeremonyStep(r) \/ PlaceStep(r)
  \/ \E r \in Run : Remove(r) \/ ReadBack(r) \/ Stop(r)
  \/ ClearStaging

Spec == Init /\ [][Next]_vars

-----------------------------------------------------------------------------

\* A kid whose certificate is in custody has its keystore and its password there, and both
\* are its own: whatever ceremony or place stopped part way, and whoever cleared up after
\* it.  realm-apply and the rotation steps take the certificate for the key (the order of
\* place's moves; the generator's test for keys/new; certificate.pem installed last).
HeldKeysLoad ==
  \A k \in Key \ destroyed : placed[k]["crt"] # None => placed[k] = [f \in KeyFiles |-> k]

=============================================================================
