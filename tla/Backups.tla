------------------------------ MODULE Backups -------------------------------
(***************************************************************************)
(* The kernel database's backups and restores: deploy/dev/backup.sh, run   *)
(* daily and by hand before an upgrade, and restore.sh, run by an operator *)
(* who lost the volume or goes back to an older set.                       *)
(*                                                                         *)
(* A set is two files of one date, the cluster's roles and the database,   *)
(* taken at two moments, renamed one after the other, and removed one      *)
(* after the other.  A run may stop between any two calls, and a command   *)
(* may leave part of its file and report nothing.  Meanwhile the kernel    *)
(* writes, and administrators create roles and grant to them.              *)
(*                                                                         *)
(* Simplifications.  One backup and one restore run at a time.  What the   *)
(* database holds is how much was written to it and which roles its owners *)
(* and grants name.  The role keycloak, which every cluster has, is left   *)
(* out of the sets of roles.  The .partial file of a run that ended is     *)
(* never read again: whatever it holds is Torn.  Dates only move forward.  *)
(***************************************************************************)
EXTENDS Naturals, FiniteSets

CONSTANTS
  Keep,         \* how many complete sets are kept
  Role,         \* the roles an administrator may create beside keycloak
  Absent,       \* no file, or no database
  Torn,         \* roles that do not create keycloak, a dump that lists no contents
  Empty,        \* a database that holds nothing, as the image makes it
  Part,         \* a database a restore filled in part, or a dump cut after its contents
  MaxDay,       \* bound: the last date
  MaxData,      \* bound: what the kernel writes
  MaxFaults,    \* bound: runs that stop and files that are cut
  MaxLosses     \* bound: volumes lost

\* What a database holds, as far as a restore can tell.
Content == [data : 0..MaxData, needs : SUBSET Role]

ASSUME BackupsAssumption ==
  /\ \A file \in Content \cup SUBSET Role : file \notin {Absent, Torn, Empty, Part}
  /\ Absent \notin {Torn, Empty, Part} /\ Torn \notin {Empty, Part}
  /\ Keep \in Nat \ {0}
  /\ MaxDay \in Nat \ {0} /\ MaxData \in Nat /\ MaxFaults \in Nat /\ MaxLosses \in Nat

VARIABLES
  dir,       \* the backup directory: each kind of file, by date
  database,  \* the database keycloak
  roles,     \* the cluster's roles
  today,     \* the UTC date
  pc,        \* where the backup is
  stamp,     \* the date it took at its start
  surplus,   \* the complete sets it has still to delete
  litter,    \* the files of no set it has still to delete
  agreeing,  \* history: whether its files agree: they are whole, of a database that serves,
             \* and no role changed between the two dumps
  rpc,       \* where the restore is
  chosen,    \* the date of the set it was given
  acked,     \* history: what the last dump put in place holds
  steady,    \* history: which dumps, the run's and the last one put in place, are whole, of a
             \* database that serves, and no older than the last change of a role
  matched,   \* history: the dates whose two files agree, whichever runs took them
  faults, losses

run     == <<pc, stamp, surplus, litter, agreeing>>
restore == <<rpc, chosen>>
cluster == <<database, roles>>
history == <<acked, steady, matched>>
bounds  == <<faults, losses>>
vars    == <<dir, cluster, today, run, restore, history, bounds>>

-----------------------------------------------------------------------------

Day     == 1..MaxDay
Kind    == {"globals", "dump", "globals.partial", "dump.partial"}

Holding == database \in Content

\* The complete sets, by their date: both files are there.
Complete == {d \in Day : dir["globals"][d] # Absent /\ dir["dump"][d] # Absent}

\* Mutant: the dates sorted the other way.
Earliest(sets) == {d \in sets : Cardinality({e \in sets : e < d}) < Keep}

Newest(sets) == {d \in sets : Cardinality({e \in sets : e > d}) < Keep}

Latest(sets) == CHOOSE d \in sets : \A e \in sets : e <= d
Oldest(sets) == CHOOSE d \in sets : \A e \in sets : d <= e

TypeOK ==
  /\ \A d \in Day :
       /\ dir["globals"][d] \in {Absent} \cup SUBSET Role
       /\ dir["dump"][d] \in {Absent, Empty, Part} \cup Content
       /\ dir["globals.partial"][d] \in {Absent, Torn} \cup SUBSET Role
       /\ dir["dump.partial"][d] \in {Absent, Torn, Empty, Part} \cup Content
  /\ database \in {Absent, Empty, Part} \cup Content
  /\ roles \subseteq Role
  /\ today \in Day /\ stamp \in Day /\ chosen \in Day
  /\ pc \in {"idle", "globals", "database", "verify", "rename", "prune", "sweep"}
  /\ surplus \subseteq Day
  /\ litter \subseteq Kind \X Day
  /\ agreeing \in BOOLEAN
  /\ rpc \in {"idle", "check", "roles", "database"}
  /\ acked \in 0..MaxData
  /\ steady \subseteq {"dump", "dump.partial"} /\ matched \subseteq Day
  /\ faults \in 0..MaxFaults /\ losses \in 0..MaxLosses

-----------------------------------------------------------------------------
(* backup.sh *)

Goto(from, to) == pc = from /\ pc' = to

End == pc' = "idle" /\ stamp' = 1 /\ surplus' = {} /\ litter' = {} /\ agreeing' = FALSE

Write(kind, day, file) == dir' = [dir EXCEPT ![kind][day] = file]

\* What a run that ends leaves in its .partial files.
Left ==
  [k \in Kind |-> [d \in Day |->
     IF k \in {"globals.partial", "dump.partial"} /\ dir[k][d] # Absent THEN Torn ELSE dir[k][d]]]

Fault == faults < MaxFaults /\ faults' = faults + 1 /\ UNCHANGED losses

Begin ==
  /\ Goto("idle", "globals")
  /\ stamp' = today
  /\ UNCHANGED <<dir, cluster, today, surplus, litter, agreeing, restore, history, bounds>>

DumpGlobals ==
  /\ Goto("globals", "database")
  /\ Write("globals.partial", stamp, roles)
  /\ agreeing' = TRUE
  /\ UNCHANGED <<cluster, today, stamp, surplus, litter, restore, history, bounds>>

\* Mutant: an earlier dump of the day is overwritten at once.
DumpOver ==
  /\ database # Absent
  /\ Goto("database", "verify")
  /\ dir' = [dir EXCEPT !["dump.partial"][stamp] = database, !["dump"][stamp] = database]
  /\ agreeing' = (agreeing /\ Holding)
  /\ steady' = IF Holding THEN steady \cup {"dump.partial"} ELSE steady \ {"dump.partial"}
  /\ UNCHANGED <<cluster, today, stamp, surplus, litter, restore, acked, matched, bounds>>

DumpDatabase ==
  /\ database # Absent
  /\ Goto("database", "verify")
  /\ Write("dump.partial", stamp, database)
  /\ agreeing' = (agreeing /\ Holding)
  /\ steady' = IF Holding THEN steady \cup {"dump.partial"} ELSE steady \ {"dump.partial"}
  /\ UNCHANGED <<cluster, today, stamp, surplus, litter, restore, acked, matched, bounds>>

\* A command that fails ends the run, its file cut.
CutReported ==
  /\ \/ pc = "globals" /\ dir' = [Left EXCEPT !["globals.partial"][stamp] = Torn]
     \/ pc = "database" /\ dir' = [Left EXCEPT !["dump.partial"][stamp] = Torn]
  /\ End
  /\ Fault
  /\ UNCHANGED <<cluster, today, restore, history>>

\* One that reports success all the same leaves what its check refuses, or what it takes:
\* roles that end after keycloak's line, a dump that ends after its table of contents.
CutSilently ==
  /\ \/ /\ Goto("globals", "database")
        /\ \E part \in {Torn} \cup SUBSET roles : part # roles /\ Write("globals.partial", stamp, part)
     \/ /\ Goto("database", "verify")
        /\ \E part \in {Torn, Part} : Write("dump.partial", stamp, part)
  /\ agreeing' = FALSE /\ steady' = steady \ {"dump.partial"}
  /\ Fault
  /\ UNCHANGED <<cluster, today, stamp, surplus, litter, restore, acked, matched>>

\* The roles file creates the role keycloak and the dump lists its contents.
Verified == dir["globals.partial"][stamp] # Torn /\ dir["dump.partial"][stamp] # Torn

KeepPrevious ==
  /\ pc = "verify" /\ ~Verified
  /\ End /\ dir' = Left
  /\ UNCHANGED <<cluster, today, restore, history, bounds>>

Renamed(kind, partial) ==
  [dir EXCEPT ![kind][stamp] = dir[partial][stamp], ![partial][stamp] = Absent]

\* The globals may be the same run's as the dump beside them, or a later run's.
Match(day, agree) == matched' = IF agree THEN matched \cup {day} ELSE matched \ {day}

\* Mutant: the dump is not read back.
RenameUnverified ==
  /\ dir["globals.partial"][stamp] # Torn
  /\ Goto("verify", "rename")
  /\ dir' = Renamed("globals", "globals.partial")
  /\ Match(stamp, agreeing /\ "dump" \in steady)
  /\ UNCHANGED <<cluster, today, stamp, surplus, litter, agreeing, restore, acked, steady, bounds>>

RenameGlobals ==
  /\ Verified
  /\ Goto("verify", "rename")
  /\ dir' = Renamed("globals", "globals.partial")
  /\ Match(stamp, agreeing /\ "dump" \in steady)
  /\ UNCHANGED <<cluster, today, stamp, surplus, litter, agreeing, restore, acked, steady, bounds>>

\* Mutant: retention by age, whatever became of the newer backups.
SurplusByAge(complete) == {d \in complete : d + Keep <= today}

\* The complete sets to delete, of those there are once the dump is renamed.
Surplus(complete) == complete \ Newest(complete)

RenameDump ==
  /\ Goto("rename", "prune")
  /\ dir' = Renamed("dump", "dump.partial")
  /\ surplus' = Surplus(Complete')
  /\ acked' = IF dir["dump.partial"][stamp] \in Content THEN dir["dump.partial"][stamp].data ELSE 0
  /\ Match(stamp, agreeing)
  /\ steady' = IF "dump.partial" \in steady THEN {"dump"} ELSE {}
  /\ agreeing' = FALSE
  /\ UNCHANGED <<cluster, today, stamp, litter, restore, bounds>>

PruneGlobals ==
  /\ pc = "prune" /\ surplus # {}
  /\ dir["globals"][Latest(surplus)] # Absent
  /\ Write("globals", Latest(surplus), Absent)
  /\ Match(Latest(surplus), FALSE)
  /\ UNCHANGED <<cluster, today, run, restore, acked, steady, bounds>>

PruneDump ==
  /\ pc = "prune" /\ surplus # {}
  /\ dir["globals"][Latest(surplus)] = Absent
  /\ Write("dump", Latest(surplus), Absent)
  /\ surplus' = surplus \ {Latest(surplus)}
  /\ UNCHANGED <<cluster, today, pc, stamp, litter, agreeing, restore, history, bounds>>

\* Mutant: the partial files are left out.
FinalLitter ==
  {f \in {"globals", "dump"} \X Day : dir[f[1]][f[2]] # Absent /\ f[2] < Oldest(Newest(Complete))}

\* What is older than the oldest set kept belongs to no set that will ever complete.
Litter == {f \in Kind \X Day : dir[f[1]][f[2]] # Absent /\ f[2] < Oldest(Newest(Complete))}

FindLitter ==
  /\ surplus = {}
  /\ Goto("prune", "sweep")
  /\ litter' = Litter
  /\ UNCHANGED <<dir, cluster, today, stamp, surplus, agreeing, restore, history, bounds>>

Sweep(k, d) ==
  /\ pc = "sweep" /\ <<k, d>> \in litter
  /\ Write(k, d, Absent)
  /\ litter' = litter \ {<<k, d>>}
  /\ UNCHANGED <<cluster, today, pc, stamp, surplus, agreeing, restore, history, bounds>>

Finish ==
  /\ litter = {}
  /\ pc = "sweep" /\ End
  /\ UNCHANGED <<dir, cluster, today, restore, history, bounds>>

Stop ==
  /\ pc # "idle"
  /\ End /\ dir' = Left
  /\ Fault
  /\ UNCHANGED <<cluster, today, restore, history>>

-----------------------------------------------------------------------------
(* restore.sh *)

GotoR(from, to) == rpc = from /\ rpc' = to

EndR == rpc' = "idle" /\ chosen' = 1

BeginRestore(d) ==
  /\ d \in Complete
  /\ GotoR("idle", "check")
  /\ chosen' = d
  /\ UNCHANGED <<dir, cluster, today, run, history, bounds>>

\* An empty database is dropped, for the restore to create it again.
DropEmpty ==
  /\ database \in {Absent, Empty}
  /\ GotoR("check", "roles")
  /\ database' = Absent
  /\ UNCHANGED <<dir, roles, today, run, chosen, history, bounds>>

Refuse ==
  /\ database \notin {Absent, Empty}
  /\ rpc = "check" /\ EndR
  /\ UNCHANGED <<dir, cluster, today, run, history, bounds>>

\* The roles in the file, which psql no longer finds if a backup has pruned it.
Listed == IF dir["globals"][chosen] = Absent THEN {} ELSE dir["globals"][chosen]

\* The files of a backup that has its roles already will not agree, nor those of a later
\* one with a dump taken before.
RolesChange ==
  /\ agreeing' = (agreeing /\ pc # "database") /\ steady' = {}
  /\ UNCHANGED <<pc, stamp, surplus, litter>>

\* Mutant: no error is allowed, that of the role keycloak included.
ApplyRolesStrict ==
  /\ roles' = roles \cup Listed
  /\ rpc = "roles" /\ EndR
  /\ RolesChange
  /\ UNCHANGED <<dir, database, today, acked, matched, bounds>>

\* A role that exists is an error, which stops the run at the end of the file.  A psql
\* that ends early is none ("|| true").
ApplyRoles ==
  \E applied \in SUBSET Listed :
    /\ roles' = roles \cup applied
    /\ rpc = "roles"
    /\ IF applied \cap roles = {} THEN rpc' = "database" /\ UNCHANGED chosen ELSE EndR
    /\ IF applied = Listed THEN UNCHANGED bounds ELSE Fault
    /\ RolesChange
    /\ UNCHANGED <<dir, database, today, acked, matched>>

\* Every owner and grantee in the dump must exist before it is restored.
Restorable(dump) == dump \in Content /\ dump.needs \subseteq roles

RestoreDatabase ==
  /\ Restorable(dir["dump"][chosen])
  /\ rpc = "database" /\ EndR
  /\ database' = dir["dump"][chosen]
  /\ UNCHANGED <<dir, roles, today, run, history, bounds>>

\* The first error, or the run's end, stops pg_restore where it is.
RestorePart ==
  /\ rpc = "database" /\ EndR
  /\ IF Restorable(dir["dump"][chosen]) THEN Fault ELSE UNCHANGED bounds
  /\ database' \in {Absent, Empty, Part}
  /\ UNCHANGED <<dir, roles, today, run, history>>

StopRestore ==
  /\ rpc # "idle" /\ EndR
  /\ Fault
  /\ UNCHANGED <<dir, cluster, today, run, history>>

-----------------------------------------------------------------------------
(* The kernel, the administrators and the host. *)

NextDay ==
  /\ today < MaxDay
  /\ today' = today + 1
  /\ UNCHANGED <<dir, cluster, run, restore, history, bounds>>

\* What is written while a backup runs is in its dump or in the next one's: it may as
\* well have been written before the run or after it.
KernelWrites ==
  /\ Holding /\ database.data < MaxData
  /\ pc = "idle" /\ rpc = "idle"
  /\ database' = [database EXCEPT !.data = @ + 1]
  /\ UNCHANGED <<dir, roles, today, run, restore, history, bounds>>

\* A role is created and given something, or loses all and is dropped: between the two
\* dumps of a backup too.  At its other steps, which read no role, it may as well have
\* been before the run or after it.
CreateRole(r) ==
  /\ pc \in {"idle", "database"} /\ rpc = "idle"
  /\ Holding /\ r \notin roles
  /\ roles' = roles \cup {r}
  /\ database' = [database EXCEPT !.needs = @ \cup {r}]
  /\ RolesChange
  /\ UNCHANGED <<dir, today, restore, acked, matched, bounds>>

DropRole(r) ==
  /\ pc \in {"idle", "database"} /\ rpc = "idle"
  /\ Holding /\ r \in roles
  /\ roles' = roles \ {r}
  /\ database' = [database EXCEPT !.needs = @ \ {r}]
  /\ RolesChange
  /\ UNCHANGED <<dir, today, restore, acked, matched, bounds>>

\* A new volume, on which the image creates the database empty.  What runs in the
\* container of the old one fails with it: a backup that dumps or verifies, a restore.
NewVolume ==
  /\ database' = Empty /\ roles' = {} /\ steady' = {}
  /\ IF pc \in {"globals", "database", "verify"} THEN End /\ dir' = Left ELSE UNCHANGED <<run, dir>>
  /\ EndR

\* The volume is lost, or deleted to go back to a set.
Lose ==
  /\ losses < MaxLosses /\ losses' = losses + 1
  /\ NewVolume
  /\ UNCHANGED <<today, acked, matched, faults>>

\* What a restore leaves unfinished is deleted, as its refusal asks.
StartOver ==
  /\ ~Holding /\ rpc = "idle"
  /\ database # Empty \/ roles # {}
  /\ NewVolume
  /\ UNCHANGED <<today, acked, matched, bounds>>

\* With nothing to restore, the kernel is started on the empty database and fills it.
StartAnew ==
  /\ database = Empty /\ rpc = "idle" /\ Complete = {}
  /\ database' = [data |-> 0, needs |-> {}]
  /\ UNCHANGED <<dir, roles, today, run, restore, history, bounds>>

-----------------------------------------------------------------------------

Init ==
  /\ dir = [k \in Kind |-> [d \in Day |-> Absent]]
  /\ database = [data |-> 0, needs |-> {}]
  /\ roles = {}
  /\ today = 1 /\ stamp = 1 /\ chosen = 1
  /\ pc = "idle" /\ rpc = "idle"
  /\ surplus = {} /\ litter = {} /\ agreeing = FALSE
  /\ acked = 0 /\ steady = {} /\ matched = {}
  /\ faults = 0 /\ losses = 0

Backup ==
  \/ Begin \/ DumpGlobals \/ DumpDatabase \/ CutReported \/ CutSilently \/ KeepPrevious
  \/ RenameGlobals \/ RenameDump \/ PruneGlobals \/ PruneDump \/ FindLitter
  \/ \E k \in Kind, d \in Day : Sweep(k, d)
  \/ Finish \/ Stop

\* A restore going on, as against stopping.
RestoreOn == DropEmpty \/ Refuse \/ ApplyRoles \/ RestoreDatabase \/ RestorePart

Restore == (\E d \in Day : BeginRestore(d)) \/ RestoreOn \/ StopRestore

Environment ==
  \/ NextDay \/ KernelWrites \/ Lose \/ StartOver \/ StartAnew
  \/ \E r \in Role : CreateRole(r) \/ DropRole(r)

Next == Backup \/ Restore \/ Environment

Spec == Init /\ [][Next]_vars

\* An operator who lost the database tries every set again and again, each on a new
\* volume; a restore that has begun goes on or stops.
Fairness ==
  /\ WF_vars(RestoreOn)
  /\ \A d \in Day : SF_vars(database = Empty /\ roles = {} /\ BeginRestore(d))
  /\ SF_vars(StartOver)

FairSpec == Spec /\ Fairness

-----------------------------------------------------------------------------

\* The dump of a set reads back whole, and the roles its owners and grants name are all
\* in the other file: it can be restored on a new volume.
Restores(d) == dir["dump"][d] \in Content /\ dir["dump"][d].needs \subseteq dir["globals"][d]

\* A complete set restores, whether one run made it or the day's second run stopped between
\* its renames and left its roles beside the earlier dump, although the files are taken at
\* two moments, renamed and removed one after the other, while roles, volumes and databases
\* come and go around them.  Excepted are a file that a command cut and reported as whole,
\* a dump of a database that does not serve, and roles that changed between the moments the
\* two files were taken: backup.sh tells none of these.
WholeSetsRestore == \A d \in Complete \cap matched : Restores(d)

\* The newest complete set, which an operator restores, holds what the last backup put in
\* place, through failed runs, pruning, a second run of the day and restores of older sets
\* ("a failed or silent backup deletes nothing").
NewestSetHoldsWhatWasBackedUp ==
  acked > 0 =>
    /\ Complete # {}
    /\ dir["dump"][Latest(Complete)] \in Content
    /\ dir["dump"][Latest(Complete)].data = acked

\* Two files, renamed and removed one after the other, are one set to whoever restores:
\* it appears at once and as the newest, is never changed when it is not the newest, and
\* goes only when as many newer ones stay.
Sets == INSTANCE KeptSets WITH
  sets <- [d \in Complete |-> [globals |-> dir["globals"][d], dump |-> dir["dump"][d]]],
  Dump <- {Empty, Part} \cup Content

ImplementsKeptSets == Sets!Spec

\* When a backup finishes, nothing is left of the runs before the oldest set kept: no
\* lone file of an interrupted pruning, no partial dump (they hold password hashes).
FinishedBackupsLeaveNoLitter ==
  [][pc = "sweep" /\ pc' = "idle" /\ faults' = faults =>
       \A k \in Kind, d \in Day : dir[k][d] # Absent => d >= Oldest(Newest(Complete))]_vars

\* A database that was lost comes back if, from some moment on, one of the sets restores,
\* wherever restores stop and whatever the other sets and the volume hold.
LostDatabasesComeBack == <>[](\E d \in Complete : Restores(d)) => []<>Holding
=============================================================================
