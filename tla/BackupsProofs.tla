---------------------------- MODULE BackupsProofs ----------------------------
(***************************************************************************)
(* Proofs about the backups of the kernel's database, for any number of    *)
(* days, sets kept, roles, faults and losses, and runs that stop anywhere. *)
(*                                                                         *)
(* Retention rests on RetentionInv: what the loops that prune and sweep    *)
(* have still to do stays right while they do it, although each removal    *)
(* changes what the next one would be computed from.  What a set holds     *)
(* rests on SetsInv: while the files of a run agree, what it has in hand   *)
(* fits together at each of the moments a set is made at.                  *)
(***************************************************************************)
EXTENDS Backups, FiniteSetTheorems, WellFoundedInduction, TLAPS

\* The steps of a run before its dump is in place.
Taking == {"globals", "database", "verify", "rename"}

Shape == dir = [k \in Kind |-> [d \in Day |-> dir[k][d]]]

\* No set is of a day to come, nor later than the one being taken.
DatesPassed ==
  /\ stamp <= today
  /\ \A d \in Complete : d <= today
  /\ pc \in Taking => \A d \in Complete : d <= stamp

\* The files a run has written by each of its steps.
Taken ==
  /\ pc \in {"database", "verify"} => dir["globals.partial"][stamp] # Absent
  /\ pc \in {"verify", "rename"} => dir["dump.partial"][stamp] # Absent
  /\ pc = "rename" => dir["globals"][stamp] # Absent /\ dir["dump.partial"][stamp] # Torn

\* A dump without its globals is what a pruning left, and so older than a set that is there.
LoneDumps ==
  \A d \in Day : dir["dump"][d] # Absent /\ dir["globals"][d] = Absent => \E e \in Complete : d < e

Newer(d) == {e \in Complete : e > d}

\* What is left to prune has as many newer sets as are kept, and is all that has.
PruningOld ==
  pc = "prune" =>
    /\ Complete # {}
    /\ \A d \in surplus : Cardinality(Newer(d)) >= Keep
    /\ Complete \ Newest(Complete) \subseteq surplus

\* What is left to sweep is of no complete set, and is all that is older than those kept.
LitterLoose ==
  pc = "sweep" =>
    /\ Complete # {}
    /\ \A f \in litter : f[2] \notin Complete
    /\ \A k \in Kind, d \in Day :
         dir[k][d] # Absent /\ d < Oldest(Newest(Complete)) => <<k, d>> \in litter

NewestHolds ==
  acked > 0 =>
    \E n \in Complete : /\ \A e \in Complete : e <= n
                        /\ dir["dump"][n] \in Content /\ dir["dump"][n].data = acked

RetentionInv ==
  /\ TypeOK /\ Shape /\ DatesPassed /\ Taken /\ LoneDumps
  /\ PruningOld /\ LitterLoose /\ NewestHolds

-----------------------------------------------------------------------------
(* Sets of days. *)

\* The dates are a range that starts at 1.
LEMMA Days == 1 \in Day /\ Day \subseteq Nat /\ MaxDay \in Nat /\ \A d \in Day : d <= MaxDay
  BY BackupsAssumption DEF Day

\* A set of days has a latest one: what MaxDay leaves after it is a least number.
LEMMA LatestIsLatest ==
  ASSUME NEW S, S \subseteq Day, S # {}
  PROVE  Latest(S) \in S /\ \A e \in S : e <= Latest(S)
<1> DEFINE After == {MaxDay - d : d \in S}
           Less == {ss \in Nat \X Nat : ss[1] < ss[2]}
<1>0. IsWellFoundedOn(Less, Nat)
  BY NatLessThanWellFounded DEF OpToRel
<1>1. \A d \in S : d \in Nat /\ MaxDay - d \in Nat
  BY Days
<1>2. After \subseteq Nat /\ After # {}
  BY <1>1
<1>3. \E x \in After : \A y \in After : <<y, x>> \notin Less
  <2> HIDE DEF After, Less
  <2> QED BY <1>0, <1>2, WFMin
<1>4. PICK d \in S : \A y \in After : <<y, MaxDay - d>> \notin Less
  BY <1>3
<1>5. ASSUME NEW e \in S PROVE e <= d
  <2>1. MaxDay - e \in After /\ MaxDay - e \in Nat /\ MaxDay - d \in Nat
    BY <1>1
  <2>2. ~(MaxDay - e < MaxDay - d)
    BY <1>4, <2>1
  <2> QED BY <1>1, <2>2, Days
<1> QED BY <1>5 DEF Latest

\* ... and an oldest one.
LEMMA OldestIsOldest ==
  ASSUME NEW S, S \subseteq Day, S # {}
  PROVE  Oldest(S) \in S /\ \A e \in S : Oldest(S) <= e
<1> DEFINE Less == {ss \in Nat \X Nat : ss[1] < ss[2]}
<1>0. IsWellFoundedOn(Less, Nat)
  BY NatLessThanWellFounded DEF OpToRel
<1>1. S \subseteq Nat
  BY Days
<1>2. PICK d \in S : \A e \in S : <<e, d>> \notin Less
  <2> HIDE DEF Less
  <2> QED BY <1>0, <1>1, WFMin
<1>3. ASSUME NEW e \in S PROVE d <= e
  <2>1. <<e, d>> \notin Less /\ e \in Nat /\ d \in Nat
    BY <1>1, <1>2
  <2> QED BY <2>1
<1> QED BY <1>3 DEF Oldest

\* Fewer days count for less.
LEMMA DaysCount ==
  ASSUME NEW S, NEW T, S \subseteq T, T \subseteq Day
  PROVE  Cardinality(S) \in Nat /\ Cardinality(T) \in Nat /\ Cardinality(S) <= Cardinality(T)
<1>1. IsFiniteSet(Day)
  BY BackupsAssumption, FS_Interval DEF Day
<1>2. IsFiniteSet(T) /\ IsFiniteSet(S)
  BY <1>1, FS_Subset
<1> QED BY <1>2, FS_Subset, FS_CardinalityType

\* A set with as many newer ones as are kept is not the newest.
LEMMA SomeNewer ==
  ASSUME NEW d, Cardinality(Newer(d)) >= Keep
  PROVE  \E e \in Complete : e > d
<1>1. Keep \in Nat /\ Keep > 0 /\ Cardinality({}) = 0
  BY FS_EmptySet, BackupsAssumption
<1>2. Newer(d) # {}
  BY <1>1
<1> QED BY <1>2 DEF Newer

\* What retention may delete: as many as are kept are newer.
LEMMA NotNewest ==
  ASSUME NEW S, S \subseteq Day, NEW d \in S
  PROVE  d \notin Newest(S) <=> Cardinality({e \in S : e > d}) >= Keep
<1>1. Cardinality({e \in S : e > d}) \in Nat
  BY DaysCount
<1> QED BY <1>1, BackupsAssumption DEF Newest

-----------------------------------------------------------------------------
(* What the actions do to the directory. *)

\* A file written or removed is the only one that changes.
LEMMA WriteEffect ==
  ASSUME Shape, NEW k \in Kind, NEW d \in Day, NEW file, Write(k, d, file)
  PROVE  /\ Shape' /\ dir'[k][d] = file /\ \A j \in Kind : j # k => dir'[j] = dir[j]
         /\ \A j \in Kind, e \in Day : j # k \/ e # d => dir'[j][e] = dir[j][e]
  BY DEF Shape, Write

\* A rename (mv) changes the two files it names.
LEMMA RenamedEffect ==
  ASSUME Shape, stamp \in Day, NEW k \in Kind, NEW p \in Kind, k # p, dir' = Renamed(k, p)
  PROVE  /\ Shape' /\ dir'[k][stamp] = dir[p][stamp] /\ dir'[p][stamp] = Absent
         /\ \A j \in Kind, e \in Day : e # stamp \/ j \notin {k, p} => dir'[j][e] = dir[j][e]
         /\ \A j \in Kind \ {k, p} : dir'[j] = dir[j]
  BY DEF Shape, Renamed

\* A run that ends leaves its partial files cut and touches nothing else.
Ends ==
  /\ End /\ Shape'
  /\ dir'["globals"] = dir["globals"] /\ dir'["dump"] = dir["dump"]
  /\ \A k \in Kind, d \in Day :
       dir'[k][d] = dir[k][d] \/ (k \in {"globals.partial", "dump.partial"} /\ dir'[k][d] = Torn)

\* Stopping, failing or losing its container ends a run so, and a command that fails does.
LEMMA LeftEffect ==
  ASSUME Shape, stamp \in Day, End,
         \/ dir' = Left
         \/ dir' = [Left EXCEPT !["globals.partial"][stamp] = Torn]
         \/ dir' = [Left EXCEPT !["dump.partial"][stamp] = Torn]
  PROVE  Ends
<1>1. \A k \in Kind, d \in Day :
        Left[k][d] = dir[k][d] \/ (k \in {"globals.partial", "dump.partial"} /\ Left[k][d] = Torn)
  BY DEF Left
<1>2. /\ Left = [k \in Kind |-> [d \in Day |-> Left[k][d]]]
      /\ \A k \in {"globals", "dump"} : Left[k] = dir[k]
  BY DEF Left, Shape, Kind
<1>3. \A k \in {"globals", "dump"} : dir'[k] = dir[k]
  BY <1>2 DEF Kind
<1> HIDE DEF Left
<1>4. /\ Shape'
      /\ \A k \in Kind, d \in Day :
           dir'[k][d] = Left[k][d] \/ (k \in {"globals.partial", "dump.partial"} /\ dir'[k][d] = Torn)
  BY <1>2 DEF Shape, Kind
<1> QED BY <1>1, <1>3, <1>4 DEF Ends

\* The steps of backup.sh that change its directory; restore.sh changes none of it.
LEMMA DirWrites ==
  ASSUME Shape, stamp \in Day, [Next]_vars
  PROVE  \/ UNCHANGED dir \/ Ends
         \/ DumpGlobals \/ DumpDatabase \/ CutSilently \/ RenameGlobals \/ RenameDump
         \/ PruneGlobals \/ PruneDump
         \/ \E k \in Kind, d \in Day : Sweep(k, d)
<1>1. KeepPrevious \/ CutReported \/ Stop => Ends
  BY LeftEffect DEF KeepPrevious, CutReported, Stop
<1>2. Lose \/ StartOver => Ends \/ UNCHANGED dir
  BY LeftEffect DEF Lose, StartOver, NewVolume
<1> QED BY <1>1, <1>2
  DEF Next, Backup, Restore, RestoreOn, Environment, vars, Begin, FindLitter, Finish,
      BeginRestore, DropEmpty, Refuse, ApplyRoles, RestoreDatabase, RestorePart, StopRestore, NextDay,
      KernelWrites, StartAnew, CreateRole, DropRole

\* Only the renaming of a dump adds a complete set, and only the removal of one's globals
\* takes one away.
LEMMA GlobalsRenamed ==
  ASSUME RetentionInv, RenameGlobals
  PROVE  /\ Complete' = Complete /\ dir'["globals"][stamp] = dir["globals.partial"][stamp]
         /\ dir'["dump.partial"] = dir["dump.partial"] /\ dir'["dump"] = dir["dump"] /\ Shape'
         /\ \A d \in Day : d # stamp => dir'["globals"][d] = dir["globals"][d]
<1> USE DEF RetentionInv
<1>1. stamp \in Day /\ pc = "verify"
  BY DEF TypeOK, RenameGlobals, Goto
<1>2. /\ Shape' /\ dir'["globals"][stamp] = dir["globals.partial"][stamp]
      /\ \A j \in Kind, e \in Day :
           e # stamp \/ j \notin {"globals", "globals.partial"} => dir'[j][e] = dir[j][e]
      /\ \A j \in Kind \ {"globals", "globals.partial"} : dir'[j] = dir[j]
  BY <1>1, RenamedEffect DEF RenameGlobals, Kind
<1>3. dir'["dump.partial"] = dir["dump.partial"] /\ dir'["dump"] = dir["dump"]
  BY <1>2 DEF Kind
<1>4. \A d \in Day : d # stamp => dir'["globals"][d] = dir["globals"][d]
  BY <1>2 DEF Kind
<1>5. dir["dump"][stamp] # Absent => dir["globals"][stamp] # Absent
  <2>1. \A e \in Complete : e <= stamp /\ e \in Nat
    BY <1>1, Days DEF DatesPassed, Taking, Complete
  <2>2. stamp \in Nat
    BY <1>1, Days
  <2> QED BY <1>1, <2>1, <2>2 DEF LoneDumps
<1>6. dir["globals.partial"][stamp] # Absent
  BY <1>1, BackupsAssumption DEF Taken, RenameGlobals, Verified
<1> QED BY <1>1, <1>2, <1>3, <1>4, <1>5, <1>6 DEF Complete

\* The dump's rename completes the set of the run's date.
LEMMA DumpRenamed ==
  ASSUME RetentionInv, RenameDump
  PROVE  /\ Complete' = Complete \cup {stamp} /\ stamp \in Complete'
         /\ dir'["dump"][stamp] = dir["dump.partial"][stamp]
         /\ dir'["globals"] = dir["globals"] /\ Shape'
         /\ \A d \in Day : d # stamp => dir'["dump"][d] = dir["dump"][d]
<1> USE DEF RetentionInv
<1>1. stamp \in Day /\ pc = "rename"
  BY DEF TypeOK, RenameDump, Goto
<1>2. /\ Shape' /\ dir'["dump"][stamp] = dir["dump.partial"][stamp]
      /\ \A j \in Kind, e \in Day :
           e # stamp \/ j \notin {"dump", "dump.partial"} => dir'[j][e] = dir[j][e]
      /\ \A j \in Kind \ {"dump", "dump.partial"} : dir'[j] = dir[j]
  BY <1>1, RenamedEffect DEF RenameDump, Kind
<1>3. dir'["globals"] = dir["globals"]
  BY <1>2 DEF Kind
<1>4. \A d \in Day : d # stamp => dir'["dump"][d] = dir["dump"][d]
  BY <1>2 DEF Kind
<1>5. dir["dump.partial"][stamp] # Absent /\ dir["globals"][stamp] # Absent
  BY <1>1 DEF Taken
<1> QED BY <1>1, <1>2, <1>3, <1>4, <1>5 DEF Complete

\* Pruning takes a set away by its globals, the latest of the surplus first.
LEMMA GlobalsPruned ==
  ASSUME RetentionInv, PruneGlobals
  PROVE  /\ Complete' = Complete \ {Latest(surplus)} /\ Latest(surplus) \in surplus /\ Latest(surplus) \in Day
         /\ \A d \in surplus : d <= Latest(surplus)
         /\ dir'["globals"][Latest(surplus)] = Absent /\ dir'["dump"] = dir["dump"] /\ Shape'
         /\ \A d \in Day : d # Latest(surplus) => dir'["globals"][d] = dir["globals"][d]
<1> USE DEF RetentionInv
<1> DEFINE m == Latest(surplus)
<1>1. m \in surplus /\ m \in Day /\ \A d \in surplus : d <= m
  BY LatestIsLatest DEF PruneGlobals, TypeOK
<1>2. Write("globals", m, Absent)
  BY DEF PruneGlobals
<1> HIDE DEF m
<1>3. /\ Shape' /\ dir'["globals"][m] = Absent
      /\ \A j \in Kind, e \in Day : j # "globals" \/ e # m => dir'[j][e] = dir[j][e]
  BY <1>1, <1>2, WriteEffect DEF Kind
<1>4. dir'["dump"] = dir["dump"]
  BY <1>2 DEF Write
<1>5. \A d \in Day : d # m => dir'["globals"][d] = dir["globals"][d]
  BY <1>3 DEF Kind
<1>6. Complete' = Complete \ {m}
  BY <1>1, <1>3, <1>4, <1>5 DEF Complete
<1> QED BY <1>1, <1>3, <1>4, <1>5, <1>6 DEF m

\* The dump it removes next belongs to no complete set any more.
LEMMA DumpPruned ==
  ASSUME RetentionInv, PruneDump
  PROVE  /\ Complete' = Complete /\ Latest(surplus) \in Day
         /\ dir'["globals"] = dir["globals"] /\ Shape' /\ dir'["dump"][Latest(surplus)] = Absent
         /\ \A d \in Day : d # Latest(surplus) => dir'["dump"][d] = dir["dump"][d]
         /\ Latest(surplus) \notin Complete
<1> USE DEF RetentionInv
<1> DEFINE m == Latest(surplus)
<1>1. m \in surplus /\ m \in Day
  BY LatestIsLatest DEF PruneDump, TypeOK
<1>2. Write("dump", m, Absent) /\ dir["globals"][m] = Absent
  BY DEF PruneDump
<1> HIDE DEF m
<1>3. /\ Shape' /\ dir'["dump"][m] = Absent
      /\ \A j \in Kind, e \in Day : j # "dump" \/ e # m => dir'[j][e] = dir[j][e]
  BY <1>1, <1>2, WriteEffect DEF Kind
<1>4. dir'["globals"] = dir["globals"]
  BY <1>2 DEF Write
<1>5. \A d \in Day : d # m => dir'["dump"][d] = dir["dump"][d]
  BY <1>3 DEF Kind
<1>6. Complete' = Complete /\ m \notin Complete
  BY <1>1, <1>2, <1>3, <1>4, <1>5 DEF Complete
<1> QED BY <1>1, <1>3, <1>4, <1>5, <1>6 DEF m

\* The sweep removes a file of no complete set.
LEMMA Swept ==
  ASSUME RetentionInv, NEW k \in Kind, NEW d \in Day, Sweep(k, d)
  PROVE  /\ Complete' = Complete /\ d \notin Complete /\ Shape' /\ dir'[k][d] = Absent
         /\ \A j \in Kind, e \in Day : j # k \/ e # d => dir'[j][e] = dir[j][e]
<1> USE DEF RetentionInv
<1>1. d \notin Complete
  BY DEF LitterLoose, Sweep
<1>2. /\ Shape' /\ dir'[k][d] = Absent
      /\ \A j \in Kind, e \in Day : j # k \/ e # d => dir'[j][e] = dir[j][e]
  BY WriteEffect DEF Sweep
<1>3. \A e \in Day : e \in Complete' <=> e \in Complete
  <2>1. \A e \in Day : e # d => dir'["globals"][e] = dir["globals"][e] /\ dir'["dump"][e] = dir["dump"][e]
    BY <1>2 DEF Kind
  <2>2. d \notin Complete'
    BY <1>1, <1>2 DEF Complete, Kind
  <2> QED BY <1>1, <2>1, <2>2 DEF Complete
<1> QED BY <1>1, <1>2, <1>3 DEF Complete

\* A dump is written beside the sets, to its partial file.
LEMMA PartialWritten ==
  ASSUME RetentionInv, DumpGlobals \/ DumpDatabase \/ CutSilently
  PROVE  /\ Complete' = Complete /\ Shape' /\ dir'["globals"] = dir["globals"] /\ dir'["dump"] = dir["dump"]
         /\ dir'["globals.partial"] # dir["globals.partial"] => pc = "globals"
         /\ pc = "globals" => dir'["dump.partial"] = dir["dump.partial"]
<1> USE DEF RetentionInv
<1>1. stamp \in Day
  BY DEF TypeOK
<1>2. \/ pc = "globals" /\ \E file : Write("globals.partial", stamp, file)
      \/ pc = "database" /\ \E file : Write("dump.partial", stamp, file)
  BY DEF DumpGlobals, DumpDatabase, CutSilently, Goto
<1>3. Shape'
  BY <1>1, <1>2, WriteEffect DEF Kind
<1>4. /\ dir'["globals"] = dir["globals"] /\ dir'["dump"] = dir["dump"]
      /\ dir'["globals.partial"] # dir["globals.partial"] => pc = "globals"
      /\ pc = "globals" => dir'["dump.partial"] = dir["dump.partial"]
  BY <1>1, <1>2, WriteEffect DEF Kind
<1> QED BY <1>3, <1>4 DEF Complete

\* The complete sets are read off the directory.
LEMMA SameComplete == UNCHANGED dir \/ Ends => Complete' = Complete /\ (Shape => Shape')
  BY DEF Complete, Shape, Ends

\* What every other action leaves of a backup: all of it, or nothing but its files.
Elsewhere ==
  /\ UNCHANGED <<acked, matched>> /\ today' >= today
  /\ \/ UNCHANGED dir /\ (End \/ UNCHANGED <<pc, stamp, surplus, litter>>)
     \/ Ends

\* The steps of a backup, and every other action.
LEMMA Moves ==
  ASSUME TypeOK, Shape, [Next]_vars
  PROVE  \/ Begin \/ DumpGlobals \/ DumpDatabase \/ CutSilently \/ RenameGlobals \/ RenameDump
         \/ PruneGlobals \/ PruneDump \/ FindLitter \/ \E k \in Kind, d \in Day : Sweep(k, d)
         \/ Elsewhere
<1>1. today \in Nat /\ today <= today /\ stamp \in Day
  BY Days DEF TypeOK
<1>2. KeepPrevious \/ CutReported \/ Stop => Ends
  BY <1>1, LeftEffect DEF KeepPrevious, CutReported, Stop
<1>3. Lose \/ StartOver => Ends \/ UNCHANGED <<dir, run>>
  BY <1>1, LeftEffect DEF Lose, StartOver, NewVolume
<1>4. KeepPrevious \/ CutReported \/ Stop \/ Lose \/ StartOver \/ Finish \/ NextDay => Elsewhere
  BY <1>1, <1>2, <1>3
     DEF KeepPrevious, CutReported, Stop, Lose, StartOver, Finish, NextDay, Elsewhere, run, history
<1>5. Restore \/ KernelWrites \/ StartAnew \/ (\E r \in Role : CreateRole(r) \/ DropRole(r)) \/ UNCHANGED vars
        => Elsewhere
  BY <1>1 DEF Restore, RestoreOn, BeginRestore, DropEmpty, Refuse, ApplyRoles, RestoreDatabase, RestorePart,
     StopRestore, KernelWrites, StartAnew, CreateRole, DropRole, RolesChange, vars, Elsewhere, run, history
<1> QED BY <1>4, <1>5 DEF Next, Backup, Environment

\* What a roles file or a dump may be matched with changes in few steps.
LEMMA SteadyMoves ==
  ASSUME [Next]_vars
  PROVE  \/ UNCHANGED steady
         \/ (RolesChange \/ NewVolume) /\ steady' = {}
         \/ DumpDatabase \/ CutSilently \/ RenameDump
  BY DEF Next, Backup, Restore, RestoreOn, Environment, vars, history, Begin, DumpGlobals, CutReported, KeepPrevious,
     RenameGlobals, PruneGlobals, PruneDump, FindLitter, Sweep, Finish, Stop, BeginRestore, DropEmpty, Refuse,
     ApplyRoles, RestoreDatabase, RestorePart, StopRestore, NextDay, KernelWrites, Lose, StartOver, NewVolume,
     StartAnew, CreateRole, DropRole, RolesChange

\* The roles change only where that is taken into account.
LEMMA RolesMove == ASSUME [Next]_vars PROVE UNCHANGED roles \/ steady' = {}
  BY DEF Next, Backup, Restore, RestoreOn, Environment, vars, cluster, Begin, DumpGlobals, DumpDatabase, CutReported,
     CutSilently, KeepPrevious, RenameGlobals, RenameDump, PruneGlobals, PruneDump, FindLitter, Sweep, Finish, Stop,
     BeginRestore, DropEmpty, Refuse, ApplyRoles, RestoreDatabase, RestorePart, StopRestore, NextDay, KernelWrites,
     Lose, StartOver, NewVolume, StartAnew, CreateRole, DropRole, RolesChange

-----------------------------------------------------------------------------
(* Types. *)

DirTypes ==
  \A d \in Day :
    /\ dir["globals"][d] \in {Absent} \cup SUBSET Role
    /\ dir["dump"][d] \in {Absent, Empty, Part} \cup Content
    /\ dir["globals.partial"][d] \in {Absent, Torn} \cup SUBSET Role
    /\ dir["dump.partial"][d] \in {Absent, Torn, Empty, Part} \cup Content

\* The directory holds whole roles files and dumps of a database, cut ones in partials only.
LEMMA DirTypesStep == ASSUME RetentionInv, [Next]_vars PROVE DirTypes'
<1> USE DEF RetentionInv
<1>0. DirTypes /\ stamp \in Day
  BY DEF TypeOK, DirTypes
<1>1. CASE UNCHANGED dir \/ Ends
  BY <1>0, <1>1 DEF DirTypes, Ends, Kind
<1>2. ASSUME NEW k \in Kind, NEW d \in Day, NEW file, Write(k, d, file),
             file = Absent \/ (k = "globals.partial" /\ file \in {Torn} \cup SUBSET Role)
                           \/ (k = "dump.partial" /\ file \in {Torn, Empty, Part} \cup Content)
      PROVE  DirTypes'
  <2>1. dir'[k][d] = file /\ \A j \in Kind, e \in Day : j # k \/ e # d => dir'[j][e] = dir[j][e]
    BY <1>2, WriteEffect
  <2> QED BY <1>0, <1>2, <2>1 DEF DirTypes, Kind
<1>3. CASE DumpGlobals \/ DumpDatabase \/ CutSilently
  <2>1. roles \in SUBSET Role /\ database \in {Absent, Empty, Part} \cup Content /\ SUBSET roles \subseteq SUBSET Role
    BY DEF TypeOK
  <2> QED BY <1>0, <1>2, <1>3, <2>1 DEF DumpGlobals, DumpDatabase, CutSilently, Kind
<1>4. CASE RenameGlobals
  <2>1. dir["globals.partial"][stamp] \in {Absent} \cup SUBSET Role
    BY <1>0, <1>4 DEF DirTypes, RenameGlobals, Verified
  <2>2. /\ dir'["globals"][stamp] = dir["globals.partial"][stamp] /\ dir'["globals.partial"][stamp] = Absent
        /\ \A j \in Kind, e \in Day :
             e # stamp \/ j \notin {"globals", "globals.partial"} => dir'[j][e] = dir[j][e]
    BY <1>0, <1>4, RenamedEffect DEF RenameGlobals, Kind
  <2> QED BY <1>0, <2>1, <2>2 DEF DirTypes, Kind
<1>5. CASE RenameDump
  <2>1. dir["dump.partial"][stamp] \in {Absent, Empty, Part} \cup Content
    BY <1>0, <1>5 DEF DirTypes, RenameDump, Goto, Taken
  <2>2. /\ dir'["dump"][stamp] = dir["dump.partial"][stamp] /\ dir'["dump.partial"][stamp] = Absent
        /\ \A j \in Kind, e \in Day :
             e # stamp \/ j \notin {"dump", "dump.partial"} => dir'[j][e] = dir[j][e]
    BY <1>0, <1>5, RenamedEffect DEF RenameDump, Kind
  <2> QED BY <1>0, <2>1, <2>2 DEF DirTypes, Kind
<1>6. CASE PruneGlobals \/ PruneDump
  <2>1. Latest(surplus) \in Day
    BY <1>6, GlobalsPruned, DumpPruned
  <2> QED BY <1>2, <1>6, <2>1 DEF PruneGlobals, PruneDump, Kind
<1>7. ASSUME NEW k \in Kind, NEW d \in Day, Sweep(k, d) PROVE DirTypes'
  BY <1>2, <1>7 DEF Sweep
<1> QED BY <1>0, <1>1, <1>3, <1>4, <1>5, <1>6, <1>7, DirWrites

\* The backup's own variables keep their types.
LEMMA RunTypesStep ==
  ASSUME RetentionInv, [Next]_vars
  PROVE  /\ today' \in Day /\ stamp' \in Day
         /\ pc' \in {"idle", "globals", "database", "verify", "rename", "prune", "sweep"}
         /\ surplus' \subseteq Day /\ litter' \subseteq Kind \X Day
<1> USE DEF RetentionInv, run, bounds, cluster, restore, Goto, End
<1>1. CASE RenameDump
  <2>1. surplus' \subseteq Day
    BY <1>1 DEF RenameDump, Surplus, Complete
  <2> QED BY <1>1, <2>1 DEF RenameDump, TypeOK
<1>2. CASE FindLitter
  <2>1. litter' \subseteq Kind \X Day
    BY <1>2 DEF FindLitter, Litter
  <2> QED BY <1>2, <2>1 DEF FindLitter, TypeOK
<1>3. CASE Begin \/ DumpGlobals \/ DumpDatabase \/ CutSilently \/ RenameGlobals \/ PruneGlobals \/ PruneDump
           \/ \E k \in Kind, d \in Day : Sweep(k, d)
  BY <1>3, Days DEF Begin, DumpGlobals, DumpDatabase, CutSilently, RenameGlobals, PruneGlobals, PruneDump, Sweep, TypeOK
<1>4. CASE Elsewhere
  <2>1. today' \in Day
    <3>1. CASE today' = today
      BY <3>1 DEF TypeOK
    <3>2. CASE NextDay
      BY <3>2, BackupsAssumption DEF NextDay, TypeOK, Day
    <3> QED
      BY <3>1, <3>2 DEF Next, Backup, Restore, RestoreOn, Environment, vars, Begin, DumpGlobals, DumpDatabase,
         CutReported, CutSilently, KeepPrevious, RenameGlobals, RenameDump, PruneGlobals, PruneDump, FindLitter,
         Sweep, Finish, Stop, BeginRestore, DropEmpty, Refuse, ApplyRoles, RestoreDatabase, RestorePart,
         StopRestore, KernelWrites, Lose, StartOver, StartAnew, CreateRole, DropRole
  <2> QED BY <1>4, <2>1, Days DEF Elsewhere, Ends, TypeOK
<1> QED BY <1>1, <1>2, <1>3, <1>4, Moves

\* So do the histories.
LEMMA HistoryTypesStep ==
  ASSUME RetentionInv, [Next]_vars
  PROVE  /\ acked' \in 0..MaxData /\ agreeing' \in BOOLEAN
         /\ steady' \subseteq {"dump", "dump.partial"} /\ matched' \subseteq Day
<1> USE DEF RetentionInv
<1>0. /\ acked \in 0..MaxData /\ 0 \in 0..MaxData /\ agreeing \in BOOLEAN
      /\ steady \subseteq {"dump", "dump.partial"} /\ matched \subseteq Day /\ stamp \in Day
  BY BackupsAssumption DEF TypeOK
<1>1. ASSUME RenameDump PROVE acked' \in 0..MaxData
  BY <1>0, <1>1 DEF RenameDump, Content
<1>2. acked' \in 0..MaxData
  BY <1>0, <1>1, Moves DEF history, Begin, DumpGlobals, DumpDatabase, CutSilently, RenameGlobals, PruneGlobals,
     PruneDump, FindLitter, Sweep, Elsewhere
<1>3. matched' \subseteq Day
  <2>1. CASE PruneGlobals
    BY <1>0, <2>1, GlobalsPruned DEF PruneGlobals, Match
  <2> QED BY <1>0, <2>1, Moves DEF history, Begin, DumpGlobals, DumpDatabase, CutSilently, RenameGlobals, RenameDump,
       PruneDump, FindLitter, Sweep, Elsewhere, Match
<1>5. steady' \subseteq {"dump", "dump.partial"}
  <2>1. CASE UNCHANGED steady
    BY <1>0, <2>1
  <2>2. CASE RolesChange \/ NewVolume
    BY <2>2 DEF RolesChange, NewVolume
  <2>3. CASE DumpDatabase \/ CutSilently \/ RenameDump
    BY <1>0, <2>3 DEF DumpDatabase, CutSilently, RenameDump
  <2> QED BY <2>1, <2>2, <2>3, SteadyMoves
<1>4. agreeing' \in BOOLEAN
  <2>1. CASE UNCHANGED agreeing
    BY <1>0, <2>1
  <2>2. CASE End
    BY <2>2 DEF End
  <2>3. CASE RolesChange
    BY <2>3 DEF RolesChange
  <2>4. CASE DumpGlobals \/ DumpDatabase \/ CutSilently \/ RenameDump
    BY <2>4 DEF DumpGlobals, DumpDatabase, CutSilently, RenameDump
  <2> QED
    BY <2>1, <2>2, <2>3, <2>4
       DEF Next, Backup, Restore, RestoreOn, Environment, vars, run, Begin, CutReported, KeepPrevious, RenameGlobals,
           PruneGlobals, PruneDump, FindLitter, Sweep, Finish, Stop, BeginRestore, DropEmpty, Refuse, ApplyRoles,
           RestoreDatabase, RestorePart, StopRestore, NextDay, KernelWrites, Lose, StartOver, NewVolume, StartAnew,
           CreateRole, DropRole
<1> QED BY <1>2, <1>3, <1>4, <1>5

\* The cluster's, the restore's and the bounds do.
LEMMA ClusterTypesStep ==
  ASSUME RetentionInv, [Next]_vars
  PROVE  /\ database' \in {Absent, Empty, Part} \cup Content /\ roles' \subseteq Role
         /\ chosen' \in Day /\ rpc' \in {"idle", "check", "roles", "database"}
         /\ faults' \in 0..MaxFaults /\ losses' \in 0..MaxLosses
<1> USE DEF RetentionInv, run, bounds, cluster, restore, GotoR, EndR, Fault
<1>0. /\ Holding => database \in Content /\ database.data \in 0..MaxData /\ database.needs \in SUBSET Role
      /\ chosen \in Day /\ 1 \in Day
      /\ MaxData \in Nat /\ MaxFaults \in Nat /\ MaxLosses \in Nat
  BY BackupsAssumption, Days DEF Holding, Content, TypeOK
<1>1. ASSUME KernelWrites PROVE database' \in Content
  BY <1>0, <1>1 DEF KernelWrites, Content, Holding
<1>2. ASSUME NEW r \in Role, CreateRole(r) \/ DropRole(r) PROVE database' \in Content /\ roles' \subseteq Role
  BY <1>0, <1>2 DEF CreateRole, DropRole, Content, Holding, TypeOK
<1>3. ASSUME RestoreDatabase \/ StartAnew PROVE database' \in Content
  BY <1>0, <1>3 DEF RestoreDatabase, Restorable, StartAnew, Content
<1>4. ASSUME ApplyRoles PROVE roles' \subseteq Role
  BY <1>0, <1>4 DEF ApplyRoles, Listed, TypeOK
<1>6. database' \in {Absent, Empty, Part} \cup Content /\ roles' \subseteq Role
  BY <1>1, <1>2, <1>3, <1>4
     DEF Next, Backup, Restore, RestoreOn, Environment, vars, TypeOK, Begin, DumpGlobals, DumpDatabase, CutReported,
         CutSilently, KeepPrevious, RenameGlobals, RenameDump, PruneGlobals, PruneDump, FindLitter, Sweep, Finish,
         Stop, BeginRestore, DropEmpty, Refuse, ApplyRoles, RestoreDatabase, RestorePart, StopRestore, NextDay,
         KernelWrites, Lose, StartOver, NewVolume, StartAnew
<1>8. /\ faults' = faults \/ (faults' = faults + 1 /\ faults < MaxFaults)
      /\ losses' = losses \/ (losses' = losses + 1 /\ losses < MaxLosses)
  <2>1. CASE CutReported \/ CutSilently \/ Stop \/ ApplyRoles \/ RestorePart \/ StopRestore
    <3>1. Fault \/ UNCHANGED bounds
      BY <2>1 DEF CutReported, CutSilently, Stop, ApplyRoles, RestorePart, StopRestore
    <3> QED BY <3>1
  <2>2. CASE Lose
    BY <2>2 DEF Lose
  <2>3. CASE (Backup /\ ~CutReported /\ ~CutSilently /\ ~Stop) \/ (\E d \in Day : BeginRestore(d)) \/ DropEmpty \/ Refuse
             \/ RestoreDatabase
    BY <2>3 DEF Backup, Begin, DumpGlobals, DumpDatabase, KeepPrevious, RenameGlobals, RenameDump, PruneGlobals,
       PruneDump, FindLitter, Sweep, Finish, BeginRestore, DropEmpty, Refuse, RestoreDatabase
  <2>4. CASE (Environment /\ ~Lose) \/ UNCHANGED vars
    BY <2>4 DEF Environment, NextDay, KernelWrites, StartOver, StartAnew, CreateRole, DropRole, vars
  <2> QED BY <2>1, <2>2, <2>3, <2>4 DEF Next, Restore, RestoreOn, Backup, Environment
<1>9. faults' \in 0..MaxFaults /\ losses' \in 0..MaxLosses
  BY <1>0, <1>8 DEF TypeOK
<1>10. chosen' \in Day /\ rpc' \in {"idle", "check", "roles", "database"}
  BY <1>0
     DEF Next, Backup, Restore, RestoreOn, Environment, vars, TypeOK, Begin, DumpGlobals, DumpDatabase, CutReported,
         CutSilently, KeepPrevious, RenameGlobals, RenameDump, PruneGlobals, PruneDump, FindLitter, Sweep, Finish,
         Stop, BeginRestore, DropEmpty, Refuse, ApplyRoles, RestoreDatabase, RestorePart, StopRestore, NextDay,
         KernelWrites, Lose, StartOver, NewVolume, StartAnew, CreateRole, DropRole
<1> QED BY <1>6, <1>9, <1>10

\* All of them do.
LEMMA TypeStep == ASSUME RetentionInv, [Next]_vars PROVE TypeOK'
  BY DirTypesStep, RunTypesStep, HistoryTypesStep, ClusterTypesStep DEF DirTypes, TypeOK

\* The directory stays a table of kinds by dates.
LEMMA ShapeStep == ASSUME RetentionInv, [Next]_vars PROVE Shape'
<1>1. Shape /\ stamp \in Day
  BY DEF RetentionInv, TypeOK
<1> QED BY <1>1, DirWrites, GlobalsRenamed, DumpRenamed, GlobalsPruned, DumpPruned, Swept, PartialWritten,
           SameComplete

-----------------------------------------------------------------------------
(* Retention. *)

\* The clock only moves forward, and a run keeps the date it took at its start.
LEMMA DatesPassedStep == ASSUME RetentionInv, [Next]_vars PROVE DatesPassed'
<1> USE DEF RetentionInv
<1>0. /\ stamp \in Nat /\ today \in Nat /\ 1 <= today /\ \A d \in Complete : d \in Nat
      /\ stamp <= today /\ \A d \in Complete : d <= today
  BY Days DEF TypeOK, Complete, DatesPassed, Day
<1>1. CASE Begin
  BY <1>0, <1>1, SameComplete DEF Begin, Goto, DatesPassed, Taking
<1>2. CASE DumpGlobals \/ DumpDatabase \/ CutSilently
  BY <1>0, <1>2, PartialWritten DEF DumpGlobals, DumpDatabase, CutSilently, Goto, End, DatesPassed, Taking
<1>3. CASE RenameGlobals
  BY <1>3, GlobalsRenamed DEF RenameGlobals, Goto, DatesPassed, Taking
<1>4. CASE RenameDump
  <2>1. Complete' = Complete \cup {stamp} /\ UNCHANGED <<stamp, today>> /\ pc' = "prune"
    BY <1>4, DumpRenamed DEF RenameDump, Goto
  <2> QED BY <1>0, <2>1 DEF DatesPassed, Taking
<1>5. CASE PruneGlobals
  BY <1>5, GlobalsPruned DEF PruneGlobals, run, DatesPassed, Taking
<1>6. CASE PruneDump
  BY <1>6, DumpPruned DEF PruneDump, run, DatesPassed, Taking
<1>7. CASE FindLitter
  BY <1>7, SameComplete DEF FindLitter, Goto, DatesPassed, Taking
<1>8. ASSUME NEW k \in Kind, NEW d \in Day, Sweep(k, d) PROVE DatesPassed'
  BY <1>8, Swept DEF Sweep, DatesPassed, Taking
<1>9. CASE Elsewhere
  <2>1. Complete' = Complete /\ today' >= today /\ today' \in Nat
    BY <1>9, SameComplete, RunTypesStep, Days DEF Elsewhere
  <2>2. (stamp' = 1 /\ pc' = "idle") \/ UNCHANGED <<stamp, pc>>
    BY <1>9 DEF Elsewhere, Ends, End
  <2> QED BY <1>0, <2>1, <2>2 DEF DatesPassed, Taking
<1> QED BY <1>1, <1>2, <1>3, <1>4, <1>5, <1>6, <1>7, <1>8, <1>9, Moves

\* A run reaches the renames with both files written and verified.
LEMMA TakenStep == ASSUME RetentionInv, [Next]_vars PROVE Taken'
<1> USE DEF RetentionInv
<1>0. /\ stamp \in Day /\ roles # Absent /\ Torn # Absent
      /\ \A d \in Day : dir["globals.partial"][d] # Absent => dir["globals.partial"][d] \in {Torn} \cup SUBSET Role
  BY BackupsAssumption DEF TypeOK
<1>1. CASE Begin \/ FindLitter \/ PruneGlobals \/ PruneDump
  BY <1>1 DEF Begin, FindLitter, PruneGlobals, PruneDump, run, Goto, Taken
<1>2. CASE DumpGlobals
  <2>1. dir'["globals.partial"][stamp] = roles
    BY <1>0, <1>2, WriteEffect DEF DumpGlobals, Kind
  <2> QED BY <1>0, <1>2, <2>1 DEF DumpGlobals, Goto, Taken
<1>3. CASE DumpDatabase
  <2>1. dir'["dump.partial"][stamp] = database /\ dir'["globals.partial"][stamp] = dir["globals.partial"][stamp]
    BY <1>0, <1>3, WriteEffect DEF DumpDatabase, Kind
  <2> QED BY <1>0, <1>3, <2>1 DEF DumpDatabase, Goto, Taken
<1>4. CASE CutSilently
  <2>1. stamp' = stamp /\ Part # Absent /\ \A part \in SUBSET Role : part # Absent
    BY <1>4, BackupsAssumption DEF CutSilently
  <2>2. CASE pc = "globals"
    <3>1. PICK part \in {Torn} \cup SUBSET roles : Write("globals.partial", stamp, part)
      BY <1>4, <2>2 DEF CutSilently, Goto
    <3>2. dir'["globals.partial"][stamp] = part /\ part # Absent /\ pc' = "database"
      BY <1>0, <1>4, <2>1, <2>2, <3>1, WriteEffect DEF CutSilently, Goto, Kind, TypeOK
    <3> QED BY <2>1, <3>2 DEF Taken
  <2>3. CASE pc = "database"
    <3>1. PICK part \in {Torn, Part} : Write("dump.partial", stamp, part)
      BY <1>4, <2>3 DEF CutSilently, Goto
    <3>2. dir'["dump.partial"][stamp] = part /\ dir'["globals.partial"][stamp] = dir["globals.partial"][stamp]
      BY <1>0, <3>1, WriteEffect DEF Kind
    <3> QED BY <1>0, <1>4, <2>1, <2>3, <3>1, <3>2 DEF CutSilently, Goto, Taken
  <2> QED BY <1>4, <2>2, <2>3 DEF CutSilently, Goto
<1>5. CASE RenameGlobals
  <2>1. dir["globals.partial"][stamp] # Absent /\ dir["dump.partial"][stamp] \notin {Absent, Torn}
    BY <1>5 DEF RenameGlobals, Goto, Verified, Taken
  <2> QED BY <1>5, <2>1, GlobalsRenamed DEF RenameGlobals, Goto, Taken
<1>6. CASE RenameDump
  BY <1>6 DEF RenameDump, Goto, Taken
<1>7. ASSUME NEW k \in Kind, NEW d \in Day, Sweep(k, d) PROVE Taken'
  BY <1>7 DEF Sweep, Taken
<1>8. CASE Elsewhere
  BY <1>8 DEF Elsewhere, Ends, End, Taken
<1> QED BY <1>1, <1>2, <1>3, <1>4, <1>5, <1>6, <1>7, <1>8, Moves

\* The next run of the day never completes a set by its first rename alone.
LEMMA LoneDumpsStep == ASSUME RetentionInv, [Next]_vars PROVE LoneDumps'
<1> USE DEF RetentionInv
<1>0. Shape /\ stamp \in Day
  BY DEF TypeOK
<1>1. CASE UNCHANGED dir \/ Ends
  BY <1>1, SameComplete DEF LoneDumps, Ends
<1>2. CASE DumpGlobals \/ DumpDatabase \/ CutSilently
  BY <1>2, PartialWritten DEF LoneDumps
<1>3. CASE RenameGlobals
  <2>1. dir["globals.partial"][stamp] # Absent /\ stamp \in Day
    BY <1>3 DEF RenameGlobals, Goto, Taken, TypeOK
  <2> QED BY <1>3, <2>1, GlobalsRenamed DEF LoneDumps
<1>4. CASE RenameDump
  <2>1. dir["globals"][stamp] # Absent
    BY <1>4 DEF RenameDump, Goto, Taken
  <2> QED BY <1>4, <2>1, DumpRenamed DEF LoneDumps
<1>5. CASE PruneGlobals
  <2> DEFINE m == Latest(surplus)
  <2>1. Complete' = Complete \ {m} /\ m \in surplus /\ m \in Nat /\ dir'["dump"] = dir["dump"]
    BY <1>5, GlobalsPruned, Days
  <2>2. \A d \in Day : d # m => dir'["globals"][d] = dir["globals"][d]
    BY <1>5, GlobalsPruned
  <2> HIDE DEF m
  <2>3. \A d \in Complete : d \in Nat
    BY Days DEF Complete
  <2>4. PICK e \in Complete : e > m
    BY <1>5, <2>1, SomeNewer DEF PruneGlobals, PruningOld
  <2>5. e \in Complete'
    BY <2>1, <2>3, <2>4
  <2>6. ASSUME NEW d \in Day, dir'["dump"][d] # Absent, dir'["globals"][d] = Absent
        PROVE  \E x \in Complete' : d < x
    <3>1. CASE d = m
      BY <2>4, <2>5, <3>1, <2>1, <2>3
    <3>2. CASE d # m
      <4>1. PICK x \in Complete : d < x
        BY <2>1, <2>2, <2>6, <3>2 DEF LoneDumps
      <4>2. x = m => d < e
        <5>1. d \in Nat /\ x \in Nat /\ e \in Nat /\ m \in Nat
          BY <2>1, <2>3, Days
        <5> QED BY <2>4, <4>1, <5>1
      <4> QED BY <2>1, <2>5, <4>1, <4>2
    <3> QED BY <3>1, <3>2
  <2> QED BY <2>6 DEF LoneDumps
<1>6. CASE PruneDump
  BY <1>6, DumpPruned DEF LoneDumps
<1>7. ASSUME NEW k \in Kind, NEW d \in Day, Sweep(k, d) PROVE LoneDumps'
  <2>1. /\ Complete' = Complete /\ d \notin Complete /\ dir'[k][d] = Absent
        /\ \A j \in Kind, e \in Day : j # k \/ e # d => dir'[j][e] = dir[j][e]
    BY <1>7, Swept
  <2>2. ASSUME NEW x \in Day, dir'["dump"][x] # Absent, dir'["globals"][x] = Absent
        PROVE  \E e \in Complete' : x < e
    <3>1. dir["dump"][x] # Absent
      BY <2>1, <2>2 DEF Kind
    <3>2. dir["globals"][x] = Absent
      BY <2>1, <2>2, <3>1 DEF Kind, Complete
    <3> QED BY <2>1, <3>1, <3>2 DEF LoneDumps
  <2> QED BY <2>2 DEF LoneDumps
<1> QED BY <1>0, <1>1, <1>2, <1>3, <1>4, <1>5, <1>6, <1>7, DirWrites

\* The loop's list, computed once, is still right after each removal.
LEMMA PruningOldStep == ASSUME RetentionInv, [Next]_vars PROVE PruningOld'
<1> USE DEF RetentionInv
<1>0. Complete \subseteq Day /\ Complete' \subseteq Day /\ Keep \in Nat
  BY BackupsAssumption DEF Complete
<1>1. CASE Begin \/ DumpGlobals \/ DumpDatabase \/ CutSilently \/ RenameGlobals \/ FindLitter
           \/ \E k \in Kind, d \in Day : Sweep(k, d)
  BY <1>1 DEF Begin, DumpGlobals, DumpDatabase, CutSilently, RenameGlobals, FindLitter, Sweep, Goto, End, PruningOld
<1>2. CASE RenameDump
  <2>1. surplus' = Complete' \ Newest(Complete')
    BY <1>2 DEF RenameDump, Surplus
  <2>2. \A d \in surplus' : Cardinality({e \in Complete' : e > d}) >= Keep
    BY <1>0, <2>1, NotNewest
  <2> QED BY <1>2, <2>1, <2>2, DumpRenamed DEF PruningOld, Newer
<1>3. CASE PruneGlobals
  <2> DEFINE m == Latest(surplus)
  <2>1. /\ Complete' = Complete \ {m} /\ m \in surplus /\ m \in Day /\ \A d \in surplus : d <= m
        /\ surplus' = surplus /\ pc = "prune"
    BY <1>3, GlobalsPruned DEF PruneGlobals, run
  <2> HIDE DEF m
  <2>2. ASSUME NEW d \in surplus PROVE Cardinality({e \in Complete' : e > d}) >= Keep
    <3>1. d \in Nat /\ m \in Nat /\ \A e \in Complete : e \in Nat
      BY <1>0, <2>1, Days DEF TypeOK
    <3>2. Newer(m) \subseteq {e \in Complete' : e > d}
      BY <2>1, <3>1 DEF Newer
    <3>3. Cardinality(Newer(m)) >= Keep
      BY <2>1 DEF PruningOld
    <3> QED BY <1>0, <3>2, <3>3, DaysCount
  <2>3. ASSUME NEW d \in Complete', d \notin Newest(Complete') PROVE d \in surplus
    <3>1. Cardinality({e \in Complete' : e > d}) >= Keep
      BY <1>0, <2>3, NotNewest
    <3>2. {e \in Complete' : e > d} \subseteq {e \in Complete : e > d} /\ d \in Complete
      BY <2>1
    <3>3. Cardinality({e \in Complete : e > d}) >= Keep
      BY <1>0, <3>1, <3>2, DaysCount
    <3>4. d \notin Newest(Complete)
      BY <1>0, <3>2, <3>3, NotNewest
    <3> QED BY <2>1, <3>2, <3>4 DEF PruningOld
  <2>4. PICK e \in Complete : e > m
    BY <2>1, SomeNewer DEF PruningOld
  <2>5. e \in Complete'
    BY <2>1, <2>4, Days
  <2> QED BY <2>1, <2>2, <2>3, <2>5 DEF PruningOld, Newer
<1>4. CASE PruneDump
  BY <1>4, DumpPruned DEF PruneDump, PruningOld, Newer
<1>5. CASE Elsewhere
  <2>1. Complete' = Complete /\ (pc' = "idle" \/ UNCHANGED <<pc, surplus>>)
    BY <1>5, SameComplete DEF Elsewhere, Ends, End
  <2> QED BY <2>1 DEF PruningOld, Newer
<1> QED BY <1>1, <1>2, <1>3, <1>4, <1>5, Moves

\* So is the sweep's.
LEMMA LitterLooseStep == ASSUME RetentionInv, [Next]_vars PROVE LitterLoose'
<1> USE DEF RetentionInv
<1>1. CASE Begin \/ DumpGlobals \/ DumpDatabase \/ CutSilently \/ RenameGlobals \/ RenameDump \/ PruneGlobals \/ PruneDump
  BY <1>1 DEF Begin, DumpGlobals, DumpDatabase, CutSilently, RenameGlobals, RenameDump, PruneGlobals, PruneDump,
     Goto, End, run, LitterLoose
<1>2. CASE FindLitter
  <2>1. Complete' = Complete /\ dir' = dir /\ litter' = Litter
    BY <1>2, SameComplete DEF FindLitter
  <2>2. Complete \ Newest(Complete) = {}
    BY <1>2 DEF FindLitter, Goto, PruningOld
  <2>3. Complete = Newest(Complete) /\ Complete \subseteq Day
    BY <2>2 DEF Newest, Complete
  <2>4. ASSUME NEW f \in Litter, f[2] \in Complete PROVE FALSE
    <3>1. Oldest(Newest(Complete)) \in Complete /\ Oldest(Newest(Complete)) <= f[2]
      BY <2>3, <2>4, OldestIsOldest
    <3>2. Oldest(Newest(Complete)) \in Nat /\ f[2] \in Nat
      BY <2>3, <2>4, <3>1, Days
    <3>3. f[2] < Oldest(Newest(Complete))
      BY DEF Litter
    <3> QED BY <3>1, <3>2, <3>3
  <2>5. \A k \in Kind, d \in Day :
          dir[k][d] # Absent /\ d < Oldest(Newest(Complete)) => <<k, d>> \in Litter
    BY DEF Litter
  <2> QED BY <1>2, <2>1, <2>4, <2>5 DEF LitterLoose, FindLitter, Goto, PruningOld
<1>3. ASSUME NEW k \in Kind, NEW d \in Day, Sweep(k, d) PROVE LitterLoose'
  <2>1. /\ Complete' = Complete /\ litter' = litter \ {<<k, d>>} /\ pc = "sweep" /\ dir'[k][d] = Absent
        /\ \A j \in Kind, e \in Day : j # k \/ e # d => dir'[j][e] = dir[j][e]
    BY <1>3, Swept DEF Sweep
  <2>2. ASSUME NEW j \in Kind, NEW e \in Day, dir'[j][e] # Absent, e < Oldest(Newest(Complete))
        PROVE  <<j, e>> \in litter'
    BY <2>1, <2>2 DEF LitterLoose
  <2> QED BY <2>1, <2>2 DEF LitterLoose
<1>4. CASE Elsewhere
  <2>1. Complete' = Complete /\ (pc' = "idle" \/ UNCHANGED <<dir, pc, litter>>)
    BY <1>4, SameComplete DEF Elsewhere, Ends, End
  <2> QED BY <2>1 DEF LitterLoose
<1> QED BY <1>1, <1>2, <1>3, <1>4, Moves

\* The last dump put in place is the newest one, and stays.
LEMMA NewestHoldsStep == ASSUME RetentionInv, [Next]_vars PROVE NewestHolds'
<1> USE DEF RetentionInv
<1>1. CASE (UNCHANGED dir \/ Ends) /\ UNCHANGED acked
  BY <1>1, SameComplete DEF NewestHolds, Ends
<1>2. CASE DumpGlobals \/ DumpDatabase \/ CutSilently
  BY <1>2, PartialWritten DEF NewestHolds, history, DumpGlobals, DumpDatabase, CutSilently
<1>3. CASE RenameGlobals
  BY <1>3, GlobalsRenamed DEF NewestHolds, RenameGlobals
<1>4. CASE RenameDump
  <2>1. Complete' = Complete \cup {stamp} /\ dir'["dump"][stamp] = dir["dump.partial"][stamp]
    BY <1>4, DumpRenamed
  <2>2. \A e \in Complete' : e <= stamp
    BY <1>4, <2>1, Days DEF RenameDump, Goto, DatesPassed, Taking, TypeOK
  <2> QED BY <1>4, <2>1, <2>2 DEF NewestHolds, RenameDump
<1>5. CASE PruneGlobals
  <2> DEFINE m == Latest(surplus)
  <2>1. /\ Complete' = Complete \ {m} /\ m \in surplus /\ m \in Nat /\ dir'["dump"] = dir["dump"]
        /\ acked' = acked /\ pc = "prune"
    BY <1>5, GlobalsPruned, Days DEF PruneGlobals
  <2> HIDE DEF m
  <2>2. \E e \in Complete : e > m
    BY <2>1, SomeNewer DEF PruningOld
  <2>3. ASSUME NEW n \in Complete, \A e \in Complete : e <= n PROVE n \in Complete'
    BY <2>1, <2>2, <2>3, Days DEF Complete
  <2> QED BY <2>1, <2>3 DEF NewestHolds
<1>6. CASE PruneDump
  <2>1. \A n \in Complete : dir'["dump"][n] = dir["dump"][n]
    BY <1>6, DumpPruned DEF Complete
  <2> QED BY <1>6, <2>1, DumpPruned DEF NewestHolds, PruneDump, history
<1>7. ASSUME NEW k \in Kind, NEW d \in Day, Sweep(k, d) PROVE NewestHolds'
  <2>1. \A n \in Complete : dir'["dump"][n] = dir["dump"][n]
    BY <1>7, Swept DEF Complete, Kind
  <2> QED BY <1>7, <2>1, Swept DEF NewestHolds, Sweep, history
<1> QED BY <1>1, <1>2, <1>3, <1>4, <1>5, <1>6, <1>7, Moves DEF Begin, FindLitter, Elsewhere, history

\* Before the first backup.
LEMMA RetentionInit == Init => RetentionInv
<1> SUFFICES ASSUME Init PROVE RetentionInv
  OBVIOUS
<1> USE DEF Init
<1>1. \A k \in Kind, d \in Day : dir[k][d] = Absent
  OBVIOUS
<1>2. Complete = {}
  BY <1>1 DEF Complete, Kind
<1>3. TypeOK
  <2>1. DirTypes
    BY <1>1 DEF DirTypes, Kind
  <2>2. /\ database \in Content /\ acked \in 0..MaxData /\ faults \in 0..MaxFaults /\ losses \in 0..MaxLosses
        /\ today \in Day /\ stamp \in Day /\ chosen \in Day
    BY Days, BackupsAssumption DEF Content
  <2>3. steady \subseteq {"dump", "dump.partial"} /\ matched \subseteq Day /\ agreeing \in BOOLEAN
    OBVIOUS
  <2> QED BY <2>1, <2>2, <2>3 DEF TypeOK, DirTypes
<1> QED BY <1>1, <1>2, <1>3 DEF RetentionInv, Shape, DatesPassed, Taking, Taken, LoneDumps, PruningOld,
     LitterLoose, NewestHolds, Kind

\* Every action keeps the whole of it.
LEMMA RetentionStep == RetentionInv /\ [Next]_vars => RetentionInv'
  BY TypeStep, ShapeStep, DatesPassedStep, TakenStep, LoneDumpsStep, PruningOldStep, LitterLooseStep,
     NewestHoldsStep DEF RetentionInv

\* backup.sh keeps its directory in order: what it has still to prune and to sweep is what
\* retention would name now, wherever this run or an earlier one stopped.
THEOREM RetentionInvHolds == Spec => []RetentionInv
  BY RetentionInit, RetentionStep, PTL DEF Spec

\* The variables of the backup, the restore and the cluster keep their types.  In particular
\* no file that the checks before the renames refuse is in place under a set's name (they do
\* not refuse every file that is cut).
THEOREM BackupTypes == Spec => []TypeOK
<1>1. RetentionInv => TypeOK
  BY DEF RetentionInv
<1> QED BY <1>1, RetentionInvHolds, PTL

\* The newest complete set holds what the last backup put in place, whatever failed,
\* was pruned, restored or lost since ("a failed or silent backup deletes nothing").
THEOREM NewestSetIsTheLastBackup == Spec => []NewestSetHoldsWhatWasBackedUp
<1>1. ASSUME RetentionInv PROVE NewestSetHoldsWhatWasBackedUp
  <2>1. SUFFICES ASSUME acked > 0 PROVE
          Complete # {} /\ dir["dump"][Latest(Complete)] \in Content /\ dir["dump"][Latest(Complete)].data = acked
    BY DEF NewestSetHoldsWhatWasBackedUp
  <2>2. PICK n \in Complete : /\ \A e \in Complete : e <= n
                              /\ dir["dump"][n] \in Content /\ dir["dump"][n].data = acked
    BY <1>1, <2>1 DEF RetentionInv, NewestHolds
  <2>3. Complete \subseteq Day /\ Complete \subseteq Nat /\ Complete # {}
    BY <2>2, Days DEF Complete
  <2>4. Latest(Complete) = n
    <3>1. Latest(Complete) \in Complete /\ n <= Latest(Complete)
      BY <2>2, <2>3, LatestIsLatest
    <3>2. Latest(Complete) <= n
      BY <2>2, <3>1
    <3>3. Latest(Complete) \in Nat /\ n \in Nat
      BY <2>2, <2>3, <3>1
    <3> QED BY <3>1, <3>2, <3>3
  <2> QED BY <2>2, <2>3, <2>4
<1> QED BY <1>1, RetentionInvHolds, PTL

\* The rm of the pruning loop takes a complete set away only when as many as are kept are
\* newer, however long the list has been standing.
LEMMA RemovedAreOld ==
  ASSUME RetentionInv, [Next]_vars
  PROVE  \A d \in Complete \ Complete' : Cardinality({e \in Complete : e > d}) >= Keep
<1>1. CASE PruneGlobals
  <2>1. \A d \in Complete \ Complete' : Cardinality(Newer(d)) >= Keep
    BY <1>1, GlobalsPruned DEF RetentionInv, PruneGlobals, PruningOld
  <2> QED BY <2>1 DEF Newer
<1>2. CASE ~PruneGlobals
  <2>1. Complete \subseteq Complete'
    BY <1>2, DirWrites, SameComplete, GlobalsRenamed, DumpRenamed, DumpPruned, Swept, PartialWritten
       DEF RetentionInv, TypeOK
  <2> QED BY <2>1
<1> QED BY <1>1, <1>2

\* Once as many complete sets are there as are kept, there are never fewer: they go by how
\* many there are and not by their age (backup.sh, "a week of failures still leaves 14 good
\* sets").
GoodSetsAreKept ==
  [][Cardinality(Complete) >= Keep => Cardinality(Complete') >= Keep]_vars

\* However runs stop, overlap a restore or find the database lost, no step takes the complete
\* sets below what is kept: the latest of those a step removes has that many after it, and
\* they stay.
THEOREM GoodSetsStay == Spec => GoodSetsAreKept
<1>1. ASSUME RetentionInv, RetentionInv', [Next]_vars, Cardinality(Complete) >= Keep
      PROVE  Cardinality(Complete') >= Keep
  <2> DEFINE Removed == Complete \ Complete'
  <2>1. Complete \subseteq Day /\ Complete' \subseteq Day /\ Removed \subseteq Day
    BY DEF Complete
  <2>2. CASE Removed = {}
    <3>1. Complete \subseteq Complete'
      BY <2>2
    <3> QED BY <1>1, <2>1, <3>1, DaysCount, BackupsAssumption
  <2>3. CASE Removed # {}
    <3>1. PICK d \in Removed : \A e \in Removed : e <= d
      BY <2>1, <2>3, LatestIsLatest
    <3>2. {e \in Complete : e > d} \subseteq Complete'
      <4>1. \A e \in Complete : e \in Nat /\ d \in Nat
        BY <2>1, Days
      <4>2. \A e \in Complete : e \notin Complete' => e <= d
        BY <3>1
      <4> QED BY <4>1, <4>2
    <3>3. Cardinality({e \in Complete : e > d}) >= Keep
      BY <1>1, <3>1, RemovedAreOld
    <3> QED BY <2>1, <3>2, <3>3, DaysCount, BackupsAssumption
  <2> QED BY <2>2, <2>3
<1>2. RetentionInv /\ RetentionInv' /\ [Next]_vars =>
        [Cardinality(Complete) >= Keep => Cardinality(Complete') >= Keep]_vars
  BY <1>1
<1> QED BY <1>2, RetentionInvHolds, PTL DEF Spec, GoodSetsAreKept

\* A backup that reaches its end leaves no file before the oldest set kept, those that
\* interrupted runs left included.
THEOREM NoLitterIsLeft == Spec => FinishedBackupsLeaveNoLitter
<1> DEFINE Clean == \A k \in Kind, d \in Day : dir[k][d] # Absent => d >= Oldest(Newest(Complete))
<1>1. ASSUME RetentionInv, [Next]_vars
      PROVE  [pc = "sweep" /\ pc' = "idle" /\ faults' = faults => Clean]_vars
  <2>1. SUFFICES ASSUME pc = "sweep", pc' = "idle", faults' = faults PROVE Clean
    OBVIOUS
  <2>2. Finish
    BY <1>1, <2>1
       DEF RetentionInv, TypeOK, Next, Backup, Restore, RestoreOn, Environment, vars, run, restore, cluster, bounds,
           Goto, Fault, Begin, DumpGlobals, DumpDatabase, CutReported, CutSilently, KeepPrevious, RenameGlobals,
           RenameDump, PruneGlobals, PruneDump, FindLitter, Sweep, Stop, BeginRestore, DropEmpty, Refuse, ApplyRoles,
           RolesChange, RestoreDatabase, RestorePart, StopRestore, NextDay, KernelWrites, Lose, StartOver, NewVolume,
           StartAnew, CreateRole, DropRole
  <2>3. ASSUME NEW k \in Kind, NEW d \in Day, dir[k][d] # Absent PROVE d >= Oldest(Newest(Complete))
    <3>1. ~(d < Oldest(Newest(Complete)))
      BY <1>1, <2>1, <2>2, <2>3 DEF RetentionInv, LitterLoose, Finish
    <3>2. Complete # {} /\ Complete \subseteq Day
      BY <1>1, <2>1 DEF RetentionInv, LitterLoose, Complete
    <3>3. Latest(Complete) \in Complete /\ \A e \in Complete : e <= Latest(Complete)
      BY <3>2, LatestIsLatest
    <3>4. {e \in Complete : e > Latest(Complete)} = {}
      <4>1. \A e \in Complete : e \in Nat
        BY <3>2, Days
      <4> QED BY <3>3, <4>1
    <3>5. Cardinality({}) < Keep
      BY FS_EmptySet, BackupsAssumption
    <3>6. Latest(Complete) \in Newest(Complete)
      BY <3>3, <3>4, <3>5 DEF Newest
    <3>7. Newest(Complete) \subseteq Day
      BY <3>2 DEF Newest
    <3>8. Oldest(Newest(Complete)) \in Day
      BY <3>6, <3>7, OldestIsOldest
    <3>9. d \in Nat /\ Oldest(Newest(Complete)) \in Nat
      BY <3>8, Days
    <3> QED BY <3>1, <3>9
  <2> QED BY <2>3
<1> QED BY <1>1, RetentionInvHolds, PTL DEF Spec, FinishedBackupsLeaveNoLitter

-----------------------------------------------------------------------------
(* What the sets and the database hold. *)

\* The roles of a database that serves: its owners and grantees are of its cluster.
Served == Holding => database.needs \subseteq roles

\* Roles come before what names them, and go after it; pg_restore stops at the first owner
\* it does not find.
LEMMA ServedStep == ASSUME TypeOK, Served, [Next]_vars PROVE Served'
<1> USE DEF Served, Holding
<1>1. CASE KernelWrites
  BY <1>1 DEF KernelWrites, Content
<1>2. ASSUME NEW r \in Role, CreateRole(r) \/ DropRole(r) PROVE Served'
  <2>1. database \in Content /\ database.needs \in SUBSET Role
    BY <1>2 DEF CreateRole, DropRole, Content
  <2> QED BY <1>2, <2>1 DEF CreateRole, DropRole, Content
<1>3. CASE RestoreDatabase
  BY <1>3 DEF RestoreDatabase, Restorable
<1>4. CASE ApplyRoles
  BY <1>4 DEF ApplyRoles
<1>5. CASE DropEmpty \/ RestorePart \/ Lose \/ StartOver \/ StartAnew
  BY <1>5, BackupsAssumption DEF DropEmpty, RestorePart, Lose, StartOver, NewVolume, StartAnew
<1>6. CASE UNCHANGED cluster
  BY <1>6 DEF cluster
<1> QED
  BY <1>1, <1>2, <1>3, <1>4, <1>5, <1>6
     DEF Next, Backup, Restore, RestoreOn, Environment, vars, Begin, DumpGlobals, DumpDatabase, CutReported,
         CutSilently, KeepPrevious, RenameGlobals, RenameDump, PruneGlobals, PruneDump, FindLitter, Sweep, Finish,
         Stop, BeginRestore, Refuse, StopRestore, NextDay

\* A dump that reads back, and the roles it names in the other file.
Fits(dump, file) == dump \in Content /\ dump.needs \subseteq file

\* What a run has taken fits together as long as nothing was cut and no role changed.
InHand ==
  agreeing =>
    /\ pc = "database" => dir["globals.partial"][stamp] = roles
    /\ pc = "verify" => Fits(dir["dump.partial"][stamp], dir["globals.partial"][stamp])
    /\ pc = "rename" => Fits(dir["dump.partial"][stamp], dir["globals"][stamp])

\* A dump that is steady names roles of the cluster only: the newest set's does, and the
\* run's, whose roles file is of the same roles while another dump is steady.
Steady ==
  /\ "dump" \in steady =>
       \E n \in Complete : (\A e \in Complete : e <= n) /\ Fits(dir["dump"][n], roles)
  /\ "dump.partial" \in steady /\ pc \in {"verify", "rename"} => Fits(dir["dump.partial"][stamp], roles)
  /\ "dump" \in steady /\ agreeing /\ pc = "verify" => dir["globals.partial"][stamp] = roles

SetsInv == RetentionInv /\ Served /\ InHand /\ Steady /\ WholeSetsRestore

\* Whatever else happens while a run has files in hand ends it, or leaves them; roles that
\* change between its two dumps mark it.
LEMMA Meanwhile ==
  ASSUME TypeOK, Shape, Elsewhere, [Next]_vars, pc \in {"database", "verify", "rename"}
  PROVE  \/ pc' = "idle"
         \/ /\ UNCHANGED <<dir, pc, stamp>> /\ (~agreeing' \/ agreeing)
            /\ pc # "database" \/ roles' = roles \/ ~agreeing'
<1>1. CASE End \/ Ends
  BY <1>1 DEF End, Ends
<1>2. CASE UNCHANGED <<dir, pc, stamp>>
  <2>1. CASE RolesChange
    BY <1>2, <2>1 DEF RolesChange
  <2>2. CASE UNCHANGED <<run, roles>>
    BY <1>2, <2>2 DEF run
  <2> QED
    BY <1>1, <1>2, <2>1, <2>2
       DEF Next, Backup, Restore, RestoreOn, Environment, vars, run, cluster, Goto, Begin, DumpGlobals, DumpDatabase,
           CutReported, CutSilently, KeepPrevious, RenameGlobals, RenameDump, PruneGlobals, PruneDump, FindLitter,
           Sweep, Finish, Stop, BeginRestore, DropEmpty, Refuse, ApplyRoles, RestoreDatabase, RestorePart,
           StopRestore, NextDay, KernelWrites, Lose, StartOver, NewVolume, StartAnew, CreateRole, DropRole
<1> QED BY <1>1, <1>2 DEF Elsewhere

\* What a run has in hand fits together until it is in place.
LEMMA InHandStep == ASSUME SetsInv, [Next]_vars PROVE InHand'
<1> USE DEF SetsInv, RetentionInv
<1>0. stamp \in Day
  BY DEF TypeOK
<1>1. CASE Begin \/ RenameDump \/ PruneGlobals \/ PruneDump \/ FindLitter \/ \E k \in Kind, d \in Day : Sweep(k, d)
  BY <1>1 DEF Begin, RenameDump, PruneGlobals, PruneDump, FindLitter, Sweep, Goto, run, InHand
<1>2. CASE DumpGlobals
  <2>1. dir'["globals.partial"][stamp] = roles /\ UNCHANGED <<cluster, stamp>> /\ pc' = "database"
    BY <1>0, <1>2, WriteEffect DEF DumpGlobals, Goto, Kind
  <2> QED BY <2>1 DEF InHand, cluster
<1>3. CASE DumpDatabase
  <2>1. /\ dir'["globals.partial"][stamp] = dir["globals.partial"][stamp]
        /\ dir'["dump.partial"][stamp] = database
    BY <1>0, <1>3, WriteEffect DEF DumpDatabase, Kind
  <2>2. stamp' = stamp /\ pc = "database" /\ pc' = "verify" /\ agreeing' = (agreeing /\ Holding)
    BY <1>3 DEF DumpDatabase, Goto
  <2> QED BY <2>1, <2>2 DEF InHand, Fits, Served, Holding
<1>4. CASE CutSilently
  BY <1>4 DEF CutSilently, InHand
<1>5. CASE RenameGlobals
  <2>1. dir'["globals"][stamp] = dir["globals.partial"][stamp] /\ dir'["dump.partial"] = dir["dump.partial"]
    BY <1>5, GlobalsRenamed
  <2>2. pc = "verify" /\ pc' = "rename" /\ UNCHANGED <<stamp, agreeing>>
    BY <1>5 DEF RenameGlobals, Goto
  <2> QED BY <2>1, <2>2 DEF InHand, Fits
<1>6. CASE Elsewhere
  <2>1. CASE pc' \notin {"database", "verify", "rename"}
    BY <2>1 DEF InHand
  <2>2. CASE pc' \in {"database", "verify", "rename"}
    <3>1. pc \in {"database", "verify", "rename"}
      BY <1>6, <2>2 DEF Elsewhere, Ends, End
    <3>2. TypeOK /\ Shape /\ pc' # "idle"
      BY <2>2
    <3>3. /\ UNCHANGED <<dir, pc, stamp>> /\ (~agreeing' \/ agreeing)
          /\ pc # "database" \/ roles' = roles \/ ~agreeing'
      BY <1>6, <3>1, <3>2, Meanwhile
    <3> QED BY <3>3 DEF InHand
  <2> QED BY <2>1, <2>2
<1> QED BY <1>1, <1>2, <1>3, <1>4, <1>5, <1>6, Moves

\* The newest set stays the one it was, with its dump, unless a dump is renamed.
LEMMA NewestStays ==
  ASSUME RetentionInv, [Next]_vars, ~RenameDump,
         NEW n \in Complete, \A e \in Complete : e <= n
  PROVE  n \in Complete' /\ (\A e \in Complete' : e <= n) /\ dir'["dump"][n] = dir["dump"][n]
<1> USE DEF RetentionInv
<1>0. n \in Day /\ Complete \subseteq Day
  BY DEF Complete
<1>1. CASE UNCHANGED dir \/ Ends
  BY <1>1, SameComplete DEF Ends
<1>2. CASE DumpGlobals \/ DumpDatabase \/ CutSilently
  BY <1>2, PartialWritten
<1>3. CASE RenameGlobals
  BY <1>3, GlobalsRenamed
<1>4. CASE PruneGlobals
  <2> DEFINE m == Latest(surplus)
  <2>1. Complete' = Complete \ {m} /\ m \in surplus /\ m \in Nat /\ dir'["dump"] = dir["dump"] /\ pc = "prune"
    BY <1>4, GlobalsPruned, Days DEF PruneGlobals
  <2> HIDE DEF m
  <2>2. \E e \in Complete : e > m
    BY <2>1, SomeNewer DEF PruningOld
  <2>3. n \in Complete'
    BY <1>0, <2>1, <2>2, Days
  <2> QED BY <2>1, <2>3
<1>5. CASE PruneDump
  BY <1>0, <1>5, DumpPruned
<1>6. ASSUME NEW k \in Kind, NEW d \in Day, Sweep(k, d) PROVE Complete' = Complete /\ dir'["dump"][n] = dir["dump"][n]
  BY <1>0, <1>6, Swept DEF Kind
<1> QED BY <1>1, <1>2, <1>3, <1>4, <1>5, <1>6, Moves DEF Begin, FindLitter, Elsewhere

\* What is steady is so for one state of the roles.
LEMMA SteadyStep == ASSUME SetsInv, [Next]_vars PROVE Steady'
<1> USE DEF SetsInv, RetentionInv
<1>0. stamp \in Day
  BY DEF TypeOK
<1>1. CASE steady' = {}
  BY <1>1 DEF Steady
<1>2. CASE RenameDump
  <2>1. pc = "rename" /\ pc' = "prune" /\ steady' = (IF "dump.partial" \in steady THEN {"dump"} ELSE {}) /\ roles' = roles
    BY <1>2 DEF RenameDump, Goto, cluster
  <2>2. Complete' = Complete \cup {stamp} /\ dir'["dump"][stamp] = dir["dump.partial"][stamp]
    BY <1>2, DumpRenamed
  <2>3. \A e \in Complete' : e <= stamp
    BY <1>0, <2>1, <2>2, Days DEF DatesPassed, Taking
  <2> QED BY <2>1, <2>2, <2>3 DEF Steady, Fits
<1>3. CASE ~RenameDump /\ roles' = roles
  <2>1. "dump" \in steady' => "dump" \in steady
    <3>1. DumpDatabase => "dump" \notin steady' \/ "dump" \in steady
      BY DEF DumpDatabase
    <3>2. CutSilently => steady' = steady \ {"dump.partial"}
      BY DEF CutSilently
    <3> QED BY <1>3, <3>1, <3>2, SteadyMoves
  <2>2. ASSUME "dump" \in steady'
        PROVE  \E n \in Complete' : (\A e \in Complete' : e <= n) /\ Fits(dir'["dump"][n], roles')
    <3>1. PICK n \in Complete : (\A e \in Complete : e <= n) /\ Fits(dir["dump"][n], roles)
      BY <2>1, <2>2 DEF Steady
    <3>2. n \in Complete' /\ (\A e \in Complete' : e <= n) /\ dir'["dump"][n] = dir["dump"][n]
      BY <1>3, <3>1, NewestStays
    <3> QED BY <1>3, <3>1, <3>2
  <2>3. /\ "dump.partial" \in steady' /\ pc' \in {"verify", "rename"} => Fits(dir'["dump.partial"][stamp'], roles')
        /\ "dump" \in steady' /\ agreeing' /\ pc' = "verify" => dir'["globals.partial"][stamp'] = roles'
    <3>1. CASE DumpDatabase
      <4>1. /\ dir'["globals.partial"][stamp] = dir["globals.partial"][stamp]
            /\ dir'["dump.partial"][stamp] = database
        BY <1>0, <3>1, WriteEffect DEF DumpDatabase, Kind
      <4>2. /\ stamp' = stamp /\ pc = "database" /\ pc' = "verify" /\ agreeing' = (agreeing /\ Holding)
            /\ "dump.partial" \in steady' => Holding
        BY <3>1 DEF DumpDatabase, Goto
      <4> QED BY <1>3, <4>1, <4>2 DEF InHand, Fits, Served, Holding
    <3>2. CASE CutSilently
      BY <3>2 DEF CutSilently
    <3>3. CASE RenameGlobals
      <4>1. dir'["dump.partial"] = dir["dump.partial"]
        BY <3>3, GlobalsRenamed
      <4>2. pc = "verify" /\ pc' = "rename" /\ UNCHANGED <<stamp, steady>>
        BY <3>3 DEF RenameGlobals, Goto
      <4> QED BY <1>3, <4>1, <4>2 DEF Steady
    <3>4. CASE pc' \notin {"verify", "rename"}
      BY <3>4
    <3>5. CASE Elsewhere /\ pc' \in {"verify", "rename"}
      <4>1. pc \in {"verify", "rename"} /\ ~End /\ ~Ends
        BY <3>5 DEF Elsewhere, Ends, End
      <4>2. TypeOK /\ Shape /\ pc' # "idle" /\ pc \in {"database", "verify", "rename"}
        BY <3>5, <4>1
      <4>3. UNCHANGED <<dir, pc, stamp>> /\ (~agreeing' \/ agreeing)
        BY <3>5, <4>2, Meanwhile
      <4>4. UNCHANGED steady \/ steady' = {}
        BY <4>1, <4>3, SteadyMoves DEF DumpDatabase, CutSilently, RenameDump, Goto
      <4> QED BY <1>3, <4>3, <4>4 DEF Steady
    <3>6. CASE Begin \/ DumpGlobals \/ PruneGlobals \/ PruneDump \/ FindLitter \/ \E k \in Kind, d \in Day : Sweep(k, d)
      BY <3>4, <3>6 DEF Begin, DumpGlobals, PruneGlobals, PruneDump, FindLitter, Sweep, Goto, run
    <3> QED BY <1>3, <3>1, <3>2, <3>3, <3>4, <3>5, <3>6, Moves
  <2> QED BY <2>2, <2>3 DEF Steady
<1> QED BY <1>1, <1>2, <1>3, RolesMove

\* A set whose files and whose history stay as they are restores as it did.
LEMMA SameRestores ==
  ASSUME WholeSetsRestore, Complete' \subseteq Complete,
         \A d \in Complete' : \/ d \notin matched'
                              \/ /\ dir'["globals"][d] = dir["globals"][d] /\ dir'["dump"][d] = dir["dump"][d]
                                 /\ d \in matched
  PROVE  WholeSetsRestore'
  BY DEF WholeSetsRestore, Restores

\* A rename vouches for the set only if the file it puts in place agrees with the other one,
\* its own run's or an earlier one's.
LEMMA WholeSetsStep == ASSUME SetsInv, [Next]_vars PROVE WholeSetsRestore'
<1> USE DEF SetsInv, RetentionInv
<1>0. Shape /\ stamp \in Day /\ Complete \subseteq Day
  BY DEF TypeOK, Complete
<1>1. CASE RenameGlobals
  <2>1. /\ stamp \in matched' => agreeing /\ "dump" \in steady
        /\ \A d \in Day : d # stamp => (d \in matched' <=> d \in matched)
        /\ pc = "verify"
    BY <1>0, <1>1 DEF RenameGlobals, Match, Goto
  <2>2. /\ Complete' = Complete /\ \A d \in Day : d # stamp => dir'["globals"][d] = dir["globals"][d]
        /\ dir'["globals"][stamp] = dir["globals.partial"][stamp] /\ dir'["dump"] = dir["dump"]
    BY <1>1, GlobalsRenamed
  <2>3. ASSUME stamp \in Complete, stamp \in matched' PROVE Fits(dir["dump"][stamp], dir["globals.partial"][stamp])
    <3>1. PICK n \in Complete : (\A e \in Complete : e <= n) /\ Fits(dir["dump"][n], roles)
      BY <2>1, <2>3 DEF Steady
    <3>2. n <= stamp /\ stamp <= n /\ n \in Nat /\ stamp \in Nat
      BY <1>0, <2>1, <2>3, <3>1, Days DEF DatesPassed, Taking
    <3>3. dir["globals.partial"][stamp] = roles
      BY <2>1, <2>3 DEF Steady
    <3> QED BY <3>1, <3>2, <3>3
  <2>4. ASSUME NEW d \in Complete', d \in matched' PROVE Restores(d)'
    <3>1. CASE d = stamp
      BY <2>2, <2>3, <2>4, <3>1 DEF Restores, Fits
    <3>2. CASE d # stamp
      BY <1>0, <2>1, <2>2, <2>4, <3>2 DEF Restores, WholeSetsRestore
    <3> QED BY <3>1, <3>2
  <2> QED BY <2>4 DEF WholeSetsRestore
<1>2. CASE RenameDump
  <2>1. /\ stamp \in matched' => agreeing
        /\ \A d \in Day : d # stamp => (d \in matched' <=> d \in matched)
    BY <1>0, <1>2 DEF RenameDump, Match
  <2>2. /\ Complete' = Complete \cup {stamp} /\ dir'["dump"][stamp] = dir["dump.partial"][stamp]
        /\ dir'["globals"] = dir["globals"] /\ \A d \in Day : d # stamp => dir'["dump"][d] = dir["dump"][d]
    BY <1>2, DumpRenamed
  <2>3. agreeing => Fits(dir["dump.partial"][stamp], dir["globals"][stamp])
    BY <1>2 DEF RenameDump, Goto, InHand
  <2>4. ASSUME NEW d \in Complete', d \in matched' PROVE Restores(d)'
    <3>1. CASE d = stamp
      BY <2>1, <2>2, <2>3, <2>4, <3>1 DEF Restores, Fits
    <3>2. CASE d # stamp
      BY <1>0, <2>1, <2>2, <2>4, <3>2 DEF Restores, WholeSetsRestore
    <3> QED BY <3>1, <3>2
  <2> QED BY <2>4 DEF WholeSetsRestore
<1>3. CASE PruneGlobals
  <2>1. /\ Complete' = Complete \ {Latest(surplus)} /\ dir'["dump"] = dir["dump"]
        /\ matched' = matched \ {Latest(surplus)}
        /\ \A d \in Day : d # Latest(surplus) => dir'["globals"][d] = dir["globals"][d]
    BY <1>0, <1>3, GlobalsPruned DEF PruneGlobals, Match
  <2> QED BY <1>0, <2>1, SameRestores
<1>4. CASE PruneDump
  <2>1. /\ Complete' = Complete /\ matched' = matched /\ dir'["globals"] = dir["globals"]
        /\ \A d \in Complete : dir'["dump"][d] = dir["dump"][d]
    BY <1>0, <1>4, DumpPruned DEF PruneDump, history
  <2> QED BY <2>1, SameRestores
<1>5. ASSUME NEW k \in Kind, NEW d \in Day, Sweep(k, d) PROVE WholeSetsRestore'
  <2>1. \A e \in Complete : dir'["dump"][e] = dir["dump"][e] /\ dir'["globals"][e] = dir["globals"][e]
    BY <1>0, <1>5, Swept DEF Kind
  <2> QED BY <1>5, <2>1, Swept, SameRestores DEF Sweep, history
<1>6. CASE DumpGlobals \/ DumpDatabase \/ CutSilently
  <2>1. matched' = matched
    BY <1>6 DEF DumpGlobals, DumpDatabase, CutSilently, history
  <2> QED BY <1>6, <2>1, PartialWritten, SameRestores
<1>7. CASE Begin \/ FindLitter \/ Elsewhere
  <2>1. matched' = matched /\ (UNCHANGED dir \/ Ends)
    BY <1>7 DEF Begin, FindLitter, Elsewhere, history
  <2> QED BY <2>1, SameComplete, SameRestores DEF Ends
<1> QED BY <1>1, <1>2, <1>3, <1>4, <1>5, <1>6, <1>7, Moves

\* What a set is made of fits together.
LEMMA SetsInvHolds == Spec => []SetsInv
<1>1. Init => SetsInv
  <2> SUFFICES ASSUME Init PROVE SetsInv
    OBVIOUS
  <2>1. Complete = {}
    BY DEF Init, Complete, Kind
  <2> QED BY <2>1, RetentionInit DEF SetsInv, Init, Served, InHand, Steady, WholeSetsRestore
<1>2. SetsInv /\ [Next]_vars => SetsInv'
  BY RetentionStep, ServedStep, InHandStep, SteadyStep, WholeSetsStep DEF SetsInv, RetentionInv
<1> QED BY <1>1, <1>2, PTL DEF Spec

\* Every complete set whose files are uncut, and of one state of the roles, restores: its dump
\* reads back and the roles file beside it creates every role its owners and grants name.
\* One run may have made it, or the day's second run stopped between its renames; the files
\* are dumped, renamed and removed one after the other, while roles come and go and the
\* volume is lost at any time.
THEOREM WholeSetsAlwaysRestore == Spec => []WholeSetsRestore
<1>1. SetsInv => WholeSetsRestore
  BY DEF SetsInv
<1> QED BY <1>1, SetsInvHolds, PTL

-----------------------------------------------------------------------------
(* The directory implements KeptSets. *)

\* The refinement mapping of Backups, by name.
Held == [d \in Complete |-> [globals |-> dir["globals"][d], dump |-> dir["dump"][d]]]

\* A set whose files stay is the same set.
LEMMA SameSets ==
  ASSUME Complete' = Complete,
         \A d \in Complete : dir'["globals"][d] = dir["globals"][d] /\ dir'["dump"][d] = dir["dump"][d]
  PROVE  Held' = Held
  BY DEF Held

\* A rename that completes a set, or renews one, puts it last.
LEMMA RenamesPut ==
  ASSUME RetentionInv, RetentionInv', stamp \in Complete', Complete' = Complete \cup {stamp}, pc \in Taking,
         \A d \in Complete : d # stamp => /\ dir'["globals"][d] = dir["globals"][d]
                                         /\ dir'["dump"][d] = dir["dump"][d]
  PROVE  Sets!Next
<1>1. stamp \in Day /\ \A e \in Complete : e <= stamp
  BY DEF RetentionInv, TypeOK, DatesPassed
<1>2. PICK s \in Sets!Set : s = [globals |-> dir'["globals"][stamp], dump |-> dir'["dump"][stamp]]
  <2>1. dir'["dump"][stamp] \in {Empty, Part} \cup Content /\ dir'["globals"][stamp] \in SUBSET Role
    BY <1>1, BackupsAssumption DEF RetentionInv, TypeOK, Complete
  <2> QED BY <2>1 DEF Sets!Set
<1>3. DOMAIN Held = Complete /\ Held' = [e \in Complete \cup {stamp} |-> IF e = stamp THEN s ELSE Held[e]]
  BY <1>2 DEF Held
<1>4. Sets!Put(stamp, s)
  BY <1>1, <1>3 DEF Sets!Put, Held
<1> QED BY <1>1, <1>4 DEF Sets!Next

\* KeptSets counts as Backups does.
LEMMA SameCount == ASSUME NEW S PROVE Sets!Cardinality(S) = Cardinality(S)
  BY DEF Sets!Cardinality, Cardinality

\* Pruning's removal of a set's globals drops it, and as many newer ones stay as are kept.
LEMMA PruningDrops ==
  ASSUME RetentionInv, PruneGlobals, NEW d \in Complete, d = Latest(surplus)
  PROVE  Sets!Next
<1>1. d \in Day /\ Complete' = Complete \ {d} /\ Cardinality(Newer(d)) >= Keep
  BY GlobalsPruned DEF PruneGlobals, RetentionInv, PruningOld
<1>2. \A e \in Complete : e \in Day
  BY DEF Complete
<1>3. \A e \in Complete' : dir'["globals"][e] = dir["globals"][e] /\ dir'["dump"][e] = dir["dump"][e]
  BY <1>1, <1>2, GlobalsPruned
<1>4. DOMAIN Held = Complete /\ Held' = [e \in DOMAIN Held \ {d} |-> Held[e]]
  BY <1>1, <1>3 DEF Held
<1>5. Cardinality({e \in DOMAIN Held : e > d}) >= Keep
  BY <1>1, <1>4 DEF Newer
<1>6. Sets!Drop(d)
  BY <1>4, <1>5, SameCount DEF Sets!Drop, Held
<1> QED BY <1>1, <1>6 DEF Sets!Next

\* Every step of a backup is one of the sets, or leaves them as they are.
LEMMA StepsKeepSets ==
  ASSUME RetentionInv, RetentionInv', [Next]_vars
  PROVE  Sets!Next \/ Held' = Held
<1>0. Shape /\ stamp \in Day /\ \A d \in Complete : d \in Day
  BY DEF RetentionInv, TypeOK, Complete
<1>1. CASE RenameGlobals
  <2>1. \A d \in Complete : d # stamp => /\ dir'["globals"][d] = dir["globals"][d]
                                        /\ dir'["dump"][d] = dir["dump"][d]
    BY <1>0, <1>1, GlobalsRenamed
  <2>2. Complete' = Complete /\ pc \in Taking
    BY <1>0, <1>1, GlobalsRenamed DEF RenameGlobals, Goto, Taking
  <2>3. CASE stamp \in Complete
    BY <2>1, <2>2, <2>3, RenamesPut
  <2>4. CASE stamp \notin Complete
    BY <2>1, <2>2, <2>4, SameSets
  <2> QED BY <2>3, <2>4
<1>2. CASE RenameDump
  <2>1. \A d \in Complete : d # stamp => /\ dir'["globals"][d] = dir["globals"][d]
                                        /\ dir'["dump"][d] = dir["dump"][d]
    BY <1>0, <1>2, DumpRenamed
  <2>2. Complete' = Complete \cup {stamp} /\ stamp \in Complete' /\ pc \in Taking
    BY <1>0, <1>2, DumpRenamed DEF RenameDump, Goto, Taking
  <2> QED BY <2>1, <2>2, RenamesPut
<1>3. CASE PruneGlobals
  <2>1. CASE Latest(surplus) \in Complete
    BY <1>0, <1>3, <2>1, PruningDrops
  <2>2. CASE Latest(surplus) \notin Complete
    BY <1>0, <1>3, <2>2, GlobalsPruned, SameSets
  <2> QED BY <2>1, <2>2
<1>4. CASE PruneDump
  BY <1>0, <1>4, DumpPruned, SameSets
<1>5. ASSUME NEW k \in Kind, NEW d \in Day, Sweep(k, d) PROVE Held' = Held
  <2>1. \A e \in Complete : e # d
    BY <1>0, <1>5, Swept
  <2>2. \A e \in Complete : dir'["globals"][e] = dir["globals"][e] /\ dir'["dump"][e] = dir["dump"][e]
    BY <1>0, <1>5, <2>1, Swept DEF Kind
  <2> QED BY <1>0, <1>5, <2>2, Swept, SameSets
<1>6. CASE DumpGlobals \/ DumpDatabase \/ CutSilently
  BY <1>0, <1>6, PartialWritten, SameSets
<1>7. CASE UNCHANGED dir \/ Ends
  BY <1>7, SameComplete, SameSets DEF Ends
<1> QED BY <1>0, <1>1, <1>2, <1>3, <1>4, <1>5, <1>6, <1>7, DirWrites

\* The directory implements the sets its users are promised (KeptSets): though a set is two
\* files, renamed and removed one after the other by runs that stop in between, it appears
\* at once and as the newest, changes only while it is, and goes only when as many newer
\* ones stay.  Whether it restores is WholeSetsAlwaysRestore.
THEOREM SetsAreKept == Spec => ImplementsKeptSets
<1>1. Init => Sets!Init
  <2> SUFFICES ASSUME Init PROVE Sets!Init
    OBVIOUS
  <2>1. Complete = {}
    BY DEF Init, Complete, Kind
  <2> QED BY <2>1 DEF Sets!Init
<1>2. RetentionInv /\ RetentionInv' /\ [Next]_vars =>
        [Sets!Next]_[d \in Complete |-> [globals |-> dir["globals"][d], dump |-> dir["dump"][d]]]
  BY StepsKeepSets DEF Held
<1> QED BY <1>1, <1>2, RetentionInvHolds, PTL DEF Spec, ImplementsKeptSets, Sets!Spec
=============================================================================
