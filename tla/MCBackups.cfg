SPECIFICATION FairSpec
CONSTANTS
  Keep = 1
  Role = {r1}
  Absent = Absent
  Torn = Torn
  Empty = Empty
  Part = Part
  MaxDay = 2
  MaxData = 1
  MaxFaults = 1
  MaxLosses = 1
INVARIANTS TypeOK WholeSetsRestore NewestSetHoldsWhatWasBackedUp
PROPERTIES ImplementsKeptSets FinishedBackupsLeaveNoLitter LostDatabasesComeBack
