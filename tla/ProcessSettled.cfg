SPECIFICATION FairSpec
CONSTANT
  MaxSignals = 4
INVARIANTS
  TypeOK
  GroupGone
  HandlersRestored
  RecordIsFinal
PROPERTIES
  ManagedEnds
