SPECIFICATION Spec
CONSTANTS
  Jobs = {"a", "b", "c"}
  Scripts <- MCScripts
  Shards = 2
  Contents = {1, 2}
  MaxChanges = 1
  MaxDeserters = 1
  Blind = {"b"}
INVARIANTS
  TypeOK
  CacheTellsContent
  ServesWhatWasMeasured
  TracedBuild
  ReportIsWhole
  FreshProfileRuns
  AloneOnMachine
