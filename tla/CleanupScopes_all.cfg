CONSTANTS
  MSVC = {TRUE, FALSE}
  Labels = {l1}
  CatchLists <- MCCatchLists
  Bodies = {"throws", "catches"}
  MaxStmts = 4
  MaxCleanups = 2
SPECIFICATION Spec
INVARIANTS
  TypeOK
  ExitsRunCleanups
  GotosRunCleanups
  RejectsOnlyIllegal
  UnwindsRunCleanups
  PlainCallsUncaught
