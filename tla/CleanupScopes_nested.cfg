CONSTANTS
  MSVC = {FALSE}
  Labels = {l1}
  CatchLists <- MCCatchLists
  Bodies = {"throws", "catches"}
  MaxStmts = 4
  MaxCleanups = 2
SPECIFICATION Spec
INVARIANT
  UnwindsSurviveNested
