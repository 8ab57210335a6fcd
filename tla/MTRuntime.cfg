\* The four threads of the code; any clone() may fail, or none.
SPECIFICATION Spec
CONSTANTS
  Main = main
  Worker = {w1, w2, w3}
  NumThreads = 4
  Displacement = 9
  WaitFrame = 2
  SP0 = 100
  CallerRegs <- MCCallerRegs
  MaxRounds = 2
  CloneMayFail = TRUE
INVARIANTS JoinSafety DistinctTids RegionContext SerialContext AllChunksRun
PROPERTIES SavedArgsStable RegionCompletes ImplementsForkJoin
