SPECIFICATION MCSpec
CONSTANTS
  Function <- MCFunction
  ElementSize = 4
  GlobalVariable <- MCGlobals
  Jobs <- MCJobs
INVARIANTS MeaningKept MemoryKnown
