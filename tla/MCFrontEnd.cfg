\* Small programs from the syntax tree to the end of the high-level IR.
SPECIFICATION Spec
CONSTANTS
  Patience = 60
  Cases <- MCCases
INVARIANTS MeaningKept UsesFollowDefs ComesThrough
