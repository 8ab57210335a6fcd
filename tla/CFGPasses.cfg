SPECIFICATION Spec
CONSTANTS
  Programs <- MCPrograms
  Outcomes <- MCOutcomes
  Patience = 12
  Horizon = 8
INVARIANTS IRConsistent MeaningKept ComesThrough
