\* Loops and branches with calls, three registers of which one is saved by the
\* callee and holds the thread id in a function with a parallel region.
SPECIFICATION Spec
CONSTANTS
  Value = {"a", "b", "p", "q", "t", "x", "y"}
  NoValue = "none"
  allocate_regs = {"r0", "r1", "r10"}
  caller_save_regs = {"r0", "r1"}
  thread_id_reg = "r10"
  Functions <- MCFunctions
INVARIANTS ProperColouring UsesSeeDefs
