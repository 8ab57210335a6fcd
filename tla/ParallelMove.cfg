\* Moves at function entry and at calls.
SPECIFICATION Spec
CONSTANTS
  Reg = {"r0", "r1", "r2", "r3"}
  Slot = {"s0", "s1"}
  Const = {"c"}
  op_reg_0 = "r12"
  MoveLists <- MCEntryLists
INVARIANTS ParallelAssignment
PROPERTIES Terminates
