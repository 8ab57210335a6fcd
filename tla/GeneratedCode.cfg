SPECIFICATION Spec
CONSTANTS
  W = 8
  Arity <- MCArity
  imm_8_max = 7
  imm_12_max = 9
  imm_16_max = 15
  cache_line_bits = 2
  mt_num_threads = 2
  enlarge_stack_size = 60
  Globals <- MCGlobals
  Cases <- MCCases
  top = 100
  heap <- MCHeap
  data_start <- MCDataStart
INVARIANTS ValuesInPlace CallerKept FrameIsDisjoint CodeFits
