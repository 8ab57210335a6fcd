\* Four threads; the body calls a function with a register in use, and r10 is
\* saved over the call.
SPECIFICATION LoopSpec
CONSTANTS
  Tids = {0, 1, 2, 3}
  Lossy = FALSE
  mt_num_threads = 4
  HalfRange = 128
  Bounds <- MCBounds
  cache_line_bits = 1
  LocalWords = 3
  CallPushes = {"acc", "r10", "lr"}
INVARIANTS OwnRegisters
