\* Four threads; a call in the body saves nothing but lr.
SPECIFICATION LoopSpec
CONSTANTS
  Tids = {0, 1, 2, 3}
  Lossy = FALSE
  mt_num_threads = 4
  HalfRange = 128
  Bounds <- MCBounds
  cache_line_bits = 1
  LocalWords = 3
  CallPushes = {"lr"}
INVARIANTS SequentialResult RaceFree
PROPERTIES LoopCompletes
