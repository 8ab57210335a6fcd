\* All control flow graphs of four blocks, and some of six.
SPECIFICATION SpecBoth
CONSTANTS
  Block = {1, 2, 3, 4, 5, 6}
  root = 1
  None = 0
  Graphs <- MCGraphs
INVARIANTS IDomIsClosest NeverTooFarUp FrontiersExact LoopsFound
PROPERTIES BothTerminate
