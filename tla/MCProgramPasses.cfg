\* Programs of main and up to three functions, before and in SSA form.
SPECIFICATION Spec
CONSTANTS
  Patience = 12
  WordBits = 8
  Lanes = 4
  KeptBits = 6
  Group = 2
  Tile = 2
  Region = 20
  MMTotal = 3
  MVTotal = 4
  SetTotal = 14
  GnpTotal = 16
  MMGas = 11
  MVGas = 10
  SmallGas = 8
  CallGas = 10
  Seeds = {1, 2}
  LoopLevelMax = 1
  SmallMax = 5
  LocalMax = 10
  Cases <- MCCases
INVARIANTS MeaningKept StaysSSA ComesThrough NeverIntoItself
