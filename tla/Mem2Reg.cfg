\* Two variables in functions of four blocks.
SPECIFICATION Spec
CONSTANTS
  v1 = v1
  v2 = v2
  Var = {v1, v2}
  Const <- MCConst
  LoadId <- MCLoadId
  Uninit <- MCUninit
  Functions <- MCFunctions
INVARIANTS LoadsAgree StacksFollowTree
