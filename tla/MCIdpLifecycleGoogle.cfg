SPECIFICATION Spec
CONSTANTS
  i1 = i1
  Runs = {i1}
  MaxSecond = 1
  MaxSource = 2
  Broken = {2}
  Hyperscalers = {"google"}
  Apis = {"crossplane"}
INVARIANT DestroyComplete
CHECK_DEADLOCK FALSE
