CONSTANTS
  NTasks = 2
  NodeShift = 1
  Scripts <- TwoIterations
SPECIFICATION Spec
INVARIANT NeverAborts
