SPECIFICATION Spec
CONSTANTS
  Request = {r1, r2}
  RunCount = 2
  MaxExperiments = 2
  MaxTasks = 3
  NoTask = NoTask
INVARIANT ClearedOnlyAtRest
