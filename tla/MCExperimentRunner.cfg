SPECIFICATION Spec
CONSTANTS
  Request = {r1}
  RunCount = 2
  MaxExperiments = 2
  MaxTasks = 3
  NoTask = NoTask
INVARIANT TypeOK
INVARIANT OneAtATime
INVARIANT RunsInOrder
PROPERTY OutcomeIsFinal
INVARIANT NoStrandedRun
