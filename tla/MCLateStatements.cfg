SPECIFICATION LateSpec
CONSTANTS
  MaxId = 1
  MaxBatch = 1
  Queue = {"default"}
  Priority = {0}
  Limit = {2}
  Delay = {0}
  c1 = c1
  c2 = c2
  w1 = w1
  w2 = w2
  Consumer = {c1, c2}
  Nobody = Nobody
  NoMessage = NoMessage
  VisibilityTimeout = 0
  Worker = {w1, w2}
  WorkerOf <- TwoWorkers
  QueueOf <- OneQueue
  Mortal = {c2}
  MaxLate = 2
INVARIANT DoneByAHandler
