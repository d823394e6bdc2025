SPECIFICATION StatementsSpec
CONSTANTS
  MaxId = 2
  MaxBatch = 2
  Queue = {"default"}
  Priority = {0}
  Limit = {1}
  Delay = {0}
  c1 = c1
  c2 = c2
  c3 = c3
  w1 = w1
  w2 = w2
  Consumer = {c1, c2, c3}
  Nobody = Nobody
  VisibilityTimeout = 0
  Session = {s1, s2}
  Worker = {w1, w2}
  WorkerOf <- TwoWorkers
SYMMETRY Symmetry
INVARIANT TableTypeOK
INVARIANT RetryBudget
INVARIANT LeaseColumns
INVARIANT HeartbeatsDoNotDeadlock
PROPERTY ResultStands
PROPERTY AtomicStatements
