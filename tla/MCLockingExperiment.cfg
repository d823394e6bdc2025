SPECIFICATION FairSpec
CONSTANTS
  Job = {1, 2, 3}
  Consumer = {c1, c2, c3}
  Modes = {"no_lock", "for_update", "skip_locked"}
  NoJob = NoJob
INVARIANT TypeOK
INVARIANT ExecutionsMatchResults
INVARIANT OneWorksForUpdate
INVARIANT FinishedIsComplete
PROPERTY RunEnds
