SPECIFICATION Spec
CONSTANTS
  Concurrency = 1
  MaxCount = 1
  MaxCommands = 1
  Message = {m1}
  NoMessage = NoMessage
INVARIANT KillNoticeHolds
