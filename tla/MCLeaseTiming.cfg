SPECIFICATION Spec
CONSTANTS
  HeartbeatInterval = 5
  VisibilityTimeout = 50
  Grace = 25
  LostAfter = 15
  ClaimTime = 1
  BeatTime = 1
  UnwindTime = 1
  MaxFailures = 1
  OtherBeater = {"commands"}
  MaxAge = 54
INVARIANT NotRobbed
INVARIANT NotShownLost
INVARIANT NoticedFirst
