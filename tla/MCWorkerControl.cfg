\* The consumers come from the commands.
SPECIFICATION FairSpec
CONSTANTS
  Concurrency = 0
  MaxCount = 1
  MaxCommands = 2
  Message = {m1}
  NoMessage = NoMessage
INVARIANT TypeOK
INVARIANT DeregisteredForGood
INVARIANT CommandsInOrder
INVARIANT FinishedLeaveNoRow
PROPERTY GoneConsumersForgotten
PROPERTY GoneWorkerForgotten
PROPERTY RunningConsumersShown
