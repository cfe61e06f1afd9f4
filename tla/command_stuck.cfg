\* The report that ends a command is lost.
SPECIFICATION PollingSpec
CONSTANTS
  Users <- OneUser
  Containers <- OneContainer
  Refused <- Nothing
  Policy <- AllManual
  MaxAge = 1
  RestartCooldown = 1
  UpdateCooldown = 2
  MaxClock = 4
  Horizon = 2
  MaxCommands = 1
  Budgets <- LostAnswer
PROPERTY EveryCommandCloses
