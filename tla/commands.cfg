\* Commands of a session and of the scheduler; the agent may die, or wait in vain, at any step.
SPECIFICATION FairSpec
CONSTANTS
  Users <- OneUser
  Containers <- WithReserved
  Refused <- Reserved
  Policy <- WebAutomatic
  MaxAge = 0
  RestartCooldown = 2
  UpdateCooldown = 3
  MaxClock = 3
  Horizon = 2
  MaxCommands = 2
  Budgets <- OneFault
INVARIANTS TypeOK AtMostOnce PolicyCooldown
PROPERTY QueuedLeaves
