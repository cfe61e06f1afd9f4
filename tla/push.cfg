\* Lost answers, failing handlers, restarts on both sides, tokens and windows.
SPECIFICATION FairSpec
CONSTANTS
  Machines <- OneMachine
  Tokens <- TwoTokens
  Fleet <- OnlyFleet
  MaxUses <- OnceEach
  Agents <- AgentAndTwin
  KeyOf <- SameKey
  TokenOf <- TwinHasOnce
  ChannelCapacity = 1
  FlushSize = 2
  MaxBuffered = 1
  Capacity = 2
  MaxBatch = 1
  Scenarios <- Situations
INVARIANTS TypeOK NoSilentLoss QueuesFit BindingHolds OneVoice
PROPERTY EverySampleSettles
CHECK_DEADLOCK FALSE
