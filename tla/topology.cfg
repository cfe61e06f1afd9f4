\* A device behind a router, both going down and coming back; one message an hour.
SPECIFICATION FairSpec
CONSTANTS
  Fps <- TwoFps
  Channels <- OneChannel
  Targets <- TwoTargets
  TargetOf <- TwoDevices
  Ancestors <- BehindRouter
  Rule <- HostRules
  Policy <- PlainPolicies
  Global <- CapGlobal
  Hour = 2
  Observations <- PlainAnswers
  RuleChoices <- AllRules
  ChannelChoices <- AllChannels
  SilenceChoices <- NoSilence
  DownChoices <- NothingFlagged
  AckDurations = {2}
  AckPoints <- AnyPoint
  PausePoints <- AnyPoint
  MaxClock = 10
  Horizon = 4
  MaxLag = 1
  MaxAcks = 0
  MaxPauses = 0
  MaxFaults = 0
  MaxSendFailures = 0
INVARIANTS HourlyCap
PROPERTIES MutedNotCounted UnblockedProblemTold QueueDrains
