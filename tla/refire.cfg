\* An alert resolves and fires again at once.
SPECIFICATION FairSpec
CONSTANTS
  Fps <- OneFp
  Channels <- OneChannel
  Targets <- OneTarget
  TargetOf <- NasOnly
  Ancestors <- NoAncestors
  Rule <- ImmediateRules
  Policy <- PlainPolicies
  Global <- BatchGlobal
  Hour = 12
  Observations <- PlainAnswers
  RuleChoices <- AllRules
  ChannelChoices <- AllChannels
  SilenceChoices <- NoSilence
  DownChoices <- NothingFlagged
  AckDurations = {2}
  AckPoints <- AnyPoint
  PausePoints <- AnyPoint
  MaxClock = 9
  Horizon = 5
  MaxLag = 1
  MaxAcks = 0
  MaxPauses = 0
  MaxFaults = 0
  MaxSendFailures = 0
PROPERTIES EveryProblemTold
