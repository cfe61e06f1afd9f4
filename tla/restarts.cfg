\* One crash, database error or lost record and one failed delivery anywhere; users
\* ack, unack and pause anywhere; every answer, silence and switch.
SPECIFICATION Spec
CONSTANTS
  Fps <- OneFp
  Channels <- OneChannel
  Targets <- OneTarget
  TargetOf <- NasOnly
  Ancestors <- NoAncestors
  Rule <- CriticalRules
  Policy <- PlainPolicies
  Global <- BatchGlobal
  Hour = 2
  Observations <- AllAnswers
  RuleChoices <- RulesOnOff
  ChannelChoices <- ChannelsOnOff
  SilenceChoices <- DiskSilenced
  DownChoices <- NasFlagged
  AckDurations = {2}
  AckPoints <- AnyPoint
  PausePoints <- AnyPoint
  MaxClock = 4
  Horizon = 2
  MaxLag = 1
  MaxAcks = 2
  MaxPauses = 1
  MaxFaults = 1
  MaxSendFailures = 1
INVARIANTS TypeOK RowsCoherent
PROPERTIES AckKept UnackKept FiringRowsSurvive AnnouncementSafety
