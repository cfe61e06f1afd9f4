\* Escalation, reminders and flapping on a plain and a picky channel; a delivery fails;
\* users ack, pause and resume between cycles.
SPECIFICATION Spec
CONSTANTS
  Fps <- OneFp
  Channels <- TwoChannels
  Targets <- OneTarget
  TargetOf <- NasOnly
  Ancestors <- NoAncestors
  Rule <- EscalatingRules
  Policy <- PickyPolicies
  Global <- EscalateFlapGlobal
  Hour = 12
  Observations <- PlainAnswers
  RuleChoices <- AllRules
  ChannelChoices <- AllChannels
  SilenceChoices <- NoSilence
  DownChoices <- NothingFlagged
  AckDurations = {2}
  AckPoints <- IdleOnly
  PausePoints <- IdleOnly
  MaxClock = 8
  Horizon = 6
  MaxLag = 1
  MaxAcks = 1
  MaxPauses = 2
  MaxFaults = 0
  MaxSendFailures = 1
INVARIANTS OncePerEpisode RemindersOnTime
PROPERTIES AckSilencesQueue ForgottenStaysQuiet FlapHoldSilence
