\* Delegated and own probes, one permit, a relay that may vanish.
SPECIFICATION FairSpec
CONSTANTS
  Devices <- OneRelayed
  Agents <- OneRelay
  NoAgent = "none"
  Routes <- NasOnly
  Permits = 1
  MaxIds = 2
  MaxEvents = 1
INVARIANTS TypeOK SettledOnce NotDoubled
PROPERTIES EveryJobSettles EveryDeviceHeard
