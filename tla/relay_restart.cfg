\* The report of a job of the previous life of the server.
SPECIFICATION Spec
CONSTANTS
  Devices <- TwoRelayed
  Agents <- OneRelay
  NoAgent = "none"
  Routes <- NasOnly
  Permits = 1
  MaxIds = 3
  MaxEvents = 1
INVARIANT OwnReport
