\* start(), stop() and reset() in every order, one signal at any moment, fairness
\* of the main thread alone.
SPECIFICATION FairSpec
CONSTANTS
  http = http
  database = database
  bogus = bogus
  Services <- AllNames
  Known <- TwoServices
  Configs <- Lists
  Traffic <- TwoServices
  PollCount = 1
  MaxStarts = 2
  MaxSignals = 1
  SpawnFails = TRUE
INVARIANTS
  StartDelivers
  StopDelivers
  ResetDelivers
PROPERTIES
  CallsEnd
