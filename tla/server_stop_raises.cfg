\* A signal lands in a stop() already running.
SPECIFICATION Spec
CONSTANTS
  http = http
  database = database
  bogus = bogus
  Services <- TwoServices
  Known <- TwoServices
  Configs <- OneList
  Traffic = {}
  PollCount = 1
  MaxStarts = 2
  MaxSignals = 1
  SpawnFails = FALSE
INVARIANTS
  StopNeverRaises
