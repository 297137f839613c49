\* Up to two signals, nested in each other and in the calls.
SPECIFICATION Spec
CONSTANTS
  http = http
  database = database
  bogus = bogus
  Services <- TwoServices
  Known <- TwoServices
  Configs <- OneList
  Traffic = {}
  PollCount = 1
  MaxStarts = 2
  MaxSignals = 2
  SpawnFails = TRUE
SYMMETRY Symmetry
INVARIANTS
  TypeOK
  NoSelfDeadlock
  StatusAgreement
  UpIsServing
  NoStrayThread
  NoOrphanListener
