\* Two setups, one of which insists on docker; one signal.
SPECIFICATION FairSpec
CONSTANTS
  a = a
  b = b
  Setups = {a, b}
  Strict = {b}
  MaxFlips = 1
  MaxSignals = 1
INVARIANTS
  TypeOK
  LeftForAReason
  ReportTrue
  HostFits
PROPERTIES
  SetupEnds
CHECK_DEADLOCK FALSE
