\* Two mocks, the prefix of one a prefix of the other's; three requests.
SPECIFICATION Spec
CONSTANTS
  git = git
  github = github
  issues = issues
  ping = ping
  Bases = {git, github}
  Paths <- SomePaths
  Prefixes <- Shadowing
  Resource <- LastSegment
  Calls <- SomeCalls
  Scenarios <- CannedPing
  MaxMocks = 3
  MaxRequests = 3
INVARIANTS
  TypeOK
  CreatedIsKept
  LaterIdsAreLarger
  RaisesForAReason
  RoutingIsStable
CHECK_DEADLOCK FALSE
