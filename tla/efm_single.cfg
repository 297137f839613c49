\* One command at a time, some of them killed half-way.
SPECIFICATION Spec
CONSTANTS
  web = web
  api = api
  store = store
  a = a
  b = b
  Config <- WebStoreApi
  Http = {web, api}
  Sqlite = {store}
  Port <- OnePort
  Rerunnable = {store}
  Commands = {a}
  MaxUps = 2
  MaxCrashes = 1
  MaxReuses = 6
INVARIANTS
  DownDelivers
  UpDelivers
