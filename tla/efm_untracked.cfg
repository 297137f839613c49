\* Two command lines at once, none of them killed.
SPECIFICATION Spec
CONSTANTS
  web = web
  api = api
  store = store
  a = a
  b = b
  Config <- WebStoreApi
  Http = {web, api}
  Sqlite = {store}
  Port <- OnePort
  Rerunnable = {}
  Commands = {a, b}
  MaxUps = 2
  MaxCrashes = 0
  MaxReuses = 0
INVARIANTS
  Tracked
