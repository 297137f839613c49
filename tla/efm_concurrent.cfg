\* Two command lines at once.
SPECIFICATION Spec
CONSTANTS
  web = web
  api = api
  store = store
  a = a
  b = b
  Config <- WebStoreApi
  Http = {web, api}
  Sqlite = {store}
  Port <- OnePort
  Rerunnable = {}
  Commands = {a, b}
  MaxUps = 2
  MaxCrashes = 0
  MaxReuses = 1
SYMMETRY TwoShells
VIEW AsCommandsSee
INVARIANTS
  TypeOK
  KillsOwn
  SeededOnce
