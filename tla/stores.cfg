\* One route, topic and object; two threads that reset.
SPECIFICATION Spec
CONSTANTS
  route = route
  topic = topic
  object = object
  a = a
  b = b
  Routes = {route}
  Topics = {topic}
  Objects = {object}
  Limits <- SomeLimits
  Callers = {a, b}
  MaxOps = 3
  MaxResets = 2
SYMMETRY TwoCallers
INVARIANTS
  TypeOK
  ResetForgets
  SurvivorsAreFresh
  LoggedInAnswerOrder
  PlacesStay
  OnlyWholeObjects
