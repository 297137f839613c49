\* Two instances with a secret each, two callers; two tokens and two users; three
\* seconds in halves.
SPECIFICATION Spec
CONSTANTS
  first = first
  second = second
  thread1 = thread1
  thread2 = thread2
  None = None
  ada = ada
  Instances = {first, second}
  Secret <- OwnSecrets
  Ttl = 1
  Callers = {thread1, thread2}
  Names = {ada}
  Ttls <- SomeTtls
  Ticks = 2
  MaxSec = 2
  MaxTokens = 2
  MaxUsers = 2
SYMMETRY Interchangeable
INVARIANTS
  TypeOK
  LivesItsTtl
  DiesInTime
  ResetForgets
  ReturnedAreIssued
