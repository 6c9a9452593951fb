SPECIFICATION FairSpec
CONSTANTS
  q1 = q1
  q2 = q2
  A = A
  B = B
  C = C
  D = D
  E = E
  u1 = u1
  u2 = u2
  k1 = k1
  NoKhr = NoKhr
  NoThread = NoThread
  Queues = {q1, q2}
  Program <- CrossProgram
  WaitsOf <- CrossWaits
  KhrOf <- CrossKhr
  UserEvents = {u1}
  UserStatus = {"complete", "failed"}
  Buffers = {b1, b2}
  Khrs = {k1}
  CacheMax = 1
  Clients = {c1, c2}
  Callers = {c1}
  Setters = {c2}
INVARIANTS SemaphoreCountIsExact ReusedWhenDone KhrKeepsItsBuffer RunsInOrder RunsAfterWaits
PROPERTIES FinishOutlastsCommands CallsReturn UserEventReleases
CHECK_DEADLOCK FALSE
