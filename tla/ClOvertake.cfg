SPECIFICATION Spec
CONSTANTS
  q1 = q1
  q2 = q2
  A = A
  B = B
  C = C
  D = D
  E = E
  u1 = u1
  u2 = u2
  k1 = k1
  NoKhr = NoKhr
  NoThread = NoThread
  Queues = {q1}
  Program <- OvertakeProgram
  WaitsOf <- OvertakeWaits
  KhrOf <- OvertakeKhr
  UserEvents = {u1, u2}
  UserStatus = {"complete", "failed"}
  Buffers = {b1, b2, b3}
  Khrs = {}
  CacheMax = 1
  Clients = {c1}
  Callers = {c1}
  Setters = {c1}
INVARIANTS RunsAfterWaits
CHECK_DEADLOCK FALSE
