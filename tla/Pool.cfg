CONSTANTS
  w1 = w1  w2 = w2  c1 = c1  c2 = c2  i1 = i1  i2 = i2  i3 = i3  s1 = s1  n1 = n1
  Workers = {w1, w2}
  Clients = {c1}
  Enqueuers = {c1}
  Items = {i1, i2, i3}
  Ranges <- MCRanges
  Signals = {s1}
  Counts = {n1}
  SignalOf <- MCSignalOf
  CountOf <- MCCountOf
  QueueMax = 2
  NoSignal = NoSignal  NoItem = NoItem  NoGoal = NoGoal  NoThread = NoThread
SPECIFICATION FairSpec
INVARIANTS WorkIsNoticed WaiterIsWoken IInv
PROPERTIES WaitOutlastsItems ImplementsWorkPool WorkIsDone CallsReturn
