SPECIFICATION JobsSpec
CONSTANTS
  w1 = w1  w2 = w2  m1 = m1  m2 = m2
  None = None  NoId = NoId  BeginTask = BeginTask
  Workers = {w1, w2}
  Shared = {w2}
  Messages = {m1}
  Replies <- AllReplies
  Budget = 4
  Divisors = {2}
  MaxRuns = 2
  MaxTurns = 2
  g1 = g1  i1 = i1  i2 = i2  j1 = j1  j2 = j2
  Regions = {g1, g2}
  Contents = {1, 2}
  Gone = Gone
  Isolated = {i1, i2}
  Heads <- MCHeads
  Checkouts <- MCCheckouts
  MaxEdits = 2
  MaxWork = 1
  MaxTroubles = 1
  d1 = d1  d2 = d2
  Names = {d1, d2}
  Depth = 2
  Data = {1, 2}
  Dir = Dir
  FirstTrees <- MCTrees
  Owner = Owner
  Jobs = {j1, j2}
  MaxChanges = 1
INVARIANTS PairedRequests WorkersInv IsolationInv
PROPERTIES ResultArrives  CheckoutRespected MergeIsWhole
CHECK_DEADLOCK FALSE
