SPECIFICATION CrashSpec
CONSTANTS
  s1 = s1  w1 = w1  r1 = r1  r2 = r2  h1 = h1
  c1 = c1  c2 = c2  u1 = u1
  None = None
  Sessions = {s1}
  Workspaces = {w1}
  Requests = {r1, r2}
  Hashes = {h1}
  Continues = {c1, c2}
  Budgets = {}
  Starts = {}
  Resumes = {u1}
  SessionOf <- CallsAndResume
  RequestOf <- TwoRequests
  HashOf <- TwoHashes
  WorkspaceOf <- OneCheckout
  ReadOnly = {}
  Stoppable = {}
  MaxCrashes = 2
INVARIANTS RunningIsOwned AckedAcrossCrash
CHECK_DEADLOCK FALSE
