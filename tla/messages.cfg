SPECIFICATION Spec
CONSTANTS
  s1 = s1  s2 = s2  w1 = w1  r1 = r1  r2 = r2  h1 = h1  h2 = h2
  c1 = c1  c2 = c2  c3 = c3  b1 = b1  n1 = n1
  None = None
  Sessions = {s1}
  Workspaces = {w1}
  Requests = {r1, r2}
  Hashes = {h1}
  Continues = {c1, c2, c3}
  Budgets = {}
  Starts = {}
  Resumes = {}
  SessionOf <- ThreeCalls
  RequestOf <- RetriedRequest
  HashOf <- RetriedHash
  WorkspaceOf <- OneCheckout
  ReadOnly = {}
  Stoppable = {}
INVARIANTS AckedNotLost ExactlyOnce
PROPERTIES MessagePathSpec
CHECK_DEADLOCK FALSE
