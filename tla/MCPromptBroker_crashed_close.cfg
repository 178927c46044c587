CONSTANTS
  p1 = p1
  p2 = p2
  r1 = r1
  r2 = r2
  u1 = u1
  u2 = u2
  j1 = j1
  None = None
  Prompt = {p1}
  Run = {r1, r2}
  First = r1
  Resolver = {u1}
  Approving = {u1}
  Janitor = {j1}
  MaxCrashes = 1
  MaxFaults = 0
SPECIFICATION FairSpec
PROPERTIES ReapedRunsClose
CHECK_DEADLOCK FALSE
