SPECIFICATION ConsoleFairSpec
CONSTANTS
  c1 = c1  c2 = c2  r1 = r1  u1 = u1
  Components = {c1,c2}
  Builds = {}
  Runs = {r1}
  Cleanups = {u1}
  Target <- AllOnC1
  g1 = g1  g2 = g2
  Gets = {g1, g2}
  Existing = {c1}
  NoRequest = NoRequest
INVARIANTS
  ConsoleTypeOK
  BusyMatchesPosts
  ErrorIsOfLastAction
PROPERTIES
  TableSettles
CHECK_DEADLOCK FALSE
