SPECIFICATION BrokerSpec
CONSTANTS
  c1 = c1  c2 = c2  b1 = b1  b2 = b2  b3 = b3  t1 = t1  t2 = t2  i1 = i1  i2 = i2
  Components = {c1}
  Builds = {b1, b2}
  Runs = {}
  Target <- TwoForC1
  Digests = {i1, i2}
  NoDigest = NoDigest
  Tags = {t1, t2}
  NoTag = NoTag
  NoTask = NoTask
  TagsOf <- TwoTags
  MayFault = TRUE
  MayCrash = TRUE
CHECK_DEADLOCK FALSE
SYMMETRY Symmetry
INVARIANTS
  BrokerTypeOK
  BuildingHasOwner
  FailedHasCause
  ExecutionTellsOutcome
  CloneDirMatchesBuild
  NoOrphanExecution
PROPERTIES
  ExecutionMovesForward
  BuildsFollowLifecycle
