SPECIFICATION BrokerSpec
CONSTANTS
  c1 = c1  c2 = c2  b1 = b1  b2 = b2  b3 = b3  t1 = t1  t2 = t2  i1 = i1  i2 = i2
  Components = {c1}
  Builds = {b1}
  Runs = {}
  Target <- OneForC1
  Digests = {i1, i2}
  NoDigest = NoDigest
  Tags = {t1, t2}
  NoTag = NoTag
  NoTask = NoTask
  TagsOf <- OneTag
  MayFault = TRUE
  MayCrash = FALSE
CHECK_DEADLOCK FALSE
INVARIANT FailurePersisted
