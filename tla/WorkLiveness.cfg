SPECIFICATION FairSpec
CONSTANTS
  c1 = c1  c2 = c2  b1 = b1  b2 = b2  b3 = b3  r1 = r1  r2 = r2  t1 = t1  t2 = t2
  i1 = i1  i2 = i2  u1 = u1  u2 = u2
  Components = {c1}
  Builds = {b1}
  Runs = {r1}
  Target <- OneOfEach
  Digests = {i1}
  NoDigest = NoDigest
  Tags = {t1}
  NoTag = NoTag
  NoTask = NoTask
  TagsOf <- TagOfC1
  Storage <- WithClaim
  PostRunItems <- LenientHook
  ShortTTL = TRUE
  MayFault = FALSE
  MayCrash = FALSE
  Cleanups = {u1}
  Scope <- OneGlobalCleanup
  Global = Global
  MayCancel = TRUE
CHECK_DEADLOCK FALSE
PROPERTY WorkEnds
INVARIANTS
  SweepIsComplete
  AuditFollowsSweep
