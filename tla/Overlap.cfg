SPECIFICATION Spec
CONSTANTS
  c1 = c1  c2 = c2  b1 = b1  b2 = b2  b3 = b3  r1 = r1  r2 = r2  t1 = t1  t2 = t2
  i1 = i1  i2 = i2  u1 = u1  u2 = u2
  Components = {c1, c2}
  Builds = {b1, b2, b3}
  Runs = {r1}
  Target <- OverlapTargets
  Digests = {i1, i2}
  NoDigest = NoDigest
  Tags = {t1, t2}
  NoTag = NoTag
  NoTask = NoTask
  TagsOf <- OwnTags
  Storage <- EphemeralBoth
  PostRunItems <- NoHooks
  ShortTTL = FALSE
  MayFault = FALSE
  MayCrash = FALSE
  Cleanups = {}
  Scope <- NoScope
  Global = Global
  MayCancel = FALSE
CHECK_DEADLOCK FALSE
SYMMETRY BuildSymmetry
INVARIANTS
  WorkHasOwner
  ImageWhenNeeded
  SucceededImageRan
  JobRunsOwnImage
  DigestIsOwnImage
  DigestMatchesPhase
  OnlyEarlyCallsMissTheRow
