--------------------------- MODULE MCKubeForge ---------------------------
EXTENDS KubeForge, TLC
CONSTANTS c1, c2, b1, b2, b3, r1, r2, t1, t2, i1, i2, u1, u2

OneOfEach == b1 :> c1 @@ r1 :> c1
OneBuildTwoRuns == b1 :> c1 @@ r1 :> c1 @@ r2 :> c1
OverlapTargets == b1 :> c1 @@ b2 :> c1 @@ b3 :> c2 @@ r1 :> c1

TagOfC1 == c1 :> {t1}
OwnTags == c1 :> {t2} @@ c2 :> {t1}

WithClaim == c1 :> "pvc"
Ephemeral == c1 :> "ephemeral"
EphemeralBoth == c1 :> "ephemeral" @@ c2 :> "ephemeral"

NoHook == c1 :> {}
NoHooks == c1 :> {} @@ c2 :> {}
StrictHook == c1 :> {TRUE, FALSE}
LenientHook == c1 :> {TRUE}

NoScope == [u \in {} |-> c1]
OneComponentCleanup == u1 :> c1
OneGlobalCleanup == u1 :> Global

RunSymmetry == Permutations({r1, r2})
BuildSymmetry == Permutations({b1, b2}) \cup Permutations({i1, i2})
============================================================================
