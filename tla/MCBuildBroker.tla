--------------------------- MODULE MCBuildBroker ---------------------------
EXTENDS BuildBroker, TLC
CONSTANTS c1, c2, b1, b2, b3, t1, t2, i1, i2

OneForC1 == b1 :> c1
TwoForC1 == b1 :> c1 @@ b2 :> c1

OneTag == c1 :> {t1}
OwnTags == c1 :> {t1} @@ c2 :> {t2}
TwoTags == c1 :> {t1, t2}

Symmetry == Permutations({b1, b2}) \cup Permutations({i1, i2})
============================================================================
