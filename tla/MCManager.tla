----------------------------- MODULE MCManager -----------------------------
(* Manager for TLC.                                                           *)
EXTENDS Manager, TLC

CONSTANTS i1, i2, c1, c2, c3, o1, o2, o3

OneId == {i1}
TwoIds == {i1, i2}
TwoCalls == {c1, c2}
ThreeCalls == {c1, c2, c3}
TwoObjects == {o1, o2}
ThreeObjects == {o1, o2, o3}

NoOverlap == {}
SameId == {"sameId"}

Symmetry == Permutations(TwoIds) \cup Permutations(ThreeCalls) \cup Permutations(ThreeObjects)
=============================================================================
