------------------------------- MODULE MCClient -------------------------------
(* Client for TLC.                                                            *)
EXTENDS Client

CONSTANTS p1, hook, l1, s1

TwoPlugins == {p1, hook}
OneListener == {l1}
OneStream == {s1}

Plainly == {}
DestroyInSetup == {"destroyInSetup"}
=============================================================================
