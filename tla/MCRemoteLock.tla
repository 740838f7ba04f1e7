---------------------------- MODULE MCRemoteLock ----------------------------
(* RemoteLock for TLC: two processes, three acquisitions, two calls at once.  *)
EXTENDS RemoteLock, TLC

CONSTANTS c1, c2, t1, t2, t3, l1, l2

MCClient == {c1, c2}
MCToken == {t1, t2, t3}
MCLane == {l1, l2}
AllBackends == {"sql", "mongo", "redis"}
OnlyRedis == {"redis"}
Interchangeable == Permutations(MCClient) \cup Permutations(MCToken) \cup Permutations(MCLane)
=============================================================================
