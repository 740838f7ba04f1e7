---------------------------- MODULE MCLeaseLock ----------------------------
(* LeaseLock for TLC: two instances, three acquisitions, a clock of six.      *)
EXTENDS LeaseLock

CONSTANTS c1, c2, t1, t2, t3

MCClient == {c1, c2}
MCToken == {t1, t2, t3}
=============================================================================
