---------------------------- MODULE MCSendQueue ----------------------------
(* SendQueue for TLC.                                                         *)
EXTENDS SendQueue

CONSTANTS j1, j2, j3, d1

ThreeJobs == {j1, j2, j3}
OneDrainer == {d1}
=============================================================================
