------------------------------ MODULE MCPairing ------------------------------
(* Pairing for TLC.                                                           *)
EXTENDS Pairing, TLC

CONSTANTS r1, r2, r3

ThreeRequests == {r1, r2, r3}
OnTime == {}
Late == {"failure", "answer", "open"}
Interchangeable == Permutations(Request)
=============================================================================
