----------------------------- MODULE MCSession -----------------------------
(* Session for TLC.  Each .cfg chooses the lanes and the overlaps admitted.  *)
EXTENDS Session, TLC

CONSTANTS a1, a2, e1, e2, h1, r1, s1, s2, t1, k1, k2

OneApi == {a1}
TwoApi == {a1, a2}
OneEvent == {e1}
OneBeat == {h1}
NoBeat == {}
OneFire == {r1}
TwoSockets == {s1, s2}
OneTimer == {t1}
TwoTokens == {k1, k2}

\* One cause for each way a disconnect is handled.
CauseOfEachKind == {"restart_required", "connection_lost", "connection_replaced", "logged_out"}

\* The overlaps that break the session: a stop() called while a start() opens
\* the socket; no heartbeat comes due in between (NoBeat).  And the one the
\* passing run admits: the phone may refuse a logout.
CallDuringOpen == {"open", "calls"}
PhoneRefuses == {"unlink"}

Symmetry == Permutations({s1, s2}) \cup Permutations({k1, k2})
=============================================================================
