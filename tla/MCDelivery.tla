----------------------------- MODULE MCDelivery -----------------------------
(* Delivery for TLC.                                                          *)
EXTENDS Delivery

CONSTANTS b1, b2, b3, w1, w2

TwoBatches == {b1, b2}
ThreeBatches == {b1, b2, b3}
OneWaiter == {w1}
TwoWaiters == {w1, w2}
=============================================================================
