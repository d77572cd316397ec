----------------------------- MODULE MCCheckout -----------------------------
(* An instance of Checkout for TLC: two buyers at one arming, each event
   delivered by two overlapping requests. *)
EXTENDS Checkout, TLC

CONSTANTS arm, c1, c2, buyer, staff, d1, d2

ClicksNeedArm == [k \in Keys |-> IF k = arm THEN {} ELSE {arm}]
=============================================================================
