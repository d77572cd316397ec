------------------------------ MODULE MCIntake ------------------------------
(* Instances of Intake for TLC. *)
EXTENDS Intake, TLC

CONSTANTS b1, b2, b3, w1, w2, r1, r2, o1

Interchangeable == Permutations({w1, w2}) \cup Permutations({r1, r2})

SiteAndDemand ==
    [b \in {b1, b2, b3} |->
        IF b = b1 THEN {"copy", "site"} ELSE IF b = b2 THEN {"demand"} ELSE {}]
=============================================================================
