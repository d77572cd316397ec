------------------------------ MODULE MCAgency ------------------------------
(* Instances of Agency for TLC: a site stage that parks at its deploy; or a plan
   and the money stage it enqueues, which makes a product nobody has to approve
   and then parks at its arming; each with the `resume` tasks of the operator's
   clicks. *)
EXTENDS Agency, TLC

CONSTANTS deploy, product, arming, plan, site, money, resume1, resume2, w1, w2, c1, c2,
          retry

Nothing == [t \in Tasks |-> {}]
NoRequirement == [k \in Keys |-> {}]
Stage == IF money \in Tasks THEN money ELSE site
PlanSpawnsMoney == [t \in Tasks |-> IF t = plan THEN {money} ELSE {}]
TheStage == [t \in Tasks |-> IF t \in {plan, Stage} THEN {} ELSE {Stage}]
TheActions ==
    [t \in Tasks |-> IF t = plan THEN {} ELSE IF t = Stage THEN Keys ELSE ApprovalKeys]
OneResumeEach == [c \in Clicks |-> IF c = c1 THEN resume1 ELSE resume2]

WorkerSymmetry == Permutations(Workers)
=============================================================================
