---------------------------- MODULE MCTaskQueue -----------------------------
(* Instances of TaskQueue for TLC, cut from the pipeline's own shape: site
   depends on copy and parks at its deploy. *)
EXTENDS TaskQueue, TLC

CONSTANTS copy, site, resume, w1, w2, o1

PipelineDependsOn == [t \in Tasks |-> IF t = site THEN {copy} ELSE {}]
PipelineReleases == [t \in Tasks |-> IF t = resume THEN {site} ELSE {}]
None == [t \in Tasks |-> {}]
=============================================================================
