------------------------------- MODULE Intake -------------------------------
(***************************************************************************)
(* POST /briefs: what opens a run.  Identical briefs are one run; the      *)
(* day's spend closes the door; and a model screens the brief, which is a  *)
(* call like any other and in the ledger like any other.  The same brief   *)
(* may be submitted by several requests at once, and the runs already open *)
(* work, and spend, meanwhile.                                             *)
(***************************************************************************)
EXTENDS Drafting

CONSTANTS
    Requests,  \* the sessions that serve POST /briefs
    Ceiling    \* DAILY_CEILING_USD, in calls

ASSUME IntakeAssumption == Requests # {} /\ IsFiniteSet(Requests) /\ Ceiling \in Nat

VARIABLES
    briefs,    \* content -> the guardrail's decision on its row of `briefs`
    requests   \* session -> how far submit_brief has come, with which brief

vars == <<draftingVars, briefs, requests>>

Decisions == {"pass", "reject"}

NoRequest == [pc |-> "idle", brief |-> AnyBrief]

Init ==
    /\ DraftingInit
    /\ briefs = [b \in Briefs |-> "none"]
    /\ requests = [r \in Requests |-> NoRequest]

Serving(r, pc) == requests[r].pc = pc
Brief(r) == requests[r].brief
Answered(r) == requests' = [requests EXCEPT ![r] = NoRequest]

DailySpend == FoldFunction(+, 0, ledger)

(* A slip: the ceiling itself may still be spent. *)
BelowOrAtCeiling == DailySpend <= Ceiling

(* assert_within_daily_ceiling *)
BelowCeiling == DailySpend < Ceiling

(* A brief that is there already is answered from its row, with its run or its
   rejection, and a new one is refused once the day's ceiling is reached: neither
   changes anything.  The others are screened. *)
Submit(r, b) ==
    /\ Serving(r, "idle")
    /\ briefs[b] = "none" /\ BelowCeiling
    /\ requests' = [requests EXCEPT ![r] = [pc |-> "screening", brief |-> b]]
    /\ UNCHANGED <<draftingVars, briefs>>

(* The guardrail's call raises, and the request with it, before any row. *)
ScreenRaises(r) ==
    /\ Serving(r, "screening")
    /\ Answered(r)
    /\ UNCHANGED <<draftingVars, briefs>>

(* A slip: `content_sha256` is not unique. *)
NotTaken(b) == TRUE

(* The unique constraint on `briefs.content_sha256`. *)
Free(b) == briefs[b] = "none"

(* The verdict is in: the brief, its run, the call's row and the stages are one
   commit.  The plan is taken to be done: the stages are those it selects.  When
   another request has inserted the brief meanwhile the insert raises, and the
   call that was paid for is recorded nowhere. *)
Screened(r) ==
    LET b == Brief(r) IN
    /\ Serving(r, "screening")
    /\ \E decision \in Decisions :
         IF Free(b)
           THEN /\ briefs' = [briefs EXCEPT ![b] = decision]
                /\ runs' = [runs EXCEPT ![b] = IF decision = "pass" THEN "running" ELSE "failed"]
                /\ ledger' = [ledger EXCEPT ![b] = @ + 1]
                /\ stages' = IF decision = "reject" THEN stages
                             ELSE [stages EXCEPT ![b] = [s \in Stages |->
                                      IF s \in StagesOf[b] THEN "pending" ELSE "absent"]]
           ELSE UNCHANGED <<briefs, runs, ledger, stages>>
    /\ Answered(r)
    /\ UNCHANGED <<cached, workers, operators, trouble, astray>>

Serve(r) == ScreenRaises(r) \/ Screened(r)

Next ==
    \/ DraftingNext /\ UNCHANGED <<briefs, requests>>
    \/ \E r \in Requests : Serve(r) \/ \E b \in Briefs : Submit(r, b)

Spec == Init /\ [][Next]_vars

-----------------------------------------------------------------------------
(* Properties. *)

TypeOK ==
    /\ DraftingTypeOK
    /\ briefs \in [Briefs -> Decisions \cup {"none"}]
    /\ requests \in [Requests -> [pc : {"idle", "screening"}, brief : Briefs]]

Inv == TypeOK /\ CleanPassedBoth

(* Identical briefs, screened twice at once and perhaps differently, have one
   decision, and it governs: under a rejection no stage is ever queued. *)
RejectedStaysShut ==
    \A b \in Briefs :
        briefs[b] = "reject" => runs[b] = "failed" /\ stages[b] = [s \in Stages |-> "absent"]

(* The ceiling is read before the call that spends against it: it lets past it no
   more runs than there are requests that read it at once. *)
CeilingBoundsRuns ==
    Cardinality({b \in Briefs : briefs[b] # "none"}) < Ceiling + Cardinality(Requests)
=============================================================================
