---------------------------- MODULE IntakeProofs ----------------------------
(***************************************************************************)
(* Proofs, for every set of briefs, workers and requests and every bound,  *)
(* that one decision governs a brief however many requests submit it; that *)
(* what a stage stores as clean passed both of its checks itself; that     *)
(* every stage comes to an end; and that a run no retry has led astray,    *)
(* and a day, overspend by no more than what was under way when the money  *)
(* ran out.                                                                *)
(***************************************************************************)
EXTENDS Intake, FiniteSetTheorems, WellFoundedInduction, TLAPS

WorkerFields == {"pc", "run", "stage", "left", "round", "attempt", "own", "wrote", "violations",
                 "checked", "reviewed", "page"}

(* The tables have a row for every brief, and the workers a record each. *)
Shape ==
    /\ runs \in [Briefs -> RunStates]
    /\ stages \in [Briefs -> [Stages -> StageStates]]
    /\ briefs \in [Briefs -> Decisions \cup {"none"}]
    /\ DOMAIN workers = Workers
    /\ \A w \in Workers :
         /\ DOMAIN workers[w] = WorkerFields
         /\ workers[w].run \in Briefs /\ workers[w].stage \in Stages
    /\ operators \in [Operators -> [pc : {"idle", "retrying"}, run : Briefs, stage : Stages,
                                    status : RunStates]]
    /\ requests \in [Requests -> [pc : {"idle", "screening"}, brief : Briefs]]

(* What enforcing a budget and settling a run make of its status. *)
LEMMA StatusType ==
    ASSUME NEW b \in Briefs, runs[b] \in RunStates
    PROVE  /\ Enforced(b) \in RunStates
           /\ Enforced(b) # runs[b] => Enforced(b) = "halted_budget"
           /\ \A status \in RunStates : \A states :
                /\ Settled(status, states) \in RunStates
                /\ status # "none" => Settled(status, states) # "none"
  BY DEF Enforced, Settled, RunStates

(* What a retry leaves of the slot it was asked in, and of its run. *)
LEMMA RetryShape ==
    ASSUME Shape, NEW o \in Operators,
           Retry(o) \/ \E b \in Briefs, s \in Stages : RetryRead(o, b, s)
    PROVE  /\ runs' \in [Briefs -> RunStates] /\ stages' \in [Briefs -> [Stages -> StageStates]]
           /\ operators' \in [Operators -> [pc : {"idle", "retrying"}, run : Briefs,
                                            stage : Stages, status : RunStates]]
  <1>0. /\ runs \in [Briefs -> RunStates] /\ stages \in [Briefs -> [Stages -> StageStates]]
        /\ operators[o].run \in Briefs /\ operators[o].stage \in Stages
    BY DEF Shape
  <1>1. CASE Retry(o)
    <2>1. NoRetry \in [pc : {"idle", "retrying"}, run : Briefs, stage : Stages,
                       status : RunStates]
      <3>1. AnyBrief \in Briefs
        BY DraftingAssumption DEF AnyBrief
      <3>2. QED
        BY <3>1 DEF NoRetry, Stages, RunStates
    <2>2. operators' \in [Operators -> [pc : {"idle", "retrying"}, run : Briefs,
                                         stage : Stages, status : RunStates]]
      BY <1>1, <2>1 DEF Retry, Shape
    <2>3. stages' \in [Briefs -> [Stages -> StageStates]]
      BY <1>0, <1>1 DEF Retry, StageStates
    <2>4. runs' \in [Briefs -> RunStates]
      BY <1>0, <1>1 DEF Retry, RunStates
    <2>5. QED
      BY <2>2, <2>3, <2>4
  <1>2. ASSUME NEW b \in Briefs, NEW s \in Stages, RetryRead(o, b, s)
        PROVE  /\ UNCHANGED <<runs, stages>>
               /\ operators' \in [Operators -> [pc : {"idle", "retrying"}, run : Briefs,
                                                stage : Stages, status : RunStates]]
    BY <1>0, <1>2 DEF RetryRead, Shape
  <1>3. QED
    BY <1>0, <1>1, <1>2

LEMMA IdleShape ==
    ASSUME Briefs # {}
    PROVE  DOMAIN Idle = WorkerFields /\ AnyBrief \in Briefs /\ Idle.run = AnyBrief
           /\ Idle.stage = "copy" /\ Idle.pc = "idle" /\ Idle.wrote = "none"
  BY DEF Idle, AnyBrief, WorkerFields

(* What becomes of a worker that goes on, whether a call has just returned or not. *)
LEMMA NextFields ==
    ASSUME Shape, NEW w \in Workers, NEW fields, Becomes(w, fields) \/ Returned(w, fields)
    PROVE  /\ DOMAIN workers' = Workers
           /\ \A v \in Workers : v # w => workers'[v] = workers[v]
           /\ DOMAIN workers'[w] = WorkerFields
           /\ \A f \in WorkerFields \ {"own", "attempt"} :
                workers'[w][f] = IF f \in DOMAIN fields THEN fields[f] ELSE workers[w][f]
  <1>1. DOMAIN workers = Workers /\ DOMAIN workers[w] = WorkerFields
    BY DEF Shape
  <1>2. PICK calls \in {0, 1} : Advances(w, fields, calls)
    BY DEF Becomes, Returned
  <1>3. QED
    BY <1>1, <1>2 DEF Advances

(* What a worker keeps, whatever it does next: it drops its stage, or it goes on
   with the same stage of the same run. *)
LEMMA WorkKeepsStage ==
    ASSUME Shape, NEW w \in Workers, Work(w)
    PROVE  /\ ~At(w, "idle")
           /\ DOMAIN workers' = Workers
           /\ \A v \in Workers : v # w => workers'[v] = workers[v]
           /\ \/ workers'[w] = Idle
              \/ /\ DOMAIN workers'[w] = WorkerFields
                 /\ workers'[w].run = Run(w) /\ workers'[w].stage = workers[w].stage
  <1> DEFINE Goal == /\ DOMAIN workers' = Workers
                     /\ \A v \in Workers : v # w => workers'[v] = workers[v]
                     /\ \/ workers'[w] = Idle
                        \/ /\ DOMAIN workers'[w] = WorkerFields
                           /\ workers'[w].run = Run(w) /\ workers'[w].stage = workers[w].stage
  <1>0. ~At(w, "idle")
    BY DEF Work, Transient, CallRaises, Drafted, CheckNumerals, Reviewed, Built, PageChecked,
       Criticised, Revised, Write, NextDeliverable, Commit, CommitPage, Request, RollUp, Calling,
       Calls, At
  <1>0a. "run" \notin DOMAIN NextRound(w) /\ "stage" \notin DOMAIN NextRound(w)
    BY DEF NextRound
  <1>1. ASSUME NEW fields, Becomes(w, fields) \/ Returned(w, fields),
               "run" \notin DOMAIN fields, "stage" \notin DOMAIN fields
        PROVE  Goal
    <2>1. /\ DOMAIN workers' = Workers
          /\ \A v \in Workers : v # w => workers'[v] = workers[v]
          /\ DOMAIN workers'[w] = WorkerFields
          /\ \A f \in WorkerFields \ {"own", "attempt"} :
               workers'[w][f] = IF f \in DOMAIN fields THEN fields[f] ELSE workers[w][f]
      BY <1>1, NextFields
    <2>2. workers'[w].run = workers[w].run /\ workers'[w].stage = workers[w].stage
      BY <1>1, <2>1 DEF WorkerFields
    <2>3. QED
      BY <2>1, <2>2 DEF Run
  <1>b. ASSUME NEW fields, Becomes(w, fields),
               "run" \notin DOMAIN fields, "stage" \notin DOMAIN fields
        PROVE  Goal
    BY <1>1, <1>b
  <1>c. ASSUME NEW fields, Returned(w, fields),
               "run" \notin DOMAIN fields, "stage" \notin DOMAIN fields
        PROVE  Goal
    BY <1>1, <1>c
  <1>2. ASSUME workers' = [workers EXCEPT ![w] = Idle] PROVE Goal
    BY <1>2 DEF Shape
  <1>a. SUFFICES Goal
    BY <1>0
  <1> HIDE DEF Goal
  <1>4. CASE Transient(w)
    BY <1>b, <1>4 DEF Transient
  <1>5. CASE CallRaises(w)
    BY <1>b, <1>2, <1>5 DEF CallRaises, Fails, Goes
  <1>6. CASE Drafted(w)
    BY <1>c, <1>6 DEF Drafted
  <1>7. CASE CheckNumerals(w)
    <2>1. CASE Becomes(w, NextRound(w))
      BY <1>0a, <1>b, <2>1
    <2>2. CASE Becomes(w, [violations |-> FALSE, checked |-> workers[w].round, pc |-> "review"])
      BY <1>b, <2>2
    <2>3. QED
      BY <1>7, <2>1, <2>2 DEF CheckNumerals
  <1>8. CASE Reviewed(w)
    <2>1. CASE Returned(w, NextRound(w))
      BY <1>0a, <1>c, <2>1
    <2>2. CASE Returned(w, [violations |-> FALSE, reviewed |-> workers[w].round, pc |-> "write"])
      BY <1>c, <2>2
    <2>3. QED
      BY <1>8, <2>1, <2>2 DEF Reviewed
  <1>9. CASE Built(w)
    BY <1>b, <1>c, <1>9 DEF Built
  <1>10. CASE PageChecked(w)
    BY <1>b, <1>2, <1>10 DEF PageChecked, Fails, Goes
  <1>11. CASE Criticised(w)
    BY <1>c, <1>11 DEF Criticised
  <1>12. CASE Revised(w)
    BY <1>b, <1>c, <1>12 DEF Revised
  <1>13. CASE Write(w) \/ NextDeliverable(w) \/ Commit(w)
    <2>1. CASE Write(w)
      BY <1>b, <2>1 DEF Write
    <2>2. CASE NextDeliverable(w)
      BY <1>b, <2>2 DEF NextDeliverable
    <2>3. CASE Commit(w)
      BY <1>b, <2>3 DEF Commit, Commits
    <2>4. QED
      BY <1>13, <2>1, <2>2, <2>3
  <1>14. CASE RollUp(w)
    BY <1>2, <1>14 DEF RollUp
  <1>15. CASE CommitPage(w)
    BY <1>b, <1>15 DEF CommitPage, Commits
  <1>16. CASE Request(w)
    BY <1>b, <1>2, <1>16 DEF Request, Fails, Goes
  <1>17. QED
    BY <1>4, <1>5, <1>6, <1>7, <1>8, <1>9, <1>10, <1>11, <1>12, <1>13, <1>14, <1>15, <1>16
    DEF Work

(* Whatever a worker does, it does to the run whose stage it holds. *)
LEMMA WorkKeepsRuns ==
    ASSUME Shape, NEW w \in Workers, Work(w)
    PROVE  /\ runs' \in [Briefs -> RunStates] /\ stages' \in [Briefs -> [Stages -> StageStates]]
           /\ \A b \in Briefs \ {Run(w)} : runs'[b] = runs[b] /\ stages'[b] = stages[b]
           /\ \A b \in Briefs : runs[b] # "none" => runs'[b] # "none"
           /\ \A s \in Stages :
                stages'[Run(w)][s] # stages[Run(w)][s] => s = workers[w].stage
           /\ UNCHANGED <<operators, trouble>>
  <1> DEFINE Goal == /\ runs' \in [Briefs -> RunStates]
                     /\ stages' \in [Briefs -> [Stages -> StageStates]]
                     /\ \A b \in Briefs \ {Run(w)} : runs'[b] = runs[b] /\ stages'[b] = stages[b]
                     /\ \A b \in Briefs : runs[b] # "none" => runs'[b] # "none"
                     /\ \A s \in Stages :
                          stages'[Run(w)][s] # stages[Run(w)][s] => s = workers[w].stage
  <1>0. /\ runs \in [Briefs -> RunStates] /\ stages \in [Briefs -> [Stages -> StageStates]]
        /\ Run(w) \in Briefs /\ workers[w].stage \in Stages
    BY DEF Shape, Run
  <1>1. ASSUME UNCHANGED <<runs, stages>> PROVE Goal
    BY <1>0, <1>1
  <1>2. ASSUME NEW state \in StageStates, NEW status \in RunStates,
               stages' = [stages EXCEPT ![Run(w)][workers[w].stage] = state],
               runs' = [runs EXCEPT ![Run(w)] = status], runs[Run(w)] # "none" => status # "none"
        PROVE  Goal
    BY <1>0, <1>2
  <1>3. ASSUME UNCHANGED stages, NEW status \in RunStates,
               runs' = [runs EXCEPT ![Run(w)] = status], runs[Run(w)] # "none" => status # "none"
        PROVE  Goal
    BY <1>0, <1>3
  <1>4. UNCHANGED books => UNCHANGED <<runs, stages>>
    BY DEF books
  <1>5. "failed" \in StageStates /\ "done" \in StageStates
    BY DEF StageStates
  <1> HIDE DEF Goal
  <1>6. Fails(w) => Goal
    <2> SUFFICES ASSUME Fails(w) PROVE Goal
      OBVIOUS
    <2>1. runs' = [runs EXCEPT ![Run(w)] = Settled(runs[Run(w)], States(stages'[Run(w)]))]
      BY <1>0 DEF Fails
    <2>2. QED
      BY <1>0, <1>2, <1>5, <2>1, StatusType DEF Fails
  <1>7. ASSUME UNCHANGED runs, stages' = [stages EXCEPT ![Run(w)][workers[w].stage] = "done"]
        PROVE  Goal
    <2>1. runs' = [runs EXCEPT ![Run(w)] = runs[Run(w)]]
      BY <1>0, <1>7
    <2>2. QED
      BY <1>0, <1>2, <1>5, <1>7, <2>1
  <1>8. RollUp(w) => Goal
    <2> SUFFICES ASSUME RollUp(w) PROVE Goal
      OBVIOUS
    <2>1. /\ Enforced(Run(w)) \in RunStates
          /\ runs[Run(w)] # "none" => Enforced(Run(w)) # "none"
      BY <1>0, StatusType DEF Enforced
    <2>2. QED
      BY <1>0, <1>3, <2>1, StatusType DEF RollUp
  <1>9. Fails(w) \/ Commit(w) \/ CommitPage(w) \/ Request(w) \/ RollUp(w) \/ UNCHANGED books
    BY DEF Work, Transient, CallRaises, Drafted, CheckNumerals, Reviewed, Built, PageChecked,
       Criticised, Revised, Write, NextDeliverable
  <1>10. Goal
    BY <1>1, <1>4, <1>6, <1>7, <1>8, <1>9 DEF Commit, CommitPage, Request
  <1>11. UNCHANGED <<operators, trouble>>
    BY <1>9 DEF Fails, Commit, CommitPage, Request, RollUp, books
  <1>12. QED
    BY <1>10, <1>11 DEF Goal

-----------------------------------------------------------------------------
(* One decision governs a brief. *)

NoStages == [s \in Stages |-> "absent"]

(* Only a brief that passed has stages, and workers and retries at them. *)
Governed ==
    /\ \A w \in Workers : ~At(w, "idle") => briefs[Run(w)] = "pass"
    /\ \A o \in Operators : Asking(o, "retrying") => briefs[operators[o].run] = "pass"
    /\ \A b \in Briefs : briefs[b] # "pass" => stages[b] = NoStages
    /\ \A b \in Briefs : briefs[b] = "reject" => runs[b] = "failed"

(* A step of the runs already open. *)
LEMMA DraftingGoverned ==
    ASSUME Shape, Governed, DraftingStep, UNCHANGED <<briefs, requests>>
    PROVE  Shape' /\ Governed'
  <1>0. /\ runs \in [Briefs -> RunStates] /\ stages \in [Briefs -> [Stages -> StageStates]]
        /\ \A w \in Workers : Run(w) \in Briefs /\ workers[w].stage \in Stages
    BY DEF Shape, Run
  <1>1. /\ DOMAIN Idle = WorkerFields /\ Idle.run \in Briefs
        /\ Idle.stage \in Stages /\ Idle.pc = "idle"
    BY IdleShape, DraftingAssumption DEF Stages
  (* It is enough that a worker comes to a stage of a brief that passed, and that
     no row of another brief is written. *)
  <1>2. ASSUME NEW w \in Workers, NEW c \in Briefs, briefs[c] = "pass",
               DOMAIN workers' = Workers,
               \A v \in Workers : v # w => workers'[v] = workers[v],
               DOMAIN workers'[w] = WorkerFields, workers'[w].stage \in Stages,
               workers'[w].run \in Briefs,
               workers'[w].pc # "idle" => workers'[w].run = c,
               runs' \in [Briefs -> RunStates], stages' \in [Briefs -> [Stages -> StageStates]],
               \A b \in Briefs \ {c} : runs'[b] = runs[b] /\ stages'[b] = stages[b],
               UNCHANGED operators
        PROVE  Shape' /\ Governed'
    <2>1. Shape'
      BY <1>2 DEF Shape
    <2>2. \A v \in Workers : ~At(v, "idle")' => briefs'[Run(v)'] = "pass"
      BY <1>2 DEF Governed, At, Run
    <2>3. QED
      BY <1>2, <2>1, <2>2 DEF Governed, Asking
  <1>3. ASSUME NEW w \in Workers, NEW b \in Briefs, NEW s \in Stages, Claim(w, b, s)
        PROVE  Shape' /\ Governed'
    <2>1. briefs[b] = "pass"
      BY <1>3 DEF Claim, Governed, NoStages
    <2>2. Enforced(b) \in RunStates
      BY <1>0 DEF Enforced, RunStates
    <2>3. /\ runs' \in [Briefs -> RunStates]
          /\ \A c \in Briefs \ {b} : runs'[c] = runs[c]
      BY <1>0, <1>3, <2>2 DEF Claim
    <2>4. /\ stages' \in [Briefs -> [Stages -> StageStates]]
          /\ \A c \in Briefs \ {b} : stages'[c] = stages[c]
      BY <1>0, <1>3 DEF Claim, StageStates
    <2>5. /\ DOMAIN Start(b, s) = WorkerFields
          /\ Start(b, s).run = b /\ Start(b, s).stage = s
      BY <1>1 DEF Start, Idle, WorkerFields
    <2>6. CASE UNCHANGED workers
      <3>1. UNCHANGED operators
        BY <1>3 DEF Claim
      <3>2. Shape'
        BY <2>3, <2>4, <2>6, <3>1 DEF Shape
      <3>3. QED
        BY <2>1, <2>3, <2>4, <2>6, <3>1, <3>2 DEF Governed, At, Run, Asking
    <2>7. CASE workers' = [workers EXCEPT ![w] = Start(b, s)]
      <3>1. /\ DOMAIN workers' = Workers /\ workers'[w] = Start(b, s)
            /\ \A v \in Workers : v # w => workers'[v] = workers[v]
        BY <2>7 DEF Shape
      <3>2. UNCHANGED operators
        BY <1>3 DEF Claim
      <3>3. QED
        BY <1>2, <2>1, <2>3, <2>4, <2>5, <3>1, <3>2
    <2>8. QED
      BY <1>3, <2>6, <2>7 DEF Claim
  <1>4. ASSUME NEW w \in Workers, Work(w)
        PROVE  Shape' /\ Governed'
    <2>1. briefs[Run(w)] = "pass"
      BY <1>4, WorkKeepsStage DEF Governed
    <2>2. QED
      BY <1>0, <1>1, <1>2, <1>4, <2>1, WorkKeepsStage, WorkKeepsRuns
  <1>5. ASSUME NEW w \in Workers, WorkerDies(w)
        PROVE  Shape' /\ Governed'
    <2>1. briefs[Run(w)] = "pass"
      BY <1>5 DEF WorkerDies, Governed
    <2>2. /\ DOMAIN workers' = Workers /\ workers'[w] = Idle
          /\ \A v \in Workers : v # w => workers'[v] = workers[v]
      BY <1>5 DEF WorkerDies, Shape
    <2>3. /\ stages' \in [Briefs -> [Stages -> StageStates]]
          /\ \A b \in Briefs \ {Run(w)} : stages'[b] = stages[b]
      <3>1. "pending" \in StageStates
        BY DEF StageStates
      <3>2. CASE UNCHANGED stages
        BY <1>0, <3>2
      <3>3. CASE stages' = [stages EXCEPT ![Run(w)][workers[w].stage] = "pending"]
        BY <1>0, <3>1, <3>3
      <3>4. QED
        BY <1>5, <3>2, <3>3 DEF WorkerDies
    <2>4. runs' = runs /\ operators' = operators
      BY <1>5 DEF WorkerDies
    <2>5. QED
      BY <1>0, <1>1, <1>2, <2>1, <2>2, <2>3, <2>4
  <1>6. ASSUME NEW o \in Operators, NEW b \in Briefs, NEW s \in Stages, RetryRead(o, b, s)
        PROVE  Shape' /\ Governed'
    <2>1. briefs[b] = "pass"
      BY <1>6 DEF RetryRead, Governed, NoStages
    <2>2. /\ UNCHANGED <<runs, stages, workers, briefs, requests>>
          /\ operators' = [operators EXCEPT
                ![o] = [pc |-> "retrying", run |-> b, stage |-> s, status |-> runs[b]]]
      BY <1>6 DEF RetryRead
    <2>3. Shape'
      BY <1>6, <2>2, RetryShape DEF Shape
    <2>4. \A p \in Operators : operators'[p].pc = "retrying" => briefs[operators'[p].run] = "pass"
      BY <2>1, <2>2 DEF Shape, Governed, Asking
    <2>5. QED
      BY <2>2, <2>3, <2>4 DEF Governed, At, Run, Asking
  <1>7. ASSUME NEW o \in Operators, Retry(o)
        PROVE  Shape' /\ Governed'
    <2>1. briefs[operators[o].run] = "pass"
      BY <1>7 DEF Retry, Governed
    <2>2. /\ UNCHANGED <<workers, briefs, requests>>
          /\ operators' = [operators EXCEPT ![o] = NoRetry]
      BY <1>7 DEF Retry
    <2>3. Shape'
      BY <1>7, <2>2, RetryShape DEF Shape
    <2>4. \A p \in Operators : operators'[p].pc = "retrying" => briefs[operators'[p].run] = "pass"
      BY <2>2 DEF Shape, Governed, Asking, NoRetry
    <2>5. \A c \in Briefs \ {operators[o].run} : runs'[c] = runs[c] /\ stages'[c] = stages[c]
      BY <1>0, <1>7 DEF Retry
    <2>6. QED
      BY <2>1, <2>2, <2>3, <2>4, <2>5 DEF Governed, At, Run, Asking
  <1>8. QED
    BY <1>3, <1>4, <1>5, <1>6, <1>7 DEF DraftingStep

(* A step of a request. *)
LEMMA RequestGoverned ==
    ASSUME Shape, Governed, NEW r \in Requests, Serve(r) \/ \E b \in Briefs : Submit(r, b)
    PROVE  Shape' /\ Governed'
  <1>0. /\ runs \in [Briefs -> RunStates] /\ stages \in [Briefs -> [Stages -> StageStates]]
        /\ briefs \in [Briefs -> Decisions \cup {"none"}]
        /\ \A w \in Workers : Run(w) \in Briefs
        /\ Brief(r) \in Briefs /\ NoRequest \in [pc : {"idle", "screening"}, brief : Briefs]
    BY IdleShape, DraftingAssumption DEF Shape, Run, Brief, NoRequest
  <1>1. ASSUME NEW b \in Briefs, Submit(r, b)
        PROVE  Shape' /\ Governed'
    <2>1. requests' \in [Requests -> [pc : {"idle", "screening"}, brief : Briefs]]
      BY <1>1 DEF Submit, Shape
    <2>2. UNCHANGED <<runs, stages, workers, operators, briefs>>
      BY <1>1 DEF Submit, draftingVars, books
    <2>3. QED
      BY <2>1, <2>2 DEF Shape, Governed, At, Run, Asking
  <1>2. CASE ScreenRaises(r)
    <2>1. requests' \in [Requests -> [pc : {"idle", "screening"}, brief : Briefs]]
      BY <1>0, <1>2 DEF ScreenRaises, Answered, Shape
    <2>2. UNCHANGED <<runs, stages, workers, operators, briefs>>
      BY <1>2 DEF ScreenRaises, draftingVars, books
    <2>3. QED
      BY <2>1, <2>2 DEF Shape, Governed, At, Run, Asking
  <1>3. CASE Screened(r)
    <2> DEFINE c == Brief(r)
    <2>1. requests' \in [Requests -> [pc : {"idle", "screening"}, brief : Briefs]]
      BY <1>0, <1>3 DEF Screened, Answered, Shape
    <2>2. UNCHANGED <<workers, operators>>
      BY <1>3 DEF Screened
    <2>3. CASE ~Free(c)
      <3>1. UNCHANGED <<runs, stages, briefs>>
        BY <1>3, <2>3 DEF Screened
      <3>2. QED
        BY <2>1, <2>2, <3>1 DEF Shape, Governed, At, Run, Asking
    <2>4. CASE Free(c)
      <3>1. PICK decision \in Decisions :
              /\ briefs' = [briefs EXCEPT ![c] = decision]
              /\ runs' = [runs EXCEPT ![c] = IF decision = "pass" THEN "running" ELSE "failed"]
              /\ stages' = IF decision = "reject" THEN stages
                           ELSE [stages EXCEPT ![c] = [s \in Stages |->
                                    IF s \in StagesOf[c] THEN "pending" ELSE "absent"]]
        BY <1>3, <2>4 DEF Screened
      <3>2. briefs[c] = "none" /\ stages[c] = NoStages
        BY <1>0, <2>4 DEF Free, Governed
      <3>3. /\ briefs' \in [Briefs -> Decisions \cup {"none"}] /\ briefs'[c] = decision
            /\ \A b \in Briefs \ {c} : briefs'[b] = briefs[b]
        BY <1>0, <3>1
      <3>4. /\ runs' \in [Briefs -> RunStates]
            /\ decision = "reject" => runs'[c] = "failed"
            /\ \A b \in Briefs \ {c} : runs'[b] = runs[b]
        BY <1>0, <3>1 DEF RunStates, Decisions
      <3>5. /\ stages' \in [Briefs -> [Stages -> StageStates]]
            /\ decision = "reject" => stages'[c] = NoStages
            /\ \A b \in Briefs \ {c} : stages'[b] = stages[b]
        <4>1. [s \in Stages |-> IF s \in StagesOf[c] THEN "pending" ELSE "absent"]
                \in [Stages -> StageStates]
          BY DEF StageStates
        <4>2. CASE decision = "reject"
          BY <1>0, <3>1, <3>2, <4>2
        <4>3. CASE decision # "reject"
          BY <1>0, <3>1, <4>1, <4>3
        <4>4. QED
          BY <4>2, <4>3
      <3>6. \A w \in Workers : ~At(w, "idle") => Run(w) # c
        BY <3>2 DEF Governed
      <3>7. Shape'
        BY <2>1, <2>2, <3>3, <3>4, <3>5 DEF Shape
      <3>8. \A w \in Workers : ~At(w, "idle")' => briefs'[Run(w)'] = "pass"
        BY <1>0, <2>2, <3>3, <3>6 DEF Governed, At, Run
      <3>9. \A o \in Operators : Asking(o, "retrying")' => briefs'[operators'[o].run] = "pass"
        BY <1>0, <2>2, <3>2, <3>3 DEF Governed, Asking, Shape
      <3>10. QED
        BY <3>3, <3>4, <3>5, <3>7, <3>8, <3>9 DEF Governed, Decisions
    <2>5. QED
      BY <2>3, <2>4
  <1>4. QED
    BY <1>1, <1>2, <1>3 DEF Serve

LEMMA GovernedInvariant == Spec => [](Shape /\ Governed)
  <1>1. Init => Shape /\ Governed
    <2> SUFFICES ASSUME Init PROVE Shape /\ Governed
      OBVIOUS
    <2>1. Shape
      BY IdleShape, DraftingAssumption
      DEF Init, DraftingInit, Shape, RunStates, StageStates, Decisions, NoRequest, NoRetry, Stages
    <2>2. Governed
      BY IdleShape, DraftingAssumption
      DEF Init, DraftingInit, Governed, NoStages, At, Asking, NoRetry
    <2>3. QED
      BY <2>1, <2>2
  <1>2. Shape /\ Governed /\ [Next]_vars => (Shape /\ Governed)'
    <2> SUFFICES ASSUME Shape, Governed, [Next]_vars PROVE (Shape /\ Governed)'
      OBVIOUS
    <2>1. CASE UNCHANGED vars
      BY <2>1 DEF vars, draftingVars, books, Shape, Governed, At, Run, Asking
    <2>2. CASE DraftingNext /\ UNCHANGED <<briefs, requests>>
      BY <2>2, DraftingGoverned DEF DraftingNext
    <2>3. CASE \E r \in Requests : Serve(r) \/ \E b \in Briefs : Submit(r, b)
      BY <2>3, RequestGoverned
    <2>4. QED
      BY <2>1, <2>2, <2>3 DEF Next
  <1>3. QED
    BY <1>1, <1>2, PTL DEF Spec

(* However many requests submit a brief at once, and whatever each is told of it, a
   brief that reads rejected has a closed run, and no stage of it is ever queued. *)
THEOREM RejectionSticks == Spec => []RejectedStaysShut
  <1>1. Shape /\ Governed => RejectedStaysShut
    BY DEF Governed, RejectedStaysShut, NoStages
  <1>2. QED
    BY GovernedInvariant, <1>1, PTL

-----------------------------------------------------------------------------
(* What is stored as clean passed both checks itself. *)

(* A draft that goes to review has just had its numerals checked, one that is to be
   written has just been sent there by a check, and a page that was stored is the
   page that was judged; and the site stage writes no copy. *)
Honest(worker) ==
    /\ worker.round \in 0 .. MaxRevisions
    /\ worker.wrote # "none" => worker.pc \in {"stored", "requesting", "rollup"}
    /\ worker.stage # "site" =>
         /\ worker.pc \in {"idle", "draft", "check", "review", "write", "stored", "rollup"}
         /\ worker.pc = "review" => worker.checked = worker.round
         /\ worker.pc = "write" /\ ~worker.violations
              => worker.checked = worker.round /\ worker.reviewed = worker.round
         /\ worker.pc = "write" /\ worker.violations => worker.round = MaxRevisions
         /\ worker.wrote = "clean"
              => worker.checked = worker.round /\ worker.reviewed = worker.round
         /\ worker.wrote = "flagged" => worker.round = MaxRevisions
    /\ worker.stage = "site" =>
         /\ worker.left = 0
         /\ worker.pc \in {"build", "page", "critique", "revise", "write", "stored",
                          "requesting", "rollup"}
         /\ worker.wrote = "clean" => worker.page.grounded

LEMMA IdleHonest == Honest(Idle)
  BY DraftingAssumption DEF Honest, Idle

LEMMA StartHonest ==
    ASSUME NEW b \in Briefs, NEW s \in Stages PROVE Honest(Start(b, s))
  <1>1. /\ Start(b, s).round = 0 /\ Start(b, s).wrote = "none" /\ Start(b, s).stage = s
        /\ s = "site" => Start(b, s).left = 0
        /\ Start(b, s).pc = IF s = "site" THEN "build" ELSE "draft"
    BY DEF Start, Idle
  <1>2. QED
    BY <1>1, DraftingAssumption DEF Honest

LEMMA WorkHonest ==
    ASSUME Shape, NEW w \in Workers, Honest(workers[w]), Work(w)
    PROVE  Honest(workers'[w])
  <1> DEFINE old == workers[w]
             new == workers'[w]
             Keeping(fields) == \A f \in WorkerFields \ {"own", "attempt"} :
                                  new[f] = IF f \in DOMAIN fields THEN fields[f] ELSE old[f]
  <1>1. ASSUME NEW fields, Becomes(w, fields) PROVE Keeping(fields)
    BY <1>1, NextFields
  <1>2. ASSUME NEW fields, Returned(w, fields) PROVE Keeping(fields)
    BY <1>2, NextFields
  <1>3. ASSUME workers' = [workers EXCEPT ![w] = Idle] PROVE Honest(new)
    BY <1>3, IdleHonest DEF Shape
  (* A worker that only comes to another step of the same stage. *)
  <1>4. ASSUME NEW fields, Becomes(w, fields), "pc" \in DOMAIN fields,
               DOMAIN fields \subseteq {"pc", "own"},
               old.wrote # "none" => fields["pc"] \in {"requesting", "rollup"},
               old.stage # "site" => fields["pc"] = "rollup",
               fields["pc"] \in {"revise", "write", "requesting", "rollup"}
        PROVE  Honest(new)
    <2>1. Keeping(fields)
      BY <1>1, <1>4
    <2>2. /\ new.pc = fields["pc"]
          /\ \A f \in WorkerFields \ {"own", "attempt", "pc"} : new[f] = old[f]
      BY <1>4, <2>1 DEF WorkerFields
    <2>3. QED
      BY <1>4, <2>2 DEF Honest, WorkerFields
  <1>5. CASE Transient(w)
    <2>1. Keeping([attempt |-> old.attempt + 1])
      BY <1>1, <1>5 DEF Transient
    <2>2. \A f \in WorkerFields \ {"own", "attempt"} : new[f] = old[f]
      BY <2>1
    <2>3. QED
      BY <2>2 DEF Honest, WorkerFields
  <1>6. CASE CallRaises(w)
    <2>1. CASE Fails(w)
      BY <1>3, <2>1 DEF Fails
    <2>2. CASE old.pc \in {"critique", "revise"}
      <3>1. old.stage = "site" /\ old.wrote = "none"
        BY <2>2 DEF Honest
      <3>2. \E pc \in {"revise", "write"} : Becomes(w, [pc |-> pc])
        BY <1>6, <2>2 DEF CallRaises, At, Goes
      <3>3. PICK pc \in {"revise", "write"} : Goes(w, pc)
        BY <3>2 DEF Goes
      <3>4. QED
        BY <1>4, <3>1, <3>3 DEF Goes
    <2>3. QED
      BY <1>6, <2>1, <2>2 DEF CallRaises, At
  <1>7. CASE Drafted(w)
    <2>1. Keeping([pc |-> "check"]) /\ old.pc = "draft"
      BY <1>2, <1>7 DEF Drafted, At
    <2>2. new.pc = "check" /\ \A f \in WorkerFields \ {"own", "attempt", "pc"} : new[f] = old[f]
      BY <2>1 DEF WorkerFields
    <2>3. QED
      BY <2>1, <2>2 DEF Honest, WorkerFields
  (* A draft that is sent back. *)
  <1>8. ASSUME Keeping(NextRound(w)), old.pc \in {"check", "review"}
        PROVE  Honest(new)
    <2>1. CASE old.round < MaxRevisions
      <3>1. /\ new.pc = "draft" /\ new.round = old.round + 1
            /\ \A f \in {"stage", "wrote", "page", "left"} : new[f] = old[f]
        BY <1>8, <2>1 DEF NextRound, WorkerFields
      <3>2. QED
        BY <1>8, <2>1, <3>1, DraftingAssumption DEF Honest
    <2>2. CASE ~(old.round < MaxRevisions)
      <3>1. /\ new.pc = "write" /\ new.violations
            /\ \A f \in {"stage", "wrote", "page", "round", "left"} : new[f] = old[f]
        BY <1>8, <2>2 DEF NextRound, WorkerFields
      <3>2. old.round = MaxRevisions
        BY <2>2, DraftingAssumption DEF Honest
      <3>3. QED
        BY <1>8, <3>1, <3>2 DEF Honest
    <2>3. QED
      BY <2>1, <2>2
  <1>9. CASE CheckNumerals(w)
    <2>1. old.pc = "check"
      BY <1>9 DEF CheckNumerals, At
    <2>2. CASE Becomes(w, NextRound(w))
      BY <1>1, <1>8, <2>1, <2>2
    <2>3. CASE Becomes(w, [violations |-> FALSE, checked |-> old.round, pc |-> "review"])
      <3>1. /\ new.pc = "review" /\ new.checked = old.round
            /\ \A f \in {"stage", "wrote", "page", "round", "left"} : new[f] = old[f]
        BY <1>1, <2>3 DEF WorkerFields
      <3>2. QED
        BY <2>1, <3>1 DEF Honest
    <2>4. QED
      BY <1>9, <2>2, <2>3 DEF CheckNumerals
  <1>10. CASE Reviewed(w)
    <2>1. old.pc = "review"
      BY <1>10 DEF Reviewed, At
    <2>2. CASE Returned(w, NextRound(w))
      BY <1>2, <1>8, <2>1, <2>2
    <2>3. CASE Returned(w, [violations |-> FALSE, reviewed |-> old.round, pc |-> "write"])
      <3>1. /\ new.pc = "write" /\ new.reviewed = old.round /\ ~new.violations
            /\ \A f \in {"stage", "wrote", "page", "round", "checked", "left"} : new[f] = old[f]
        BY <1>2, <2>3 DEF WorkerFields
      <3>2. QED
        BY <2>1, <3>1 DEF Honest
    <2>4. QED
      BY <1>10, <2>2, <2>3 DEF Reviewed
  (* The site's steps, whatever page they leave. *)
  <1>11. ASSUME NEW fields, Keeping(fields), old.pc \in {"build", "page", "critique", "revise"},
                DOMAIN fields \subseteq {"pc", "page"}, "pc" \in DOMAIN fields,
                fields["pc"] \in {"page", "write", "revise", "critique"}
         PROVE  Honest(new)
    <2>1. /\ new.pc \in {"page", "write", "revise", "critique"}
          /\ \A f \in {"stage", "wrote", "round", "left"} : new[f] = old[f]
      BY <1>11 DEF WorkerFields
    <2>2. QED
      BY <1>11, <2>1 DEF Honest
  <1>12. CASE Built(w)
    BY <1>1, <1>2, <1>11, <1>12 DEF Built, At
  <1>13. CASE PageChecked(w)
    <2>1. Fails(w) => Honest(new)
      BY <1>3 DEF Fails
    <2>2. ASSUME NEW pc \in {"write", "critique", "revise"}, Goes(w, pc) PROVE Honest(new)
      <3>1. Keeping([pc |-> pc]) /\ old.pc = "page"
        BY <1>1, <1>13, <2>2 DEF Goes, PageChecked, At
      <3>2. QED
        BY <1>11, <3>1
    <2>3. QED
      BY <1>13, <2>1, <2>2 DEF PageChecked
  <1>14. CASE Criticised(w)
    BY <1>2, <1>11, <1>14 DEF Criticised, At
  <1>15. CASE Revised(w)
    BY <1>1, <1>2, <1>11, <1>15 DEF Revised, At
  <1>16. CASE Write(w)
    <2>1. /\ new.wrote = Status(old) /\ new.pc = "stored" /\ old.pc = "write"
          /\ \A f \in {"stage", "page", "round", "checked", "reviewed", "left"} : new[f] = old[f]
      BY <1>1, <1>16 DEF Write, At, WorkerFields
    <2>2. CASE old.stage = "site"
      BY <2>1, <2>2 DEF Honest, Status
    <2>3. CASE old.stage # "site"
      BY <2>1, <2>3 DEF Honest, Status
    <2>4. QED
      BY <2>2, <2>3
  <1>17. CASE NextDeliverable(w)
    <2>1. /\ new.wrote = "none" /\ new.pc = "draft" /\ new.round = 0
          /\ new.stage = old.stage /\ old.left > 0
      BY <1>1, <1>17 DEF NextDeliverable, WorkerFields
    <2>2. old.stage # "site"
      BY <2>1 DEF Honest
    <2>3. QED
      BY <2>1, <2>2, DraftingAssumption DEF Honest
  <1>18. CASE Commit(w) \/ CommitPage(w) \/ Request(w)
    <2>1. CASE Commit(w)
      BY <1>4, <2>1 DEF Commit, Commits
    <2>2. CASE CommitPage(w)
      BY <1>4, <2>2 DEF CommitPage, Commits
    <2>3. CASE Request(w)
      BY <1>3, <1>4, <2>3 DEF Request, Fails, Goes
    <2>4. QED
      BY <1>18, <2>1, <2>2, <2>3
  <1>19. CASE RollUp(w)
    BY <1>3, <1>19 DEF RollUp
  <1>20. QED
    BY <1>5, <1>6, <1>7, <1>9, <1>10, <1>12, <1>13, <1>14, <1>15, <1>16, <1>17, <1>18, <1>19
    DEF Work

LEMMA HonestInvariant == Spec => [](\A w \in Workers : Honest(workers[w]))
  <1> DEFINE AllHonest == \A w \in Workers : Honest(workers[w])
  <1>1. Init => AllHonest
    BY IdleHonest DEF Init, DraftingInit
  <1>2. Shape /\ AllHonest /\ [Next]_vars => AllHonest'
    <2> SUFFICES ASSUME Shape, AllHonest, [Next]_vars PROVE AllHonest'
      OBVIOUS
    <2>1. CASE UNCHANGED workers
      BY <2>1
    <2>2. ASSUME NEW w \in Workers, workers'[w] = workers[w] \/ Honest(workers'[w]),
                 \A v \in Workers : v # w => workers'[v] = workers[v]
          PROVE  AllHonest'
      BY <2>2
    <2> HIDE DEF AllHonest
    <2>3. ASSUME NEW w \in Workers, NEW b \in Briefs, NEW s \in Stages, Claim(w, b, s)
          PROVE  AllHonest'
      <3>1. CASE workers' = [workers EXCEPT ![w] = Start(b, s)]
        BY <2>2, <3>1, StartHonest DEF Shape
      <3>2. QED
        BY <2>1, <2>3, <3>1 DEF Claim
    <2>4. ASSUME NEW w \in Workers, Work(w) PROVE AllHonest'
      BY <2>2, <2>4, WorkKeepsStage, WorkHonest DEF AllHonest
    <2>5. ASSUME NEW w \in Workers, WorkerDies(w) PROVE AllHonest'
      BY <2>2, <2>5, IdleHonest DEF WorkerDies, Shape
    <2>6. ASSUME NEW o \in Operators,
                 Retry(o) \/ \E b \in Briefs, s \in Stages : RetryRead(o, b, s)
          PROVE  UNCHANGED workers
      BY <2>6 DEF Retry, RetryRead
    <2>7. ASSUME NEW r \in Requests, Serve(r) \/ \E b \in Briefs : Submit(r, b)
          PROVE  UNCHANGED workers
      BY <2>7 DEF Serve, Screened, ScreenRaises, Submit, draftingVars
    <2>8. UNCHANGED vars => UNCHANGED workers
      BY DEF vars, draftingVars
    <2>9. QED
      BY <2>1, <2>3, <2>4, <2>5, <2>6, <2>7, <2>8 DEF Next, DraftingNext, DraftingStep
  <1>3. Spec => []Shape
    BY GovernedInvariant, PTL
  <1>4. QED
    BY <1>1, <1>2, <1>3, PTL DEF Spec

(* What produce() stores as clean is a draft whose own numerals passed and which the
   Reviewer then passed, whatever was drafted before it, and what it stores as
   flagged is the last draft it had; a clean page is grounded itself. *)
THEOREM CleanIsChecked == Spec => []CleanPassedBoth
  <1>1. (\A w \in Workers : Honest(workers[w])) => CleanPassedBoth
    BY DEF Honest, CleanPassedBoth
  <1>2. QED
    BY HonestInvariant, <1>1, PTL

-----------------------------------------------------------------------------
(* The tables and the workers keep their types. *)

(* What each field of a worker may hold. *)
FieldTypes ==
    [pc |-> {"idle", "check", "page", "write", "stored", "requesting", "rollup"} \cup Calls,
     run |-> Briefs, stage |-> Stages, left |-> 0 .. 2, round |-> 0 .. MaxRevisions,
     attempt |-> 1 .. Attempts, own |-> Nat, wrote |-> {"none", "clean", "flagged"},
     violations |-> BOOLEAN, checked |-> -1 .. MaxRevisions, reviewed |-> -1 .. MaxRevisions,
     page |-> Pages]

(* A worker that goes on is a worker, if what it changes is of the right type. *)
LEMMA AdvancesType ==
    ASSUME workers \in [Workers -> Worker], NEW w \in Workers, NEW fields, NEW calls \in {0, 1},
           Advances(w, fields, calls),
           \A f \in DOMAIN fields : f \in WorkerFields /\ fields[f] \in FieldTypes[f]
    PROVE  workers' \in [Workers -> Worker]
  <1> DEFINE old == workers[w]
             new == [f \in DOMAIN old |->
                        IF f \in DOMAIN fields THEN fields[f]
                        ELSE IF f = "attempt" THEN 1
                        ELSE IF f = "own" THEN old.own + calls
                        ELSE old[f]]
  <1>1. old \in Worker /\ DOMAIN old = WorkerFields
    BY DEF Worker, WorkerFields
  <1>2. new \in Worker
    <2>1. DOMAIN new = WorkerFields
      BY <1>1
    <2>2. new = [f \in WorkerFields |-> new[f]]
      BY <2>1
    <2>3. /\ new.pc \in {"idle", "check", "page", "write", "stored", "requesting", "rollup"} \cup Calls
          /\ new.run \in Briefs /\ new.stage \in Stages /\ new.left \in 0 .. 2
          /\ new.round \in 0 .. MaxRevisions
          /\ new.attempt \in 1 .. Attempts
          /\ new.own \in Nat
      BY <1>1, DraftingAssumption DEF Worker, WorkerFields, FieldTypes
    <2>4. /\ new.wrote \in {"none", "clean", "flagged"}
          /\ new.violations \in BOOLEAN
          /\ new.checked \in -1 .. MaxRevisions /\ new.reviewed \in -1 .. MaxRevisions
          /\ new.page \in Pages
      BY <1>1 DEF Worker, WorkerFields, FieldTypes
    <2> HIDE DEF new
    <2>5. QED
      BY <2>2, <2>3, <2>4 DEF Worker, WorkerFields
  <1>3. workers' = [workers EXCEPT ![w] = new]
    BY DEF Advances
  <1> HIDE DEF new
  <1>4. QED
    BY <1>2, <1>3

LEMMA IdleTyped == Idle \in Worker
  BY IdleShape, DraftingAssumption DEF Idle, Worker, Stages, Calls, NoPage, Pages

LEMMA StartTyped ==
    ASSUME NEW b \in Briefs, NEW s \in Stages PROVE Start(b, s) \in Worker
  <1>1. Start(b, s) = [Idle EXCEPT !.run = b, !.stage = s,
                         !.left = IF s = "demand" THEN 2 ELSE 0,
                         !.pc = IF s = "site" THEN "build" ELSE "draft"]
    BY DEF Start
  <1>2. (IF s = "demand" THEN 2 ELSE 0) \in 0 .. 2
    OBVIOUS
  <1>3. (IF s = "site" THEN "build" ELSE "draft")
          \in {"idle", "check", "page", "write", "stored", "requesting", "rollup"} \cup Calls
    BY DEF Calls
  <1>4. QED
    BY <1>1, <1>2, <1>3, IdleTyped DEF Worker

LEMMA WorkTyped ==
    ASSUME Shape, DraftingTypeOK, NEW w \in Workers, Work(w), astray' \subseteq Briefs
    PROVE  DraftingTypeOK'
  <1>0. /\ workers[w] \in Worker /\ workers \in [Workers -> Worker]
        /\ Run(w) \in Briefs /\ workers[w].own \in Nat
    BY DEF DraftingTypeOK, Worker, Run
  <1> DEFINE Typed(fields) == \A f \in DOMAIN fields :
                                f \in WorkerFields /\ fields[f] \in FieldTypes[f]
             WorkersTyped == workers' \in [Workers -> Worker]
  <1>1. ASSUME NEW fields, Becomes(w, fields) \/ Returned(w, fields), Typed(fields)
        PROVE  WorkersTyped
    BY <1>0, <1>1, AdvancesType DEF Becomes, Returned
  <1>2. ASSUME workers' = [workers EXCEPT ![w] = Idle] PROVE WorkersTyped
    BY <1>0, <1>2, IdleTyped
  <1>3. ASSUME NEW pc \in FieldTypes.pc PROVE Typed([pc |-> pc])
    BY DEF WorkerFields
  <1>4. {"draft", "check", "review", "page", "critique", "revise", "write", "stored",
         "requesting", "rollup"}
          \subseteq FieldTypes.pc
    BY DEF FieldTypes, Calls
  <1>5. Typed(NextRound(w))
    <2>1. CASE workers[w].round < MaxRevisions
      <3>1. workers[w].round + 1 \in FieldTypes.round /\ TRUE \in FieldTypes.violations
        BY <1>0, <2>1, DraftingAssumption DEF FieldTypes, Worker
      <3> DEFINE fields == NextRound(w)
      <3>2. /\ DOMAIN fields = {"violations", "round", "pc"} /\ fields.violations
            /\ fields.round = workers[w].round + 1 /\ fields.pc = "draft"
        BY <2>1 DEF NextRound
      <3> HIDE DEF fields
      <3>3. Typed(fields)
        BY <1>4, <3>1, <3>2 DEF WorkerFields
      <3>4. QED
        BY <3>3 DEF fields
    <2>2. CASE ~(workers[w].round < MaxRevisions)
      <3>1. TRUE \in FieldTypes.violations
        BY DEF FieldTypes
      <3> DEFINE fields == NextRound(w)
      <3>2. DOMAIN fields = {"violations", "pc"} /\ fields.violations /\ fields.pc = "write"
        BY <2>2 DEF NextRound
      <3> HIDE DEF fields
      <3>3. Typed(fields)
        BY <1>4, <3>1, <3>2 DEF WorkerFields
      <3>4. QED
        BY <3>3 DEF fields
    <2>3. QED
      BY <2>1, <2>2
  <1> HIDE DEF WorkersTyped
  <1>6. WorkersTyped
    <2>1. CASE Transient(w)
      <3>1. Typed([attempt |-> workers[w].attempt + 1])
        BY <1>0, <2>1, DraftingAssumption DEF Transient, WorkerFields, FieldTypes, Worker
      <3>2. QED
        BY <1>1, <2>1, <3>1 DEF Transient
    <2>2. CASE CallRaises(w)
      <3>1. Fails(w) => WorkersTyped
        BY <1>2 DEF Fails
      <3>2. ASSUME NEW pc \in {"revise", "write"}, Goes(w, pc) PROVE WorkersTyped
        BY <1>1, <1>3, <1>4, <3>2 DEF Goes
      <3>3. QED
        BY <2>2, <3>1, <3>2 DEF CallRaises
    <2>3. CASE Drafted(w)
      BY <1>1, <1>3, <1>4, <2>3 DEF Drafted
    <2>4. CASE CheckNumerals(w)
      <3> DEFINE fields == [violations |-> FALSE, checked |-> workers[w].round, pc |-> "review"]
      <3>1. Typed(fields)
        <4>1. workers[w].round \in FieldTypes.checked /\ FALSE \in FieldTypes.violations
          BY <1>0, DraftingAssumption DEF FieldTypes, Worker
        <4>2. /\ DOMAIN fields = {"violations", "checked", "pc"} /\ fields.violations = FALSE
              /\ fields.checked = workers[w].round /\ fields.pc = "review"
          OBVIOUS
        <4> HIDE DEF fields
        <4>3. QED
          BY <1>4, <4>1, <4>2 DEF WorkerFields
      <3>2. QED
        BY <1>1, <1>5, <2>4, <3>1 DEF CheckNumerals
    <2>5. CASE Reviewed(w)
      <3> DEFINE fields == [violations |-> FALSE, reviewed |-> workers[w].round, pc |-> "write"]
      <3>1. Typed(fields)
        <4>1. workers[w].round \in FieldTypes.reviewed /\ FALSE \in FieldTypes.violations
          BY <1>0, DraftingAssumption DEF FieldTypes, Worker
        <4>2. /\ DOMAIN fields = {"violations", "reviewed", "pc"} /\ fields.violations = FALSE
              /\ fields.reviewed = workers[w].round /\ fields.pc = "write"
          OBVIOUS
        <4> HIDE DEF fields
        <4>3. QED
          BY <1>4, <4>1, <4>2 DEF WorkerFields
      <3>2. QED
        BY <1>1, <1>5, <2>5, <3>1 DEF Reviewed
    <2>6. CASE Built(w)
      <3>1. ASSUME NEW page \in Pages
            PROVE  Typed([pc |-> "page", page |-> page])
        BY <1>4 DEF WorkerFields, FieldTypes
      <3>2. QED
        BY <1>1, <2>6, <3>1 DEF Built
    <2>7. CASE PageChecked(w)
      <3>1. Fails(w) => WorkersTyped
        BY <1>2 DEF Fails
      <3>2. ASSUME NEW pc \in {"critique", "revise", "write"}, Goes(w, pc) PROVE WorkersTyped
        BY <1>1, <1>3, <1>4, <3>2 DEF Goes
      <3>3. QED
        BY <2>7, <3>1, <3>2 DEF PageChecked
    <2>8. CASE Criticised(w)
      BY <1>1, <1>3, <1>4, <2>8 DEF Criticised
    <2>9. CASE Revised(w)
      <3>1. PICK revised \in Pages :
              \E fields \in {[pc |-> "write", page |-> IF Keeps(workers[w].page, revised)
                                                        THEN revised ELSE workers[w].page]} :
                 Becomes(w, fields) \/ Returned(w, fields)
        BY <2>9 DEF Revised
      <3>2. Typed([pc |-> "write", page |-> IF Keeps(workers[w].page, revised)
                                              THEN revised ELSE workers[w].page])
        BY <1>0, <1>4 DEF WorkerFields, FieldTypes, Worker
      <3>3. QED
        BY <1>1, <3>1, <3>2
    <2>10. CASE Write(w)
      <3>1. Typed([wrote |-> Status(workers[w]), pc |-> "stored"])
        BY <1>4 DEF WorkerFields, FieldTypes, Status
      <3>2. QED
        BY <1>1, <2>10, <3>1 DEF Write
    <2>11. CASE NextDeliverable(w)
      <3> DEFINE fields == [pc |-> "draft", left |-> workers[w].left - 1, wrote |-> "none",
                            round |-> 0, violations |-> FALSE, checked |-> -1, reviewed |-> -1]
      <3>1. Typed(fields)
        <4>1. /\ workers[w].left - 1 \in FieldTypes.left /\ "none" \in FieldTypes.wrote
              /\ 0 \in FieldTypes.round /\ FALSE \in FieldTypes.violations
              /\ -1 \in FieldTypes.checked /\ -1 \in FieldTypes.reviewed
          BY <1>0, <2>11, DraftingAssumption DEF NextDeliverable, FieldTypes, Worker
        <4>2. /\ DOMAIN fields = {"pc", "left", "wrote", "round", "violations", "checked",
                                  "reviewed"}
              /\ fields.pc = "draft" /\ fields.left = workers[w].left - 1
              /\ fields.wrote = "none" /\ fields.round = 0 /\ fields.violations = FALSE
              /\ fields.checked = -1 /\ fields.reviewed = -1
          OBVIOUS
        <4> HIDE DEF fields
        <4>3. QED
          BY <1>4, <4>1, <4>2 DEF WorkerFields
      <3>2. QED
        BY <1>1, <2>11, <3>1 DEF NextDeliverable
    <2>12. CASE Commit(w) \/ CommitPage(w) \/ Request(w)
      <3>1. ASSUME NEW pc \in {"requesting", "rollup"} PROVE Typed([pc |-> pc, own |-> 0])
        BY <1>4 DEF WorkerFields, FieldTypes
      <3>2. Request(w) => WorkersTyped
        BY <1>1, <1>2, <1>3, <1>4 DEF Request, Fails, Goes
      <3>3. QED
        BY <1>1, <2>12, <3>1, <3>2 DEF Commit, CommitPage, Commits
    <2>13. CASE RollUp(w)
      BY <1>2, <2>13 DEF RollUp
    <2>14. QED
      BY <2>1, <2>2, <2>3, <2>4, <2>5, <2>6, <2>7, <2>8, <2>9, <2>10, <2>11, <2>12, <2>13 DEF Work
  <1>7. /\ runs' \in [Briefs -> RunStates] /\ stages' \in [Briefs -> [Stages -> StageStates]]
        /\ ledger' \in [Briefs -> Nat] /\ cached' \subseteq Briefs
        /\ UNCHANGED <<operators, trouble>>
    <2>1. /\ runs' \in [Briefs -> RunStates] /\ stages' \in [Briefs -> [Stages -> StageStates]]
          /\ UNCHANGED <<operators, trouble>>
      BY WorkKeepsRuns
    <2>2. CASE Commit(w) \/ CommitPage(w)
      <3>1. ledger' = [ledger EXCEPT ![Run(w)] = @ + workers[w].own]
        BY <2>2 DEF Commit, CommitPage, Commits
      <3>2. ledger' \in [Briefs -> Nat]
        BY <1>0, <3>1 DEF DraftingTypeOK
      <3>3. QED
        BY <1>0, <2>1, <2>2, <3>2 DEF Commit, CommitPage, DraftingTypeOK
    <2>3. CASE ~(Commit(w) \/ CommitPage(w))
      <3>1. UNCHANGED <<ledger, cached>>
        BY <2>3 DEF Work, Transient, CallRaises, Drafted, CheckNumerals, Reviewed, Built,
           PageChecked, Criticised, Revised, Write, NextDeliverable, Request, RollUp, Fails, books
      <3>2. QED
        BY <2>1, <3>1 DEF DraftingTypeOK
    <2>4. QED
      BY <2>2, <2>3
  <1>8. QED
    BY <1>6, <1>7 DEF WorkersTyped, DraftingTypeOK

LEMMA AstrayTyped ==
    ASSUME astray \subseteq Briefs, [Next]_vars PROVE astray' \subseteq Briefs
  BY DEF Next, DraftingNext, Serve, Screened, ScreenRaises, Submit, vars, draftingVars

LEMMA TypedStep ==
    ASSUME Shape, DraftingTypeOK, [Next]_vars PROVE DraftingTypeOK'
  <1>0. /\ runs \in [Briefs -> RunStates] /\ stages \in [Briefs -> [Stages -> StageStates]]
        /\ ledger \in [Briefs -> Nat] /\ workers \in [Workers -> Worker]
        /\ trouble \in 0 .. MaxTrouble /\ astray' \subseteq Briefs
    BY AstrayTyped DEF DraftingTypeOK
  <1>1. CASE UNCHANGED draftingVars
    BY <1>1 DEF draftingVars, books, DraftingTypeOK
  <1>2. ASSUME NEW w \in Workers, Work(w) PROVE DraftingTypeOK'
    BY <1>0, <1>2, WorkTyped
  <1>3. ASSUME NEW w \in Workers, NEW b \in Briefs, NEW s \in Stages, Claim(w, b, s)
        PROVE  DraftingTypeOK'
    <2>1. Enforced(b) \in RunStates /\ "failed" \in StageStates /\ "running" \in StageStates
      BY <1>0 DEF Enforced, RunStates, StageStates
    <2>2. runs' \in [Briefs -> RunStates]
      BY <1>0, <1>3, <2>1 DEF Claim
    <2>2a. stages' \in [Briefs -> [Stages -> StageStates]]
      <3>1. PICK state \in StageStates : stages' = [stages EXCEPT ![b][s] = state]
        BY <1>3, <2>1 DEF Claim
      <3>2. QED
        BY <1>0, <3>1
    <2>3. workers' \in [Workers -> Worker]
      BY <1>0, <1>3, StartTyped DEF Claim
    <2>4. QED
      BY <1>0, <1>3, <2>2, <2>2a, <2>3 DEF Claim, DraftingTypeOK
  <1>4. ASSUME NEW w \in Workers, WorkerDies(w) PROVE DraftingTypeOK'
    <2>1. stages' \in [Briefs -> [Stages -> StageStates]]
      BY <1>0, <1>4 DEF WorkerDies, StageStates
    <2>2. workers' \in [Workers -> Worker] /\ trouble' \in 0 .. MaxTrouble
      BY <1>0, <1>4, IdleTyped, DraftingAssumption DEF WorkerDies
    <2>3. QED
      BY <1>0, <1>4, <2>1, <2>2 DEF WorkerDies, DraftingTypeOK
  <1>5. ASSUME NEW o \in Operators,
               Retry(o) \/ \E b \in Briefs, s \in Stages : RetryRead(o, b, s)
        PROVE  DraftingTypeOK'
    <2>1. UNCHANGED <<ledger, cached, workers>> /\ trouble' \in 0 .. MaxTrouble
      BY <1>0, <1>5, DraftingAssumption DEF Retry, RetryRead
    <2>2. QED
      BY <1>0, <1>5, <2>1, RetryShape DEF DraftingTypeOK
  <1>6. ASSUME NEW r \in Requests, Screened(r) PROVE DraftingTypeOK'
    <2>1. Brief(r) \in Briefs
      BY DEF Shape, Brief
    <2>2. /\ runs' \in [Briefs -> RunStates]
          /\ ledger' \in [Briefs -> Nat]
      <3>1. ledger' = ledger \/ ledger' = [ledger EXCEPT ![Brief(r)] = @ + 1]
        BY <1>6 DEF Screened
      <3>2. runs' \in [Briefs -> RunStates]
        BY <1>0, <1>6, <2>1 DEF Screened, RunStates
      <3>3. QED
        BY <1>0, <2>1, <3>1, <3>2
    <2>3. stages' \in [Briefs -> [Stages -> StageStates]]
      <3>1. [s \in Stages |-> IF s \in StagesOf[Brief(r)] THEN "pending" ELSE "absent"]
              \in [Stages -> StageStates]
        BY DEF StageStates
      <3>2. QED
        BY <1>0, <1>6, <2>1, <3>1 DEF Screened
    <2>4. QED
      BY <1>0, <1>6, <2>2, <2>3 DEF Screened, DraftingTypeOK
  <1>7. ASSUME NEW r \in Requests, ScreenRaises(r) \/ \E b \in Briefs : Submit(r, b)
        PROVE  UNCHANGED draftingVars
    BY <1>7 DEF ScreenRaises, Submit
  <1>8. QED
    BY <1>1, <1>2, <1>3, <1>4, <1>5, <1>6, <1>7 DEF Next, DraftingNext, DraftingStep, Serve, vars

LEMMA TypedInvariant == Spec => []DraftingTypeOK
  <1>1. Init => DraftingTypeOK
    BY IdleTyped, DraftingAssumption
    DEF Init, DraftingInit, DraftingTypeOK, RunStates, StageStates, Stages, NoRetry, AnyBrief
  <1>2. Shape /\ DraftingTypeOK /\ [Next]_vars => DraftingTypeOK'
    BY TypedStep
  <1>3. Spec => []Shape
    BY GovernedInvariant, PTL
  <1>4. QED
    BY <1>1, <1>2, <1>3, PTL DEF Spec

(* Intake's invariant: the tables and the workers keep their types, through every
   round, attempt and page, and what is stored as clean passed both checks. *)
THEOREM IntakeKeepsInv == Spec => []Inv
  <1>1. Shape /\ DraftingTypeOK => TypeOK
    BY DEF Shape, TypeOK
  <1>2. QED
    BY GovernedInvariant, TypedInvariant, CleanIsChecked, <1>1, PTL DEF Inv

-----------------------------------------------------------------------------
(* No stage goes on for ever. *)

(* What a worker keeps of its way to the end: deliverables, rounds and steps, and
   then the attempts at the step. *)
RoundsLeft(worker) == worker.left * (MaxRevisions + 1) + MaxRevisions - worker.round

LEMMA DistanceSplits ==
    ASSUME NEW worker \in Worker, worker.pc # "idle"
    PROVE  /\ RoundsLeft(worker) \in Nat /\ StepsLeft[worker.pc] \in 0 .. 7
           /\ Distance(worker) = (RoundsLeft(worker) * 8 + StepsLeft[worker.pc]) * Attempts
                                    + (Attempts - worker.attempt)
           /\ Attempts - worker.attempt \in 0 .. Attempts - 1
           /\ Distance(worker) \in Nat
  <1>1. /\ worker.left \in 0 .. 2 /\ worker.round \in 0 .. MaxRevisions
        /\ worker.attempt \in 1 .. Attempts /\ MaxRevisions \in Nat /\ Attempts \in Nat \ {0}
    BY DraftingAssumption DEF Worker
  <1>2. worker.pc \in {"check", "page", "write", "stored", "requesting", "rollup"} \cup Calls
    BY DEF Worker
  <1>3. RoundsLeft(worker) \in Nat
    <2>1. worker.left * (MaxRevisions + 1) \in Nat
      <3>1. worker.left = 0 \/ worker.left = 1 \/ worker.left = 2
        BY <1>1
      <3>2. QED
        BY <1>1, <3>1
    <2>2. QED
      BY <1>1, <2>1 DEF RoundsLeft
  <1>4. StepsLeft[worker.pc] \in 0 .. 7
    BY <1>2 DEF StepsLeft, Calls
  <1> DEFINE r == RoundsLeft(worker)
             s == StepsLeft[worker.pc]
  <1>5. Distance(worker) = r * 8 * Attempts + s * Attempts + Attempts - worker.attempt
    BY DEF Distance, RoundsLeft
  <1>6. r \in Nat /\ s \in Nat
    BY <1>3, <1>4
  <1> HIDE DEF r, s
  <1>7. r * 8 * Attempts + s * Attempts = (r * 8 + s) * Attempts
    BY <1>1, <1>6
  <1>8. (r * 8 + s) * Attempts \in Nat
    BY <1>1, <1>6
  <1>9. Distance(worker) = (r * 8 + s) * Attempts + (Attempts - worker.attempt)
    <2>1. r * 8 * Attempts \in Int /\ s * Attempts \in Int
      BY <1>1, <1>6
    <2>2. QED
      BY <1>1, <1>5, <1>7, <1>8, <2>1
  <1>10. Attempts - worker.attempt \in 0 .. Attempts - 1
    BY <1>1
  <1>11. Distance(worker) \in Nat
    BY <1>1, <1>8, <1>9, <1>10
  <1>12. QED
    BY <1>3, <1>4, <1>9, <1>10, <1>11 DEF r, s

(* A worker is nearer to its end when it has fewer steps left, or as many and one
   attempt less. *)
LEMMA NearerIsLess ==
    ASSUME NEW old \in Worker, NEW new \in Worker, old.pc # "idle", new.pc # "idle",
           \/ RoundsLeft(new) < RoundsLeft(old)
           \/ /\ RoundsLeft(new) = RoundsLeft(old)
              /\ \/ StepsLeft[new.pc] < StepsLeft[old.pc]
                 \/ (StepsLeft[new.pc] = StepsLeft[old.pc] /\ new.attempt > old.attempt)
    PROVE  Distance(new) < Distance(old)
  <1> DEFINE m == RoundsLeft(old) * 8 + StepsLeft[old.pc]
             n == RoundsLeft(new) * 8 + StepsLeft[new.pc]
             a == Attempts - old.attempt
             b == Attempts - new.attempt
  <1>1. /\ m \in Nat /\ n \in Nat /\ a \in 0 .. Attempts - 1 /\ b \in 0 .. Attempts - 1
        /\ Distance(old) = m * Attempts + a /\ Distance(new) = n * Attempts + b
        /\ Attempts \in Nat
    BY DistanceSplits, DraftingAssumption
  <1>2. n < m \/ (n = m /\ b < a)
    <2>1. /\ RoundsLeft(old) \in Nat /\ RoundsLeft(new) \in Nat
          /\ StepsLeft[old.pc] \in 0 .. 7 /\ StepsLeft[new.pc] \in 0 .. 7
      BY DistanceSplits
    <2>2. old.attempt \in Int /\ new.attempt \in Int
      BY DEF Worker
    <2>3. QED
      BY <2>1, <2>2, DraftingAssumption
  <1> HIDE DEF m, n, a, b
  <1>3. CASE n < m
    <2>1. PICK d \in Nat : m = n + 1 + d
      <3>1. m - n - 1 \in Nat /\ m = n + 1 + (m - n - 1)
        BY <1>1, <1>3
      <3>2. QED
        BY <3>1
    <2>2. m * Attempts = n * Attempts + Attempts + d * Attempts
      BY <1>1, <2>1
    <2>3. n * Attempts \in Nat /\ d * Attempts \in Nat /\ m * Attempts \in Nat
      BY <1>1, <2>1
    <2>4. QED
      BY <1>1, <2>2, <2>3
  <1>4. CASE n = m /\ b < a
    <2>1. m * Attempts \in Nat
      BY <1>1
    <2>2. QED
      BY <1>1, <1>4, <2>1
  <1>5. QED
    BY <1>2, <1>3, <1>4

LEMMA StepsAt ==
    /\ StepsLeft["rollup"] = 0 /\ StepsLeft["requesting"] = 1 /\ StepsLeft["stored"] = 2
    /\ StepsLeft["write"] = 3 /\ StepsLeft["review"] = 4 /\ StepsLeft["revise"] = 4
    /\ StepsLeft["check"] = 5 /\ StepsLeft["critique"] = 5
    /\ StepsLeft["draft"] = 6 /\ StepsLeft["page"] = 6 /\ StepsLeft["build"] = 7
  BY DEF StepsLeft, Calls

LEMMA WorkComesNearer ==
    ASSUME Shape, DraftingTypeOK, NEW w \in Workers, Work(w), astray' \subseteq Briefs
    PROVE  Distance(workers'[w]) < Distance(workers[w])
  <1> DEFINE old == workers[w]
             new == workers'[w]
             Keeping(fields) == \A f \in WorkerFields \ {"own", "attempt"} :
                                  new[f] = IF f \in DOMAIN fields THEN fields[f] ELSE old[f]
             Nearer == Distance(new) < Distance(old)
  <1>1. old \in Worker /\ new \in Worker /\ old.pc # "idle" /\ Idle.pc = "idle"
    BY WorkTyped, WorkKeepsStage, IdleShape, DraftingAssumption DEF DraftingTypeOK, At
  <1>2. /\ old.left \in 0 .. 2 /\ old.round \in 0 .. MaxRevisions
        /\ MaxRevisions \in Nat /\ Attempts \in Nat \ {0} /\ old.attempt \in 1 .. Attempts
    BY <1>1, DraftingAssumption DEF Worker
  <1>3. ASSUME NEW fields, Becomes(w, fields) PROVE Keeping(fields)
    BY <1>3, NextFields
  <1>4. ASSUME NEW fields, Returned(w, fields) PROVE Keeping(fields)
    BY <1>4, NextFields
  (* A stage that is dropped. *)
  <1>5. ASSUME workers' = [workers EXCEPT ![w] = Idle] PROVE Nearer
    <2>1. new = Idle
      BY <1>5 DEF Shape
    <2>2. Distance(new) = -1
      BY <1>1, <2>1 DEF Distance
    <2>3. Distance(old) \in Nat
      BY <1>1, DistanceSplits
    <2>4. QED
      BY <2>2, <2>3
  (* A later step of the same round. *)
  <1>6. ASSUME NEW fields, Keeping(fields), "left" \notin DOMAIN fields,
               "round" \notin DOMAIN fields, "pc" \in DOMAIN fields, fields["pc"] # "idle",
               StepsLeft[fields["pc"]] < StepsLeft[old.pc]
        PROVE  Nearer
    <2>1. new.left = old.left /\ new.round = old.round /\ new.pc = fields["pc"]
      BY <1>6 DEF WorkerFields
    <2>2. RoundsLeft(new) = RoundsLeft(old)
      BY <2>1 DEF RoundsLeft
    <2>3. QED
      BY <1>1, <1>6, <2>1, <2>2, NearerIsLess
  <1>7. ASSUME NEW pc, Becomes(w, [pc |-> pc]) \/ Returned(w, [pc |-> pc]), pc # "idle",
               StepsLeft[pc] < StepsLeft[old.pc]
        PROVE  Nearer
    <2>1. Keeping([pc |-> pc])
      BY <1>3, <1>4, <1>7
    <2>2. QED
      BY <1>6, <1>7, <2>1
  (* A draft that is sent back. *)
  <1>8. ASSUME Keeping(NextRound(w)), old.pc \in {"check", "review"} PROVE Nearer
    <2>1. CASE old.round < MaxRevisions
      <3>1. new.left = old.left /\ new.round = old.round + 1 /\ new.pc = "draft"
        BY <1>8, <2>1 DEF NextRound, WorkerFields
      <3>2. RoundsLeft(new) < RoundsLeft(old)
        <4>1. new.left * (MaxRevisions + 1) = old.left * (MaxRevisions + 1)
              /\ old.left * (MaxRevisions + 1) \in Int
          BY <1>2, <3>1
        <4>2. QED
          BY <1>2, <3>1, <4>1 DEF RoundsLeft
      <3>3. QED
        BY <1>1, <3>1, <3>2, NearerIsLess
    <2>2. CASE ~(old.round < MaxRevisions)
      <3>1. NextRound(w) = [violations |-> TRUE, pc |-> "write"]
        BY <2>2 DEF NextRound
      <3>2. QED
        BY <1>6, <1>8, <3>1, StepsAt
    <2>3. QED
      BY <2>1, <2>2
  <1>9. SUFFICES Nearer
    OBVIOUS
  <1> HIDE DEF Nearer
  <1>10. CASE Transient(w)
    <2>1. /\ new.left = old.left /\ new.round = old.round /\ new.pc = old.pc
          /\ new.attempt = old.attempt + 1
      <3>1. Becomes(w, [attempt |-> old.attempt + 1])
        BY <1>10 DEF Transient
      <3>2. \A f \in WorkerFields \ {"own", "attempt"} : new[f] = old[f]
        BY <1>3, <3>1
      <3>3. new.attempt = old.attempt + 1
        BY <3>1 DEF Becomes, Advances, Shape, WorkerFields
      <3>4. QED
        BY <3>2, <3>3 DEF WorkerFields
    <2>2. RoundsLeft(new) = RoundsLeft(old)
      BY <2>1 DEF RoundsLeft
    <2>3. new.attempt > old.attempt
      BY <1>2, <2>1
    <2>4. QED
      BY <1>1, <2>1, <2>2, <2>3, NearerIsLess DEF Nearer
  <1>11. CASE CallRaises(w)
    <2>1. Fails(w) => Nearer
      BY <1>5 DEF Fails
    <2>2. ASSUME At(w, "critique"), NEW pc \in {"revise", "write"}, Goes(w, pc) PROVE Nearer
      BY <1>7, <2>2, StepsAt DEF Goes, At
    <2>3. ASSUME At(w, "revise"), Goes(w, "write") PROVE Nearer
      BY <1>7, <2>3, StepsAt DEF Goes, At
    <2>4. QED
      BY <1>11, <2>1, <2>2, <2>3 DEF CallRaises
  <1>12. CASE Drafted(w)
    BY <1>7, <1>12, StepsAt DEF Drafted, At
  <1>13. CASE CheckNumerals(w)
    <2> DEFINE fields == [violations |-> FALSE, checked |-> old.round, pc |-> "review"]
    <2>1. old.pc = "check"
      BY <1>13 DEF CheckNumerals, At
    <2>2. CASE Becomes(w, NextRound(w))
      BY <1>3, <1>8, <2>1, <2>2
    <2>3. CASE Becomes(w, fields)
      <3>1. Keeping(fields)
        BY <1>3, <2>3
      <3>2. QED
        BY <1>6, <2>1, <3>1, StepsAt
    <2>4. QED
      BY <1>13, <2>2, <2>3 DEF CheckNumerals
  <1>14. CASE Reviewed(w)
    <2> DEFINE fields == [violations |-> FALSE, reviewed |-> old.round, pc |-> "write"]
    <2>1. old.pc = "review"
      BY <1>14 DEF Reviewed, At
    <2>2. CASE Returned(w, NextRound(w))
      BY <1>4, <1>8, <2>1, <2>2
    <2>3. CASE Returned(w, fields)
      <3>1. Keeping(fields)
        BY <1>4, <2>3
      <3>2. QED
        BY <1>6, <2>1, <3>1, StepsAt
    <2>4. QED
      BY <1>14, <2>2, <2>3 DEF Reviewed
  <1>15. CASE Built(w)
    <2>1. PICK page \in Pages :
            \E fields \in {[pc |-> "page", page |-> page]} :
               Becomes(w, fields) \/ Returned(w, fields)
      BY <1>15 DEF Built
    <2> DEFINE fields == [pc |-> "page", page |-> page]
    <2>2. Keeping(fields)
      BY <1>3, <1>4, <2>1
    <2>3. old.pc = "build"
      BY <1>15 DEF Built, At
    <2>4. QED
      BY <1>6, <2>2, <2>3, StepsAt
  <1>16. CASE PageChecked(w)
    <2>1. Fails(w) => Nearer
      BY <1>5 DEF Fails
    <2>2. ASSUME NEW pc \in {"critique", "revise", "write"}, Goes(w, pc) PROVE Nearer
      BY <1>7, <1>16, <2>2, StepsAt DEF Goes, At, PageChecked
    <2>3. QED
      BY <1>16, <2>1, <2>2 DEF PageChecked
  <1>17. CASE Criticised(w)
    <2>1. PICK pc \in {"revise", "write"} : Returned(w, [pc |-> pc])
      BY <1>17 DEF Criticised
    <2>2. old.pc = "critique"
      BY <1>17 DEF Criticised, At
    <2>3. QED
      BY <1>7, <2>1, <2>2, StepsAt
  <1>18. CASE Revised(w)
    <2>1. PICK page :
            \E fields \in {[pc |-> "write", page |-> page]} :
               Becomes(w, fields) \/ Returned(w, fields)
      BY <1>18 DEF Revised
    <2> DEFINE fields == [pc |-> "write", page |-> page]
    <2>2. Keeping(fields)
      BY <1>3, <1>4, <2>1
    <2>3. old.pc = "revise"
      BY <1>18 DEF Revised, At
    <2>4. QED
      BY <1>6, <2>2, <2>3, StepsAt
  <1>19. CASE Write(w)
    <2> DEFINE fields == [wrote |-> Status(old), pc |-> "stored"]
    <2>1. Keeping(fields) /\ old.pc = "write"
      BY <1>3, <1>19 DEF Write, At
    <2>2. QED
      BY <1>6, <2>1, StepsAt
  <1>20. CASE NextDeliverable(w)
    <2>1. new.left = old.left - 1 /\ new.round = 0 /\ new.pc = "draft" /\ old.left > 0
      BY <1>3, <1>20 DEF NextDeliverable, WorkerFields
    <2>2. RoundsLeft(new) < RoundsLeft(old)
      <3>1. old.left = 1 \/ old.left = 2
        BY <1>2, <2>1
      <3>2. QED
        BY <1>2, <2>1, <3>1 DEF RoundsLeft
    <2>3. QED
      BY <1>1, <2>1, <2>2, NearerIsLess DEF Nearer
  <1>21. CASE Commit(w) \/ CommitPage(w) \/ Request(w)
    <2>1. ASSUME NEW pc \in {"requesting", "rollup"}, Commits(w, pc), At(w, "stored")
          PROVE  Nearer
      <3>1. Keeping([pc |-> pc, own |-> 0])
        BY <1>3, <2>1 DEF Commits
      <3>2. QED
        BY <1>6, <2>1, <3>1, StepsAt DEF At
    <2>2. Request(w) => Nearer
      BY <1>5, <1>7, StepsAt DEF Request, Fails, Goes, At
    <2>3. QED
      BY <1>21, <2>1, <2>2 DEF Commit, CommitPage
  <1>22. CASE RollUp(w)
    BY <1>5, <1>22 DEF RollUp
  <1>23. QED
    BY <1>10, <1>11, <1>12, <1>13, <1>14, <1>15, <1>16, <1>17, <1>18, <1>19, <1>20, <1>21, <1>22
    DEF Work

(* Whatever fails, is asked again, is sent back or is read from the cache, every step
   of a worker brings its stage nearer to its end, for any number of revisions and
   attempts: produce() and handle_site() always come to one. *)
THEOREM StagesComeToAnEnd == Spec => StagesRunDown
  <1> DEFINE Down == \A w \in Workers :
                        workers[w].pc # "idle" /\ workers'[w] # workers[w]
                          => Distance(workers'[w]) < Distance(workers[w])
  <1>1. Shape /\ DraftingTypeOK /\ [Next]_vars => [Down]_workers
    <2> SUFFICES ASSUME Shape, DraftingTypeOK, [Next]_vars, workers' # workers PROVE Down
      OBVIOUS
    <2>1. PICK w \in Workers :
            (\E b \in Briefs, s \in Stages : Claim(w, b, s)) \/ Work(w) \/ WorkerDies(w)
      BY DEF Next, DraftingNext, DraftingStep, Retry, RetryRead, Serve, Screened, ScreenRaises, Submit, vars, draftingVars
    <2>2. \A v \in Workers : v # w => workers'[v] = workers[v]
      <3>1. CASE Work(w)
        BY <3>1, WorkKeepsStage
      <3>2. CASE WorkerDies(w) \/ \E b \in Briefs, s \in Stages : Claim(w, b, s)
        BY <3>2 DEF WorkerDies, Claim, Shape
      <3>3. QED
        BY <2>1, <3>1, <3>2
    <2>3. workers[w].pc # "idle" => Distance(workers'[w]) < Distance(workers[w])
      <3>1. CASE Work(w)
        BY <3>1, WorkComesNearer, AstrayTyped DEF DraftingTypeOK
      <3>2. CASE \E b \in Briefs, s \in Stages : Claim(w, b, s)
        BY <3>2 DEF Claim, At
      <3>3. ASSUME WorkerDies(w), workers[w].pc # "idle"
            PROVE  Distance(workers'[w]) < Distance(workers[w])
        <4>1. workers'[w] = Idle
          BY <3>3 DEF WorkerDies, Shape
        <4>2. Distance(workers'[w]) = -1
          BY <4>1, IdleShape, DraftingAssumption DEF Distance
        <4>3. Distance(workers[w]) \in Nat
          BY <3>3, DistanceSplits DEF DraftingTypeOK
        <4>4. QED
          BY <4>2, <4>3
      <3>4. QED
        BY <2>1, <3>1, <3>2, <3>3
    <2>4. QED
      BY <2>2, <2>3
  <1>2. QED
    BY <1>1, GovernedInvariant, TypedInvariant, PTL DEF Spec, StagesRunDown

-----------------------------------------------------------------------------
(* A step moves one worker at most: it starts a stage, drops it, or works on. *)
LEMMA OneWorkerMoves ==
    ASSUME Shape, [Next]_vars
    PROVE  \/ UNCHANGED workers
           \/ \E w \in Workers :
                 /\ \A v \in Workers : v # w => workers'[v] = workers[v]
                 /\ \/ Work(w)
                    \/ workers'[w] = Idle
                    \/ \E b \in Briefs, s \in Stages :
                          Claim(w, b, s) /\ workers'[w] = Start(b, s)
  <1>1. CASE UNCHANGED workers
    BY <1>1
  <1>2. CASE ~UNCHANGED workers
    <2>1. PICK w \in Workers :
            (\E b \in Briefs, s \in Stages : Claim(w, b, s)) \/ Work(w) \/ WorkerDies(w)
      BY <1>2 DEF Next, DraftingNext, DraftingStep, Retry, RetryRead, Serve, Screened, ScreenRaises, Submit, vars,
         draftingVars
    <2>2. CASE Work(w)
      BY <2>2, WorkKeepsStage
    <2>3. CASE WorkerDies(w)
      BY <2>3 DEF WorkerDies, Shape
    <2>4. ASSUME NEW b \in Briefs, NEW s \in Stages, Claim(w, b, s)
          PROVE  /\ \A v \in Workers : v # w => workers'[v] = workers[v]
                 /\ workers'[w] = Start(b, s)
      BY <1>2, <2>4 DEF Claim, Shape
    <2>5. QED
      BY <2>1, <2>2, <2>3, <2>4
  <1>3. QED
    BY <1>1, <1>2

-----------------------------------------------------------------------------
(* Sums.  The folds of the model are recursive functions on the subsets of a set;
   that there is such a function is shown by induction on the size of the subsets,
   as the least size for which there is none. *)
Least(T) == CHOOSE n \in T : \A m \in T : n <= m

LEMMA LeastIsLeast ==
    ASSUME NEW T \in SUBSET Nat, T # {}
    PROVE  Least(T) \in T /\ \A m \in T : Least(T) <= m
  <1>1. PICK n \in T : \A m \in T : ~ (<<m, n>> \in OpToRel(<, Nat))
    BY WFMin, NatLessThanWellFounded
  <1>2. \A m \in T : m < n => <<m, n>> \in OpToRel(<, Nat)
    BY DEF OpToRel
  <1>3. \A m \in T : n <= m
    <2> SUFFICES ASSUME NEW m \in T PROVE n <= m
      OBVIOUS
    <2>1. m \in Nat /\ n \in Nat /\ ~(m < n)
      BY <1>1, <1>2
    <2>2. QED
      BY <2>1
  <1>4. QED
    BY <1>3 DEF Least

AnyOf(T) == CHOOSE x \in T : TRUE

(* g is the sum of f over each of the sets in SS. *)
Sums(g, f, SS) ==
    g = [T \in SS |-> IF T = {} THEN 0 ELSE f[AnyOf(T)] + g[T \ {AnyOf(T)}]]

SubsetsUpTo(S, n) == {T \in SUBSET S : Cardinality(T) <= n}

LEMMA SmallerSubset ==
    ASSUME NEW S, IsFiniteSet(S), NEW T \in SUBSET S, NEW x \in T
    PROVE  /\ IsFiniteSet(T) /\ Cardinality(T) \in Nat \ {0}
           /\ Cardinality(T \ {x}) = Cardinality(T) - 1
  BY FS_Subset, FS_RemoveElement, FS_CardinalityType, FS_EmptySet

LEMMA SumsExist ==
    ASSUME NEW S, IsFiniteSet(S), NEW f
    PROVE  \E g : Sums(g, f, SUBSET S)
  <1> DEFINE Bad == {n \in Nat : ~ \E g : Sums(g, f, SubsetsUpTo(S, n))}
             n == Least(Bad)
  <1>1. ASSUME Bad # {} PROVE FALSE
    <2>1. n \in Bad /\ \A m \in Bad : n <= m
      BY <1>1, LeastIsLeast
    <2> HIDE DEF n
    <2>2. CASE n = 0
      <3>1. \A T \in SubsetsUpTo(S, n) : T = {}
        <4> SUFFICES ASSUME NEW T \in SubsetsUpTo(S, n), NEW x \in T PROVE FALSE
          OBVIOUS
        <4>1. T \in SUBSET S /\ Cardinality(T) <= 0
          BY <2>2 DEF SubsetsUpTo
        <4>2. Cardinality(T) \in Nat \ {0}
          BY <4>1, SmallerSubset
        <4>3. QED
          BY <4>1, <4>2
      <3>2. Sums([T \in SubsetsUpTo(S, n) |-> 0], f, SubsetsUpTo(S, n))
        BY <3>1 DEF Sums
      <3>3. QED
        BY <2>1, <3>2
    <2>3. CASE n # 0
      <3>1. n - 1 \in Nat /\ n - 1 \notin Bad
        BY <2>1, <2>3
      <3>2. PICK h : Sums(h, f, SubsetsUpTo(S, n - 1))
        BY <3>1
      <3> DEFINE g == [T \in SubsetsUpTo(S, n) |->
                          IF T = {} THEN 0 ELSE f[AnyOf(T)] + h[T \ {AnyOf(T)}]]
      <3>3. ASSUME NEW T \in SubsetsUpTo(S, n), T # {}
            PROVE  T \ {AnyOf(T)} \in SubsetsUpTo(S, n - 1)
        <4>1. T \in SUBSET S /\ Cardinality(T) <= n /\ AnyOf(T) \in T
          BY <3>3 DEF SubsetsUpTo, AnyOf
        <4>2. /\ Cardinality(T) \in Nat
              /\ Cardinality(T \ {AnyOf(T)}) = Cardinality(T) - 1
          BY <4>1, SmallerSubset
        <4>3. Cardinality(T \ {AnyOf(T)}) <= n - 1
          BY <2>1, <4>1, <4>2
        <4>4. QED
          BY <4>1, <4>3 DEF SubsetsUpTo
      <3>4. ASSUME NEW T \in SubsetsUpTo(S, n - 1) PROVE T \in SubsetsUpTo(S, n) /\ g[T] = h[T]
        <4>1. T \in SubsetsUpTo(S, n)
          <5>1. Cardinality(T) \in Nat
            BY FS_Subset, FS_CardinalityType DEF SubsetsUpTo
          <5>2. QED
            BY <2>1, <5>1 DEF SubsetsUpTo
        <4>2. h[T] = IF T = {} THEN 0 ELSE f[AnyOf(T)] + h[T \ {AnyOf(T)}]
          BY <3>2 DEF Sums
        <4>3. QED
          BY <4>1, <4>2
      <3>5. \A T \in SubsetsUpTo(S, n) : T # {} => g[T \ {AnyOf(T)}] = h[T \ {AnyOf(T)}]
        BY <3>3, <3>4
      <3>6. Sums(g, f, SubsetsUpTo(S, n))
        BY <3>5 DEF Sums
      <3>7. QED
        BY <2>1, <3>6
    <2>4. QED
      BY <2>2, <2>3
  <1>2. Cardinality(S) \in Nat
    BY FS_CardinalityType
  <1>3. SubsetsUpTo(S, Cardinality(S)) = SUBSET S
    BY FS_Subset DEF SubsetsUpTo
  <1>4. Cardinality(S) \notin Bad
    BY <1>1
  <1>5. QED
    BY <1>2, <1>3, <1>4

(* Induction over the subsets of a finite set, for a set of subsets. *)
LEMMA SubsetInduction ==
    ASSUME NEW S, IsFiniteSet(S), NEW Good,
           \A T \in SUBSET S : (\A x \in T : T \ {x} \in Good) => T \in Good
    PROVE  SUBSET S \subseteq Good
  <1> DEFINE Bad == {T \in SUBSET S : T \notin Good}
             Sizes == {Cardinality(T) : T \in Bad}
  <1>1. ASSUME Bad # {} PROVE FALSE
    <2>1. Sizes \in SUBSET Nat /\ Sizes # {}
      <3>1. \A T \in SUBSET S : Cardinality(T) \in Nat
        BY FS_Subset, FS_CardinalityType
      <3>2. QED
        BY <1>1, <3>1
    <2>2. PICK T \in Bad : \A U \in Bad : Cardinality(T) <= Cardinality(U)
      <3> DEFINE least == Least(Sizes)
      <3>1. least \in Sizes /\ \A m \in Sizes : least <= m
        BY <2>1, LeastIsLeast
      <3> HIDE DEF least
      <3>2. PICK T \in Bad : Cardinality(T) = least
        BY <3>1
      <3>3. \A U \in Bad : Cardinality(U) \in Sizes
        OBVIOUS
      <3>4. QED
        BY <3>1, <3>2, <3>3
    <2>3. ASSUME NEW x \in T PROVE T \ {x} \in Good
      <3>1. T \in SUBSET S /\ T \ {x} \in SUBSET S
        OBVIOUS
      <3>2. Cardinality(T) \in Nat /\ Cardinality(T \ {x}) = Cardinality(T) - 1
        BY <3>1, SmallerSubset
      <3>3. T \ {x} \notin Bad
        BY <2>2, <3>2
      <3>4. QED
        BY <3>1, <3>3
    <2>4. QED
      BY <2>2, <2>3
  <1>2. QED
    BY <1>1

(* What a sum is, as the folds define it. *)
SumOver(f, S) == (CHOOSE g : Sums(g, f, SUBSET S))[S]

LEMMA SpendIsSum == DailySpend = SumOver(ledger, DOMAIN ledger)
  BY DEF DailySpend, FoldFunction, FoldFunctionOnSet, MapThenFoldSet, SumOver, Sums, AnyOf

(* A sum of natural numbers is one, and at least the number of those that are not 0. *)
LEMMA SumCounts ==
    ASSUME NEW S, IsFiniteSet(S), NEW f \in [S -> Nat]
    PROVE  SumOver(f, S) \in Nat /\ Cardinality({x \in S : f[x] # 0}) <= SumOver(f, S)
  <1> DEFINE g == CHOOSE g : Sums(g, f, SUBSET S)
             Count(T) == Cardinality({x \in T : f[x] # 0})
             Good == {T \in SUBSET S : g[T] \in Nat /\ Count(T) <= g[T]}
  <1>1. Sums(g, f, SUBSET S)
    BY SumsExist
  <1> HIDE DEF g
  <1>2. ASSUME NEW T \in SUBSET S, \A x \in T : T \ {x} \in Good PROVE T \in Good
    <2>1. CASE T = {}
      <3>1. g[T] = 0
        BY <1>1, <2>1 DEF Sums
      <3>2. {x \in T : f[x] # 0} = {}
        BY <2>1
      <3>3. Count(T) = 0
        BY <3>2, FS_EmptySet
      <3>4. QED
        BY <3>1, <3>3
    <2>2. CASE T # {}
      <3> DEFINE y == AnyOf(T)
      <3>1. y \in T /\ g[T] = f[y] + g[T \ {y}] /\ f[y] \in Nat
        BY <1>1, <2>2 DEF Sums, AnyOf
      <3> HIDE DEF y
      <3>2. g[T \ {y}] \in Nat /\ Count(T \ {y}) <= g[T \ {y}]
        BY <1>2, <3>1
      <3> DEFINE A == {x \in T : f[x] # 0}
      <3>3. IsFiniteSet(A) /\ Cardinality(A) \in Nat
        BY FS_Subset, FS_CardinalityType
      <3>4. Count(T \ {y}) = Cardinality(A \ {y})
        <4>1. {x \in T \ {y} : f[x] # 0} = A \ {y}
          OBVIOUS
        <4>2. QED
          BY <4>1
      <3>6. Count(T \ {y}) \in Nat
        BY FS_Subset, FS_CardinalityType
      <3> HIDE DEF Count
      <3>5. Cardinality(A) <= f[y] + Count(T \ {y})
        <4>1. CASE f[y] = 0
          <5>1. A \ {y} = A
            BY <4>1
          <5>2. QED
            BY <3>3, <3>4, <4>1, <5>1
        <4>2. CASE f[y] # 0
          <5>1. Cardinality(A \ {y}) = Cardinality(A) - 1
            BY <3>1, <3>3, <4>2, FS_RemoveElement
          <5>2. f[y] >= 1
            BY <3>1, <4>2
          <5>3. QED
            BY <3>1, <3>3, <3>4, <5>1, <5>2
        <4>3. QED
          BY <4>1, <4>2
      <3>7. g[T] \in Nat /\ Count(T) <= g[T]
        BY <3>1, <3>2, <3>3, <3>5, <3>6 DEF Count
      <3>8. QED
        BY <3>7
    <2>3. QED
      BY <2>1, <2>2
  <1>3. SUBSET S \subseteq Good
    <2> HIDE DEF Good
    <2>1. QED
      BY <1>2, SubsetInduction
  <1>4. S \in Good
    BY <1>3
  <1>5. QED
    BY <1>4 DEF SumOver, g

-----------------------------------------------------------------------------
(* The day's ceiling. *)

Inserted == {b \in Briefs : briefs[b] # "none"}
Screening == {r \in Requests : Serving(r, "screening")}

(* Every brief that is there has paid for its screening; and those that are there and
   those still to come are fewer than the ceiling and the requests let in. *)
Paid == \A b \in Inserted : ledger[b] # 0
DoorBound == Cardinality(Inserted) + Cardinality(Screening) < Ceiling + Cardinality(Requests)

LEMMA InsertedFinite ==
    /\ IsFiniteSet(Inserted) /\ Cardinality(Inserted) \in Nat
    /\ IsFiniteSet(Screening) /\ Cardinality(Screening) \in Nat
    /\ Cardinality(Screening) <= Cardinality(Requests)
    /\ Cardinality(Requests) \in Nat \ {0} /\ Ceiling \in Nat
  <1>1. Inserted \in SUBSET Briefs /\ Screening \in SUBSET Requests
    BY DEF Inserted, Screening
  <1>2. IsFiniteSet(Inserted) /\ IsFiniteSet(Screening)
        /\ Cardinality(Screening) <= Cardinality(Requests)
    BY <1>1, FS_Subset, DraftingAssumption, IntakeAssumption
  <1>3. Cardinality(Requests) \in Nat \ {0}
    BY FS_CardinalityType, FS_EmptySet, IntakeAssumption
  <1>4. QED
    BY <1>2, <1>3, FS_CardinalityType, IntakeAssumption

(* Below the ceiling there are fewer briefs than it has calls. *)
LEMMA SpendCounts ==
    ASSUME DraftingTypeOK, Paid, BelowCeiling
    PROVE  Cardinality(Inserted) < Ceiling
  <1>1. ledger \in [Briefs -> Nat] /\ IsFiniteSet(Briefs)
    BY DraftingAssumption DEF DraftingTypeOK
  <1>2. /\ DailySpend \in Nat
        /\ Cardinality({b \in Briefs : ledger[b] # 0}) <= DailySpend
    BY <1>1, SpendIsSum, SumCounts
  <1>3. Inserted \subseteq {b \in Briefs : ledger[b] # 0}
    BY DEF Paid, Inserted
  <1>4. /\ Cardinality(Inserted) <= Cardinality({b \in Briefs : ledger[b] # 0})
        /\ Cardinality({b \in Briefs : ledger[b] # 0}) \in Nat
    <2>1. IsFiniteSet({b \in Briefs : ledger[b] # 0})
      BY <1>1, FS_Subset
    <2>2. QED
      BY <1>3, <2>1, FS_Subset, FS_CardinalityType
  <1>5. DailySpend < Ceiling
    BY DEF BelowCeiling
  <1>6. QED
    BY <1>2, <1>4, <1>5, InsertedFinite

(* What the runs already open do neither inserts a brief nor takes back what is paid. *)
LEMMA LedgerGrows ==
    ASSUME Shape, DraftingTypeOK, DraftingNext
    PROVE  \A b \in Briefs : ledger[b] # 0 => ledger'[b] # 0
  <1>1. ledger \in [Briefs -> Nat] /\ \A w \in Workers : workers[w].own \in Nat
    BY DEF DraftingTypeOK, Worker
  <1>2. ASSUME NEW w \in Workers, Commit(w) \/ CommitPage(w)
        PROVE  \A b \in Briefs : ledger[b] # 0 => ledger'[b] # 0
    <2>1. workers[w].own \in Nat /\ ledger' = [ledger EXCEPT ![Run(w)] = @ + workers[w].own]
      BY <1>1, <1>2 DEF Commit, CommitPage, Commits
    <2>2. QED
      BY <1>1, <2>1
  <1>3. (\E w \in Workers : Commit(w) \/ CommitPage(w)) \/ UNCHANGED ledger
    BY DEF DraftingNext, DraftingStep, Claim, WorkerDies, RetryRead, Retry, Work, Transient, CallRaises, Drafted,
       CheckNumerals, Reviewed, Built, PageChecked, Criticised, Revised, Write,
       NextDeliverable, Request, RollUp, Fails, books
  <1>4. QED
    BY <1>2, <1>3

LEMMA DoorInvariant == Spec => [](Paid /\ DoorBound)
  <1>1. Init => Paid /\ DoorBound
    <2> SUFFICES ASSUME Init PROVE Paid /\ DoorBound
      OBVIOUS
    <2>1. Inserted = {} /\ Screening = {}
      BY DEF Init, Inserted, Screening, Serving, NoRequest
    <2>2. Cardinality(Inserted) = 0 /\ Cardinality(Screening) = 0
      BY <2>1, FS_EmptySet
    <2>3. QED
      BY <2>1, <2>2, InsertedFinite DEF Paid, DoorBound
  <1>2. Shape /\ DraftingTypeOK /\ Paid /\ DoorBound /\ [Next]_vars => (Paid /\ DoorBound)'
    <2> SUFFICES ASSUME Shape, DraftingTypeOK, Paid, DoorBound, [Next]_vars
                 PROVE  (Paid /\ DoorBound)'
      OBVIOUS
    <2>0. requests \in [Requests -> [pc : {"idle", "screening"}, brief : Briefs]]
          /\ ledger \in [Briefs -> Nat]
          /\ briefs \in [Briefs -> Decisions \cup {"none"}]
      BY DEF Shape, DraftingTypeOK
    <2>1. CASE UNCHANGED vars
      BY <2>1 DEF vars, draftingVars, books, Paid, DoorBound, Inserted, Screening, Serving
    <2>2. CASE DraftingNext /\ UNCHANGED <<briefs, requests>>
      <3>1. Inserted' = Inserted /\ Screening' = Screening
        BY <2>2 DEF Inserted, Screening, Serving
      <3>2. Paid'
        BY <2>2, <3>1, LedgerGrows DEF Paid, Inserted
      <3>3. QED
        BY <3>1, <3>2 DEF DoorBound
    (* A request is let in. *)
    <2>3. ASSUME NEW r \in Requests, NEW b \in Briefs, Submit(r, b)
          PROVE  (Paid /\ DoorBound)'
      <3>1. Inserted' = Inserted /\ ledger' = ledger
        BY <2>3 DEF Submit, Inserted, draftingVars, books
      <3>2. Cardinality(Inserted) < Ceiling
        BY <2>3, SpendCounts DEF Submit
      <3>3. Cardinality(Screening') <= Cardinality(Requests) /\ Cardinality(Screening') \in Nat
        <4>1. Screening' \in SUBSET Requests
          BY DEF Screening
        <4>2. QED
          BY <4>1, FS_Subset, FS_CardinalityType, IntakeAssumption
      <3>4. QED
        BY <3>1, <3>2, <3>3, InsertedFinite DEF Paid, DoorBound
    (* A request that was let in is answered. *)
    <2>4. ASSUME NEW r \in Requests, Serve(r) PROVE (Paid /\ DoorBound)'
      <3>1. r \in Screening /\ Screening' = Screening \ {r}
        <4>1. requests' = [requests EXCEPT ![r] = NoRequest] /\ Serving(r, "screening")
          BY <2>4 DEF Serve, ScreenRaises, Screened, Answered
        <4>2. QED
          BY <2>0, <4>1 DEF Screening, Serving, NoRequest
      <3>2. Cardinality(Screening') = Cardinality(Screening) - 1
        BY <3>1, InsertedFinite, FS_RemoveElement
      <3>3. CASE Inserted' = Inserted /\ ledger' = ledger
        BY <3>2, <3>3, InsertedFinite DEF Paid, DoorBound
      <3>4. ASSUME NEW b \in Briefs, NEW decision \in Decisions,
                   briefs' = [briefs EXCEPT ![b] = decision],
                   ledger' = [ledger EXCEPT ![b] = @ + 1]
            PROVE  (Paid /\ DoorBound)'
        <4>1. Inserted' = Inserted \cup {b}
          BY <2>0, <3>4 DEF Inserted, Decisions
        <4>2. Cardinality(Inserted') <= Cardinality(Inserted) + 1 /\ Cardinality(Inserted') \in Nat
          <5>1. /\ IsFiniteSet(Inserted \cup {b})
                /\ \/ Cardinality(Inserted \cup {b}) = Cardinality(Inserted)
                   \/ Cardinality(Inserted \cup {b}) = Cardinality(Inserted) + 1
            BY InsertedFinite, FS_AddElement
          <5>2. QED
            BY <4>1, <5>1, InsertedFinite
        <4>3. Paid'
          BY <2>0, <3>4, <4>1 DEF Paid
        <4>4. QED
          BY <3>2, <4>2, <4>3, InsertedFinite DEF DoorBound
      <3>5. CASE ScreenRaises(r)
        BY <3>3, <3>5 DEF ScreenRaises, Inserted, draftingVars, books
      <3>6. CASE Screened(r)
        <4>1. CASE ~Free(Brief(r))
          BY <3>3, <3>6, <4>1 DEF Screened, Inserted
        <4>2. CASE Free(Brief(r))
          <5>1. Brief(r) \in Briefs
            BY <2>0 DEF Brief
          <5>2. QED
            BY <3>4, <3>6, <4>2, <5>1 DEF Screened
        <4>3. QED
          BY <4>1, <4>2
      <3>7. QED
        BY <2>4, <3>5, <3>6 DEF Serve
    <2>5. QED
      BY <2>1, <2>2, <2>3, <2>4 DEF Next
  <1>3. QED
    BY <1>1, <1>2, GovernedInvariant, TypedInvariant, PTL DEF Spec

(* The ceiling is read before the call that spends against it: however many requests
   read it at once, and whatever the runs already open spend meanwhile, it lets past
   it no more briefs than there are sessions to read it. *)
THEOREM CeilingHolds == Spec => []CeilingBoundsRuns
  <1>1. Paid /\ DoorBound => CeilingBoundsRuns
    BY InsertedFinite DEF DoorBound, Inserted, CeilingBoundsRuns
  <1>2. QED
    BY <1>1, DoorInvariant, PTL

(* A sum depends on neither the set its subsets are taken from, nor what the function is
   elsewhere, *)
LEMMA SumsAgree ==
    ASSUME NEW S, IsFiniteSet(S), NEW e, NEW f, NEW g, NEW h, NEW T \in SUBSET S,
           \A x \in T : e[x] = f[x], Sums(g, e, SUBSET S), Sums(h, f, SUBSET T)
    PROVE  g[T] = h[T]
  <1> DEFINE Good == {U \in SUBSET T : g[U] = h[U]}
  <1>1. ASSUME NEW U \in SUBSET T, \A x \in U : U \ {x} \in Good PROVE U \in Good
    <2>1. /\ g[U] = IF U = {} THEN 0 ELSE e[AnyOf(U)] + g[U \ {AnyOf(U)}]
          /\ h[U] = IF U = {} THEN 0 ELSE f[AnyOf(U)] + h[U \ {AnyOf(U)}]
      BY DEF Sums
    <2>2. U # {} => AnyOf(U) \in U
      BY DEF AnyOf
    <2>3. QED
      BY <1>1, <2>1, <2>2
  <1>2. IsFiniteSet(T)
    BY FS_Subset
  <1> HIDE DEF Good
  <1>3. SUBSET T \subseteq Good
    BY <1>1, <1>2, SubsetInduction
  <1>4. QED
    BY <1>3 DEF Good

(* nor on the order its members are taken in. *)
LEMMA SumRemoves ==
    ASSUME NEW S, IsFiniteSet(S), NEW f \in [S -> Nat], NEW g, Sums(g, f, SUBSET S)
    PROVE  \A T \in SUBSET S : g[T] \in Nat /\ \A y \in T : g[T] = f[y] + g[T \ {y}]
  <1> DEFINE Natural == {T \in SUBSET S : g[T] \in Nat}
             Good == {T \in SUBSET S : \A y \in T : g[T] = f[y] + g[T \ {y}]}
  <1>a. ASSUME NEW T \in SUBSET S, \A x \in T : T \ {x} \in Natural PROVE T \in Natural
    <2>1. g[T] = IF T = {} THEN 0 ELSE f[AnyOf(T)] + g[T \ {AnyOf(T)}]
      BY DEF Sums
    <2>2. T # {} => AnyOf(T) \in T
      BY DEF AnyOf
    <2>3. QED
      BY <1>a, <2>1, <2>2
  <1> HIDE DEF Natural
  <1>b. SUBSET S \subseteq Natural
    BY <1>a, SubsetInduction
  <1>c. \A T \in SUBSET S : g[T] \in Nat
    BY <1>b DEF Natural
  <1>1. ASSUME NEW T \in SUBSET S, \A x \in T : T \ {x} \in Good PROVE T \in Good
    <2>1. CASE T = {}
      BY <2>1
    <2>2. CASE T # {}
      <3> DEFINE x == AnyOf(T)
      <3>1. x \in T /\ g[T] = f[x] + g[T \ {x}] /\ f[x] \in Nat
        BY <2>2 DEF Sums, AnyOf
      <3> HIDE DEF x
      <3>3. ASSUME NEW y \in T, y # x PROVE g[T] = f[y] + g[T \ {y}]
        <4> DEFINE U == (T \ {x}) \ {y}
        <4>1. g[T \ {x}] = f[y] + g[U]
          BY <1>1, <3>1, <3>3
        <4>2. g[T \ {y}] = f[x] + g[U]
          <5>1. (T \ {y}) \ {x} = U
            OBVIOUS
          <5>2. g[T \ {y}] = f[x] + g[(T \ {y}) \ {x}]
            BY <1>1, <3>1, <3>3
          <5>3. QED
            BY <5>1, <5>2
        <4>3. g[U] \in Nat /\ f[y] \in Nat
          BY <1>c
        <4> HIDE DEF U
        <4>4. QED
          BY <3>1, <4>1, <4>2, <4>3
      <3>4. QED
        BY <3>1, <3>3
    <2>3. QED
      BY <2>1, <2>2
  <1> HIDE DEF Good
  <1>2. SUBSET S \subseteq Good
    BY <1>1, SubsetInduction
  <1>3. QED
    BY <1>2, <1>c DEF Good

LEMMA SumAdds ==
    ASSUME NEW S, IsFiniteSet(S), NEW f \in [S -> Nat], NEW T \in SUBSET S
    PROVE  /\ SumOver(f, {}) = 0 /\ SumOver(f, T) \in Nat
           /\ \A y \in S \ T : SumOver(f, T \cup {y}) = f[y] + SumOver(f, T)
  <1> DEFINE g == CHOOSE g : Sums(g, f, SUBSET S)
  <1>1. Sums(g, f, SUBSET S)
    BY SumsExist
  <1> HIDE DEF g
  <1>2. ASSUME NEW U \in SUBSET S PROVE SumOver(f, U) = g[U]
    <2> DEFINE h == CHOOSE h : Sums(h, f, SUBSET U)
    <2>1. Sums(h, f, SUBSET U)
      BY SumsExist, FS_Subset
    <2> HIDE DEF h
    <2>2. g[U] = h[U]
      BY <1>1, <2>1, SumsAgree
    <2>3. QED
      BY <2>2 DEF h, SumOver
  <1>3. \A U \in SUBSET S : g[U] \in Nat /\ \A y \in U : g[U] = f[y] + g[U \ {y}]
    <2>1. f \in [S -> Nat] /\ IsFiniteSet(S)
      OBVIOUS
    <2> HIDE DEF g
    <2>2. QED
      BY ONLY <1>1, <2>1, SumRemoves
  <1>4. g[{}] = 0
    BY <1>1 DEF Sums
  <1>5. ASSUME NEW y \in S \ T PROVE SumOver(f, T \cup {y}) = f[y] + SumOver(f, T)
    <2>1. T \cup {y} \in SUBSET S /\ (T \cup {y}) \ {y} = T
      OBVIOUS
    <2>2. g[T \cup {y}] = f[y] + g[(T \cup {y}) \ {y}]
      BY <1>3, <2>1
    <2>3. QED
      BY <1>2, <2>1, <2>2
  <1>6. QED
    BY <1>2, <1>3, <1>4, <1>5

LEMMA FoldIsSum ==
    ASSUME NEW f PROVE FoldFunction(+, 0, f) = SumOver(f, DOMAIN f)
  BY DEF FoldFunction, FoldFunctionOnSet, MapThenFoldSet, SumOver, Sums, AnyOf

LEMMA MostType ==
    MostCalls \in [Stages -> Nat] /\ MostCalls["copy"] = 2 * (MaxRevisions + 1)
    /\ MostCalls["demand"] = 6 * (MaxRevisions + 1) /\ MostCalls["site"] = 3
  BY DraftingAssumption DEF MostCalls, Stages

-----------------------------------------------------------------------------
(* What a stage has spent, by how far it has come. *)
Further(stage) == IF stage = "demand" THEN 2 ELSE 0

SoFar(worker) ==
    2 * ((Further(worker.stage) - worker.left) * (MaxRevisions + 1) + worker.round)

Within(worker) ==
    /\ worker.stage = "site" =>
         /\ worker.pc = "build" => worker.own = 0
         /\ worker.pc \in {"page", "critique"} => worker.own <= 1
         /\ worker.pc = "revise" => worker.own <= 2
         /\ worker.pc \in {"write", "stored"} => worker.own <= 3
    /\ worker.stage # "site" =>
         /\ worker.left <= Further(worker.stage)
         /\ worker.pc = "draft" => worker.own <= SoFar(worker)
         /\ worker.pc \in {"check", "review"} => worker.own <= SoFar(worker) + 1
         /\ worker.pc \in {"write", "stored"} => worker.own <= SoFar(worker) + 2

LEMMA SoFarType ==
    ASSUME NEW worker \in Worker
    PROVE  SoFar(worker) \in Int /\ worker.own \in Nat
  <1>1. /\ worker.left \in 0 .. 2 /\ worker.round \in 0 .. MaxRevisions
        /\ MaxRevisions + 1 \in Nat /\ Further(worker.stage) \in 0 .. 2 /\ worker.own \in Nat
    BY DraftingAssumption DEF Worker, Further
  <1>2. (Further(worker.stage) - worker.left) * (MaxRevisions + 1) \in Int
    BY <1>1
  <1>3. QED
    BY <1>1, <1>2 DEF SoFar

(* A stage that is at its end has made no more calls than it may. *)
LEMMA StoredWithin ==
    ASSUME NEW worker \in Worker, Within(worker), worker.pc = "stored",
           worker.left = 0 \/ worker.stage = "site"
    PROVE  worker.own <= MostCalls[worker.stage]
  <1>1. /\ worker.round \in 0 .. MaxRevisions /\ MaxRevisions \in Nat /\ worker.own \in Nat
        /\ worker.stage \in Stages
    BY DraftingAssumption DEF Worker
  <1>2. CASE worker.stage = "site"
    BY <1>2, MostType DEF Within
  <1>3. CASE worker.stage = "copy"
    BY <1>1, <1>3, MostType DEF Within, SoFar, Further
  <1>4. CASE worker.stage = "demand"
    BY <1>1, <1>4, MostType DEF Within, SoFar, Further
  <1>5. QED
    BY <1>1, <1>2, <1>3, <1>4 DEF Stages

LEMMA NextOwn ==
    ASSUME Shape, NEW w \in Workers, NEW fields, "own" \notin DOMAIN fields
    PROVE  /\ Becomes(w, fields) => workers'[w].own = workers[w].own + 0
           /\ Returned(w, fields) => workers'[w].own = workers[w].own + 1
  BY DEF Shape, WorkerFields, Becomes, Returned, Advances

LEMMA WorkWithin ==
    ASSUME Shape, DraftingTypeOK, NEW w \in Workers, Work(w),
           Honest(workers[w]), Within(workers[w])
    PROVE  Within(workers'[w])
  <1> DEFINE old == workers[w]
             new == workers'[w]
             Keeping(fields) == \A f \in WorkerFields \ {"own", "attempt"} :
                                  new[f] = IF f \in DOMAIN fields THEN fields[f] ELSE old[f]
             Moves(fields) == Becomes(w, fields) \/ Returned(w, fields)
  <1>1. /\ old \in Worker /\ old.own \in Nat /\ old.left \in 0 .. 2 /\ MaxRevisions \in Nat
        /\ old.round \in 0 .. MaxRevisions /\ SoFar(old) \in Int
    BY SoFarType, DraftingAssumption DEF DraftingTypeOK, Worker
  <1>2. ASSUME NEW fields, Moves(fields) PROVE Keeping(fields)
    <2>1. CASE Becomes(w, fields)
      BY <2>1, NextFields
    <2>2. CASE Returned(w, fields)
      BY <2>2, NextFields
    <2>3. QED
      BY <1>2, <2>1, <2>2
  <1>3. workers' = [workers EXCEPT ![w] = Idle] => Within(new)
    <2>1. Idle.pc = "idle" /\ Idle.stage = "copy" /\ Idle.left = 0
      BY DEF Idle
    <2>2. Within(Idle)
      BY <2>1 DEF Within, Further
    <2>3. QED
      BY <2>2 DEF Shape
  (* Another step of the same draft, or of the same page. *)
  <1>4. ASSUME \A f \in {"stage", "left", "round"} : new[f] = old[f],
               \/ new.own = old.own
                    /\ \/ new.pc = old.pc \/ new.pc = "rollup"
                       \/ old.pc = "check" /\ new.pc \in {"review", "write"}
                       \/ /\ old.pc \in {"page", "critique"}
                          /\ new.pc \in {"critique", "revise", "write"}
                       \/ old.pc \in {"build"} /\ new.pc = "page"
                       \/ old.pc = "revise" /\ new.pc = "write"
                       \/ old.pc = "write" /\ new.pc = "stored"
                       \/ old.pc = "review" /\ new.pc = "write"
               \/ new.own = old.own + 1
                    /\ \/ old.pc = "draft" /\ new.pc = "check"
                       \/ old.pc = "review" /\ new.pc = "write"
                       \/ old.pc = "build" /\ new.pc = "page"
                       \/ old.pc = "critique" /\ new.pc \in {"revise", "write"}
                       \/ old.pc = "revise" /\ new.pc = "write"
        PROVE  Within(new)
    <2>1. SoFar(new) = SoFar(old)
      BY <1>4 DEF SoFar
    <2>2. CASE old.stage = "site"
      BY <1>1, <1>4, <2>2 DEF Within, Honest
    <2>3. CASE old.stage # "site"
      BY <1>1, <1>4, <2>1, <2>3 DEF Within, Honest
    <2>4. QED
      BY <2>2, <2>3
  <1>5. ASSUME NEW fields, Keeping(fields), "own" \notin DOMAIN fields,
               DOMAIN fields \cap {"stage", "left", "round"} = {}
        PROVE  \A f \in {"stage", "left", "round"} : new[f] = old[f]
    BY <1>5 DEF WorkerFields
  <1>6. ASSUME NEW pc, Becomes(w, [pc |-> pc]),
               \/ pc = "rollup"
               \/ old.pc \in {"page", "critique"} /\ pc \in {"critique", "revise", "write"}
               \/ old.pc = "revise" /\ pc = "write"
        PROVE  Within(new)
    <2>1. Keeping([pc |-> pc]) /\ new.own = old.own
      BY <1>1, <1>2, <1>6, NextOwn
    <2>2. new.pc = pc /\ \A f \in {"stage", "left", "round"} : new[f] = old[f]
      BY <2>1 DEF WorkerFields
    <2>3. QED
      BY <1>4, <1>6, <2>1, <2>2
  (* A draft that is sent back. *)
  <1>7. ASSUME Keeping(NextRound(w)),
               \/ old.pc = "check" /\ new.own = old.own
               \/ old.pc = "review" /\ new.own = old.own + 1
        PROVE  Within(new)
    <2>1. CASE old.round < MaxRevisions
      <3>1. /\ new.pc = "draft" /\ new.round = old.round + 1
            /\ new.stage = old.stage /\ new.left = old.left
        BY <1>7, <2>1 DEF NextRound, WorkerFields
      <3>2. SoFar(new) = SoFar(old) + 2
        <4> DEFINE done == (Further(old.stage) - old.left) * (MaxRevisions + 1)
        <4>1. done \in Int
          BY <1>1 DEF Further
        <4>2. SoFar(old) = 2 * (done + old.round) /\ SoFar(new) = 2 * (done + (old.round + 1))
          BY <3>1 DEF SoFar
        <4> HIDE DEF done
        <4>3. QED
          BY <1>1, <4>1, <4>2
      <3>3. old.stage # "site"
        BY <1>7 DEF Honest
      <3>4. QED
        BY <1>1, <1>7, <3>1, <3>2, <3>3 DEF Within
    <2>2. CASE ~(old.round < MaxRevisions)
      <3>1. new.pc = "write" /\ \A f \in {"stage", "left", "round"} : new[f] = old[f]
        BY <1>7, <2>2 DEF NextRound, WorkerFields
      <3>2. QED
        BY <1>4, <1>7, <3>1
    <2>3. QED
      BY <2>1, <2>2
  <1>8. "own" \notin DOMAIN NextRound(w)
    BY DEF NextRound
  <1>10. CASE Transient(w)
    <2>1. Becomes(w, [attempt |-> old.attempt + 1])
      BY <1>10 DEF Transient
    <2>2. Keeping([attempt |-> old.attempt + 1]) /\ new.own = old.own
      BY <1>1, <1>2, <2>1, NextOwn
    <2>3. new.pc = old.pc /\ \A f \in {"stage", "left", "round"} : new[f] = old[f]
      BY <2>2 DEF WorkerFields
    <2>4. QED
      BY <1>4, <2>2, <2>3
  <1>11. CASE CallRaises(w)
    <2>1. ASSUME At(w, "critique"), NEW pc \in {"revise", "write"}, Goes(w, pc)
          PROVE  Within(new)
      BY <1>6, <2>1 DEF Goes, At
    <2>2. ASSUME At(w, "revise"), Goes(w, "write") PROVE Within(new)
      BY <1>6, <2>2 DEF Goes, At
    <2>3. QED
      BY <1>3, <1>11, <2>1, <2>2 DEF CallRaises, Fails
  <1>12. CASE Drafted(w)
    <2>1. Returned(w, [pc |-> "check"]) /\ old.pc = "draft"
      BY <1>12 DEF Drafted, At
    <2>2. Keeping([pc |-> "check"]) /\ new.own = old.own + 1
      BY <1>2, <2>1, NextOwn
    <2>3. new.pc = "check" /\ \A f \in {"stage", "left", "round"} : new[f] = old[f]
      BY <2>2 DEF WorkerFields
    <2>4. QED
      BY <1>4, <2>1, <2>2, <2>3
  <1>13. CASE CheckNumerals(w)
    <2> DEFINE fields == [violations |-> FALSE, checked |-> old.round, pc |-> "review"]
    <2>1. old.pc = "check"
      BY <1>13 DEF CheckNumerals, At
    <2>2. CASE Becomes(w, NextRound(w))
      BY <1>1, <1>2, <1>7, <1>8, <2>1, <2>2, NextOwn
    <2>3. CASE Becomes(w, fields)
      <3>1. Keeping(fields) /\ new.own = old.own
        BY <1>1, <1>2, <2>3, NextOwn
      <3>2. new.pc = "review" /\ \A f \in {"stage", "left", "round"} : new[f] = old[f]
        BY <3>1 DEF WorkerFields
      <3>3. QED
        BY <1>4, <2>1, <3>1, <3>2
    <2>4. QED
      BY <1>13, <2>2, <2>3 DEF CheckNumerals
  <1>14. CASE Reviewed(w)
    <2> DEFINE fields == [violations |-> FALSE, reviewed |-> old.round, pc |-> "write"]
    <2>1. old.pc = "review"
      BY <1>14 DEF Reviewed, At
    <2>2. CASE Returned(w, NextRound(w))
      BY <1>1, <1>2, <1>7, <1>8, <2>1, <2>2, NextOwn
    <2>3. CASE Returned(w, fields)
      <3>1. Keeping(fields) /\ new.own = old.own + 1
        BY <1>1, <1>2, <2>3, NextOwn
      <3>2. new.pc = "write" /\ \A f \in {"stage", "left", "round"} : new[f] = old[f]
        BY <3>1 DEF WorkerFields
      <3>3. QED
        BY <1>4, <2>1, <3>1, <3>2
    <2>4. QED
      BY <1>14, <2>2, <2>3 DEF Reviewed
  (* A call for a page, made or read from the cache. *)
  <1>15. ASSUME NEW fields, Moves(fields), "own" \notin DOMAIN fields,
                DOMAIN fields \cap {"stage", "left", "round"} = {}, "pc" \in DOMAIN fields,
                \/ old.pc = "build" /\ fields["pc"] = "page"
                \/ old.pc = "revise" /\ fields["pc"] = "write"
         PROVE  Within(new)
    <2>1. Keeping(fields)
      BY <1>2, <1>15
    <2>2. new.pc = fields["pc"] /\ \A f \in {"stage", "left", "round"} : new[f] = old[f]
      BY <1>15, <2>1 DEF WorkerFields
    <2>3. new.own = old.own \/ new.own = old.own + 1
      BY <1>1, <1>15, NextOwn
    <2>4. QED
      BY <1>4, <1>15, <2>2, <2>3
  <1>16. CASE Built(w)
    <2>1. PICK page \in Pages :
            \E fields \in {[pc |-> "page", page |-> page]} : Moves(fields)
      BY <1>16 DEF Built
    <2>2. old.pc = "build"
      BY <1>16 DEF Built, At
    <2> HIDE DEF Moves
    <2>3. QED
      BY <1>15, <2>1, <2>2
  <1>17. CASE PageChecked(w)
    <2>1. ASSUME NEW pc \in {"critique", "revise", "write"}, Goes(w, pc) PROVE Within(new)
      BY <1>6, <1>17, <2>1 DEF Goes, At, PageChecked
    <2>2. QED
      BY <1>3, <1>17, <2>1 DEF PageChecked, Fails
  <1>18. CASE Criticised(w)
    <2>1. PICK pc \in {"revise", "write"} : Returned(w, [pc |-> pc])
      BY <1>18 DEF Criticised
    <2>2. old.pc = "critique"
      BY <1>18 DEF Criticised, At
    <2>3. Keeping([pc |-> pc]) /\ new.own = old.own + 1
      BY <1>2, <2>1, NextOwn
    <2>4. new.pc = pc /\ \A f \in {"stage", "left", "round"} : new[f] = old[f]
      BY <2>3 DEF WorkerFields
    <2>5. QED
      BY <1>4, <2>2, <2>3, <2>4
  <1>19. CASE Revised(w)
    <2>1. PICK page :
            \E fields \in {[pc |-> "write", page |-> page]} : Moves(fields)
      BY <1>19 DEF Revised
    <2>2. old.pc = "revise"
      BY <1>19 DEF Revised, At
    <2> HIDE DEF Moves
    <2>3. QED
      BY <1>15, <2>1, <2>2
  <1>20. CASE Write(w)
    <2>1. Becomes(w, [wrote |-> Status(old), pc |-> "stored"]) /\ old.pc = "write"
      BY <1>20 DEF Write, At
    <2>2. Keeping([wrote |-> Status(old), pc |-> "stored"]) /\ new.own = old.own
      BY <1>1, <1>2, <2>1, NextOwn
    <2>3. new.pc = "stored" /\ \A f \in {"stage", "left", "round"} : new[f] = old[f]
      BY <2>2 DEF WorkerFields
    <2>4. QED
      BY <1>4, <2>1, <2>2, <2>3
  <1>21. CASE NextDeliverable(w)
    <2> DEFINE fields == [pc |-> "draft", left |-> old.left - 1, wrote |-> "none",
                          round |-> 0, violations |-> FALSE, checked |-> -1, reviewed |-> -1]
    <2>1. Becomes(w, fields) /\ old.pc = "stored" /\ old.left > 0
      BY <1>21 DEF NextDeliverable, At
    <2>2. Keeping(fields) /\ new.own = old.own
      BY <1>1, <1>2, <2>1, NextOwn
    <2>3. /\ new.pc = "draft" /\ new.left = old.left - 1 /\ new.round = 0
          /\ new.stage = old.stage
      BY <2>2 DEF WorkerFields
    <2>4. old.stage # "site"
      BY <2>1 DEF Honest
    <2>5. SoFar(new) >= SoFar(old) + 2 /\ SoFar(new) \in Int
      <3> DEFINE done == Further(old.stage) - old.left
                 rounds == done * (MaxRevisions + 1)
      <3>1. done \in Int /\ rounds \in Int
        BY <1>1 DEF Further
      <3>2. (done + 1) * (MaxRevisions + 1) = rounds + (MaxRevisions + 1)
        BY <1>1, <3>1
      <3>3. Further(new.stage) - new.left = done + 1
        BY <1>1, <2>3 DEF Further
      <3>4. /\ SoFar(new) = 2 * ((done + 1) * (MaxRevisions + 1) + 0)
            /\ SoFar(old) = 2 * (rounds + old.round)
        BY <2>3, <3>3 DEF SoFar
      <3> HIDE DEF done, rounds
      <3>5. QED
        BY <1>1, <3>1, <3>2, <3>4
    <2>6. new.left <= Further(new.stage) /\ new.own <= SoFar(new)
      <3>1. old.left <= Further(old.stage) /\ old.own <= SoFar(old) + 2
        BY <2>1, <2>4 DEF Within
      <3>2. Further(old.stage) \in Int
        BY DEF Further
      <3>3. QED
        BY <1>1, <2>2, <2>3, <2>5, <3>1, <3>2
    <2>7. QED
      BY <2>3, <2>4, <2>6 DEF Within
  <1>22. CASE Commit(w) \/ CommitPage(w) \/ Request(w)
    <2>1. ASSUME NEW pc \in {"requesting", "rollup"}, Commits(w, pc), At(w, "stored"),
                 pc = "rollup" \/ old.stage = "site"
          PROVE  Within(new)
      <3>1. Keeping([pc |-> pc, own |-> 0])
        BY <1>2, <2>1 DEF Commits
      <3>2. new.pc = pc /\ \A f \in {"stage", "left", "round"} : new[f] = old[f]
        BY <3>1 DEF WorkerFields
      <3>3. old.stage # "site" => old.left <= Further(old.stage)
        BY DEF Within
      <3>4. QED
        BY <2>1, <3>2, <3>3 DEF Within
    <2>2. Request(w) => Within(new)
      BY <1>3, <1>6 DEF Request, Fails, Goes
    <2>3. QED
      BY <1>22, <2>1, <2>2 DEF Commit, CommitPage
  <1>23. CASE RollUp(w)
    BY <1>3, <1>23 DEF RollUp
  <1>24. QED
    BY <1>10, <1>11, <1>12, <1>13, <1>14, <1>16, <1>17, <1>18, <1>19, <1>20, <1>21, <1>22, <1>23
    DEF Work

LEMMA WithinInvariant == Spec => [](\A w \in Workers : Within(workers[w]))
  <1> DEFINE AllWithin == \A w \in Workers : Within(workers[w])
             Kept == \A w \in Workers : Honest(workers[w])
  <1>0. Within(Idle) /\ \A b \in Briefs, s \in Stages : Within(Start(b, s))
    <2>1. Within(Idle)
      BY DEF Within, Further, Idle
    <2>2. ASSUME NEW b \in Briefs, NEW s \in Stages PROVE Within(Start(b, s))
      <3>1. /\ Start(b, s).stage = s /\ Start(b, s).own = 0 /\ Start(b, s).round = 0
            /\ Start(b, s).left = Further(s)
            /\ Start(b, s).pc = IF s = "site" THEN "build" ELSE "draft"
        BY DEF Start, Idle, Further
      <3>2. Further(s) \in 0 .. 2
        BY DEF Further
      <3>3. SoFar(Start(b, s)) = 0
        BY <3>1, <3>2, DraftingAssumption DEF SoFar
      <3>4. QED
        BY <3>1, <3>2, <3>3 DEF Within
    <2>3. QED
      BY <2>1, <2>2
  <1>1. Init => AllWithin
    BY <1>0 DEF Init, DraftingInit
  <1>2. Shape /\ DraftingTypeOK /\ Kept /\ AllWithin /\ [Next]_vars => AllWithin'
    <2> SUFFICES ASSUME Shape, DraftingTypeOK, Kept, AllWithin, [Next]_vars PROVE AllWithin'
      OBVIOUS
    <2>1. CASE UNCHANGED workers
      BY <2>1
    <2>2. ASSUME NEW w \in Workers, \A v \in Workers : v # w => workers'[v] = workers[v],
                 Within(workers'[w])
          PROVE  AllWithin'
      BY <2>2
    <2>3. ASSUME NEW w \in Workers,
                 \/ Work(w) \/ workers'[w] = Idle
                 \/ \E b \in Briefs, s \in Stages : workers'[w] = Start(b, s)
          PROVE  Within(workers'[w])
      BY <1>0, <2>3, WorkWithin
    <2> HIDE DEF AllWithin
    <2>4. QED
      BY <2>1, <2>2, <2>3, OneWorkerMoves
  <1>3. Spec => []Kept
    BY HonestInvariant, PTL
  <1>4. QED
    BY <1>1, <1>2, <1>3, GovernedInvariant, TypedInvariant, PTL DEF Spec

-----------------------------------------------------------------------------
(* What a run overspends. *)

(* The workers at a run's stages, until they commit what they have spent or drop it. *)
Flying(b) ==
    {w \in Workers : Run(w) = b /\ workers[w].pc \notin {"idle", "requesting", "rollup"}}

(* A stage that is queued, worked at or retried is one its run selects, and the run is
   there. *)
Selected(b, s) == s \in StagesOf[b] /\ runs[b] # "none"
AllSelected ==
    /\ \A b \in Briefs, s \in Stages : stages[b][s] # "absent" => Selected(b, s)
    /\ \A w \in Workers : ~At(w, "idle") => Selected(Run(w), workers[w].stage)
    /\ \A o \in Operators :
          Asking(o, "retrying") => Selected(operators[o].run, operators[o].stage)

(* Unless it has been led astray, a run with a stage to run can be halted. *)
Haltable ==
    \A b \in Briefs \ astray : \A s \in Stages :
        stages[b][s] \in {"pending", "running"} => runs[b] \in {"running", "halted_budget"}

Unspent == \A b \in Briefs : briefs[b] = "none" => ledger[b] = 0

Cost(last) == [w \in DOMAIN last |-> MostCalls[last[w]]]

(* What a run has overspent was spent by the stages its workers ended last, those
   workers that are at none of its stages now. *)
Overspends(b, last) ==
    /\ DOMAIN last \subseteq Workers /\ last \in [DOMAIN last -> StagesOf[b]]
    /\ DOMAIN last \cap Flying(b) = {}
    /\ ledger[b] < RunBudget + SumOver(Cost(last), DOMAIN last)

OverspentBy == \A b \in Briefs \ astray : \E last : Overspends(b, last)

LEMMA CostType ==
    ASSUME NEW b \in Briefs, NEW last, DOMAIN last \subseteq Workers,
           last \in [DOMAIN last -> StagesOf[b]]
    PROVE  /\ IsFiniteSet(DOMAIN last) /\ Cost(last) \in [DOMAIN last -> Nat]
           /\ SumOver(Cost(last), DOMAIN last) \in Nat
  <1>1. IsFiniteSet(DOMAIN last)
    BY FS_Subset, DraftingAssumption
  <1>2. Cost(last) \in [DOMAIN last -> Nat]
    BY MostType, DraftingAssumption DEF Cost
  <1>3. QED
    BY <1>1, <1>2, SumCounts

(* A run that is within its budget has overspent nothing yet. *)
LEMMA WithinBudget ==
    ASSUME NEW b \in Briefs, NEW spent \in Nat, spent < RunBudget
    PROVE  \E last : /\ DOMAIN last = {} /\ last \in [{} -> StagesOf[b]]
                     /\ spent < RunBudget + SumOver(Cost(last), DOMAIN last)
  <1> DEFINE last == [w \in {} |-> "copy"]
  <1>1. DOMAIN last = {} /\ last \in [{} -> StagesOf[b]]
    OBVIOUS
  <1> HIDE DEF last
  <1>2. IsFiniteSet({}) /\ Cost(last) \in [{} -> Nat]
    BY <1>1, FS_EmptySet DEF Cost
  <1>3. SumOver(Cost(last), {}) = 0
    BY <1>2, SumAdds
  <1>4. SumOver(Cost(last), DOMAIN last) = 0
    BY <1>1, <1>3
  <1>5. spent < RunBudget + SumOver(Cost(last), DOMAIN last)
    BY <1>4, DraftingAssumption
  <1>6. QED
    BY <1>1, <1>5

(* One more worker has ended a stage, at its cost. *)
Adds(more, last, b, w, s) ==
    /\ DOMAIN more = DOMAIN last \cup {w} /\ more \in [DOMAIN more -> StagesOf[b]]
    /\ SumOver(Cost(more), DOMAIN more) = MostCalls[s] + SumOver(Cost(last), DOMAIN last)

LEMMA OneMore ==
    ASSUME NEW b \in Briefs, NEW last, DOMAIN last \subseteq Workers,
           last \in [DOMAIN last -> StagesOf[b]],
           NEW w \in Workers, w \notin DOMAIN last, NEW s \in StagesOf[b]
    PROVE  \E more : Adds(more, last, b, w, s)
  <1> DEFINE D == DOMAIN last
             E == D \cup {w}
             more == [v \in E |-> IF v = w THEN s ELSE last[v]]
  <1>1. /\ DOMAIN more = E /\ more \in [DOMAIN more -> StagesOf[b]] /\ more[w] = s
        /\ \A v \in D : more[v] = last[v]
    OBVIOUS
  <1> HIDE DEF more
  <1>2. E \subseteq Workers /\ D \in SUBSET E /\ w \in E \ D
    OBVIOUS
  <1>3. /\ IsFiniteSet(E) /\ Cost(more) \in [E -> Nat]
        /\ IsFiniteSet(D) /\ Cost(last) \in [D -> Nat]
    BY <1>1, <1>2, CostType
  <1>4. Cost(more)[w] = MostCalls[s] /\ \A v \in D : Cost(more)[v] = Cost(last)[v]
    BY <1>1 DEF Cost
  <1>5. SumOver(Cost(more), E) = Cost(more)[w] + SumOver(Cost(more), D)
    BY <1>2, <1>3, SumAdds
  <1>6. SumOver(Cost(more), D) = SumOver(Cost(last), D)
    <2> DEFINE g == CHOOSE g : Sums(g, Cost(more), SUBSET D)
               h == CHOOSE h : Sums(h, Cost(last), SUBSET D)
    <2>1. Sums(g, Cost(more), SUBSET D) /\ Sums(h, Cost(last), SUBSET D)
      BY <1>3, SumsExist
    <2> HIDE DEF g, h
    <2>2. g[D] = h[D]
      BY <1>3, <1>4, <2>1, SumsAgree
    <2>3. QED
      BY <2>2 DEF SumOver, g, h
  <1>7. Adds(more, last, b, w, s)
    BY <1>1, <1>4, <1>5, <1>6 DEF Adds
  <1>8. QED
    BY <1>7

(* What a worker does to what is in flight. *)
LEMMA WorkFlies ==
    ASSUME Shape, NEW w \in Workers, Work(w)
    PROVE  /\ \A b \in Briefs : Flying(b)' \subseteq Flying(b)
           /\ \/ UNCHANGED ledger
              \/ /\ ledger' = [ledger EXCEPT ![Run(w)] = @ + workers[w].own]
                 /\ At(w, "stored") /\ (workers[w].left = 0 \/ workers[w].stage = "site")
                 /\ w \in Flying(Run(w)) /\ \A b \in Briefs : w \notin Flying(b)'
  <1>0. Run(w) \in Briefs /\ DOMAIN workers = Workers /\ Idle.pc = "idle"
    BY IdleShape, DraftingAssumption DEF Shape, Run
  <1>1. /\ ~At(w, "idle") /\ \A v \in Workers : v # w => workers'[v] = workers[v]
        /\ \/ workers'[w] = Idle
           \/ workers'[w].run = Run(w) /\ workers'[w].stage = workers[w].stage
    BY WorkKeepsStage
  <1>2. ASSUME workers'[w].pc \in {"idle", "requesting", "rollup"} \/ w \in Flying(Run(w))
        PROVE  \A b \in Briefs : Flying(b)' \subseteq Flying(b)
    <2> SUFFICES ASSUME NEW b \in Briefs, NEW v \in Flying(b)' PROVE v \in Flying(b)
      OBVIOUS
    <2>1. v \in Workers /\ workers'[v].run = b
          /\ workers'[v].pc \notin {"idle", "requesting", "rollup"}
      BY DEF Flying, Run
    <2>2. QED
      BY <1>0, <1>1, <1>2, <2>1 DEF Flying, Run
  <1>3. CASE RollUp(w)
    <2>1. workers'[w] = Idle /\ UNCHANGED ledger
      BY <1>0, <1>3 DEF RollUp
    <2>2. QED
      BY <1>0, <1>2, <2>1
  <1>4. CASE Request(w)
    <2>1. workers'[w].pc \in {"idle", "rollup"} /\ UNCHANGED ledger
      <3>1. CASE Fails(w)
        BY <1>0, <3>1 DEF Fails
      <3>2. CASE Goes(w, "rollup") /\ UNCHANGED ledger
        BY <3>2, NextFields DEF Goes, WorkerFields
      <3>3. QED
        BY <1>4, <3>1, <3>2 DEF Request
    <2>2. QED
      BY <1>2, <2>1
  <1>5. CASE Commit(w) \/ CommitPage(w)
    <2>1. PICK pc \in {"requesting", "rollup"} : Commits(w, pc)
      BY <1>5 DEF Commit, CommitPage
    <2>2. workers'[w].pc = pc
      BY <2>1, NextFields DEF Commits, WorkerFields
    <2>3. \A b \in Briefs : w \notin Flying(b)'
      BY <2>2 DEF Flying
    <2>4. w \in Flying(Run(w))
      BY <1>5 DEF Commit, CommitPage, Flying, At
    <2>5. QED
      BY <1>2, <1>5, <2>1, <2>2, <2>3, <2>4 DEF Commits, Commit, CommitPage
  <1>6. CASE ~(RollUp(w) \/ Request(w) \/ Commit(w) \/ CommitPage(w))
    <2>1. ~At(w, "rollup") /\ ~At(w, "requesting")
      BY <1>6 DEF Work, Transient, CallRaises, Drafted, CheckNumerals, Reviewed, Built,
         PageChecked, Criticised, Revised, Write, NextDeliverable, Calling, Calls, At
    <2>2. w \in Flying(Run(w))
      BY <1>1, <2>1 DEF Flying, At
    <2>3. UNCHANGED ledger
      BY <1>6 DEF Work, Transient, CallRaises, Drafted, CheckNumerals, Reviewed, Built,
         PageChecked, Criticised, Revised, Write, NextDeliverable, Fails, books
    <2>4. QED
      BY <1>2, <2>2, <2>3
  <1>7. QED
    BY <1>3, <1>4, <1>5, <1>6

(* A worker goes on with a stage its run selects, *)
LEMMA WorkSelected ==
    ASSUME Shape, AllSelected, NEW w \in Workers, Work(w)
    PROVE  AllSelected'
  <1>0. Run(w) \in Briefs /\ workers[w].stage \in Stages
    BY DEF Shape, Run
  <1>1. /\ ~At(w, "idle") /\ \A v \in Workers : v # w => workers'[v] = workers[v]
        /\ \/ workers'[w] = Idle
           \/ workers'[w].run = Run(w) /\ workers'[w].stage = workers[w].stage
    BY WorkKeepsStage
  <1>2. \A b \in Briefs, s \in Stages : Selected(b, s) => Selected(b, s)'
    BY WorkKeepsRuns DEF Selected
  <1>3. \A b \in Briefs, s \in Stages :
           stages'[b][s] = stages[b][s] \/ (b = Run(w) /\ s = workers[w].stage)
    BY WorkKeepsRuns
  <1>4. \A b \in Briefs, s \in Stages : stages'[b][s] # "absent" => Selected(b, s)'
    BY <1>0, <1>1, <1>2, <1>3 DEF AllSelected
  <1>5. \A v \in Workers : ~At(v, "idle")' => Selected(Run(v), workers[v].stage)'
    <2> SUFFICES ASSUME NEW v \in Workers, workers'[v].pc # "idle"
                 PROVE  Selected(Run(v), workers[v].stage)'
      BY DEF At
    <2>1. workers[v].run \in Briefs /\ workers[v].stage \in Stages
      BY DEF Shape
    <2>2. Idle.pc = "idle"
      BY DEF Idle
    <2>3. /\ ~At(v, "idle") /\ workers'[v].run = workers[v].run
          /\ workers'[v].stage = workers[v].stage
      BY <1>1, <2>2 DEF At, Run
    <2>4. Selected(workers[v].run, workers[v].stage)
      BY <2>3 DEF AllSelected, Run
    <2>5. QED
      BY <1>2, <2>1, <2>3, <2>4 DEF Selected, Run
  <1>6. \A o \in Operators :
           Asking(o, "retrying")' => Selected(operators[o].run, operators[o].stage)'
    BY <1>2, WorkKeepsRuns DEF AllSelected, Asking, Shape, Selected
  <1>7. QED
    BY <1>4, <1>5, <1>6 DEF AllSelected

(* and so do a claim, a death, a retry and a screening. *)
LEMMA RestSelected ==
    ASSUME Shape, Governed, AllSelected,
           \/ \E w \in Workers, b \in Briefs, s \in Stages : Claim(w, b, s)
           \/ \E w \in Workers : WorkerDies(w)
           \/ \E o \in Operators :
                 Retry(o) \/ \E b \in Briefs, s \in Stages : RetryRead(o, b, s)
           \/ \E r \in Requests : Screened(r)
    PROVE  AllSelected'
  <1>0. /\ runs \in [Briefs -> RunStates] /\ stages \in [Briefs -> [Stages -> StageStates]]
        /\ DOMAIN workers = Workers /\ Idle.pc = "idle" /\ NoRetry.pc = "idle"
        /\ \A w \in Workers : Run(w) \in Briefs /\ workers[w].stage \in Stages
        /\ \A o \in Operators : operators[o].run \in Briefs /\ operators[o].stage \in Stages
        /\ DOMAIN operators = Operators
    BY DEF Shape, Run, Idle, NoRetry
  (* Nothing is selected any less, and what is new is selected. *)
  <1>1. ASSUME \A b \in Briefs : runs[b] # "none" => runs'[b] # "none",
               \A b \in Briefs, s \in Stages :
                  stages'[b][s] # "absent" => stages[b][s] # "absent" \/ Selected(b, s)',
               \A w \in Workers : \/ workers'[w] = workers[w] \/ workers'[w].pc = "idle"
                                  \/ Selected(Run(w), workers[w].stage)',
               \A o \in Operators : \/ operators'[o] = operators[o] \/ operators'[o].pc = "idle"
                                    \/ Selected(operators[o].run, operators[o].stage)'
        PROVE  AllSelected'
    <2>1. \A b \in Briefs, s \in Stages : Selected(b, s) => Selected(b, s)'
      BY <1>1 DEF Selected
    <2>2. \A b \in Briefs, s \in Stages : stages'[b][s] # "absent" => Selected(b, s)'
      BY <1>1, <2>1 DEF AllSelected
    <2>3. \A w \in Workers : ~At(w, "idle")' => Selected(Run(w), workers[w].stage)'
      BY <1>0, <1>1, <2>1 DEF AllSelected, At, Run, Selected
    <2>4. \A o \in Operators :
             Asking(o, "retrying")' => Selected(operators[o].run, operators[o].stage)'
      BY <1>0, <1>1, <2>1 DEF AllSelected, Asking, Selected
    <2>5. QED
      BY <2>2, <2>3, <2>4 DEF AllSelected
  <1>2. ASSUME NEW w \in Workers, NEW c \in Briefs, NEW s \in Stages, Claim(w, c, s)
        PROVE  AllSelected'
    <2>1. Selected(c, s) /\ stages[c][s] = "pending"
      BY <1>2 DEF Claim, AllSelected
    <2>2. /\ runs' = [runs EXCEPT ![c] = Enforced(c)] /\ UNCHANGED operators
          /\ runs[c] # "none" => Enforced(c) # "none"
      BY <1>2 DEF Claim, Enforced
    <2>3. \A b \in Briefs : runs[b] # "none" => runs'[b] # "none"
      BY <1>0, <2>2
    <2>4. \A b \in Briefs, t \in Stages : stages'[b][t] = stages[b][t] \/ (b = c /\ t = s)
      BY <1>0, <1>2 DEF Claim
    <2>5. \A v \in Workers : \/ workers'[v] = workers[v]
                             \/ workers'[v].run = c /\ workers'[v].stage = s
      <3>1. Start(c, s).run = c /\ Start(c, s).stage = s
        BY DEF Start, Idle
      <3>2. UNCHANGED workers \/ workers' = [workers EXCEPT ![w] = Start(c, s)]
        BY <1>2 DEF Claim
      <3>3. QED
        BY <1>0, <3>1, <3>2
    <2>6. Selected(c, s)'
      BY <2>1, <2>3 DEF Selected
    <2>7. QED
      BY <1>1, <2>1, <2>2, <2>3, <2>4, <2>5, <2>6 DEF Selected, Run
  <1>3. ASSUME NEW w \in Workers, WorkerDies(w) PROVE AllSelected'
    <2>1. /\ UNCHANGED <<runs, operators>> /\ workers'[w].pc = "idle"
          /\ \A v \in Workers : v # w => workers'[v] = workers[v]
      BY <1>0, <1>3 DEF WorkerDies
    <2>2. \A b \in Briefs, t \in Stages :
             stages'[b][t] # "absent" => stages[b][t] # "absent"
      <3> DEFINE c == Run(w)
                 s == workers[w].stage
      <3>1. \/ UNCHANGED stages
            \/ stages[c][s] = "running" /\ stages' = [stages EXCEPT ![c][s] = "pending"]
        BY <1>3 DEF WorkerDies
      <3>2. c \in Briefs /\ s \in Stages
        BY <1>0
      <3> HIDE DEF c, s
      <3>3. QED
        BY <1>0, <3>1, <3>2
    <2>3. \A b \in Briefs : runs[b] # "none" => runs'[b] # "none"
      BY <2>1
    <2>4. \A v \in Workers : workers'[v] = workers[v] \/ workers'[v].pc = "idle"
      BY <2>1
    <2>5. \A o \in Operators : operators'[o] = operators[o]
      BY <2>1
    <2>6. QED
      BY <1>1, <2>2, <2>3, <2>4, <2>5
  <1>4. ASSUME NEW o \in Operators, NEW c \in Briefs, NEW s \in Stages, RetryRead(o, c, s)
        PROVE  AllSelected'
    <2>1. Selected(c, s)
      BY <1>4 DEF RetryRead, AllSelected
    <2>2. UNCHANGED <<runs, stages, workers>>
          /\ \A p \in Operators : \/ operators'[p] = operators[p]
                                  \/ operators'[p].run = c /\ operators'[p].stage = s
      BY <1>0, <1>4 DEF RetryRead
    <2>3. QED
      BY <1>1, <2>1, <2>2 DEF Selected
  <1>5. ASSUME NEW o \in Operators, Retry(o) PROVE AllSelected'
    <2> DEFINE c == operators[o].run
               s == operators[o].stage
    <2>1. Selected(c, s) /\ c \in Briefs /\ s \in Stages
      BY <1>0, <1>5 DEF Retry, AllSelected
    <2>2. UNCHANGED workers
          /\ \A p \in Operators : operators'[p] = operators[p] \/ operators'[p].pc = "idle"
      BY <1>0, <1>5 DEF Retry
    <2>3. \A b \in Briefs : runs[b] # "none" => runs'[b] # "none"
      BY <1>0, <1>5 DEF Retry
    <2>4. \A b \in Briefs, t \in Stages : stages'[b][t] = stages[b][t] \/ (b = c /\ t = s)
      BY <1>0, <1>5 DEF Retry
    <2>5. s \in StagesOf[c] /\ runs'[c] # "none"
      BY <2>1, <2>3 DEF Selected
    <2> HIDE DEF c, s
    <2>6. \A b \in Briefs, t \in Stages :
             stages'[b][t] # "absent" => stages[b][t] # "absent" \/ Selected(b, t)'
      BY <2>4, <2>5 DEF Selected
    <2>7. QED
      BY <1>1, <2>2, <2>3, <2>6
  <1>6. ASSUME NEW r \in Requests, Screened(r) PROVE AllSelected'
    <2> DEFINE c == Brief(r)
    <2>1. c \in Briefs
      BY DEF Shape, Brief
    <2>2. UNCHANGED <<workers, operators>>
      BY <1>6 DEF Screened
    <2>3. CASE UNCHANGED <<runs, stages>>
      BY <1>1, <2>2, <2>3
    <2>4. CASE Free(c)
      <3>1. PICK decision \in Decisions :
              /\ runs' = [runs EXCEPT ![c] = IF decision = "pass" THEN "running" ELSE "failed"]
              /\ stages' = IF decision = "reject" THEN stages
                           ELSE [stages EXCEPT ![c] = [s \in Stages |->
                                    IF s \in StagesOf[c] THEN "pending" ELSE "absent"]]
        BY <1>6, <2>4 DEF Screened
      <3>2. \A b \in Briefs : runs[b] # "none" => runs'[b] # "none"
        BY <1>0, <2>1, <3>1
      <3>3. runs'[c] # "none"
        BY <1>0, <2>1, <3>1
      <3>4. \A b \in Briefs, s \in Stages :
               stages'[b][s] # "absent" => stages[b][s] # "absent" \/ (b = c /\ s \in StagesOf[c])
        BY <1>0, <2>1, <3>1
      <3>5. QED
        BY <1>1, <2>2, <3>2, <3>3, <3>4 DEF Selected
    <2>5. QED
      BY <1>6, <2>3, <2>4 DEF Screened
  <1>7. QED
    BY <1>2, <1>3, <1>4, <1>5, <1>6

LEMMA SelectedInvariant == Spec => [](AllSelected /\ Haltable)
  <1>1. Init => AllSelected /\ Haltable
    BY DEF Init, DraftingInit, AllSelected, Haltable, At, Asking, Idle, NoRetry
  <1>2. Shape /\ DraftingTypeOK /\ Governed /\ AllSelected /\ Haltable /\ [Next]_vars
          => (AllSelected /\ Haltable)'
    <2> SUFFICES ASSUME Shape, DraftingTypeOK, Governed, AllSelected, Haltable, [Next]_vars
                 PROVE  (AllSelected /\ Haltable)'
      OBVIOUS
    <2>1. CASE UNCHANGED draftingVars
      BY <2>1 DEF draftingVars, books, AllSelected, Haltable, Selected, At, Run, Asking
    <2>2. CASE DraftingNext
      <3>1. AllSelected'
        BY <2>2, WorkSelected, RestSelected DEF DraftingNext, DraftingStep
      <3>2. runs' \in [Briefs -> RunStates]
        BY TypedStep DEF DraftingTypeOK
      <3>3. ASSUME NEW b \in Briefs \ astray', NEW s \in Stages,
                   stages'[b][s] \in {"pending", "running"}
            PROVE  runs'[b] \in {"running", "halted_budget"}
        <4>1. runs'[b] # "none"
          BY <3>1, <3>3 DEF AllSelected, Selected
        <4>2. ~Stray(b)'
          BY <2>2, <3>3 DEF DraftingNext
        <4>3. runs'[b] \notin {"succeeded", "failed"}
          BY <3>3, <4>2 DEF Stray, States
        <4>4. QED
          BY <3>2, <3>3, <4>1, <4>3 DEF RunStates
      <3>4. QED
        BY <3>1, <3>3 DEF Haltable
    <2>3. ASSUME NEW r \in Requests, Screened(r) PROVE (AllSelected /\ Haltable)'
      <3>1. AllSelected'
        BY <2>3, RestSelected
      <3>2. Brief(r) \in Briefs /\ UNCHANGED astray
        BY <2>3 DEF Screened, Shape, Brief
      <3>3. CASE UNCHANGED <<runs, stages>>
        BY <3>1, <3>2, <3>3 DEF Haltable
      <3>4. CASE Free(Brief(r))
        <4> DEFINE c == Brief(r)
        <4>1. PICK decision \in Decisions :
                /\ runs' = [runs EXCEPT ![c] = IF decision = "pass" THEN "running" ELSE "failed"]
                /\ stages' = IF decision = "reject" THEN stages
                             ELSE [stages EXCEPT ![c] = [s \in Stages |->
                                      IF s \in StagesOf[c] THEN "pending" ELSE "absent"]]
          BY <2>3, <3>4 DEF Screened
        <4>2. stages[c] = NoStages
          BY <3>2, <3>4 DEF Free, Governed
        <4>3. \A b \in Briefs \ {c} : runs'[b] = runs[b] /\ stages'[b] = stages[b]
          BY <3>2, <4>1 DEF Shape
        <4>4. decision = "pass" => runs'[c] = "running"
          BY <3>2, <4>1 DEF Shape
        <4>5. decision = "reject" => stages'[c] = NoStages
          BY <4>1, <4>2
        <4>6. QED
          BY <3>1, <3>2, <4>3, <4>4, <4>5 DEF Haltable, NoStages, Decisions
      <3>5. QED
        BY <2>3, <3>3, <3>4 DEF Screened
    <2>4. ASSUME NEW r \in Requests, ScreenRaises(r) \/ \E b \in Briefs : Submit(r, b)
          PROVE  UNCHANGED draftingVars
      BY <2>4 DEF ScreenRaises, Submit
    <2>5. QED
      BY <2>1, <2>2, <2>3, <2>4 DEF Next, Serve, vars
  <1>3. Spec => [](Shape /\ DraftingTypeOK /\ Governed)
    BY GovernedInvariant, TypedInvariant, PTL
  <1>4. QED
    BY <1>1, <1>2, <1>3, PTL DEF Spec

(* What a run has overspent, a step later. *)
LEMMA StepOverspends ==
    ASSUME Shape, Governed, DraftingTypeOK, AllSelected, Haltable, Unspent, OverspentBy,
           \A w \in Workers : Within(workers[w]), RunBudget > 1, [Next]_vars,
           NEW b \in Briefs \ astray'
    PROVE  \E last : Overspends(b, last)'
  <1>0. /\ runs \in [Briefs -> RunStates] /\ stages \in [Briefs -> [Stages -> StageStates]]
        /\ ledger \in [Briefs -> Nat] /\ workers \in [Workers -> Worker]
    BY DEF DraftingTypeOK
  <1>1. b \in Briefs \ astray
    BY DEF Next, DraftingNext, Serve, Screened, ScreenRaises, Submit, vars, draftingVars
  <1>2. PICK last : Overspends(b, last)
    BY <1>1 DEF OverspentBy
  <1>3. ASSUME ledger'[b] = ledger[b], Flying(b)' \subseteq Flying(b)
        PROVE  \E some : Overspends(b, some)'
    BY <1>2, <1>3 DEF Overspends
  (* It starts again from a ledger within its budget. *)
  <1>4. ASSUME ledger'[b] \in Nat, ledger'[b] < RunBudget
        PROVE  \E some : Overspends(b, some)'
    <2>1. PICK some : /\ DOMAIN some = {} /\ some \in [{} -> StagesOf[b]]
                      /\ ledger'[b] < RunBudget + SumOver(Cost(some), DOMAIN some)
      BY <1>4, WithinBudget
    <2>2. QED
      BY <2>1 DEF Overspends
  <1>5. ASSUME NEW w \in Workers, NEW c \in Briefs, NEW s \in Stages, Claim(w, c, s)
        PROVE  \E some : Overspends(b, some)'
    <2>1. UNCHANGED ledger /\ workers[w].pc = "idle"
      BY <1>5 DEF Claim, At
    <2>2. CASE UNCHANGED workers
      BY <1>3, <2>1, <2>2 DEF Flying, Run
    <2>3. CASE workers' = [workers EXCEPT ![w] = Start(c, s)] /\ runs'[c] # "halted_budget"
      <3>1. /\ workers'[w].run = c
            /\ \A v \in Workers : v # w => workers'[v] = workers[v]
        BY <1>0, <2>3 DEF Start, Idle
      <3>2. CASE b = c
        <4>1. runs[c] \in {"running", "halted_budget"}
          BY <1>1, <1>5, <3>2 DEF Claim, Haltable
        <4>2. ~Overspent(c)
          BY <1>0, <1>5, <2>3, <4>1 DEF Claim, Enforced
        <4>3. QED
          BY <1>0, <1>4, <2>1, <3>2, <4>2, DraftingAssumption DEF Overspent
      <3>3. CASE b # c
        <4>1. Flying(b)' \subseteq Flying(b)
          BY <3>1, <3>3 DEF Flying, Run
        <4>2. QED
          BY <1>3, <2>1, <4>1
      <3>4. QED
        BY <3>2, <3>3
    <2>4. QED
      BY <1>5, <2>2, <2>3 DEF Claim
  <1>6. ASSUME NEW w \in Workers, Work(w) PROVE \E some : Overspends(b, some)'
    <2>1. Flying(b)' \subseteq Flying(b)
      BY <1>6, WorkFlies
    <2>2. CASE ledger'[b] = ledger[b]
      BY <1>3, <2>1, <2>2
    <2>3. CASE ledger'[b] # ledger[b]
      <3>1. /\ ledger' = [ledger EXCEPT ![Run(w)] = @ + workers[w].own]
            /\ At(w, "stored") /\ (workers[w].left = 0 \/ workers[w].stage = "site")
            /\ w \in Flying(Run(w)) /\ w \notin Flying(b)'
        BY <1>6, <2>3, WorkFlies
      <3>2. Run(w) = b /\ ledger'[b] = ledger[b] + workers[w].own
        BY <1>0, <2>3, <3>1
      <3>3. workers[w].own <= MostCalls[workers[w].stage] /\ workers[w].own \in Nat
        BY <1>0, <3>1, StoredWithin DEF At, Worker
      <3>4. workers[w].stage \in StagesOf[b] /\ w \notin DOMAIN last
        BY <1>2, <3>1, <3>2 DEF AllSelected, Selected, At, Overspends
      <3>5. PICK more : Adds(more, last, b, w, workers[w].stage)
        <4>1. DOMAIN last \subseteq Workers /\ last \in [DOMAIN last -> StagesOf[b]]
          BY <1>2 DEF Overspends
        <4>2. b \in Briefs
          BY <1>1
        <4>3. QED
          BY <3>4, <4>1, <4>2, OneMore, Zenon
      <3>6. DOMAIN more \subseteq Workers /\ DOMAIN more \cap Flying(b)' = {}
        BY <1>2, <2>1, <3>1, <3>5 DEF Overspends, Adds
      <3>7. ledger'[b] < RunBudget + SumOver(Cost(more), DOMAIN more)
        <4>1. SumOver(Cost(last), DOMAIN last) \in Nat
          BY <1>2, CostType DEF Overspends
        <4>2. MostCalls[workers[w].stage] \in Nat
          BY <1>0, MostType DEF Worker
        <4>3. ledger[b] < RunBudget + SumOver(Cost(last), DOMAIN last) /\ ledger[b] \in Nat
          BY <1>0, <1>2 DEF Overspends
        <4>4. QED
          BY <3>2, <3>3, <3>5, <4>1, <4>2, <4>3, DraftingAssumption DEF Adds
      <3>8. QED
        BY <3>5, <3>6, <3>7 DEF Overspends, Adds
    <2>4. QED
      BY <2>2, <2>3
  <1>7. ASSUME NEW w \in Workers, WorkerDies(w) PROVE \E some : Overspends(b, some)'
    <2>1. workers'[w].pc = "idle" /\ \A v \in Workers : v # w => workers'[v] = workers[v]
      BY <1>0, <1>7 DEF WorkerDies, Idle
    <2>2. Flying(b)' \subseteq Flying(b) /\ UNCHANGED ledger
      BY <1>7, <2>1 DEF WorkerDies, Flying, Run
    <2>3. QED
      BY <1>3, <2>2
  <1>8. ASSUME NEW r \in Requests, Screened(r) PROVE \E some : Overspends(b, some)'
    <2>1. Flying(b)' = Flying(b)
      BY <1>8 DEF Screened, Flying, Run
    <2>2. CASE ledger'[b] = ledger[b]
      BY <1>3, <2>1, <2>2
    <2>3. CASE ledger'[b] # ledger[b]
      <3>1. Free(b) /\ ledger'[b] = ledger[b] + 1
        BY <1>0, <1>8, <2>3 DEF Screened, Free
      <3>2. ledger'[b] = 1
        BY <3>1 DEF Free, Unspent
      <3>3. QED
        BY <1>4, <3>2, DraftingAssumption
    <2>4. QED
      BY <2>2, <2>3
  <1>9. ASSUME UNCHANGED <<ledger, workers>> PROVE \E some : Overspends(b, some)'
    BY <1>3, <1>9 DEF Flying, Run
  <1>10. QED
    BY <1>5, <1>6, <1>7, <1>8, <1>9
    DEF Next, DraftingNext, DraftingStep, Retry, RetryRead, Serve, ScreenRaises, Submit, vars,
        draftingVars, books

(* A brief that is not there has spent nothing. *)
LEMMA StepUnspent ==
    ASSUME Shape, Governed, DraftingTypeOK, Unspent, [Next]_vars PROVE Unspent'
  <1>0. /\ ledger \in [Briefs -> Nat] /\ briefs \in [Briefs -> Decisions \cup {"none"}]
        /\ \A w \in Workers : Run(w) \in Briefs
    BY DEF DraftingTypeOK, Shape, Run
  <1>1. ASSUME NEW w \in Workers, Work(w), UNCHANGED briefs PROVE Unspent'
    <2>1. briefs[Run(w)] = "pass"
      BY <1>1, WorkKeepsStage DEF Governed
    <2>2. \A b \in Briefs : ledger'[b] = ledger[b] \/ b = Run(w)
      BY <1>0, <1>1, WorkFlies
    <2>3. QED
      BY <1>1, <2>1, <2>2 DEF Unspent
  <1>2. ASSUME NEW r \in Requests, Screened(r) PROVE Unspent'
    <2>1. CASE ~Free(Brief(r))
      BY <1>2, <2>1 DEF Screened, Unspent
    <2>2. CASE Free(Brief(r))
      <3>1. PICK decision \in Decisions : /\ briefs' = [briefs EXCEPT ![Brief(r)] = decision]
                                          /\ ledger' = [ledger EXCEPT ![Brief(r)] = @ + 1]
        BY <1>2, <2>2 DEF Screened
      <3>2. \A b \in Briefs : briefs'[b] = "none" =>
               b # Brief(r) /\ briefs[b] = "none" /\ ledger'[b] = ledger[b]
        BY <1>0, <3>1 DEF Decisions
      <3>3. QED
        BY <3>2 DEF Unspent
    <2>3. QED
      BY <2>1, <2>2
  <1>3. ASSUME UNCHANGED <<ledger, briefs>> PROVE Unspent'
    BY <1>3 DEF Unspent
  <1>4. QED
    BY <1>1, <1>2, <1>3
    DEF Next, DraftingNext, DraftingStep, Claim, WorkerDies, Retry, RetryRead, Serve,
        ScreenRaises, Submit, vars, draftingVars, books

LEMMA OverspentInvariant ==
    ASSUME RunBudget > 1 PROVE Spec => [](Unspent /\ OverspentBy)
  <1> DEFINE Kept == /\ Shape /\ Governed /\ DraftingTypeOK /\ AllSelected /\ Haltable
                     /\ \A w \in Workers : Within(workers[w])
  <1>1. Init => Unspent /\ OverspentBy
    <2> SUFFICES ASSUME Init PROVE Unspent /\ OverspentBy
      OBVIOUS
    <2>1. \A b \in Briefs : ledger[b] = 0
      BY DEF Init, DraftingInit
    <2>2. ASSUME NEW b \in Briefs PROVE \E last : Overspends(b, last)
      <3>1. PICK last : /\ DOMAIN last = {} /\ last \in [{} -> StagesOf[b]]
                        /\ 0 < RunBudget + SumOver(Cost(last), DOMAIN last)
        BY WithinBudget, DraftingAssumption
      <3>2. QED
        BY <2>1, <3>1 DEF Overspends
    <2>3. QED
      BY <2>1, <2>2 DEF Unspent, OverspentBy
  <1>2. Kept /\ Unspent /\ OverspentBy /\ [Next]_vars => (Unspent /\ OverspentBy)'
    <2> SUFFICES ASSUME Kept, Unspent, OverspentBy, [Next]_vars PROVE (Unspent /\ OverspentBy)'
      OBVIOUS
    <2>1. Unspent'
      BY StepUnspent
    <2>2. \A b \in Briefs \ astray' : \E last : Overspends(b, last)'
      BY StepOverspends
    <2>3. QED
      BY <2>1, <2>2 DEF OverspentBy
  <1>3. Spec => []Kept
    BY GovernedInvariant, TypedInvariant, SelectedInvariant, WithinInvariant, PTL
  <1>4. QED
    BY <1>1, <1>2, <1>3, PTL DEF Spec

(* Whatever the stages of a run spend, however often they are retried, and whether or
   not they fail after they have committed what they spent, a run overshoots its budget
   by no more than one stage to a worker: enforce_run_budget is asked before every claim,
   and a stage makes no more calls than its rounds and its deliverables.  The runs
   excepted are those that a retry, having read them before they settled, has left
   settled over a stage yet to run: there it is asked for nothing.  The budget is one
   that pays for more than the brief's own screening. *)
THEOREM OvershootIsBounded ==
    ASSUME RunBudget > 1 PROVE Spec => []OvershootBounded
  <1>1. OverspentBy => OvershootBounded
    <2> SUFFICES ASSUME OverspentBy, NEW b \in Briefs \ astray
                 PROVE  WithinAStage(b)
      BY DEF OvershootBounded
    <2>1. PICK last : Overspends(b, last)
      BY DEF OverspentBy
    <2>2. DOMAIN last \in SUBSET Workers /\ last \in [DOMAIN last -> StagesOf[b]]
      BY <2>1 DEF Overspends
    <2>3. FoldFunction(+, 0, Cost(last)) = SumOver(Cost(last), DOMAIN last)
      <3>1. DOMAIN Cost(last) = DOMAIN last
        BY DEF Cost
      <3>2. QED
        BY <3>1, FoldIsSum
    <2>4. ledger[b] < RunBudget
             + FoldFunction(+, 0, [w \in DOMAIN last |-> MostCalls[last[w]]])
      BY <2>1, <2>3 DEF Overspends, Cost
    <2>5. QED
      BY <2>2, <2>4 DEF WithinAStage
  <1>2. QED
    BY <1>1, OverspentInvariant, PTL
=============================================================================
