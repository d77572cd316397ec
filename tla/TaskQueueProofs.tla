-------------------------- MODULE TaskQueueProofs ---------------------------
(***************************************************************************)
(* Proofs, for every set of tasks, edges, workers and requests and every   *)
(* bound, that nothing but a re-open under way takes a run out of a halt;  *)
(* and, while leases do not outlive their workers, that, until somebody    *)
(* re-opens the run a second time, a stage is in one worker's hands and a  *)
(* parked one waits for its decision; that a settled run nobody re-opens   *)
(* is quiet; and, where stages do not land side by side, that one that is  *)
(* quiet settles.                                                          *)
(***************************************************************************)
EXTENDS TaskQueue, TLAPS

Rows == [state : TaskStates, lease : {"none", "live", "lapsed"}, attempts : 0 .. AttemptsCap]
Holders == [pc : PCs, task : Tasks, verdict : RunStates]
Requests == [pc : {"idle", "retrying", "reopening", "reopened"}, task : Tasks, run : RunStates]

(* What settle_run makes of what it reads. *)
LEMMA SettledFacts ==
    ASSUME NEW ts, NEW status \in RunStates
    PROVE  /\ Settled(ts, status) \in (RunStates \ {"halted_budget"}) \cup {status}
           /\ status # "running" => Settled(ts, status) = status
           /\ Settled(ts, status) # status =>
                /\ \A t \in Tasks : ts[t].state \notin Movable
                /\ Settled(ts, status) = "succeeded" =>
                      \A t \in Tasks : ts[t].state # "failed"
                /\ (\E t \in Tasks : ts[t].state = "failed") => Settled(ts, status) = "failed"
  <1> DEFINE states == {ts[t].state : t \in Tasks} \ {"absent"}
  <1>1. Settled(ts, status) =
          IF status # "running" \/ states = {} \/ states \cap Movable # {} THEN status
          ELSE IF "failed" \in states THEN "failed" ELSE "succeeded"
    BY DEF Settled
  <1>2. \A t \in Tasks : ts[t].state # "absent" => ts[t].state \in states
    OBVIOUS
  <1>3. "absent" \notin Movable
    BY DEF Movable, Leased
  <1> HIDE DEF states
  <1>4. QED
    BY <1>1, <1>2, <1>3 DEF RunStates

LEMMA IdleType == Idle \in Holders /\ NoTask \in Tasks /\ Idle.pc = "idle"
  BY TasksAssumption DEF Idle, NoTask, Holders, PCs, RunStates

LEMMA RowType ==
    ASSUME NEW state \in TaskStates
    PROVE  Row(state) \in Rows
  BY TasksAssumption DEF Row, Rows

LEMMA WriteType ==
    ASSUME NEW ts \in [Tasks -> Rows], NEW t \in Tasks, NEW state \in TaskStates
    PROVE  Write(ts, t, state) \in [Tasks -> Rows]
  BY DEF Write, Rows

(* The type of every variable is kept by every step. *)
LEMMA TypeStep == TypeOK /\ [Next]_vars => TypeOK'
  <1> SUFFICES ASSUME TypeOK, [Next]_vars PROVE TypeOK'
    OBVIOUS
  <1> USE DEF TypeOK
  <1>0. /\ tasks \in [Tasks -> Rows] /\ workers \in [Workers -> Holders]
        /\ Idle \in Holders /\ NoTask \in Tasks
        /\ operators \in [Operators -> Requests] /\ run \in RunStates
    BY IdleType DEF Rows, Holders, Requests
  <1>a. \A t \in Tasks : tasks[t] \in Rows
    BY <1>0
  <1>1. CASE UNCHANGED vars
    BY <1>1 DEF vars
  <1>2. ASSUME NEW w \in Workers, Claim(w) PROVE TypeOK'
    <2> PICK t \in Tasks :
          /\ tasks' = [tasks EXCEPT ![t].state = "claimed", ![t].lease = "live"]
          /\ workers' = [workers EXCEPT ![w] = [Idle EXCEPT !.pc = "claimed", !.task = t]]
      BY <1>2 DEF Claim
    <2>0. "claimed" \in TaskStates /\ "claimed" \in PCs
      BY DEF TaskStates, Movable, Leased, PCs
    <2>1. tasks' \in [Tasks -> Rows]
      BY <1>0, <2>0 DEF Rows
    <2>2. workers' \in [Workers -> Holders]
      BY <1>0, <2>0 DEF Holders
    <2>3. QED
      BY <1>2, <2>1, <2>2 DEF Claim, Rows, Holders
  <1>3. ASSUME NEW w \in Workers, Work(w) PROVE TypeOK'
    <2>0. workers[w] \in Holders /\ Task(w) \in Tasks /\ workers[w].verdict \in RunStates
      BY <1>0 DEF Holders, Task
    <2>a. \A pc \in PCs : Goto(w, pc) => workers' \in [Workers -> Holders]
      BY <1>0, <2>0 DEF Goto, Holders
    <2>b. Rest(w) => workers' \in [Workers -> Holders]
      BY <1>0 DEF Rest
    <2>c. "halted_budget" \in RunStates
      BY DEF RunStates
    <2>d. Spend => spent' \in BOOLEAN
      BY DEF Spend
    <2>e. {"claimed", "checking", "refused", "admitted", "handling", "released", "raising",
           "failing", "parked", "closing", "done", "summing", "settling"} \subseteq PCs
      BY DEF PCs
    <2>f. {"failed", "done", "running", "pending", "awaiting_approval"} \subseteq TaskStates
      BY DEF TaskStates, Movable, Leased
    <2>g. \A s \in {"failed", "done", "awaiting_approval"} :
             Write(tasks, Task(w), s) \in [Tasks -> Rows]
      BY <1>0, <2>0, <2>f, WriteType
    <2>1. CASE CheckBudget(w)
      BY <2>1, <2>a, <2>e DEF CheckBudget, Holders
    <2>2. CASE Refuse(w)
      BY <2>2, <2>b, <2>g DEF Refuse, Rows, Holders
    <2>3. CASE MarkRunning(w)
      <3>1. tasks' \in [Tasks -> Rows]
        BY <1>0, <2>3, <2>f DEF MarkRunning, Rows
      <3>2. workers' \in [Workers -> Holders]
        BY <1>0, <2>0, <2>3, <2>e DEF MarkRunning, Holders
      <3>3. QED
        BY <2>3, <3>1, <3>2 DEF MarkRunning, Rows, Holders
    <2>4. CASE Release(w)
      <3>1. PICK t \in Releases[Task(w)], verdict \in ReleaseVerdicts :
              tasks' = [tasks EXCEPT ![t].state = verdict[1]] /\ Goto(w, verdict[2])
        BY <2>4 DEF Release
      <3>2. verdict[1] \in TaskStates /\ verdict[2] \in PCs
        BY <2>e, <2>f DEF ReleaseVerdicts
      <3>3. tasks' \in [Tasks -> Rows]
        BY <1>0, <3>1, <3>2 DEF Rows
      <3>4. QED
        BY <2>4, <2>a, <3>1, <3>2, <3>3 DEF Release, Rows, Holders
    <2>5. CASE HandlerDone(w)
      <3>1. tasks' \in [Tasks -> Rows]
        <4>1. Row("pending") \in Rows
          BY <2>f, RowType
        <4>2. QED
          BY <2>5, <2>g, <4>1 DEF HandlerDone
      <3>2. QED
        BY <2>5, <2>a, <2>d, <2>e, <3>1 DEF HandlerDone, Rows, Holders
    <2>6. CASE HandlerParks(w)
      BY <2>6, <2>a, <2>d, <2>e, <2>g DEF HandlerParks, Rows, Holders
    <2>7. CASE HandlerRaises(w)
      <3>1. Settled(Write(tasks, Task(w), "failed"), "running") \in RunStates
        BY SettledFacts DEF RunStates
      <3>2. workers' \in [Workers -> Holders]
        BY <1>0, <2>0, <2>7, <2>e, <3>1 DEF HandlerRaises, Holders
      <3>3. QED
        BY <2>7, <2>d, <3>2 DEF HandlerRaises, Holders
    <2>8. CASE FailCommit(w)
      BY <2>0, <2>8, <2>b, <2>g DEF FailCommit, Rows, Holders
    <2>9. CASE RollUp(w)
      BY <2>9, <2>a, <2>b, <2>e DEF RollUp, Holders
    <2>12. CASE Enforce(w)
      <3>1. workers' \in [Workers -> Holders]
        BY <2>12, <2>a, <2>b, <2>e DEF Enforce
      <3>2. run' \in RunStates
        BY <1>0, <2>12, <2>c DEF Enforce
      <3>3. QED
        BY <2>12, <3>1, <3>2 DEF Enforce, Holders
    <2>10. CASE Settle(w)
      <3>1. Settled(tasks, run) \in RunStates
        BY SettledFacts
      <3>2. QED
        BY <2>10, <2>b, <3>1 DEF Settle, Holders
    <2>11. QED
      BY <1>3, <2>1, <2>2, <2>3, <2>4, <2>5, <2>6, <2>7, <2>8, <2>9, <2>10, <2>12 DEF Work
  <1>4. ASSUME NEW w \in Workers, Sweep(w) PROVE TypeOK'
    <2>1. tasks' \in [Tasks -> Rows]
      <3>1. ASSUME NEW t \in Tasks PROVE tasks'[t] \in Rows
        <4>0. tasks[t] \in Rows /\ {"failed", "pending"} \subseteq TaskStates
          BY <1>0 DEF TaskStates, Movable
        <4>1. CASE t \in Lapsed /\ PastCap(t)
          BY <1>4, <4>0, <4>1 DEF Sweep, Rows
        <4>2. CASE t \in Lapsed /\ ~PastCap(t)
          <5>1. tasks[t].attempts + 1 \in 0 .. AttemptsCap
            BY <4>0, <4>2, TasksAssumption DEF PastCap, Rows
          <5>2. tasks'[t] = [state |-> "pending", lease |-> "none",
                             attempts |-> tasks[t].attempts + 1]
            BY <1>4, <4>2 DEF Sweep
          <5>3. QED
            BY <4>0, <5>1, <5>2 DEF Rows
        <4>3. CASE t \notin Lapsed
          BY <1>4, <4>0, <4>3 DEF Sweep
        <4>4. QED
          BY <4>1, <4>2, <4>3
      <3>2. QED
        BY <1>4, <3>1 DEF Sweep
    <2>2. Settled(tasks', run) \in RunStates
      BY SettledFacts
    <2>3. QED
      BY <1>4, <2>1, <2>2 DEF Sweep, Rows
  <1>5. ASSUME NEW w \in Workers, Crash(w) PROVE TypeOK'
    <2>1. workers' \in [Workers -> Holders]
      BY <1>0, <1>5 DEF Crash, Rest
    <2>2. crashes' \in 0 .. MaxCrashes
      BY <1>5, TasksAssumption DEF Crash
    <2>3. QED
      BY <1>5, <2>1, <2>2 DEF Crash, Holders
  <1>6. CASE LeaseLapses
    <2>1. tasks' \in [Tasks -> Rows]
      BY <1>0, <1>6 DEF LeaseLapses, Rows
    <2>2. QED
      BY <1>6, <2>1 DEF LeaseLapses, Rows
  <1>7. CASE Decide
    <2>1. Row("pending") \in Rows
      BY RowType DEF TaskStates, Movable
    <2>2. tasks' \in [Tasks -> Rows]
      BY <1>0, <1>7, <2>1 DEF Decide, EnqueueResume, Enqueued, Resumes
    <2>3. QED
      BY <1>7, <2>2 DEF Decide, EnqueueResume, Rows
  <1>8. ASSUME NEW o \in Operators, RetryRead(o) \/ ReopenRead(o) PROVE TypeOK'
    <2>1. retries' \in 0 .. MaxRetries
      BY <1>8, TasksAssumption DEF RetryRead, ReopenRead
    <2>2. PICK pc \in {"retrying", "reopening"}, t \in Tasks : ReadsRun(o, pc, t)
      BY <1>8 DEF RetryRead, ReopenRead, Resumes
    <2>3. operators' \in [Operators -> Requests]
      BY <1>0, <2>2 DEF ReadsRun, Requests
    <2>4. QED
      BY <1>8, <2>1, <2>3 DEF RetryRead, ReopenRead, Requests
  <1>9. ASSUME NEW o \in Operators, Answer(o) PROVE TypeOK'
    <2>1. Row("pending") \in Rows
      BY RowType DEF TaskStates, Movable
    <2>2. operators[o] \in Requests /\ NoRetry \in Requests
      BY <1>0 DEF NoRetry, Requests, RunStates
    <2>3. tasks' \in [Tasks -> Rows]
      <3>1. CASE Reopen(o)
        BY <1>0, <3>1 DEF Reopen
      <3>2. CASE Retry(o) \/ ReopenEnqueues(o)
        <4>1. tasks' = [tasks EXCEPT ![operators[o].task] = Row("pending")]
          BY <3>2 DEF Retry, ReopenEnqueues, Enqueued
        <4>2. QED
          BY <1>0, <2>1, <4>1
      <3>3. QED
        BY <1>9, <3>1, <3>2 DEF Answer
    <2>4. operators' \in [Operators -> Requests]
      <3>1. CASE operators' = [operators EXCEPT ![o] = NoRetry]
        BY <1>0, <2>2, <3>1
      <3>2. CASE operators' = [operators EXCEPT ![o].pc = "reopened"]
        <4>1. [operators[o] EXCEPT !.pc = "reopened"] \in Requests
          BY <2>2 DEF Requests
        <4>2. QED
          BY <1>0, <3>2, <4>1
      <3>3. QED
        BY <1>9, <3>1, <3>2 DEF Answer, Retry, Reopen, ReopenEnqueues
    <2>5. run' \in RunStates
      BY <1>0, <1>9 DEF Answer, Retry, Reopen, ReopenEnqueues, Reopened, RunStates
    <2>6. QED
      BY <1>9, <2>3, <2>4, <2>5 DEF Answer, Retry, Reopen, ReopenEnqueues, Rows, Requests
  <1>10. QED
    BY <1>1, <1>2, <1>3, <1>4, <1>5, <1>6, <1>7, <1>8, <1>9 DEF Next, OperatorStep

LEMMA OperatorStepLeaves ==
    ASSUME OperatorStep
    PROVE  /\ UNCHANGED <<spent, workers, crashes>>
           /\ retries' = retries \/ retries' = retries + 1
  BY DEF OperatorStep, RetryRead, ReopenRead, Answer, Retry, Reopen, ReopenEnqueues

LEMMA TypeInit == Init => TypeOK
  <1> SUFFICES ASSUME Init PROVE TypeOK
    OBVIOUS
  <1>1. \A t \in Tasks : Row(IF t \in Roots THEN "pending" ELSE "absent") \in Rows
    BY RowType DEF TaskStates, Movable
  <1>2. tasks \in [Tasks -> Rows] /\ workers \in [Workers -> Holders]
    BY <1>1, IdleType DEF Init
  <1>3. operators \in [Operators -> Requests]
    BY IdleType DEF Init, NoRetry, RunStates, Requests
  <1>4. spent \in BOOLEAN
    BY Zenon DEF Init
  <1>5. run \in RunStates /\ crashes \in 0 .. MaxCrashes /\ retries \in 0 .. MaxRetries
    BY TasksAssumption, SMT DEF Init, RunStates
  <1>6. QED
    BY <1>2, <1>3, <1>4, <1>5 DEF TypeOK, Rows, Holders, Requests

(* Every reachable state of the queue is well typed: the attempts of a task never
   pass the cap, whatever sweeps, retries and crashes it goes through. *)
THEOREM TypeCorrect == Spec => []TypeOK
  BY TypeInit, TypeStep, PTL DEF Spec

-----------------------------------------------------------------------------
(* Out of a halt. *)

(* A request that is about to write `running` over what it read settled. *)
Lifts(o) ==
    /\ operators[o].pc \in {"retrying", "reopening"}
    /\ operators[o].run \in {"succeeded", "failed"}
    /\ operators'[o] # operators[o]

LEMMA HaltStep ==
    ASSUME TypeOK, [Next]_vars, run = "halted_budget", run' # "halted_budget"
    PROVE  \E o \in Operators : Lifts(o)
  <1>0. operators \in [Operators -> Requests]
    BY DEF TypeOK, Requests
  <1>1. ~UNCHANGED vars
    BY DEF vars
  <1>2. \A ts : Settled(ts, run) = run
    BY SettledFacts DEF RunStates
  <1>3. ASSUME NEW w \in Workers PROVE ~(Claim(w) \/ Work(w) \/ Sweep(w) \/ Crash(w))
    <2>a. Settled(tasks, run) = run /\ Settled(tasks', run) = run
      BY <1>2
    <2>b. Sweep(w) => run' \in {run, Settled(tasks', run)}
      BY DEF Sweep
    <2>1. ~Sweep(w) /\ ~Settle(w) /\ ~FailCommit(w)
      BY <2>a, <2>b DEF Settle, FailCommit
    <2>2. ~Claim(w) /\ ~Crash(w)
      BY DEF Claim, Crash
    <2>3. QED
      BY <2>1, <2>2 DEF Work, CheckBudget, Refuse, MarkRunning, Release, HandlerDone,
         HandlerParks, HandlerRaises, RollUp, Enforce
  <1>4. ~LeaseLapses /\ ~Decide
    BY DEF LeaseLapses, Decide, EnqueueResume
  <1>5. PICK o \in Operators : RetryRead(o) \/ ReopenRead(o) \/ Answer(o)
    BY <1>1, <1>3, <1>4 DEF Next, OperatorStep
  <1>6. Retry(o) \/ Reopen(o)
    BY <1>5 DEF RetryRead, ReopenRead, Answer, ReopenEnqueues
  <1>7. operators[o].pc \in {"retrying", "reopening"} /\ run' = Reopened(operators[o].run)
    BY <1>6 DEF Retry, Reopen, Asking
  <1>8. operators'[o].pc \in {"idle", "reopened"}
    BY <1>0, <1>6 DEF Retry, Reopen, NoRetry, Requests
  <1>9. QED
    BY <1>7, <1>8 DEF Lifts, Reopened

(* No settle, sweep, failure, rollup or crash takes a halted run out of its halt,
   whatever they read before the halt: only a retry or a re-verification does, whose
   request had read the run settled. *)
THEOREM HaltSafe == Spec => HaltYieldsToReopenOnly
  <1>1. TypeOK /\ [Next]_vars
          => [run = "halted_budget" /\ run' # "halted_budget" =>
                 \E o \in Operators : /\ operators[o].pc \in {"retrying", "reopening"}
                                      /\ operators[o].run \in {"succeeded", "failed"}
                                      /\ operators'[o] # operators[o]]_vars
    BY HaltStep DEF Lifts
  <1>2. QED
    BY TypeCorrect, <1>1, PTL DEF Spec, HaltYieldsToReopenOnly

-----------------------------------------------------------------------------
(* Until somebody re-opens the run, and while leases do not outlive workers. *)

(* enforce_run_budget before a stage, and after one. *)
Checks(w) == At(w, "checking") /\ Enforce(w)
RollsUp(w) == RollUp(w) \/ (~At(w, "checking") /\ Enforce(w)) \/ Settle(w)

NobodyAsks == \A o \in Operators : Asking(o, "idle")

LEMMA NobodySteps ==
    ASSUME NobodyAsks, retries = 0, retries' = 0
    PROVE  ~OperatorStep
  BY DEF NobodyAsks, Asking, OperatorStep, RetryRead, ReopenRead, Answer, Retry, Reopen,
     ReopenEnqueues

LEMMA HaltStays ==
    ASSUME TypeOK, NobodyAsks, Next, run = "halted_budget"
    PROVE  run' = "halted_budget"
  BY HaltStep DEF NobodyAsks, Asking, Lifts

(* The two bounds of the model only ever grow. *)
LEMMA CountersGrow ==
    ASSUME Next
    PROVE  /\ retries' = retries \/ retries' = retries + 1
           /\ crashes' = crashes \/ crashes' = crashes + 1
  BY OperatorStepLeaves DEF Next, Claim, Work, CheckBudget, Refuse, MarkRunning, Release,
     HandlerDone, HandlerParks, HandlerRaises, FailCommit, RollUp, Enforce, Settle, Sweep,
     Crash, LeaseLapses, Decide, EnqueueResume

(* What a worker has in its hands is leased to it. *)
HeldRows ==
    \A w \in Workers : \A t \in Tasks :
        Owner(w, t) => State(t) \in Leased /\ tasks[t].lease = "live"

(* A stage whose `resume` task exists has parked, or has landed since. *)
ParkedOnce ==
    \A r \in Resumes : \A t \in Releases[r] :
        State(r) # "absent" => State(t) \in {"awaiting_approval", "done", "failed"}

Held == NobodyAsks /\ HeldRows /\ OneWorkerPerTask /\ ParkedOnce

(* A failing worker that is about to settle its run has read that nothing else
   can move, and nothing else has moved since. *)
FailuresRead ==
    \A w \in Workers : At(w, "failing") /\ workers[w].verdict # "running" =>
        /\ workers[w].verdict = "failed"
        /\ \A t \in Tasks : t # Task(w) => State(t) \notin Movable

QueueInv == Unretried => Held /\ FailuresRead /\ SettledIsQuiet

(* A step that leaves the rows of others alone, and hands no row to a worker but
   the one that already has it. *)
LEMMA KeepsHeld ==
    ASSUME TypeOK, Held, UNCHANGED operators,
           NEW w \in Workers,
           \A v \in Workers : v # w => workers'[v] = workers[v],
           \A t \in Tasks : Owner(w, t)' => Owner(w, t) /\ tasks'[t].state \in Leased
                                                       /\ tasks'[t].lease = "live",
           \A v \in Workers : \A t \in Tasks : v # w /\ Owner(v, t) => tasks'[t] = tasks[t],
           \A t \in Tasks : State(t) \in {"awaiting_approval", "done", "failed"}
               => tasks'[t].state \in {"awaiting_approval", "done", "failed"},
           \A r \in Resumes : State(r) = "absent" => tasks'[r].state = "absent"
    PROVE  Held'
  <1>0. TasksAssumption /\ Resumes \subseteq Tasks
    BY TasksAssumption DEF Resumes
  <1>1. HeldRows'
    BY DEF Held, HeldRows, Owner, Task, State
  <1>2. OneWorkerPerTask'
    BY DEF Held, OneWorkerPerTask, Owner, Task
  <1>3. ParkedOnce'
    BY <1>0 DEF Held, ParkedOnce, State, TasksAssumption, Resumes
  <1>4. QED
    BY <1>1, <1>2, <1>3 DEF Held, NobodyAsks, Asking

LEMMA HeldStep ==
    ASSUME PunctualWorkers, TypeOK, TypeOK', Held, retries = 0, retries' = 0, Next
    PROVE  Held'
  <1>0. /\ \A t \in Tasks : tasks[t] \in Rows /\ DOMAIN tasks = Tasks
        /\ \A w \in Workers : workers[w] \in Holders /\ Task(w) \in Tasks
        /\ DOMAIN workers = Workers
    BY DEF TypeOK, Rows, Holders, Task
  <1>1. ASSUME NEW w \in Workers, Claim(w) PROVE Held'
    <2> PICK t \in Tasks :
          /\ Claimable(t)
          /\ tasks' = [tasks EXCEPT ![t].state = "claimed", ![t].lease = "live"]
          /\ workers' = [workers EXCEPT ![w] = [Idle EXCEPT !.pc = "claimed", !.task = t]]
      BY <1>1 DEF Claim
    <2>1. State(t) = "pending" /\ \A v \in Workers : ~Owner(v, t)
      BY DEF Claimable, Held, HeldRows, Leased
    <2>2. workers'[w].task = t /\ \A v \in Workers : v # w => workers'[v] = workers[v]
      BY <1>0, IdleType DEF Holders
    <2>3. /\ tasks'[t].state \in Leased /\ tasks'[t].lease = "live"
          /\ \A s \in Tasks : s # t => tasks'[s] = tasks[s]
      BY <1>0 DEF Rows, Leased
    <2>4. ASSUME NEW v \in Workers, NEW s \in Tasks, Owner(v, s)'
          PROVE  tasks'[s].state \in Leased /\ tasks'[s].lease = "live"
      <3>1. CASE v = w
        BY <2>2, <2>3, <2>4, <3>1 DEF Owner, Task
      <3>2. CASE v # w
        <4>1. Owner(v, s)
          BY <2>2, <2>4, <3>2 DEF Owner, Task
        <4>2. QED
          BY <2>1, <2>3, <4>1 DEF Held, HeldRows, State
      <3>3. QED
        BY <3>1, <3>2
    <2>5. OneWorkerPerTask'
      BY <2>1, <2>2 DEF Held, OneWorkerPerTask, Owner, Task
    <2>6. ParkedOnce'
      BY <2>1, <2>3, TasksAssumption DEF Held, ParkedOnce, State, Resumes
    <2>7. QED
      BY <1>1, <2>4, <2>5, <2>6 DEF Held, HeldRows, NobodyAsks, Asking, State, Claim
  <1>2. ASSUME NEW w \in Workers, Work(w) PROVE Held'
    <2> DEFINE t == Task(w)
    <2>0. /\ workers[w] \in Holders /\ t \in Tasks /\ tasks[t] \in Rows
          /\ operators' = operators
          /\ \A v \in Workers : v # w => workers'[v] = workers[v]
      BY <1>0, <1>2 DEF Work, CheckBudget, Refuse, MarkRunning, Release, HandlerDone, HandlerParks,
           HandlerRaises, FailCommit, RollUp, Enforce, Settle, Goto, Rest
    <2>1. ASSUME workers[w].pc \in PCs \ {"idle", "done", "parked", "summing", "closing", "settling"}
          PROVE  /\ Owner(w, t)
                 /\ State(t) \in Leased /\ tasks[t].lease = "live"
                 /\ \A v \in Workers : v # w => ~Owner(v, t)
      BY <2>0, <2>1 DEF Held, HeldRows, OneWorkerPerTask, Owner
    <2>2. CASE CheckBudget(w) \/ Checks(w) \/ MarkRunning(w) \/ HandlerRaises(w)
      <3>1. workers[w].pc \in PCs \ {"idle", "done", "parked", "summing", "closing", "settling"}
        BY <2>2 DEF CheckBudget, Checks, MarkRunning, HandlerRaises, At, PCs
      <3>2. workers'[w].task = t
        BY <2>0, <2>2 DEF CheckBudget, Checks, Enforce, At, MarkRunning, HandlerRaises, Goto, Holders, Task, TypeOK
      <3>3. /\ tasks'[t].state \in Leased /\ tasks'[t].lease = "live"
            /\ \A s \in Tasks : s # t => tasks'[s] = tasks[s]
        BY <1>0, <2>0, <2>1, <2>2, <3>1
        DEF CheckBudget, Checks, Enforce, MarkRunning, HandlerRaises, Leased, State, Rows
      <3>4. QED
        <4>1. \A s \in Tasks : Owner(w, s)' => s = t
          BY <3>2 DEF Owner, Task
        <4>2. Owner(w, t) /\ \A v \in Workers : v # w => ~Owner(v, t)
          BY <2>1, <3>1
        <4>3. State(t) \in Leased
          BY <2>1, <3>1
        <4>4. \A s \in Tasks : State(s) \in {"awaiting_approval", "done", "failed", "absent"}
                               => tasks'[s] = tasks[s]
          BY <3>3, <4>3 DEF State, Leased
        <4>5. QED
          BY <2>0, <3>3, <4>1, <4>2, <4>4, KeepsHeld DEF State, Resumes
    <2>3. CASE Refuse(w) \/ HandlerDone(w) \/ HandlerParks(w) \/ FailCommit(w)
      <3>1. workers[w].pc \in PCs \ {"idle", "done", "parked", "summing", "closing", "settling"}
        BY <2>3 DEF Refuse, HandlerDone, HandlerParks, FailCommit, At, PCs
      <3>2. workers'[w].pc \in {"idle", "done", "parked"}
        BY <1>0, <2>0, <2>3, IdleType
        DEF Refuse, HandlerDone, HandlerParks, FailCommit, Goto, Rest, Holders
      <3>3. \A s \in Tasks : s # t /\ tasks'[s] # tasks[s]
                                => State(s) = "absent" /\ s \notin Resumes
        <4>1. CASE HandlerDone(w)
          <5>1. ASSUME NEW s \in Tasks, s # t, tasks'[s] # tasks[s]
                PROVE  State(s) = "absent" /\ s \notin Resumes
            <6>1. Write(tasks, t, "done")[s] = tasks[s]
              BY <1>0, <5>1 DEF Write
            <6>2. tasks'[s] = IF s \in Spawns[t] /\ State(s) = "absent" THEN Row("pending")
                             ELSE Write(tasks, t, "done")[s]
              BY <4>1 DEF HandlerDone
            <6>3. s \in Spawns[t] => s \notin Resumes
              BY <2>0, ResumesAssumption
            <6>4. QED
              BY <5>1, <6>1, <6>2, <6>3
          <5>2. QED
            BY <5>1
        <4>2. CASE ~HandlerDone(w)
          <5>1. \E state \in TaskStates : tasks' = Write(tasks, t, state)
            BY <2>3, <4>2 DEF Refuse, HandlerParks, FailCommit, TaskStates, Movable
          <5>2. QED
            BY <1>0, <5>1 DEF Write
        <4>3. QED
          BY <4>1, <4>2
      <3>4. tasks'[t].state \in {"awaiting_approval", "done", "failed"} /\ State(t) \in Leased
        <4>1. CASE HandlerDone(w)
          <5>1. State(t) \in Leased
            BY <2>1, <3>1
          <5>2. tasks'[t] = Write(tasks, t, "done")[t]
            BY <2>0, <4>1, <5>1 DEF HandlerDone, Leased
          <5>3. QED
            BY <1>0, <2>0, <5>1, <5>2 DEF Write, Rows
        <4>2. CASE ~HandlerDone(w)
          <5>1. \E state \in {"failed", "awaiting_approval"} : tasks' = Write(tasks, t, state)
            BY <2>3, <4>2 DEF Refuse, HandlerParks, FailCommit
          <5>2. QED
            BY <1>0, <2>0, <2>1, <3>1, <5>1 DEF Write, Rows
        <4>3. QED
          BY <4>1, <4>2
      <3>5. \A s \in Tasks : ~Owner(w, s)'
        BY <3>2 DEF Owner
      <3>6. \A v \in Workers : \A s \in Tasks : v # w /\ Owner(v, s) => tasks'[s] = tasks[s]
        <4>1. ASSUME NEW v \in Workers, NEW s \in Tasks, v # w, Owner(v, s)
              PROVE  tasks'[s] = tasks[s]
          <5>1. s # t
            BY <2>1, <3>1, <4>1
          <5>2. State(s) # "absent"
            BY <4>1 DEF Held, HeldRows, Leased
          <5>3. QED
            BY <3>3, <5>1, <5>2
        <4>2. QED
          BY <4>1
      <3>7. \A s \in Tasks : State(s) \in {"awaiting_approval", "done", "failed"}
                => tasks'[s].state \in {"awaiting_approval", "done", "failed"}
        BY <3>3, <3>4 DEF State
      <3>8. \A r \in Resumes : State(r) = "absent" => tasks'[r].state = "absent"
        BY <3>3, <3>4 DEF State, Leased, Resumes
      <3>9. QED
        BY <2>0, <3>5, <3>6, <3>7, <3>8, KeepsHeld
    <2>4. CASE Release(w)
      <3>1. PICK s \in Releases[t], verdict \in ReleaseVerdicts :
              tasks' = [tasks EXCEPT ![s].state = verdict[1]] /\ Goto(w, verdict[2])
        BY <2>4 DEF Release
      <3>2. workers[w].pc \in PCs \ {"idle", "done", "parked", "summing", "closing", "settling"}
        BY <2>4 DEF Release, At, PCs
      <3>3. t \in Resumes /\ s \in Tasks /\ s \notin Resumes
        BY <2>0, TasksAssumption, ResumesAssumption DEF Resumes
      <3>4. State(s) \in {"awaiting_approval", "done", "failed"}
        BY <2>0, <2>1, <3>2, <3>3 DEF Held, ParkedOnce, Leased
      <3>5. s # t /\ \A v \in Workers : ~Owner(v, s)
        BY <3>3, <3>4 DEF Held, HeldRows, Leased
      <3>6. /\ verdict[1] \in {"done", "failed"} /\ verdict[2] \in {"released", "raising"}
            /\ tasks'[s].state = verdict[1]
            /\ \A u \in Tasks : u # s => tasks'[u] = tasks[u]
            /\ workers'[w].task = t
        BY <1>0, <2>0, <3>1, <3>3 DEF ReleaseVerdicts, Goto, Rows, Holders, Task
      <3>7. QED
        <4>1. \A u \in Tasks : Owner(w, u)' => u = t
          BY <3>6 DEF Owner, Task
        <4>2. Owner(w, t) /\ State(t) \in Leased /\ tasks[t].lease = "live"
          BY <2>1, <3>2
        <4>3. tasks'[t] = tasks[t]
          BY <2>0, <3>5, <3>6
        <4>4. \A u \in Tasks : Owner(w, u)' => Owner(w, u) /\ tasks'[u].state \in Leased
                                                        /\ tasks'[u].lease = "live"
          BY <4>1, <4>2, <4>3 DEF State
        <4>5. \A v \in Workers : \A u \in Tasks : v # w /\ Owner(v, u) => tasks'[u] = tasks[u]
          BY <3>5, <3>6
        <4>6. \A u \in Tasks : State(u) \in {"awaiting_approval", "done", "failed"}
                => tasks'[u].state \in {"awaiting_approval", "done", "failed"}
          BY <3>6 DEF State
        <4>7. \A r \in Resumes : State(r) = "absent" => tasks'[r].state = "absent"
          BY <3>3, <3>6 DEF State, Resumes
        <4>8. QED
          BY <2>0, <4>4, <4>5, <4>6, <4>7, KeepsHeld
    <2>5. CASE RollsUp(w)
      <3>1. workers'[w].pc \in {"idle", "summing", "closing", "settling"} /\ tasks' = tasks
        BY <1>0, <2>0, <2>5, IdleType DEF RollsUp, Checks, RollUp, Enforce, Settle, Goto, Rest, Holders
      <3>2. QED
        BY <2>0, <3>1, KeepsHeld DEF Owner, State
    <2>6. QED
      BY <1>2, <2>2, <2>3, <2>4, <2>5 DEF Work, Checks, RollsUp
  <1>3. ASSUME NEW w \in Workers, Sweep(w) PROVE Held'
    <2>1. \A t \in Tasks : t \notin Lapsed => tasks'[t] = tasks[t]
      BY <1>3 DEF Sweep
    <2>2. \A t \in Lapsed : State(t) \in Leased /\ \A v \in Workers : ~Owner(v, t)
      BY DEF Lapsed, Held, HeldRows
    <2>3. workers' = workers /\ operators' = operators
      BY <1>3 DEF Sweep
    <2>4. QED
      BY <1>3, <2>1, <2>2, <2>3, KeepsHeld DEF Held, HeldRows, Owner, Task, State, Leased, Resumes
  <1>4. ASSUME NEW w \in Workers, Crash(w) PROVE Held'
    <2>1. /\ workers'[w].pc = "idle" /\ tasks' = tasks /\ operators' = operators
          /\ \A v \in Workers : v # w => workers'[v] = workers[v]
      BY <1>0, <1>4, IdleType DEF Crash, Rest
    <2>2. QED
      BY <1>4, <2>1, KeepsHeld DEF Owner, State
  <1>5. CASE LeaseLapses
    <2> PICK t \in Tasks : /\ \A w \in Workers : ~Owner(w, t)
                          /\ tasks' = [tasks EXCEPT ![t].lease = "lapsed"]
      BY <1>5 DEF LeaseLapses
    <2>1. /\ \A s \in Tasks : tasks'[s].state = tasks[s].state
          /\ \A s \in Tasks : s # t => tasks'[s] = tasks[s]
          /\ workers' = workers /\ operators' = operators
      BY <1>0, <1>5 DEF LeaseLapses, Rows
    <2>2. QED
      BY <2>1, TasksAssumption
      DEF Held, NobodyAsks, Asking, HeldRows, OneWorkerPerTask, ParkedOnce, Owner, Task, State,
          Resumes
  <1>6. CASE Decide
    <2> PICK r \in Resumes : \E s \in Releases[r] :
                               State(s) = "awaiting_approval" /\ EnqueueResume(r)
      BY <1>6 DEF Decide
    <2> PICK s \in Releases[r] : State(s) = "awaiting_approval" /\ EnqueueResume(r)
      OBVIOUS
    <2>1. /\ State(r) = "absent" /\ r \in Tasks /\ s \in Tasks
          /\ \A t \in Tasks : t # r => tasks'[t] = tasks[t]
          /\ workers' = workers /\ operators' = operators
      BY <1>0, TasksAssumption DEF EnqueueResume, Enqueued, Resumes
    <2>2. \A w \in Workers : ~Owner(w, r)
      BY <2>1 DEF Held, HeldRows, Leased
    <2>3. HeldRows' /\ OneWorkerPerTask'
      BY <2>1, <2>2 DEF Held, HeldRows, OneWorkerPerTask, Owner, Task, State
    <2>4. ASSUME NEW q \in Resumes, NEW t \in Releases[q], tasks'[q].state # "absent"
          PROVE  tasks'[t].state \in {"awaiting_approval", "done", "failed"}
      <3>1. t \in Tasks /\ t \notin Resumes /\ q \in Tasks
        BY <2>4, TasksAssumption, ResumesAssumption DEF Resumes
      <3>2. CASE q = r
        BY <2>1, <3>1, <3>2, ResumesAssumption DEF State
      <3>3. CASE q # r
        BY <2>1, <2>4, <3>1, <3>3 DEF Held, ParkedOnce, State
      <3>4. QED
        BY <3>2, <3>3
    <2>5. QED
      BY <2>1, <2>3, <2>4 DEF Held, NobodyAsks, Asking, ParkedOnce, State, Resumes
  <1>7. ~OperatorStep
    BY NobodySteps DEF Held
  <1>8. QED
    BY <1>1, <1>2, <1>3, <1>4, <1>5, <1>6, <1>7 DEF Next

(* Where only the workers in V hold a stage that can move, the others have none
   to claim, to sweep, to decide on or to write: they only roll up and settle. *)
LEMMA OthersRest ==
    ASSUME TypeOK, Held, NEW V \in SUBSET Workers,
           \A t \in Tasks : State(t) \in Movable => \E v \in V : Owner(v, t)
    PROVE  /\ \A w \in Workers : ~Claim(w) /\ ~Sweep(w)
           /\ \A w \in Workers \ V : Work(w) => tasks' = tasks /\ RollsUp(w)
           /\ ~Decide
  <1>0. \A t \in Tasks : \A v \in Workers :
          Owner(v, t) => State(t) \in Leased /\ tasks[t].lease = "live"
    BY DEF Held, HeldRows
  <1>1. ASSUME NEW w \in Workers, Claim(w) PROVE FALSE
    BY <1>0, <1>1 DEF Claim, Claimable, Movable, Leased
  <1>2. ASSUME NEW w \in Workers, Sweep(w) PROVE FALSE
    BY <1>0, <1>2 DEF Sweep, Lapsed, Movable
  <1>3. ASSUME NEW w \in Workers \ V, Work(w)
        PROVE  tasks' = tasks /\ RollsUp(w)
    <2>1. Task(w) \in Tasks
      BY DEF TypeOK, Task
    <2>2. workers[w].pc \notin PCs \ {"idle", "done", "parked", "summing", "closing", "settling"}
      <3>1. SUFFICES ASSUME workers[w].pc \in PCs \ {"idle", "done", "parked", "summing", "closing", "settling"}
                     PROVE  FALSE
        OBVIOUS
      <3>2. Owner(w, Task(w))
        BY <3>1 DEF Owner
      <3>3. QED
        BY <1>0, <2>1, <3>2 DEF Held, OneWorkerPerTask, Movable
    <2>3. QED
      BY <1>3, <2>2
      DEF Work, CheckBudget, Refuse, MarkRunning, Release, HandlerDone, HandlerParks,
          HandlerRaises, FailCommit, RollUp, Enforce, Settle, RollsUp, At, PCs
  <1>4. ~Decide
    BY <1>0, TasksAssumption DEF Decide, Movable, Leased, Resumes
  <1>5. QED
    BY <1>1, <1>2, <1>3, <1>4

(* A worker that is failing after a step was failing before, with the same
   verdict, or has just raised. *)
LEMMA FailingStays ==
    ASSUME TypeOK, Next, NEW v \in Workers, workers'[v].pc = "failing", ~HandlerRaises(v)
    PROVE  workers'[v] = workers[v]
  <1>0. workers \in [Workers -> Holders]
    BY DEF TypeOK, Holders
  <1>1. ASSUME NEW w \in Workers, Claim(w) \/ Work(w) \/ Crash(w), v # w
        PROVE  workers'[v] = workers[v]
    BY <1>0, <1>1 DEF Claim, Work, CheckBudget, Refuse, MarkRunning, Release, HandlerDone,
       HandlerParks, HandlerRaises, FailCommit, RollUp, Enforce, Settle, Crash, Goto, Rest
  <1>2. workers[v] \in Holders
    BY <1>0
  <1>3. ~Claim(v) /\ ~Crash(v)
    <2>1. ~Crash(v)
      BY <1>0, IdleType DEF Crash, Rest
    <2>2. Claim(v) => workers'[v].pc = "claimed"
      BY <1>0 DEF Claim, Idle
    <2>3. QED
      BY <2>1, <2>2
  <1>4. ~Refuse(v) /\ ~FailCommit(v) /\ ~Settle(v)
    BY <1>0, <1>2, IdleType DEF Refuse, FailCommit, Settle, Rest
  <1>5. ~CheckBudget(v) /\ ~MarkRunning(v) /\ ~HandlerDone(v) /\ ~HandlerParks(v)
    BY <1>0, <1>2 DEF CheckBudget, MarkRunning, HandlerDone, HandlerParks, Goto, Holders
  <1>6. ~RollUp(v)
    BY <1>0, <1>2, IdleType DEF RollUp, Goto, Rest, Holders
  <1>7. ~Release(v)
    BY <1>0, <1>2 DEF Release, ReleaseVerdicts, Goto, Holders
  <1>8. ~Enforce(v)
    BY <1>0, <1>2, IdleType DEF Enforce, Goto, Rest, Holders
  <1>9. ~Work(v)
    BY <1>4, <1>5, <1>6, <1>7, <1>8 DEF Work
  <1>10. QED
    BY <1>1, <1>3, <1>9, OperatorStepLeaves DEF Next, Sweep, LeaseLapses, Decide, EnqueueResume

LEMMA FailuresReadStep ==
    ASSUME PunctualWorkers, TypeOK, Held, FailuresRead, retries = 0, retries' = 0, Next
    PROVE  FailuresRead'
  <1>0. /\ tasks \in [Tasks -> Rows] /\ workers \in [Workers -> Holders]
        /\ \A w \in Workers : Task(w) \in Tasks
    BY DEF TypeOK, Rows, Holders, Task
  <1>1. SUFFICES ASSUME NEW v \in Workers,
                        workers'[v].pc = "failing", workers'[v].verdict # "running"
                 PROVE  /\ workers'[v].verdict = "failed"
                        /\ \A t \in Tasks : t # workers'[v].task => tasks'[t].state \notin Movable
    BY DEF FailuresRead, At, Task, State
  <1>2. CASE HandlerRaises(v)
    <2> DEFINE landed == Write(tasks, Task(v), "failed")
    <2>1. /\ workers'[v].task = Task(v) /\ tasks' = tasks
          /\ workers'[v].verdict = Settled(landed, "running")
      BY <1>0, <1>2 DEF HandlerRaises, Holders, Task
    <2>2. /\ landed[Task(v)].state = "failed"
          /\ \A t \in Tasks : t # Task(v) => landed[t] = tasks[t]
      BY <1>0 DEF Write, Rows
    <2> HIDE DEF landed
    <2>3. Settled(landed, "running") # "running"
      BY <1>1, <2>1
    <2>4. /\ \A t \in Tasks : landed[t].state \notin Movable
          /\ (\E t \in Tasks : landed[t].state = "failed")
                => Settled(landed, "running") = "failed"
      BY <2>3, SettledFacts DEF RunStates
    <2>5. QED
      BY <1>0, <2>1, <2>2, <2>4
  <1>3. CASE ~HandlerRaises(v)
    <2>1. workers'[v] = workers[v]
      BY <1>1, <1>3, FailingStays
    <2>2. /\ At(v, "failing") /\ Owner(v, Task(v)) /\ workers'[v].task = Task(v)
          /\ workers[v].verdict = "failed"
          /\ \A t \in Tasks : t # Task(v) => State(t) \notin Movable
      BY <1>0, <1>1, <2>1 DEF FailuresRead, At, Owner, PCs, Task
    <2>3. \A t \in Tasks : State(t) \in Movable => \E u \in {v} : Owner(u, t)
      BY <2>2
    <2>4. \A t \in Tasks : tasks'[t].state = tasks[t].state
      <3>1. /\ \A w \in Workers : ~Claim(w) /\ ~Sweep(w)
            /\ \A w \in Workers \ {v} : Work(w) => tasks' = tasks
            /\ ~Decide
        BY <2>3, OthersRest
      <3>2. ~Work(v)
        <4>1. SUFFICES ASSUME Work(v) PROVE FALSE
          OBVIOUS
        <4>2. FailCommit(v)
          BY <1>3, <2>2, <4>1 DEF Work, CheckBudget, Refuse, MarkRunning, Release, HandlerDone,
             HandlerParks, HandlerRaises, RollUp, Enforce, Settle, At
        <4>3. QED
          BY <1>0, <1>1, <4>2, IdleType DEF FailCommit, Rest
      <3>3. LeaseLapses => \A t \in Tasks : tasks'[t].state = tasks[t].state
        BY <1>0 DEF LeaseLapses, Rows
      <3>4. \A w \in Workers : Crash(w) => tasks' = tasks
        BY DEF Crash
      <3>5. ~OperatorStep
        BY NobodySteps DEF Held
      <3>6. QED
        BY <3>1, <3>2, <3>3, <3>4, <3>5 DEF Next
    <2>5. QED
      BY <2>1, <2>2, <2>4 DEF State
  <1>4. QED
    BY <1>2, <1>3

LEMMA SettledIsQuietStep ==
    ASSUME PunctualWorkers, TypeOK, Held, FailuresRead, SettledIsQuiet,
           retries = 0, retries' = 0, Next
    PROVE  SettledIsQuiet'
  <1>0. tasks \in [Tasks -> Rows] /\ run \in RunStates /\ \A w \in Workers : Task(w) \in Tasks
    BY DEF TypeOK, Rows, Task
  <1> DEFINE Quiet(ts, status) ==
               /\ status \in {"succeeded", "failed"} => \A t \in Tasks : ts[t].state \notin Movable
               /\ status = "succeeded" => \A t \in Tasks : ts[t].state # "failed"
  <1>1. Quiet(tasks, run)
    BY DEF SettledIsQuiet, Unretried, NoneMovable, State
  <1>2. SUFFICES Quiet(tasks', run')
    BY DEF SettledIsQuiet, Unretried, NoneMovable, State
  <1>3. ~OperatorStep
    BY NobodySteps DEF Held
  <1>4. LeaseLapses \/ (\E w \in Workers : Crash(w)) =>
          run' = run /\ \A t \in Tasks : tasks'[t].state = tasks[t].state
    BY <1>0 DEF LeaseLapses, Crash, Rows
  (* A settled run: no worker has anything left but to roll up and settle. *)
  <1>5. CASE run \in {"succeeded", "failed"}
    <2>1. \A t \in Tasks : State(t) \in Movable => \E v \in {} : Owner(v, t)
      BY <1>1, <1>5 DEF State
    <2>2. /\ \A w \in Workers : ~Claim(w) /\ ~Sweep(w)
          /\ \A w \in Workers : Work(w) => tasks' = tasks /\ RollsUp(w)
          /\ ~Decide
      BY <2>1, OthersRest
    <2>3. \A w \in Workers : RollsUp(w) => run' \in {run, "halted_budget"}
      BY <1>0, <1>5, SettledFacts DEF RollsUp, RollUp, Enforce, Settle
    <2>4. /\ run' \in {run, "halted_budget"}
          /\ \A t \in Tasks : tasks'[t].state = tasks[t].state
      BY <1>3, <1>4, <2>2, <2>3 DEF Next
    <2>5. QED
      BY <1>1, <2>4
  <1>6. CASE run = "halted_budget"
    <2>1. run' = "halted_budget"
      BY <1>6, HaltStays DEF Held
    <2>2. QED
      BY <2>1
  (* A run that is settled by this step. *)
  <1>7. CASE run = "running"
    <2>1. ASSUME NEW w \in Workers, Settle(w) PROVE Quiet(tasks', run')
      BY <1>0, <1>7, <2>1, SettledFacts DEF Settle
    <2>2. ASSUME NEW w \in Workers, Sweep(w) PROVE Quiet(tasks', run')
      BY <1>0, <1>7, <2>2, SettledFacts DEF Sweep
    <2>3. ASSUME NEW w \in Workers, FailCommit(w) PROVE Quiet(tasks', run')
      <3>1. run' = workers[w].verdict /\ At(w, "failing")
        BY <1>7, <2>3 DEF FailCommit
      <3>2. CASE run' = "running"
        BY <3>2
      <3>3. CASE run' # "running"
        <4>1. run' = "failed" /\ \A t \in Tasks : t # Task(w) => tasks[t].state \notin Movable
          BY <3>1, <3>3 DEF FailuresRead, State
        <4>2. /\ tasks'[Task(w)].state = "failed"
              /\ \A t \in Tasks : t # Task(w) => tasks'[t] = tasks[t]
          BY <1>0, <2>3 DEF FailCommit, Write, Rows
        <4>3. QED
          BY <4>1, <4>2 DEF Movable, Leased
      <3>4. QED
        BY <3>2, <3>3
    <2>4. CASE run' \in {"running", "halted_budget"}
      BY <2>4
    <2>5. ASSUME NEW w \in Workers, Work(w), ~Settle(w), ~FailCommit(w)
          PROVE  run' \in {"running", "halted_budget"}
      BY <1>7, <2>5 DEF Work, CheckBudget, Refuse, MarkRunning, Release, HandlerDone,
         HandlerParks, HandlerRaises, RollUp, Enforce
    <2>6. ASSUME NEW w \in Workers, Claim(w) PROVE run' = run
      BY <2>6 DEF Claim
    <2>7. Decide => run' = run
      BY DEF Decide, EnqueueResume
    <2>8. QED
      BY <1>3, <1>4, <1>7, <2>1, <2>2, <2>3, <2>4, <2>5, <2>6, <2>7 DEF Next
  <1>8. QED
    BY <1>0, <1>5, <1>6, <1>7 DEF RunStates

LEMMA QueueInvStep ==
    ASSUME PunctualWorkers, TypeOK, TypeOK', QueueInv, [Next]_vars
    PROVE  QueueInv'
  <1>1. CASE UNCHANGED vars
    BY <1>1 DEF vars, QueueInv, Unretried, Held, NobodyAsks, Asking, HeldRows, OneWorkerPerTask, ParkedOnce,
       FailuresRead, SettledIsQuiet, NoneMovable, Owner, State, Task, At
  <1>2. CASE Next
    <2>1. retries' = retries \/ retries' = retries + 1
      BY <1>2, CountersGrow
    <2>2. retries' = 0 => retries = 0
      BY <2>1, TasksAssumption DEF TypeOK
    <2>3. QED
      BY <1>2, <2>2, HeldStep, FailuresReadStep, SettledIsQuietStep DEF QueueInv, Unretried
  <1>3. QED
    BY <1>1, <1>2

LEMMA QueueInvInit == ASSUME Init PROVE QueueInv
  <1>1. \A w \in Workers : workers[w].pc = "idle"
    BY IdleType DEF Init
  <1>2. \A t \in Tasks : State(t) = IF t \in Roots THEN "pending" ELSE "absent"
    BY DEF Init, Row, State
  <1>3. \A r \in Resumes : State(r) = "absent"
    BY <1>2, ResumesAssumption DEF Resumes
  <1>4. Held
    BY <1>1, <1>3 DEF Init, NoRetry, NobodyAsks, Asking, Held, HeldRows, OneWorkerPerTask, ParkedOnce, Owner
  <1>5. FailuresRead
    BY <1>1 DEF FailuresRead, At
  <1>6. SettledIsQuiet
    BY DEF Init, SettledIsQuiet
  <1>7. QED
    BY <1>4, <1>5, <1>6 DEF QueueInv

LEMMA QueueInvariant == ASSUME PunctualWorkers PROVE Spec => []QueueInv
  <1>1. Init => QueueInv
    BY QueueInvInit
  <1>2. TypeOK /\ TypeOK' /\ QueueInv /\ [Next]_vars => QueueInv'
    BY QueueInvStep
  <1>3. QED
    BY TypeCorrect, <1>1, <1>2, PTL DEF Spec

(* While leases do not outlive their workers, a run that nobody retries settles only
   over stages that have all landed, and reads `succeeded` only if none failed:
   whoever settles it, a worker, a failure or a sweep, and whatever each has read. *)
THEOREM SettledSafe == PunctualWorkers => (Spec => []SettledIsQuiet)
  <1>1. SUFFICES ASSUME PunctualWorkers PROVE Spec => []SettledIsQuiet
    OBVIOUS
  <1>2. QueueInv => SettledIsQuiet
    BY DEF QueueInv, SettledIsQuiet
  <1>3. Spec => []QueueInv
    BY <1>1, QueueInvariant
  <1>4. QED
    BY <1>2, <1>3, PTL

-----------------------------------------------------------------------------
(* Until somebody retries a second time.  A `resume` task that is redelivered may
   then release a stage that is in a worker's hands again: its row reads landed
   under that worker, but it is still no other's. *)

Landed == {"done", "failed"}
InHand == Leased \cup Landed

(* What a worker has in its hands is leased to it, has not parked, and is no
   other worker's; and what the operator is about to re-queue is in nobody's. *)
HandsOff ==
    /\ \A w \in Workers : \A t \in Tasks :
          Owner(w, t) => State(t) \in InHand /\ tasks[t].lease = "live"
    /\ OneWorkerPerTask
    /\ \A o \in Operators : Asking(o, "retrying") =>
          /\ State(operators[o].task) \in Landed
          /\ \A w \in Workers : ~Owner(w, operators[o].task)
    /\ \A o, p \in Operators : Asking(o, "idle") \/ Asking(p, "idle") \/ o = p

(* A step of one worker that takes no other's row, nor the one being retried. *)
LEMMA KeepsHands ==
    ASSUME TypeOK, HandsOff, UNCHANGED operators,
           NEW w \in Workers,
           \A v \in Workers : v # w => workers'[v] = workers[v],
           \A t \in Tasks : Owner(w, t)' => /\ Owner(w, t) \/ State(t) = "pending"
                                            /\ tasks'[t].state \in InHand
                                            /\ tasks'[t].lease = "live",
           \A v \in Workers : \A t \in Tasks : v # w /\ Owner(v, t) =>
               tasks'[t].state \in InHand /\ tasks'[t].lease = "live",
           \A t \in Tasks : State(t) \in Landed /\ (\A v \in Workers : ~Owner(v, t)) =>
               tasks'[t].state \in Landed
    PROVE  HandsOff'
  <1>0. \A t \in Tasks : State(t) = "pending" => \A v \in Workers : ~Owner(v, t)
    BY DEF HandsOff, InHand, Landed, Leased
  <1>1. \A v \in Workers : \A t \in Tasks : v # w => (Owner(v, t)' <=> Owner(v, t))
    BY DEF Owner, Task
  <1>2. \A v \in Workers : \A t \in Tasks :
           Owner(v, t)' => tasks'[t].state \in InHand /\ tasks'[t].lease = "live"
    BY <1>1
  <1>3. OneWorkerPerTask'
    <2>1. SUFFICES ASSUME NEW u \in Workers, NEW v \in Workers, NEW t \in Tasks,
                          Owner(u, t)', Owner(v, t)', u # v
                   PROVE  FALSE
      BY DEF OneWorkerPerTask
    <2>2. u # w => Owner(u, t)
      BY <1>1, <2>1
    <2>3. v # w => Owner(v, t)
      BY <1>1, <2>1
    <2>4. (Owner(u, t) \/ State(t) = "pending") /\ (Owner(v, t) \/ State(t) = "pending")
      BY <2>1, <2>2, <2>3
    <2>5. Owner(u, t) /\ Owner(v, t)
      BY <1>0, <2>1, <2>2, <2>3, <2>4
    <2>6. QED
      BY <2>1, <2>5 DEF HandsOff, OneWorkerPerTask
  <1>4. ASSUME NEW o \in Operators, Asking(o, "retrying")
        PROVE  /\ tasks'[operators[o].task].state \in Landed
               /\ \A v \in Workers : ~Owner(v, operators[o].task)'
    <2> DEFINE t == operators[o].task
    <2>1. t \in Tasks /\ operators' = operators
      BY DEF TypeOK
    <2>2. State(t) \in Landed /\ \A v \in Workers : ~Owner(v, t)
      BY <1>4 DEF HandsOff
    <2>3. State(t) # "pending"
      BY <2>2 DEF Landed
    <2>4. ~Owner(w, t)'
      BY <2>1, <2>2, <2>3
    <2>5. QED
      BY <1>1, <2>1, <2>2, <2>4 DEF Owner, Task
  <1>5. QED
    BY <1>2, <1>3, <1>4 DEF HandsOff, Asking, State

(* A request made while nobody had asked for anything read a landed stage, which is
   in nobody's hands. *)
LEMMA RequestReadsLanded ==
    ASSUME TypeOK, Held, NEW o \in Operators, RetryRead(o) \/ ReopenRead(o)
    PROVE  HandsOff'
  <1>1. /\ tasks' = tasks /\ workers' = workers
        /\ \A p \in Operators : p # o => operators'[p] = operators[p]
    BY DEF RetryRead, ReopenRead, ReadsRun, TypeOK
  <1>2. \A p \in Operators \ {o} : operators'[p].pc = "idle"
    BY <1>1 DEF Held, NobodyAsks, Asking
  <1>3. ASSUME operators'[o].pc = "retrying"
        PROVE  /\ tasks'[operators'[o].task].state \in Landed
               /\ \A w \in Workers : ~Owner(w, operators'[o].task)
    <2>1. PICK t \in Tasks : State(t) \in Landed /\ operators'[o].task = t
      BY <1>3 DEF RetryRead, ReopenRead, ReadsRun, TypeOK, Landed
    <2>2. \A w \in Workers : ~Owner(w, t)
      BY <2>1 DEF Held, HeldRows, Landed, Leased
    <2>3. QED
      BY <1>1, <2>1, <2>2 DEF State
  <1>4. /\ OneWorkerPerTask'
        /\ \A w \in Workers : \A t \in Tasks :
              Owner(w, t)' => tasks'[t].state \in InHand /\ tasks'[t].lease = "live"
    BY <1>1 DEF Held, HeldRows, InHand, OneWorkerPerTask, Owner, Task, State
  <1>5. \A p \in Operators : operators'[p].pc = "retrying" => p = o
    BY <1>2
  <1>6. QED
    BY <1>1, <1>2, <1>3, <1>4, <1>5 DEF HandsOff, Asking, Owner, Task, State

(* The row a worker writes is its own, and what it leaves it with is in its
   hands or no longer; the others' rows it leaves alone. *)
LEMMA WorkKeepsHands ==
    ASSUME TypeOK, TypeOK', HandsOff, NEW w \in Workers, Work(w)
    PROVE  HandsOff'
  <1> DEFINE t == Task(w)
  <1>0. /\ tasks \in [Tasks -> Rows] /\ workers[w] \in Holders /\ t \in Tasks
        /\ workers' \in [Workers -> Holders] /\ workers \in [Workers -> Holders]
        /\ operators' = operators
        /\ \A v \in Workers : v # w => workers'[v] = workers[v]
    BY DEF TypeOK, Rows, Holders, Task, Work, CheckBudget, Refuse, MarkRunning, Release,
       HandlerDone, HandlerParks, HandlerRaises, FailCommit, RollUp, Enforce, Settle, Goto, Rest
  <1>1. ASSUME workers[w].pc \in PCs \ {"idle", "done", "parked", "summing", "closing", "settling"}
        PROVE  /\ Owner(w, t)
               /\ State(t) \in InHand /\ tasks[t].lease = "live"
               /\ \A v \in Workers : v # w => ~Owner(v, t)
    BY <1>0, <1>1 DEF HandsOff, OneWorkerPerTask, Owner
  <1>2. CASE CheckBudget(w) \/ Checks(w) \/ MarkRunning(w) \/ HandlerRaises(w)
    <2>1. workers[w].pc \in PCs \ {"idle", "done", "parked", "summing", "closing", "settling"}
      BY <1>2 DEF CheckBudget, Checks, MarkRunning, HandlerRaises, At, PCs
    <2>2. workers'[w].task = t
      BY <1>0, <1>2 DEF CheckBudget, Checks, Enforce, At, MarkRunning, HandlerRaises, Goto, Holders, Task, TypeOK
    <2>3. /\ tasks'[t].state \in InHand /\ tasks'[t].lease = "live"
          /\ \A s \in Tasks : s # t => tasks'[s] = tasks[s]
      BY <1>0, <1>1, <1>2, <2>1
      DEF CheckBudget, Checks, Enforce, MarkRunning, HandlerRaises, InHand, Leased, State, Rows
    <2>4. \A s \in Tasks : Owner(w, s)' => s = t
      BY <2>2 DEF Owner, Task
    <2>5. Owner(w, t) /\ \A v \in Workers : v # w => ~Owner(v, t)
      BY <1>1, <2>1
    <2>6. \A v \in Workers : \A s \in Tasks : v # w /\ Owner(v, s) =>
             tasks'[s].state \in InHand /\ tasks'[s].lease = "live"
      BY <2>3, <2>5 DEF HandsOff, State
    <2>7. \A s \in Tasks : State(s) \in Landed /\ (\A v \in Workers : ~Owner(v, s)) =>
             tasks'[s].state \in Landed
      BY <2>3, <2>5 DEF State
    <2>8. QED
      BY <1>0, <2>3, <2>4, <2>5, <2>6, <2>7, KeepsHands
  <1>3. CASE Refuse(w) \/ HandlerDone(w) \/ HandlerParks(w) \/ FailCommit(w)
    <2>1. workers[w].pc \in PCs \ {"idle", "done", "parked", "summing", "closing", "settling"}
      BY <1>3 DEF Refuse, HandlerDone, HandlerParks, FailCommit, At, PCs
    <2>2. workers'[w].pc \in {"idle", "done", "parked"}
      BY <1>0, <1>3, IdleType DEF Refuse, HandlerDone, HandlerParks, FailCommit, Goto, Rest, Holders
    <2>3. \A s \in Tasks : s # t /\ State(s) # "absent" => tasks'[s] = tasks[s]
      <3>1. CASE HandlerDone(w)
        BY <1>0, <3>1 DEF HandlerDone, Write
      <3>2. CASE ~HandlerDone(w)
        <4>1. \E state \in TaskStates : tasks' = Write(tasks, t, state)
          BY <1>3, <3>2 DEF Refuse, HandlerParks, FailCommit, TaskStates, Movable
        <4>2. QED
          BY <1>0, <4>1 DEF Write
      <3>3. QED
        BY <3>1, <3>2
    <2>4. \A s \in Tasks : ~Owner(w, s)'
      BY <2>2 DEF Owner
    <2>5. Owner(w, t) /\ \A v \in Workers : v # w => ~Owner(v, t)
      BY <1>1, <2>1
    <2>6. \A v \in Workers : \A s \in Tasks : v # w /\ Owner(v, s) =>
             tasks'[s].state \in InHand /\ tasks'[s].lease = "live"
      BY <2>3, <2>5 DEF HandsOff, InHand, Landed, Leased, State
    <2>7. \A s \in Tasks : State(s) \in Landed /\ (\A v \in Workers : ~Owner(v, s)) =>
             tasks'[s].state \in Landed
      BY <2>3, <2>5 DEF Landed, State
    <2>8. QED
      BY <1>0, <2>4, <2>6, <2>7, KeepsHands
  <1>4. CASE Release(w)
    <2>1. PICK s \in Releases[t], verdict \in ReleaseVerdicts :
            tasks' = [tasks EXCEPT ![s].state = verdict[1]] /\ Goto(w, verdict[2])
      BY <1>4 DEF Release
    <2>2. workers[w].pc \in PCs \ {"idle", "done", "parked", "summing", "closing", "settling"}
      BY <1>4 DEF Release, At, PCs
    <2>3. s \in Tasks /\ verdict[1] \in Landed
      BY <1>0, TasksAssumption DEF ReleaseVerdicts, Landed
    <2>4. \A u \in Tasks : /\ tasks'[u].lease = tasks[u].lease
                           /\ tasks'[u].state = tasks[u].state \/ tasks'[u].state \in Landed
      BY <1>0, <2>1, <2>3 DEF Rows
    <2>5. workers'[w].task = t
      BY <1>0, <2>1 DEF Goto, Holders, Task
    <2>6. \A u \in Tasks : Owner(w, u)' => u = t
      BY <2>5 DEF Owner, Task
    <2>7. \A v \in Workers : \A u \in Tasks : Owner(v, u) =>
             tasks'[u].state \in InHand /\ tasks'[u].lease = "live"
      BY <2>4 DEF HandsOff, InHand, State
    <2>8. \A u \in Tasks : State(u) \in Landed => tasks'[u].state \in Landed
      BY <2>4 DEF State
    <2>9. Owner(w, t)
      BY <1>1, <2>2
    <2>10. QED
      BY <1>0, <2>6, <2>7, <2>8, <2>9, KeepsHands
  <1>5. CASE RollsUp(w)
    <2>1. workers'[w].pc \in {"idle", "summing", "closing", "settling"} /\ tasks' = tasks
      BY <1>0, <1>5, IdleType DEF RollsUp, Checks, RollUp, Enforce, Settle, Goto, Rest, Holders
    <2>2. \A s \in Tasks : ~Owner(w, s)'
      BY <2>1 DEF Owner
    <2>3. QED
      BY <1>0, <2>1, <2>2, KeepsHands DEF HandsOff, State
  <1>6. QED
    BY <1>2, <1>3, <1>4, <1>5 DEF Work, Checks, RollsUp

LEMMA HandsOffStep ==
    ASSUME PunctualWorkers, TypeOK, TypeOK', HandsOff, Next,
           \A o \in Operators : ~RetryRead(o) /\ ~ReopenRead(o)
    PROVE  HandsOff'
  <1>0. /\ tasks \in [Tasks -> Rows] /\ workers \in [Workers -> Holders]
        /\ operators \in [Operators -> Requests]
        /\ \A o \in Operators : operators[o].task \in Tasks
    BY DEF TypeOK, Rows, Holders, Requests
  <1>1. ASSUME NEW w \in Workers, Claim(w) PROVE HandsOff'
    <2>1. PICK t \in Tasks :
            /\ State(t) = "pending"
            /\ tasks' = [tasks EXCEPT ![t].state = "claimed", ![t].lease = "live"]
            /\ workers' = [workers EXCEPT ![w] = [Idle EXCEPT !.pc = "claimed", !.task = t]]
            /\ operators' = operators
      BY <1>1 DEF Claim, Claimable
    <2>2. workers'[w].task = t /\ \A v \in Workers : v # w => workers'[v] = workers[v]
      BY <1>0, <2>1, IdleType DEF Holders
    <2>3. /\ tasks'[t].state \in InHand /\ tasks'[t].lease = "live"
          /\ \A s \in Tasks : s # t => tasks'[s] = tasks[s]
      BY <1>0, <2>1 DEF Rows, Leased, InHand
    <2>4. \A s \in Tasks : Owner(w, s)' => s = t
      BY <2>2 DEF Owner, Task
    <2>5. \A v \in Workers : ~Owner(v, t)
      BY <2>1 DEF HandsOff, InHand, Landed, Leased
    <2>6. \A v \in Workers : \A s \in Tasks : v # w /\ Owner(v, s) =>
             tasks'[s].state \in InHand /\ tasks'[s].lease = "live"
      BY <2>3, <2>5 DEF HandsOff, State
    <2>7. \A s \in Tasks : State(s) \in Landed => tasks'[s].state \in Landed
      BY <2>1, <2>3 DEF Landed, State
    <2>8. QED
      BY <2>1, <2>2, <2>3, <2>4, <2>6, <2>7, KeepsHands
  <1>2. ASSUME NEW w \in Workers, Work(w) PROVE HandsOff'
    BY <1>2, WorkKeepsHands
  <1>3. ASSUME NEW w \in Workers, Sweep(w) PROVE HandsOff'
    <2>1. \A t \in Tasks : t \notin Lapsed => tasks'[t] = tasks[t]
      BY <1>3 DEF Sweep
    <2>2. \A t \in Lapsed : State(t) \notin Landed /\ \A v \in Workers : ~Owner(v, t)
      BY DEF Lapsed, HandsOff, Landed, Leased
    <2>3. workers' = workers /\ operators' = operators
      BY <1>3 DEF Sweep
    <2>4. \A v \in Workers : \A t \in Tasks : Owner(v, t) => tasks'[t] = tasks[t]
      BY <2>1, <2>2
    <2>5. \A t \in Tasks : State(t) \in Landed => tasks'[t] = tasks[t]
      BY <2>1, <2>2
    <2>6. QED
      BY <1>0, <2>3, <2>4, <2>5 DEF HandsOff, Asking, OneWorkerPerTask, Owner, Task, State
  <1>4. ASSUME NEW w \in Workers, Crash(w) PROVE HandsOff'
    <2>1. /\ workers'[w].pc = "idle" /\ tasks' = tasks /\ operators' = operators
          /\ \A v \in Workers : v # w => workers'[v] = workers[v]
      BY <1>0, <1>4, IdleType DEF Crash, Rest
    <2>2. \A t \in Tasks : ~Owner(w, t)'
      BY <2>1 DEF Owner
    <2>3. QED
      BY <2>1, <2>2, KeepsHands DEF HandsOff, State
  <1>5. CASE LeaseLapses
    <2>1. PICK t \in Tasks : /\ \A w \in Workers : ~Owner(w, t)
                             /\ tasks' = [tasks EXCEPT ![t].lease = "lapsed"]
      BY <1>5 DEF LeaseLapses
    <2>2. /\ \A s \in Tasks : tasks'[s].state = tasks[s].state
          /\ \A s \in Tasks : s # t => tasks'[s] = tasks[s]
          /\ workers' = workers /\ operators' = operators
      BY <1>0, <1>5, <2>1 DEF LeaseLapses, Rows
    <2>3. QED
      BY <1>0, <2>1, <2>2 DEF HandsOff, Asking, OneWorkerPerTask, Owner, Task, State
  <1>6. ASSUME NEW r \in Tasks, Enqueued(r), workers' = workers,
               \A o \in Operators : operators'[o] = operators[o] \/ operators'[o].pc = "idle"
        PROVE  HandsOff'
    <2>1. /\ State(r) = "absent"
          /\ \A t \in Tasks : t # r => tasks'[t] = tasks[t]
      BY <1>0, <1>6 DEF Enqueued
    <2>2. State(r) \notin Landed /\ \A v \in Workers : ~Owner(v, r)
      BY <2>1 DEF HandsOff, InHand, Landed, Leased
    <2>3. \A v \in Workers : \A t \in Tasks : Owner(v, t)' <=> Owner(v, t)
      BY <1>6 DEF Owner, Task
    <2>4. \A o \in Operators : operators'[o].pc = "retrying" =>
             /\ operators'[o] = operators[o] /\ operators[o].task \in Tasks
             /\ State(operators[o].task) \in Landed
             /\ \A v \in Workers : ~Owner(v, operators[o].task)
      BY <1>0, <1>6 DEF HandsOff, Asking
    <2>5. /\ OneWorkerPerTask'
          /\ \A v \in Workers : \A t \in Tasks :
                Owner(v, t)' => tasks'[t].state \in InHand /\ tasks'[t].lease = "live"
      BY <2>1, <2>2, <2>3 DEF HandsOff, OneWorkerPerTask, State
    <2>6. \A o, p \in Operators : operators'[o].pc = "idle" \/ operators'[p].pc = "idle" \/ o = p
      BY <1>6 DEF HandsOff, Asking
    <2>7. QED
      BY <1>6, <2>1, <2>2, <2>4, <2>5, <2>6 DEF HandsOff, Asking, State, Owner, Task
  <1>7. CASE Decide
    <2>1. PICK r \in Resumes : EnqueueResume(r)
      BY <1>7 DEF Decide
    <2>2. QED
      BY <1>6, <2>1 DEF EnqueueResume, Resumes
  <1>8. ASSUME NEW o \in Operators, ReopenEnqueues(o) PROVE HandsOff'
    <2>1. \A p \in Operators : operators'[p] = operators[p] \/ operators'[p].pc = "idle"
      BY <1>0, <1>8 DEF ReopenEnqueues, NoRetry
    <2>2. QED
      BY <1>0, <1>6, <1>8, <2>1 DEF ReopenEnqueues
  <1>9. ASSUME NEW o \in Operators, Retry(o) PROVE HandsOff'
    <2>1. /\ \A t \in Tasks : t # operators[o].task => tasks'[t] = tasks[t]
          /\ workers' = workers /\ \A p \in Operators : operators'[p].pc = "idle"
          /\ \A v \in Workers : ~Owner(v, operators[o].task)
      BY <1>0, <1>9 DEF Retry, NoRetry, HandsOff, Asking
    <2>2. \A v \in Workers : \A t \in Tasks : Owner(v, t)' <=> Owner(v, t)
      BY <2>1 DEF Owner, Task
    <2>3. \A v \in Workers : \A t \in Tasks :
             Owner(v, t)' => tasks'[t].state \in InHand /\ tasks'[t].lease = "live"
      BY <1>0, <2>1, <2>2 DEF HandsOff, State
    <2>4. QED
      BY <2>1, <2>2, <2>3 DEF HandsOff, OneWorkerPerTask, State, Asking
  <1>10. ASSUME NEW o \in Operators, Reopen(o) PROVE HandsOff'
    <2>1. /\ tasks' = tasks /\ workers' = workers
          /\ \A p \in Operators : /\ operators'[p].pc = "retrying" => operators'[p] = operators[p]
                                  /\ Asking(p, "idle") => operators'[p].pc = "idle"
      BY <1>0, <1>10 DEF Reopen, Asking, Requests
    <2>2. \A o1, o2 \in Operators :
             operators'[o1].pc = "idle" \/ operators'[o2].pc = "idle" \/ o1 = o2
      BY <2>1 DEF HandsOff
    <2>3. \A p \in Operators : operators'[p].pc = "retrying" =>
             /\ State(operators'[p].task) \in Landed
             /\ \A v \in Workers : ~Owner(v, operators'[p].task)
      BY <2>1 DEF HandsOff, Asking
    <2>4. QED
      BY <2>1, <2>2, <2>3 DEF HandsOff, OneWorkerPerTask, Owner, Task, State, Asking
  <1>11. QED
    BY <1>1, <1>2, <1>3, <1>4, <1>5, <1>7, <1>8, <1>9, <1>10 DEF Next, OperatorStep, Answer

LEMMA HandsOffInvariant ==
    ASSUME PunctualWorkers PROVE Spec => [](retries <= 1 => HandsOff)
  <1>1. Init => HandsOff
    <2> SUFFICES ASSUME Init PROVE HandsOff
      OBVIOUS
    <2>1. /\ \A w \in Workers : workers[w].pc = "idle"
          /\ \A o \in Operators : operators[o].pc = "idle"
      BY IdleType DEF Init, NoRetry
    <2>2. QED
      BY <2>1 DEF HandsOff, Asking, OneWorkerPerTask, Owner
  <1>2. TypeOK /\ TypeOK' /\ QueueInv /\ (retries <= 1 => HandsOff) /\ [Next]_vars
          => (retries <= 1 => HandsOff)'
    <2> SUFFICES ASSUME TypeOK, TypeOK', QueueInv, retries <= 1 => HandsOff, [Next]_vars, retries' <= 1
                 PROVE  HandsOff'
      OBVIOUS
    <2>1. retries \in Nat
      BY TasksAssumption DEF TypeOK
    <2>2. CASE UNCHANGED vars
      BY <2>2 DEF vars, HandsOff, OneWorkerPerTask, Owner, State, Task, Asking
    <2>3. ASSUME NEW o \in Operators, RetryRead(o) \/ ReopenRead(o) PROVE HandsOff'
      <3>1. retries = 0
        BY <2>1, <2>3 DEF RetryRead, ReopenRead
      <3>2. QED
        BY <2>3, <3>1, RequestReadsLanded DEF QueueInv, Unretried
    <2>4. CASE Next /\ \A o \in Operators : ~RetryRead(o) /\ ~ReopenRead(o)
      <3>1. retries <= 1
        BY <2>1, <2>4, CountersGrow
      <3>2. QED
        BY <2>4, <3>1, HandsOffStep
    <2>5. QED
      BY <2>2, <2>3, <2>4
  <1>3. QED
    BY TypeCorrect, QueueInvariant, <1>1, <1>2, PTL DEF Spec

(* While leases do not outlive their workers, no crash, sweep, failure, approval or
   single retry delivers a stage to two workers at once; two retries can (see
   OneWorkerPerTask). *)
THEOREM OneWorkerSafe == PunctualWorkers => (Spec => [](retries <= 1 => OneWorkerPerTask))
  <1>1. SUFFICES ASSUME PunctualWorkers PROVE Spec => [](retries <= 1 => OneWorkerPerTask)
    OBVIOUS
  <1>2. Spec => [](retries <= 1 => HandsOff)
    BY <1>1, HandsOffInvariant
  <1>3. (retries <= 1 => HandsOff) => (retries <= 1 => OneWorkerPerTask)
    BY DEF HandsOff
  <1>4. QED
    BY <1>2, <1>3, PTL

(* No step but the release it waits for moves a parked stage. *)
LEMMA ParkedStep ==
    ASSUME TypeOK, HandsOff, Next,
           NEW t \in Tasks, State(t) = "awaiting_approval", tasks'[t].state # State(t)
    PROVE  \E w \in Workers : At(w, "handling") /\ t \in Releases[Task(w)]
  <1>0. /\ tasks \in [Tasks -> Rows] /\ \A w \in Workers : Task(w) \in Tasks
        /\ tasks'[t].state # tasks[t].state
    BY DEF TypeOK, Rows, Task, State
  <1>1. \A w \in Workers : ~Owner(w, t)
    BY DEF HandsOff, InHand, Landed, Leased
  <1>2. ASSUME NEW w \in Workers, Work(w)
        PROVE  At(w, "handling") /\ t \in Releases[Task(w)]
    <2>1. CASE CheckBudget(w) \/ HandlerRaises(w) \/ RollUp(w) \/ Enforce(w) \/ Settle(w)
      BY <1>0, <2>1 DEF CheckBudget, HandlerRaises, RollUp, Enforce, Settle
    <2>2. CASE Release(w)
      <3>1. PICK s \in Releases[Task(w)], verdict \in ReleaseVerdicts :
              tasks' = [tasks EXCEPT ![s].state = verdict[1]]
        BY <2>2 DEF Release
      <3>2. s = t
        BY <1>0, <3>1 DEF Rows
      <3>3. QED
        BY <2>2, <3>2 DEF Release
    <2>3. CASE Refuse(w) \/ MarkRunning(w) \/ HandlerDone(w) \/ HandlerParks(w) \/ FailCommit(w)
      <3>1. Task(w) # t
        BY <1>1, <2>3
        DEF Refuse, MarkRunning, HandlerDone, HandlerParks, FailCommit, Owner, At, PCs
      <3>2. CASE HandlerDone(w)
        BY <1>0, <3>1, <3>2 DEF HandlerDone, Write
      <3>3. CASE MarkRunning(w)
        BY <1>0, <3>1, <3>3 DEF MarkRunning
      <3>4. CASE Refuse(w) \/ HandlerParks(w) \/ FailCommit(w)
        BY <1>0, <3>1, <3>4 DEF Refuse, HandlerParks, FailCommit, Write
      <3>5. QED
        BY <2>3, <3>2, <3>3, <3>4
    <2>4. QED
      BY <1>2, <2>1, <2>2, <2>3 DEF Work
  <1>3. ASSUME NEW w \in Workers, Claim(w) \/ Crash(w) PROVE FALSE
    BY <1>0, <1>3 DEF Claim, Claimable, Crash
  <1>4. ASSUME NEW w \in Workers, Sweep(w) PROVE FALSE
    BY <1>0, <1>4 DEF Sweep, Lapsed, Leased
  <1>5. ~LeaseLapses
    BY <1>0 DEF LeaseLapses, Rows
  <1>6. \A r : ~Enqueued(r)
    <2>1. ASSUME NEW r, Enqueued(r) PROVE FALSE
      <3>1. r # t
        BY <2>1 DEF Enqueued
      <3>2. QED
        BY <1>0, <2>1, <3>1 DEF Enqueued
    <2>2. QED
      BY <2>1
  <1>7. ASSUME NEW o \in Operators, Retry(o) PROVE FALSE
    <2>1. operators[o].task # t
      BY <1>7 DEF Retry, HandsOff, Landed
    <2>2. QED
      BY <1>0, <1>7, <2>1 DEF Retry
  <1>8. ~Decide /\ ~OperatorStep
    BY <1>0, <1>6, <1>7
    DEF Decide, EnqueueResume, OperatorStep, RetryRead, ReopenRead, Answer, Reopen, ReopenEnqueues
  <1>9. QED
    BY <1>2, <1>3, <1>4, <1>5, <1>8 DEF Next

(* While leases do not outlive their workers, and where at most one retry is made, a
   stage parked for a human is moved by the release its decision queued and by
   nothing else: no sweep, failing worker, crash or retry takes it out of the
   queue's hold.  (With two, the second may have read it before it parked.) *)
THEOREM ParkedSafe == PunctualWorkers /\ MaxRetries <= 1 => (Spec => ParkedWaitsForRelease)
  <1>1. SUFFICES ASSUME PunctualWorkers, MaxRetries <= 1 PROVE Spec => ParkedWaitsForRelease
    OBVIOUS
  <1>2. Spec => [](retries <= 1 => HandsOff)
    BY <1>1, HandsOffInvariant
  <1>3. TypeOK => retries <= 1
    BY <1>1, TasksAssumption DEF TypeOK
  <1>4. TypeOK /\ (retries <= 1 => HandsOff) /\ [Next]_vars =>
          [\A t \in Tasks : State(t) = "awaiting_approval" /\ tasks'[t].state # State(t)
             => \E w \in Workers : At(w, "handling") /\ t \in Releases[Task(w)]]_vars
    BY <1>3, ParkedStep
  <1>5. QED
    BY TypeCorrect, <1>2, <1>4, PTL DEF Spec, ParkedWaitsForRelease

-----------------------------------------------------------------------------
(* The last stage to land settles its run, where no two land side by side. *)

OneWorker == \A v, w \in Workers : v = w

(* Stages in a row, the last of which may wait for one decision: that a worker
   has one of them in its hands says that the others wait for it or are done. *)
Chain ==
    /\ \A s, t \in Tasks \ Resumes : s \in DependsOn[t] \/ t \in DependsOn[s] \/ s = t
    /\ \A r \in Resumes : \A s \in Releases[r] : \A t \in Tasks : s \notin DependsOn[t]
    /\ \A q, r \in Resumes : q = r

(* A stage is begun when what it depends on is done, which it then stays. *)
Started ==
    \A t \in Tasks \ Resumes : State(t) \notin {"absent", "pending"} =>
        \A d \in DependsOn[t] : State(d) = "done"

(* What is leased is in some worker's hands. *)
Owned == \A t \in Tasks : State(t) \in Leased => \E w \in Workers : Owner(w, t)

RefusedIsHalted == \A w \in Workers : At(w, "refused") => run = "halted_budget"

(* A failing worker that will leave its run as it is has read of another stage
   that can move, and that stage still can. *)
OthersMove ==
    \A w \in Workers : At(w, "failing") /\ workers[w].verdict = "running" =>
        \E u \in Tasks \ {Task(w)} : State(u) \in Movable

(* A run over landed stages is about to be settled. *)
SettleIsDue ==
    NoneMovable /\ run = "running" => \E w \in Workers : workers[w].pc \in {"done", "summing", "settling"}

RunIsOpened == \E t \in Tasks : State(t) # "absent"

Uncrashed == Unretried /\ crashes = 0

LandingInv ==
    /\ RunIsOpened
    /\ Unretried /\ Chain => Started
    /\ Uncrashed => Owned /\ RefusedIsHalted /\ OthersMove /\ SettleIsDue

(* settle_run leaves a running run as it is only for a stage that can move. *)
LEMMA SettledRuns ==
    ASSUME NEW ts, NEW t \in Tasks, ts[t].state # "absent", Settled(ts, "running") = "running"
    PROVE  \E u \in Tasks : ts[u].state \in Movable
  <1> DEFINE states == {ts[u].state : u \in Tasks} \ {"absent"}
  <1>1. Settled(ts, "running") =
          IF states = {} \/ states \cap Movable # {} THEN "running"
          ELSE IF "failed" \in states THEN "failed" ELSE "succeeded"
    BY DEF Settled
  <1>2. states # {}
    OBVIOUS
  <1> HIDE DEF states
  <1>3. states \cap Movable # {}
    BY <1>1, <1>2
  <1>4. QED
    BY <1>3 DEF states

(* What a step makes of a row's state. *)
Moves(t) ==
    \/ tasks'[t].state = State(t)
    \/ /\ State(t) = "pending" /\ tasks'[t].state = "claimed"
       /\ \A d \in DependsOn[t] : State(d) = "done"
    \/ State(t) = "absent" /\ tasks'[t].state = "pending"
    \/ State(t) \in Leased /\ tasks'[t].state # "absent"
    \/ \E w \in Workers : At(w, "handling") /\ t \in Releases[Task(w)]
                          /\ tasks'[t].state \in {"done", "failed"}

LEMMA StateMoves ==
    ASSUME TypeOK, Held, retries = 0, retries' = 0, Next, NEW t \in Tasks
    PROVE  Moves(t)
  <1>0. tasks \in [Tasks -> Rows] /\ \A w \in Workers : Task(w) \in Tasks
    BY DEF TypeOK, Rows, Task
  <1>1. ASSUME NEW w \in Workers, Claim(w) PROVE Moves(t)
    <2>1. PICK s \in Tasks : /\ Claimable(s)
                             /\ tasks' = [tasks EXCEPT ![s].state = "claimed", ![s].lease = "live"]
      BY <1>1 DEF Claim
    <2>2. CASE s = t
      BY <1>0, <2>1, <2>2 DEF Moves, Claimable, Rows
    <2>3. CASE s # t
      BY <1>0, <2>1, <2>3 DEF Moves, State
    <2>4. QED
      BY <2>2, <2>3
  <1>2. ASSUME NEW w \in Workers, Work(w) PROVE Moves(t)
    <2>1. CASE CheckBudget(w) \/ HandlerRaises(w) \/ RollUp(w) \/ Enforce(w) \/ Settle(w)
      BY <2>1 DEF CheckBudget, HandlerRaises, RollUp, Enforce, Settle, Moves, State
    <2>2. CASE Release(w)
      <3>1. PICK s \in Releases[Task(w)], verdict \in ReleaseVerdicts :
              tasks' = [tasks EXCEPT ![s].state = verdict[1]]
        BY <2>2 DEF Release
      <3>2. CASE s = t
        <4>1. tasks'[t].state \in {"done", "failed"}
          BY <1>0, <3>1, <3>2 DEF Rows, ReleaseVerdicts
        <4>2. QED
          BY <2>2, <3>1, <3>2, <4>1 DEF Release, Moves
      <3>3. CASE s # t
        BY <1>0, <3>1, <3>3 DEF Moves, State
      <3>4. QED
        BY <3>2, <3>3
    <2>3. CASE Refuse(w) \/ MarkRunning(w) \/ HandlerDone(w) \/ HandlerParks(w) \/ FailCommit(w)
      <3>1. CASE Task(w) = t
        <4>1. \/ State(t) \in Leased
              \/ At(w, "released") \/ At(w, "handling")
          BY <2>3, <3>1 DEF Held, HeldRows, Owner, At, PCs, Refuse, MarkRunning, HandlerDone,
             HandlerParks, FailCommit
        <4>2. State(t) \in Leased
          BY <3>1, <4>1 DEF Held, HeldRows, Owner, At, PCs
        <4>3. CASE HandlerDone(w)
          <5>1. tasks'[t] = IF t \in Spawns[Task(w)] /\ State(t) = "absent" THEN Row("pending")
                            ELSE Write(tasks, Task(w), "done")[t]
            BY <4>3 DEF HandlerDone
          <5>2. State(t) # "absent"
            BY <4>2 DEF Leased
          <5>3. QED
            BY <1>0, <3>1, <4>2, <5>1, <5>2 DEF Write, Moves, Rows
        <4>4. CASE MarkRunning(w)
          BY <1>0, <3>1, <4>2, <4>4 DEF MarkRunning, Moves, Rows
        <4>5. CASE Refuse(w) \/ HandlerParks(w) \/ FailCommit(w)
          BY <1>0, <3>1, <4>2, <4>5 DEF Refuse, HandlerParks, FailCommit, Write, Moves, Rows
        <4>6. QED
          BY <2>3, <4>3, <4>4, <4>5
      <3>2. CASE Task(w) # t
        <4>1. CASE HandlerDone(w)
          <5>1. tasks'[t] = IF t \in Spawns[Task(w)] /\ State(t) = "absent" THEN Row("pending")
                            ELSE Write(tasks, Task(w), "done")[t]
            BY <4>1 DEF HandlerDone
          <5>2. QED
            BY <1>0, <3>2, <5>1 DEF Write, Moves, Row, State
        <4>2. CASE MarkRunning(w)
          BY <1>0, <3>2, <4>2 DEF MarkRunning, Moves, State
        <4>3. CASE Refuse(w) \/ HandlerParks(w) \/ FailCommit(w)
          BY <1>0, <3>2, <4>3 DEF Refuse, HandlerParks, FailCommit, Write, Moves, State
        <4>4. QED
          BY <2>3, <4>1, <4>2, <4>3
      <3>3. QED
        BY <3>1, <3>2
    <2>4. QED
      BY <1>2, <2>1, <2>2, <2>3 DEF Work
  <1>3. ASSUME NEW w \in Workers, Sweep(w) PROVE Moves(t)
    <2>1. CASE t \in Lapsed
      <3>1. State(t) \in Leased
        BY <2>1 DEF Lapsed
      <3>2. tasks'[t].state \in {"failed", "pending"}
        BY <1>0, <1>3, <2>1 DEF Sweep, Rows
      <3>3. QED
        BY <3>1, <3>2 DEF Moves
    <2>2. CASE t \notin Lapsed
      BY <1>3, <2>2 DEF Sweep, Moves, State
    <2>3. QED
      BY <2>1, <2>2
  <1>4. ASSUME NEW w \in Workers, Crash(w) PROVE Moves(t)
    BY <1>4 DEF Crash, Moves, State
  <1>5. CASE LeaseLapses
    BY <1>0, <1>5 DEF LeaseLapses, Moves, State, Rows
  <1>6. CASE Decide
    <2>1. PICK r \in Resumes : EnqueueResume(r)
      BY <1>6 DEF Decide
    <2>2. r \in Tasks /\ State(r) = "absent" /\ tasks' = [tasks EXCEPT ![r] = Row("pending")]
      BY <2>1 DEF EnqueueResume, Enqueued, Resumes
    <2>3. QED
      BY <1>0, <2>2 DEF Moves, State, Row
  <1>7. ~OperatorStep
    BY NobodySteps DEF Held
  <1>8. QED
    BY <1>1, <1>2, <1>3, <1>4, <1>5, <1>6, <1>7 DEF Next

LEMMA StartedStep ==
    ASSUME TypeOK, Held, Chain, Started, retries = 0, retries' = 0, Next
    PROVE  Started'
  <1>1. SUFFICES ASSUME NEW t \in Tasks \ Resumes, tasks'[t].state \notin {"absent", "pending"},
                        NEW d \in DependsOn[t]
                 PROVE  tasks'[d].state = "done"
    BY DEF Started, State
  <1>2. d \in Tasks /\ \A w \in Workers : Task(w) \in Tasks
    BY TasksAssumption DEF TypeOK, Task
  <1>3. State(d) = "done"
    <2>1. CASE \E w \in Workers : At(w, "handling") /\ t \in Releases[Task(w)]
      <3>1. PICK w \in Workers : At(w, "handling") /\ t \in Releases[Task(w)]
        BY <2>1
      <3>2. Task(w) \in Resumes /\ State(Task(w)) # "absent"
        BY <1>2, <3>1 DEF Resumes, Held, HeldRows, Owner, At, PCs, Leased
      <3>3. State(t) \notin {"absent", "pending"}
        BY <3>1, <3>2 DEF Held, ParkedOnce
      <3>4. QED
        BY <3>3 DEF Started
    <2>2. CASE ~\E w \in Workers : At(w, "handling") /\ t \in Releases[Task(w)]
      BY <1>1, <2>2, StateMoves DEF Moves, Started, State, Leased
    <2>3. QED
      BY <2>1, <2>2
  <1>4. ~\E w \in Workers : At(w, "handling") /\ d \in Releases[Task(w)]
    BY <1>2 DEF Chain, Resumes
  <1>5. QED
    BY <1>2, <1>3, <1>4, StateMoves DEF Moves, Leased, State

(* One stage at a time. *)
LEMMA OneAtATime ==
    ASSUME TypeOK, Held, Owned, OneWorker \/ (Chain /\ Started),
           NEW t \in Tasks, NEW u \in Tasks, State(t) \in Leased, State(u) \in Leased
    PROVE  t = u
  <1>1. CASE OneWorker
    BY <1>1 DEF Owned, OneWorker, Owner
  <1>2. CASE Chain /\ Started
    <2>1. CASE t \notin Resumes /\ u \notin Resumes
      BY <1>2, <2>1 DEF Chain, Started, Leased
    <2>2. ASSUME NEW r \in {t, u}, NEW s \in {t, u}, r \in Resumes, s \notin Resumes
          PROVE  FALSE
      <3>1. PICK x \in Releases[r] : TRUE
        BY <2>2 DEF Resumes
      <3>2. x \in Tasks \ Resumes
        BY <2>2, <3>1, TasksAssumption, ResumesAssumption DEF Resumes
      <3>3. State(x) \in {"awaiting_approval", "done", "failed"}
        BY <2>2, <3>1 DEF Held, ParkedOnce, Leased
      <3>4. x # s /\ s \notin DependsOn[x]
        BY <1>2, <2>2, <3>2, <3>3 DEF Started, Leased
      <3>5. QED
        BY <1>2, <2>2, <3>1, <3>2, <3>4 DEF Chain
    <2>3. CASE t \in Resumes /\ u \in Resumes
      BY <1>2, <2>3 DEF Chain
    <2>4. QED
      BY <2>1, <2>2, <2>3
  <1>3. QED
    BY <1>1, <1>2

LEMMA OwnedStep ==
    ASSUME PunctualWorkers, TypeOK, Held, Owned, retries = 0, retries' = 0, crashes' = 0, Next
    PROVE  Owned'
  <1>0. /\ tasks \in [Tasks -> Rows] /\ workers \in [Workers -> Holders] /\ crashes \in Nat
        /\ \A w \in Workers : Task(w) \in Tasks /\ workers[w].pc \in PCs
    BY TasksAssumption DEF TypeOK, Rows, Holders, Task
  <1>1. SUFFICES ASSUME NEW t \in Tasks, tasks'[t].state \in Leased
                 PROVE  \E w \in Workers : Owner(w, t)'
    BY DEF Owned, State
  <1> DEFINE Kept(v) == Owner(v, t) => Owner(v, t)'
  <1>2. ASSUME State(t) \in Leased, \A v \in Workers : Kept(v)
        PROVE  \E w \in Workers : Owner(w, t)'
    BY <1>2 DEF Owned
  <1>3. State(t) \notin Leased => tasks'[t].state = "claimed" /\ State(t) = "pending"
    BY <1>1, StateMoves DEF Moves, Leased, State
  <1>4. ASSUME NEW w \in Workers, Claim(w) PROVE \E v \in Workers : Owner(v, t)'
    <2>1. PICK s \in Tasks :
            /\ Claimable(s)
            /\ tasks' = [tasks EXCEPT ![s].state = "claimed", ![s].lease = "live"]
            /\ workers' = [workers EXCEPT ![w] = [Idle EXCEPT !.pc = "claimed", !.task = s]]
      BY <1>4 DEF Claim
    <2>2. CASE s = t
      BY <1>0, <2>1, <2>2 DEF Owner, Task, PCs, Idle
    <2>3. CASE s # t
      <3>1. State(t) \in Leased
        BY <1>0, <1>1, <2>1, <2>3 DEF State
      <3>2. \A v \in Workers : Kept(v)
        BY <1>0, <1>4, <2>1 DEF Owner, Task, Claim, At
      <3>3. QED
        BY <1>2, <3>1, <3>2
    <2>4. QED
      BY <2>2, <2>3
  <1>5. ASSUME NEW w \in Workers, Work(w) PROVE \E v \in Workers : Owner(v, t)'
    <2>1. State(t) \in Leased
      <3>1. CASE CheckBudget(w) \/ HandlerRaises(w) \/ RollUp(w) \/ Enforce(w) \/ Settle(w)
        BY <1>1, <3>1 DEF CheckBudget, HandlerRaises, RollUp, Enforce, Settle, State
      <3>2. CASE Release(w)
        <4>1. PICK s \in Releases[Task(w)], verdict \in ReleaseVerdicts :
                tasks' = [tasks EXCEPT ![s].state = verdict[1]]
          BY <3>2 DEF Release
        <4>2. s # t
          BY <1>0, <1>1, <4>1 DEF Leased, ReleaseVerdicts, Rows
        <4>3. QED
          BY <1>0, <1>1, <4>1, <4>2 DEF State
      <3>3. CASE HandlerDone(w)
        <4>1. tasks'[t] = IF t \in Spawns[Task(w)] /\ State(t) = "absent" THEN Row("pending")
                          ELSE Write(tasks, Task(w), "done")[t]
          BY <3>3 DEF HandlerDone
        <4>2. QED
          BY <1>0, <1>1, <4>1 DEF Write, Row, Rows, State, Leased
      <3>4. CASE MarkRunning(w)
        <4>1. tasks'[t].state \in {"running", State(t)}
          BY <1>0, <3>4 DEF MarkRunning, Rows, State
        <4>2. QED
          BY <1>1, <1>3, <4>1
      <3>5. CASE Refuse(w) \/ HandlerParks(w) \/ FailCommit(w)
        BY <1>0, <1>1, <1>3, <3>5 DEF Refuse, HandlerParks, FailCommit, Write, Rows, State, Leased
      <3>6. QED
        BY <1>5, <3>1, <3>2, <3>3, <3>4, <3>5 DEF Work
    <2>2. \A v \in Workers : v # w => Kept(v)
      <3>1. \A v \in Workers : v # w => workers'[v] = workers[v]
        BY <1>0, <1>5 DEF Work, CheckBudget, Refuse, MarkRunning, Release, HandlerDone,
           HandlerParks, HandlerRaises, FailCommit, RollUp, Enforce, Settle, Goto, Rest
      <3>2. QED
        BY <3>1 DEF Owner, Task
    <2>3. Kept(w)
      <3>1. SUFFICES ASSUME Owner(w, t) PROVE Owner(w, t)'
        OBVIOUS
      <3>2. Task(w) = t
        BY <3>1 DEF Owner
      <3>3. ~RollsUp(w)
        BY <3>1 DEF Owner, RollsUp, RollUp, Enforce, Settle, At
      <3>4. ~Refuse(w) /\ ~HandlerParks(w) /\ ~FailCommit(w)
        BY <1>0, <1>1, <3>2 DEF Refuse, HandlerParks, FailCommit, Write, Rows, Leased
      <3>5. ~HandlerDone(w)
        <4>1. HandlerDone(w) => tasks'[t] = Write(tasks, Task(w), "done")[t]
          BY <2>1 DEF HandlerDone, Leased
        <4>2. QED
          BY <1>0, <1>1, <3>2, <4>1 DEF Write, Rows, Leased
      <3>6. CASE CheckBudget(w) \/ Checks(w) \/ MarkRunning(w) \/ HandlerRaises(w)
        BY <1>0, <3>2, <3>6
        DEF CheckBudget, Checks, Enforce, At, MarkRunning, HandlerRaises, Goto, Owner, Task, PCs,
            Holders
      <3>7. CASE Release(w)
        BY <1>0, <3>2, <3>7 DEF Release, ReleaseVerdicts, Goto, Owner, Task, PCs, Holders
      <3>8. QED
        BY <1>5, <3>3, <3>4, <3>5, <3>6, <3>7 DEF Work, Checks, RollsUp
    <2>4. QED
      BY <1>2, <2>1, <2>2, <2>3
  <1>6. ASSUME NEW w \in Workers, Sweep(w) PROVE FALSE
    BY <1>6 DEF Sweep, Lapsed, Owned, Held, HeldRows
  <1>7. ASSUME NEW w \in Workers, Crash(w) PROVE FALSE
    BY <1>0, <1>7 DEF Crash
  <1>8. CASE LeaseLapses \/ Decide
    <2>1. workers' = workers
      BY <1>8 DEF LeaseLapses, Decide, EnqueueResume
    <2>2. State(t) \in Leased
      <3>1. CASE LeaseLapses
        BY <1>0, <1>1, <3>1 DEF LeaseLapses, Rows, State
      <3>2. CASE Decide
        <4>1. PICK r \in Resumes : EnqueueResume(r)
          BY <3>2 DEF Decide
        <4>2. QED
          BY <1>0, <1>1, <4>1 DEF EnqueueResume, Enqueued, Resumes, Row, State, Leased
      <3>3. QED
        BY <1>8, <3>1, <3>2
    <2>3. QED
      BY <1>2, <2>1, <2>2 DEF Owner, Task
  <1>9. ~OperatorStep
    BY NobodySteps DEF Held
  <1>10. QED
    BY <1>4, <1>5, <1>6, <1>7, <1>8, <1>9 DEF Next

LEMMA RefusedStep ==
    ASSUME TypeOK, Held, RefusedIsHalted, Next
    PROVE  RefusedIsHalted'
  <1>0. workers \in [Workers -> Holders]
    BY DEF TypeOK, Holders
  <1>1. SUFFICES ASSUME NEW v \in Workers, workers'[v].pc = "refused"
                 PROVE  run' = "halted_budget"
    BY DEF RefusedIsHalted, At
  <1>2. run = "halted_budget" => run' = "halted_budget"
    BY HaltStays DEF Held
  <1>3. CASE CheckBudget(v) \/ Checks(v)
    <2>1. run' = "halted_budget" \/ workers'[v].pc \in {"admitted", "checking"}
      BY <1>0, <1>3 DEF CheckBudget, Checks, Enforce, At, Goto, Holders
    <2>2. QED
      BY <1>1, <2>1
  <1>4. CASE ~CheckBudget(v) /\ ~Checks(v)
    <2>1. ASSUME NEW w \in Workers, Claim(w) \/ Work(w) \/ Crash(w), v # w
          PROVE  workers'[v] = workers[v]
      BY <1>0, <2>1 DEF Claim, Work, CheckBudget, Refuse, MarkRunning, Release, HandlerDone,
         HandlerParks, HandlerRaises, FailCommit, RollUp, Enforce, Settle, Crash, Goto, Rest
    <2>2. ~Claim(v)
      <3>1. Claim(v) => workers'[v].pc = "claimed"
        BY <1>0 DEF Claim, Idle
      <3>2. QED
        BY <1>1, <3>1
    <2>3. ~Crash(v) /\ ~Refuse(v) /\ ~FailCommit(v) /\ ~Settle(v)
      BY <1>0, <1>1, IdleType DEF Crash, Refuse, FailCommit, Settle, Rest
    <2>4. ~MarkRunning(v) /\ ~HandlerDone(v) /\ ~HandlerParks(v) /\ ~HandlerRaises(v)
      BY <1>0, <1>1 DEF MarkRunning, HandlerDone, HandlerParks, HandlerRaises, Goto, Holders
    <2>5. ~RollUp(v) /\ ~(Enforce(v) /\ ~At(v, "checking"))
      BY <1>0, <1>1, IdleType DEF RollUp, Enforce, At, Goto, Rest, Holders
    <2>6. ~Release(v)
      BY <1>0, <1>1 DEF Release, ReleaseVerdicts, Goto, Holders
    <2>7. ~Work(v)
      BY <1>4, <2>3, <2>4, <2>5, <2>6 DEF Work, Checks
    <2>8. workers'[v] = workers[v]
      BY <2>1, <2>2, <2>3, <2>7, OperatorStepLeaves
      DEF Next, Sweep, LeaseLapses, Decide, EnqueueResume
    <2>9. QED
      BY <1>1, <1>2, <2>8 DEF RefusedIsHalted, At
  <1>5. QED
    BY <1>3, <1>4

LEMMA OthersMoveStep ==
    ASSUME TypeOK, Held, Owned, OthersMove, OneWorker \/ (Chain /\ Started),
           retries = 0, retries' = 0, Next
    PROVE  OthersMove'
  <1>0. /\ tasks \in [Tasks -> Rows] /\ workers \in [Workers -> Holders]
        /\ \A w \in Workers : Task(w) \in Tasks
    BY DEF TypeOK, Rows, Holders, Task
  <1>1. SUFFICES ASSUME NEW v \in Workers,
                        workers'[v].pc = "failing", workers'[v].verdict = "running"
                 PROVE  \E u \in Tasks \ {workers'[v].task} : tasks'[u].state \in Movable
    BY DEF OthersMove, At, Task, State
  <1>2. CASE HandlerRaises(v)
    <2> DEFINE landed == Write(tasks, Task(v), "failed")
    <2>1. /\ workers'[v].task = Task(v) /\ tasks' = tasks
          /\ workers'[v].verdict = Settled(landed, "running")
      BY <1>0, <1>2 DEF HandlerRaises, Holders, Task
    <2>2. /\ landed[Task(v)].state = "failed"
          /\ \A t \in Tasks : t # Task(v) => landed[t] = tasks[t]
      BY <1>0 DEF Write, Rows
    <2> HIDE DEF landed
    <2>3. PICK u \in Tasks : landed[u].state \in Movable
      BY <1>0, <1>1, <2>1, <2>2, SettledRuns
    <2>4. QED
      BY <2>1, <2>2, <2>3 DEF Movable, Leased
  <1>3. CASE ~HandlerRaises(v)
    <2>1. workers'[v] = workers[v]
      BY <1>1, <1>3, FailingStays
    <2>2. PICK u \in Tasks \ {Task(v)} : State(u) \in Movable
      BY <1>1, <2>1 DEF OthersMove, At
    <2>3. At(v, "failing") /\ Owner(v, Task(v))
      BY <1>1, <2>1 DEF Owner, At, PCs, Task
    <2>4. State(Task(v)) \in Leased
      BY <1>0, <2>3 DEF Held, HeldRows
    <2>5. State(u) \notin Leased
      BY <1>0, <2>2, <2>4, OneAtATime
    <2>6. ~\E w \in Workers : At(w, "handling") /\ u \in Releases[Task(w)]
      <3>1. SUFFICES ASSUME NEW w \in Workers, At(w, "handling"), u \in Releases[Task(w)]
                     PROVE  FALSE
        OBVIOUS
      <3>2. Owner(w, Task(w)) /\ State(Task(w)) \in Leased
        BY <1>0, <3>1 DEF Held, HeldRows, Owner, At, PCs
      <3>3. Task(w) = Task(v)
        BY <1>0, <2>4, <3>2, OneAtATime
      <3>4. w = v
        BY <1>0, <2>3, <3>2, <3>3 DEF Held, OneWorkerPerTask
      <3>5. QED
        BY <2>3, <3>1, <3>4 DEF At
    <2>7. tasks'[u].state \in Movable
      BY <2>2, <2>5, <2>6, StateMoves DEF Moves, Movable, Leased
    <2>8. QED
      BY <2>1, <2>2, <2>7 DEF Task
  <1>4. QED
    BY <1>2, <1>3

LEMMA SettleIsDueStep ==
    ASSUME PunctualWorkers, TypeOK, Held, Owned, RefusedIsHalted, OthersMove, OthersMove',
           SettleIsDue, RunIsOpened, OneWorker \/ (Chain /\ Started),
           retries = 0, retries' = 0, crashes' = 0, Next
    PROVE  SettleIsDue'
  <1>0. /\ tasks \in [Tasks -> Rows] /\ workers \in [Workers -> Holders] /\ crashes \in Nat
        /\ run \in RunStates /\ \A w \in Workers : Task(w) \in Tasks
    BY TasksAssumption DEF TypeOK, Rows, Holders, Task
  <1>1. SUFFICES ASSUME \A t \in Tasks : tasks'[t].state \notin Movable, run' = "running"
                 PROVE  \E w \in Workers : workers'[w].pc \in {"done", "summing", "settling"}
    BY DEF SettleIsDue, NoneMovable, State
  <1> DEFINE Goal == \E w \in Workers : workers'[w].pc \in {"done", "summing", "settling"}
  <1>2. ASSUME NEW w \in Workers, Claim(w) PROVE FALSE
    <2>1. PICK s \in Tasks :
            tasks' = [tasks EXCEPT ![s].state = "claimed", ![s].lease = "live"]
      BY <1>2 DEF Claim
    <2>2. QED
      BY <1>0, <1>1, <2>1 DEF Movable, Leased, Rows
  <1>3. ASSUME NEW w \in Workers, Work(w) PROVE Goal
    <2>2. ~CheckBudget(w) /\ ~Checks(w) /\ ~HandlerRaises(w)
      <3>1. CheckBudget(w) \/ Checks(w) \/ HandlerRaises(w) => tasks' = tasks /\ Owner(w, Task(w))
        BY DEF CheckBudget, Checks, Enforce, HandlerRaises, Owner, At, PCs
      <3>2. QED
        BY <1>0, <1>1, <3>1 DEF Held, HeldRows, Movable, State
    <2>3. ~Refuse(w)
      BY <1>1 DEF Refuse, RefusedIsHalted
    <2>4. ~MarkRunning(w)
      <3>1. MarkRunning(w) => tasks'[Task(w)].state = "running"
        BY <1>0 DEF MarkRunning, Rows
      <3>2. QED
        BY <1>0, <1>1, <3>1 DEF Movable, Leased
    <2>5. ~HandlerParks(w)
      <3>1. HandlerParks(w) => tasks'[Task(w)].state = "awaiting_approval"
        BY <1>0 DEF HandlerParks, Write, Rows
      <3>2. QED
        BY <1>0, <1>1, <3>1 DEF Movable
    <2>6. ~Release(w)
      <3>1. SUFFICES ASSUME Release(w) PROVE FALSE
        OBVIOUS
      <3>2. PICK s \in Releases[Task(w)], verdict \in ReleaseVerdicts :
              tasks' = [tasks EXCEPT ![s].state = verdict[1]]
        BY <3>1 DEF Release
      <3>3. Task(w) \in Resumes /\ s # Task(w)
        BY <1>0, <3>2, ResumesAssumption DEF Resumes
      <3>4. State(Task(w)) \in Leased
        BY <1>0, <3>1 DEF Release, Held, HeldRows, Owner, At, PCs
      <3>5. QED
        BY <1>0, <1>1, <3>2, <3>3, <3>4 DEF Movable, State
    <2>7. ~FailCommit(w)
      <3>1. SUFFICES ASSUME FailCommit(w) PROVE FALSE
        OBVIOUS
      <3>2. tasks' = Write(tasks, Task(w), "failed") /\ At(w, "failing")
        BY <3>1 DEF FailCommit
      <3>3. run = "running" => workers[w].verdict = "running"
        BY <1>1, <3>1 DEF FailCommit
      <3>4. run = "running"
        BY <1>1, <3>1 DEF FailCommit
      <3>5. PICK u \in Tasks \ {Task(w)} : State(u) \in Movable
        BY <3>2, <3>3, <3>4 DEF OthersMove
      <3>6. tasks'[u] = tasks[u]
        BY <1>0, <3>2, <3>5 DEF Write
      <3>7. QED
        BY <1>1, <3>5, <3>6 DEF State
    <2>8. HandlerDone(w) => workers'[w].pc = "done"
      BY <1>0 DEF HandlerDone, Goto, Holders
    <2>9. CASE RollUp(w) \/ (Enforce(w) /\ ~At(w, "checking"))
      <3>1. CASE workers[w].pc \in {"done", "summing"}
        BY <1>0, <2>9, <3>1 DEF RollUp, Enforce, At, Goto, Holders
      <3>2. CASE workers[w].pc \notin {"done", "summing"}
        <4>1. /\ At(w, "parked") \/ At(w, "closing")
              /\ tasks' = tasks
              /\ \A v \in Workers : v # w => workers'[v] = workers[v]
          BY <1>0, <2>9, <3>2 DEF RollUp, Enforce, At, Goto, Rest
        <4>2. run = "running"
          BY <1>1, <2>9 DEF RollUp, Enforce
        <4>3. PICK v \in Workers : workers[v].pc \in {"done", "summing", "settling"}
          BY <1>1, <4>1, <4>2 DEF SettleIsDue, NoneMovable, State
        <4>4. v # w
          BY <4>1, <4>3 DEF At
        <4>5. QED
          BY <4>1, <4>3, <4>4
      <3>3. QED
        BY <3>1, <3>2
    <2>10. ~Settle(w)
      <3>1. SUFFICES ASSUME Settle(w) PROVE FALSE
        OBVIOUS
      <3>2. tasks' = tasks /\ Settled(tasks, run) = "running"
        BY <1>1, <3>1 DEF Settle
      <3>3. run = "running"
        BY <1>0, <3>2, SettledFacts
      <3>4. PICK t \in Tasks : tasks[t].state # "absent"
        BY DEF RunIsOpened, State
      <3>5. QED
        BY <1>1, <3>2, <3>3, <3>4, SettledRuns
    <2>11. QED
      BY <1>3, <2>2, <2>3, <2>4, <2>5, <2>6, <2>7, <2>8, <2>9, <2>10 DEF Work, Checks
  <1>4. ASSUME NEW w \in Workers, Sweep(w) PROVE FALSE
    BY <1>4 DEF Sweep, Lapsed, Owned, Held, HeldRows
  <1>5. ASSUME NEW w \in Workers, Crash(w) PROVE FALSE
    BY <1>0, <1>5 DEF Crash
  <1>6. CASE LeaseLapses
    <2>1. UNCHANGED <<run, workers>> /\ \A t \in Tasks : tasks'[t].state = tasks[t].state
      BY <1>0, <1>6 DEF LeaseLapses, Rows
    <2>2. QED
      BY <1>1, <2>1 DEF SettleIsDue, NoneMovable, State
  <1>7. CASE Decide
    <2>1. PICK r \in Tasks : tasks' = [tasks EXCEPT ![r] = Row("pending")]
      BY <1>7 DEF Decide, EnqueueResume, Enqueued, Resumes
    <2>2. QED
      BY <1>0, <1>1, <2>1 DEF Row, Movable
  <1>8. ~OperatorStep
    BY NobodySteps DEF Held
  <1>9. QED
    BY <1>2, <1>3, <1>4, <1>5, <1>6, <1>7, <1>8 DEF Next

LEMMA OpenedStep ==
    ASSUME TypeOK, RunIsOpened, Next
    PROVE  RunIsOpened'
  <1>0. tasks \in [Tasks -> Rows] /\ \A w \in Workers : Task(w) \in Tasks
    BY DEF TypeOK, Rows, Task
  <1>1. PICK t \in Tasks : State(t) # "absent"
    BY DEF RunIsOpened
  <1>2. SUFFICES tasks'[t].state # "absent"
    BY DEF RunIsOpened, State
  <1>3. tasks[t].state # "absent"
    BY <1>1 DEF State
  <1>4. ASSUME NEW w \in Workers, Claim(w) \/ Crash(w) PROVE tasks'[t].state # "absent"
    BY <1>0, <1>3, <1>4 DEF Claim, Crash, Rows
  <1>5. ASSUME NEW w \in Workers, Work(w) PROVE tasks'[t].state # "absent"
    <2>1. CASE HandlerDone(w)
      BY <1>0, <1>3, <2>1 DEF HandlerDone, Write, Row, Rows, State
    <2>2. CASE Release(w)
      BY <1>0, <1>3, <2>2 DEF Release, ReleaseVerdicts, Rows
    <2>3. CASE MarkRunning(w)
      BY <1>0, <1>3, <2>3 DEF MarkRunning, Rows
    <2>4. CASE Refuse(w) \/ HandlerParks(w) \/ FailCommit(w)
      BY <1>0, <1>3, <2>4 DEF Refuse, HandlerParks, FailCommit, Write, Rows
    <2>5. CASE CheckBudget(w) \/ HandlerRaises(w) \/ RollUp(w) \/ Enforce(w) \/ Settle(w)
      BY <1>3, <2>5 DEF CheckBudget, HandlerRaises, RollUp, Enforce, Settle
    <2>6. QED
      BY <1>5, <2>1, <2>2, <2>3, <2>4, <2>5 DEF Work
  <1>6. ASSUME NEW w \in Workers, Sweep(w) PROVE tasks'[t].state # "absent"
    BY <1>0, <1>3, <1>6 DEF Sweep, Rows
  <1>7. CASE LeaseLapses
    BY <1>0, <1>3, <1>7 DEF LeaseLapses, Rows
  <1>8. ASSUME NEW r \in Tasks, tasks' = [tasks EXCEPT ![r] = Row("pending")]
        PROVE  tasks'[t].state # "absent"
    BY <1>0, <1>3, <1>8 DEF Row
  <1>9. CASE Decide
    BY <1>8, <1>9 DEF Decide, EnqueueResume, Enqueued, Resumes
  <1>10. CASE OperatorStep
    <2>1. PICK o \in Operators : RetryRead(o) \/ ReopenRead(o) \/ Answer(o)
      BY <1>10 DEF OperatorStep
    <2>2. operators[o].task \in Tasks
      BY DEF TypeOK
    <2>3. tasks' = tasks \/ tasks' = [tasks EXCEPT ![operators[o].task] = Row("pending")]
      BY <2>1 DEF RetryRead, ReopenRead, Answer, Retry, Reopen, ReopenEnqueues, Enqueued
    <2>4. QED
      BY <1>3, <1>8, <2>2, <2>3
  <1>11. QED
    BY <1>4, <1>5, <1>6, <1>7, <1>9, <1>10 DEF Next

LEMMA LandingStep ==
    ASSUME PunctualWorkers, OneWorker \/ Chain,
           TypeOK, TypeOK', QueueInv, LandingInv, [Next]_vars
    PROVE  LandingInv'
  <1>1. CASE UNCHANGED vars
    BY <1>1 DEF vars, LandingInv, RunIsOpened, Unretried, Uncrashed, Started, Owned,
       RefusedIsHalted, OthersMove, SettleIsDue, NoneMovable, Owner, State, Task, At
  <1>2. CASE Next
    <2>1. /\ retries' = 0 => retries = 0
          /\ crashes' = 0 => crashes = 0
      <3>1. /\ retries' = retries \/ retries' = retries + 1
            /\ crashes' = crashes \/ crashes' = crashes + 1
        BY <1>2, CountersGrow
      <3>2. QED
        BY <3>1, TasksAssumption DEF TypeOK
    <2>2. RunIsOpened'
      BY <1>2, OpenedStep DEF LandingInv
    <2>3. ASSUME retries' = 0 PROVE retries = 0 /\ Held /\ (Chain => Started /\ Started')
      BY <1>2, <2>1, <2>3, StartedStep DEF LandingInv, QueueInv, Unretried
    <2>4. ASSUME retries' = 0, crashes' = 0
          PROVE  Owned' /\ RefusedIsHalted' /\ OthersMove' /\ SettleIsDue'
      <3>1. /\ Held /\ Owned /\ RefusedIsHalted /\ OthersMove /\ SettleIsDue /\ RunIsOpened
            /\ retries = 0 /\ (OneWorker \/ (Chain /\ Started))
        BY <2>1, <2>3, <2>4 DEF LandingInv, Uncrashed, Unretried
      <3>2. Owned' /\ RefusedIsHalted' /\ OthersMove'
        BY <1>2, <2>4, <3>1, OwnedStep, RefusedStep, OthersMoveStep
      <3>3. SettleIsDue'
        BY <1>2, <2>4, <3>1, <3>2, SettleIsDueStep
      <3>4. QED
        BY <3>2, <3>3
    <2>5. QED
      BY <2>2, <2>3, <2>4 DEF LandingInv, Uncrashed, Unretried
  <1>3. QED
    BY <1>1, <1>2

LEMMA LandingInit == ASSUME Init, Roots # {} PROVE LandingInv
  <1>1. \A w \in Workers : workers[w].pc = "idle"
    BY IdleType DEF Init
  <1>2. \A t \in Tasks : State(t) = IF t \in Roots THEN "pending" ELSE "absent"
    BY DEF Init, Row, State
  <1>3. PICK t \in Roots : t \in Tasks /\ State(t) = "pending"
    BY <1>2, TasksAssumption
  <1>4. RunIsOpened /\ SettleIsDue
    BY <1>3 DEF RunIsOpened, SettleIsDue, NoneMovable, Movable
  <1>5. Started /\ Owned
    BY <1>2 DEF Started, Owned, Leased
  <1>6. RefusedIsHalted /\ OthersMove
    BY <1>1 DEF RefusedIsHalted, OthersMove, At
  <1>7. QED
    BY <1>4, <1>5, <1>6 DEF LandingInv

(* settle.py: where stages do not fail side by side, because one worker drains the
   run or because its stages stand in a row, a run nobody retried and no crash cut
   short does not read `running` once every stage has landed and the workers rest. *)
THEOREM LandedRunSettles ==
    ASSUME PunctualWorkers, OneWorker \/ Chain, Roots # {}
    PROVE  Spec => []UncrashedRunSettles
  <1>1. Init => LandingInv
    BY LandingInit
  <1>2. TypeOK /\ TypeOK' /\ QueueInv /\ LandingInv /\ [Next]_vars => LandingInv'
    BY LandingStep
  <1>3. Spec => []QueueInv
    BY QueueInvariant
  <1>4. LandingInv => UncrashedRunSettles
    BY DEF LandingInv, UncrashedRunSettles, QuietRunSettles, Uncrashed, SettleIsDue, Resting, At
  <1>5. QED
    BY TypeCorrect, <1>1, <1>2, <1>3, <1>4, PTL DEF Spec
=============================================================================
