----------------------------- MODULE TaskQueue ------------------------------
(***************************************************************************)
(* One run's tasks and the workers that drain them: claim.py, worker.py,   *)
(* sweeper.py, settle.py, budget.py, the retry and the re-verify route,    *)
(* and the resume handler's release of a parked stage.  A step is one      *)
(* commit, or a read that a later commit rests on.  Every UPDATE of the    *)
(* worker loop names its row by id alone, so a worker whose lease has      *)
(* lapsed still writes the row it once claimed.                            *)
(***************************************************************************)
EXTENDS Integers

CONSTANTS
    Tasks,           \* the ids of the run's `tasks` rows
    Roots,           \* the rows written when the run is opened
    DependsOn,       \* task -> the tasks its depends_on names
    Spawns,          \* task -> the rows its handler enqueues with its own `done`
    Releases,        \* task -> for a `resume` task, the set of the one stage it releases
    Workers,
    Operators,       \* the operators' requests that re-open a run
    AttemptsCap,     \* TASK_ATTEMPTS_CAP
    PunctualWorkers, \* TRUE: a lease only lapses under a worker that died
    MaxCrashes, MaxRetries  \* bounds of the model

ASSUME TasksAssumption ==
    /\ Tasks # {} /\ Roots \subseteq Tasks
    /\ DependsOn \in [Tasks -> SUBSET Tasks]
    /\ Spawns \in [Tasks -> SUBSET Tasks]
    /\ Releases \in [Tasks -> SUBSET Tasks]
    /\ AttemptsCap \in Nat
    /\ PunctualWorkers \in BOOLEAN
    /\ MaxCrashes \in Nat /\ MaxRetries \in Nat

VARIABLES
    tasks,      \* the `tasks` table
    run,        \* runs.status
    spent,      \* spend_for(run) has reached budget_usd
    workers,    \* worker -> where run_once is, and with which task
    operators,  \* request -> how far it has come, with the run status it read
    crashes, retries

vars == <<tasks, run, spent, workers, operators, crashes, retries>>

-----------------------------------------------------------------------------

Leased == {"claimed", "running"}
Movable == {"pending", "awaiting_approval"} \cup Leased
TaskStates == {"absent", "done", "failed"} \cup Movable
RunStates == {"running", "succeeded", "failed", "halted_budget"}
PCs == {"idle", "claimed", "checking", "refused", "admitted", "handling", "released",
        "raising", "failing", "parked", "closing", "done", "summing", "settling"}

NoTask == CHOOSE t \in Tasks : TRUE
Idle == [pc |-> "idle", task |-> NoTask, verdict |-> "running"]
NoRetry == [pc |-> "idle", task |-> NoTask, run |-> "running"]

TypeOK ==
    /\ tasks \in [Tasks -> [state : TaskStates, lease : {"none", "live", "lapsed"},
                            attempts : 0 .. AttemptsCap]]
    /\ run \in RunStates
    /\ spent \in BOOLEAN
    /\ workers \in [Workers -> [pc : PCs, task : Tasks, verdict : RunStates]]
    /\ operators \in [Operators -> [pc : {"idle", "retrying", "reopening", "reopened"},
                                   task : Tasks, run : RunStates]]
    /\ crashes \in 0 .. MaxCrashes
    /\ retries \in 0 .. MaxRetries

State(t) == tasks[t].state
Resumes == {t \in Tasks : Releases[t] # {}}

Row(state) == [state |-> state, lease |-> "none", attempts |-> 0]

(* A `resume` task names one stage, which is not such a task itself, and it is
   enqueued by a decision, never with the run and never by a handler. *)
ASSUME ResumesAssumption ==
    \A r \in Resumes :
        /\ \A s, t \in Releases[r] : s = t
        /\ Releases[r] \cap Resumes = {}
        /\ r \notin Roots
        /\ \A t \in Tasks : r \notin Spawns[t]

Init ==
    /\ tasks = [t \in Tasks |-> Row(IF t \in Roots THEN "pending" ELSE "absent")]
    /\ run = "running"
    /\ spent = FALSE
    /\ workers = [w \in Workers |-> Idle]
    /\ operators = [o \in Operators |-> NoRetry]
    /\ crashes = 0
    /\ retries = 0

-----------------------------------------------------------------------------
(* settle_run and enforce_run_budget, as functions of what they read. *)

(* Slips of settle_run: a halted run is settled too; a parked stage counts as
   landed; one stage done is enough. *)
SettledAnyway(ts, status) ==
    LET states == {ts[t].state : t \in Tasks} \ {"absent"} IN
    IF states = {} \/ states \cap Movable # {} THEN status
    ELSE IF "failed" \in states THEN "failed" ELSE "succeeded"

SettledOverParked(ts, status) ==
    LET states == {ts[t].state : t \in Tasks} \ {"absent"} IN
    IF status # "running" \/ states = {} \/ states \cap ({"pending"} \cup Leased) # {}
      THEN status
    ELSE IF "failed" \in states THEN "failed" ELSE "succeeded"

(* What settle_run makes of a run: settled by its stages once none can move,
   unless it is no longer `running`. *)
Settled(ts, status) ==
    LET states == {ts[t].state : t \in Tasks} \ {"absent"} IN
    IF status # "running" \/ states = {} \/ states \cap Movable # {} THEN status
    ELSE IF "failed" \in states THEN "failed" ELSE "succeeded"

(* `UPDATE tasks SET state = ... WHERE id = :id`, with the lease given up. *)
Write(ts, t, state) == [ts EXCEPT ![t].state = state, ![t].lease = "none"]

At(w, pc) == workers[w].pc = pc
Task(w) == workers[w].task
Goto(w, pc) == workers' = [workers EXCEPT ![w].pc = pc]
Rest(w) == workers' = [workers EXCEPT ![w] = Idle]

(* Model calls are metered as they are made: a handler may cross the budget. *)
Spend == spent' \in {spent, TRUE}

-----------------------------------------------------------------------------
(* run_once *)

(* A slip: a row another worker holds is claimable. *)
ClaimableHeld(t) == State(t) \in {"pending", "claimed"}

Claimable(t) == State(t) = "pending" /\ \A d \in DependsOn[t] : State(d) = "done"

Claim(w) ==
    /\ At(w, "idle")
    /\ \E t \in Tasks :
        /\ Claimable(t)
        /\ tasks' = [tasks EXCEPT ![t].state = "claimed", ![t].lease = "live"]
        /\ workers' = [workers EXCEPT ![w] = [Idle EXCEPT !.pc = "claimed", !.task = t]]
    /\ UNCHANGED <<run, spent, operators, crashes, retries>>

(* A halted run starts no new work; a `resume` task is exempt.  The budget is
   looked into when the run is read `running`. *)
CheckBudget(w) ==
    /\ At(w, "claimed")
    /\ Goto(w, IF Task(w) \in Resumes THEN "admitted"
               ELSE CASE run = "running"       -> "checking"
                      [] run = "halted_budget" -> "refused"
                      [] OTHER                 -> "admitted")
    /\ UNCHANGED <<tasks, run, spent, operators, crashes, retries>>

Refuse(w) ==
    /\ At(w, "refused")
    /\ tasks' = Write(tasks, Task(w), "failed")
    /\ Rest(w)
    /\ UNCHANGED <<run, spent, operators, crashes, retries>>

(* From here on the session may hold a copy of the run's row. *)
MarkRunning(w) ==
    /\ At(w, "admitted")
    /\ tasks' = [tasks EXCEPT ![Task(w)].state = "running"]
    /\ workers' = [workers EXCEPT ![w].pc = "handling", ![w].verdict = run]
    /\ UNCHANGED <<run, spent, operators, crashes, retries>>

(* handle_resume: the parked stage gets its verdict in a commit of its own,
   whatever state it is in by then.  The action succeeded, ended otherwise, or
   raised, which the handler raises again. *)
ReleaseVerdicts == {<<"done", "released">>, <<"failed", "released">>, <<"failed", "raising">>}

Release(w) ==
    /\ At(w, "handling")
    /\ \E t \in Releases[Task(w)], verdict \in ReleaseVerdicts :
         /\ tasks' = [tasks EXCEPT ![t].state = verdict[1]]
         /\ Goto(w, verdict[2])
    /\ UNCHANGED <<run, spent, operators, crashes, retries>>

(* The handler returned: `done` and the rows it enqueued land together. *)
HandlerDone(w) ==
    /\ \/ At(w, "handling") /\ Task(w) \notin Resumes
       \/ At(w, "released")
    /\ tasks' = [t \in Tasks |->
                   IF t \in Spawns[Task(w)] /\ State(t) = "absent" THEN Row("pending")
                   ELSE Write(tasks, Task(w), "done")[t]]
    /\ Spend
    /\ Goto(w, "done")
    /\ UNCHANGED <<run, operators, crashes, retries>>

(* It raised ApprovalRequired: the stage parks and its lease is released. *)
HandlerParks(w) ==
    /\ At(w, "handling")
    /\ Task(w) \notin Resumes
    /\ tasks' = Write(tasks, Task(w), "awaiting_approval")
    /\ Spend
    /\ Goto(w, "parked")
    /\ UNCHANGED <<run, operators, crashes, retries>>

(* It raised: the failure and the settle are one transaction, and the settle
   reads the other stages as they are committed before this one commits. *)
HandlerRaises(w) ==
    /\ \/ At(w, "handling") /\ Task(w) \notin Resumes
       \/ At(w, "raising")
    /\ workers' = [workers EXCEPT ![w].pc = "failing",
                     ![w].verdict = Settled(Write(tasks, Task(w), "failed"), "running")]
    /\ Spend
    /\ UNCHANGED <<tasks, run, operators, crashes, retries>>

FailCommit(w) ==
    /\ At(w, "failing")
    /\ tasks' = Write(tasks, Task(w), "failed")
    /\ run' = IF run = "running" THEN workers[w].verdict ELSE run
    /\ Rest(w)
    /\ UNCHANGED <<spent, operators, crashes, retries>>

(* A slip: a finished stage does not settle its run. *)
RollUpOnly(w) ==
    /\ At(w, "done") \/ At(w, "parked")
    /\ \E read \in {workers[w].verdict, run} :
         IF read = "running" THEN Goto(w, "closing") ELSE Rest(w)
    /\ UNCHANGED <<tasks, run, spent, operators, crashes, retries>>

(* The rollup after a stage reads the run, or finds its session's copy. *)
RollUp(w) ==
    /\ At(w, "done") \/ At(w, "parked")
    /\ \E read \in {workers[w].verdict, run} :
         IF At(w, "done") THEN Goto(w, IF read = "running" THEN "summing" ELSE "settling")
         ELSE IF read = "running" THEN Goto(w, "closing") ELSE Rest(w)
    /\ UNCHANGED <<tasks, run, spent, operators, crashes, retries>>

(* enforce_run_budget, once it has read the run `running`: it sums the spend up
   and writes the halt, whatever the run reads by now. *)
Enforce(w) ==
    /\ run' = IF spent THEN "halted_budget" ELSE run
    /\ \/ At(w, "checking") /\ Goto(w, IF spent THEN "refused" ELSE "admitted")
       \/ At(w, "summing") /\ Goto(w, "settling")
       \/ At(w, "closing") /\ Rest(w)
    /\ UNCHANGED <<tasks, spent, operators, crashes, retries>>

(* A finished stage, last of all, settles its run. *)
Settle(w) ==
    /\ At(w, "settling")
    /\ run' = Settled(tasks, run)
    /\ Rest(w)
    /\ UNCHANGED <<tasks, spent, operators, crashes, retries>>

-----------------------------------------------------------------------------
(* Leases, the sweep, crashes. *)

Owner(w, t) ==
    /\ Task(w) = t
    /\ workers[w].pc \in PCs \ {"idle", "done", "parked", "summing", "closing", "settling"}

LeaseLapses ==
    /\ \E t \in Tasks :
        /\ tasks[t].lease = "live"
        /\ PunctualWorkers => \A w \in Workers : ~Owner(w, t)
        /\ tasks' = [tasks EXCEPT ![t].lease = "lapsed"]
    /\ UNCHANGED <<run, spent, workers, operators, crashes, retries>>

(* Slips: the sweep takes parked rows, which carry no lease, or overlooks the
   running ones. *)
LapsedOrParked ==
    {t \in Tasks : State(t) \in Leased \cup {"awaiting_approval"} /\ tasks[t].lease # "live"}
LapsedClaimed == {t \in Tasks : State(t) = "claimed" /\ tasks[t].lease = "lapsed"}

Lapsed == {t \in Tasks : State(t) \in Leased /\ tasks[t].lease = "lapsed"}

PastCap(t) == tasks[t].attempts + 1 > AttemptsCap

(* sweep_expired_leases: past the cap to failed, the others back to pending,
   and a run that lost a task to the cap is settled. *)
Sweep(w) ==
    LET spentOut == {t \in Lapsed : PastCap(t)} IN
    /\ At(w, "idle")
    /\ Lapsed # {}
    /\ tasks' = [t \in Tasks |->
         CASE t \in spentOut -> [tasks[t] EXCEPT !.state = "failed", !.lease = "none"]
           [] t \in Lapsed \ spentOut -> [state |-> "pending", lease |-> "none",
                                          attempts |-> tasks[t].attempts + 1]
           [] OTHER -> tasks[t]]
    /\ run' = IF spentOut # {} THEN Settled(tasks', run) ELSE run
    /\ UNCHANGED <<spent, workers, operators, crashes, retries>>

Crash(w) ==
    /\ ~At(w, "idle")
    /\ crashes < MaxCrashes
    /\ crashes' = crashes + 1
    /\ Rest(w)
    /\ UNCHANGED <<tasks, run, spent, operators, retries>>

-----------------------------------------------------------------------------
(* The operator. *)

Enqueued(r) == State(r) = "absent" /\ tasks' = [tasks EXCEPT ![r] = Row("pending")]

(* _enqueue_resume: what a decision leaves to a worker. *)
EnqueueResume(r) ==
    /\ Enqueued(r)
    /\ UNCHANGED <<run, spent, workers, operators, crashes, retries>>

Asking(o, pc) == operators[o].pc = pc
Promised(r) == \E o \in Operators : ~Asking(o, "idle") /\ operators[o].task = r

(* The gate's side of it left out, the operator decides on a parked stage. *)
Decide ==
    \E r \in Resumes : \E t \in Releases[r] :
        State(t) = "awaiting_approval" /\ ~Promised(r) /\ EnqueueResume(r)

(* Both routes that re-open a run read it, take no lock, and write it later. *)
ReadsRun(o, pc, t) ==
    /\ Asking(o, "idle")
    /\ operators' = [operators EXCEPT ![o] = [pc |-> pc, task |-> t, run |-> run]]

Reopened(status) == IF status \in {"succeeded", "failed"} THEN "running" ELSE run

(* POST /tasks/{id}/retry: the task and the run are read, and written later.
   Re-running a stage that enqueues others writes new rows: not here. *)
RetryRead(o) ==
    /\ run # "halted_budget"
    /\ \E t \in Tasks :
        /\ State(t) \in {"failed", "done"}
        /\ State(t) = "done" => Spawns[t] = {}
        /\ ReadsRun(o, "retrying", t)
    /\ retries < MaxRetries
    /\ retries' = retries + 1
    /\ UNCHANGED <<tasks, run, spent, workers, crashes>>

Retry(o) ==
    /\ Asking(o, "retrying")
    /\ tasks' = [tasks EXCEPT ![operators[o].task] = Row("pending")]
    /\ run' = Reopened(operators[o].run)
    /\ operators' = [operators EXCEPT ![o] = NoRetry]
    /\ UNCHANGED <<spent, workers, crashes, retries>>

(* The stage has been at work before: its action may have failed. *)
Tried(t) == State(t) \notin {"absent", "pending", "claimed"} \/ tasks[t].attempts > 0

(* POST /actions/{id}/reverify, but for the action: the run is read and re-opened
   in one commit, and a `resume` task is enqueued in another. *)
ReopenRead(o) ==
    /\ \E r \in Resumes :
        /\ State(r) = "absent" /\ ~Promised(r)
        /\ \A t \in Releases[r] : Tried(t)
        /\ ReadsRun(o, "reopening", r)
    /\ retries < MaxRetries
    /\ retries' = retries + 1
    /\ UNCHANGED <<tasks, run, spent, workers, crashes>>

Reopen(o) ==
    /\ Asking(o, "reopening")
    /\ run' = Reopened(operators[o].run)
    /\ operators' = [operators EXCEPT ![o].pc = "reopened"]
    /\ UNCHANGED <<tasks, spent, workers, crashes, retries>>

ReopenEnqueues(o) ==
    /\ Asking(o, "reopened")
    /\ Enqueued(operators[o].task)
    /\ operators' = [operators EXCEPT ![o] = NoRetry]
    /\ UNCHANGED <<run, spent, workers, crashes, retries>>

Answer(o) == Retry(o) \/ Reopen(o) \/ ReopenEnqueues(o)

OperatorStep == \E o \in Operators : RetryRead(o) \/ ReopenRead(o) \/ Answer(o)

-----------------------------------------------------------------------------

Work(w) ==
    \/ CheckBudget(w) \/ Refuse(w) \/ MarkRunning(w) \/ Release(w) \/ HandlerDone(w)
    \/ HandlerParks(w) \/ HandlerRaises(w) \/ FailCommit(w) \/ RollUp(w) \/ Enforce(w)
    \/ Settle(w)

Next ==
    \/ \E w \in Workers : Claim(w) \/ Work(w) \/ Sweep(w) \/ Crash(w)
    \/ LeaseLapses \/ Decide \/ OperatorStep

Spec == Init /\ [][Next]_vars

(* The loop keeps claiming and sweeping, a handler ends (its calls carry
   timeouts and caps), time passes, and a request is answered.  Nobody has to
   decide, to retry, or to crash. *)
Fairness ==
    /\ \A w \in Workers : WF_vars(Claim(w)) /\ WF_vars(Work(w))
    /\ WF_vars(\E w \in Workers : Sweep(w))
    /\ WF_vars(LeaseLapses)
    /\ \A o \in Operators : WF_vars(Answer(o))

FairSpec == Spec /\ Fairness

-----------------------------------------------------------------------------
(* Properties. *)

Resting == \A w \in Workers : At(w, "idle")
NoneMovable == \A t \in Tasks : State(t) \notin Movable

(* While no lease outlives its worker, a stage is in one worker's hands: no
   crash, sweep or approval delivers it to two at once, and no single retry.  (Two
   retries of a stage can: a `resume` task that is redelivered after a crash
   releases the stage again, under the worker that took the first retry.) *)
OneWorkerPerTask ==
    \A w1, w2 \in Workers : \A t \in Tasks : Owner(w1, t) /\ Owner(w2, t) => w1 = w2

(* What follows is asked of runs nobody re-opens: a retry that read the run
   before it settled re-queues a stage under a settled run. *)
Unretried == retries = 0

(* A run settles only over stages that have all landed: a settled run has no
   stage that a worker or an operator's decision would still move, and it does
   not read `succeeded` over one that failed. *)
SettledIsQuiet ==
    /\ Unretried /\ run \in {"succeeded", "failed"} => NoneMovable
    /\ Unretried /\ run = "succeeded" => \A t \in Tasks : State(t) # "failed"

(* Once every stage has landed and the workers are at rest, the run has been
   settled: it does not read `running` for ever. *)
QuietRunSettles ==
    Resting /\ NoneMovable /\ (\A o \in Operators : Asking(o, "idle")) => run # "running"

(* The same, short of the crash that takes the last stage's settle with it:
   along a chain of stages every landing, a parked stage's release included,
   is followed by the settle that sees the others landed.  (Two stages that
   fail side by side can each read the other still running; so can a stage that
   fails behind a parked one and the release that let it start.) *)
UncrashedRunSettles == Unretried /\ crashes = 0 => QuietRunSettles

(* settle.py: "a halted run stays halted".  No settle, sweep, failure or rollup,
   whatever it had read, takes a run out of its halt; that is left to a retry or a
   re-verification whose request was under way before the halt, and had read the
   run settled. *)
HaltYieldsToReopenOnly ==
    [][run = "halted_budget" /\ run' # "halted_budget" =>
          \E o \in Operators : /\ operators[o].pc \in {"retrying", "reopening"}
                               /\ operators[o].run \in {"succeeded", "failed"}
                               /\ operators'[o] # operators[o]]_vars

(* A stage a human has to decide on is moved by that decision alone: the sweep
   and the workers leave it parked (R7). *)
ParkedWaitsForRelease ==
    [][\A t \in Tasks : State(t) = "awaiting_approval" /\ tasks'[t].state # State(t)
         => \E w \in Workers : At(w, "handling") /\ t \in Releases[Task(w)]]_vars

(* A stage somebody has claimed lands or parks, whoever dies on the way, or it
   waits for a dependency an operator has re-queued. *)
ClaimedLands ==
    \A t \in Tasks : State(t) \in Leased
        ~> \/ State(t) \in {"done", "failed", "awaiting_approval"}
           \/ State(t) = "pending" /\ ~Claimable(t)
=============================================================================
