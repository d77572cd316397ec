------------------------------- MODULE Agency -------------------------------
(***************************************************************************)
(* The agency at work on a run: ActionGate and TaskQueue composed.  A      *)
(* worker's handler calls the gate and its task takes the outcome; an      *)
(* operator's request decides an action in the web process and leaves a    *)
(* `resume` task for a worker; and every worker sweeps, re-driving the     *)
(* actions it takes for orphans before it re-queues lapsed tasks.          *)
(*                                                                         *)
(* The gate's sessions are the workers and the operator's requests.  What  *)
(* either module leaves to chance about the other is settled here.         *)
(***************************************************************************)
EXTENDS Integers

CONSTANTS
    Keys, ApprovalKeys, DeferredKeys, ResultKeys, DocKeys, Requires,
    MaxVerifyAttempts, FlakyWorld,                       \* of the gate
    Tasks, Roots, DependsOn, Spawns, Releases, Workers, AttemptsCap,
    PunctualWorkers, MaxCrashes, MaxRetries,             \* of the queue
    ActionOf,   \* task -> the actions it requests, or, for a `resume`, re-drives
    Clicks,     \* the operator's requests to the actions' routes
    Retrier,    \* the operator's request to the retry route
    ResumeOf,   \* click -> the `resume` task it enqueues
    PatientOperator,  \* TRUE: the operator waits for an answer before the next click
    WebDies     \* TRUE: the web process may die in the middle of a request

VARIABLES rows, sessions, effects, approved,
          tasks, run, spent, workers, operators, crashes, retries

gateVars == <<rows, sessions, effects, approved>>
queueVars == <<tasks, run, spent, workers, operators, crashes, retries>>
vars == <<gateVars, queueVars>>

Gate == INSTANCE ActionGate WITH Sessions <- Workers \cup Clicks
Queue == INSTANCE TaskQueue WITH Operators <- Clicks \cup {Retrier}

(* A request is not a worker, nor another, and a `resume` task carries one action's id. *)
ASSUME AgencyAssumption ==
    /\ Gate!KeysAssumption /\ Gate!AttemptsAssumption
    /\ Queue!TasksAssumption /\ Queue!ResumesAssumption
    /\ ActionOf \in [Tasks -> SUBSET Keys]
    /\ ResumeOf \in [Clicks -> Queue!Resumes]
    /\ Workers \cap Clicks = {} /\ Retrier \notin Clicks
    /\ \A r \in Queue!Resumes : \A k, l \in ActionOf[r] : k = l

Init == Gate!Init /\ Queue!Init

TypeOK == Gate!TypeOK /\ Queue!TypeOK

-----------------------------------------------------------------------------
(* A worker in run_once. *)

Resting(w) == Queue!At(w, "idle") /\ Gate!At(w, "idle")
Task(w) == workers[w].task
Outcome(w) == sessions[w].outcome
Handling(w, called) == Queue!At(w, "handling") /\ Gate!At(w, called)

Claim(w) == Resting(w) /\ Queue!Claim(w) /\ UNCHANGED gateVars

(* The steps that have nothing to do with the gate, among them a stage whose
   own work ends, or fails, with no action requested. *)
Proceed(w) ==
    /\ \/ Queue!CheckBudget(w) \/ Queue!Refuse(w) \/ Queue!MarkRunning(w)
       \/ Queue!FailCommit(w) \/ Queue!RollUp(w) \/ Queue!Enforce(w) \/ Queue!Settle(w)
       \/ Queue!HandlerDone(w) /\ (Queue!At(w, "released") \/ ActionOf[Task(w)] = {})
       \/ Queue!HandlerRaises(w) /\ Gate!At(w, "idle")
    /\ UNCHANGED gateVars

(* What a stage asks for next.  The money stage has several actions and asks for
   the one that needs an approval last; what has succeeded short-circuits. *)
Due(w) ==
    LET left == {k \in ActionOf[Task(w)] : rows[k].state # "succeeded"} IN
    IF left = {} THEN ActionOf[Task(w)]
    ELSE IF left \subseteq ApprovalKeys THEN left ELSE left \ ApprovalKeys

(* The handler calls the gate: request() for a stage; resume() with the run's
   brand doc for a `resume` task. *)
StageCalls(w) ==
    /\ Handling(w, "idle")
    /\ Task(w) \notin Queue!Resumes
    /\ \E k \in Due(w) : Gate!RequestCheck(w, k)
    /\ UNCHANGED queueVars

ResumeCalls(w) ==
    /\ Handling(w, "idle")
    /\ Task(w) \in Queue!Resumes
    /\ \E k \in ActionOf[Task(w)] : Gate!Resume(w, k, FALSE, k \in DocKeys)
    /\ UNCHANGED queueVars

GateWorks(s) ==
    /\ ~Gate!At(s, "returned") /\ ~Gate!At(s, "reverify")
    /\ Gate!Step(s)
    /\ UNCHANGED queueVars

LastAction(w) ==
    \A k \in ActionOf[Task(w)] \ {sessions[w].key} : rows[k].state = "succeeded"

(* The task takes what the gate returned or raised, or the stage goes on to its
   next action. *)
StageReturns(w) ==
    /\ Handling(w, "returned")
    /\ Task(w) \notin Queue!Resumes
    /\ CASE Outcome(w) = "succeeded"        -> IF LastAction(w) THEN Queue!HandlerDone(w)
                                               ELSE UNCHANGED queueVars
         [] Outcome(w) = "ApprovalRequired" -> Queue!HandlerParks(w)
         [] OTHER                           -> Queue!HandlerRaises(w)
    /\ Gate!Finish(w)

(* A slip: whatever did not raise counts as done. *)
ResumeVerdictLenient(outcome) ==
    IF outcome = "raised" THEN <<"failed", "raising">> ELSE <<"done", "released">>

ResumeVerdict(outcome) ==
    CASE outcome = "succeeded" -> <<"done", "released">>
      [] outcome = "raised"    -> <<"failed", "raising">>
      [] OTHER                 -> <<"failed", "released">>

ResumeReturns(w) ==
    /\ Handling(w, "returned")
    /\ Task(w) \in Queue!Resumes
    /\ Queue!Release(w)
    /\ \A t \in Releases[Task(w)] :
          <<tasks'[t].state, workers'[w].pc>> = ResumeVerdict(Outcome(w))
    /\ Gate!Finish(w)

-----------------------------------------------------------------------------
(* A worker's recovery pass: actions first, then their tasks. *)

StageOf(k) == {t \in Tasks \ Queue!Resumes : k \in ActionOf[t]}

(* A slip: the orphans of a crash after `verifying` was committed are missed. *)
OrphanExecuting(k) ==
    /\ rows[k].state = "executing"
    /\ k \notin DeferredKeys
    /\ \E t \in StageOf(k) : tasks[t].lease # "live"

(* An action in flight whose task holds no live lease, and whose proof is not
   deferred to an observer. *)
Orphan(k) ==
    /\ rows[k].state \in Gate!InFlight
    /\ k \notin DeferredKeys
    /\ \E t \in StageOf(k) : tasks[t].lease # "live"

Orphans == {k \in Keys : Orphan(k)}

(* The pass locks the row it re-drives until its first commit, and skips a
   row another pass holds. *)
InPass(w, k) == Queue!At(w, "idle") /\ ~Gate!At(w, "idle") /\ sessions[w].key = k
Locked(k) == \E v \in Workers : InPass(v, k) /\ Gate!At(v, "run")
MayBeLocked(k) == \E v \in Workers : InPass(v, k) /\ ~Gate!At(v, "returned")

(* resume_orphaned_actions hands resume() the id alone: no brand doc. *)
OrphanPass(w) ==
    /\ Resting(w)
    /\ \E k \in Orphans : ~Locked(k) /\ Gate!Resume(w, k, FALSE, FALSE)
    /\ UNCHANGED queueVars

SweepTasks(w) == IF Queue!Lapsed = {} THEN UNCHANGED queueVars ELSE Queue!Sweep(w)

OrphanDone(w) ==
    /\ Queue!At(w, "idle")
    /\ Gate!Finish(w)
    /\ SweepTasks(w)

(* A slip: the tasks are swept whatever became of their actions. *)
SweepFirst(w) ==
    /\ Resting(w)
    /\ Queue!Sweep(w)
    /\ UNCHANGED gateVars

(* A pass that finds no orphan to re-drive goes straight on to the tasks. *)
Sweep(w) ==
    /\ Resting(w)
    /\ \A k \in Orphans : MayBeLocked(k)
    /\ Queue!Sweep(w)
    /\ UNCHANGED gateVars

WorkerDies(w) ==
    /\ ~Resting(w)
    /\ crashes < MaxCrashes
    /\ crashes' = crashes + 1
    /\ workers' = [workers EXCEPT ![w] = Queue!Idle]
    /\ sessions' = [sessions EXCEPT ![w] = Gate!IdleCall]
    /\ UNCHANGED <<rows, effects, approved, tasks, run, spent, operators, retries>>

-----------------------------------------------------------------------------
(* The operator's requests: approve, deny, re-verify.  The decision and the
   `resume` task are two commits. *)

Click(c) ==
    /\ PatientOperator => \A d \in Clicks : Gate!At(d, "idle")
    /\ tasks[ResumeOf[c]].state = "absent"
    /\ \E k \in ActionOf[ResumeOf[c]] :
         \/ /\ \E call \in {"record_approval", "deny"} : Gate!Decide(c, k, call)
            /\ UNCHANGED queueVars
         \/ /\ Gate!ReverifyRead(c, k)
            /\ Queue!ReadsRun(c, "reopening", ResumeOf[c])
            /\ UNCHANGED <<tasks, run, spent, workers, crashes, retries>>

(* Re-verifying an action re-opens the run that was read settled. *)
ClickReverifies(c) == Gate!Reverify(c) /\ Queue!Reopen(c)

(* A slip: the decision leaves no `resume` task. *)
ClickForgets(c) == Gate!Finish(c) /\ UNCHANGED queueVars

ClickEnqueues(c) ==
    /\ Gate!Finish(c)
    /\ Queue!Enqueued(ResumeOf[c])
    /\ operators' = [operators EXCEPT ![c] = Queue!NoRetry]
    /\ UNCHANGED <<run, spent, workers, crashes, retries>>

ClickDies(c) ==
    /\ WebDies
    /\ Gate!Crash(c)
    /\ crashes < MaxCrashes
    /\ crashes' = crashes + 1
    /\ operators' = [operators EXCEPT ![c] = Queue!NoRetry]
    /\ UNCHANGED <<tasks, run, spent, workers, retries>>

-----------------------------------------------------------------------------

WorkerStep(w) ==
    \/ Proceed(w) \/ StageCalls(w) \/ ResumeCalls(w) \/ GateWorks(w)
    \/ StageReturns(w) \/ ResumeReturns(w) \/ OrphanDone(w)

ClickStep(c) == GateWorks(c) \/ ClickReverifies(c) \/ ClickEnqueues(c)

Environment ==
    /\ Queue!LeaseLapses \/ Queue!RetryRead(Retrier) \/ Queue!Retry(Retrier)
    /\ UNCHANGED gateVars

Next ==
    \/ \E w \in Workers : Claim(w) \/ WorkerStep(w) \/ OrphanPass(w) \/ Sweep(w) \/ WorkerDies(w)
    \/ \E c \in Clicks : Click(c) \/ ClickStep(c) \/ ClickDies(c)
    \/ Environment

Spec == Init /\ [][Next]_vars

(* As in the two modules, and run_worker reaches a claim between any two of
   its recovery passes: a claim that is possible again and again is made. *)
Fairness ==
    /\ \A w \in Workers : /\ SF_vars(Claim(w))
                         /\ WF_vars(WorkerStep(w))
                         /\ WF_vars(OrphanPass(w) \/ Sweep(w))
    /\ \A c \in Clicks : WF_vars(ClickStep(c))
    /\ WF_vars(Queue!LeaseLapses /\ UNCHANGED gateVars)
    /\ WF_vars(Queue!Retry(Retrier) /\ UNCHANGED gateVars)

FairSpec == Spec /\ Fairness

-----------------------------------------------------------------------------
(* Properties. *)

Stages == Tasks \ Queue!Resumes

(* No stage reads `done` over an effect nobody proved: not after a re-run, a
   redelivery, an orphan pass or a decision (T147). *)
DoneIsProved ==
    \A t \in Stages : tasks[t].state = "done" => \A k \in ActionOf[t] : rows[k].evidence

(* An action reaches the world once, whoever drives it: the stage, a `resume`
   task, the orphan pass, and what follows their crashes. *)
EffectAtMostOnce == \A k \in Keys : effects[k] <= 1

(* action-gate.md, 6: after a deny "nothing executes, ever, for that key". *)
DeniedNeverExecutes ==
    [][\A k \in Keys : rows[k].state = "denied" => effects'[k] = effects[k]]_vars

(* A decided action is on its way to a worker, or was there. *)
DecisionIsCarried ==
    \A k \in Keys : rows[k].state = "awaiting_approval" /\ rows[k].decision # "none" =>
        \E c \in Clicks : /\ k \in ActionOf[ResumeOf[c]]
                          /\ \/ ~Gate!At(c, "idle")
                             \/ tasks[ResumeOf[c]].state # "absent"

(* The gate's own: with one worker and a patient operator no verdict is taken
   back, and every call on the gate, a request's or a worker's, returns. *)
VerdictSticks == Gate!VerdictSticks
EveryCallReturns == Gate!EveryCallReturns

(* actions.py: settling the stage off the probe's verdict "is what keeps a
   healed action from leaving its task lying". *)
AllQuiet ==
    /\ \A w \in Workers : Resting(w)
    /\ \A c \in Clicks : Gate!At(c, "idle")
    /\ \A t \in Tasks : tasks[t].state \in {"absent", "done", "failed"}

StageTellsTheTruth ==
    AllQuiet => \A t \in Stages : \A k \in ActionOf[t] :
        tasks[t].state = "done" => rows[k].state = "succeeded"

(* A stage parked at an action is released once the action is decided: the
   `resume` task reaches a worker, whoever of them dies. *)
DecisionLands ==
    \A t \in Stages : \A k \in ActionOf[t] :
        rows[k].decision # "none" /\ tasks[t].state = "awaiting_approval"
            ~> tasks[t].state # "awaiting_approval"

(* worker.py: an orphaned action is terminal before its task is pending again,
   "or the re-claimed stage asks request() about a row still in flight and is
   refused all over again".  (An action the operator may re-open is another
   matter: a stage that is retried while it is probed is refused.) *)
ReclaimedIsNotRefused ==
    \A w \in Workers : Outcome(w) = "ActionInProgress" /\ sessions[w].key \notin ApprovalKeys
        => rows[sessions[w].key].state \notin Gate!InFlight

(* An action a dead worker left in flight reaches a terminal state (7.4). *)
InFlightLands ==
    \A k \in Keys : rows[k].state \in Gate!InFlight ~> rows[k].state \in Gate!TerminalStates
=============================================================================
