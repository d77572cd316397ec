---------------------------- MODULE AgencyProofs ----------------------------
(***************************************************************************)
(* Proofs about Agency, for every set of actions, tasks, workers and       *)
(* requests.  What the agency does to the `actions` table is what          *)
(* ActionGate's sessions may do (Base, UsesTheGate), so the gate's         *)
(* theorems hold of it.  What is the agency's own, the work of stages,     *)
(* `resume` tasks, recovery passes and requests on the same rows, is       *)
(* proved from tables of what a step makes of a call (SessionSteps) and    *)
(* of a task (QueueSteps).  The hypotheses of a theorem are in its         *)
(* statement; each has an instance that MCAgency checks.                   *)
(***************************************************************************)
EXTENDS Agency, TLAPS

GateP == INSTANCE ActionGateProofs WITH Sessions <- Workers \cup Clicks
QueueP == INSTANCE TaskQueueProofs WITH Operators <- Clicks \cup {Retrier}

(* The retry in hand, if there is one. *)
AskingPCs == {"idle", "retrying", "reopening", "reopened"}
Retrying == operators[Retrier]

LEMMA Assumed ==
    /\ GateP!KeysAssumption /\ GateP!AttemptsAssumption
    /\ QueueP!TasksAssumption /\ QueueP!ResumesAssumption
    /\ Gate!KeysAssumption /\ Gate!AttemptsAssumption
    /\ Queue!TasksAssumption /\ Queue!ResumesAssumption
  BY AgencyAssumption
  DEF Gate!KeysAssumption, Gate!AttemptsAssumption, Queue!TasksAssumption,
      Queue!ResumesAssumption, GateP!KeysAssumption, GateP!AttemptsAssumption,
      QueueP!TasksAssumption, QueueP!ResumesAssumption, Queue!Resumes, QueueP!Resumes

LEMMA GateConstants ==
    /\ GateP!InFlight = Gate!InFlight /\ GateP!TerminalStates = Gate!TerminalStates
    /\ GateP!IdleCall = Gate!IdleCall /\ GateP!NoRow = Gate!NoRow
    /\ GateP!PendingRow = Gate!PendingRow /\ GateP!RowStates = Gate!RowStates
    /\ GateP!Rows = Gate!Rows /\ GateP!Calls = Gate!Calls /\ GateP!PCs = Gate!PCs
    /\ GateP!Outcomes = Gate!Outcomes /\ GateP!vars = gateVars
    /\ \A state : GateP!ConflictOutcome(state) = Gate!ConflictOutcome(state)
  <1>1. /\ GateP!InFlight = Gate!InFlight /\ GateP!TerminalStates = Gate!TerminalStates
        /\ GateP!IdleCall = Gate!IdleCall /\ GateP!NoRow = Gate!NoRow
    BY DEF GateP!InFlight, Gate!InFlight, GateP!TerminalStates, Gate!TerminalStates,
       GateP!IdleCall, Gate!IdleCall, GateP!AnyKey, Gate!AnyKey, GateP!NoRow, Gate!NoRow
  <1>2. /\ GateP!PendingRow = Gate!PendingRow /\ GateP!RowStates = Gate!RowStates
        /\ GateP!PCs = Gate!PCs /\ GateP!vars = gateVars
        /\ \A state : GateP!ConflictOutcome(state) = Gate!ConflictOutcome(state)
    BY <1>1 DEF GateP!PendingRow, Gate!PendingRow, GateP!RowStates, Gate!RowStates,
       GateP!PCs, Gate!PCs, GateP!vars, gateVars, GateP!ConflictOutcome, Gate!ConflictOutcome
  <1>3. /\ GateP!Outcomes = Gate!Outcomes /\ GateP!Rows = Gate!Rows
    BY <1>2 DEF GateP!Outcomes, Gate!Outcomes, GateP!Rows, Gate!Rows,
       GateP!Decisions, Gate!Decisions
  <1>4. GateP!Calls = Gate!Calls
    BY <1>2, <1>3 DEF GateP!Calls, Gate!Calls
  <1>5. QED
    BY <1>1, <1>2, <1>3, <1>4

LEMMA SameSteps ==
    \A s : (GateP!Step(s) <=> Gate!Step(s)) /\ (GateP!Crash(s) <=> Gate!Crash(s))
  <1> TAKE s
  <1>1. /\ GateP!RequestInsert(s) <=> Gate!RequestInsert(s)
        /\ GateP!RequestConflict(s) <=> Gate!RequestConflict(s)
        /\ GateP!RequestPark(s) <=> Gate!RequestPark(s)
        /\ GateP!RequestRun(s) <=> Gate!RequestRun(s)
        /\ GateP!RecordApproval(s) <=> Gate!RecordApproval(s)
        /\ GateP!Approve(s) <=> Gate!Approve(s)
        /\ GateP!Deny(s) <=> Gate!Deny(s)
        /\ GateP!Reverify(s) <=> Gate!Reverify(s)
    BY GateConstants
    DEF Gate!RequestInsert, GateP!RequestInsert, Gate!RequestConflict, GateP!RequestConflict,
      Gate!RequestPark, GateP!RequestPark, Gate!RequestRun, GateP!RequestRun,
      Gate!RecordApproval, GateP!RecordApproval, Gate!Approve, GateP!Approve, Gate!Deny,
      GateP!Deny, Gate!Reverify, GateP!Reverify, Gate!At, GateP!At, Gate!Key, GateP!Key,
      Gate!Copy, GateP!Copy, Gate!Goto, GateP!Goto, Gate!Return, GateP!Return, Gate!DocFor,
      GateP!DocFor
  <1>2. /\ GateP!RunExecute(s) <=> Gate!RunExecute(s)
        /\ GateP!Execute(s) <=> Gate!Execute(s)
        /\ GateP!ExecuteRaises(s) <=> Gate!ExecuteRaises(s)
        /\ GateP!ExecuteReturns(s) <=> Gate!ExecuteReturns(s)
        /\ GateP!RunVerify(s) <=> Gate!RunVerify(s)
    BY GateConstants
    DEF Gate!RunExecute, GateP!RunExecute, Gate!Execute, GateP!Execute, Gate!ExecuteRaises,
      GateP!ExecuteRaises, Gate!ExecuteReturns, GateP!ExecuteReturns, Gate!RunVerify,
      GateP!RunVerify, Gate!At, GateP!At, Gate!Key, GateP!Key, Gate!Copy, GateP!Copy, Gate!Goto,
      GateP!Goto, Gate!Return, GateP!Return
  <1>3. /\ GateP!VerifyFails(s) <=> Gate!VerifyFails(s)
        /\ GateP!VerifySucceeds(s) <=> Gate!VerifySucceeds(s)
        /\ GateP!VerifyRaises(s) <=> Gate!VerifyRaises(s)
        /\ GateP!VerifyGivesUp(s) <=> Gate!VerifyGivesUp(s)
        /\ GateP!Finish(s) <=> Gate!Finish(s)
        /\ GateP!Crash(s) <=> Gate!Crash(s)
    BY GateConstants
    DEF Gate!VerifyFails, GateP!VerifyFails, Gate!VerifySucceeds, GateP!VerifySucceeds,
      Gate!VerifyRaises, GateP!VerifyRaises, Gate!VerifyGivesUp, GateP!VerifyGivesUp,
      Gate!Finish, GateP!Finish, Gate!Crash, GateP!Crash, Gate!At, GateP!At, Gate!Key, GateP!Key,
      Gate!Copy, GateP!Copy, Gate!Return, GateP!Return, Gate!Provable, GateP!Provable,
      Gate!AttemptsLeft, GateP!AttemptsLeft
  <1>4. QED
    BY <1>1, <1>2, <1>3 DEF Gate!Step, GateP!Step

LEMMA SameCalls ==
    \A s : GateP!Call(s) <=> Gate!Call(s)
  <1> TAKE s
  <1>1. \A k : GateP!DocFor(k) = Gate!DocFor(k)
    BY DEF GateP!DocFor, Gate!DocFor
  <1>2. \A k, observed, doc :
          /\ GateP!RequestCheck(s, k) <=> Gate!RequestCheck(s, k)
          /\ GateP!ReverifyRead(s, k) <=> Gate!ReverifyRead(s, k)
          /\ GateP!Resume(s, k, observed, doc) <=> Gate!Resume(s, k, observed, doc)
          /\ GateP!Resumable(rows[k]) <=> Gate!Resumable(rows[k])
    BY GateConstants, <1>1
    DEF Gate!RequestCheck, GateP!RequestCheck, Gate!ReverifyRead, GateP!ReverifyRead, Gate!Resume,
      GateP!Resume, Gate!At, GateP!At, Gate!Begin, GateP!Begin, Gate!PreconditionsMet,
      GateP!PreconditionsMet, Gate!Resumable, GateP!Resumable
  <1>3. \A k, call : GateP!Decide(s, k, call) <=> Gate!Decide(s, k, call)
    BY DEF Gate!Decide, GateP!Decide, Gate!At, GateP!At, Gate!Begin, GateP!Begin, Gate!Undecided,
      GateP!Undecided
  <1>4. QED
    BY <1>1, <1>2, <1>3 DEF Gate!Call, GateP!Call

LEMMA SameGate == GateP!Next <=> Gate!Next
  BY SameSteps, SameCalls DEF GateP!Next, Gate!Next

LEMMA SameSpec == Gate!Spec => GateP!Spec
  <1>1. Gate!Init => GateP!Init
    BY GateConstants DEF GateP!Init, Gate!Init
  <1>2. [Gate!Next]_(Gate!vars) => [GateP!Next]_(GateP!vars)
    BY SameGate DEF Gate!vars, GateP!vars
  <1>4. QED
    BY <1>1, <1>2, PTL DEF GateP!Spec, Gate!Spec

LEMMA GateKept ==
    /\ GateP!Inv /\ GateP!CallsKeepUp /\ [Gate!Next]_gateVars
         => GateP!Inv' /\ GateP!CallsKeepUp' /\ GateP!RowsMoveOn
    /\ Gate!Init => GateP!Inv /\ GateP!CallsKeepUp
  <1>1. [Gate!Next]_gateVars => [GateP!Next]_(GateP!vars)
    BY SameGate DEF gateVars, GateP!vars
  <1>2. Gate!Init => GateP!Init
    BY GateConstants DEF GateP!Init, Gate!Init
  <1>3. QED
    BY <1>1, <1>2, Assumed, GateP!InvKept, GateP!InvInit, GateP!RowsStep, GateP!CallsStep,
       GateP!CallsInit
    DEF GateP!InvKept, GateP!InvInit, GateP!RowsStep, GateP!CallsStep, GateP!CallsInit

LEMMA SameQueue ==
    /\ Queue!Init => QueueP!Init
    /\ \A w : /\ Queue!Claim(w) => QueueP!Claim(w)
              /\ Queue!Work(w) => QueueP!Work(w)
              /\ Queue!Sweep(w) => QueueP!Sweep(w)
    /\ Queue!LeaseLapses => QueueP!LeaseLapses
    /\ Queue!RetryRead(Retrier) => QueueP!RetryRead(Retrier)
    /\ Queue!Retry(Retrier) => QueueP!Retry(Retrier)
    /\ QueueP!TypeOK <=> Queue!TypeOK
  <1>1. /\ QueueP!Resumes = Queue!Resumes /\ QueueP!Idle = Queue!Idle
        /\ QueueP!NoRetry = Queue!NoRetry /\ QueueP!Movable = Queue!Movable
        /\ QueueP!Leased = Queue!Leased /\ QueueP!PCs = Queue!PCs
        /\ \A state : QueueP!Row(state) = Queue!Row(state)
        /\ QueueP!NoTask = Queue!NoTask
        /\ \A ts, t, state : QueueP!Write(ts, t, state) = Queue!Write(ts, t, state)
    BY DEF Queue!Resumes, QueueP!Resumes, Queue!Idle, QueueP!Idle, Queue!NoRetry, QueueP!NoRetry,
      Queue!NoTask, QueueP!NoTask, Queue!Movable, QueueP!Movable, Queue!Leased, QueueP!Leased,
      Queue!PCs, QueueP!PCs, Queue!Row, QueueP!Row, Queue!Write, QueueP!Write
  <1>2. \A ts, status : QueueP!Settled(ts, status) = Queue!Settled(ts, status)
    BY <1>1 DEF Queue!Settled, QueueP!Settled
  <1>3. ASSUME NEW w
        PROVE  Queue!Work(w) => QueueP!Work(w)
    <2>1. Queue!CheckBudget(w) => QueueP!CheckBudget(w)
      BY <1>1, <1>2 DEF Queue!CheckBudget, QueueP!CheckBudget, Queue!At, QueueP!At, Queue!Task,
         QueueP!Task,
      Queue!Goto, QueueP!Goto
    <2>2. Queue!Refuse(w) => QueueP!Refuse(w)
      BY <1>1, <1>2 DEF Queue!Refuse, QueueP!Refuse, Queue!At, QueueP!At, Queue!Task,
         QueueP!Task, Queue!Goto,
      QueueP!Goto, Queue!Rest, QueueP!Rest
    <2>3. Queue!MarkRunning(w) => QueueP!MarkRunning(w)
      BY <1>1, <1>2 DEF Queue!MarkRunning, QueueP!MarkRunning, Queue!At, QueueP!At, Queue!Task,
         QueueP!Task,
      Queue!Goto, QueueP!Goto, Queue!Rest, QueueP!Rest
    <2>4. Queue!Release(w) => QueueP!Release(w)
      BY <1>1, <1>2 DEF Queue!Release, QueueP!Release, Queue!At, QueueP!At, Queue!Task,
         QueueP!Task, Queue!Goto,
      QueueP!Goto, Queue!Rest, QueueP!Rest, Queue!ReleaseVerdicts, QueueP!ReleaseVerdicts
    <2>5. Queue!HandlerDone(w) => QueueP!HandlerDone(w)
      BY <1>1, <1>2 DEF Queue!HandlerDone, QueueP!HandlerDone, Queue!At, QueueP!At, Queue!Task,
         QueueP!Task,
      Queue!Goto, QueueP!Goto, Queue!Rest, QueueP!Rest, Queue!Spend, QueueP!Spend, Queue!State,
      QueueP!State
    <2>6. Queue!HandlerParks(w) => QueueP!HandlerParks(w)
      BY <1>1, <1>2 DEF Queue!HandlerParks, QueueP!HandlerParks, Queue!At, QueueP!At, Queue!Task,
         QueueP!Task,
      Queue!Goto, QueueP!Goto, Queue!Rest, QueueP!Rest, Queue!Spend, QueueP!Spend
    <2>7. Queue!HandlerRaises(w) => QueueP!HandlerRaises(w)
      BY <1>1, <1>2 DEF Queue!HandlerRaises, QueueP!HandlerRaises, Queue!At, QueueP!At,
         Queue!Task, QueueP!Task,
      Queue!Goto, QueueP!Goto, Queue!Rest, QueueP!Rest, Queue!Spend, QueueP!Spend
    <2>8. Queue!FailCommit(w) => QueueP!FailCommit(w)
      BY <1>1, <1>2 DEF Queue!FailCommit, QueueP!FailCommit, Queue!At, QueueP!At, Queue!Task,
         QueueP!Task,
      Queue!Goto, QueueP!Goto, Queue!Rest, QueueP!Rest
    <2>9. Queue!RollUp(w) => QueueP!RollUp(w)
      BY <1>1, <1>2 DEF Queue!RollUp, QueueP!RollUp, Queue!At, QueueP!At, Queue!Task,
         QueueP!Task, Queue!Goto, QueueP!Goto, Queue!Rest, QueueP!Rest
    <2>10. Queue!Settle(w) => QueueP!Settle(w)
      BY <1>1, <1>2 DEF Queue!Settle, QueueP!Settle, Queue!At, QueueP!At, Queue!Task,
         QueueP!Task, Queue!Goto,
      QueueP!Goto, Queue!Rest, QueueP!Rest
    <2>11. Queue!Enforce(w) => QueueP!Enforce(w)
      BY <1>1 DEF Queue!Enforce, QueueP!Enforce, Queue!At, QueueP!At, Queue!Goto,
         QueueP!Goto, Queue!Rest, QueueP!Rest
    <2> QED
      BY <2>1, <2>2, <2>3, <2>4, <2>5, <2>6, <2>7, <2>8, <2>9, <2>10, <2>11
      DEF Queue!Work, QueueP!Work
  <1>4. ASSUME NEW w
        PROVE  Queue!Claim(w) => QueueP!Claim(w)
    BY <1>1 DEF Queue!Claim, QueueP!Claim, Queue!Claimable, QueueP!Claimable, Queue!State,
       QueueP!State,
      Queue!At, QueueP!At
  <1>5. ASSUME NEW w
        PROVE  Queue!Sweep(w) => QueueP!Sweep(w)
    BY <1>1, <1>2 DEF Queue!Sweep, QueueP!Sweep, Queue!Lapsed, QueueP!Lapsed, Queue!PastCap,
       QueueP!PastCap,
      Queue!State, QueueP!State, Queue!At, QueueP!At
  <1>6. /\ Queue!LeaseLapses => QueueP!LeaseLapses
        /\ Queue!RetryRead(Retrier) => QueueP!RetryRead(Retrier)
        /\ Queue!Retry(Retrier) => QueueP!Retry(Retrier)
    BY <1>1 DEF Queue!LeaseLapses, QueueP!LeaseLapses, Queue!Owner, QueueP!Owner, Queue!Task,
       QueueP!Task,
      Queue!RetryRead, QueueP!RetryRead, Queue!Retry, QueueP!Retry, Queue!State, QueueP!State,
      Queue!ReadsRun, QueueP!ReadsRun, Queue!Asking, QueueP!Asking, Queue!Reopened, QueueP!Reopened
  <1>7. QueueP!TypeOK <=> Queue!TypeOK
    BY <1>1 DEF Queue!TypeOK, QueueP!TypeOK, Queue!TaskStates, QueueP!TaskStates, Queue!RunStates,
      QueueP!RunStates
  <1>8. Queue!Init => QueueP!Init
    BY <1>1 DEF Queue!Init, QueueP!Init
  <1> QED
    BY <1>3, <1>4, <1>5, <1>6, <1>7, <1>8

-----------------------------------------------------------------------------
(* The gate's sessions do what the gate allows. *)

Sessions == Workers \cup Clicks
Decided(k) == Gate!Resumable(rows[k])

(* What an operator's request is doing, and that its action may be re-driven
   once it returns. *)
ClickCall(c) ==
    LET pc == sessions[c].pc  k == sessions[c].key IN
    pc # "idle" => /\ pc \in {"record_approval", "deny", "reverify", "returned"}
                   /\ k \in ActionOf[ResumeOf[c]]
                   /\ pc = "returned" => Decided(k)

(* A task somebody holds, or retries, is there. *)
HeldTasksExist ==
    /\ \A w \in Workers : workers[w].pc # "idle" => tasks[workers[w].task].state # "absent"
    /\ Retrying.pc = "retrying" => tasks[Retrying.task].state # "absent"

(* A `resume` task is there only for an action that may be re-driven. *)
ResumesDecided ==
    \A r \in Queue!Resumes : tasks[r].state # "absent" =>
        ActionOf[r] # {} /\ \A k \in ActionOf[r] : Decided(k)

Base ==
    /\ GateP!Inv /\ GateP!CallsKeepUp /\ Queue!TypeOK
    /\ \A c \in Clicks : ClickCall(c)
    /\ HeldTasksExist /\ ResumesDecided

LEMMA Types ==
    ASSUME Base
    PROVE  /\ tasks \in [Tasks -> [state : Queue!TaskStates, lease : {"none", "live", "lapsed"},
                                   attempts : 0 .. AttemptsCap]]
           /\ workers \in [Workers -> [pc : Queue!PCs, task : Tasks, verdict : Queue!RunStates]]
           /\ Retrying \in [pc : AskingPCs, task : Tasks, run : Queue!RunStates]
           /\ rows \in [Keys -> Gate!Rows]
           /\ sessions \in [Sessions -> Gate!Calls]
           /\ effects \in [Keys -> Nat]
           /\ GateP!TypeOK /\ Workers \subseteq Sessions /\ Clicks \subseteq Sessions
           /\ \A s \in Sessions : sessions[s].key \in Keys
  BY GateConstants DEF Base, GateP!Inv, GateP!TypeOK, Queue!TypeOK, Sessions, Gate!Calls,
     Retrying, AskingPCs

(* The requests to the actions' routes leave the retry alone. *)
LEMMA RequestsLeaveRetry ==
    ASSUME Base, NEW c \in Clicks,
           Click(c) \/ ClickReverifies(c) \/ ClickEnqueues(c) \/ ClickDies(c)
    PROVE  Retrying' = Retrying
  <1>1. c # Retrier /\ DOMAIN operators = Clicks \cup {Retrier}
    BY AgencyAssumption DEF Base, Queue!TypeOK
  <1>2. CASE Click(c)
    BY <1>1, <1>2 DEF Click, Queue!ReadsRun, Retrying, queueVars
  <1>3. CASE ClickReverifies(c)
    BY <1>1, <1>3 DEF ClickReverifies, Queue!Reopen, Retrying
  <1>4. CASE ClickEnqueues(c) \/ ClickDies(c)
    BY <1>1, <1>4 DEF ClickEnqueues, ClickDies, Retrying
  <1>5. QED
    BY <1>2, <1>3, <1>4

(* What becomes of the retry: it names a landed task, and re-queues it. *)
LEMMA RetrySteps ==
    ASSUME Base, Environment
    PROVE  /\ workers' = workers
           /\ \/ Queue!LeaseLapses /\ Retrying' = Retrying
              \/ /\ Queue!RetryRead(Retrier) /\ tasks' = tasks
                 /\ Retrying'.task \in Tasks
                 /\ tasks[Retrying'.task].state \in {"done", "failed"}
              \/ /\ Queue!Retry(Retrier) /\ Retrying.pc = "retrying"
                 /\ tasks' = [tasks EXCEPT ![Retrying.task] = Queue!Row("pending")]
                 /\ Retrying' = Queue!NoRetry
  <1>1. DOMAIN operators = Clicks \cup {Retrier}
    BY DEF Base, Queue!TypeOK
  <1>2. CASE Queue!LeaseLapses
    BY <1>2 DEF Queue!LeaseLapses, Retrying
  <1>3. CASE Queue!RetryRead(Retrier)
    <2>1. PICK t \in Tasks : tasks[t].state \in {"done", "failed"}
                             /\ Queue!ReadsRun(Retrier, "retrying", t)
      BY <1>3 DEF Queue!RetryRead, Queue!State
    <2>2. Retrying'.task = t
      BY <1>1, <2>1 DEF Queue!ReadsRun, Retrying
    <2>3. QED
      BY <1>3, <2>1, <2>2 DEF Queue!RetryRead
  <1>4. CASE Queue!Retry(Retrier)
    BY <1>1, <1>4 DEF Queue!Retry, Queue!Asking, Retrying
  <1>5. QED
    BY <1>2, <1>3, <1>4 DEF Environment

(* Every step of the agency is a step of the gate, or none of its business. *)
LEMMA UsesTheGate == Base /\ [Next]_vars => [Gate!Next]_gateVars
  <1> SUFFICES ASSUME Base, [Next]_vars, ~UNCHANGED gateVars PROVE Gate!Next
    OBVIOUS
  <1> USE DEF Sessions
  <1>1. ASSUME NEW s \in Sessions, Gate!Call(s) \/ Gate!Step(s) \/ Gate!Crash(s)
        PROVE  Gate!Next
    BY <1>1 DEF Gate!Next
  <1>2. /\ rows \in [Keys -> Gate!Rows] /\ sessions \in [Sessions -> Gate!Calls]
        /\ Workers \subseteq Sessions /\ Clicks \subseteq Sessions
        /\ workers \in [Workers -> [pc : Queue!PCs, task : Tasks, verdict : Queue!RunStates]]
    BY Types
  <1>3. /\ ActionOf \in [Tasks -> SUBSET Keys] /\ ResumeOf \in [Clicks -> Queue!Resumes]
        /\ Queue!Resumes \subseteq Tasks
    BY AgencyAssumption DEF Queue!Resumes
  <1>4. ASSUME NEW s \in Sessions, Gate!Finish(s) \/ GateWorks(s) PROVE Gate!Next
    BY <1>1, <1>4 DEF Gate!Step, GateWorks
  <1>5. ASSUME NEW w \in Workers, StageCalls(w) PROVE Gate!Next
    <2>1. PICK k \in Due(w) : Gate!RequestCheck(w, k)
      BY <1>5 DEF StageCalls
    <2>2. ActionOf[Task(w)] \in SUBSET Keys /\ Due(w) \subseteq ActionOf[Task(w)]
      BY <1>2, <1>3 DEF Due, Task
    <2>3. Gate!Call(w)
      BY <2>1, <2>2 DEF Gate!Call
    <2>4. QED
      BY <1>1, <1>2, <2>3
  <1>6. ASSUME NEW w \in Workers, ResumeCalls(w) PROVE Gate!Next
    <2>1. PICK k \in ActionOf[Task(w)] : Gate!Resume(w, k, FALSE, k \in DocKeys)
      BY <1>6 DEF ResumeCalls
    <2>2. Task(w) \in Queue!Resumes /\ k \in Keys /\ workers[w].pc = "handling"
      BY <1>2, <1>3, <1>6 DEF Task, ResumeCalls, Handling, Queue!At
    <2>3. Gate!Resumable(rows[k])
      BY <2>1, <2>2 DEF Base, HeldTasksExist, ResumesDecided, Decided, Task
    <2>4. /\ FALSE \in {o \in BOOLEAN : o => k \in DeferredKeys}
          /\ (k \in DocKeys) \in Gate!DocFor(k)
      <3>1. CASE k \in DocKeys
        <4>1. (k \in DocKeys) = TRUE
          BY <3>1
        <4>2. QED
          BY <4>1 DEF Gate!DocFor
      <3>2. CASE k \notin DocKeys
        <4>1. (k \in DocKeys) = FALSE
          BY <3>2
        <4>2. QED
          BY <4>1 DEF Gate!DocFor
      <3>3. QED
        BY <3>1, <3>2
    <2>5. Gate!Call(w)
      BY <2>1, <2>2, <2>3, <2>4 DEF Gate!Call
    <2>6. QED
      BY <1>1, <1>2, <2>5
  <1>7. ASSUME NEW w \in Workers, OrphanPass(w) PROVE Gate!Next
    <2>1. PICK k \in Keys : Orphan(k) /\ Gate!Resume(w, k, FALSE, FALSE)
      BY <1>7 DEF OrphanPass, Orphans
    <2>2. Gate!Resumable(rows[k])
      BY <2>1 DEF Orphan, Gate!Resumable
    <2>3. FALSE \in {o \in BOOLEAN : o => k \in DeferredKeys} /\ FALSE \in Gate!DocFor(k)
      BY DEF Gate!DocFor
    <2>4. Gate!Call(w)
      BY <2>1, <2>2, <2>3 DEF Gate!Call
    <2>5. QED
      BY <1>1, <1>2, <2>4
  <1>8. ASSUME NEW w \in Workers, WorkerDies(w) PROVE Gate!Next
    <2>1. CASE sessions[w].pc = "idle"
      <3>1. sessions[w] = Gate!IdleCall
        BY <2>1, <1>2, GateConstants DEF Base, GateP!CallsKeepUp, GateP!KeepsUp, GateP!At
      <3>2. UNCHANGED gateVars
        BY <1>2, <1>8, <3>1 DEF WorkerDies, gateVars
      <3>3. QED
        BY <3>2
    <2>2. CASE sessions[w].pc # "idle"
      <3>1. Gate!Crash(w)
        BY <1>8, <2>2 DEF WorkerDies, Gate!Crash, Gate!At
      <3>2. QED
        BY <1>1, <1>2, <3>1
    <2>3. QED
      BY <2>1, <2>2
  <1>9. ASSUME NEW c \in Clicks, Click(c) PROVE Gate!Next
    <2>1. PICK k \in ActionOf[ResumeOf[c]] :
             \/ \E call \in {"record_approval", "deny"} : Gate!Decide(c, k, call)
             \/ Gate!ReverifyRead(c, k)
      BY <1>9 DEF Click
    <2>2. k \in Keys
      BY <1>3
    <2>3. Gate!Call(c)
      BY <2>1, <2>2 DEF Gate!Call
    <2>4. QED
      BY <1>1, <1>2, <2>3
  <1>10. ASSUME NEW c \in Clicks, ClickReverifies(c) \/ ClickEnqueues(c) \/ ClickDies(c)
         PROVE  Gate!Next
    BY <1>1, <1>2, <1>10 DEF ClickReverifies, ClickEnqueues, ClickDies, Gate!Step
  <1>11. ASSUME NEW w \in Workers, WorkerStep(w) PROVE Gate!Next
    BY <1>2, <1>4, <1>5, <1>6, <1>11
    DEF WorkerStep, Proceed, StageReturns, ResumeReturns, OrphanDone
  <1>12. ASSUME NEW c \in Clicks, ClickStep(c) PROVE Gate!Next
    BY <1>2, <1>4, <1>10, <1>12 DEF ClickStep
  <1>13. QED
    BY <1>7, <1>8, <1>9, <1>10, <1>11, <1>12
    DEF Next, vars, Claim, Sweep, Environment

-----------------------------------------------------------------------------
(* What a step makes of the calls and of the rows. *)

Untouched == rows' = rows /\ effects' = effects
Others(s) == \A t \in Sessions : t # s => sessions'[t] = sessions[t]

Begins(s, pc, k) ==
    /\ Untouched /\ Others(s)
    /\ sessions[s].pc = "idle" /\ sessions'[s].pc = pc /\ sessions'[s].key = k
    /\ pc # "returned" => sessions'[s].state = rows[k].state

StageBegins(w) ==
    /\ workers[w].pc = "handling" /\ workers[w].task \notin Queue!Resumes
    /\ \E k \in Due(w) : k \in ActionOf[workers[w].task] /\ Begins(w, "checked", k)
    /\ UNCHANGED queueVars

Redrives(w, k) ==
    Begins(w, IF rows[k].state \in Gate!TerminalStates THEN "returned" ELSE "run", k)

ResumeBegins(w) ==
    /\ workers[w].pc = "handling" /\ workers[w].task \in Queue!Resumes
    /\ \E k \in ActionOf[workers[w].task] : Redrives(w, k)
    /\ UNCHANGED queueVars

PassBegins(w) ==
    /\ workers[w].pc = "idle"
    /\ \E k \in Keys : Orphan(k) /\ Begins(w, "run", k)
    /\ UNCHANGED queueVars

RequestBegins(c) ==
    /\ PatientOperator => \A d \in Clicks : sessions[d].pc = "idle"
    /\ tasks[ResumeOf[c]].state = "absent"
    /\ \E k \in ActionOf[ResumeOf[c]] :
         \/ /\ rows[k].state = "awaiting_approval" /\ rows[k].decision = "none"
            /\ Begins(c, "record_approval", k) \/ Begins(c, "deny", k)
         \/ rows[k].state = "failed" /\ Begins(c, "reverify", k)
    /\ UNCHANGED <<tasks, run, spent, workers, Retrying, crashes, retries>>

Works(s) ==
    /\ Others(s)
    /\ sessions[s].pc \notin {"idle", "returned"} /\ sessions'[s].pc # "idle"
    /\ sessions'[s].key = sessions[s].key
    /\ \A k \in Keys : k # sessions[s].key => rows'[k] = rows[k]
    /\ GateP!Moves(s)
    /\ effects' = IF sessions[s].pc = "execute" /\ sessions'[s].pc = "executed"
                    THEN [effects EXCEPT ![sessions[s].key] = @ + 1] ELSE effects
    /\ UNCHANGED <<tasks, spent, workers, Retrying, crashes, retries>>

Ends(s) ==
    /\ Untouched
    /\ sessions' = [sessions EXCEPT ![s] = Gate!IdleCall]
    /\ sessions[s].pc = "returned" \/ s \in Clicks \/ workers'[s] = Queue!Idle

LEMMA GateWorking ==
    ASSUME Base, NEW s \in Sessions, GateWorks(s) \/ (s \in Clicks /\ ClickReverifies(s))
    PROVE  Works(s)
  <1>1. /\ GateP!TypeOK /\ s \in Workers \cup Clicks
        /\ GateP!Step(s) /\ ~GateP!At(s, "returned")
        /\ UNCHANGED <<tasks, spent, workers, Retrying, crashes, retries>>
    <2>1. GateWorks(s) => UNCHANGED <<tasks, spent, workers, Retrying, crashes, retries>>
      BY DEF GateWorks, queueVars, Retrying
    <2>2. ASSUME s \in Clicks, ClickReverifies(s)
          PROVE  UNCHANGED <<tasks, spent, workers, Retrying, crashes, retries>>
      BY <2>2, RequestsLeaveRetry DEF ClickReverifies, Queue!Reopen
    <2>3. QED
      BY <2>1, <2>2, Types, SameSteps
      DEF GateWorks, ClickReverifies, Gate!Step, Gate!Reverify, Gate!At, GateP!At, Sessions
  <1>2. /\ \A t \in Sessions : t # s => sessions'[t] = sessions[t]
        /\ sessions'[s].key = GateP!Key(s) /\ sessions'[s].pc # "idle"
        /\ ~GateP!At(s, "idle")
        /\ \A k \in Keys : k # GateP!Key(s) => rows'[k] = rows[k]
    BY <1>1, Assumed, GateP!StepFrame DEF GateP!StepFrame, Sessions
  <1>3. /\ GateP!Moves(s)
        /\ effects' = IF GateP!At(s, "execute") /\ sessions'[s].pc = "executed"
                        THEN [effects EXCEPT ![GateP!Key(s)] = @ + 1] ELSE effects
    BY <1>1, Assumed, GateP!StepMoves DEF GateP!StepMoves, Sessions
  <1>4. QED
    BY <1>1, <1>2, <1>3 DEF Works, Others, GateP!At, GateP!Key

LEMMA SessionSteps ==
    ASSUME Base, [Next]_vars
    PROVE  \/ UNCHANGED <<rows, sessions, effects>>
           \/ \E w \in Workers : StageBegins(w) \/ ResumeBegins(w) \/ PassBegins(w)
           \/ \E c \in Clicks : RequestBegins(c)
           \/ \E s \in Sessions : Works(s) \/ Ends(s)
  <1> DEFINE Goal == \/ UNCHANGED <<rows, sessions, effects>>
                     \/ \E w \in Workers : StageBegins(w) \/ ResumeBegins(w) \/ PassBegins(w)
                     \/ \E c \in Clicks : RequestBegins(c)
                     \/ \E s \in Sessions : Works(s) \/ Ends(s)
  <1>1. /\ rows \in [Keys -> Gate!Rows] /\ sessions \in [Sessions -> Gate!Calls]
        /\ Workers \subseteq Sessions /\ Clicks \subseteq Sessions
        /\ workers \in [Workers -> [pc : Queue!PCs, task : Tasks, verdict : Queue!RunStates]]
        /\ ActionOf \in [Tasks -> SUBSET Keys] /\ ResumeOf \in [Clicks -> Queue!Resumes]
    BY Types, AgencyAssumption
  <1>2. ASSUME NEW s \in Sessions, NEW pc, NEW k, NEW result, NEW doc, Gate!Begin(s, pc, k, result, doc),
               rows' = rows, effects' = effects
        PROVE  Begins(s, pc, k)
    BY <1>1, <1>2 DEF Gate!Begin, Gate!At, Begins, Untouched, Others
  <1>3. ASSUME NEW s \in Sessions, NEW k \in Keys, NEW observed, NEW doc,
               Gate!Resume(s, k, observed, doc)
        PROVE  Redrives(s, k)
    <2>1. rows' = rows /\ effects' = effects
      BY <1>3 DEF Gate!Resume
    <2>2. CASE rows[k].state \in Gate!TerminalStates
      <3>1. /\ sessions[s].pc = "idle"
            /\ sessions' = [sessions EXCEPT ![s] =
                 [Gate!IdleCall EXCEPT !.pc = "returned", !.key = k, !.outcome = rows[k].state]]
        BY <1>3, <2>2 DEF Gate!Resume, Gate!At
      <3>2. sessions'[s].pc = "returned" /\ sessions'[s].key = k /\ Others(s)
        BY <1>1, <3>1 DEF Gate!IdleCall, Others
      <3>3. QED
        BY <2>1, <2>2, <3>1, <3>2 DEF Redrives, Begins, Untouched
    <2>3. CASE rows[k].state \notin Gate!TerminalStates
      BY <1>2, <1>3, <2>1, <2>3 DEF Gate!Resume, Redrives
    <2>4. QED
      BY <2>2, <2>3
  <1>4. ASSUME NEW w \in Workers, StageCalls(w) PROVE Goal
    <2>1. PICK k \in Due(w) : Gate!RequestCheck(w, k)
      BY <1>4 DEF StageCalls
    <2>2. Begins(w, "checked", k)
      BY <1>1, <1>2, <2>1 DEF Gate!RequestCheck
    <2>3. k \in ActionOf[workers[w].task]
      BY <2>1 DEF Due, Task
    <2>4. StageBegins(w)
      BY <1>4, <2>2, <2>3 DEF StageBegins, StageCalls, Handling, Queue!At, Task
    <2>5. QED
      BY <2>4
  <1>5. ASSUME NEW w \in Workers, ResumeCalls(w) PROVE Goal
    <2>1. PICK k \in ActionOf[workers[w].task] : Gate!Resume(w, k, FALSE, k \in DocKeys)
      BY <1>5 DEF ResumeCalls, Task
    <2>2. Redrives(w, k)
      BY <1>1, <1>3, <2>1
    <2>3. ResumeBegins(w)
      BY <1>5, <2>2 DEF ResumeBegins, ResumeCalls, Handling, Queue!At, Task
    <2>4. QED
      BY <2>3
  <1>6. ASSUME NEW w \in Workers, OrphanPass(w) PROVE Goal
    <2>1. PICK k \in Keys : Orphan(k) /\ Gate!Resume(w, k, FALSE, FALSE)
      BY <1>6 DEF OrphanPass, Orphans
    <2>2. Redrives(w, k) /\ rows[k].state \notin Gate!TerminalStates
      BY <1>1, <1>3, <2>1 DEF Orphan, Gate!InFlight, Gate!TerminalStates
    <2>3. PassBegins(w)
      BY <1>6, <2>1, <2>2 DEF PassBegins, Redrives, OrphanPass, Resting, Queue!At
    <2>4. QED
      BY <2>3
  <1>7. ASSUME NEW c \in Clicks, Click(c) PROVE Goal
    <2>1. PICK k \in ActionOf[ResumeOf[c]] :
             \/ \E call \in {"record_approval", "deny"} : Gate!Decide(c, k, call)
             \/ Gate!ReverifyRead(c, k)
      BY <1>7 DEF Click
    <2>2. \/ /\ rows[k].state = "awaiting_approval" /\ rows[k].decision = "none"
             /\ Begins(c, "record_approval", k) \/ Begins(c, "deny", k)
          \/ rows[k].state = "failed" /\ Begins(c, "reverify", k)
      BY <1>1, <1>2, <2>1 DEF Gate!Decide, Gate!ReverifyRead, Gate!Undecided
    <2>3. RequestBegins(c)
      BY <1>7, <2>2, RequestsLeaveRetry DEF RequestBegins, Click, Gate!At, queueVars
    <2>4. QED
      BY <2>3
  <1>8. ASSUME NEW s \in Sessions, GateWorks(s) \/ (s \in Clicks /\ ClickReverifies(s)) PROVE Goal
    BY <1>8, GateWorking
  <1>9. ASSUME NEW s \in Sessions, Gate!Finish(s) \/ (s \in Clicks /\ Gate!Crash(s)) PROVE Goal
    BY <1>9 DEF Gate!Finish, Gate!Crash, Gate!At, Ends, Untouched
  <1>10. ASSUME NEW w \in Workers, WorkerDies(w) PROVE Goal
    BY <1>1, <1>10 DEF WorkerDies, Ends, Untouched
  <1>11. ASSUME NEW w \in Workers, WorkerStep(w) PROVE Goal
    BY <1>1, <1>4, <1>5, <1>8, <1>9, <1>11
    DEF WorkerStep, Proceed, StageReturns, ResumeReturns, OrphanDone, gateVars
  <1>12. ASSUME NEW c \in Clicks, ClickStep(c) \/ ClickDies(c) PROVE Goal
    BY <1>1, <1>8, <1>9, <1>12 DEF ClickStep, ClickEnqueues, ClickDies
  <1>13. QED
    BY <1>6, <1>7, <1>10, <1>11, <1>12
    DEF Next, vars, gateVars, Claim, Sweep, Environment

-----------------------------------------------------------------------------
(* What a step makes of the tasks and their workers. *)

OtherWorkers(w) == \A v \in Workers : v # w => workers'[v] = workers[v]

Claims(w) ==
    /\ workers[w].pc = "idle" /\ sessions[w].pc = "idle"
    /\ Queue!Claim(w) /\ UNCHANGED gateVars

(* A worker's own step on the task it holds. *)
Handles(w) ==
    /\ workers[w].pc # "idle"
    /\ Proceed(w) \/ StageReturns(w) \/ ResumeReturns(w)
    /\ Queue!Work(w)

(* A recovery pass comes to the tasks after the actions it has re-driven, or when
   it found none to re-drive. *)
Sweeps ==
    \E w \in Workers :
        /\ workers[w].pc = "idle" /\ Queue!Sweep(w)
        /\ \/ sessions[w].pc = "returned"
           \/ sessions[w].pc = "idle" /\ \A k \in Orphans : MayBeLocked(k)

LEMMA QueueSteps ==
    ASSUME Base, [Next]_vars
    PROVE  \/ UNCHANGED <<tasks, workers, Retrying>>
           \/ \E w \in Workers : Claims(w) \/ Handles(w) \/ WorkerDies(w)
           \/ Sweeps
           \/ \E c \in Clicks : ClickEnqueues(c)
           \/ Environment
  <1> DEFINE Goal == \/ UNCHANGED <<tasks, workers, Retrying>>
                     \/ \E w \in Workers : Claims(w) \/ Handles(w) \/ WorkerDies(w)
                     \/ Sweeps
                     \/ \E c \in Clicks : ClickEnqueues(c)
                     \/ Environment
  <1>1. ASSUME NEW w \in Workers, Proceed(w) \/ StageReturns(w) \/ ResumeReturns(w),
               ~UNCHANGED <<tasks, workers, Retrying>>
        PROVE  Handles(w)
    <2>1. Queue!Work(w)
      <3>1. CASE Proceed(w)
        BY <3>1 DEF Proceed, Queue!Work
      <3>2. CASE StageReturns(w)
        BY <1>1, <3>2 DEF StageReturns, Queue!Work, queueVars, Retrying
      <3>3. CASE ResumeReturns(w)
        BY <3>3 DEF ResumeReturns, Queue!Work
      <3>4. QED
        BY <1>1, <3>1, <3>2, <3>3
    <2>2. workers[w].pc # "idle"
      BY <2>1 DEF Queue!Work, Queue!At, Queue!CheckBudget, Queue!Refuse, Queue!MarkRunning,
         Queue!Release, Queue!HandlerDone, Queue!HandlerParks, Queue!HandlerRaises,
         Queue!FailCommit, Queue!RollUp, Queue!Enforce, Queue!Settle
    <2>3. QED
      BY <1>1, <2>1, <2>2 DEF Handles
  <1>2. ASSUME NEW w \in Workers, Claim(w) PROVE Claims(w)
    BY <1>2 DEF Claim, Claims, Resting, Queue!At, Gate!At
  <1>3. ASSUME NEW w \in Workers, OrphanDone(w) \/ Sweep(w)
        PROVE  Goal
    BY <1>3 DEF OrphanDone, Sweep, SweepTasks, Sweeps, Queue!At, Gate!At, Gate!Finish, Resting,
       queueVars, Retrying
  <1>4. ASSUME NEW w \in Workers, StageCalls(w) \/ ResumeCalls(w) \/ OrphanPass(w) \/ GateWorks(w)
        PROVE  Goal
    BY <1>4 DEF StageCalls, ResumeCalls, OrphanPass, GateWorks, queueVars, Retrying
  <1>5. ASSUME NEW c \in Clicks, Click(c) \/ GateWorks(c) \/ ClickReverifies(c) \/ ClickDies(c)
        PROVE  Goal
    BY <1>5, RequestsLeaveRetry
    DEF Click, GateWorks, ClickReverifies, Queue!Reopen, ClickDies, queueVars, Retrying
  <1>6. ASSUME NEW w \in Workers, WorkerStep(w) PROVE Goal
    BY <1>1, <1>3, <1>4, <1>6 DEF WorkerStep
  <1>7. QED
    BY <1>2, <1>3, <1>4, <1>5, <1>6 DEF Next, ClickStep, vars, queueVars, Retrying

LEMMA HandlesFrame ==
    ASSUME Base, NEW w \in Workers, Handles(w)
    PROVE  /\ OtherWorkers(w) /\ Retrying' = Retrying
           /\ workers'[w].pc = "idle" \/ workers'[w].task = workers[w].task
           /\ \A t \in Tasks : tasks[t].state # "absent" => tasks'[t].state # "absent"
           /\ \A r \in Queue!Resumes : r # workers[w].task => tasks'[r] = tasks[r]
  <1> USE DEF Queue!Goto, Queue!Rest, Queue!Idle, Queue!Task, Queue!Write, OtherWorkers,
         Retrying
  <1>1. /\ tasks \in [Tasks -> [state : Queue!TaskStates, lease : {"none", "live", "lapsed"},
                                attempts : 0 .. AttemptsCap]]
        /\ workers \in [Workers -> [pc : Queue!PCs, task : Tasks, verdict : Queue!RunStates]]
    BY Types
  <1>2. workers[w].task \in Tasks
    BY <1>1
  <1>3. \A r \in Queue!Resumes : /\ r \in Tasks
                                 /\ \A t \in Tasks : r \notin Spawns[t] /\ r \notin Releases[t]
    BY Assumed DEF Queue!ResumesAssumption, Queue!Resumes
  <1>4. CASE Queue!CheckBudget(w)
    BY <1>1, <1>4 DEF Queue!CheckBudget
  <1>5. CASE Queue!Refuse(w)
    BY <1>1, <1>2, <1>3, <1>5 DEF Queue!Refuse
  <1>6. CASE Queue!MarkRunning(w)
    BY <1>1, <1>2, <1>3, <1>6 DEF Queue!MarkRunning
  <1>7. CASE Queue!Release(w)
    <2>1. PICK t \in Releases[workers[w].task], verdict \in Queue!ReleaseVerdicts :
            /\ tasks' = [tasks EXCEPT ![t].state = verdict[1]]
            /\ Queue!Goto(w, verdict[2])
      BY <1>7 DEF Queue!Release
    <2>2. verdict[1] # "absent"
      BY DEF Queue!ReleaseVerdicts
    <2>3. /\ \A u \in Tasks : tasks[u].state # "absent" => tasks'[u].state # "absent"
          /\ \A r \in Queue!Resumes : tasks'[r] = tasks[r]
      BY <1>1, <1>2, <1>3, <2>1, <2>2
    <2>4. QED
      BY <1>1, <1>7, <2>1, <2>3 DEF Queue!Release
  <1>8. CASE Queue!HandlerDone(w)
    <2>1. \A t \in Tasks : t \notin Spawns[workers[w].task] \/ tasks[t].state # "absent"
            => tasks'[t] = [tasks EXCEPT ![workers[w].task].state = "done",
                                         ![workers[w].task].lease = "none"][t]
      BY <1>8 DEF Queue!HandlerDone, Queue!State
    <2>2. ASSUME NEW u \in Tasks, tasks[u].state # "absent" PROVE tasks'[u].state # "absent"
      BY <1>1, <1>2, <2>1, <2>2
    <2>3. ASSUME NEW r \in Queue!Resumes, r # workers[w].task PROVE tasks'[r] = tasks[r]
      <3>1. r \in Tasks /\ r \notin Spawns[workers[w].task]
        BY <1>2, <1>3
      <3>2. QED
        BY <1>1, <2>1, <2>3, <3>1
    <2>4. QED
      BY <1>1, <1>8, <2>2, <2>3 DEF Queue!HandlerDone
  <1>9. CASE Queue!HandlerParks(w)
    BY <1>1, <1>2, <1>3, <1>9 DEF Queue!HandlerParks
  <1>10. CASE Queue!HandlerRaises(w)
    BY <1>1, <1>10 DEF Queue!HandlerRaises
  <1>11. CASE Queue!FailCommit(w)
    BY <1>1, <1>2, <1>3, <1>11 DEF Queue!FailCommit
  <1>12. CASE Queue!RollUp(w) \/ Queue!Enforce(w)
    BY <1>1, <1>12 DEF Queue!RollUp, Queue!Enforce
  <1>13. CASE Queue!Settle(w)
    BY <1>1, <1>13 DEF Queue!Settle
  <1>14. QED
    BY <1>4, <1>5, <1>6, <1>7, <1>8, <1>9, <1>10, <1>11, <1>12, <1>13 DEF Handles, Queue!Work

LEMMA SweepMoves ==
    ASSUME Base, Sweeps, NEW t \in Tasks
    PROVE  \/ tasks'[t] = tasks[t]
           \/ /\ tasks[t].state \in Queue!Leased /\ tasks[t].lease = "lapsed"
              /\ tasks'[t].state \in {"failed", "pending"} /\ tasks'[t].lease = "none"
  <1>1. tasks \in [Tasks -> [state : Queue!TaskStates, lease : {"none", "live", "lapsed"},
                             attempts : 0 .. AttemptsCap]]
    BY Types
  <1>2. PICK w \in Workers : Queue!Sweep(w)
    BY DEF Sweeps
  <1>3. QED
    BY <1>1, <1>2 DEF Queue!Sweep, Queue!Lapsed, Queue!State

(* No row of `tasks` is ever deleted, and a `resume` row is written by the
   request that carries its decision. *)
LEMMA TasksStay ==
    ASSUME Base, [Next]_vars
    PROVE  /\ \A t \in Tasks : tasks[t].state # "absent" => tasks'[t].state # "absent"
           /\ \A r \in Queue!Resumes : tasks[r].state = "absent" /\ tasks'[r].state # "absent"
                => \E c \in Clicks : ClickEnqueues(c) /\ r = ResumeOf[c]
  <1> DEFINE Goal == /\ \A t \in Tasks : tasks[t].state # "absent" => tasks'[t].state # "absent"
                     /\ \A r \in Queue!Resumes : tasks[r].state = "absent" /\ tasks'[r].state # "absent"
                          => \E c \in Clicks : ClickEnqueues(c) /\ r = ResumeOf[c]
  <1>1. /\ tasks \in [Tasks -> [state : Queue!TaskStates, lease : {"none", "live", "lapsed"},
                                attempts : 0 .. AttemptsCap]]
        /\ workers \in [Workers -> [pc : Queue!PCs, task : Tasks, verdict : Queue!RunStates]]
        /\ Retrying \in [pc : AskingPCs, task : Tasks, run : Queue!RunStates]
        /\ HeldTasksExist /\ Queue!Resumes \subseteq Tasks
    BY Types DEF Base, Queue!Resumes
  <1>2. ASSUME NEW w \in Workers, Claims(w) PROVE Goal
    BY <1>1, <1>2 DEF Claims, Queue!Claim, Queue!Claimable, Queue!State
  <1>3. ASSUME NEW w \in Workers, Handles(w) PROVE Goal
    BY <1>1, <1>3, HandlesFrame DEF HeldTasksExist, Handles
  <1>4. CASE Sweeps
    BY <1>1, <1>4, SweepMoves DEF Queue!Leased
  <1>5. ASSUME NEW c \in Clicks, ClickEnqueues(c) PROVE Goal
    BY <1>1, <1>5 DEF ClickEnqueues, Queue!Enqueued, Queue!Row
  <1>6. CASE Environment
    <2>1. CASE Queue!LeaseLapses
      BY <1>1, <2>1 DEF Queue!LeaseLapses
    <2>2. CASE Queue!Retry(Retrier)
      <3>1. /\ tasks' = [tasks EXCEPT ![Retrying.task] = Queue!Row("pending")]
            /\ Retrying.pc = "retrying"
        BY <2>2 DEF Queue!Retry, Queue!Asking, Retrying
      <3>2. tasks[Retrying.task].state # "absent" /\ Retrying.task \in Tasks
        BY <1>1, <3>1 DEF HeldTasksExist
      <3>3. QED
        BY <1>1, <3>1, <3>2 DEF Queue!Row
    <2>3. QED
      BY <1>1, <1>6, <2>1, <2>2, RetrySteps
  <1>7. QED
    BY <1>1, <1>2, <1>3, <1>4, <1>5, <1>6, QueueSteps DEF WorkerDies

LEMMA QueueTypes ==
    ASSUME Base, [Next]_vars
    PROVE  Queue!TypeOK'
  <1>1. Queue!TypeOK /\ QueueP!TypeOK
    BY SameQueue DEF Base
  <1>2. [QueueP!Next]_(QueueP!vars) => Queue!TypeOK'
    <2>1. [QueueP!Next]_(QueueP!vars) => QueueP!TypeOK'
      BY <1>1, Assumed, QueueP!TypeStep DEF QueueP!TypeStep
    <2>2. (QueueP!TypeOK <=> Queue!TypeOK)'
      BY SameQueue, PTL
    <2>3. QED
      BY <2>1, <2>2
  <1>3. ASSUME NEW w \in Workers, Queue!Claim(w) \/ Queue!Work(w) \/ Queue!Sweep(w)
        PROVE  Queue!TypeOK'
    BY <1>2, <1>3, SameQueue DEF QueueP!Next
  <1>4. ASSUME Queue!LeaseLapses \/ Queue!RetryRead(Retrier) \/ Queue!Retry(Retrier)
        PROVE  Queue!TypeOK'
    BY <1>2, <1>4, SameQueue DEF QueueP!Next, QueueP!OperatorStep, QueueP!Answer
  <1>5. CASE UNCHANGED queueVars
    BY <1>1, <1>5 DEF queueVars, Queue!TypeOK
  <1>6. ASSUME NEW w \in Workers, WorkerDies(w) PROVE Queue!TypeOK'
    <2>1. Queue!Idle \in [pc : Queue!PCs, task : Tasks, verdict : Queue!RunStates]
      BY Assumed DEF Queue!Idle, Queue!NoTask, Queue!PCs, Queue!RunStates, Queue!TasksAssumption
    <2>2. crashes' \in 0 .. MaxCrashes
      BY <1>1, <1>6, Assumed DEF WorkerDies, Queue!TypeOK, Queue!TasksAssumption
    <2>3. QED
      BY <1>1, <1>6, <2>1, <2>2 DEF WorkerDies, Queue!TypeOK
  <1> DEFINE Requests == [pc : {"idle", "retrying", "reopening", "reopened"},
                          task : Tasks, run : Queue!RunStates]
  <1>7. /\ operators \in [Clicks \cup {Retrier} -> Requests] /\ run \in Queue!RunStates
         /\ Queue!NoRetry \in Requests
    BY <1>1, Assumed
    DEF Queue!TypeOK, Queue!NoRetry, Queue!NoTask, Queue!RunStates, Queue!TasksAssumption
  <1>8. ASSUME NEW c \in Clicks, ClickDies(c) PROVE Queue!TypeOK'
    <2>1. crashes' \in 0 .. MaxCrashes
      BY <1>1, <1>8, Assumed DEF ClickDies, Queue!TypeOK, Queue!TasksAssumption
    <2>2. operators' \in [Clicks \cup {Retrier} -> Requests]
      BY <1>8, <1>7 DEF ClickDies
    <2>3. QED
      BY <1>1, <1>8, <2>1, <2>2 DEF ClickDies, Queue!TypeOK
  <1>9. ASSUME NEW c \in Clicks, ClickReverifies(c) PROVE Queue!TypeOK'
    <2>1. run' \in Queue!RunStates
      BY <1>9, <1>7 DEF ClickReverifies, Queue!Reopen, Queue!Reopened, Queue!RunStates
    <2>2. operators' \in [Clicks \cup {Retrier} -> Requests]
      BY <1>9, <1>7 DEF ClickReverifies, Queue!Reopen
    <2>3. QED
      BY <1>1, <1>9, <2>1, <2>2 DEF ClickReverifies, Queue!Reopen, Queue!TypeOK
  <1>10. ASSUME NEW c \in Clicks, Click(c) PROVE Queue!TypeOK'
    <2>1. CASE Queue!ReadsRun(c, "reopening", ResumeOf[c])
               /\ UNCHANGED <<tasks, run, spent, workers, crashes, retries>>
      <3>1. ResumeOf[c] \in Tasks
        BY AgencyAssumption DEF Queue!Resumes
      <3>2. operators' \in [Clicks \cup {Retrier} -> Requests]
        BY <1>7, <2>1, <3>1 DEF Queue!ReadsRun
      <3>3. QED
        BY <1>1, <2>1, <3>2 DEF Queue!TypeOK
    <2>2. QED
      BY <1>5, <1>10, <2>1 DEF Click
  <1>11. ASSUME NEW c \in Clicks, ClickEnqueues(c) PROVE Queue!TypeOK'
    <2>1. Queue!Row("pending") \in [state : Queue!TaskStates, lease : {"none", "live", "lapsed"},
                                    attempts : 0 .. AttemptsCap]
      BY Assumed DEF Queue!Row, Queue!TaskStates, Queue!Movable, Queue!TasksAssumption
    <2>2. operators' \in [Clicks \cup {Retrier} -> Requests]
      BY <1>11, <1>7 DEF ClickEnqueues
    <2>3. QED
      BY <1>1, <1>11, <2>1, <2>2 DEF ClickEnqueues, Queue!Enqueued, Queue!TypeOK
  <1>12. ASSUME NEW w \in Workers, WorkerStep(w) PROVE Queue!TypeOK'
    BY <1>3, <1>5, <1>12 DEF WorkerStep, Proceed, StageCalls, ResumeCalls, GateWorks, StageReturns,
       ResumeReturns, OrphanDone, SweepTasks, Queue!Work
  <1>13. QED
    BY <1>3, <1>4, <1>5, <1>6, <1>8, <1>9, <1>11, <1>12, <1>10
    DEF Next, Claim, Sweep, OrphanPass, ClickStep, GateWorks, Environment, vars, queueVars

LEMMA BaseStep == Base /\ [Next]_vars => Base' /\ GateP!RowsMoveOn
  <1> SUFFICES ASSUME Base, [Next]_vars PROVE Base' /\ GateP!RowsMoveOn
    OBVIOUS
  <1>1. GateP!Inv' /\ GateP!CallsKeepUp' /\ GateP!RowsMoveOn
    BY UsesTheGate, GateKept DEF Base
  <1>2. Queue!TypeOK'
    BY QueueTypes
  <1>3. /\ rows \in [Keys -> Gate!Rows] /\ sessions \in [Sessions -> Gate!Calls]
        /\ workers \in [Workers -> [pc : Queue!PCs, task : Tasks, verdict : Queue!RunStates]]
        /\ Retrying \in [pc : AskingPCs, task : Tasks, run : Queue!RunStates]
        /\ Workers \subseteq Sessions /\ Clicks \subseteq Sessions /\ HeldTasksExist
        /\ ActionOf \in [Tasks -> SUBSET Keys] /\ ResumeOf \in [Clicks -> Queue!Resumes]
        /\ Queue!Resumes \subseteq Tasks /\ Workers \cap Clicks = {}
    BY Types, AgencyAssumption DEF Base, Queue!Resumes
  <1>4. \A k \in Keys : Decided(k) => Decided(k)'
    BY <1>1, GateConstants DEF GateP!RowsMoveOn, GateP!Started, Decided, Gate!Resumable
  <1>5. ASSUME NEW c \in Clicks PROVE ClickCall(c)'
    <2>1. ClickCall(c)
      BY DEF Base
    <2>2. CASE sessions'[c] = sessions[c]
      <3>1. sessions[c].pc # "idle" => sessions[c].key \in Keys
        BY <1>3, <2>1 DEF ClickCall
      <3>2. QED
        BY <1>4, <2>1, <2>2, <3>1 DEF ClickCall
    <2>3. CASE RequestBegins(c)
      BY <2>3 DEF RequestBegins, Begins, ClickCall
    <2>4. CASE Works(c)
      <3>1. /\ sessions[c].pc \in {"record_approval", "deny", "reverify"}
            /\ sessions[c].key \in ActionOf[ResumeOf[c]] /\ sessions[c].key \in Keys
        BY <1>3, <2>1, <2>4 DEF ClickCall, Works
      <3>2. /\ sessions'[c].pc = "returned" /\ sessions'[c].key = sessions[c].key
            /\ \/ rows'[sessions[c].key].decision # "none"
               \/ rows'[sessions[c].key].state \in {"denied", "verifying"}
        BY <2>4, <3>1 DEF Works, GateP!Moves, GateP!Leaves, GateP!At, GateP!Key
      <3>3. QED
        BY <3>1, <3>2 DEF ClickCall, Decided, Gate!Resumable, Gate!InFlight, Gate!TerminalStates
    <2>5. CASE Ends(c)
      <3>1. sessions'[c].pc = "idle"
        BY <1>3, <2>5 DEF Ends, Gate!IdleCall
      <3>2. QED
        BY <3>1 DEF ClickCall
    <2>6. QED
      <3>1. ASSUME NEW s \in Sessions, s # c, Works(s) \/ Ends(s) \/ RequestBegins(s)
                        \/ StageBegins(s) \/ ResumeBegins(s) \/ PassBegins(s)
            PROVE  sessions'[c] = sessions[c]
        BY <1>3, <3>1 DEF Works, Ends, RequestBegins, StageBegins, ResumeBegins, PassBegins,
           Redrives, Begins, Others
      <3>2. QED
        BY <1>3, <2>2, <2>3, <2>4, <2>5, <3>1, SessionSteps
  <1>6. HeldTasksExist'
    <2>1. \A t \in Tasks : tasks[t].state # "absent" => tasks'[t].state # "absent"
      BY TasksStay
    <2>2. ASSUME NEW w \in Workers, workers'[w].pc # "idle"
          PROVE  tasks'[workers'[w].task].state # "absent"
      <3>1. CASE workers'[w] = workers[w]
        BY <1>3, <2>1, <2>2, <3>1 DEF HeldTasksExist
      <3>2. CASE Claims(w)
        <4>1. PICK t \in Tasks : /\ tasks' = [tasks EXCEPT ![t].state = "claimed", ![t].lease = "live"]
                                 /\ workers' = [workers EXCEPT ![w] =
                                       [Queue!Idle EXCEPT !.pc = "claimed", !.task = t]]
          BY <3>2 DEF Claims, Queue!Claim
        <4>2. workers'[w].task = t /\ tasks'[t].state = "claimed"
          BY <1>3, <4>1, Types DEF Queue!Idle
        <4>3. QED
          BY <4>2
      <3>3. CASE Handles(w)
        BY <1>3, <2>1, <2>2, <3>3, HandlesFrame DEF Handles, HeldTasksExist
      <3>4. CASE WorkerDies(w)
        BY <1>3, <2>2, <3>4 DEF WorkerDies, Queue!Idle
      <3>5. ASSUME NEW v \in Workers, v # w, Claims(v) \/ Handles(v) \/ WorkerDies(v)
            PROVE  workers'[w] = workers[w]
        BY <1>3, <3>5, HandlesFrame DEF Claims, WorkerDies, OtherWorkers, Queue!Claim
      <3>6. CASE Sweeps \/ (\E c \in Clicks : ClickEnqueues(c)) \/ Environment
        BY <3>1, <3>6, RetrySteps DEF Sweeps, ClickEnqueues, Queue!Sweep
      <3>7. QED
        BY <3>1, <3>2, <3>3, <3>4, <3>5, <3>6, QueueSteps
    <2>3. Retrying'.pc = "retrying" => tasks'[Retrying'.task].state # "absent"
      <3>1. CASE Retrying' = Retrying
        BY <1>3, <2>1, <3>1 DEF HeldTasksExist
      <3>2. CASE Environment
        BY <1>3, <2>1, <3>1, <3>2, RetrySteps DEF Queue!NoRetry
      <3>3. ASSUME NEW w \in Workers, Claims(w) \/ Handles(w) \/ WorkerDies(w)
            PROVE  Retrying' = Retrying
        BY <3>3, HandlesFrame DEF Claims, WorkerDies, Queue!Claim, Retrying
      <3>4. CASE Sweeps \/ (\E c \in Clicks : ClickEnqueues(c))
        BY <3>1, <3>4, RequestsLeaveRetry DEF Sweeps, Queue!Sweep, Retrying
      <3>5. QED
        BY <3>1, <3>2, <3>3, <3>4, QueueSteps
    <2>4. QED
      BY <2>2, <2>3 DEF HeldTasksExist
  <1>7. ResumesDecided'
    <2>1. ASSUME NEW r \in Queue!Resumes, tasks'[r].state # "absent"
          PROVE  ActionOf[r] # {} /\ \A k \in ActionOf[r] : Decided(k)'
      <3>1. CASE tasks[r].state # "absent"
        BY <1>3, <1>4, <3>1 DEF Base, ResumesDecided
      <3>2. CASE tasks[r].state = "absent"
        <4>1. PICK c \in Clicks : ClickEnqueues(c) /\ r = ResumeOf[c]
          BY <2>1, <3>2, TasksStay
        <4>2. /\ sessions[c].pc = "returned" /\ sessions[c].key \in ActionOf[r]
              /\ Decided(sessions[c].key)
          BY <4>1 DEF ClickEnqueues, Gate!Finish, Gate!At, Base, ClickCall
        <4>3. \A k \in ActionOf[r] : k = sessions[c].key
          BY <4>2, AgencyAssumption
        <4>4. QED
          BY <1>3, <1>4, <4>2, <4>3
      <3>3. QED
        BY <3>1, <3>2
    <2>2. QED
      BY <2>1 DEF ResumesDecided
  <1>8. QED
    BY <1>1, <1>2, <1>5, <1>6, <1>7 DEF Base

LEMMA BaseInit == Init => Base
  <1> SUFFICES ASSUME Init PROVE Base
    OBVIOUS
  <1>1. GateP!Inv /\ GateP!CallsKeepUp
    BY GateKept DEF Init
  <1>2. Queue!TypeOK
    <2>1. QueueP!TypeOK
      BY SameQueue, Assumed, QueueP!TypeInit DEF QueueP!TypeInit, Init
    <2>2. QED
      BY <2>1, SameQueue
  <1>3. \A c \in Clicks : ClickCall(c)
    BY DEF ClickCall, Init, Gate!Init, Gate!IdleCall
  <1>4. HeldTasksExist /\ ResumesDecided
    BY Assumed DEF HeldTasksExist, ResumesDecided, Init, Queue!Init, Queue!Idle, Queue!NoRetry,
       Retrying, Queue!Row, Queue!ResumesAssumption, Queue!Resumes
  <1>5. QED
    BY <1>1, <1>2, <1>3, <1>4 DEF Base

LEMMA BaseHolds == Spec => []Base
  BY BaseInit, BaseStep, PTL DEF Spec

(* The agency calls the gate as the gate allows, and only so: whatever a worker,
   its handler, its recovery pass and the operator's requests do to the
   `actions` table is what ActionGate's sessions may do. *)
THEOREM AgencyImplementsTheGate == Spec => Gate!Spec
  <1>1. Init => Gate!Init
    BY DEF Init
  <1>2. Base /\ [Next]_vars => [Gate!Next]_(Gate!vars)
    BY UsesTheGate DEF gateVars, Gate!vars
  <1>3. QED
    BY <1>1, <1>2, BaseHolds, PTL DEF Spec, Gate!Spec

(* The gate's own promises, in the whole agency: with any number of workers, a
   web process that dies and an operator who clicks at once, nothing reaches the
   world unapproved or ahead of what it requires, an automatic action once, and
   what reads `succeeded` is proved. *)
THEOREM AgencyKeepsTheGate ==
    Spec => /\ []Gate!ApprovalBeforeEffect /\ []Gate!AutomaticOnce
            /\ []Gate!SuccessIsProved /\ []Gate!RequiredFirst
  <1>1. Base => Gate!ApprovalBeforeEffect /\ Gate!AutomaticOnce
    BY DEF Base, GateP!Inv, GateP!ApprovalBeforeEffect, GateP!AutomaticOnce,
       Gate!ApprovalBeforeEffect, Gate!AutomaticOnce
  <1>2. Base => Gate!SuccessIsProved
    BY DEF Base, GateP!Inv, GateP!RowsAreHonest, Gate!SuccessIsProved
  <1>3. Base => Gate!RequiredFirst
    <2> SUFFICES ASSUME Base, NEW k \in Keys, effects[k] > 0, NEW p \in Requires[k]
                 PROVE  rows[p].evidence /\ (p \in ApprovalKeys => p \in approved)
      BY DEF Gate!RequiredFirst
    <2>1. GateP!RowsAreHonest /\ effects[k] # 0
      BY DEF Base, GateP!Inv
    <2>2. rows[k].state # "absent" /\ p \in Keys
      BY <2>1, Assumed DEF GateP!RowsAreHonest, GateP!KeysAssumption
    <2>3. rows[p].evidence /\ effects[p] > 0
      BY <2>1, <2>2 DEF GateP!RowsAreHonest
    <2>4. QED
      BY <2>2, <2>3 DEF Base, GateP!Inv, GateP!ApprovalBeforeEffect
  <1>4. QED
    BY <1>1, <1>2, <1>3, BaseHolds, PTL

(* Through the gate, the agency implements its ledger. *)
THEOREM AgencyKeepsTheLedger == Spec => GateP!LedgerSpec
  BY AgencyImplementsTheGate, SameSpec, GateP!Refinement, Assumed, PTL DEF GateP!Refinement

-----------------------------------------------------------------------------
(* What a worker's call is for. *)

Driving == {"run", "execute", "executed", "verify"}

(* In a recovery pass: an action in flight, whose verification is not left to
   an observer. *)
InPassCall(w) ==
    LET pc == sessions[w].pc  k == sessions[w].key IN
    /\ workers[w].pc = "idle" /\ pc \in {"run", "verify", "returned"}
    /\ pc = "run" => sessions[w].state \in Gate!InFlight
    /\ k \notin DeferredKeys

(* For a `resume` task: its action, already inserted. *)
InResumeCall(w) ==
    LET pc == sessions[w].pc  k == sessions[w].key  r == workers[w].task IN
    /\ workers[w].pc = "handling" /\ r \in Queue!Resumes /\ k \in ActionOf[r]
    /\ pc \in Driving \cup {"returned"}
    /\ pc = "run" => sessions[w].state # "pending"

(* For a stage: one of its actions, and driven only if it needs no approval. *)
InStageCall(w) ==
    LET pc == sessions[w].pc  k == sessions[w].key  t == workers[w].task IN
    /\ workers[w].pc = "handling" /\ t \notin Queue!Resumes /\ k \in ActionOf[t]
    /\ pc \in {"checked", "inserted", "conflict", "returned"} \cup Driving
    /\ pc \in Driving => k \notin ApprovalKeys
    /\ pc = "run" => sessions[w].state = "pending"

WorkerCall(w) ==
    sessions[w].pc # "idle" => InPassCall(w) \/ InResumeCall(w) \/ InStageCall(w)

WorkerCalls == \A w \in Workers : WorkerCall(w)

LEMMA Licences ==
    ASSUME Base, NEW s \in Sessions
    PROVE  LET k == sessions[s].key IN
           /\ sessions[s].pc = "inserted" => sessions[s].state = "pending"
           /\ sessions[s].pc = "run" =>
                /\ sessions[s].state \in {"pending", "awaiting_approval"} \cup Gate!InFlight
                /\ sessions[s].state = "pending" => k \notin ApprovalKeys /\ rows[k].state = "pending"
                /\ sessions[s].state = "awaiting_approval" =>
                      k \in ApprovalKeys /\ rows[k].decision # "none"
                /\ sessions[s].state \in Gate!InFlight =>
                      rows[k].state \in Gate!InFlight \cup Gate!TerminalStates
           /\ sessions[s].pc = "inserted" => rows[k].state = "pending"
           /\ sessions[s].pc \in {"execute", "executed", "verify", "reverify"} =>
                rows[k].state \in Gate!InFlight \cup Gate!TerminalStates
           /\ sessions[s].pc \in {"record_approval", "approve", "deny"} =>
                sessions[s].state = "awaiting_approval"
           /\ sessions[s].pc = "idle" => sessions[s] = Gate!IdleCall
  <1>1. s \in Workers \cup Clicks
    BY DEF Sessions
  <1>2. GateP!Licensed(s) /\ GateP!KeepsUp(s)
    BY <1>1 DEF Base, GateP!Inv, GateP!CallsAreLicensed, GateP!CallsKeepUp
  <1>3. GateP!Fresh(s) => rows[GateP!Key(s)].state = "pending"
    BY <1>1 DEF Base, GateP!Inv, GateP!HolderIsFirst
  <1>4. QED
    BY <1>2, <1>3, GateConstants
    DEF GateP!Licensed, GateP!KeepsUp, GateP!Fresh, GateP!Started, GateP!At, GateP!Key, GateP!Copy

LEMMA RowFacts ==
    ASSUME Base, NEW k \in Keys
    PROVE  /\ rows[k].state \in {"absent", "pending"} => rows[k].decision = "none" /\ effects[k] = 0
           /\ rows[k].state = "awaiting_approval" => k \in ApprovalKeys
           /\ rows[k].state = "succeeded" => rows[k].evidence
           /\ rows[k].evidence => effects[k] > 0
  BY DEF Base, GateP!Inv, GateP!RowsAreHonest

LEMMA WorkerCallsStep ==
    ASSUME Base, WorkerCalls, [Next]_vars
    PROVE  WorkerCalls'
  <1>1. /\ rows \in [Keys -> Gate!Rows] /\ sessions \in [Sessions -> Gate!Calls]
        /\ workers \in [Workers -> [pc : Queue!PCs, task : Tasks, verdict : Queue!RunStates]]
        /\ Workers \subseteq Sessions /\ Clicks \subseteq Sessions
        /\ ActionOf \in [Tasks -> SUBSET Keys] /\ Queue!Resumes \subseteq Tasks
        /\ Workers \cap Clicks = {}
    BY Types, AgencyAssumption DEF Queue!Resumes
  <1> SUFFICES ASSUME NEW w \in Workers PROVE WorkerCall(w)'
    BY DEF WorkerCalls
  <1>2. WorkerCall(w)
    BY DEF WorkerCalls
  <1>3. CASE sessions'[w] = sessions[w] /\ workers'[w] = workers[w]
    BY <1>2, <1>3 DEF WorkerCall, InPassCall, InResumeCall, InStageCall
  <1>4. CASE StageBegins(w)
    BY <1>4 DEF StageBegins, Begins, WorkerCall, InStageCall, queueVars, Driving
  <1>5. CASE ResumeBegins(w)
    <2>1. PICK k \in ActionOf[workers[w].task] : Redrives(w, k)
      BY <1>5 DEF ResumeBegins
    <2>2. k \in Keys /\ Decided(k)
      BY <1>1, <1>5 DEF Base, HeldTasksExist, ResumesDecided, ResumeBegins
    <2>3. rows[k].state # "pending"
      BY <2>2, RowFacts DEF Decided, Gate!Resumable, Gate!InFlight, Gate!TerminalStates
    <2>4. QED
      BY <1>5, <2>1, <2>3 DEF ResumeBegins, Redrives, Begins, WorkerCall, InResumeCall, queueVars,
         Driving
  <1>6. CASE PassBegins(w)
    BY <1>6 DEF PassBegins, Begins, WorkerCall, InPassCall, queueVars, Orphan
  <1>7. CASE Works(w)
    <2>1. workers' = workers /\ sessions'[w].key = sessions[w].key /\ sessions[w].pc # "idle"
      BY <1>7 DEF Works
    <2>2. GateP!Moves(w)
      BY <1>7 DEF Works
    <2> USE <2>1, <2>2 DEF GateP!Moves, GateP!Leaves, GateP!At, GateP!Key, GateP!Copy
    <2>3. CASE InPassCall(w)
      <3>1. Gate!InFlight \cap {"pending", "awaiting_approval"} = {}
        BY DEF Gate!InFlight
      <3>2. InPassCall(w)'
        BY <2>3, <3>1 DEF InPassCall
      <3>3. QED
        BY <3>2 DEF WorkerCall
    <2>4. CASE InResumeCall(w)
      <3>1. InResumeCall(w)'
        BY <2>4 DEF InResumeCall, Driving
      <3>2. QED
        BY <3>1 DEF WorkerCall
    <2>5. CASE InStageCall(w)
      <3>1. /\ sessions[w].pc = "inserted" => sessions[w].state = "pending"
            /\ workers'[w] = workers[w]
        BY <1>1, Licences
      <3>2. InStageCall(w)'
        BY <2>5, <3>1 DEF InStageCall, Driving
      <3>3. QED
        BY <3>2 DEF WorkerCall
    <2>6. QED
      BY <1>2, <2>3, <2>4, <2>5 DEF WorkerCall
  <1>8. CASE Ends(w)
    BY <1>1, <1>8 DEF Ends, Gate!IdleCall, WorkerCall
  <1>9. ASSUME sessions'[w] = sessions[w] PROVE WorkerCall(w)'
    <2>1. CASE Claims(w)
      BY <1>9, <2>1 DEF Claims, WorkerCall
    <2>2. CASE Handles(w)
      <3>1. CASE sessions[w].pc = "idle"
        BY <1>9, <3>1 DEF WorkerCall
      <3>2. CASE sessions[w].pc # "idle"
        <4>1. ~Proceed(w)
          BY <1>2, <2>2, <3>2
          DEF WorkerCall, InPassCall, InResumeCall, InStageCall, Handles, Proceed,
              Queue!CheckBudget,
              Queue!Refuse, Queue!MarkRunning, Queue!FailCommit, Queue!RollUp, Queue!Enforce,
              Queue!Settle,
              Queue!At, Gate!At, Task
        <4>2. sessions'[w].pc = "idle"
          BY <1>1, <2>2, <4>1 DEF Handles, StageReturns, ResumeReturns, Gate!Finish, Gate!IdleCall
        <4>3. QED
          BY <4>2 DEF WorkerCall
      <3>3. QED
        BY <3>1, <3>2
    <2>3. CASE WorkerDies(w)
      BY <1>1, <2>3 DEF WorkerDies, Gate!IdleCall, WorkerCall
    <2>4. ASSUME NEW v \in Workers, v # w, Claims(v) \/ Handles(v) \/ WorkerDies(v)
          PROVE  workers'[w] = workers[w]
      BY <1>1, <2>4, HandlesFrame DEF Claims, WorkerDies, OtherWorkers, Queue!Claim
    <2>5. CASE Sweeps \/ (\E c \in Clicks : ClickEnqueues(c)) \/ Environment
      BY <1>3, <1>9, <2>5, RetrySteps DEF Sweeps, ClickEnqueues, Queue!Sweep, Queue!Enqueued
    <2>6. QED
      BY <1>3, <1>9, <2>1, <2>2, <2>3, <2>4, <2>5, QueueSteps
  <1>10. ASSUME NEW s \in Sessions, s # w, Works(s) \/ Ends(s) \/ RequestBegins(s)
                    \/ StageBegins(s) \/ ResumeBegins(s) \/ PassBegins(s)
         PROVE  sessions'[w] = sessions[w]
    BY <1>1, <1>10 DEF Works, Ends, RequestBegins, StageBegins, ResumeBegins, PassBegins,
       Redrives, Begins, Others
  <1>11. QED
    BY <1>1, <1>4, <1>5, <1>6, <1>7, <1>8, <1>9, <1>10, SessionSteps

-----------------------------------------------------------------------------
(* The steps of a worker on the task it holds, and what they write of it. *)

Goes(w, from, to) == workers[w].pc = from /\ workers'[w].pc = to

TaskMoves(w) ==
    LET t == workers[w].task
        Writes(state) == tasks' = [tasks EXCEPT ![t].state = state, ![t].lease = "none"]
        Done(u) == IF u \in Spawns[t] /\ tasks[u].state = "absent" THEN Queue!Row("pending")
                   ELSE [tasks EXCEPT ![t].state = "done", ![t].lease = "none"][u]
    IN
    \/ Goes(w, "claimed", "admitted") /\ tasks' = tasks
    \/ /\ Goes(w, "claimed", "refused") \/ Goes(w, "claimed", "checking")
       /\ t \notin Queue!Resumes /\ tasks' = tasks
    \/ /\ Goes(w, "checking", "refused") \/ Goes(w, "checking", "admitted")
       /\ tasks' = tasks
    \/ Goes(w, "refused", "idle") /\ Writes("failed")
    \/ Goes(w, "admitted", "handling") /\ tasks' = [tasks EXCEPT ![t].state = "running"]
    \/ /\ Goes(w, "handling", "released") \/ Goes(w, "handling", "raising")
       /\ t \in Queue!Resumes /\ ResumeReturns(w)
       /\ \E u \in Releases[t], state \in {"done", "failed"} : 
             /\ tasks' = [tasks EXCEPT ![u].state = state]
             /\ state = "done" => sessions[w].outcome = "succeeded"
    \/ /\ Goes(w, "handling", "done") /\ t \notin Queue!Resumes
       /\ ActionOf[t] = {} \/ StageReturns(w)
       /\ tasks' = [u \in Tasks |-> Done(u)]
    \/ Goes(w, "released", "done") /\ tasks' = [u \in Tasks |-> Done(u)]
    \/ /\ Goes(w, "handling", "parked") /\ t \notin Queue!Resumes
       /\ StageReturns(w) /\ Writes("awaiting_approval")
    \/ Goes(w, "handling", "failing") /\ t \notin Queue!Resumes /\ tasks' = tasks
    \/ Goes(w, "raising", "failing") /\ tasks' = tasks
    \/ Goes(w, "failing", "idle") /\ Writes("failed")
    \/ /\ workers[w].pc \in {"done", "parked", "summing", "closing", "settling"}
       /\ workers'[w].pc \in {"summing", "closing", "settling", "idle"} /\ tasks' = tasks

LEMMA HandlesMoves ==
    ASSUME Base, NEW w \in Workers, Handles(w)
    PROVE  TaskMoves(w)
  <1> USE DEF Queue!Goto, Queue!Rest, Queue!Idle, Queue!Task, Queue!Write, Queue!At, Goes
  <1>1. workers \in [Workers -> [pc : Queue!PCs, task : Tasks, verdict : Queue!RunStates]]
    BY Types
  <1>2. ASSUME NEW pc, Queue!Goto(w, pc) PROVE workers'[w].pc = pc
    BY <1>1, <1>2
  <1>3. Queue!Rest(w) => workers'[w].pc = "idle"
    BY <1>1
  <1>4. CASE Queue!CheckBudget(w)
    BY <1>2, <1>4 DEF Queue!CheckBudget, TaskMoves
  <1>5. CASE Queue!Refuse(w)
    BY <1>3, <1>5 DEF Queue!Refuse, TaskMoves
  <1>6. CASE Queue!MarkRunning(w)
    <2>1. workers'[w].pc = "handling"
      BY <1>1, <1>6 DEF Queue!MarkRunning
    <2>2. QED
      BY <1>6, <2>1 DEF Queue!MarkRunning, TaskMoves
  <1>7. CASE Queue!Release(w)
    <2>1. PICK u \in Releases[workers[w].task], verdict \in Queue!ReleaseVerdicts :
            /\ tasks' = [tasks EXCEPT ![u].state = verdict[1]]
            /\ Queue!Goto(w, verdict[2])
      BY <1>7 DEF Queue!Release
    <2>2. workers[w].task \in Queue!Resumes /\ workers[w].pc = "handling" /\ u \in Tasks
      BY <1>1, <1>7, <2>1, Assumed DEF Queue!Resumes, Queue!TasksAssumption, Queue!Release
    <2>3. /\ workers'[w].pc = verdict[2] /\ verdict[2] \in {"released", "raising"}
          /\ verdict[1] \in {"done", "failed"}
      <3>1. /\ verdict[2] \in {"released", "raising"}
            /\ verdict[1] \in {"done", "failed"}
        BY DEF Queue!ReleaseVerdicts
      <3>2. workers'[w].pc = verdict[2]
        BY <1>1, <2>1
      <3>3. QED
        BY <3>1, <3>2
    <2>4. ResumeReturns(w)
      <3>1. ~Proceed(w)
        BY <2>2, <2>3
        DEF Proceed, Queue!CheckBudget, Queue!Refuse, Queue!MarkRunning, Queue!FailCommit,
            Queue!RollUp, Queue!Enforce, Queue!Settle, Queue!HandlerDone, Queue!HandlerRaises, Task
      <3>2. ~StageReturns(w)
        BY <2>2 DEF StageReturns, Task
      <3>3. QED
        BY <3>1, <3>2 DEF Handles
    <2>5. verdict[1] = "done" => sessions[w].outcome = "succeeded"
      <3>1. <<tasks'[u].state, workers'[w].pc>> = ResumeVerdict(sessions[w].outcome)
        BY <2>1, <2>4 DEF ResumeReturns, Task, Outcome
      <3>2. tasks'[u].state = verdict[1]
        BY <2>1, <2>2, Types
      <3>3. QED
        BY <3>1, <3>2 DEF ResumeVerdict
    <2>6. QED
      BY <2>1, <2>2, <2>3, <2>4, <2>5 DEF TaskMoves
  <1>8. CASE Queue!HandlerDone(w)
    <2>1. /\ workers'[w].pc = "done"
          /\ tasks' = [u \in Tasks |->
                IF u \in Spawns[workers[w].task] /\ tasks[u].state = "absent" THEN Queue!Row("pending")
                ELSE [tasks EXCEPT ![workers[w].task].state = "done",
                                   ![workers[w].task].lease = "none"][u]]
      BY <1>2, <1>8 DEF Queue!HandlerDone, Queue!State
    <2>2. CASE workers[w].pc = "released"
      BY <2>1, <2>2 DEF TaskMoves
    <2>3. CASE workers[w].pc = "handling" /\ workers[w].task \notin Queue!Resumes
      <3>1. ~ResumeReturns(w)
        BY <2>3 DEF ResumeReturns, Task
      <3>2. ~Queue!HandlerRaises(w)
        BY <1>1, <2>1 DEF Queue!HandlerRaises
      <3>3. Proceed(w) => ActionOf[workers[w].task] = {}
        BY <2>3, <3>2
        DEF Proceed, Queue!CheckBudget, Queue!Refuse, Queue!MarkRunning, Queue!FailCommit,
            Queue!RollUp, Queue!Enforce, Queue!Settle, Task
      <3>4. QED
        BY <2>1, <2>3, <3>1, <3>3 DEF Handles, TaskMoves
    <2>4. QED
      BY <1>8, <2>2, <2>3 DEF Queue!HandlerDone
  <1>9. CASE Queue!HandlerParks(w)
    <2>1. /\ workers'[w].pc = "parked" /\ workers[w].pc = "handling"
          /\ workers[w].task \notin Queue!Resumes
          /\ tasks' = [tasks EXCEPT ![workers[w].task].state = "awaiting_approval",
                                    ![workers[w].task].lease = "none"]
      BY <1>2, <1>9 DEF Queue!HandlerParks
    <2>2. StageReturns(w)
      BY <2>1, <1>2, <1>1
      DEF Handles, Proceed, ResumeReturns, Queue!CheckBudget, Queue!Refuse, Queue!MarkRunning,
          Queue!FailCommit, Queue!RollUp, Queue!Enforce, Queue!Settle, Queue!HandlerRaises,
          Queue!HandlerDone, Task
    <2>3. QED
      BY <2>1, <2>2 DEF TaskMoves
  <1>10. CASE Queue!HandlerRaises(w)
    <2>1. workers'[w].pc = "failing"
      BY <1>1, <1>10 DEF Queue!HandlerRaises
    <2>2. QED
      BY <1>10, <2>1 DEF Queue!HandlerRaises, TaskMoves
  <1>11. CASE Queue!FailCommit(w)
    BY <1>3, <1>11 DEF Queue!FailCommit, TaskMoves
  <1>12. CASE Queue!RollUp(w) \/ Queue!Enforce(w)
    BY <1>2, <1>3, <1>12 DEF Queue!RollUp, Queue!Enforce, TaskMoves
  <1>13. CASE Queue!Settle(w)
    BY <1>3, <1>13 DEF Queue!Settle, TaskMoves
  <1>14. QED
    BY <1>4, <1>5, <1>6, <1>7, <1>8, <1>9, <1>10, <1>11, <1>12, <1>13 DEF Handles, Queue!Work

-----------------------------------------------------------------------------
(* A stage that is done is proved. *)

(* The pipeline's stages: one gated action at most, of no other stage; and a
   `resume` task is for the gated action of the stage it releases, or for the
   only one there is. *)
OneGateAStage ==
    /\ \A t, u \in Stages : \A k \in ApprovalKeys :
          k \in ActionOf[t] /\ k \in ActionOf[u] => t = u
    /\ \A t \in Stages : \A k, l \in ApprovalKeys :
          k \in ActionOf[t] /\ l \in ActionOf[t] => k = l
    /\ \A r \in Queue!Resumes : \A t \in Releases[r] : \A k \in ActionOf[r] :
          /\ k \in ActionOf[t]
          /\ k \in ApprovalKeys \/ ActionOf[t] = {k}

Asked(k) ==
    \/ rows[k].state # "absent"
    \/ \E w \in Workers : sessions[w].pc = "checked" /\ sessions[w].key = k

(* A stage asks for the action that needs an approval last. *)
GatedLast ==
    \A t \in Stages : \A k \in ActionOf[t] \cap ApprovalKeys :
        Asked(k) => \A l \in ActionOf[t] \ ApprovalKeys : rows[l].evidence

OnlyResumesRelease ==
    \A w \in Workers : workers[w].pc = "released" => workers[w].task \in Queue!Resumes

DoneInv == Base /\ WorkerCalls /\ GatedLast /\ OnlyResumesRelease /\ DoneIsProved

(* A row is inserted by a session that has checked what it requires. *)
LEMMA Inserted ==
    ASSUME Base, WorkerCalls, NEW s \in Sessions, Works(s), NEW k \in Keys,
           rows[k].state = "absent", rows'[k].state # "absent"
    PROVE  s \in Workers /\ sessions[s].pc = "checked" /\ sessions[s].key = k
  <1>1. sessions[s].key = k
    BY DEF Works
  <1>2. rows[k].decision = "none" /\ Gate!InFlight \cup Gate!TerminalStates =
           {"executing", "verifying", "succeeded", "failed", "denied"}
    BY RowFacts DEF Gate!InFlight, Gate!TerminalStates
  <1>3. GateP!Licensed(s)
    BY DEF Base, GateP!Inv, GateP!CallsAreLicensed, Sessions
  <1>4. sessions[s].pc \notin {"record_approval", "approve", "deny", "run", "execute", "executed",
                                "verify", "reverify"}
    BY <1>1, <1>2, <1>3, Licences DEF GateP!Licensed, GateP!Fresh, GateP!At, GateP!Key, GateP!Copy
  <1>5. sessions[s].pc = "checked"
    BY <1>1, <1>2, <1>4, Licences
    DEF Works, GateP!Moves, GateP!Leaves, GateP!At, GateP!Key
  <1>6. s \in Workers
    BY <1>5 DEF Sessions, Base, ClickCall
  <1>7. QED
    BY <1>1, <1>5, <1>6

LEMMA GatedLastStep ==
    ASSUME OneGateAStage, Base, WorkerCalls, GatedLast, [Next]_vars
    PROVE  GatedLast'
  <1>1. /\ sessions \in [Sessions -> Gate!Calls] /\ Stages \subseteq Tasks
        /\ workers \in [Workers -> [pc : Queue!PCs, task : Tasks, verdict : Queue!RunStates]]
        /\ Workers \subseteq Sessions /\ Clicks \subseteq Sessions
        /\ ActionOf \in [Tasks -> SUBSET Keys]
        /\ Workers \cap Clicks = {}
    BY Types, AgencyAssumption DEF Stages
  <1> SUFFICES ASSUME NEW t \in Stages, NEW k \in ActionOf[t] \cap ApprovalKeys, Asked(k)',
                      NEW l \in ActionOf[t] \ ApprovalKeys
               PROVE  rows'[l].evidence
    BY DEF GatedLast
  <1>2. k \in Keys /\ l \in Keys
    BY <1>1
  <1>3. rows[l].evidence => rows'[l].evidence
    BY <1>2, BaseStep DEF GateP!RowsMoveOn
  <1>4. CASE Asked(k)
    BY <1>3, <1>4 DEF GatedLast
  <1>5. ASSUME NEW w \in Workers, StageBegins(w), sessions'[w].key = k
        PROVE  rows[l].evidence
    <2>1. PICK j \in Due(w) : j \in ActionOf[workers[w].task] /\ Begins(w, "checked", j)
      BY <1>5 DEF StageBegins
    <2>2. j = k
      BY <1>5, <2>1 DEF Begins
    <2>3. workers[w].task = t
      BY <1>1, <1>5, <2>1, <2>2 DEF OneGateAStage, Stages, StageBegins
    <2>4. rows[l].state = "succeeded"
      BY <2>1, <2>2, <2>3 DEF Due, Task
    <2>5. QED
      BY <1>2, <2>4, RowFacts
  <1>6. ASSUME ~Asked(k), rows'[k].state = rows[k].state
        PROVE  \E w \in Workers : StageBegins(w) /\ sessions'[w].key = k
    <2>1. PICK w \in Workers : sessions'[w].pc = "checked" /\ sessions'[w].key = k
      BY <1>6 DEF Asked
    <2>2. sessions'[w] # sessions[w]
      BY <1>6, <2>1 DEF Asked
    <2>3. ~Works(w)
      BY <2>1 DEF Works, GateP!Moves, GateP!Leaves
    <2>4. ~Ends(w)
      BY <1>1, <2>1 DEF Ends, Gate!IdleCall
    <2>5. ~ResumeBegins(w) /\ ~PassBegins(w)
      BY <2>1 DEF ResumeBegins, PassBegins, Redrives, Begins
    <2>6. ASSUME NEW s \in Sessions, s # w, Works(s) \/ Ends(s) \/ RequestBegins(s)
                      \/ StageBegins(s) \/ ResumeBegins(s) \/ PassBegins(s)
          PROVE  sessions'[w] = sessions[w]
      BY <1>1, <2>6 DEF Works, Ends, RequestBegins, StageBegins, ResumeBegins, PassBegins,
         Redrives, Begins, Others
    <2>7. StageBegins(w)
      BY <1>1, <2>2, <2>3, <2>4, <2>5, <2>6, SessionSteps
    <2>8. QED
      BY <2>1, <2>7
  <1>7. ASSUME ~Asked(k), rows'[k].state # rows[k].state
        PROVE  FALSE
    <2>1. rows[k].state = "absent" /\ rows'[k].state # "absent"
      BY <1>7 DEF Asked
    <2>2. PICK s \in Sessions : Works(s)
      BY <1>1, <2>1, SessionSteps DEF RequestBegins, StageBegins, ResumeBegins, PassBegins,
         Redrives,
         Begins, Untouched, Ends
    <2>3. QED
      BY <1>2, <1>7, <2>1, <2>2, Inserted DEF Asked
  <1>8. QED
    BY <1>3, <1>4, <1>5, <1>6, <1>7

LEMMA OnlyResumesReleaseStep ==
    ASSUME Base, OnlyResumesRelease, [Next]_vars
    PROVE  OnlyResumesRelease'
  <1>1. workers \in [Workers -> [pc : Queue!PCs, task : Tasks, verdict : Queue!RunStates]]
    BY Types
  <1> SUFFICES ASSUME NEW w \in Workers, workers'[w].pc = "released"
               PROVE  workers'[w].task \in Queue!Resumes
    BY DEF OnlyResumesRelease
  <1>2. CASE workers'[w] = workers[w]
    BY <1>2 DEF OnlyResumesRelease
  <1>3. CASE Handles(w)
    <2>1. TaskMoves(w) /\ workers'[w].task = workers[w].task
      BY <1>3, HandlesMoves, HandlesFrame
    <2>2. QED
      BY <2>1 DEF TaskMoves, Goes
  <1>4. ~Claims(w) /\ ~WorkerDies(w)
    <2>1. ASSUME Claims(w) PROVE FALSE
      <3>1. PICK t \in Tasks :
              workers' = [workers EXCEPT ![w] = [Queue!Idle EXCEPT !.pc = "claimed", !.task = t]]
        BY <2>1 DEF Claims, Queue!Claim
      <3>2. QED
        BY <1>1, <3>1 DEF Queue!Idle
    <2>2. QED
      BY <1>1, <2>1 DEF WorkerDies, Queue!Idle
  <1>5. ASSUME NEW v \in Workers, v # w, Claims(v) \/ Handles(v) \/ WorkerDies(v)
        PROVE  workers'[w] = workers[w]
    BY <1>1, <1>5, HandlesFrame DEF Claims, WorkerDies, OtherWorkers, Queue!Claim
  <1>6. CASE Sweeps \/ (\E c \in Clicks : ClickEnqueues(c)) \/ Environment
    BY <1>2, <1>6, RetrySteps DEF Sweeps, ClickEnqueues, Queue!Sweep, Queue!Enqueued
  <1>7. QED
    BY <1>2, <1>3, <1>4, <1>5, <1>6, QueueSteps

LEMMA DoneStep ==
    ASSUME OneGateAStage, DoneInv, [Next]_vars
    PROVE  DoneIsProved'
  <1>1. /\ rows \in [Keys -> Gate!Rows] /\ sessions \in [Sessions -> Gate!Calls]
        /\ tasks \in [Tasks -> [state : Queue!TaskStates, lease : {"none", "live", "lapsed"},
                                attempts : 0 .. AttemptsCap]]
        /\ workers \in [Workers -> [pc : Queue!PCs, task : Tasks, verdict : Queue!RunStates]]
        /\ Retrying \in [pc : AskingPCs, task : Tasks, run : Queue!RunStates]
        /\ Workers \subseteq Sessions
        /\ ActionOf \in [Tasks -> SUBSET Keys] /\ Stages \subseteq Tasks
    BY Types, AgencyAssumption DEF DoneInv, Stages
  <1> SUFFICES ASSUME NEW t \in Stages, tasks'[t].state = "done", NEW k \in ActionOf[t]
               PROVE  rows'[k].evidence
    BY DEF DoneIsProved
  <1>2. /\ t \in Tasks /\ t \notin Queue!Resumes /\ k \in Keys
        /\ \A l \in Keys : rows[l].evidence => rows'[l].evidence
    BY <1>1, BaseStep DEF GateP!RowsMoveOn, DoneInv, Stages
  <1>3. CASE tasks[t].state = "done"
    BY <1>2, <1>3 DEF DoneInv, DoneIsProved
  <1>4. ASSUME NEW w \in Workers, sessions[w].pc = "returned", sessions[w].outcome = "succeeded"
        PROVE  rows[sessions[w].key].evidence
    BY <1>1, <1>4 DEF DoneInv, Base, GateP!CallsKeepUp, GateP!KeepsUp, GateP!At, GateP!Key, Sessions
  <1>5. ASSUME NEW w \in Workers, Handles(w), tasks[t].state # "done"
        PROVE  rows[k].evidence
    <2>1. TaskMoves(w) /\ workers[w].task \in Tasks
      BY <1>1, <1>5, HandlesMoves DEF DoneInv
    <2>2. CASE workers[w].task \in Queue!Resumes /\ ResumeReturns(w) 
               /\ sessions[w].outcome = "succeeded" /\ t \in Releases[workers[w].task]
      <3>1. /\ sessions[w].pc = "returned" /\ workers[w].pc = "handling"
            /\ sessions[w].key \in ActionOf[workers[w].task]
        BY <2>2 DEF ResumeReturns, Handling, Gate!At, Queue!At, DoneInv, WorkerCalls, WorkerCall,
           InPassCall, InResumeCall, InStageCall
      <3>2. rows[sessions[w].key].evidence /\ sessions[w].key \in Keys
        BY <1>1, <1>4, <2>1, <2>2, <3>1
      <3>3. /\ sessions[w].key \in ActionOf[t]
            /\ sessions[w].key \in ApprovalKeys \/ ActionOf[t] = {sessions[w].key}
        BY <2>2, <3>1 DEF OneGateAStage
      <3>4. CASE k = sessions[w].key
        BY <3>2, <3>4
      <3>5. CASE k # sessions[w].key
        <4>1. sessions[w].key \in ApprovalKeys /\ k \notin ApprovalKeys
          BY <3>3, <3>5 DEF OneGateAStage
        <4>2. Asked(sessions[w].key)
          <5>1. effects[sessions[w].key] > 0
            BY <3>2, RowFacts DEF DoneInv
          <5>2. rows[sessions[w].key].state # "absent"
            BY <3>2, <5>1, RowFacts DEF DoneInv
          <5>3. QED
            BY <5>2 DEF Asked
        <4>3. QED
          BY <3>3, <4>1, <4>2 DEF DoneInv, GatedLast
      <3>6. QED
        BY <3>4, <3>5
    <2>3. CASE workers[w].task = t /\ StageReturns(w) /\ workers'[w].pc = "done"
      <3>1. /\ sessions[w].pc = "returned" /\ workers[w].pc = "handling"
        BY <2>3 DEF StageReturns, Handling, Gate!At, Queue!At
      <3>2. sessions[w].outcome = "succeeded" /\ LastAction(w)
        <4>1. Queue!HandlerParks(w) => workers'[w].pc = "parked"
          BY <1>1 DEF Queue!HandlerParks, Queue!Goto
        <4>2. Queue!HandlerRaises(w) => workers'[w].pc = "failing"
          BY <1>1 DEF Queue!HandlerRaises
        <4>3. UNCHANGED queueVars => workers'[w].pc = "handling"
          BY <3>1 DEF queueVars
        <4>4. QED
          BY <2>3, <4>1, <4>2, <4>3 DEF StageReturns, Outcome
      <3>3. CASE k = sessions[w].key
        BY <1>4, <3>1, <3>2, <3>3
      <3>4. CASE k # sessions[w].key
        <4>1. rows[k].state = "succeeded"
          BY <2>3, <3>2, <3>4 DEF LastAction, Task
        <4>2. QED
          BY <1>2, <4>1, RowFacts DEF DoneInv
      <3>5. QED
        BY <3>3, <3>4
    <2>4. workers[w].pc = "released" => workers[w].task # t
      BY <1>2 DEF DoneInv, OnlyResumesRelease
    <2>5. ASSUME tasks' = [u \in Tasks |->
                    IF u \in Spawns[workers[w].task] /\ tasks[u].state = "absent" THEN Queue!Row("pending")
                    ELSE [tasks EXCEPT ![workers[w].task].state = "done",
                                       ![workers[w].task].lease = "none"][u]]
          PROVE  workers[w].task = t
      BY <1>1, <1>2, <1>5, <2>5 DEF Queue!Row
    <2>6. ASSUME NEW u \in Releases[workers[w].task], NEW state \in {"done", "failed"},
                 tasks' = [tasks EXCEPT ![u].state = state]
          PROVE  u = t /\ state = "done"
      BY <1>1, <1>2, <1>5, <2>6
    <2>7. ASSUME NEW state \in {"failed", "awaiting_approval", "running"},
                 \/ tasks' = [tasks EXCEPT ![workers[w].task].state = state]
                 \/ tasks' = [tasks EXCEPT ![workers[w].task].state = state,
                                           ![workers[w].task].lease = "none"]
          PROVE  FALSE
      <3>1. CASE workers[w].task = t
        BY <1>1, <1>2, <1>5, <2>7, <3>1
      <3>2. CASE workers[w].task # t
        BY <1>1, <1>2, <1>5, <2>1, <2>7, <3>2
      <3>3. QED
        BY <3>1, <3>2
    <2>8. ActionOf[workers[w].task] = {} => workers[w].task # t
      OBVIOUS
    <2>9. QED
      BY <1>5, <2>1, <2>2, <2>3, <2>4, <2>5, <2>6, <2>7, <2>8 DEF TaskMoves, Goes
  <1>6. ASSUME NEW w \in Workers, Claims(w), tasks[t].state # "done" PROVE FALSE
    BY <1>1, <1>2, <1>6 DEF Claims, Queue!Claim
  <1>7. ASSUME Sweeps, tasks[t].state # "done" PROVE FALSE
    <2>1. tasks'[t].state \in {"failed", "pending"} \/ tasks'[t] = tasks[t]
      BY <1>2, <1>7, SweepMoves DEF DoneInv
    <2>2. QED
      BY <1>7, <2>1
  <1>8. ASSUME NEW c \in Clicks, ClickEnqueues(c), tasks[t].state # "done" PROVE FALSE
    BY <1>1, <1>2, <1>8 DEF ClickEnqueues, Queue!Enqueued, Queue!Row
  <1>9. ASSUME Environment, tasks[t].state # "done" PROVE FALSE
    <2>1. CASE Queue!LeaseLapses
      BY <1>1, <1>2, <1>9, <2>1 DEF Queue!LeaseLapses
    <2>2. CASE Queue!Retry(Retrier)
      <3>1. tasks' = [tasks EXCEPT ![Retrying.task] = Queue!Row("pending")] /\ Retrying.task \in Tasks
        BY <1>1, <2>2 DEF Queue!Retry, Retrying
      <3>2. QED
        BY <1>1, <1>2, <1>9, <3>1 DEF Queue!Row
    <2>3. QED
      BY <1>9, <2>1, <2>2, RetrySteps DEF DoneInv
  <1>10. QED
    BY <1>2, <1>3, <1>5, <1>6, <1>7, <1>8, <1>9, QueueSteps DEF DoneInv, WorkerDies

(* No stage reads `done` over an effect nobody proved, whatever interleaving of
   stages, `resume` tasks, recovery passes, decisions and crashes led there (T147). *)
THEOREM DoneSafe == ASSUME OneGateAStage PROVE Spec => []DoneIsProved
  <1>1. Init => DoneInv
    <2> SUFFICES ASSUME Init PROVE DoneInv
      OBVIOUS
    <2>1. WorkerCalls /\ GatedLast
      BY AgencyAssumption DEF WorkerCalls, WorkerCall, GatedLast, Asked, Init, Gate!Init,
         Gate!IdleCall,
         Gate!NoRow, Stages
    <2>2. OnlyResumesRelease /\ DoneIsProved
      BY DEF OnlyResumesRelease, DoneIsProved, Init, Queue!Init, Queue!Idle, Queue!Row, Stages
    <2>3. QED
      BY <2>1, <2>2, BaseInit DEF DoneInv
  <1>2. DoneInv /\ [Next]_vars => DoneInv'
    BY BaseStep, WorkerCallsStep, GatedLastStep, OnlyResumesReleaseStep, DoneStep DEF DoneInv
  <1>3. DoneInv => DoneIsProved
    BY DEF DoneInv
  <1>4. QED
    BY <1>1, <1>2, <1>3, PTL DEF Spec

-----------------------------------------------------------------------------
(* A denied action is never executed. *)

(* The operator has at most one request in flight. *)
OneClick ==
    \A c, d \in Clicks : sessions[c].pc # "idle" /\ sessions[d].pc # "idle" => c = d

(* A decision in flight is on a row that still waits for one. *)
Deciding ==
    \A c \in Clicks : sessions[c].pc \in {"record_approval", "deny"} =>
        rows[sessions[c].key].state = "awaiting_approval" /\ rows[sessions[c].key].decision = "none"

LEMMA OneClickStep ==
    ASSUME PatientOperator, Base, OneClick, [Next]_vars
    PROVE  OneClick'
  <1>1. /\ sessions \in [Sessions -> Gate!Calls]
        /\ Workers \subseteq Sessions /\ Clicks \subseteq Sessions
        /\ Workers \cap Clicks = {}
    BY Types, AgencyAssumption
  <1>2. ASSUME NEW c \in Clicks, ~RequestBegins(c), sessions'[c].pc # "idle"
        PROVE  sessions[c].pc # "idle"
    <2>1. CASE sessions'[c] = sessions[c]
      BY <1>2, <2>1
    <2>2. CASE Works(c)
      BY <2>2 DEF Works
    <2>3. ~Ends(c)
      BY <1>1, <1>2 DEF Ends, Gate!IdleCall
    <2>4. ASSUME NEW s \in Sessions, s # c, Works(s) \/ Ends(s) \/ RequestBegins(s)
                      \/ StageBegins(s) \/ ResumeBegins(s) \/ PassBegins(s)
          PROVE  sessions'[c] = sessions[c]
      BY <1>1, <2>4 DEF Works, Ends, RequestBegins, StageBegins, ResumeBegins, PassBegins,
         Redrives, Begins, Others
    <2>5. QED
      BY <1>1, <1>2, <2>1, <2>2, <2>3, <2>4, SessionSteps
  <1>3. CASE \A c \in Clicks : ~RequestBegins(c)
    BY <1>2, <1>3 DEF OneClick
  <1>4. ASSUME NEW c \in Clicks, RequestBegins(c)
        PROVE  \A d \in Clicks : d # c => sessions'[d].pc = "idle"
    BY <1>1, <1>4 DEF RequestBegins, Begins, Others
  <1>5. QED
    BY <1>3, <1>4 DEF OneClick

(* A row that waits undecided is moved by the operator's decision only. *)
LEMMA Undecided ==
    ASSUME Base, WorkerCalls, NEW s \in Sessions, Works(s), NEW k \in Keys,
           rows[k].state = "awaiting_approval", rows[k].decision = "none",
           rows'[k].state # "awaiting_approval" \/ rows'[k].decision # "none"
    PROVE  s \in Clicks /\ sessions[s].key = k /\ sessions[s].pc \in {"record_approval", "deny"}
  <1>1. sessions[s].key = k
    BY DEF Works
  <1>2. Gate!InFlight \cup Gate!TerminalStates =
           {"executing", "verifying", "succeeded", "failed", "denied"}
    BY DEF Gate!InFlight, Gate!TerminalStates
  <1>3. sessions[s].pc \in {"record_approval", "approve", "deny"}
    BY <1>1, <1>2, Licences
    DEF Works, GateP!Moves, GateP!Leaves, GateP!At, GateP!Key, GateP!Copy
  <1>4. s \in Clicks
    BY <1>3 DEF Sessions, WorkerCalls, WorkerCall, InPassCall, InResumeCall, InStageCall, Driving
  <1>5. QED
    BY <1>1, <1>3, <1>4 DEF Base, ClickCall

LEMMA DecidingStep ==
    ASSUME PatientOperator, Base, WorkerCalls, OneClick, Deciding, [Next]_vars
    PROVE  Deciding'
  <1>1. /\ sessions \in [Sessions -> Gate!Calls] /\ rows \in [Keys -> Gate!Rows]
        /\ Workers \subseteq Sessions /\ Clicks \subseteq Sessions
        /\ Workers \cap Clicks = {} /\ \A s \in Sessions : sessions[s].key \in Keys
    BY Types, AgencyAssumption
  <1> SUFFICES ASSUME NEW c \in Clicks, sessions'[c].pc \in {"record_approval", "deny"}
               PROVE  /\ rows'[sessions'[c].key].state = "awaiting_approval"
                      /\ rows'[sessions'[c].key].decision = "none"
    BY DEF Deciding
  <1>2. CASE RequestBegins(c)
    BY <1>2 DEF RequestBegins, Begins, Untouched
  <1>3. ~Works(c) /\ ~Ends(c)
    <2>1. ~Ends(c)
      BY <1>1 DEF Ends, Gate!IdleCall
    <2>2. ~Works(c)
      BY DEF Works, GateP!Moves, GateP!Leaves, GateP!At
    <2>3. QED
      BY <2>1, <2>2
  <1>4. ASSUME sessions'[c] = sessions[c], rows' = rows
        PROVE  /\ rows'[sessions'[c].key].state = "awaiting_approval"
               /\ rows'[sessions'[c].key].decision = "none"
    BY <1>4 DEF Deciding
  <1>5. ASSUME NEW s \in Sessions, s # c, Works(s)
        PROVE  /\ rows'[sessions'[c].key].state = "awaiting_approval"
               /\ rows'[sessions'[c].key].decision = "none"
    <2>1. sessions'[c] = sessions[c] /\ sessions[c].key \in Keys
      BY <1>1, <1>5 DEF Works, Others
    <2>2. /\ rows[sessions[c].key].state = "awaiting_approval"
          /\ rows[sessions[c].key].decision = "none"
      BY <2>1 DEF Deciding
    <2>3. ~(s \in Clicks)
      BY <1>1, <1>5, <2>1 DEF OneClick, Works
    <2>4. QED
      BY <1>5, <2>1, <2>2, <2>3, Undecided
  <1>6. ASSUME NEW s \in Sessions, s # c, Ends(s) \/ RequestBegins(s)
                    \/ StageBegins(s) \/ ResumeBegins(s) \/ PassBegins(s)
        PROVE  sessions'[c] = sessions[c] /\ rows' = rows
    BY <1>1, <1>6 DEF Ends, RequestBegins, StageBegins, ResumeBegins, PassBegins,
       Redrives, Begins, Others, Untouched
  <1>7. QED
    BY <1>1, <1>2, <1>3, <1>4, <1>5, <1>6, SessionSteps

(* A call that executes an action finds it undecided or approved, never denied. *)
DeniedIsIdle ==
    \A s \in Sessions : sessions[s].pc = "execute" => rows[sessions[s].key].state # "denied"

PatientInv == Base /\ WorkerCalls /\ OneClick /\ Deciding

LEMMA PatientStep ==
    ASSUME PatientOperator
    PROVE  /\ Init => PatientInv
           /\ PatientInv /\ [Next]_vars => PatientInv'
  <1>1. Init => WorkerCalls /\ OneClick /\ Deciding
    BY DEF Init, Gate!Init, Gate!IdleCall, WorkerCalls, WorkerCall, OneClick, Deciding
  <1>2. QED
    BY <1>1, BaseInit, BaseStep, WorkerCallsStep, OneClickStep, DecidingStep DEF PatientInv

LEMMA DeniedIsIdleStep ==
    ASSUME PatientInv, DeniedIsIdle, [Next]_vars
    PROVE  DeniedIsIdle'
  <1>1. /\ sessions \in [Sessions -> Gate!Calls] /\ rows \in [Keys -> Gate!Rows]
        /\ Workers \subseteq Sessions /\ Clicks \subseteq Sessions
        /\ Workers \cap Clicks = {} /\ \A s \in Sessions : sessions[s].key \in Keys
    BY Types, AgencyAssumption DEF PatientInv
  <1> SUFFICES ASSUME NEW t \in Sessions, sessions'[t].pc = "execute"
               PROVE  rows'[sessions'[t].key].state # "denied"
    BY DEF DeniedIsIdle
  <1>2. CASE Works(t)
    BY <1>2 DEF Works, GateP!Moves, GateP!Leaves, GateP!Key
  <1>3. ~Ends(t)
    BY <1>1 DEF Ends, Gate!IdleCall
  <1>4. ~RequestBegins(t) /\ ~StageBegins(t) /\ ~ResumeBegins(t) /\ ~PassBegins(t)
    BY DEF RequestBegins, StageBegins, ResumeBegins, PassBegins, Redrives, Begins
  <1>5. ASSUME NEW s \in Sessions, s # t, Works(s)
        PROVE  rows'[sessions'[t].key].state # "denied"
    <2>1. sessions'[t] = sessions[t] /\ sessions[t].key \in Keys
      BY <1>1, <1>5 DEF Works, Others
    <2>2. /\ rows[sessions[t].key].state # "denied"
          /\ rows[sessions[t].key].state \in Gate!InFlight \cup Gate!TerminalStates
      BY <2>1, Licences DEF DeniedIsIdle, PatientInv
    <2>3. sessions[s].key = sessions[t].key => sessions[s].pc # "deny"
      BY <2>2 DEF PatientInv, Deciding, Gate!InFlight, Gate!TerminalStates, Sessions, WorkerCalls,
         WorkerCall, InPassCall, InResumeCall, InStageCall, Driving
    <2>4. QED
      BY <1>5, <2>1, <2>2, <2>3 DEF Works, GateP!Moves, GateP!Leaves, GateP!At, GateP!Key
  <1>6. ASSUME NEW s \in Sessions, s # t, Ends(s) \/ RequestBegins(s)
                    \/ StageBegins(s) \/ ResumeBegins(s) \/ PassBegins(s)
        PROVE  sessions'[t] = sessions[t] /\ rows' = rows
    BY <1>1, <1>6 DEF Ends, RequestBegins, StageBegins, ResumeBegins, PassBegins,
       Redrives, Begins, Others, Untouched
  <1>7. CASE sessions'[t] = sessions[t] /\ rows' = rows
    BY <1>7 DEF DeniedIsIdle
  <1>8. QED
    BY <1>1, <1>2, <1>3, <1>4, <1>5, <1>6, <1>7, SessionSteps DEF PatientInv

(* action-gate.md, 6: with an operator who makes one request at a time, a denied
   action does not execute, whatever the workers are doing meanwhile. *)
THEOREM DenySafe == ASSUME PatientOperator PROVE Spec => DeniedNeverExecutes
  <1>1. Init => DeniedIsIdle
    BY DEF Init, Gate!Init, Gate!IdleCall, DeniedIsIdle, Sessions
  <1>2. PatientInv /\ DeniedIsIdle /\ [Next]_vars =>
           [\A k \in Keys : rows[k].state = "denied" => effects'[k] = effects[k]]_vars
    <2> SUFFICES ASSUME PatientInv, DeniedIsIdle, [Next]_vars, NEW k \in Keys,
                        rows[k].state = "denied"
                 PROVE  effects'[k] = effects[k]
      BY DEF vars
    <2>1. /\ effects \in [Keys -> Nat]
      BY Types DEF PatientInv
    <2>2. ASSUME NEW s \in Sessions, Works(s)
          PROVE  effects'[k] = effects[k]
      BY <2>1, <2>2 DEF Works, DeniedIsIdle
    <2>3. QED
      BY <2>2, SessionSteps DEF PatientInv, Ends, RequestBegins, StageBegins, ResumeBegins,
         PassBegins, Redrives, Begins, Untouched
  <1>3. QED
    BY <1>1, <1>2, PatientStep, DeniedIsIdleStep, PTL DEF Spec, DeniedNeverExecutes

-----------------------------------------------------------------------------
(* An action is executed once. *)

(* The `resume` tasks under a punctual worker: the lease is live, and the
   task is its alone. *)
ResumesHeld ==
    \A r \in Queue!Resumes : \A w \in Workers : Queue!Owner(w, r) =>
        /\ tasks[r].state \in Queue!Leased /\ tasks[r].lease = "live"
        /\ \A v \in Workers : Queue!Owner(v, r) => v = w

RetryOfResume ==
    Retrying.pc = "retrying" /\ Retrying.task \in Queue!Resumes =>
        tasks[Retrying.task].state \in {"done", "failed"}

(* A step writes no `resume` row but its owner's, a pending one, a lapsed one
   or an absent one. *)
LEMMA ResumeRows ==
    ASSUME Base, PunctualWorkers, ResumesHeld, RetryOfResume, [Next]_vars,
           NEW r \in Queue!Resumes, tasks[r].state # "pending"
    PROVE  \/ tasks[r].state \in {"done", "failed"} /\ tasks'[r].state = tasks[r].state
           \/ tasks[r].state \in {"done", "failed"} /\ Retrying' = Queue!NoRetry
           \/ \E w \in Workers : Queue!Owner(w, r) /\ Handles(w)
           \/ (\E w \in Workers : Queue!Owner(w, r)) /\ tasks'[r] = tasks[r]
           \/ (\A w \in Workers : ~Queue!Owner(w, r)) /\ tasks[r].state \notin {"done", "failed"}
  <1> DEFINE Goal ==
           \/ tasks[r].state \in {"done", "failed"} /\ tasks'[r].state = tasks[r].state
           \/ tasks[r].state \in {"done", "failed"} /\ Retrying' = Queue!NoRetry
           \/ \E w \in Workers : Queue!Owner(w, r) /\ Handles(w)
           \/ (\E w \in Workers : Queue!Owner(w, r)) /\ tasks'[r] = tasks[r]
           \/ (\A w \in Workers : ~Queue!Owner(w, r)) /\ tasks[r].state \notin {"done", "failed"}
  <1>1. /\ tasks \in [Tasks -> [state : Queue!TaskStates, lease : {"none", "live", "lapsed"},
                                attempts : 0 .. AttemptsCap]]
        /\ workers \in [Workers -> [pc : Queue!PCs, task : Tasks, verdict : Queue!RunStates]]
        /\ Retrying \in [pc : AskingPCs, task : Tasks, run : Queue!RunStates]
        /\ r \in Tasks
    BY Types DEF Queue!Resumes
  <1>2. ASSUME NEW w \in Workers, Queue!Owner(w, r)
        PROVE  tasks[r].state \in {"claimed", "running"} /\ tasks[r].lease = "live"
    BY <1>2 DEF ResumesHeld, Queue!Leased
  <1>3. CASE tasks'[r] = tasks[r]
    BY <1>2, <1>3
  <1>4. ASSUME NEW w \in Workers, Claims(w) PROVE tasks'[r] = tasks[r]
    BY <1>1, <1>4 DEF Claims, Queue!Claim, Queue!Claimable, Queue!State
  <1>5. ASSUME NEW w \in Workers, Handles(w) PROVE Goal
    <2>1. CASE workers[w].task # r
      BY <1>3, <1>5, <2>1, HandlesFrame
    <2>2. CASE workers[w].task = r /\ Queue!Owner(w, r)
      BY <1>5, <2>2
    <2>3. CASE workers[w].task = r /\ ~Queue!Owner(w, r)
      <3>1. workers[w].pc \in {"idle", "done", "parked", "summing", "closing", "settling"}
        BY <1>1, <2>3 DEF Queue!Owner, Queue!Task
      <3>2. tasks' = tasks
        BY <1>5, <3>1, HandlesMoves DEF TaskMoves, Goes, Handles
      <3>3. QED
        BY <1>3, <3>2
    <2>4. QED
      BY <2>1, <2>2, <2>3
  <1>6. ASSUME Sweeps, tasks'[r] # tasks[r] PROVE Goal
    <2>1. tasks[r].state \in Queue!Leased /\ tasks[r].lease = "lapsed"
      BY <1>1, <1>6, SweepMoves
    <2>2. QED
      BY <1>2, <2>1 DEF Queue!Leased
  <1>7. ASSUME NEW c \in Clicks, ClickEnqueues(c), tasks'[r] # tasks[r] PROVE Goal
    <2>1. tasks[r].state = "absent"
      BY <1>1, <1>7 DEF ClickEnqueues, Queue!Enqueued, Queue!State
    <2>2. QED
      BY <1>2, <2>1
  <1>8. ASSUME Environment, tasks'[r] # tasks[r] PROVE Goal
    <2>1. CASE Queue!LeaseLapses
      <3>1. PICK t \in Tasks : /\ \A w \in Workers : ~Queue!Owner(w, t)
                               /\ tasks' = [tasks EXCEPT ![t].lease = "lapsed"]
        BY <2>1 DEF Queue!LeaseLapses
      <3>2. t = r /\ tasks'[r].state = tasks[r].state
        BY <1>1, <1>8, <3>1
      <3>3. QED
        BY <3>1, <3>2
    <2>2. CASE Queue!Retry(Retrier)
      <3>1. /\ tasks' = [tasks EXCEPT ![Retrying.task] = Queue!Row("pending")]
            /\ Retrying.pc = "retrying"
        BY <2>2 DEF Queue!Retry, Queue!Asking, Retrying
      <3>2. Retrying.task = r
        BY <1>1, <1>8, <3>1
      <3>3. Retrying' = Queue!NoRetry
        BY <2>2 DEF Queue!Retry, Retrying, Base, Queue!TypeOK
      <3>4. QED
        BY <3>1, <3>2, <3>3 DEF RetryOfResume
    <2>3. QED
      BY <1>8, <2>1, <2>2, RetrySteps
  <1>9. QED
    BY <1>3, <1>4, <1>5, <1>6, <1>7, <1>8, QueueSteps DEF WorkerDies

(* A worker is moved by its own steps. *)
LEMMA OthersRest ==
    ASSUME Base, [Next]_vars, NEW w \in Workers, ~Claims(w), ~Handles(w), ~WorkerDies(w)
    PROVE  workers'[w] = workers[w]
  <1>1. ASSUME NEW v \in Workers, v # w, Claims(v) \/ Handles(v) \/ WorkerDies(v)
        PROVE  workers'[w] = workers[w]
    BY <1>1, Types, HandlesFrame DEF Claims, WorkerDies, OtherWorkers, Queue!Claim
  <1>2. Sweeps => workers' = workers
    <2>1. ASSUME NEW v \in Workers, Queue!Sweep(v) PROVE workers' = workers
      BY <2>1 DEF Queue!Sweep
    <2>2. QED
      BY <2>1 DEF Sweeps
  <1>3. ASSUME NEW c \in Clicks, ClickEnqueues(c) PROVE workers' = workers
    BY <1>3 DEF ClickEnqueues, Queue!Enqueued
  <1>4. Environment => workers' = workers
    BY RetrySteps
  <1>5. QED
    BY <1>1, <1>2, <1>3, <1>4, QueueSteps

(* A task comes into a worker's hands by a claim, and is pending until then. *)
LEMMA NewOwner ==
    ASSUME Base, [Next]_vars, NEW w \in Workers, NEW t \in Tasks,
           Queue!Owner(w, t)', ~Queue!Owner(w, t)
    PROVE  /\ tasks[t].state = "pending" /\ tasks'[t].state = "claimed" /\ tasks'[t].lease = "live"
           /\ OtherWorkers(w)
  <1>1. /\ tasks \in [Tasks -> [state : Queue!TaskStates, lease : {"none", "live", "lapsed"},
                                attempts : 0 .. AttemptsCap]]
        /\ workers \in [Workers -> [pc : Queue!PCs, task : Tasks, verdict : Queue!RunStates]]
    BY Types
  <1>2. ~Handles(w)
    <2>1. ASSUME Handles(w) PROVE FALSE
      <3>1. workers'[w].pc = "idle" \/ workers'[w].task = workers[w].task
        BY <2>1, HandlesFrame
      <3>2. workers[w].pc \in {"idle", "done", "parked", "summing", "closing", "settling"}
        BY <1>1, <3>1 DEF Queue!Owner, Queue!Task
      <3>3. workers'[w].pc \in {"idle", "summing", "closing", "settling"}
        BY <2>1, <3>2, HandlesMoves DEF TaskMoves, Goes, Handles
      <3>4. QED
        BY <3>3 DEF Queue!Owner
    <2>2. QED
      BY <2>1
  <1>3. ~WorkerDies(w)
    BY <1>1 DEF WorkerDies, Queue!Owner, Queue!Idle
  <1>4. workers'[w] # workers[w]
    BY DEF Queue!Owner, Queue!Task
  <1>5. ASSUME NEW v \in Workers, v # w, Claims(v) \/ Handles(v) \/ WorkerDies(v)
        PROVE  workers'[w] = workers[w]
    BY <1>1, <1>5, HandlesFrame DEF Claims, WorkerDies, OtherWorkers, Queue!Claim
  <1>6. Claims(w)
    BY <1>2, <1>3, <1>4, <1>5, QueueSteps, RetrySteps DEF Sweeps, ClickEnqueues, Queue!Sweep
  <1>7. PICK u \in Tasks :
          /\ tasks[u].state = "pending"
          /\ tasks' = [tasks EXCEPT ![u].state = "claimed", ![u].lease = "live"]
          /\ workers' = [workers EXCEPT ![w] = [Queue!Idle EXCEPT !.pc = "claimed", !.task = u]]
    BY <1>6 DEF Claims, Queue!Claim, Queue!Claimable, Queue!State
  <1>8. u = t
    BY <1>1, <1>7 DEF Queue!Owner, Queue!Task, Queue!Idle
  <1>9. QED
    BY <1>1, <1>7, <1>8 DEF OtherWorkers

(* The operator's own steps aside, nobody touches a retry in hand. *)
LEMMA RetryInHand ==
    ASSUME Base, [Next]_vars, ~Environment
    PROVE  Retrying' = Retrying
  <1>1. ASSUME NEW w \in Workers, Claims(w) \/ Handles(w) \/ WorkerDies(w)
        PROVE  Retrying' = Retrying
    BY <1>1, HandlesFrame DEF Claims, WorkerDies, Queue!Claim, Retrying
  <1>2. Sweeps => Retrying' = Retrying
    <2>1. ASSUME NEW w \in Workers, Queue!Sweep(w) PROVE Retrying' = Retrying
      BY <2>1 DEF Queue!Sweep, Retrying
    <2>2. QED
      BY <2>1 DEF Sweeps
  <1>3. ASSUME NEW c \in Clicks, ClickEnqueues(c) PROVE Retrying' = Retrying
    BY <1>3, RequestsLeaveRetry
  <1>4. QED
    BY <1>1, <1>2, <1>3, QueueSteps

LEMMA ResumesHeldStep ==
    ASSUME Base, PunctualWorkers, ResumesHeld, RetryOfResume, [Next]_vars
    PROVE  ResumesHeld' /\ RetryOfResume'
  <1>1. /\ tasks \in [Tasks -> [state : Queue!TaskStates, lease : {"none", "live", "lapsed"},
                                attempts : 0 .. AttemptsCap]]
        /\ workers \in [Workers -> [pc : Queue!PCs, task : Tasks, verdict : Queue!RunStates]]
        /\ Retrying \in [pc : AskingPCs, task : Tasks, run : Queue!RunStates]
        /\ Queue!Resumes \subseteq Tasks
    BY Types DEF Queue!Resumes
  <1>2. ASSUME NEW w \in Workers, NEW r \in Queue!Resumes, Queue!Owner(w, r)',
               Queue!Owner(w, r)
        PROVE  tasks'[r].state \in Queue!Leased /\ tasks'[r].lease = "live"
    <2>1. tasks[r].state \in {"claimed", "running"} /\ tasks[r].lease = "live"
      BY <1>2 DEF ResumesHeld, Queue!Leased
    <2>2. CASE tasks'[r] = tasks[r]
      BY <2>1, <2>2 DEF Queue!Leased
    <2>3. CASE Handles(w)
      <3>1. TaskMoves(w) /\ workers[w].task = r /\ r \in Tasks
        BY <1>1, <1>2, <2>3, HandlesMoves DEF Queue!Owner, Queue!Task
      <3>2. workers'[w].pc \in {"checking", "refused", "admitted", "handling", "released",
                                  "raising", "failing"}
            \/ workers'[w].pc \in {"claimed"}
        BY <1>2 DEF Queue!Owner, Queue!PCs
      <3>3. \A u \in Releases[r] : u # r
        BY <3>1, Assumed DEF Queue!ResumesAssumption
      <3>4. tasks' = tasks \/ tasks' = [tasks EXCEPT ![r].state = "running"]
            \/ \E u \in Releases[r], state \in {"done", "failed"} : tasks' = [tasks EXCEPT ![u].state = state]
        BY <3>1, <3>2 DEF TaskMoves, Goes
      <3>5. QED
        BY <1>1, <2>1, <3>1, <3>3, <3>4 DEF Queue!Leased
    <2>4. QED
      BY <1>2, <2>1, <2>2, <2>3, ResumeRows DEF ResumesHeld
  <1>3. ASSUME NEW w \in Workers, NEW r \in Queue!Resumes, Queue!Owner(w, r)',
               ~Queue!Owner(w, r)
        PROVE  /\ tasks[r].state = "pending" /\ tasks'[r].state = "claimed"
               /\ tasks'[r].lease = "live" /\ OtherWorkers(w)
    BY <1>1, <1>3, NewOwner
  <1>4. ASSUME NEW w \in Workers, NEW v \in Workers, NEW r \in Queue!Resumes,
               Queue!Owner(w, r)', Queue!Owner(v, r)', v # w
        PROVE  FALSE
    <2>1. CASE Queue!Owner(w, r) /\ Queue!Owner(v, r)
      BY <1>4, <2>1 DEF ResumesHeld
    <2>2. CASE ~Queue!Owner(w, r) /\ ~Queue!Owner(v, r)
      <3>1. workers'[v] = workers[v]
        BY <1>3, <1>4, <2>2 DEF OtherWorkers
      <3>2. QED
        BY <1>4, <2>2, <3>1 DEF Queue!Owner, Queue!Task
    <2>3. CASE Queue!Owner(w, r) /\ ~Queue!Owner(v, r)
      BY <1>3, <1>4, <2>3 DEF ResumesHeld, Queue!Leased
    <2>4. CASE ~Queue!Owner(w, r) /\ Queue!Owner(v, r)
      BY <1>3, <1>4, <2>4 DEF ResumesHeld, Queue!Leased
    <2>5. QED
      BY <2>1, <2>2, <2>3, <2>4
  <1>5. ResumesHeld'
    <2>1. ASSUME NEW r \in Queue!Resumes, NEW w \in Workers, Queue!Owner(w, r)'
          PROVE  tasks'[r].state \in Queue!Leased /\ tasks'[r].lease = "live"
      BY <1>2, <1>3, <2>1 DEF Queue!Leased
    <2>2. QED
      BY <1>4, <2>1 DEF ResumesHeld
  <1>6. RetryOfResume'
    <2> SUFFICES ASSUME Retrying'.pc = "retrying", Retrying'.task \in Queue!Resumes
                 PROVE  tasks'[Retrying'.task].state \in {"done", "failed"}
      BY DEF RetryOfResume
    <2>1. CASE Environment
      <3>1. Queue!NoRetry.pc # "retrying"
        BY DEF Queue!NoRetry
      <3>2. CASE Queue!LeaseLapses /\ Retrying' = Retrying
        BY <1>1, <3>2 DEF Queue!LeaseLapses, RetryOfResume
      <3>3. QED
        BY <2>1, <3>1, <3>2, RetrySteps
    <2>2. CASE ~Environment
      <3>1. Retrying' = Retrying
        BY <2>2, RetryInHand
      <3>2. tasks[Retrying.task].state \in {"done", "failed"} /\ Retrying.task \in Queue!Resumes
            /\ Retrying.pc = "retrying"
        BY <3>1 DEF RetryOfResume
      <3>3. \A w \in Workers : ~Queue!Owner(w, Retrying.task)
        BY <3>2 DEF ResumesHeld, Queue!Leased
      <3>4. Retrying' # Queue!NoRetry
        BY <3>1, <3>2 DEF Queue!NoRetry
      <3>5. tasks'[Retrying.task].state = tasks[Retrying.task].state
        BY <3>2, <3>3, <3>4, ResumeRows
      <3>6. QED
        BY <3>1, <3>2, <3>5
    <2>3. QED
      BY <2>1, <2>2
  <1>7. QED
    BY <1>5, <1>6

Carries(r, k) == r \in Queue!Resumes /\ k \in ActionOf[r] /\ tasks[r].state # "absent"

(* One `resume` task carries a decision, and none yet while the request that
   made it is still to write one. *)
CarriedOnce ==
    \A k \in Keys : rows[k].state = "awaiting_approval" =>
        /\ \A q, r \in Tasks : Carries(q, k) /\ Carries(r, k) => q = r
        /\ \A c \in Clicks : sessions[c].pc = "returned" /\ sessions[c].key = k =>
              \A r \in Tasks : ~Carries(r, k)

(* Only the session that inserted a row makes it wait for an approval. *)
LEMMA Parked ==
    ASSUME Base, NEW s \in Sessions, Works(s), NEW k \in Keys,
           rows[k].state # "awaiting_approval", rows'[k].state = "awaiting_approval"
    PROVE  sessions[s].key = k /\ sessions[s].pc = "inserted" /\ rows[k].state = "pending"
  <1>1. sessions[s].key = k
    BY DEF Works
  <1>2. sessions[s].pc = "inserted"
    BY <1>1 DEF Works, GateP!Moves, GateP!Leaves, GateP!At, GateP!Key
  <1>3. QED
    BY <1>1, <1>2, Licences

LEMMA CarriedOnceStep ==
    ASSUME PatientOperator, PatientInv, CarriedOnce, [Next]_vars
    PROVE  CarriedOnce'
  <1>1. /\ sessions \in [Sessions -> Gate!Calls] /\ rows \in [Keys -> Gate!Rows]
        /\ Workers \subseteq Sessions /\ Clicks \subseteq Sessions
        /\ Workers \cap Clicks = {} /\ \A s \in Sessions : sessions[s].key \in Keys
        /\ Queue!Resumes \subseteq Tasks /\ ActionOf \in [Tasks -> SUBSET Keys]
        /\ ResumeOf \in [Clicks -> Queue!Resumes]
        /\ Base
    BY Types, AgencyAssumption DEF PatientInv, Queue!Resumes
  <1> SUFFICES ASSUME NEW k \in Keys, rows'[k].state = "awaiting_approval"
               PROVE  /\ \A q, r \in Tasks : Carries(q, k)' /\ Carries(r, k)' => q = r
                      /\ \A c \in Clicks : sessions'[c].pc = "returned" /\ sessions'[c].key = k =>
                            \A r \in Tasks : ~Carries(r, k)'
    BY DEF CarriedOnce
  <1>2. ASSUME NEW r \in Tasks, Carries(r, k)', ~Carries(r, k)
        PROVE  \E c \in Clicks : /\ ClickEnqueues(c) /\ r = ResumeOf[c]
                                 /\ sessions[c].pc = "returned" /\ sessions[c].key = k
                                 /\ sessions'[c].pc = "idle"
    <2>1. r \in Queue!Resumes /\ k \in ActionOf[r] /\ tasks[r].state = "absent"
          /\ tasks'[r].state # "absent"
      BY <1>2 DEF Carries
    <2>2. PICK c \in Clicks : ClickEnqueues(c) /\ r = ResumeOf[c]
      BY <1>1, <2>1, TasksStay
    <2>3. sessions[c].pc = "returned" /\ sessions[c].key \in ActionOf[r] /\ sessions'[c].pc = "idle"
      BY <1>1, <2>2 DEF ClickEnqueues, Gate!Finish, Gate!At, Base, ClickCall, Gate!IdleCall
    <2>4. sessions[c].key = k
      BY <2>1, <2>3, AgencyAssumption
    <2>5. QED
      BY <2>2, <2>3, <2>4
  <1>3. ASSUME NEW r \in Tasks, Carries(r, k)
        PROVE  /\ rows[k].decision # "none" \/ rows[k].state # "awaiting_approval"
               /\ rows[k].state # "pending"
    <2>1. Decided(k)
      BY <1>3 DEF Carries, PatientInv, Base, ResumesDecided
    <2>2. QED
      BY <1>1, <2>1, RowFacts DEF Decided, Gate!Resumable, Gate!InFlight, Gate!TerminalStates
  <1>4. CASE rows[k].state # "awaiting_approval"
    <2>1. PICK s \in Sessions : Works(s)
      BY <1>1, <1>4, SessionSteps DEF RequestBegins, StageBegins, ResumeBegins, PassBegins,
         Redrives,
         Begins, Untouched, Ends
    <2>2. rows[k].state = "pending"
      BY <1>1, <1>4, <2>1, Parked
    <2>3. tasks' = tasks
      BY <2>1 DEF Works
    <2>4. \A r \in Tasks : ~Carries(r, k)'
      BY <1>3, <2>2, <2>3 DEF Carries
    <2>5. QED
      BY <2>4
  <1>5. CASE rows[k].state = "awaiting_approval"
    <2>1. ASSUME NEW q \in Tasks, NEW r \in Tasks, Carries(q, k)', Carries(r, k)'
          PROVE  q = r
      <3>1. CASE Carries(q, k) /\ Carries(r, k)
        BY <1>5, <3>1 DEF CarriedOnce
      <3>2. CASE ~Carries(q, k) /\ Carries(r, k)
        BY <1>2, <1>5, <2>1, <3>2 DEF CarriedOnce
      <3>3. CASE Carries(q, k) /\ ~Carries(r, k)
        BY <1>2, <1>5, <2>1, <3>3 DEF CarriedOnce
      <3>4. CASE ~Carries(q, k) /\ ~Carries(r, k)
        <4>1. PICK c \in Clicks : q = ResumeOf[c] /\ sessions[c].pc = "returned"
          BY <1>2, <2>1, <3>4
        <4>2. PICK d \in Clicks : r = ResumeOf[d] /\ sessions[d].pc = "returned"
          BY <1>2, <2>1, <3>4
        <4>3. c = d
          BY <4>1, <4>2 DEF PatientInv, OneClick
        <4>4. QED
          BY <4>1, <4>2, <4>3
      <3>5. QED
        BY <3>1, <3>2, <3>3, <3>4
    <2>2. ASSUME NEW c \in Clicks, sessions'[c].pc = "returned", sessions'[c].key = k,
                 NEW r \in Tasks, Carries(r, k)'
          PROVE  FALSE
      <3>1. CASE sessions'[c] = sessions[c]
        <4>1. ~Carries(r, k)
          BY <1>5, <2>2, <3>1 DEF CarriedOnce
        <4>2. PICK d \in Clicks : sessions[d].pc = "returned" /\ sessions'[d].pc = "idle"
          BY <1>2, <2>2, <4>1
        <4>3. c = d
          BY <2>2, <3>1, <4>2 DEF PatientInv, OneClick
        <4>4. QED
          BY <2>2, <4>2, <4>3
      <3>2. CASE Works(c)
        <4>1. sessions[c].key = k /\ sessions[c].pc \in {"record_approval", "deny", "reverify"}
              /\ tasks' = tasks
          BY <2>2, <3>2 DEF Works, PatientInv, Base, ClickCall
        <4>2. sessions[c].pc # "reverify"
          BY <1>1, <1>5, <4>1, Licences DEF Gate!InFlight, Gate!TerminalStates
        <4>3. rows[k].decision = "none"
          BY <4>1, <4>2 DEF PatientInv, Deciding
        <4>4. Carries(r, k)
          BY <2>2, <4>1 DEF Carries
        <4>5. QED
          BY <1>3, <1>5, <4>3, <4>4
      <3>3. ~Ends(c) /\ ~RequestBegins(c)
        BY <1>1, <2>2 DEF Ends, Gate!IdleCall, RequestBegins, Begins
      <3>4. ASSUME NEW s \in Sessions, s # c, Works(s) \/ Ends(s) \/ RequestBegins(s)
                        \/ StageBegins(s) \/ ResumeBegins(s) \/ PassBegins(s)
            PROVE  sessions'[c] = sessions[c]
        BY <1>1, <3>4 DEF Works, Ends, RequestBegins, StageBegins, ResumeBegins, PassBegins,
           Redrives, Begins, Others
      <3>5. QED
        BY <1>1, <3>1, <3>2, <3>3, <3>4, SessionSteps
    <2>3. QED
      BY <2>1, <2>2
  <1>6. QED
    BY <1>4, <1>5

-----------------------------------------------------------------------------

RunsAwaiting(s) == sessions[s].pc = "run" /\ sessions[s].state = "awaiting_approval"

(* An approved action has one driver, which finds it not executed. *)
DrivenOnce ==
    /\ \A s \in Sessions : RunsAwaiting(s) => rows[sessions[s].key].state = "awaiting_approval"
    /\ \A s \in Sessions : sessions[s].pc = "execute" /\ sessions[s].key \in ApprovalKeys =>
          /\ effects[sessions[s].key] = 0
          /\ \A t \in Sessions : sessions[t].pc = "execute" /\ sessions[t].key = sessions[s].key
                => t = s
    /\ \A k \in Keys : rows[k].state = "awaiting_approval" => effects[k] = 0

OnceInv == PatientInv /\ ResumesHeld /\ RetryOfResume /\ CarriedOnce /\ DrivenOnce

LEMMA OneDriver ==
    ASSUME OnceInv, NEW s \in Sessions, NEW t \in Sessions,
           RunsAwaiting(s), RunsAwaiting(t), sessions[s].key = sessions[t].key
    PROVE  s = t
  <1>1. /\ workers \in [Workers -> [pc : Queue!PCs, task : Tasks, verdict : Queue!RunStates]]
        /\ Base /\ \A u \in Sessions : sessions[u].key \in Keys
    BY Types DEF OnceInv, PatientInv
  <1>2. ASSUME NEW u \in Sessions, RunsAwaiting(u)
        PROVE  /\ u \in Workers /\ Queue!Owner(u, workers[u].task)
               /\ Carries(workers[u].task, sessions[u].key) /\ workers[u].task \in Tasks
               /\ rows[sessions[u].key].state = "awaiting_approval"
    <2>1. u \in Workers
      BY <1>2 DEF Sessions, OnceInv, PatientInv, Base, ClickCall, RunsAwaiting
    <2>2. InResumeCall(u)
      BY <1>2, <2>1 DEF OnceInv, PatientInv, WorkerCalls, WorkerCall, InPassCall, InStageCall,
         RunsAwaiting, Gate!InFlight
    <2>3. QED
      BY <1>1, <1>2, <2>1, <2>2 DEF InResumeCall, Queue!Owner, Queue!Task, Queue!PCs, Carries,
         Base, HeldTasksExist, OnceInv, DrivenOnce
  <1>3. workers[s].task = workers[t].task
    BY <1>1, <1>2 DEF OnceInv, CarriedOnce
  <1>4. QED
    BY <1>2, <1>3 DEF OnceInv, ResumesHeld, Carries

(* A decided row that waits is moved by its driver only. *)
LEMMA Driven ==
    ASSUME PatientInv, NEW s \in Sessions, Works(s), NEW k \in Keys,
           rows[k].state = "awaiting_approval", rows[k].decision # "none",
           rows'[k].state # "awaiting_approval"
    PROVE  sessions[s].key = k /\ RunsAwaiting(s)
  <1>1. sessions[s].key = k /\ Base
    BY DEF Works, PatientInv
  <1>2. Gate!InFlight \cup Gate!TerminalStates =
           {"executing", "verifying", "succeeded", "failed", "denied"}
    BY DEF Gate!InFlight, Gate!TerminalStates
  <1>3. sessions[s].pc # "deny"
    BY <1>1 DEF PatientInv, Deciding, Sessions, WorkerCalls, WorkerCall, InPassCall, InResumeCall,
       InStageCall, Driving
  <1>4. sessions[s].pc = "run" /\ sessions[s].state = "awaiting_approval"
    BY <1>1, <1>2, <1>3, Licences
    DEF Works, GateP!Moves, GateP!Leaves, GateP!At, GateP!Key, GateP!Copy
  <1>5. QED
    BY <1>1, <1>4 DEF RunsAwaiting

LEMMA DrivenOnceStep ==
    ASSUME OnceInv, [Next]_vars
    PROVE  DrivenOnce'
  <1>1. /\ sessions \in [Sessions -> Gate!Calls] /\ rows \in [Keys -> Gate!Rows]
        /\ effects \in [Keys -> Nat]
        /\ Workers \subseteq Sessions /\ Clicks \subseteq Sessions
        /\ Workers \cap Clicks = {} /\ \A s \in Sessions : sessions[s].key \in Keys
        /\ Base /\ PatientInv /\ DrivenOnce
        /\ Gate!InFlight \cup Gate!TerminalStates =
             {"executing", "verifying", "succeeded", "failed", "denied"}
    BY Types, AgencyAssumption DEF PatientInv, OnceInv, Gate!InFlight, Gate!TerminalStates
  <1>2. ASSUME NEW s \in Sessions, NEW t \in Sessions, s # t, Works(s) \/ Ends(s) \/ RequestBegins(s)
                    \/ StageBegins(s) \/ ResumeBegins(s) \/ PassBegins(s)
        PROVE  sessions'[t] = sessions[t]
    BY <1>1, <1>2 DEF Works, Ends, RequestBegins, StageBegins, ResumeBegins, PassBegins,
       Redrives, Begins, Others
  <1>3. ASSUME NEW s \in Sessions, Ends(s) \/ RequestBegins(s)
                    \/ StageBegins(s) \/ ResumeBegins(s) \/ PassBegins(s)
        PROVE  rows' = rows /\ effects' = effects
    BY <1>3 DEF Ends, RequestBegins, StageBegins, ResumeBegins, PassBegins, Redrives, Begins,
       Untouched
  <1>4. ASSUME NEW s \in Sessions, RunsAwaiting(s)'
        PROVE  rows'[sessions'[s].key].state = "awaiting_approval"
    <2>1. CASE sessions'[s] = sessions[s]
      <3>1. RunsAwaiting(s) /\ sessions[s].key \in Keys
        BY <1>1, <1>4, <2>1 DEF RunsAwaiting
      <3>2. rows[sessions[s].key].state = "awaiting_approval" /\ rows[sessions[s].key].decision # "none"
        BY <1>1, <3>1, Licences DEF DrivenOnce, RunsAwaiting
      <3>3. ASSUME NEW t \in Sessions, Works(t) PROVE rows'[sessions[s].key].state = "awaiting_approval"
        <4>1. t # s
          BY <2>1, <3>1, <3>3 DEF Works, GateP!Moves, GateP!Leaves, GateP!At, RunsAwaiting
        <4>2. QED
          BY <1>1, <3>1, <3>2, <3>3, <4>1, Driven, OneDriver
      <3>4. QED
        BY <1>1, <1>3, <2>1, <3>2, <3>3, SessionSteps
    <2>2. CASE Works(s)
      <3>1. sessions'[s].pc = "run" /\ sessions'[s].state = "awaiting_approval"
        BY <1>4 DEF RunsAwaiting
      <3>2. sessions[s].pc \in {"inserted", "approve"}
        BY <2>2, <3>1 DEF Works, GateP!Moves, GateP!Leaves, GateP!At
      <3>3. sessions[s].pc # "approve"
        BY <1>1 DEF PatientInv, Sessions, WorkerCalls, WorkerCall, InPassCall, InResumeCall,
           InStageCall, Driving, Base, ClickCall
      <3>4. sessions'[s].state = sessions[s].state
        BY <2>2, <3>1, <3>2, <3>3 DEF Works, GateP!Moves, GateP!Leaves, GateP!At, GateP!Copy
      <3>5. QED
        BY <1>1, <3>1, <3>2, <3>3, <3>4, Licences
    <2>3. CASE RequestBegins(s) \/ StageBegins(s) \/ ResumeBegins(s) \/ PassBegins(s)
      BY <1>4, <2>3 DEF RequestBegins, StageBegins, ResumeBegins, PassBegins, Redrives, Begins,
         Untouched, RunsAwaiting
    <2>4. ~Ends(s)
      BY <1>1, <1>4 DEF Ends, Gate!IdleCall, RunsAwaiting
    <2>5. QED
      BY <1>1, <1>2, <2>1, <2>2, <2>3, <2>4, SessionSteps
  <1>5. ASSUME NEW s \in Sessions, sessions'[s].pc = "execute", sessions'[s] # sessions[s],
               sessions'[s].key \in ApprovalKeys
        PROVE  /\ Works(s) /\ RunsAwaiting(s) /\ sessions'[s].key = sessions[s].key
               /\ rows[sessions[s].key].state = "awaiting_approval"
    <2>1. ~(RequestBegins(s) \/ StageBegins(s) \/ ResumeBegins(s) \/ PassBegins(s))
      BY <1>5 DEF RequestBegins, StageBegins, ResumeBegins, PassBegins, Redrives, Begins
    <2>2. ~Ends(s)
      BY <1>1, <1>5 DEF Ends, Gate!IdleCall
    <2>3. Works(s)
      BY <1>1, <1>2, <1>5, <2>1, <2>2, SessionSteps
    <2>4. sessions'[s].key = sessions[s].key
      BY <2>3 DEF Works
    <2>5. sessions[s].pc = "run" /\ sessions[s].state \in {"pending", "awaiting_approval"}
      BY <1>5, <2>3 DEF Works, GateP!Moves, GateP!Leaves, GateP!At, GateP!Copy
    <2>6. RunsAwaiting(s)
      BY <1>1, <1>5, <2>4, <2>5, Licences DEF RunsAwaiting
    <2>7. QED
      BY <1>1, <2>3, <2>4, <2>6 DEF DrivenOnce
  <1>6. ASSUME NEW k \in Keys, effects'[k] # effects[k]
        PROVE  \E s \in Sessions : Works(s) /\ sessions[s].key = k /\ sessions[s].pc = "execute"
                                   /\ sessions'[s].pc = "executed"
    BY <1>1, <1>3, <1>6, SessionSteps DEF Works
  <1>7. ASSUME NEW s \in Sessions, sessions'[s].pc = "execute", sessions'[s].key \in ApprovalKeys
        PROVE  /\ effects'[sessions'[s].key] = 0
               /\ \A t \in Sessions : sessions'[t].pc = "execute" /\ sessions'[t].key = sessions'[s].key
                     => t = s
    <2>1. ASSUME NEW u \in Sessions, sessions[u].pc = "execute"
          PROVE  rows[sessions[u].key].state # "awaiting_approval"
      BY <1>1, <2>1, Licences
    <2>2. CASE sessions'[s] # sessions[s]
      <3>1. /\ Works(s) /\ sessions'[s].key = sessions[s].key
            /\ rows[sessions[s].key].state = "awaiting_approval"
            /\ sessions[s].key \in Keys
        BY <1>1, <1>5, <1>7, <2>2
      <3>2. effects'[sessions[s].key] = effects[sessions[s].key]
        BY <1>6, <2>1, <3>1
      <3>3. effects[sessions[s].key] = 0
        BY <1>1, <3>1 DEF DrivenOnce
      <3>4. ASSUME NEW t \in Sessions, t # s, sessions'[t].pc = "execute",
                   sessions'[t].key = sessions'[s].key
            PROVE  FALSE
        BY <1>2, <2>1, <3>1, <3>4
      <3>5. QED
        BY <3>1, <3>2, <3>3, <3>4
    <2>3. CASE sessions'[s] = sessions[s]
      <3>1. sessions[s].pc = "execute" /\ sessions[s].key \in ApprovalKeys /\ sessions[s].key \in Keys
        BY <1>1, <1>7, <2>3
      <3>2. /\ effects[sessions[s].key] = 0
            /\ \A t \in Sessions : sessions[t].pc = "execute" /\ sessions[t].key = sessions[s].key
                  => t = s
        BY <1>1, <3>1 DEF DrivenOnce
      <3>3. effects'[sessions[s].key] = effects[sessions[s].key]
        BY <1>6, <2>3, <3>1, <3>2
      <3>4. ASSUME NEW t \in Sessions, t # s, sessions'[t].pc = "execute",
                   sessions'[t].key = sessions'[s].key
            PROVE  FALSE
        <4>1. CASE sessions'[t] = sessions[t]
          BY <2>3, <3>2, <3>4, <4>1
        <4>2. CASE sessions'[t] # sessions[t]
          BY <1>5, <2>1, <2>3, <3>1, <3>4, <4>2
        <4>3. QED
          BY <4>1, <4>2
      <3>5. QED
        BY <2>3, <3>2, <3>3, <3>4
    <2>4. QED
      BY <2>2, <2>3
  <1>8. ASSUME NEW k \in Keys, rows'[k].state = "awaiting_approval"
        PROVE  effects'[k] = 0
    <2>1. CASE rows[k].state = "awaiting_approval"
      <3>1. effects[k] = 0
        BY <1>1, <2>1 DEF DrivenOnce
      <3>2. effects'[k] = effects[k]
        BY <1>1, <1>6, <2>1, Licences
      <3>3. QED
        BY <3>1, <3>2
    <2>2. CASE rows[k].state # "awaiting_approval"
      <3>1. PICK s \in Sessions : Works(s)
        BY <1>1, <1>3, <1>8, <2>2, SessionSteps
      <3>2. sessions[s].key = k /\ sessions[s].pc = "inserted" /\ rows[k].state = "pending"
        BY <1>1, <1>8, <2>2, <3>1, Parked
      <3>3. effects[k] = 0 /\ effects' = effects
        BY <1>1, <3>1, <3>2, RowFacts DEF Works
      <3>4. QED
        BY <3>3
    <2>3. QED
      BY <2>1, <2>2
  <1>9. QED
    BY <1>4, <1>7, <1>8 DEF DrivenOnce

(* With punctual workers and an operator who makes one request at a time, an
   action reaches the world once, whoever drives it and whoever dies. *)
THEOREM OnceSafe ==
    ASSUME PatientOperator, PunctualWorkers
    PROVE  Spec => []EffectAtMostOnce
  <1>1. Init => OnceInv /\ EffectAtMostOnce
    <2> SUFFICES ASSUME Init PROVE OnceInv /\ EffectAtMostOnce
      OBVIOUS
    <2>1. PatientInv
      BY PatientStep
    <2>2. ResumesHeld /\ RetryOfResume
      BY DEF Init, Queue!Init, Queue!Idle, Queue!NoRetry, ResumesHeld, RetryOfResume, Queue!Owner,
         Retrying
    <2>3. CarriedOnce /\ DrivenOnce /\ EffectAtMostOnce
      BY DEF Init, Gate!Init, Gate!NoRow, Gate!IdleCall, CarriedOnce, DrivenOnce, RunsAwaiting,
         EffectAtMostOnce, Sessions
    <2>4. QED
      BY <2>1, <2>2, <2>3 DEF OnceInv
  <1>2. OnceInv /\ [Next]_vars => OnceInv'
    BY PatientStep, ResumesHeldStep, CarriedOnceStep, DrivenOnceStep DEF OnceInv, PatientInv
  <1>3. OnceInv /\ EffectAtMostOnce /\ [Next]_vars => EffectAtMostOnce'
    <2> SUFFICES ASSUME OnceInv, EffectAtMostOnce, [Next]_vars, NEW k \in Keys
                 PROVE  effects'[k] <= 1
      BY DEF EffectAtMostOnce
    <2>1. effects \in [Keys -> Nat] /\ Base /\ effects[k] <= 1
      BY Types DEF OnceInv, PatientInv, EffectAtMostOnce
    <2>2. ASSUME NEW s \in Sessions, Works(s), sessions[s].pc = "execute", sessions[s].key = k
          PROVE  effects[k] = 0
      <3>1. CASE k \in ApprovalKeys
        BY <2>2, <3>1 DEF OnceInv, DrivenOnce
      <3>2. CASE k \notin ApprovalKeys
        BY <2>1, <2>2, <3>2 DEF Base, GateP!Inv, GateP!HolderIsFirst, GateP!Holder, GateP!At,
           GateP!Key,
           Sessions
      <3>3. QED
        BY <3>1, <3>2
    <2>3. CASE effects' = effects
      BY <2>1, <2>3
    <2>4. ASSUME NEW s \in Sessions, Works(s) PROVE effects'[k] <= 1
      <3>1. CASE sessions[s].pc = "execute" /\ sessions'[s].pc = "executed" /\ sessions[s].key = k
        <4>1. effects' = [effects EXCEPT ![k] = @ + 1] /\ effects[k] = 0
          BY <2>2, <2>4, <3>1 DEF Works
        <4>2. QED
          BY <2>1, <4>1
      <3>2. CASE ~(sessions[s].pc = "execute" /\ sessions'[s].pc = "executed" /\ sessions[s].key = k)
        <4>1. effects'[k] = effects[k]
          BY <2>1, <2>4, <3>2 DEF Works
        <4>2. QED
          BY <2>1, <4>1
      <3>3. QED
        BY <3>1, <3>2
    <2>5. QED
      BY <2>1, <2>3, <2>4, SessionSteps DEF Ends, RequestBegins, StageBegins, ResumeBegins,
         PassBegins, Redrives, Begins, Untouched
  <1>4. QED
    BY <1>1, <1>2, <1>3, PTL DEF Spec

-----------------------------------------------------------------------------
(* A verdict is not taken back. *)

OneWorker == \A v, w \in Workers : v = w

(* Nobody drives an action that has its verdict; only a failed one is re-opened. *)
VerdictsRest ==
    \A s \in Sessions :
        /\ sessions[s].pc \in Driving => rows[sessions[s].key].state \notin Gate!TerminalStates
        /\ sessions[s].pc = "reverify" => rows[sessions[s].key].state = "failed"

EvidenceStands == \A k \in Keys : rows[k].evidence => rows[k].state = "succeeded"

RestInv == PatientInv /\ VerdictsRest /\ EvidenceStands

(* What a step may make of a row that has its verdict. *)
LEMMA VerdictRows ==
    ASSUME RestInv, NEW s \in Sessions, Works(s), NEW k \in Keys,
           rows[k].state \in {"succeeded", "denied", "failed"}, rows'[k] # rows[k]
    PROVE  \/ rows'[k].state = rows[k].state /\ rows'[k].evidence = rows[k].evidence
           \/ s \in Clicks /\ sessions[s].pc = "reverify" /\ rows[k].state = "failed"
  <1>1. sessions[s].key = k /\ Base /\ s \in Sessions
    BY DEF Works, RestInv, PatientInv
  <1>2. rows[k].state \in Gate!TerminalStates
    BY DEF Gate!TerminalStates
  <1>3. sessions[s].pc \notin Driving \cup {"inserted", "record_approval", "deny"}
    <2>1. sessions[s].pc \notin Driving \cup {"inserted"}
      BY <1>1, <1>2, Licences DEF RestInv, VerdictsRest
    <2>2. ASSUME s \in Clicks PROVE sessions[s].pc \notin {"record_approval", "deny"}
      BY <1>1, <2>2 DEF RestInv, PatientInv, Deciding
    <2>3. ASSUME s \in Workers PROVE sessions[s].pc \notin {"record_approval", "deny"}
      BY <2>3 DEF RestInv, PatientInv, WorkerCalls, WorkerCall, InPassCall, InResumeCall,
         InStageCall,
         Driving
    <2>4. QED
      BY <2>1, <2>2, <2>3 DEF Sessions
  <1>4. sessions[s].pc # "approve"
    BY DEF RestInv, PatientInv, Sessions, WorkerCalls, WorkerCall, InPassCall, InResumeCall,
       InStageCall, Driving, Base, ClickCall
  <1>5. sessions[s].pc = "reverify" => s \in Clicks /\ rows[k].state = "failed"
    BY <1>1 DEF RestInv, PatientInv, Sessions, WorkerCalls, WorkerCall, InPassCall, InResumeCall,
       InStageCall, Driving, VerdictsRest
  <1>6. QED
    BY <1>1, <1>3, <1>4, <1>5 DEF Works, GateP!Moves, GateP!Leaves, GateP!At, GateP!Key, Driving

LEMMA VerdictsRestStep ==
    ASSUME OneWorker, RestInv, PatientInv', [Next]_vars
    PROVE  VerdictsRest' /\ EvidenceStands'
  <1>1. /\ sessions \in [Sessions -> Gate!Calls] /\ rows \in [Keys -> Gate!Rows]
        /\ Workers \subseteq Sessions /\ Clicks \subseteq Sessions
        /\ Workers \cap Clicks = {} /\ \A s \in Sessions : sessions[s].key \in Keys
        /\ Base /\ PatientInv
        /\ Gate!TerminalStates = {"succeeded", "denied", "failed"}
        /\ Gate!InFlight = {"executing", "verifying"}
    BY Types, AgencyAssumption DEF PatientInv, RestInv, Gate!TerminalStates, Gate!InFlight
  <1>2. ASSUME NEW s \in Sessions, NEW t \in Sessions, s # t, Works(s) \/ Ends(s) \/ RequestBegins(s)
                    \/ StageBegins(s) \/ ResumeBegins(s) \/ PassBegins(s)
        PROVE  sessions'[t] = sessions[t]
    BY <1>1, <1>2 DEF Works, Ends, RequestBegins, StageBegins, ResumeBegins, PassBegins,
       Redrives, Begins, Others
  <1>3. ASSUME NEW s \in Sessions, Ends(s) \/ RequestBegins(s)
                    \/ StageBegins(s) \/ ResumeBegins(s) \/ PassBegins(s)
        PROVE  rows' = rows
    BY <1>3 DEF Ends, RequestBegins, StageBegins, ResumeBegins, PassBegins, Redrives, Begins,
       Untouched
  <1>4. EvidenceStands'
    <2> SUFFICES ASSUME NEW k \in Keys, rows'[k].evidence PROVE rows'[k].state = "succeeded"
      BY DEF EvidenceStands
    <2>1. CASE rows'[k] = rows[k]
      BY <2>1 DEF RestInv, EvidenceStands
    <2>2. ASSUME NEW s \in Sessions, Works(s), rows'[k] # rows[k]
          PROVE  rows'[k].state = "succeeded"
      <3>1. CASE rows[k].evidence
        <4>1. rows[k].state = "succeeded"
          BY <3>1 DEF RestInv, EvidenceStands
        <4>2. QED
          BY <2>2, <4>1, VerdictRows
      <3>2. CASE ~rows[k].evidence
        BY <2>2, <3>2 DEF Works, GateP!Moves, GateP!Leaves, GateP!Key
      <3>3. QED
        BY <3>1, <3>2
    <2>3. QED
      BY <1>1, <1>3, <2>1, <2>2, SessionSteps
  <1>5. ASSUME NEW s \in Sessions, sessions'[s].pc \in Driving \cup {"reverify"},
               sessions'[s] = sessions[s], NEW t \in Sessions, t # s, Works(t)
        PROVE  /\ sessions'[s].pc \in Driving => rows'[sessions'[s].key].state \notin Gate!TerminalStates
               /\ sessions'[s].pc = "reverify" => rows'[sessions'[s].key].state = "failed"
    <2> DEFINE k == sessions[s].key
    <2>1. k \in Keys /\ sessions'[s].key = k
      BY <1>1, <1>5
    <2>2. CASE sessions[t].key # k
      BY <1>1, <1>5, <2>1, <2>2 DEF Works, RestInv, VerdictsRest
    <2>3. CASE sessions[t].key = k /\ t \in Workers
      <3>1. s \in Clicks /\ sessions[s].pc = "reverify"
        BY <1>1, <1>5, <2>3 DEF OneWorker, Sessions, Base, ClickCall, Driving
      <3>2. rows[k].state = "failed"
        BY <1>1, <3>1 DEF RestInv, VerdictsRest
      <3>3. rows'[k].state = "failed"
        BY <1>1, <1>5, <2>1, <2>3, <3>2, VerdictRows
      <3>4. QED
        BY <2>1, <1>5, <3>1, <3>3 DEF Driving
    <2>4. CASE sessions[t].key = k /\ t \in Clicks
      <3>1. s \in Workers /\ sessions[s].pc \in Driving
        BY <1>1, <1>5, <2>4 DEF PatientInv, OneClick, Sessions, Works, WorkerCalls, WorkerCall,
           InPassCall, InResumeCall, InStageCall, Driving
      <3>2. rows[k].state \notin Gate!TerminalStates
        BY <1>1, <3>1 DEF RestInv, VerdictsRest
      <3>3. ~(rows[k].state = "awaiting_approval" /\ rows[k].decision = "none")
        BY <1>1, <3>1, Licences DEF Driving
      <3>4. sessions[t].pc \in {"record_approval", "deny", "reverify"}
        BY <1>1, <1>5, <2>4 DEF Base, ClickCall, Works
      <3>5. sessions[t].pc = "reverify"
        BY <2>4, <3>3, <3>4 DEF PatientInv, Deciding, RestInv
      <3>6. QED
        BY <1>1, <2>4, <3>2, <3>5 DEF RestInv, VerdictsRest
    <2>5. QED
      BY <2>2, <2>3, <2>4 DEF Sessions
  <1>6. ASSUME NEW s \in Sessions, Works(s)
        PROVE  /\ sessions'[s].pc \in Driving => rows'[sessions'[s].key].state \notin Gate!TerminalStates
               /\ sessions'[s].pc # "reverify"
    <2>1. sessions[s].pc # "approve"
      BY DEF RestInv, PatientInv, Sessions, WorkerCalls, WorkerCall, InPassCall, InResumeCall,
         InStageCall, Driving, Base, ClickCall
    <2>2. /\ sessions[s].pc \in Driving => rows[sessions[s].key].state \notin Gate!TerminalStates
          /\ sessions[s].pc = "inserted" => rows[sessions[s].key].state = "pending"
      BY <1>1, Licences DEF RestInv, VerdictsRest
    <2>3. QED
      BY <1>1, <1>6, <2>1, <2>2 DEF Works, GateP!Moves, GateP!Leaves, GateP!At, GateP!Key, Driving
  <1>7. ASSUME NEW s \in Sessions, StageBegins(s) \/ ResumeBegins(s) \/ PassBegins(s) \/ RequestBegins(s)
                 \/ Ends(s)
        PROVE  /\ sessions'[s].pc \in Driving => rows'[sessions'[s].key].state \notin Gate!TerminalStates
               /\ sessions'[s].pc = "reverify" => rows'[sessions'[s].key].state = "failed"
    <2>1. CASE Ends(s)
      BY <1>1, <2>1 DEF Ends, Gate!IdleCall, Driving
    <2>2. CASE PassBegins(s)
      BY <1>1, <2>2 DEF PassBegins, Begins, Untouched, Orphan, Driving
    <2>3. CASE StageBegins(s) \/ ResumeBegins(s) \/ RequestBegins(s)
      BY <1>1, <2>3 DEF StageBegins, ResumeBegins, RequestBegins, Redrives, Begins, Untouched,
         Driving
    <2>4. QED
      BY <1>7, <2>1, <2>2, <2>3
  <1>8. ASSUME NEW s \in Sessions, sessions'[s] = sessions[s], rows' = rows
        PROVE  /\ sessions'[s].pc \in Driving => rows'[sessions'[s].key].state \notin Gate!TerminalStates
               /\ sessions'[s].pc = "reverify" => rows'[sessions'[s].key].state = "failed"
    BY <1>8 DEF RestInv, VerdictsRest
  <1>9. VerdictsRest'
    <2> SUFFICES ASSUME NEW s \in Sessions
                 PROVE  /\ sessions'[s].pc \in Driving =>
                              rows'[sessions'[s].key].state \notin Gate!TerminalStates
                        /\ sessions'[s].pc = "reverify" => rows'[sessions'[s].key].state = "failed"
      BY DEF VerdictsRest
    <2>1. ASSUME NEW t \in Sessions, t # s, Works(t)
          PROVE  /\ sessions'[s].pc \in Driving =>
                       rows'[sessions'[s].key].state \notin Gate!TerminalStates
                 /\ sessions'[s].pc = "reverify" => rows'[sessions'[s].key].state = "failed"
      BY <1>2, <1>5, <2>1
    <2>2. ASSUME NEW t \in Sessions, t # s, Ends(t) \/ RequestBegins(t)
                    \/ StageBegins(t) \/ ResumeBegins(t) \/ PassBegins(t)
          PROVE  sessions'[s] = sessions[s] /\ rows' = rows
      BY <1>2, <1>3, <2>2
    <2>3. CASE UNCHANGED <<rows, sessions, effects>>
      BY <1>8, <2>3
    <2>4. QED
      BY <1>1, <1>6, <1>7, <1>8, <2>1, <2>2, <2>3, SessionSteps
  <1>10. QED
    BY <1>4, <1>9

LEMMA RestHolds ==
    ASSUME PatientOperator, OneWorker
    PROVE  /\ Init => RestInv
           /\ RestInv /\ [Next]_vars => RestInv'
  <1>1. Init => VerdictsRest /\ EvidenceStands
    BY DEF Init, Gate!Init, Gate!IdleCall, Gate!NoRow, VerdictsRest, EvidenceStands, Sessions,
       Driving
  <1>2. QED
    BY <1>1, PatientStep, VerdictsRestStep DEF RestInv

(* The gate's own promise, kept by an agency of one worker and an operator who
   makes one request at a time: `succeeded` and `denied` are final. *)
THEOREM VerdictSafe ==
    ASSUME PatientOperator, OneWorker
    PROVE  Spec => VerdictSticks
  <1>1. RestInv /\ [Next]_vars =>
           [\A k \in Keys : rows[k].state \in {"succeeded", "denied"}
                               => rows'[k].state = rows[k].state]_(Gate!vars)
    <2> SUFFICES ASSUME RestInv, [Next]_vars, NEW k \in Keys,
                        rows[k].state \in {"succeeded", "denied"}
                 PROVE  rows'[k].state = rows[k].state
      OBVIOUS
    <2>1. ASSUME NEW s \in Sessions, Works(s) PROVE rows'[k].state = rows[k].state
      BY <2>1, VerdictRows
    <2>2. QED
      BY <2>1, SessionSteps DEF RestInv, PatientInv, Ends, RequestBegins, StageBegins, ResumeBegins,
         PassBegins, Redrives, Begins, Untouched
  <1>2. QED
    BY <1>1, RestHolds, PTL DEF Spec, VerdictSticks, Gate!VerdictSticks

(* actions.py: "a healed action" does not leave "its task lying", nor does any
   other: a stage that reads `done` has actions that read `succeeded`. *)
THEOREM TruthSafe ==
    ASSUME PatientOperator, OneWorker, OneGateAStage
    PROVE  Spec => []StageTellsTheTruth
  <1>1. RestInv /\ DoneIsProved => StageTellsTheTruth
    BY AgencyAssumption DEF RestInv, EvidenceStands, DoneIsProved, StageTellsTheTruth, Stages
  <1>2. QED
    BY <1>1, RestHolds, DoneSafe, PTL DEF Spec

-----------------------------------------------------------------------------
(* A decision is carried to a worker. *)

(* While the web process lives, what it decided it also enqueues. *)
THEOREM CarriedSafe ==
    ASSUME ~WebDies
    PROVE  Spec => []DecisionIsCarried
  <1>1. Init => DecisionIsCarried
    BY DEF Init, Gate!Init, Gate!NoRow, DecisionIsCarried
  <1>2. Base /\ WorkerCalls /\ DecisionIsCarried /\ [Next]_vars => DecisionIsCarried'
    <2> SUFFICES ASSUME Base, WorkerCalls, DecisionIsCarried, [Next]_vars, NEW k \in Keys,
                        rows'[k].state = "awaiting_approval", rows'[k].decision # "none"
                 PROVE  \E c \in Clicks :
                           /\ k \in ActionOf[ResumeOf[c]]
                           /\ sessions'[c].pc # "idle" \/ tasks'[ResumeOf[c]].state # "absent"
      BY DEF DecisionIsCarried, Gate!At
    <2>1. /\ sessions \in [Sessions -> Gate!Calls] /\ rows \in [Keys -> Gate!Rows]
          /\ tasks \in [Tasks -> [state : Queue!TaskStates, lease : {"none", "live", "lapsed"},
                                  attempts : 0 .. AttemptsCap]]
          /\ Workers \subseteq Sessions /\ Clicks \subseteq Sessions
          /\ Workers \cap Clicks = {} /\ ResumeOf \in [Clicks -> Queue!Resumes]
          /\ Queue!Resumes \subseteq Tasks
      BY Types, AgencyAssumption DEF Queue!Resumes
    <2>2. CASE rows[k].state = "awaiting_approval" /\ rows[k].decision # "none"
      <3>1. PICK c \in Clicks : /\ k \in ActionOf[ResumeOf[c]]
                                /\ sessions[c].pc # "idle" \/ tasks[ResumeOf[c]].state # "absent"
        BY <2>2 DEF DecisionIsCarried, Gate!At
      <3>2. tasks[ResumeOf[c]].state # "absent" => tasks'[ResumeOf[c]].state # "absent"
        BY <2>1, TasksStay
      <3>3. ASSUME sessions[c].pc # "idle", sessions'[c].pc = "idle"
            PROVE  tasks'[ResumeOf[c]].state # "absent"
        <4>1. ClickEnqueues(c)
          <5>1. ASSUME NEW d \in Clicks, d # c, Click(d) \/ ClickStep(d)
                PROVE  sessions'[c] = sessions[c]
            <6>1. GateWorks(d) \/ ClickReverifies(d) => sessions'[c] = sessions[c]
              BY <2>1, <5>1, GateWorking DEF Works, Others
            <6>2. QED
              BY <2>1, <5>1, <6>1 DEF Click, ClickStep, ClickEnqueues, Gate!Finish, Gate!Decide,
                 Gate!ReverifyRead, Gate!Begin
          <5>2. ASSUME NEW w \in Workers, Claim(w) \/ WorkerStep(w) \/ OrphanPass(w) \/ Sweep(w)
                           \/ WorkerDies(w)
                PROVE  sessions'[c] = sessions[c]
            <6>1. w # c
              BY <2>1
            <6>2. GateWorks(w) => sessions'[c] = sessions[c]
              BY <2>1, <6>1, GateWorking DEF Works, Others
            <6>3. ASSUME NEW l, NEW observed, NEW doc, Gate!Resume(w, l, observed, doc)
                  PROVE  sessions'[c] = sessions[c]
              BY <2>1, <6>1, <6>3 DEF Gate!Resume, Gate!Begin
            <6>4. Gate!Finish(w) => sessions'[c] = sessions[c]
              BY <2>1, <6>1 DEF Gate!Finish
            <6>5. StageCalls(w) => sessions'[c] = sessions[c]
              BY <2>1, <6>1 DEF StageCalls, Gate!RequestCheck, Gate!Begin
            <6>6. QED
              BY <2>1, <5>2, <6>1, <6>2, <6>3, <6>4, <6>5
              DEF Claim, WorkerStep, OrphanPass, Sweep, WorkerDies, Proceed, ResumeCalls,
                  StageReturns, ResumeReturns, OrphanDone, gateVars
          <5>3. ~ClickDies(c) /\ \A d \in Clicks : ~ClickDies(d)
            BY DEF ClickDies
          <5>4. ~Click(c)
            BY <3>3 DEF Click, Gate!Decide, Gate!ReverifyRead, Gate!Begin, Gate!At
          <5>5. ~(GateWorks(c) \/ ClickReverifies(c))
            BY <2>1, <3>3, GateWorking DEF Works
          <5>6. QED
            BY <3>3, <5>1, <5>2, <5>3, <5>4, <5>5 DEF Next, ClickStep, vars, gateVars, Environment
        <4>2. QED
          BY <2>1, <4>1 DEF ClickEnqueues, Queue!Enqueued, Queue!Row
      <3>4. QED
        BY <3>1, <3>2, <3>3
    <2>3. CASE ~(rows[k].state = "awaiting_approval" /\ rows[k].decision # "none")
      <3>1. PICK s \in Sessions : Works(s)
        BY <2>1, <2>3, SessionSteps DEF RequestBegins, StageBegins, ResumeBegins, PassBegins,
           Redrives,
           Begins, Untouched, Ends
      <3>2. sessions[s].key = k
        BY <2>3, <3>1 DEF Works
      <3>3. sessions[s].pc # "inserted"
        BY <3>1, <3>2, Licences, RowFacts DEF Works, GateP!Moves, GateP!Leaves, GateP!At, GateP!Key
      <3>4. sessions[s].pc \in {"record_approval", "approve"}
        BY <2>3, <3>1, <3>2, <3>3 DEF Works, GateP!Moves, GateP!Leaves, GateP!At, GateP!Key
      <3>5. s \in Clicks /\ k \in ActionOf[ResumeOf[s]]
        BY <3>2, <3>4 DEF Sessions, WorkerCalls, WorkerCall, InPassCall, InResumeCall, InStageCall,
           Driving, Base, ClickCall
      <3>6. QED
        BY <3>1, <3>5 DEF Works
    <2>4. QED
      BY <2>2, <2>3
  <1>3. Init => WorkerCalls
    BY DEF Init, Gate!Init, Gate!IdleCall, WorkerCalls, WorkerCall
  <1>4. QED
    BY <1>1, <1>2, <1>3, BaseInit, BaseStep, WorkerCallsStep, PTL DEF Spec

-----------------------------------------------------------------------------
(* A stage that is claimed again is not refused over its own action. *)

(* A run with one stage that acts, the money stage by itself: only that stage
   requests actions, an operator decides on no other than the gated ones, and
   their proof is not left to an observer. *)
OneActingStage ==
    /\ \A t, u \in Stages : ActionOf[t] # {} /\ ActionOf[u] # {} => t = u
    /\ \A r \in Queue!Resumes : ActionOf[r] \subseteq ApprovalKeys
    /\ \A t \in Stages : ActionOf[t] \cap DeferredKeys = {}

(* What a worker holds is leased, and what the operator retries has landed. *)
HeldIsLeased ==
    \A w \in Workers : \A t \in Tasks : Queue!Owner(w, t) => tasks[t].state \in Queue!Leased

RetryOfLanded ==
    Retrying.pc = "retrying" => tasks[Retrying.task].state \in {"done", "failed"}

LEMMA HeldIsLeasedStep ==
    ASSUME OneWorker, Base, HeldIsLeased, RetryOfLanded, [Next]_vars
    PROVE  HeldIsLeased'
  <1>1. /\ tasks \in [Tasks -> [state : Queue!TaskStates, lease : {"none", "live", "lapsed"},
                                attempts : 0 .. AttemptsCap]]
        /\ workers \in [Workers -> [pc : Queue!PCs, task : Tasks, verdict : Queue!RunStates]]
        /\ Retrying \in [pc : AskingPCs, task : Tasks, run : Queue!RunStates]
        /\ Queue!Leased = {"claimed", "running"}
    BY Types DEF Queue!Leased
  <1> SUFFICES ASSUME NEW w \in Workers, NEW t \in Tasks, Queue!Owner(w, t)'
               PROVE  tasks'[t].state \in Queue!Leased
    BY DEF HeldIsLeased
  <1>2. CASE ~Queue!Owner(w, t)
    BY <1>1, <1>2, NewOwner
  <1>3. CASE Queue!Owner(w, t) /\ tasks'[t] = tasks[t]
    BY <1>3 DEF HeldIsLeased
  <1>4. ASSUME Queue!Owner(w, t), Handles(w) PROVE tasks'[t].state \in Queue!Leased
    <2>1. TaskMoves(w) /\ workers[w].task = t /\ tasks[t].state \in Queue!Leased
      BY <1>4, HandlesMoves DEF Queue!Owner, Queue!Task, HeldIsLeased
    <2>2. workers'[w].pc \notin {"idle", "done", "parked", "summing", "closing", "settling"}
      BY DEF Queue!Owner
    <2>3. \A u \in Releases[t] : u # t
      BY <1>1, Assumed DEF Queue!ResumesAssumption, Queue!Resumes
    <2>4. \/ tasks' = tasks \/ tasks' = [tasks EXCEPT ![t].state = "running"]
          \/ \E u \in Releases[t], state \in {"done", "failed"} :
                tasks' = [tasks EXCEPT ![u].state = state]
      BY <2>1, <2>2 DEF TaskMoves, Goes
    <2>5. QED
      BY <1>1, <2>1, <2>3, <2>4
  <1>5. ASSUME Queue!Owner(w, t), ~Handles(w) PROVE tasks'[t].state \in Queue!Leased
    <2>1. tasks[t].state \in {"claimed", "running"} /\ workers[w].pc # "idle"
      BY <1>1, <1>5 DEF HeldIsLeased, Queue!Owner
    <2>2. \A v \in Workers : ~Claims(v) /\ ~Handles(v) /\ ~Sweeps
      BY <1>5, <2>1 DEF OneWorker, Claims, Sweeps
    <2>3. \A v \in Workers : WorkerDies(v) => tasks' = tasks
      BY DEF WorkerDies
    <2>4. ASSUME NEW c \in Clicks, ClickEnqueues(c) PROVE tasks'[t] = tasks[t]
      BY <1>1, <2>1, <2>4 DEF ClickEnqueues, Queue!Enqueued, Queue!State
    <2>5. CASE Environment
      <3>1. CASE Queue!LeaseLapses
        BY <1>1, <2>1, <3>1 DEF Queue!LeaseLapses
      <3>2. CASE Retrying.pc = "retrying"
                 /\ tasks' = [tasks EXCEPT ![Retrying.task] = Queue!Row("pending")]
        BY <1>1, <2>1, <3>2 DEF RetryOfLanded
      <3>3. QED
        BY <1>1, <2>1, <2>5, <3>1, <3>2, RetrySteps
    <2>6. ~Sweeps
      BY <2>2
    <2>7. QED
      BY <1>1, <2>1, <2>2, <2>3, <2>4, <2>5, <2>6, QueueSteps
  <1>6. QED
    BY <1>2, <1>4, <1>5

(* A landed task is moved by the operator's retry, or by a release, which leaves
   it landed. *)
LEMMA LandedStays ==
    ASSUME Base, HeldIsLeased, [Next]_vars, NEW t \in Tasks, tasks[t].state \in {"done", "failed"},
           ~Environment
    PROVE  tasks'[t].state \in {"done", "failed"}
  <1>1. /\ tasks \in [Tasks -> [state : Queue!TaskStates, lease : {"none", "live", "lapsed"},
                                attempts : 0 .. AttemptsCap]]
        /\ workers \in [Workers -> [pc : Queue!PCs, task : Tasks, verdict : Queue!RunStates]]
        /\ Queue!Leased = {"claimed", "running"}
    BY Types DEF Queue!Leased
  <1>2. ASSUME NEW w \in Workers, Handles(w) PROVE tasks'[t].state \in {"done", "failed"}
    <2>1. TaskMoves(w) /\ workers[w].task \in Tasks
      BY <1>1, <1>2, HandlesMoves
    <2>2. CASE workers[w].task = t
      <3>1. workers[w].pc \in {"idle", "done", "parked", "summing", "closing", "settling"}
        BY <1>1, <2>2 DEF HeldIsLeased, Queue!Owner, Queue!Task
      <3>2. tasks' = tasks
        BY <1>2, <2>1, <3>1 DEF TaskMoves, Goes, Handles
      <3>3. QED
        BY <3>2
    <2>3. CASE workers[w].task # t
      <3>1. ASSUME NEW state, tasks' = [tasks EXCEPT ![workers[w].task].state = state,
                                                     ![workers[w].task].lease = "none"]
            PROVE  tasks'[t] = tasks[t]
        BY <1>1, <2>3, <3>1
      <3>2. ASSUME tasks' = [tasks EXCEPT ![workers[w].task].state = "running"]
            PROVE  tasks'[t] = tasks[t]
        BY <1>1, <2>3, <3>2
      <3>3. ASSUME NEW u, NEW state \in {"done", "failed"}, tasks' = [tasks EXCEPT ![u].state = state]
            PROVE  tasks'[t].state \in {"done", "failed"}
        BY <1>1, <3>3
      <3>4. ASSUME tasks' = [u \in Tasks |->
                     IF u \in Spawns[workers[w].task] /\ tasks[u].state = "absent"
                       THEN Queue!Row("pending")
                     ELSE [tasks EXCEPT ![workers[w].task].state = "done",
                                        ![workers[w].task].lease = "none"][u]]
            PROVE  tasks'[t] = tasks[t]
        BY <1>1, <2>3, <3>4
      <3>5. QED
        BY <2>1, <3>1, <3>2, <3>3, <3>4 DEF TaskMoves
    <2>4. QED
      BY <2>2, <2>3
  <1>3. ASSUME NEW w \in Workers, Claims(w) PROVE tasks'[t] = tasks[t]
    BY <1>1, <1>3 DEF Claims, Queue!Claim, Queue!Claimable, Queue!State
  <1>4. CASE Sweeps
    BY <1>1, <1>4, SweepMoves
  <1>5. ASSUME NEW c \in Clicks, ClickEnqueues(c) PROVE tasks'[t] = tasks[t]
    BY <1>1, <1>5 DEF ClickEnqueues, Queue!Enqueued, Queue!State
  <1>6. QED
    BY <1>2, <1>3, <1>4, <1>5, QueueSteps DEF WorkerDies

LEMMA RetryOfLandedStep ==
    ASSUME Base, HeldIsLeased, RetryOfLanded, [Next]_vars
    PROVE  RetryOfLanded'
  <1>1. /\ tasks \in [Tasks -> [state : Queue!TaskStates, lease : {"none", "live", "lapsed"},
                                attempts : 0 .. AttemptsCap]]
        /\ Retrying \in [pc : AskingPCs, task : Tasks, run : Queue!RunStates]
    BY Types
  <1> SUFFICES ASSUME Retrying'.pc = "retrying"
               PROVE  tasks'[Retrying'.task].state \in {"done", "failed"}
    BY DEF RetryOfLanded
  <1>2. CASE Environment
    <2>1. Queue!NoRetry.pc # "retrying"
      BY DEF Queue!NoRetry
    <2>2. CASE Queue!LeaseLapses /\ Retrying' = Retrying
      BY <1>1, <2>2 DEF Queue!LeaseLapses, RetryOfLanded
    <2>3. QED
      BY <1>2, <2>1, <2>2, RetrySteps
  <1>3. CASE ~Environment
    <2>1. Retrying' = Retrying
      BY <1>3, RetryInHand
    <2>2. QED
      BY <1>1, <1>3, <2>1, LandedStays DEF RetryOfLanded
  <1>4. QED
    BY <1>2, <1>3

(* A worker leaves its handler with the outcome of its call in hand. *)
LEMMA HandlesAtRest ==
    ASSUME Base, WorkerCalls, NEW w \in Workers, Handles(w), sessions[w].pc # "idle"
    PROVE  Gate!Finish(w) /\ workers[w].pc = "handling"
  <1>1. WorkerCall(w)
    BY DEF WorkerCalls
  <1>2. /\ workers[w].pc = "handling"
        /\ workers[w].task \in Queue!Resumes \/ ActionOf[workers[w].task] # {}
    BY <1>1 DEF WorkerCall, InPassCall, InResumeCall, InStageCall, Handles
  <1>3. ~Proceed(w)
    BY <1>2 DEF Proceed, Queue!CheckBudget, Queue!Refuse, Queue!MarkRunning, Queue!FailCommit,
       Queue!RollUp, Queue!Enforce, Queue!Settle, Queue!HandlerDone, Queue!At, Queue!Task, Gate!At, Task
  <1>4. QED
    BY <1>2, <1>3 DEF Handles, StageReturns, ResumeReturns

(* `ActionInProgress` is an answer a stage gets. *)
Answered ==
    \A w \in Workers : sessions[w].outcome = "ActionInProgress" =>
        sessions[w].pc = "returned" /\ workers[w].pc = "handling"

(* The gate gives it to a call that lost the race to insert its row. *)
LEMMA InProgress ==
    ASSUME Base, Answered, [Next]_vars, NEW w \in Workers,
           sessions'[w].outcome = "ActionInProgress", sessions'[w] # sessions[w]
    PROVE  sessions[w].pc = "conflict" /\ sessions'[w].pc = "returned"
  <1>1. /\ sessions \in [Sessions -> Gate!Calls] /\ rows \in [Keys -> Gate!Rows]
        /\ Workers \subseteq Sessions /\ Sessions = Workers \cup Clicks
        /\ \A s \in Sessions : sessions[s].key \in Keys
    BY Types DEF Sessions
  <1>2. /\ "ActionInProgress" \notin Gate!RowStates
        /\ Gate!IdleCall.outcome = "absent"
        /\ Gate!TerminalStates \subseteq Gate!RowStates
    BY DEF Gate!RowStates, Gate!InFlight, Gate!TerminalStates, Gate!IdleCall
  <1>3. Gate!Next
    BY UsesTheGate DEF gateVars
  <1>4. PICK s \in Sessions : Gate!Call(s) \/ Gate!Step(s) \/ Gate!Crash(s)
    BY <1>1, <1>3 DEF Gate!Next
  <1>5. ASSUME NEW k, NEW pc, NEW result, NEW doc, Gate!Begin(s, pc, k, result, doc)
        PROVE  FALSE
    BY <1>1, <1>5 DEF Gate!Begin
  <1>6. ~Gate!Call(s)
    <2>1. ASSUME NEW k \in Keys, NEW observed, NEW doc, Gate!Resume(s, k, observed, doc)
          PROVE  FALSE
      <3>1. CASE rows[k].state \in Gate!TerminalStates
        <4>1. sessions' = [sessions EXCEPT ![s] =
                 [Gate!IdleCall EXCEPT !.pc = "returned", !.key = k, !.outcome = rows[k].state]]
          BY <2>1, <3>1 DEF Gate!Resume
        <4>2. sessions'[s].outcome = rows[k].state
          BY <1>1, <4>1 DEF Gate!IdleCall
        <4>3. w = s
          BY <1>1, <4>1
        <4>4. QED
          BY <1>2, <3>1, <4>2, <4>3
      <3>2. CASE rows[k].state \notin Gate!TerminalStates
        BY <1>5, <2>1, <3>2 DEF Gate!Resume
      <3>3. QED
        BY <3>1, <3>2
    <2>2. QED
      BY <1>5, <2>1 DEF Gate!Call, Gate!RequestCheck, Gate!Decide, Gate!ReverifyRead
  <1>7. ~Gate!Crash(s) /\ ~Gate!Finish(s)
    BY <1>1, <1>2 DEF Gate!Crash, Gate!Finish
  <1>8. ASSUME NEW pc, NEW state, Gate!Goto(s, pc, state)
        PROVE  sessions[s].pc = "returned"
    BY <1>1, <1>8 DEF Gate!Goto, Answered
  <1>9. ASSUME NEW outcome, outcome # "ActionInProgress", Gate!Return(s, outcome)
        PROVE  FALSE
    <2>1. w = s
      BY <1>1, <1>9 DEF Gate!Return
    <2>2. sessions'[s].outcome = outcome
      BY <1>1, <1>9 DEF Gate!Return, Gate!IdleCall
    <2>3. QED
      BY <1>9, <2>1, <2>2
  <1>10. CASE Gate!RequestConflict(s)
    <2>1. w = s
      BY <1>1, <1>10 DEF Gate!RequestConflict, Gate!Return
    <2>2. sessions'[s].pc = "returned"
      BY <1>1, <1>10 DEF Gate!RequestConflict, Gate!Return, Gate!IdleCall
    <2>3. QED
      BY <1>10, <2>1, <2>2 DEF Gate!RequestConflict, Gate!At
  <1>11. ~Gate!RequestInsert(s) /\ ~Gate!RequestPark(s) /\ ~Gate!RequestRun(s)
    BY <1>8, <1>9 DEF Gate!RequestInsert, Gate!RequestPark, Gate!RequestRun, Gate!At
  <1>12. ~Gate!RecordApproval(s) /\ ~Gate!Deny(s) /\ ~Gate!Reverify(s)
    <2>1. Gate!Copy(s) \in Gate!RowStates
      BY <1>1 DEF Gate!Calls, Gate!Copy
    <2>2. Gate!Copy(s) # "ActionInProgress"
      BY <1>2, <2>1
    <2>3. QED
      BY <1>9, <2>2 DEF Gate!RecordApproval, Gate!Deny, Gate!Reverify
  <1>13. ~Gate!Approve(s)
    <2>1. ASSUME NEW doc, sessions[s].pc = "approve",
                 sessions' = [sessions EXCEPT ![s].pc = "run", ![s].doc = doc]
          PROVE  FALSE
      <3>1. w = s
        BY <1>1, <2>1
      <3>2. sessions[w].outcome = "ActionInProgress"
        BY <1>1, <2>1, <3>1
      <3>3. QED
        BY <2>1, <3>1, <3>2 DEF Answered
    <2>2. QED
      BY <2>1 DEF Gate!Approve, Gate!At
  <1>14. /\ ~Gate!RunExecute(s) /\ ~Gate!Execute(s) /\ ~Gate!ExecuteRaises(s)
         /\ ~Gate!RunVerify(s)
    BY <1>8, <1>9 DEF Gate!RunExecute, Gate!Execute, Gate!ExecuteRaises, Gate!RunVerify, Gate!At
  <1>15. ~Gate!ExecuteReturns(s)
    <2>1. ASSUME sessions[s].pc = "executed", 
                 sessions' = [sessions EXCEPT ![s].pc = "verify", ![s].state = "verifying",
                                              ![s].result = TRUE]
          PROVE  FALSE
      BY <1>1, <2>1 DEF Answered
    <2>2. QED
      BY <1>9, <2>1 DEF Gate!ExecuteReturns, Gate!At
  <1>16. /\ ~Gate!VerifyFails(s) /\ ~Gate!VerifySucceeds(s) /\ ~Gate!VerifyRaises(s)
         /\ ~Gate!VerifyGivesUp(s)
    <2>1. ASSUME sessions[s].pc = "verify", sessions' = [sessions EXCEPT ![s].attempts = @ + 1]
          PROVE  FALSE
      <3>1. w = s
        BY <1>1, <2>1
      <3>2. sessions[w].outcome = "ActionInProgress"
        BY <1>1, <2>1, <3>1
      <3>3. QED
        BY <2>1, <3>1, <3>2 DEF Answered
    <2>2. QED
      BY <1>9, <2>1 DEF Gate!VerifyFails, Gate!VerifySucceeds, Gate!VerifyRaises,
         Gate!VerifyGivesUp, Gate!At
  <1>17. QED
    BY <1>4, <1>6, <1>7, <1>10, <1>11, <1>12, <1>13, <1>14, <1>15, <1>16 DEF Gate!Step

(* A session that is at work goes on, or is over. *)
LEMMA AtWork ==
    ASSUME Base, [Next]_vars, NEW w \in Workers, sessions[w].pc # "idle",
           sessions'[w] # sessions[w]
    PROVE  Works(w) \/ Ends(w)
  <1>1. sessions \in [Sessions -> Gate!Calls] /\ Workers \subseteq Sessions /\ Clicks \subseteq Sessions
    BY Types
  <1>2. ASSUME NEW s \in Sessions, s # w, Works(s) \/ Ends(s)
        PROVE  sessions'[w] = sessions[w]
    BY <1>1, <1>2 DEF Works, Ends, Others
  <1>3. ASSUME NEW s \in Sessions,
               RequestBegins(s) \/ StageBegins(s) \/ ResumeBegins(s) \/ PassBegins(s)
        PROVE  sessions'[w] = sessions[w]
    BY <1>1, <1>3 DEF RequestBegins, StageBegins, ResumeBegins, PassBegins, Redrives, Begins, Others
  <1>4. QED
    BY <1>1, <1>2, <1>3, SessionSteps

LEMMA AnsweredStep ==
    ASSUME Base, WorkerCalls, Answered, [Next]_vars
    PROVE  Answered'
  <1>1. /\ sessions \in [Sessions -> Gate!Calls] /\ Workers \subseteq Sessions
        /\ workers \in [Workers -> [pc : Queue!PCs, task : Tasks, verdict : Queue!RunStates]]
    BY Types
  <1> SUFFICES ASSUME NEW w \in Workers, sessions'[w].outcome = "ActionInProgress"
               PROVE  sessions'[w].pc = "returned" /\ workers'[w].pc = "handling"
    BY DEF Answered
  <1>2. CASE sessions'[w] # sessions[w]
    <2>1. sessions[w].pc = "conflict" /\ sessions'[w].pc = "returned"
      BY <1>2, InProgress
    <2>2. Works(w)
      <3>1. ~Ends(w)
        BY <1>1, <2>1 DEF Ends, Gate!IdleCall
      <3>2. QED
        BY <1>2, <2>1, <3>1, AtWork
    <2>3. workers[w].pc = "handling"
      BY <2>1 DEF WorkerCalls, WorkerCall, InPassCall, InResumeCall, InStageCall, Driving
    <2>4. QED
      BY <2>1, <2>2, <2>3 DEF Works
  <1>3. CASE sessions'[w] = sessions[w]
    <2>1. sessions[w].pc = "returned" /\ workers[w].pc = "handling"
      BY <1>3 DEF Answered
    <2>2. ~Handles(w)
      <3>1. ASSUME Handles(w) PROVE FALSE
        <4>1. sessions' = [sessions EXCEPT ![w] = Gate!IdleCall]
          BY <2>1, <3>1, HandlesAtRest DEF Gate!Finish
        <4>2. QED
          BY <1>1, <1>3, <2>1, <4>1 DEF Gate!IdleCall
      <3>2. QED
        BY <3>1
    <2>3. ~WorkerDies(w)
      BY <1>1, <1>3, <2>1 DEF WorkerDies, Gate!IdleCall
    <2>4. ~Claims(w)
      BY <2>1 DEF Claims
    <2>5. workers'[w] = workers[w]
      BY <2>2, <2>3, <2>4, OthersRest
    <2>6. QED
      BY <1>3, <2>1, <2>5
  <1>4. QED
    BY <1>2, <1>3

(* While an action nobody gates is in flight its stage is leased, and the worker
   has its hands on that action and no other, or has died. *)
Flying(k) == rows[k].state \in Gate!InFlight

FlightHeld(t, k) ==
    /\ tasks[t].state \in Queue!Leased
    /\ \A w \in Workers :
          Queue!Owner(w, t) => /\ workers[w].pc = "handling" /\ sessions[w].key = k
                               /\ sessions[w].pc \in {"execute", "executed", "verify"}
    /\ \A w \in Workers :
          workers[w].pc = "idle" /\ sessions[w].pc # "idle" =>
             sessions[w].key = k /\ sessions[w].pc \in {"run", "verify"}
    /\ \A l \in ActionOf[t] \ ApprovalKeys : Flying(l) => l = k

FlightsHeld ==
    \A t \in Stages : \A k \in ActionOf[t] \ ApprovalKeys : Flying(k) => FlightHeld(t, k)

ReclaimInv == RestInv /\ GatedLast /\ HeldIsLeased /\ RetryOfLanded /\ Answered /\ FlightsHeld

(* The hypotheses of this section, and what its steps share. *)
OneAtATime == PatientOperator /\ OneWorker /\ ~FlakyWorld /\ OneGateAStage /\ OneActingStage

LEMMA FlightTypes ==
    ASSUME ReclaimInv, OneAtATime, NEW t \in Stages, NEW k \in ActionOf[t] \ ApprovalKeys
    PROVE  /\ Base /\ WorkerCalls /\ t \in Tasks /\ t \notin Queue!Resumes /\ k \in Keys
           /\ k \notin DeferredKeys /\ k \notin ApprovalKeys
           /\ sessions \in [Sessions -> Gate!Calls] /\ rows \in [Keys -> Gate!Rows]
           /\ workers \in [Workers -> [pc : Queue!PCs, task : Tasks, verdict : Queue!RunStates]]
           /\ tasks \in [Tasks -> [state : Queue!TaskStates, lease : {"none", "live", "lapsed"},
                                   attempts : 0 .. AttemptsCap]]
           /\ Workers \subseteq Sessions /\ Clicks \subseteq Sessions
           /\ Sessions = Workers \cup Clicks /\ Workers \cap Clicks = {}
           /\ \A s \in Sessions : sessions[s].key \in Keys
           /\ \A u \in Stages : ActionOf[u] # {} => u = t
           /\ \A r \in Queue!Resumes : ActionOf[r] \subseteq ApprovalKeys
           /\ Gate!InFlight = {"executing", "verifying"}
           /\ Queue!Leased = {"claimed", "running"}
  <1>1. /\ Base /\ WorkerCalls
    BY DEF ReclaimInv, RestInv, PatientInv
  <1>2. ActionOf \in [Tasks -> SUBSET Keys] /\ Workers \cap Clicks = {}
    BY AgencyAssumption
  <1>3. t \in Tasks /\ t \notin Queue!Resumes
    BY DEF Stages
  <1>4. k \in Keys /\ k \notin DeferredKeys
    BY <1>2, <1>3 DEF OneAtATime, OneActingStage
  <1>5. QED
    BY <1>1, <1>2, <1>3, <1>4, Types
    DEF OneAtATime, OneActingStage, Sessions, Gate!InFlight, Queue!Leased

(* No gated action of the stage has been asked for, so none is decided. *)
LEMMA NoneAsked ==
    ASSUME ReclaimInv, OneAtATime, NEW t \in Stages, NEW k \in ActionOf[t] \ ApprovalKeys, Flying(k)
    PROVE  /\ \A j \in ActionOf[t] \cap ApprovalKeys : ~Asked(j)
           /\ \A r \in Queue!Resumes : t \in Releases[r] => tasks[r].state = "absent"
  <1>1. ~rows[k].evidence
    BY FlightTypes DEF ReclaimInv, RestInv, EvidenceStands, Flying
  <1>2. \A j \in ActionOf[t] \cap ApprovalKeys : ~Asked(j)
    BY <1>1 DEF ReclaimInv, GatedLast
  <1>3. ASSUME NEW r \in Queue!Resumes, t \in Releases[r], tasks[r].state # "absent" PROVE FALSE
    <2>1. PICK j \in ActionOf[r] : Decided(j)
      BY <1>3, FlightTypes DEF Base, ResumesDecided
    <2>2. j \in ActionOf[t] \cap ApprovalKeys
      BY <1>3, <2>1, FlightTypes DEF OneAtATime, OneGateAStage
    <2>3. j \in Keys
      BY <2>2, AgencyAssumption, FlightTypes
    <2>4. rows[j].state = "absent"
      BY <1>2, <2>2 DEF Asked
    <2>5. rows[j].decision = "none"
      BY <2>3, <2>4, FlightTypes, RowFacts
    <2>6. QED
      BY <2>1, <2>4, <2>5 DEF Decided, Gate!Resumable, Gate!InFlight, Gate!TerminalStates
  <1>4. QED
    BY <1>2, <1>3

(* The stage's lease is not touched while its action flies. *)
LEMMA FlightStaysLeased ==
    ASSUME ReclaimInv, OneAtATime, NEW t \in Stages, NEW k \in ActionOf[t] \ ApprovalKeys, Flying(k),
           [Next]_vars
    PROVE  tasks'[t].state \in Queue!Leased
  <1>1. FlightHeld(t, k)
    BY DEF ReclaimInv, FlightsHeld
  <1>2. tasks[t].state \in {"claimed", "running"}
    BY <1>1, FlightTypes DEF FlightHeld
  <1>3. ASSUME NEW w \in Workers, Handles(w) PROVE tasks'[t].state \in Queue!Leased
    <2>1. TaskMoves(w) /\ workers[w].task \in Tasks
      BY <1>3, FlightTypes, HandlesMoves
    <2>2. ~Queue!Owner(w, t)
      <3>1. ASSUME Queue!Owner(w, t) PROVE FALSE
        <4>1. sessions[w].pc \in {"execute", "executed", "verify"}
          BY <1>1, <3>1 DEF FlightHeld
        <4>2. Gate!Finish(w)
          BY <1>3, <4>1, FlightTypes, HandlesAtRest
        <4>3. QED
          BY <4>1, <4>2 DEF Gate!Finish, Gate!At
      <3>2. QED
        BY <3>1
    <2>3. CASE workers[w].task = t
      <3>1. workers[w].pc \in {"done", "parked", "summing", "closing", "settling"}
        BY <1>3, <2>2, <2>3, FlightTypes DEF Queue!Owner, Queue!Task, Handles
      <3>2. tasks' = tasks
        BY <2>1, <3>1 DEF TaskMoves, Goes
      <3>3. QED
        BY <1>1, <3>2 DEF FlightHeld
    <2>4. CASE workers[w].task # t
      <3>1. ASSUME NEW state, tasks' = [tasks EXCEPT ![workers[w].task].state = state,
                                                     ![workers[w].task].lease = "none"]
            PROVE  tasks'[t] = tasks[t]
        BY <2>1, <2>4, <3>1, FlightTypes
      <3>2. ASSUME tasks' = [tasks EXCEPT ![workers[w].task].state = "running"]
            PROVE  tasks'[t] = tasks[t]
        BY <2>1, <2>4, <3>2, FlightTypes
      <3>3. ASSUME NEW u \in Releases[workers[w].task], NEW state,
                   workers[w].task \in Queue!Resumes, workers[w].pc = "handling",
                   tasks' = [tasks EXCEPT ![u].state = state]
            PROVE  tasks'[t] = tasks[t]
        <4>1. tasks[workers[w].task].state # "absent"
          BY <3>3, FlightTypes DEF Base, HeldTasksExist
        <4>2. u # t
          BY <3>3, <4>1, NoneAsked
        <4>3. QED
          BY <3>3, <4>2, FlightTypes
      <3>4. ASSUME tasks' = [u \in Tasks |->
                     IF u \in Spawns[workers[w].task] /\ tasks[u].state = "absent"
                       THEN Queue!Row("pending")
                     ELSE [tasks EXCEPT ![workers[w].task].state = "done",
                                        ![workers[w].task].lease = "none"][u]]
            PROVE  tasks'[t] = tasks[t]
        BY <1>2, <2>1, <2>4, <3>4, FlightTypes
      <3>5. tasks' = tasks \/ tasks'[t] = tasks[t]
        BY <2>1, <3>1, <3>2, <3>3, <3>4 DEF TaskMoves, Goes
      <3>6. QED
        BY <1>1, <3>5 DEF FlightHeld
    <2>5. QED
      BY <2>3, <2>4
  <1>4. ASSUME NEW w \in Workers, Claims(w) PROVE tasks'[t] = tasks[t]
    BY <1>2, <1>4, FlightTypes DEF Claims, Queue!Claim, Queue!Claimable, Queue!State
  <1>5. ASSUME Sweeps PROVE tasks'[t] = tasks[t]
    <2>1. PICK w \in Workers :
            /\ workers[w].pc = "idle"
            /\ \/ sessions[w].pc = "returned"
               \/ sessions[w].pc = "idle" /\ \A j \in Orphans : MayBeLocked(j)
      BY <1>5 DEF Sweeps
    <2>2. sessions[w].pc = "idle"
      BY <1>1, <2>1 DEF FlightHeld
    <2>3. ~MayBeLocked(k)
      BY <2>2 DEF MayBeLocked, InPass, Gate!At, OneAtATime, OneWorker
    <2>4. tasks[t].lease = "live"
      <3>1. k \notin Orphans
        BY <2>1, <2>2, <2>3
      <3>2. t \in StageOf(k)
        BY FlightTypes DEF StageOf
      <3>3. QED
        BY <3>1, <3>2, FlightTypes DEF Orphans, Orphan, Flying
    <2>5. QED
      BY <1>5, <2>4, FlightTypes, SweepMoves
  <1>6. ASSUME NEW c \in Clicks, ClickEnqueues(c) PROVE tasks'[t] = tasks[t]
    BY <1>2, <1>6, FlightTypes DEF ClickEnqueues, Queue!Enqueued, Queue!State
  <1>7. CASE Environment
    <2>1. CASE Queue!LeaseLapses
      BY <1>2, <2>1, FlightTypes DEF Queue!LeaseLapses
    <2>2. CASE Retrying.pc = "retrying"
               /\ tasks' = [tasks EXCEPT ![Retrying.task] = Queue!Row("pending")]
      <3>1. Retrying.task # t
        BY <1>2, <2>2 DEF ReclaimInv, RetryOfLanded
      <3>2. QED
        BY <1>2, <2>2, <3>1, FlightTypes
    <2>3. QED
      BY <1>1, <1>2, <1>7, <2>1, <2>2, FlightTypes, RetrySteps
  <1>8. ASSUME tasks'[t] = tasks[t] PROVE tasks'[t].state \in Queue!Leased
    BY <1>1, <1>8 DEF FlightHeld
  <1>9. QED
    BY <1>3, <1>4, <1>5, <1>6, <1>7, <1>8, FlightTypes, QueueSteps DEF WorkerDies

(* A worker's call begins with the task it handles, or with a recovery pass. *)
LEMMA Begun ==
    ASSUME Base, [Next]_vars, NEW w \in Workers, sessions[w].pc = "idle", sessions'[w].pc # "idle"
    PROVE  StageBegins(w) \/ ResumeBegins(w) \/ PassBegins(w)
  <1>1. /\ sessions \in [Sessions -> Gate!Calls] /\ Workers \subseteq Sessions
        /\ Clicks \subseteq Sessions /\ Workers \cap Clicks = {}
    BY Types, AgencyAssumption
  <1>2. ASSUME NEW s \in Sessions, s # w,
               Works(s) \/ Ends(s) \/ RequestBegins(s) \/ StageBegins(s) \/ ResumeBegins(s)
                 \/ PassBegins(s)
        PROVE  sessions'[w] = sessions[w]
    BY <1>1, <1>2 DEF Works, Ends, RequestBegins, StageBegins, ResumeBegins, PassBegins, Redrives,
       Begins, Others
  <1>3. ~Works(w) /\ ~Ends(w)
    BY <1>1 DEF Works, Ends, Gate!IdleCall
  <1>4. QED
    BY <1>1, <1>2, <1>3, SessionSteps

(* A flight begins in the hands of the worker that holds the stage. *)
LEMMA FlightBegins ==
    ASSUME ReclaimInv, OneAtATime, NEW t \in Stages, NEW k \in ActionOf[t] \ ApprovalKeys,
           NEW s \in Sessions, Works(s), ~Flying(k), rows'[k].state \in Gate!InFlight
    PROVE  /\ s \in Workers /\ sessions[s].key = k /\ sessions[s].pc = "run"
           /\ sessions'[s].pc = "execute"
           /\ Queue!Owner(s, t) /\ workers[s].pc = "handling"
  <1>1. sessions[s].key = k
    BY FlightTypes DEF Works, Flying
  <1>2. s \in Workers
    <2>1. ASSUME s \in Clicks PROVE FALSE
      <3>1. sessions[s].key \in ActionOf[ResumeOf[s]]
        BY <2>1, FlightTypes DEF Works, Base, ClickCall
      <3>2. ResumeOf[s] \in Queue!Resumes
        BY <2>1, AgencyAssumption
      <3>3. QED
        BY <1>1, <3>1, <3>2, FlightTypes
    <2>2. QED
      BY <2>1, FlightTypes
  <1>3. WorkerCall(s) /\ sessions[s].pc \notin {"idle", "reverify", "approve"}
    BY <1>2, FlightTypes DEF Works, WorkerCalls, WorkerCall, InPassCall, InResumeCall, InStageCall,
       Driving
  <1>4. sessions[s].pc \in Driving => rows[k].state \notin Gate!TerminalStates
    BY <1>1 DEF ReclaimInv, RestInv, VerdictsRest
  <1>5. sessions[s].pc \notin {"execute", "executed", "verify"}
    BY <1>1, <1>4, FlightTypes, Licences DEF Flying, Driving
  <1>6. sessions[s].pc = "run" /\ sessions'[s].pc = "execute"
        /\ sessions[s].state \in {"pending", "awaiting_approval"}
    <2>1. ~(sessions[s].pc = "run" /\ sessions[s].state \in Gate!InFlight)
      BY <1>1, <1>4, FlightTypes, Licences DEF Flying, Driving
    <2>2. sessions[s].pc \notin {"checked", "conflict", "inserted", "record_approval", "deny"}
      BY <1>1, <1>2, <1>3, FlightTypes
      DEF Works, GateP!Moves, GateP!Leaves, GateP!At, GateP!Key, Flying, WorkerCall, InPassCall,
          InResumeCall, InStageCall, Driving
    <2>3. GateP!InFlight = Gate!InFlight
      BY GateConstants
    <2>4. QED
      BY <1>1, <1>3, <1>5, <2>1, <2>2, <2>3
      DEF Works, GateP!Moves, GateP!Leaves, GateP!At, GateP!Key, GateP!Copy
  <1>7. ~InResumeCall(s)
    BY <1>1, FlightTypes DEF InResumeCall
  <1>8. ~InPassCall(s)
    BY <1>6, FlightTypes DEF InPassCall
  <1>9. InStageCall(s)
    BY <1>3, <1>7, <1>8 DEF WorkerCall
  <1>10. workers[s].task = t /\ workers[s].pc = "handling"
    <2>1. workers[s].task \in Stages /\ k \in ActionOf[workers[s].task]
      BY <1>1, <1>2, <1>9, FlightTypes DEF InStageCall, Stages
    <2>2. QED
      BY <1>9, <2>1, FlightTypes DEF InStageCall
  <1>11. Queue!Owner(s, t)
    BY <1>10 DEF Queue!Owner, Queue!Task, Queue!PCs
  <1>12. QED
    BY <1>1, <1>2, <1>6, <1>10, <1>11

(* A flight that goes on does so in the same hands. *)
LEMMA FlightGoesOn ==
    ASSUME ReclaimInv, OneAtATime, NEW t \in Stages, NEW k \in ActionOf[t] \ ApprovalKeys, Flying(k),
           NEW w \in Workers, Works(w), rows'[k].state \in Gate!InFlight,
           sessions[w].key = k
    PROVE  /\ sessions[w].pc \in {"execute", "executed", "verify"} =>
                 sessions'[w].pc \in {"execute", "executed", "verify"}
           /\ sessions[w].pc \in {"run", "verify"} /\ workers[w].pc = "idle" =>
                 sessions'[w].pc \in {"run", "verify"}
  <1>1. rows'[k].state \notin {"failed", "succeeded"} /\ ~FlakyWorld /\ k \notin DeferredKeys
    BY FlightTypes DEF OneAtATime
  <1>2. sessions[w].pc \in {"execute", "executed", "verify"} =>
           sessions'[w].pc \in {"execute", "executed", "verify"}
    BY <1>1 DEF Works, GateP!Moves, GateP!Leaves, GateP!At, GateP!Key, GateP!Copy
  <1>3. ASSUME sessions[w].pc = "run", workers[w].pc = "idle"
        PROVE  sessions'[w].pc = "verify"
    <2>1. InPassCall(w)
      BY <1>3, FlightTypes DEF WorkerCalls, WorkerCall, InResumeCall, InStageCall
    <2>2. sessions[w].state \in Gate!InFlight
      BY <1>3, <2>1 DEF InPassCall
    <2>3. sessions[w].state \notin {"pending", "awaiting_approval"}
      BY <2>2, FlightTypes
    <2>4. QED
      BY <1>3, <2>3 DEF Works, GateP!Moves, GateP!Leaves, GateP!At, GateP!Key, GateP!Copy
  <1>4. ASSUME sessions[w].pc = "verify" PROVE sessions'[w].pc = "verify"
    BY <1>1, <1>4 DEF Works, GateP!Moves, GateP!Leaves, GateP!At, GateP!Key, GateP!Copy
  <1>5. QED
    BY <1>2, <1>3, <1>4

(* Two actions of a stage do not fly at once. *)
LEMMA FlightAlone ==
    ASSUME ReclaimInv, OneAtATime, NEW t \in Stages, NEW k \in ActionOf[t] \ ApprovalKeys,
           NEW l \in ActionOf[t] \ ApprovalKeys, [Next]_vars,
           rows'[k].state \in Gate!InFlight, rows'[l].state \in Gate!InFlight
    PROVE  l = k
  <1>1. ASSUME NEW i \in ActionOf[t] \ ApprovalKeys, NEW j \in ActionOf[t] \ ApprovalKeys,
               i # j, Flying(i), ~Flying(j), rows'[j].state \in Gate!InFlight
        PROVE  FALSE
    <2>1. j \in Keys
      BY <1>1, FlightTypes
    <2>2. rows' # rows
      BY <1>1 DEF Flying
    <2>3. PICK s \in Sessions : Works(s)
      BY <2>2, FlightTypes, SessionSteps DEF RequestBegins, StageBegins, ResumeBegins, PassBegins,
         Redrives, Begins, Untouched, Ends
    <2>4. s \in Workers /\ Queue!Owner(s, t) /\ sessions[s].pc = "run"
      BY <1>1, <2>3, FlightBegins
    <2>5. FlightHeld(t, i)
      BY <1>1 DEF ReclaimInv, FlightsHeld
    <2>6. QED
      BY <2>4, <2>5 DEF FlightHeld
  <1>2. ASSUME ~Flying(k), ~Flying(l), k # l PROVE FALSE
    <2>1. k \in Keys /\ l \in Keys
      BY FlightTypes
    <2>2. rows' # rows
      BY <1>2 DEF Flying
    <2>3. PICK s \in Sessions : Works(s)
      BY <2>2, FlightTypes, SessionSteps DEF RequestBegins, StageBegins, ResumeBegins, PassBegins,
         Redrives, Begins, Untouched, Ends
    <2>4. sessions[s].key = k /\ sessions[s].key = l
      BY <1>2, <2>3, FlightBegins
    <2>5. QED
      BY <1>2, <2>4
  <1>3. CASE Flying(k) /\ Flying(l)
    BY <1>3 DEF ReclaimInv, FlightsHeld, FlightHeld
  <1>4. QED
    BY <1>1, <1>2, <1>3

LEMMA FlightsHeldStep ==
    ASSUME ReclaimInv, OneAtATime, [Next]_vars
    PROVE  FlightsHeld'
  <1> SUFFICES ASSUME NEW t \in Stages, NEW k \in ActionOf[t] \ ApprovalKeys,
                      rows'[k].state \in Gate!InFlight
               PROVE  FlightHeld(t, k)'
    BY DEF FlightsHeld, Flying
  <1> DEFINE Held(w) ==
                 Queue!Owner(w, t) => /\ workers[w].pc = "handling" /\ sessions[w].key = k
                                      /\ sessions[w].pc \in {"execute", "executed", "verify"}
             Passes(w) ==
                 workers[w].pc = "idle" /\ sessions[w].pc # "idle" =>
                    sessions[w].key = k /\ sessions[w].pc \in {"run", "verify"}
  <1>1. \A l \in ActionOf[t] \ ApprovalKeys : rows'[l].state \in Gate!InFlight => l = k
    BY FlightAlone
  <1>2. CASE ~Flying(k)
    <2>1. PICK s \in Sessions : Works(s)
      BY <1>2, FlightTypes, SessionSteps DEF RequestBegins, StageBegins, ResumeBegins, PassBegins,
         Redrives, Begins, Untouched, Ends, Flying
    <2>2. /\ s \in Workers /\ sessions[s].key = k /\ sessions'[s].pc = "execute"
          /\ Queue!Owner(s, t) /\ workers[s].pc = "handling"
      BY <1>2, <2>1, FlightBegins
    <2>3. tasks[t].state \in Queue!Leased
      BY <2>2, FlightTypes DEF ReclaimInv, HeldIsLeased
    <2>4. tasks' = tasks /\ workers' = workers /\ sessions'[s].key = k
      BY <2>1, <2>2 DEF Works
    <2>5. \A w \in Workers : w = s
      BY <2>2 DEF OneAtATime, OneWorker
    <2>6. \A w \in Workers : Held(w)' /\ Passes(w)'
      BY <2>2, <2>4, <2>5
    <2>7. QED
      BY <1>1, <2>3, <2>4, <2>6 DEF FlightHeld, Flying
  <1>3. CASE Flying(k)
    <2>1. tasks'[t].state \in Queue!Leased
      BY <1>3, FlightStaysLeased
    <2>2. FlightHeld(t, k)
      BY <1>3 DEF ReclaimInv, FlightsHeld
    <2>3. ASSUME NEW w \in Workers PROVE Held(w)'
      <3> SUFFICES ASSUME Queue!Owner(w, t)'
                   PROVE  /\ workers'[w].pc = "handling" /\ sessions'[w].key = k
                          /\ sessions'[w].pc \in {"execute", "executed", "verify"}
        OBVIOUS
      <3>1. Queue!Owner(w, t)
        <4>1. tasks[t].state # "pending"
          BY <2>2, FlightTypes DEF FlightHeld
        <4>2. QED
          BY <4>1, FlightTypes, NewOwner
      <3>2. /\ workers[w].pc = "handling" /\ sessions[w].key = k
            /\ sessions[w].pc \in {"execute", "executed", "verify"}
        BY <2>2, <3>1 DEF FlightHeld
      <3>3. workers'[w] = workers[w]
        <4>1. ~Handles(w)
          BY <3>2, FlightTypes, HandlesAtRest DEF Gate!Finish, Gate!At
        <4>2. ~WorkerDies(w)
          BY FlightTypes DEF WorkerDies, Queue!Owner, Queue!Idle
        <4>3. QED
          BY <3>2, <4>1, <4>2, FlightTypes, OthersRest DEF Claims
      <3>4. ~Ends(w)
        BY <3>2, <3>3, FlightTypes DEF Ends, Queue!Idle
      <3>5. CASE sessions'[w] = sessions[w]
        BY <3>2, <3>3, <3>5
      <3>6. CASE Works(w)
        BY <1>3, <3>2, <3>3, <3>6, FlightGoesOn DEF Works
      <3>7. QED
        BY <3>2, <3>4, <3>5, <3>6, FlightTypes, AtWork
    <2>4. ASSUME NEW w \in Workers PROVE Passes(w)'
      <3> SUFFICES ASSUME workers'[w].pc = "idle", sessions'[w].pc # "idle"
                   PROVE  sessions'[w].key = k /\ sessions'[w].pc \in {"run", "verify"}
        OBVIOUS
      <3>1. CASE workers[w].pc # "idle"
        <4>1. CASE sessions[w].pc = "idle"
          <5>1. workers' = workers
            BY <4>1, FlightTypes, Begun DEF StageBegins, ResumeBegins, PassBegins, queueVars
          <5>2. QED
            BY <3>1, <5>1
        <4>2. CASE sessions[w].pc # "idle"
          <5>1. ~Handles(w)
            BY <4>2, FlightTypes, HandlesAtRest DEF Gate!Finish, Gate!IdleCall
          <5>2. ~WorkerDies(w)
            BY FlightTypes DEF WorkerDies, Gate!IdleCall
          <5>3. workers'[w] = workers[w]
            BY <3>1, <5>1, <5>2, FlightTypes, OthersRest DEF Claims
          <5>4. QED
            BY <3>1, <5>3
        <4>3. QED
          BY <4>1, <4>2
      <3>2. CASE workers[w].pc = "idle" /\ sessions[w].pc # "idle"
        <4>1. sessions[w].key = k /\ sessions[w].pc \in {"run", "verify"}
          BY <2>2, <3>2 DEF FlightHeld
        <4>2. ~Ends(w)
          BY FlightTypes DEF Ends, Gate!IdleCall
        <4>3. CASE Works(w)
          BY <1>3, <3>2, <4>1, <4>3, FlightGoesOn DEF Works
        <4>4. QED
          BY <4>1, <4>2, <4>3, FlightTypes, AtWork
      <3>3. CASE workers[w].pc = "idle" /\ sessions[w].pc = "idle"
        <4>1. PassBegins(w)
          BY <3>3, FlightTypes, Begun DEF StageBegins, ResumeBegins
        <4>2. PICK j \in Keys : Orphan(j) /\ Begins(w, "run", j)
          BY <4>1 DEF PassBegins
        <4>3. PICK u \in Stages : j \in ActionOf[u]
          BY <4>2 DEF Orphan, StageOf, Stages
        <4>4. u = t
          BY <4>3, FlightTypes
        <4>5. j \notin ApprovalKeys
          <5>1. rows[j].state # "absent"
            BY <4>2, FlightTypes DEF Orphan
          <5>2. QED
            BY <1>3, <4>3, <4>4, <5>1, NoneAsked DEF Asked
        <4>6. j = k
          BY <2>2, <4>2, <4>3, <4>4, <4>5 DEF FlightHeld, Orphan, Flying
        <4>7. QED
          BY <4>2, <4>6 DEF Begins
      <3>4. QED
        BY <3>1, <3>2, <3>3
    <2>5. QED
      BY <1>1, <2>1, <2>3, <2>4 DEF FlightHeld, Flying
  <1>4. QED
    BY <1>2, <1>3

(* worker.py: "An orphaned row must reach terminal before its task returns to
   `pending`", or the stage that is claimed again "is refused all over again".
   It is not, in an agency of one worker whose probes answer and of whose stages
   one acts. *)
THEOREM ReclaimedSafe ==
    ASSUME PatientOperator, OneWorker, ~FlakyWorld, OneGateAStage, OneActingStage
    PROVE  Spec => []ReclaimedIsNotRefused
  <1>1. Init => ReclaimInv
    <2>1. Init => RestInv
      BY RestHolds
    <2>2. Init => GatedLast /\ Answered /\ FlightsHeld
      BY AgencyAssumption
      DEF Init, Gate!Init, Gate!NoRow, Gate!IdleCall, GatedLast, Asked, Answered, FlightsHeld,
          Flying, Gate!InFlight, Stages
    <2>3. Init => HeldIsLeased /\ RetryOfLanded
      BY DEF Init, Queue!Init, Queue!Idle, Queue!NoRetry, HeldIsLeased, RetryOfLanded, Queue!Owner,
         Retrying
    <2>4. QED
      BY <2>1, <2>2, <2>3 DEF ReclaimInv
  <1>2. ReclaimInv /\ [Next]_vars => ReclaimInv'
    <2> SUFFICES ASSUME ReclaimInv, [Next]_vars PROVE ReclaimInv'
      OBVIOUS
    <2>1. OneAtATime
      BY DEF OneAtATime
    <2>2. /\ RestInv /\ Base /\ WorkerCalls /\ GatedLast /\ HeldIsLeased /\ RetryOfLanded
          /\ Answered
      BY DEF ReclaimInv, RestInv, PatientInv
    <2>3. RestInv'
      BY <2>2, RestHolds
    <2>4. GatedLast'
      BY <2>2, GatedLastStep
    <2>5. HeldIsLeased' /\ RetryOfLanded'
      BY <2>2, HeldIsLeasedStep, RetryOfLandedStep
    <2>6. Answered'
      BY <2>2, AnsweredStep
    <2>7. FlightsHeld'
      BY <2>1, FlightsHeldStep
    <2>8. QED
      BY <2>3, <2>4, <2>5, <2>6, <2>7 DEF ReclaimInv
  <1>3. ReclaimInv => ReclaimedIsNotRefused
    <2> SUFFICES ASSUME ReclaimInv, NEW w \in Workers,
                        sessions[w].outcome = "ActionInProgress",
                        sessions[w].key \notin ApprovalKeys,
                        rows[sessions[w].key].state \in Gate!InFlight
                 PROVE  FALSE
      BY DEF ReclaimedIsNotRefused, Outcome
    <2> DEFINE k == sessions[w].key
               t == workers[w].task
    <2>1. sessions[w].pc = "returned" /\ workers[w].pc = "handling"
      BY DEF ReclaimInv, Answered
    <2>2. InStageCall(w)
      <3>1. WorkerCall(w)
        BY DEF ReclaimInv, RestInv, PatientInv, WorkerCalls
      <3>2. ~InPassCall(w)
        BY <2>1 DEF InPassCall
      <3>3. ~InResumeCall(w)
        BY DEF InResumeCall, OneActingStage
      <3>4. QED
        BY <2>1, <3>1, <3>2, <3>3 DEF WorkerCall
    <2>3. t \in Stages /\ k \in ActionOf[t] \ ApprovalKeys
      <3>1. t \in Tasks
        BY Types DEF ReclaimInv, RestInv, PatientInv
      <3>2. QED
        BY <2>2, <3>1 DEF InStageCall, Stages
    <2>4. Queue!Owner(w, t)
      BY <2>1 DEF Queue!Owner, Queue!Task, Queue!PCs
    <2>5. FlightHeld(t, k)
      BY <2>3 DEF ReclaimInv, FlightsHeld, Flying
    <2>6. QED
      BY <2>1, <2>4, <2>5 DEF FlightHeld
  <1>4. QED
    BY <1>1, <1>2, <1>3, PTL DEF Spec

=============================================================================
