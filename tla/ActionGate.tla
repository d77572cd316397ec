----------------------------- MODULE ActionGate -----------------------------
(***************************************************************************)
(* The action gate (epyhia/gate/gate.py): the one path by which the agency *)
(* reaches the world.  The `actions` table holds a row for each            *)
(* idempotency key; request(), resume(), the operator's decisions and the  *)
(* re-verify route are calls that database sessions make concurrently, in  *)
(* a worker or in the web process, and any of them may die between two     *)
(* commits.                                                                *)
(*                                                                         *)
(* A step is one commit, one read or one call to an adapter.  A session    *)
(* works on the ORM object it loaded and writes back the columns it set,   *)
(* with no lock and no version check, so its copy of the row is state of   *)
(* its own and can be stale.                                               *)
(***************************************************************************)
EXTENDS Integers

CONSTANTS
    Keys,               \* idempotency keys, one action each
    ApprovalKeys,       \* the keys whose adapter has requires_approval
    DeferredKeys,       \* the keys whose adapter has defer_verification
    ResultKeys,         \* verify() needs the result execute() returned (publish, checkout)
    DocKeys,            \* verify() needs the run's brand doc in its context (deploy)
    Requires,           \* key -> the keys that must have succeeded before it (checkout: arming)
    Sessions,           \* database sessions, each making one call at a time
    MaxVerifyAttempts,  \* MAX_VERIFY_ATTEMPTS
    FlakyWorld          \* TRUE: a probe may miss an effect that is there (CDN lag, read lag)

ASSUME KeysAssumption ==
    /\ Keys # {}
    /\ ApprovalKeys \subseteq Keys
    /\ Requires \in [Keys -> SUBSET Keys]

ASSUME AttemptsAssumption == MaxVerifyAttempts \in Nat \ {0}

VARIABLES
    rows,      \* the `actions` table: key -> row
    sessions,  \* session -> its call: program counter, key, copy of the row
    effects,   \* key -> how many times execute() reached the world
    approved   \* the keys an approval was ever committed for (history)

vars == <<rows, sessions, effects, approved>>

-----------------------------------------------------------------------------

TerminalStates == {"succeeded", "failed", "denied"}
InFlight == {"executing", "verifying"}
RowStates == {"absent", "pending", "awaiting_approval"} \cup InFlight \cup TerminalStates
Decisions == {"none", "approved", "denied"}

Rows == [state : RowStates, decision : Decisions, result : BOOLEAN,
         evidence : BOOLEAN, attempts : 0 .. MaxVerifyAttempts]

NoRow == [state |-> "absent", decision |-> "none", result |-> FALSE,
          evidence |-> FALSE, attempts |-> 0]

PCs == {"idle", "checked", "inserted", "conflict", "run", "execute", "executed",
        "verify", "record_approval", "approve", "deny", "reverify", "returned"}

(* What a call hands its caller: the row's state, or what it raised. *)
Outcomes == RowStates \cup {"ApprovalRequired", "ActionTerminallyFailed",
                            "ActionInProgress", "PreconditionFailed", "raised"}

(* `state` and `attempts` are the loaded ORM object's, `result` says that
   _run has a result in hand (what its caller observed, the stored one, or
   what execute() returned), `doc` that ctx.brand_doc is the run's. *)
Calls == [pc : PCs, key : Keys, state : RowStates, attempts : 0 .. MaxVerifyAttempts,
          result : BOOLEAN, doc : BOOLEAN, outcome : Outcomes]

AnyKey == CHOOSE k \in Keys : TRUE
IdleCall == [pc |-> "idle", key |-> AnyKey, state |-> "absent", attempts |-> 0,
             result |-> FALSE, doc |-> FALSE, outcome |-> "absent"]

TypeOK ==
    /\ rows \in [Keys -> Rows]
    /\ sessions \in [Sessions -> Calls]
    /\ effects \in [Keys -> Nat]
    /\ approved \subseteq Keys

Init ==
    /\ rows = [k \in Keys |-> NoRow]
    /\ sessions = [s \in Sessions |-> IdleCall]
    /\ effects = [k \in Keys |-> 0]
    /\ approved = {}

-----------------------------------------------------------------------------
(* Steps of a call. *)

At(s, pc) == sessions[s].pc = pc
Key(s) == sessions[s].key
Copy(s) == sessions[s].state

(* Session s goes on at pc, its loaded object now in `state`. *)
Goto(s, pc, state) == sessions' = [sessions EXCEPT ![s].pc = pc, ![s].state = state]

(* Session s is done: its caller gets `outcome`. *)
Return(s, outcome) ==
    sessions' = [sessions EXCEPT ![s] = [IdleCall EXCEPT !.pc = "returned",
                                                         !.key = Key(s),
                                                         !.outcome = outcome]]

(* Session s starts a call on key k, with what it loads from the row. *)
Begin(s, pc, k, result, doc) ==
    /\ At(s, "idle")
    /\ sessions' = [sessions EXCEPT ![s] =
         [pc |-> pc, key |-> k, state |-> rows[k].state, attempts |-> rows[k].attempts,
          result |-> result, doc |-> doc, outcome |-> "absent"]]

(* The brand doc is a matter only for a verify() that reads it. *)
DocFor(k) == {doc \in BOOLEAN : doc => k \in DocKeys}

-----------------------------------------------------------------------------
(* request() *)

(* _check_preconditions: what must have succeeded is read in a step of its
   own, before the insert.  A refusal writes nothing. *)
PreconditionsMet(k) == \A p \in Requires[k] : rows[p].state = "succeeded"

RequestCheck(s, k) ==
    /\ PreconditionsMet(k)
    /\ \E doc \in DocFor(k) : Begin(s, "checked", k, FALSE, doc)
    /\ UNCHANGED <<rows, effects, approved>>

(* INSERT ... ON CONFLICT DO NOTHING, committed before anything else. *)
PendingRow == [NoRow EXCEPT !.state = "pending"]

(* A slip: ON CONFLICT DO UPDATE, which starts the row over. *)
RequestUpsert(s) ==
    /\ At(s, "checked")
    /\ rows' = [rows EXCEPT ![Key(s)] = PendingRow]
    /\ Goto(s, "inserted", "pending")
    /\ UNCHANGED <<effects, approved>>

RequestInsert(s) ==
    /\ At(s, "checked")
    /\ IF rows[Key(s)].state = "absent"
         THEN /\ rows' = [rows EXCEPT ![Key(s)] = PendingRow]
              /\ Goto(s, "inserted", "pending")
         ELSE /\ Goto(s, "conflict", "absent")
              /\ UNCHANGED rows
    /\ UNCHANGED <<effects, approved>>

(* Lost the race, or a re-run against the same key: the row is read, and the
   caller gets the result or the exception that stands for its state. *)
ConflictOutcome(state) ==
    CASE state = "succeeded"              -> "succeeded"
      [] state \in {"failed", "denied"}   -> "ActionTerminallyFailed"
      [] state = "awaiting_approval"      -> "ApprovalRequired"
      [] OTHER                            -> "ActionInProgress"

RequestConflict(s) ==
    /\ At(s, "conflict")
    /\ Return(s, ConflictOutcome(rows[Key(s)].state))
    /\ UNCHANGED <<rows, effects, approved>>

(* A gated action is durably awaiting_approval before ApprovalRequired is
   raised; any other goes straight on to _run. *)
RequestPark(s) ==
    /\ At(s, "inserted")
    /\ Key(s) \in ApprovalKeys
    /\ rows' = [rows EXCEPT ![Key(s)].state = "awaiting_approval"]
    /\ Return(s, "ApprovalRequired")
    /\ UNCHANGED <<effects, approved>>

(* A slip: requires_approval is not consulted. *)
RequestRunUngated(s) ==
    /\ At(s, "inserted")
    /\ Goto(s, "run", Copy(s))
    /\ UNCHANGED <<rows, effects, approved>>

RequestRun(s) ==
    /\ At(s, "inserted")
    /\ Key(s) \notin ApprovalKeys
    /\ Goto(s, "run", Copy(s))
    /\ UNCHANGED <<rows, effects, approved>>

-----------------------------------------------------------------------------
(* The operator: record_approval(), approve(), deny(), and the re-verify
   route.  Each reads the row, and commits its decision in a later step. *)

(* A slip: an approval already recorded is not looked at. *)
UndecidedIfParked(row) == row.state = "awaiting_approval"

Undecided(row) == row.state = "awaiting_approval" /\ row.decision = "none"

Decide(s, k, call) ==
    /\ Undecided(rows[k])
    /\ Begin(s, call, k, FALSE, FALSE)
    /\ UNCHANGED <<rows, effects, approved>>

RecordApproval(s) ==
    /\ At(s, "record_approval")
    /\ rows' = [rows EXCEPT ![Key(s)].decision = "approved"]
    /\ approved' = approved \cup {Key(s)}
    /\ Return(s, Copy(s))
    /\ UNCHANGED effects

(* approve() commits the same decision and then runs the action itself. *)
Approve(s) ==
    /\ At(s, "approve")
    /\ rows' = [rows EXCEPT ![Key(s)].decision = "approved"]
    /\ approved' = approved \cup {Key(s)}
    /\ \E doc \in DocFor(Key(s)) :
         sessions' = [sessions EXCEPT ![s].pc = "run", ![s].doc = doc]
    /\ UNCHANGED effects

Deny(s) ==
    /\ At(s, "deny")
    /\ rows' = [rows EXCEPT ![Key(s)].state = "denied", ![Key(s)].decision = "denied"]
    /\ Return(s, "denied")
    /\ UNCHANGED <<effects, approved>>

(* A slip: any action with a recorded result may be verified again. *)
ReverifyReadAny(s, k) ==
    /\ rows[k].result
    /\ Begin(s, "reverify", k, FALSE, FALSE)
    /\ UNCHANGED <<rows, effects, approved>>

(* reverify_action: only a failed action whose execute() result is recorded. *)
ReverifyRead(s, k) ==
    /\ rows[k].state = "failed"
    /\ rows[k].result
    /\ Begin(s, "reverify", k, FALSE, FALSE)
    /\ UNCHANGED <<rows, effects, approved>>

Reverify(s) ==
    /\ At(s, "reverify")
    /\ rows' = [rows EXCEPT ![Key(s)].state = "verifying", ![Key(s)].attempts = 0]
    /\ Return(s, "verifying")
    /\ UNCHANGED <<effects, approved>>

-----------------------------------------------------------------------------
(* resume() *)

(* A slip: a row still awaiting its decision is re-driven like any other. *)
ResumableUndecided(row) == row.state \notin {"absent", "pending"}

(* The rows something re-drives: a decided one or a re-verified one through
   its `resume` task, one in flight through the sweeper's orphan pass or the
   payment webhook, one that has its verdict by an event or a task that comes
   again.  Nothing calls resume() for a row still `pending`. *)
Resumable(row) == row.decision # "none" \/ row.state \in InFlight \cup TerminalStates

(* `observed` is the caller's own `result`, the webhook's session id. *)
Resume(s, k, observed, doc) ==
    /\ IF rows[k].state \in TerminalStates
         THEN /\ At(s, "idle")
              /\ sessions' = [sessions EXCEPT ![s] =
                    [IdleCall EXCEPT !.pc = "returned", !.key = k,
                                     !.outcome = rows[k].state]]
         ELSE Begin(s, "run", k, observed \/ rows[k].result, doc)
    /\ UNCHANGED <<rows, effects, approved>>

-----------------------------------------------------------------------------
(* _run() *)

(* Which branch _run takes is settled by the copy, not by the row. *)
RunExecute(s) ==
    /\ At(s, "run")
    /\ Copy(s) \in {"pending", "awaiting_approval"}
    /\ rows' = [rows EXCEPT ![Key(s)].state = "executing"]
    /\ Goto(s, "execute", "executing")
    /\ UNCHANGED <<effects, approved>>

(* The call to the provider: its effect, and (next step) what it returns. *)
Execute(s) ==
    /\ At(s, "execute")
    /\ effects' = [effects EXCEPT ![Key(s)] = @ + 1]
    /\ Goto(s, "executed", Copy(s))
    /\ UNCHANGED <<rows, approved>>

(* A slip: a failed execute() leaves the row to be driven again. *)
ExecuteRaisesRetryable(s) ==
    /\ At(s, "execute") \/ At(s, "executed")
    /\ rows' = [rows EXCEPT ![Key(s)].state = "awaiting_approval"]
    /\ Return(s, "raised")
    /\ UNCHANGED <<effects, approved>>

(* execute() raises, with or without having reached the world. *)
ExecuteRaises(s) ==
    /\ At(s, "execute") \/ At(s, "executed")
    /\ rows' = [rows EXCEPT ![Key(s)].state = "failed"]
    /\ Return(s, "raised")
    /\ UNCHANGED <<effects, approved>>

(* `verifying` and the result, in one commit; a deferred action returns. *)
ExecuteReturns(s) ==
    /\ At(s, "executed")
    /\ rows' = [rows EXCEPT ![Key(s)].state = "verifying", ![Key(s)].result = TRUE]
    /\ IF Key(s) \in DeferredKeys
         THEN Return(s, "verifying")
         ELSE sessions' = [sessions EXCEPT ![s].pc = "verify", ![s].state = "verifying",
                                           ![s].result = TRUE]
    /\ UNCHANGED <<effects, approved>>

(* A slip: a resumed row's word is taken for its effect. *)
RunVerifyTrusting(s) ==
    /\ At(s, "run")
    /\ Copy(s) \in InFlight
    /\ rows' = [rows EXCEPT ![Key(s)].state = "succeeded"]
    /\ Return(s, "succeeded")
    /\ UNCHANGED <<effects, approved>>

(* Resumed after a crash: execute() is not called again. *)
RunVerify(s) ==
    /\ At(s, "run")
    /\ Copy(s) \in InFlight
    /\ rows' = [rows EXCEPT ![Key(s)].state =
                  IF Copy(s) = "executing" THEN "verifying" ELSE @]
    /\ Goto(s, "verify", "verifying")
    /\ UNCHANGED <<effects, approved>>

(* What the probe needs to see the effect: the effect, and whatever verify()
   cannot derive from the request alone. *)
Provable(s) ==
    /\ effects[Key(s)] > 0
    /\ Key(s) \in ResultKeys => sessions[s].result
    /\ Key(s) \in DocKeys => sessions[s].doc

AttemptsLeft(s) == sessions[s].attempts < MaxVerifyAttempts

VerifyFails(s) ==
    /\ At(s, "verify")
    /\ AttemptsLeft(s)
    /\ FlakyWorld \/ ~Provable(s)
    /\ rows' = [rows EXCEPT ![Key(s)].attempts = sessions[s].attempts + 1]
    /\ sessions' = [sessions EXCEPT ![s].attempts = @ + 1]
    /\ UNCHANGED <<effects, approved>>

VerifySucceeds(s) ==
    /\ At(s, "verify")
    /\ AttemptsLeft(s)
    /\ Provable(s)
    /\ rows' = [rows EXCEPT ![Key(s)].state = "succeeded", ![Key(s)].evidence = TRUE]
    /\ Return(s, "succeeded")
    /\ UNCHANGED <<effects, approved>>

(* verify() raises something else than VerificationFailed: the row keeps its
   state and the exception leaves the gate. *)
VerifyRaises(s) ==
    /\ At(s, "verify")
    /\ AttemptsLeft(s)
    /\ FlakyWorld
    /\ Return(s, "raised")
    /\ UNCHANGED <<rows, effects, approved>>

(* A slip: at the cap the loop starts over. *)
VerifyStartsOver(s) ==
    /\ At(s, "verify")
    /\ ~AttemptsLeft(s)
    /\ rows' = [rows EXCEPT ![Key(s)].attempts = 0]
    /\ sessions' = [sessions EXCEPT ![s].attempts = 0]
    /\ UNCHANGED <<effects, approved>>

VerifyGivesUp(s) ==
    /\ At(s, "verify")
    /\ ~AttemptsLeft(s)
    /\ rows' = [rows EXCEPT ![Key(s)].state = "failed"]
    /\ Return(s, "failed")
    /\ UNCHANGED <<effects, approved>>

-----------------------------------------------------------------------------

(* The caller has its outcome and the session is free for another call. *)
Finish(s) ==
    /\ At(s, "returned")
    /\ sessions' = [sessions EXCEPT ![s] = IdleCall]
    /\ UNCHANGED <<rows, effects, approved>>

(* The process dies.  What it committed stays, its copy of the row does not. *)
Crash(s) ==
    /\ ~At(s, "idle")
    /\ sessions' = [sessions EXCEPT ![s] = IdleCall]
    /\ UNCHANGED <<rows, effects, approved>>

(* What somebody may ask of the gate. *)
Call(s) ==
    \E k \in Keys :
        \/ RequestCheck(s, k)
        \/ \E call \in {"record_approval", "approve", "deny"} : Decide(s, k, call)
        \/ ReverifyRead(s, k)
        \/ /\ Resumable(rows[k])
           /\ \E observed \in {o \in BOOLEAN : o => k \in DeferredKeys}, doc \in DocFor(k) :
                 Resume(s, k, observed, doc)

(* What a call does once begun. *)
Step(s) ==
    \/ RequestInsert(s) \/ RequestConflict(s) \/ RequestPark(s) \/ RequestRun(s)
    \/ RecordApproval(s) \/ Approve(s) \/ Deny(s) \/ Reverify(s)
    \/ RunExecute(s) \/ Execute(s) \/ ExecuteRaises(s) \/ ExecuteReturns(s)
    \/ RunVerify(s) \/ VerifyFails(s) \/ VerifySucceeds(s) \/ VerifyRaises(s)
    \/ VerifyGivesUp(s) \/ Finish(s)

Next == \E s \in Sessions : Call(s) \/ Step(s) \/ Crash(s)

Spec == Init /\ [][Next]_vars

(* A begun call is driven on: every await on a provider has a timeout and the
   event loop runs what is ready.  Nothing obliges anyone to make a call. *)
FairSpec == Spec /\ \A s \in Sessions : WF_vars(Step(s))

-----------------------------------------------------------------------------
(* Properties. *)

(* A row that says `succeeded` carries a probe's evidence and its effect is in
   the world, whatever stale session last wrote the row. *)
SuccessIsProved ==
    \A k \in Keys : rows[k].state = "succeeded" => rows[k].evidence /\ effects[k] > 0

(* Nothing that needs an approval reaches the world without one: not through a
   re-run, a crash, a sweep, or a decision that lost a race to another. *)
ApprovalBeforeEffect ==
    \A k \in ApprovalKeys : effects[k] > 0 => k \in approved

(* An action no human gates reaches the world once, however often it is
   requested and re-driven and wherever its sessions die. *)
AutomaticOnce ==
    \A k \in Keys \ ApprovalKeys : effects[k] <= 1

(* An effect comes after the proof of what it requires, and after the approval
   that proof took: no checkout session is ever opened unless a human said the
   run may take money and every price was re-read. *)
RequiredFirst ==
    \A k \in Keys : effects[k] > 0 =>
        \A p \in Requires[k] : rows[p].evidence /\ (p \in ApprovalKeys => p \in approved)

(* Every action reaches the world at most once, crashes and re-drives
   included.  This is what one driver at a time gives; two sessions that
   loaded the same awaiting row can each execute it. *)
EffectAtMostOnce == \A k \in Keys : effects[k] <= 1

(* A verdict is final: no session, and no copy of the row loaded before the
   verdict, takes `succeeded` or `denied` back. *)
VerdictSticks ==
    [][\A k \in Keys : rows[k].state \in {"succeeded", "denied"}
                          => rows'[k].state = rows[k].state]_vars

(* Every call returns to its caller, the verify loop included, even when the
   probes keep failing and other sessions write the same row. *)
EveryCallReturns ==
    \A s \in Sessions : sessions[s].pc # "idle" ~> sessions[s].pc = "idle"

-----------------------------------------------------------------------------
(* Why the invariants hold: an inductive strengthening of them. *)

(* The one session that may still start a row's first execution: the one that
   inserted it, and, for an action nobody approves, the one executing it. *)
Fresh(s) == At(s, "inserted") \/ (At(s, "run") /\ Copy(s) = "pending")
Holder(s) == Fresh(s) \/ (At(s, "execute") /\ Key(s) \notin ApprovalKeys)

HolderIsFirst ==
    \A s \in Sessions :
        /\ Fresh(s) => rows[Key(s)].state = "pending"
        /\ Holder(s) => /\ effects[Key(s)] = 0
                        /\ \A t \in Sessions : Holder(t) /\ Key(t) = Key(s) => t = s

(* What a session at work on a row may rely on: it was inserted, it is no
   longer `pending` unless the session is the one that inserted it, and its
   execution is licensed. *)
Licensed(s) ==
    /\ At(s, "checked") => \A p \in Requires[Key(s)] : rows[p].evidence
    /\ sessions[s].pc \in {"run", "execute", "executed", "verify",
                           "record_approval", "approve", "deny", "reverify"}
         => rows[Key(s)].state \notin {"absent", "pending"} \/ Fresh(s)
    /\ At(s, "inserted") => Copy(s) = "pending"
    /\ At(s, "run") =>
         /\ Copy(s) \in {"pending", "awaiting_approval"} \cup InFlight
         /\ Copy(s) = "pending" => Key(s) \notin ApprovalKeys
         /\ Copy(s) = "awaiting_approval" => Key(s) \in approved \cap ApprovalKeys
    /\ At(s, "approve") => Copy(s) = "awaiting_approval" /\ Key(s) \in ApprovalKeys
    /\ At(s, "execute") \/ At(s, "executed")
         => (Key(s) \in ApprovalKeys => Key(s) \in approved)

CallsAreLicensed == \A s \in Sessions : Licensed(s)

RowsAreHonest ==
    \A k \in Keys :
        /\ rows[k].state \in {"absent", "pending"}
             => rows[k].decision = "none" /\ effects[k] = 0
        /\ rows[k].state # "absent" => \A p \in Requires[k] : rows[p].evidence
        /\ rows[k].state = "awaiting_approval"
             => k \in ApprovalKeys /\ rows[k].decision # "denied"
        /\ rows[k].decision = "approved" => k \in approved
        /\ rows[k].state = "succeeded" => rows[k].evidence
        /\ rows[k].evidence => effects[k] > 0

Inv == /\ TypeOK /\ HolderIsFirst /\ CallsAreLicensed /\ RowsAreHonest
       /\ ApprovalBeforeEffect /\ AutomaticOnce

-----------------------------------------------------------------------------
(* The gate implements its ledger. *)

Ledger == INSTANCE ActionLedger
            WITH proved <- {k \in Keys : rows[k].evidence}

LedgerSpec == Ledger!Spec
=============================================================================
