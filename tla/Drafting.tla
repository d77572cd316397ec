------------------------------ MODULE Drafting ------------------------------
(***************************************************************************)
(* A stage's model calls, and what they cost.  A stage that writes copy    *)
(* drafts, checks the draft's numerals and has it reviewed, and revises at *)
(* most so often; the site stage builds a page, has it looked at, and      *)
(* revises it once.  Every call is tried a few times within a budget of    *)
(* time, leaves a row in the ledger when it returns, and is refused once   *)
(* the run's tokens are spent.                                             *)
(*                                                                         *)
(* A stage writes its artifacts, its ledger rows and its memo entries in   *)
(* one transaction: it commits them all when it ends, and when it raises,  *)
(* or its worker dies, it loses them all.  The site stage alone commits    *)
(* before it asks for its deploy, and may fail after that.                 *)
(***************************************************************************)
EXTENDS Integers, FiniteSets, Functions

CONSTANTS
    Briefs,        \* the contents of briefs; a run is named by its brief
    StagesOf,      \* brief -> the stages its run selects
    Workers,
    Operators,     \* the requests to retry a stage that are served at once
    MaxRevisions,  \* MAX_REVISIONS of pack.py
    Attempts,      \* MODEL_RETRY_ATTEMPTS of retry.py
    RunBudget,     \* RUN_BUDGET_USD, in calls
    TokenLimit,    \* RUN_TOKEN_LIMIT, in calls
    MaxTrouble     \* a bound of the model: the retries and the deaths, together

Stages == {"copy", "demand", "site"}

ASSUME DraftingAssumption ==
    /\ Briefs # {} /\ IsFiniteSet(Briefs) /\ IsFiniteSet(Workers) /\ IsFiniteSet(Operators)
    /\ StagesOf \in [Briefs -> SUBSET Stages]
    /\ MaxRevisions \in Nat /\ Attempts \in Nat \ {0}
    /\ RunBudget \in Nat /\ TokenLimit \in Nat /\ MaxTrouble \in Nat

VARIABLES
    runs,     \* brief -> the status of its run
    stages,   \* brief, stage -> the state of its task
    ledger,   \* brief -> the committed rows of `agent_calls`
    cached,   \* the briefs with a page in `agent_cache`
    workers,
    operators,  \* slot -> what a retry under way has read
    trouble,  \* the retries and the deaths so far
    astray    \* a history: the runs that were settled over a stage yet to run

books == <<runs, stages, ledger, cached, operators, trouble>>
draftingVars == <<books, workers, astray>>

RunStates == {"none", "running", "succeeded", "failed", "halted_budget"}
StageStates == {"absent", "pending", "running", "done", "failed"}

(* A page is abstracted to whether its numbers are the business's own, the
   design tells it shows, and how much text is on it. *)
Pages == [grounded : BOOLEAN, tells : 0 .. 1, text : 0 .. 2]
NoPage == [grounded |-> FALSE, tells |-> 0, text |-> 0]

Calls == {"draft", "review", "build", "critique", "revise"}

Worker ==
    [pc : {"idle", "check", "page", "write", "stored", "requesting", "rollup"} \cup Calls,
     run : Briefs, stage : Stages,
     left : 0 .. 2,                     \* the deliverables still to write
     round : 0 .. MaxRevisions,         \* of the draft at hand
     attempt : 1 .. Attempts,           \* of the call at hand
     own : Nat,                         \* ledger rows not yet committed
     wrote : {"none", "clean", "flagged"},   \* the artifact it stored last
     violations : BOOLEAN,              \* what the last check or review found
     checked : -1 .. MaxRevisions,      \* the last draft whose numerals passed
     reviewed : -1 .. MaxRevisions,     \* the last draft the Reviewer approved
     page : Pages]                      \* the page kept

AnyBrief == CHOOSE b \in Briefs : TRUE

Idle == [pc |-> "idle", run |-> AnyBrief, stage |-> "copy",
         left |-> 0, round |-> 0, attempt |-> 1, own |-> 0, wrote |-> "none", violations |-> FALSE,
         checked |-> -1, reviewed |-> -1, page |-> NoPage]

NoRetry == [pc |-> "idle", run |-> AnyBrief, stage |-> "copy", status |-> "none"]

At(w, pc) == workers[w].pc = pc
Run(w) == workers[w].run

(* A worker goes on, a number of calls later; every call it comes to starts at
   its first attempt. *)
Advances(w, fields, calls) ==
    workers' = [workers EXCEPT ![w] = [f \in DOMAIN workers[w] |->
        IF f \in DOMAIN fields THEN fields[f]
        ELSE IF f = "attempt" THEN 1
        ELSE IF f = "own" THEN workers[w].own + calls
        ELSE workers[w][f]]]

Becomes(w, fields) == Advances(w, fields, 0)
Goes(w, pc) == Becomes(w, [pc |-> pc])

DraftingInit ==
    /\ runs = [b \in Briefs |-> "none"]
    /\ stages = [b \in Briefs |-> [s \in Stages |-> "absent"]]
    /\ ledger = [b \in Briefs |-> 0]
    /\ cached = {}
    /\ workers = [w \in Workers |-> Idle]
    /\ operators = [o \in Operators |-> NoRetry]
    /\ trouble = 0
    /\ astray = {}

-----------------------------------------------------------------------------
(* Claiming, and the budget. *)

After(s) == IF s = "site" THEN {"copy"} ELSE {}

Overspent(b) == ledger[b] >= RunBudget

(* A slip: what a run has spent is written down, and the run goes on. *)
NotEnforced(b) == runs[b]

(* enforce_run_budget: a run that has spent its budget is halted. *)
Enforced(b) == IF runs[b] = "running" /\ Overspent(b) THEN "halted_budget" ELSE runs[b]

Start(b, s) ==
    [Idle EXCEPT !.run = b, !.stage = s, !.left = IF s = "demand" THEN 2 ELSE 0,
                 !.pc = IF s = "site" THEN "build" ELSE "draft"]

(* The claim and the budget check that follows it: a halted run's stage fails. *)
Claim(w, b, s) ==
    /\ At(w, "idle")
    /\ stages[b][s] = "pending"
    /\ \A d \in After(s) \cap StagesOf[b] : stages[b][d] = "done"
    /\ runs' = [runs EXCEPT ![b] = Enforced(b)]
    /\ IF runs'[b] = "halted_budget"
         THEN stages' = [stages EXCEPT ![b][s] = "failed"] /\ UNCHANGED workers
         ELSE /\ stages' = [stages EXCEPT ![b][s] = "running"]
              /\ workers' = [workers EXCEPT ![w] = Start(b, s)]
    /\ UNCHANGED <<ledger, cached, operators, trouble>>

(* settle_run: a run that reads `running` is settled once no stage can move. *)
Settled(status, states) ==
    IF status # "running" \/ states \cap {"pending", "running"} # {} THEN status
    ELSE IF "failed" \in states THEN "failed" ELSE "succeeded"

States(rows) == {rows[s] : s \in Stages}

(* A stage that is done has its run's budget enforced, and then the run settled. *)
RollUp(w) ==
    /\ At(w, "rollup")
    /\ runs' = [runs EXCEPT ![Run(w)] = Settled(Enforced(Run(w)), States(stages[Run(w)]))]
    /\ workers' = [workers EXCEPT ![w] = Idle]
    /\ UNCHANGED <<stages, ledger, cached, operators, trouble>>

-----------------------------------------------------------------------------
(* A model call: limits_for_run, call_with_retry, record_call. *)

Calling(w) == workers[w].pc \in Calls

(* The allowance left to a run is read from the ledger, in this transaction; a
   call that goes past it raises. *)
TokensLeft(w) == ledger[Run(w)] + workers[w].own < TokenLimit

(* record_call: the row waits, in the stage's transaction, for its commit. *)
Returned(w, fields) == Advances(w, fields, 1)

(* A slip: the attempts are not counted. *)
AskAgain(w) ==
    /\ Calling(w)
    /\ Becomes(w, [attempt |-> (workers[w].attempt % Attempts) + 1])
    /\ UNCHANGED books

(* A failure the provider means as "ask again". *)
Transient(w) ==
    /\ Calling(w)
    /\ workers[w].attempt < Attempts
    /\ Becomes(w, [attempt |-> workers[w].attempt + 1])
    /\ UNCHANGED books

(* A stage that raises is rolled back, the ledger rows of calls it has paid for
   and not committed among the rest, and fails.  Its run is settled in the same
   commit; the run's budget is not looked at. *)
Fails(w) ==
    /\ stages' = [stages EXCEPT ![Run(w)][workers[w].stage] = "failed"]
    /\ runs' = [runs EXCEPT ![Run(w)] = Settled(@, States(stages'[Run(w)]))]
    /\ workers' = [workers EXCEPT ![w] = Idle]
    /\ UNCHANGED <<ledger, cached, operators, trouble>>

(* The last attempt failed, the error was permanent, the call's time is up or
   the tokens are: whatever raises here fails the stage, but not the site's
   critique or its revision, which are then done without. *)
CallRaises(w) ==
    /\ Calling(w)
    /\ \/ /\ At(w, "critique")
          /\ Goes(w, IF workers[w].page.tells > 0 THEN "revise" ELSE "write")
          /\ UNCHANGED books
       \/ /\ At(w, "revise")
          /\ Goes(w, "write")
          /\ UNCHANGED books
       \/ ~At(w, "critique") /\ ~At(w, "revise") /\ Fails(w)

-----------------------------------------------------------------------------
(* produce() *)

(* A draft sent back is drafted again, up to the last revision. *)
NextRound(w) ==
    IF workers[w].round < MaxRevisions
      THEN [violations |-> TRUE, round |-> workers[w].round + 1, pc |-> "draft"]
      ELSE [violations |-> TRUE, pc |-> "write"]

(* A slip: a draft the Reviewer sent back is not checked for numerals again. *)
DraftedTrusting(w) ==
    /\ At(w, "draft") /\ TokensLeft(w)
    /\ Returned(w, [pc |-> IF workers[w].checked >= 0 THEN "review" ELSE "check"])
    /\ UNCHANGED books

Drafted(w) ==
    /\ At(w, "draft") /\ TokensLeft(w)
    /\ Returned(w, [pc |-> "check"])
    /\ UNCHANGED books

(* numeral_violations: only a draft without one is worth a review. *)
CheckNumerals(w) ==
    /\ At(w, "check")
    /\ \/ Becomes(w, [violations |-> FALSE, checked |-> workers[w].round, pc |-> "review"])
       \/ Becomes(w, NextRound(w))
    /\ UNCHANGED books

Reviewed(w) ==
    /\ At(w, "review") /\ TokensLeft(w)
    /\ \/ Returned(w, [violations |-> FALSE, reviewed |-> workers[w].round, pc |-> "write"])
       \/ Returned(w, NextRound(w))
    /\ UNCHANGED books

-----------------------------------------------------------------------------
(* handle_site *)

(* _write_page: a page written before for the same inputs is read back, for
   nothing; the copy or the punch list may have changed since. *)
Built(w) ==
    /\ At(w, "build")
    /\ \E page \in {p \in Pages : p.text = 2} :
         LET built == [pc |-> "page", page |-> page] IN
         \/ TokensLeft(w) /\ Returned(w, built)
         \/ Run(w) \in cached /\ Becomes(w, built)
    /\ UNCHANGED books

(* embed_fonts may refuse the page.  An ungrounded one is stored flagged, and
   goes nowhere; a page that could not be rendered is not criticised. *)
PageChecked(w) ==
    /\ At(w, "page")
    /\ \/ Fails(w)
       \/ /\ IF ~workers[w].page.grounded THEN Goes(w, "write")
             ELSE \/ Goes(w, "critique")
                  \/ Goes(w, IF workers[w].page.tells > 0 THEN "revise" ELSE "write")
          /\ UNCHANGED books

Criticised(w) ==
    /\ At(w, "critique") /\ TokensLeft(w)
    /\ \E findings \in BOOLEAN :
         Returned(w, [pc |-> IF findings \/ workers[w].page.tells > 0 THEN "revise" ELSE "write"])
    /\ UNCHANGED books

(* revise_page: discarded_empty, discarded_grounding, discarded_worse *)
Keeps(page, revised) ==
    /\ 2 * revised.text >= page.text
    /\ revised.grounded
    /\ revised.tells <= page.tells

Revised(w) ==
    /\ At(w, "revise")
    /\ \E revised \in Pages :
         LET page == workers[w].page
             kept == [pc |-> "write", page |-> IF Keeps(page, revised) THEN revised ELSE page]
         IN  \/ TokensLeft(w) /\ Returned(w, kept)
             \/ Run(w) \in cached /\ Becomes(w, kept)
    /\ UNCHANGED books

-----------------------------------------------------------------------------

Status(worker) ==
    IF (IF worker.stage = "site" THEN worker.page.grounded ELSE ~worker.violations)
      THEN "clean" ELSE "flagged"

(* What was made is stored, clean or flagged. *)
Write(w) ==
    /\ At(w, "write")
    /\ Becomes(w, [wrote |-> Status(workers[w]), pc |-> "stored"])
    /\ UNCHANGED books

(* The next deliverable of the stage is drafted, from nothing. *)
NextDeliverable(w) ==
    /\ At(w, "stored") /\ workers[w].left > 0
    /\ Becomes(w, [pc |-> "draft", left |-> workers[w].left - 1, wrote |-> "none",
                   round |-> 0, violations |-> FALSE, checked |-> -1, reviewed |-> -1])
    /\ UNCHANGED books

(* The rows of the stage are the run's from now on. *)
Commits(w, pc) ==
    /\ Becomes(w, [pc |-> pc, own |-> 0])
    /\ ledger' = [ledger EXCEPT ![Run(w)] = @ + workers[w].own]

(* A stage that writes copy ends, and its transaction commits. *)
Commit(w) ==
    /\ At(w, "stored") /\ workers[w].left = 0 /\ workers[w].stage # "site"
    /\ Commits(w, "rollup")
    /\ stages' = [stages EXCEPT ![Run(w)][workers[w].stage] = "done"]
    /\ UNCHANGED <<runs, cached, operators, trouble>>

(* handle_site commits with its stage still running, *)
CommitPage(w) ==
    /\ At(w, "stored") /\ workers[w].stage = "site"
    /\ Commits(w, "requesting")
    /\ cached' = cached \cup {Run(w)}
    /\ UNCHANGED <<runs, stages, operators, trouble>>

(* and asks the gate for its deploy, which refuses a flagged page and may refuse
   another: what was committed stands.  An approval it waits for is left out. *)
Request(w) ==
    /\ At(w, "requesting")
    /\ \/ Fails(w)
       \/ /\ workers[w].wrote = "clean"
          /\ Goes(w, "rollup")
          /\ stages' = [stages EXCEPT ![Run(w)][workers[w].stage] = "done"]
          /\ UNCHANGED <<runs, ledger, cached, operators, trouble>>

-----------------------------------------------------------------------------
(* Retries, and deaths. *)

Asking(o, pc) == operators[o].pc = pc

(* POST /tasks/{task_id}/retry: the task and its run are read, *)
RetryRead(o, b, s) ==
    /\ trouble < MaxTrouble /\ trouble' = trouble + 1
    /\ Asking(o, "idle")
    /\ stages[b][s] \in {"done", "failed"}
    /\ runs[b] # "halted_budget"
    /\ operators' = [operators EXCEPT
          ![o] = [pc |-> "retrying", run |-> b, stage |-> s, status |-> runs[b]]]
    /\ UNCHANGED <<runs, stages, ledger, cached, workers>>

(* and written later, whatever they have become: the stage is queued, and the run
   re-opened if it was read settled. *)
Retry(o) ==
    LET read == operators[o] IN
    /\ Asking(o, "retrying")
    /\ stages' = [stages EXCEPT ![read.run][read.stage] = "pending"]
    /\ runs' = [runs EXCEPT ![read.run] =
                   IF read.status \in {"succeeded", "failed"} THEN "running" ELSE @]
    /\ operators' = [operators EXCEPT ![o] = NoRetry]
    /\ UNCHANGED <<ledger, cached, workers, trouble>>

(* The stage a worker holds is in another's hands as well, or in nobody's. *)
LetGo(w) ==
    \/ At(w, "rollup")
    \/ stages[Run(w)][workers[w].stage] # "running"
    \/ \E v \in Workers \ {w} :
          ~At(v, "idle") /\ Run(v) = Run(w) /\ workers[v].stage = workers[w].stage

(* The worker dies, and the sweep re-queues its stage. *)
WorkerDies(w) ==
    /\ trouble < MaxTrouble /\ trouble' = trouble + 1
    /\ ~At(w, "idle")
    /\ \/ LetGo(w) /\ UNCHANGED stages
       \/ /\ ~At(w, "rollup") /\ stages[Run(w)][workers[w].stage] = "running"
          /\ stages' = [stages EXCEPT ![Run(w)][workers[w].stage] = "pending"]
    /\ workers' = [workers EXCEPT ![w] = Idle]
    /\ UNCHANGED <<runs, ledger, cached, operators>>

Work(w) ==
    \/ Transient(w) \/ CallRaises(w) \/ Drafted(w) \/ CheckNumerals(w) \/ Reviewed(w)
    \/ Built(w) \/ PageChecked(w) \/ Criticised(w) \/ Revised(w) \/ Write(w)
    \/ NextDeliverable(w) \/ Commit(w) \/ CommitPage(w) \/ Request(w) \/ RollUp(w)

(* The run reads settled, and a stage of it is yet to run. *)
Stray(b) ==
    runs[b] \in {"succeeded", "failed"} /\ States(stages[b]) \cap {"pending", "running"} # {}

DraftingStep ==
    \/ \E w \in Workers : (\E b \in Briefs, s \in Stages : Claim(w, b, s)) \/ Work(w)
                              \/ WorkerDies(w)
    \/ \E o \in Operators : (\E b \in Briefs, s \in Stages : RetryRead(o, b, s)) \/ Retry(o)

DraftingNext == DraftingStep /\ astray' = astray \cup {b \in Briefs : Stray(b)'}

-----------------------------------------------------------------------------
(* Properties. *)

DraftingTypeOK ==
    /\ runs \in [Briefs -> RunStates]
    /\ stages \in [Briefs -> [Stages -> StageStates]]
    /\ ledger \in [Briefs -> Nat]
    /\ cached \subseteq Briefs
    /\ workers \in [Workers -> Worker]
    /\ operators \in [Operators -> [pc : {"idle", "retrying"}, run : Briefs, stage : Stages,
                                    status : RunStates]]
    /\ astray \subseteq Briefs
    /\ trouble \in 0 .. MaxTrouble

(* produce() stores as clean only a draft whose own numerals passed and which the
   Reviewer then passed, never one that was redrafted since; and as flagged only
   the last draft it had.  A page is clean only if it is grounded itself, built
   or revised. *)
CleanPassedBoth ==
    \A w \in Workers :
        LET worker == workers[w] IN
        /\ worker.wrote = "clean" /\ worker.stage # "site"
             => worker.checked = worker.round /\ worker.reviewed = worker.round
        /\ worker.wrote = "flagged" /\ worker.stage # "site" => worker.round = MaxRevisions
        /\ worker.wrote = "clean" /\ worker.stage = "site" => worker.page.grounded

MostCalls ==
    [copy |-> 2 * (MaxRevisions + 1), demand |-> 6 * (MaxRevisions + 1), site |-> 3]

(* What a run has spent is below its budget, or past it by one stage to a worker
   and no more. *)
WithinAStage(b) ==
    \E late \in SUBSET Workers : \E last \in [late -> StagesOf[b]] :
        ledger[b] < RunBudget + FoldFunction(+, 0, [w \in late |-> MostCalls[last[w]]])

(* A run overshoots its budget by what its workers had in hand when it was spent, one
   stage each, and by no more, however often its stages are retried, or fail after
   they have committed what they spent: as long as no retry has lost to a settle, and
   left a stage of it to run under a settled run, which is never halted. *)
OvershootBounded == \A b \in Briefs \ astray : WithinAStage(b)

(* How far a stage is from its end: deliverables, then rounds, then the steps of
   a round, then attempts. *)
StepsLeft ==
    [pc \in {"check", "page", "write", "stored", "requesting", "rollup"} \cup Calls |->
        CASE pc = "rollup" -> 0 [] pc = "requesting" -> 1 [] pc = "stored" -> 2
          [] pc = "write" -> 3 [] pc \in {"review", "revise"} -> 4
          [] pc \in {"check", "critique"} -> 5 [] pc \in {"draft", "page"} -> 6
          [] pc = "build" -> 7]

Distance(worker) ==
    IF worker.pc = "idle" THEN -1
      ELSE (worker.left * (MaxRevisions + 1) + MaxRevisions - worker.round) * 8 * Attempts
             + StepsLeft[worker.pc] * Attempts + Attempts - worker.attempt

(* No stage goes on for ever: whatever fails, is asked again, sent back or read
   from the cache, every step of a worker brings its stage nearer to its end. *)
StagesRunDown ==
    [][\A w \in Workers :
          workers[w].pc # "idle" /\ workers'[w] # workers[w]
              => Distance(workers'[w]) < Distance(workers[w])]_workers
=============================================================================
