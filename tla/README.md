# EPYHIA in TLA+

EPYHIA takes a client's brief and runs a small marketing agency on it: agents
write copy, build a site, price products, and publish, and everything that
reaches the outside world (a deploy, a Stripe product, an e-mail, a post) passes
one gate that a human can hold shut. This directory models that machinery: what
it promises, where the promise rests on an order of commits, and what a crash, a
second worker or a second click does to it.

Paths below are relative to the repository's root.

- [The system](#the-system)
- [The modules](#the-modules)
- [The runs](#the-runs)
- [Bounds](#bounds)
- [Fairness](#fairness)
- [What is proved](#what-is-proved)
- [Where the code and its documents disagree](#where-the-code-and-its-documents-disagree)
- [What is not modelled](#what-is-not-modelled)
- [Plan](#plan)

## The system

Two kinds of process share one Postgres database: the *web* process (FastAPI:
briefs, the operator's routes, the buyer's checkout, Stripe's webhook, read
routes) and any number of *worker* processes, each an endless loop of recovery
passes and `run_once` (`epyhia/queue/worker.py`). They talk through rows alone.

| Component | State | Operations | Hard behaviour | What makes it correct |
|---|---|---|---|---|
| Action gate (`gate/gate.py`) | `actions`: state, decision, result, evidence, attempts, one row per idempotency key | `request`, `record_approval`, `approve`, `deny`, `resume`, the verify loop | sessions work on ORM copies without locks; a crash between any two commits | no effect without its approval; one effect per key; no success without evidence; calls return |
| Gate adapters (`gate/adapters/`) | the provider's world | `execute`, `verify` | an effect without an answer; probes that lag; proof that needs the result, the brand doc or a buyer | the probe reads the world |
| Task queue (`queue/claim.py`, `worker.py`, `sweeper.py`, `settle.py`) | `tasks`: state, lease, attempts; `runs.status` | claim, `run_once`, sweep, settle, retry | leases lapse under dead workers; every UPDATE names its row by id alone; settle reads what others have not committed; a run's status is read long before it is written | one worker per stage; a run settles only when nothing can move; a halt yields to a re-open under way at most |
| Resume handler and orphan pass (`handlers/resume.py`, `sweeper.py:52-104`) | none of their own | release a parked stage; re-drive actions in flight | redelivery; two passes at once; a pass and a living worker | actions reach a terminal state, before their tasks are claimed again |
| Operator routes (`api/routers/actions.py`, `tasks.py`) | the decision, the `resume` task | approve, deny, re-verify, retry | two commits per click; two clicks at once | a decision lands; a denial is final |
| Pipeline, stage handlers (`queue/pipeline.py`, `queue/handlers/`) | new `tasks` rows, artifacts | plan, copy, site, demand, money, video, publish, send_email | an upstream artifact or the brand document changes under a stage; a pack written again | what leaves the house is clean; each post has one task; a launch follows a live page |
| Brand documents, artifacts (`api/routers/brand_docs.py`, `artifacts/store.py`, `handlers/pack.py`) | versions; generations and revisions | edit; draft, check, review, revise, store | a version read while another is written; a draft revised after its checks | a clean artifact passed both checks itself |
| Agents, cost ledger, run budget (`agents/`, `cost/`) | `agent_calls`, `runs.spend_usd`, the web builder's memo | call, retry, record, roll up, halt | spend inside a stage, checked between stages; a rollback takes rows with it; a stage that fails behind its commit | stages end; overshoot is bounded |
| Intake (`api/routers/briefs.py`, `ingest/guardrail.py`) | `briefs`, `runs` | deduplicate, check the ceiling, screen, open | two identical briefs at once; a ceiling read before the run it admits | one decision per brief; the ceiling is passed only by what was in flight |
| Payment catalogue (`agents/ops.py`, Stripe adapters) | products and prices at Stripe, their actions, the arming | wire, find or create, arm, prove, resolve a slug | lost answers; archivings; rows that share a key or a slug | what reads proved exists; what is armed, and charged, is what was approved |
| Checkout, webhook, orders (`api/routers/checkout.py`, `webhooks.py`) | `orders`, the checkout's action | open a session, record a sale, resume the action | events twice, overlapping, before payment | one order per event; a sale is its own buyer's payment |
| Timeline (`api/routers/runs.py`, `api/sse.py`) | a connection's four cursors | connect, poll, close | rows appear in another order than their stamps; the status is read after the tables | what happened is told, once, and the stream ends |
| Design checks, texts and numbers, console, scripts | model output, text | scan, render | | |

They interact as follows. A brief opens a run with one `plan` task. A worker
claims it; its handler enqueues the stages it selected, with the dependencies
between them. A stage makes its model calls, stores its artifacts and asks the
gate for actions. An action that needs no approval is executed and proved then
and there. One that does is left `awaiting_approval`, the gate raises
`ApprovalRequired`, and the worker parks the stage and forgets it. The operator's
click records a decision and leaves a `resume` task; some worker claims that,
drives the action with `gate.resume`, and settles the parked stage off the
verdict. Between tasks each worker re-drives actions in flight whose owner looks
dead, then re-queues tasks whose lease has lapsed. A console follows all of it by
reading the tables.

## The modules

| Module | Models | Code it stands for |
|---|---|---|
| `ActionLedger` | the gate's promise: approvals, effects and proofs, with no rows, sessions or crashes | the gate's externally visible steps |
| `ActionGate` | the gate, concretely | `gate/gate.py`, the decision half of `api/routers/actions.py` |
| `TaskQueue` | one run's tasks, leases, workers, and status | `queue/claim.py`, `worker.py`, `sweeper.py`, `settle.py`, `handlers/resume.py`, `api/routers/tasks.py`, the re-opening half of `api/routers/actions.py`, `cost/budget.py` |
| `Agency` | gate and queue composed, with the orphan pass and the operator's clicks | `worker.py:73-121`, `handlers/resume.py`, `sweeper.py:52-104`, `worker.py:165-177`, `api/routers/actions.py` |
| `Checkout` | selling over the gate: clicks, sessions, events, orders | `api/routers/checkout.py`, `webhooks.py`, `CheckoutSessionAdapter`, `models/orders.py` |
| `Studio` | one run's stages and what they hand each other | `queue/pipeline.py`, `queue/handlers/`, `gate/keys.py`, `api/routers/brand_docs.py` |
| `Drafting` | the model calls inside a stage, and what they cost | `handlers/pack.py`, `site.py`, `agents/`, `cost/` |
| `Intake` | what opens a run, over the runs already drafting | `api/routers/briefs.py`, `ingest/guardrail.py`, `cost/budget.py` |
| `Catalogue` | the money stage, Stripe's books, the arming and the click's price | `agents/ops.py`, `handlers/money.py`, `gate/adapters/stripe.py`, `api/routers/checkout.py` |
| `Timeline` | the event stream, against the stages' commits | `api/routers/runs.py`, `api/sse.py` |
| `ActionGateProofs`, `TaskQueueProofs`, `AgencyProofs`, `CheckoutProofs`, `StudioProofs`, `IntakeProofs`, `CatalogueProofs`, `TimelineProofs` | theorems about the module each extends | |
| `MCTaskQueue`, `MCAgency`, `MCCheckout`, `MCStudio`, `MCIntake`, `MCCatalogue`, `MCTimeline` | instances for TLC | |

`Agency` instantiates the gate and the queue together; `Checkout` extends the gate;
`Intake` extends `Drafting`. `Studio`, `Catalogue` and `Timeline` each take what the
gate and the queue do step by step as one step, because their questions lie
between stages; what each folds is said below and in its header.

**ActionGate.** `rows` is the `actions` table. A *session* makes one call at a
time: `sessions[s].pc` is where the call is, `state` and `attempts` are the
columns of the ORM object it loaded. `expire_on_commit=False` and the absence of
any lock make that copy independent of the row, so `RunExecute` and `RunVerify`
choose their branch by the copy and write the row. One action of the module is
one commit (`RequestInsert`, `RequestPark`, `RunExecute`, `ExecuteReturns`, ...),
one read (`Decide`, `RequestConflict`) or one adapter call (`Execute`). `effects`
counts how often `execute()` reached the world, and `ExecuteRaises` may follow
with or without that. `Provable` says what a probe needs: the effect, the
recorded result for `publish` and checkout (`ResultKeys`), the run's brand doc
for a deploy (`DocKeys`). `FlakyWorld` lets probes miss what is there, and raise.
`Call` is what somebody may ask: `Resumable` lists the rows something in the code
does re-drive. `approve()` is modelled although only tests call it.

**TaskQueue.** `tasks` carries state, lease and attempts. A worker goes through
`run_once` commit by commit. `HandlerRaises` and `FailCommit` are one transaction
of the code (`worker.py:106-121`) split where `settle_run` reads the other
stages, because under READ COMMITTED it does not see their uncommitted failures.
`Release` is `_settle`'s own commit inside `handle_resume`, before the resume
task's `done`. The handler's verdict is open here (done, parked, raised) and is
settled in `Agency`. `LeaseLapses` is time.

What reads `runs.status` and writes it later is split where it waits. `Operators` are
the requests that re-open a run, any number at once: `RetryRead` and `Retry` are the
retry route's read and write; `ReopenRead`, `Reopen` and `ReopenEnqueues` the
re-verify route's read, its commit, and the `resume` task it leaves in another.
`enforce_run_budget` is `CheckBudget` or `RollUp`, which read the run, then `Enforce`,
which writes the halt whatever the run has become (`checking` behind a claim,
`summing` behind a landing, `closing` behind a park); `Settle` follows it.

**Agency.** Sessions of the gate are the workers and the operator's clicks. A
worker's task takes the gate's outcome (`StageReturns`, `ResumeReturns`), and the
recovery pass is `OrphanPass`, the gate's own steps, then `OrphanDone`, which
sweeps. `Locked` is the row lock of `FOR UPDATE ... SKIP LOCKED`: it lasts until
the pass's first commit, so a second worker's pass may (`MayBeLocked`) or may not
have skipped the row. `OrphanPass` hands `resume()` no brand doc; `ResumeCalls`
does. A click is two commits: the gate's decision, then `ClickEnqueues`. It is an operator of
the queue as well: one that re-verifies reads the run with the action (`Click`) and re-opens
it with the action's commit (`ClickReverifies`). `Retrier` is the one request to retry. A stage with
several actions asks for the gated one last (`Due`), and is done with its `LastAction`.

**Checkout.** Extends the gate; each buyer's click is a key of its own, and the
other keys are what the run must have armed. The gate's sessions are those of the
buyers, of Stripe's deliveries, and of the staff who arm the run. `checkouts` is
Stripe's world: no session, an open one, one completed with or without payment.
`orders` is the row written for the event, with the payment status the event
carried; `answered` the events Stripe will not bring again; `webhooks[d]` how far
a delivery has come through `stripe_webhook`, whose insert, `resume()` and answer
are separate steps. The checkout's probe reads the program's own database, so its
verdict is the order's and nothing else (`GateWorks`). The route's `is_armed` and
the gate's precondition are read in one step (arming is final, so what the first
saw the second sees). Price resolution only reads; events of other types and
other runs are answered without a write; an operator's re-verification of a
failed checkout is in `Agency`.

**Studio.** `tasks` is the queue of one run in the order of its inserts, `doc` the
run's brand document by version, `artifacts[kind]` the rows of a kind in the order they
were written (a generation, with its revisions), `actions` the gated actions that
take something out of the house. A task's `pc` says how far its handler is;
`Begin` is the claim with the handler's reads (`Upstream`, `Accepts`), `Handle*`
the commit of its artifacts with the tasks they feed (`NewSlots`,
`OutreachTasks`), `Request` the gate's check of its precondition and the park.
`MayMeet` is that check, per action type: a deploy's takes *some* site artifact.
`Decide` is a decision with the resume that carries it. The operator may edit
(`Edit`) and re-run (`Rerun`) at any moment, and a worker may die between a
handler's two commits. `plan` may be re-run in the module; the runs leave it out
of `Rerunnable`, because nothing in the repository says what a second plan should do.

**Drafting.** A worker's record is a stage's local state: the call it is at and its
attempt, the revision at hand, which draft passed which check, the page kept, and
`own`, the ledger rows its transaction has not committed. Spend is counted in calls. What a model writes is an open choice of
what is checked of it: a numeral that is not the business's, a Reviewer's no, the
number of tells on a page. `Fails` and `WorkerDies` roll the transaction back, the
ledger rows of calls that were answered included; `Fails` settles the run and looks at no
budget. The site stage commits before it asks for its deploy (`CommitPage`), and
`Request` is the gate's answer: a refusal fails the stage and leaves what it spent.
`RollUp` enforces the budget and settles (`Settled`). `RetryRead` and `Retry` are the route's
read and its write, which re-opens the run only if it was read settled; a retry that
read `running` and loses to a settle leaves its stage under a settled run. `astray`
records the runs that happened to, because no state shows it once the stage has
landed; the budget of such a run is not enforced while it lasts.

**Intake.** Adds the requests: `Submit` (deduplication and the ceiling's read),
`ScreenRaises`, and `Screened`, the one commit of brief, run, ledger row and
stages, with the unique constraint that a second request runs into.

**Catalogue.** `products` and `prices` are Stripe's books, `actions` the rows of the
gate for a catalogue row's product and price under their derived keys, `money`
the handler's place in `wire_catalogue`. `Create` is `execute()`'s find-or-create,
`Evidence` what `verify()` accepts; a call may fail before or after its effect
(`ExecuteRaises`), the worker may die at any point (`Dies`), the orphan pass
re-drives (`Recover`), somebody archives in Stripe's console (`Archive`). `ReadPrice`
reads the armed prices back one at a time. `Click` resolves a slug (`PriceFor`).

**Timeline.** `rows` holds the rows of the four tables with the stamp each is read by.
A stage's transaction takes its stamp when it begins (`Begin`, Postgres's `now()`)
and shows its rows when it commits; `MoveTask` stands for the queue's raw UPDATEs,
which leave the stamp alone. `stream` is the generator of `_timeline`, one step per
query. `quiet`, `still` and `ordered` are history, kept for the properties: whether
anything became readable since the connection, since the last pass began, and
whether it came in the order it began. `missed` is what a closing stream had not told.
A reader's decision to leave (`Drop`) and a halt in the middle of a stage are open
choices. A parked stage and its `resume` task are not in this module: to the stream
they are one more state of a task and one more stage.

Definitions commented as a *slip* are mutated forms of the definition that
follows them: each stands for a plausible mistake and breaks one property, which
is how the properties are known to be about the code. They occur in no
specification.

Coarsenings, named here so that they can be argued with: several orphans found by
one pass are re-driven by several passes; `Agency` has one request to retry at a time
(`TaskQueue` any number); `Drafting` takes a claim with the budget's check, and enforces and
settles in one step, because a halt committed later finds the stages it bounds in hand
either way, and the race over the status is `TaskQueue`'s; its site stage does not wait for
an approval, which costs no call; `Studio` takes a decision with its resume; `Timeline` takes a
claim with the commit of `running`; one run at a time, except in `Intake`.

## The runs

Passing:

| Run | Question |
|---|---|
| `queue_run` | Two workers, crashes, a retry or a re-verification, a decision over copy, site and its resume task. Is a stage ever in two hands? Is a halt undone by anything but a request under way before it? Does a parked stage wait, does a claimed stage land? Unless somebody re-opened it: does the run settle too early, or read `succeeded` over a failure? Does it settle when nobody crashed? |
| `agency_once` | Gate and queue together, two workers, a crash anywhere, one click at a time. Is a deploy done twice, or after a denial? Is a stage `done` without proof? |
| `agency_recovery` | One worker that may die twice, a retry, two decisions and a re-verification over a plan and its money stage, which makes a product and parks at its arming. Does a decision reach the parked stage? Is an action in flight brought to a terminal state, an automatic one before its stage is claimed again? Do verdicts stick and calls return? At rest, do stages tell the truth about their actions? |
| `checkout_sale` | Two buyers at a gated arming, each event delivered twice over, two crashes. Of the gate: is an effect ever unapproved or ahead of what it requires, does every step map to a step of `ActionLedger`, is the proofs' invariant true? Of the shop: is a sale proved by its own buyer's payment, is an event answered only when its action is settled, does every recorded payment end as a sale? |
| `studio_run` | Site and demand, an edit, a re-run, a crash, two workers. Does anything leave the house that came from a flagged artifact? Is a launch announced behind a live page only? Is a parked task one whose decision releases it? Has every post one task? |
| `spending` | Two requests, three briefs, two workers, a retry or a death, a site stage that may fail behind its commit. Did a clean draft pass both checks itself? By how much are budget and ceiling overshot, unless a retry lost to a settle? Does one decision govern a brief? Does every stage end? |
| `catalogue` | Two offers, or one in two currencies, with lost answers, deaths, re-runs and archivings. Does what reads proved exist? Is an armed run armed at its rows' prices, and a buyer charged what the row says? |
| `timeline` | Two connections to two overlapping stages that fail, are re-run or halted. Is anything told twice? What may a stream that closes have missed? Does it close? |

Each passing run has one mutant of the code's translation per property, in
`PROJECT.json`; TLC finds each property broken by its mutant.

Violations, each a disagreement described below: `agency_double_click`,
`studio_flagged_deploy`, `catalogue_intervals`, `timeline_overlap`.

The passing runs hold under assumptions that are constants of the models, so the
price of each can be seen by changing a line of a `.cfg`:

| Constant | Passing runs assume | Without it |
|---|---|---|
| `PunctualWorkers` | a lease lapses only under a dead worker | `OneWorkerPerTask` fails: UPDATEs name rows by id alone. The default lease is two minutes (`claim.py:6`), and a verify loop with its backoff (`gate.py:46-51`) may take more than one |
| `MaxRetries = 1` in `queue_run` | the operator retries, or re-verifies, once | with 2, `OneWorkerPerTask` and `ParkedWaitsForRelease` fail: a `resume` task redelivered after a crash releases a stage that is in a worker's hands again |
| `PatientOperator` | one click at a time | `EffectAtMostOnce` (`agency_double_click`) and `DeniedNeverExecutes` fail |
| `WebDies = FALSE` in `agency_recovery` | no crash between a decision and its resume task | `DecisionIsCarried` fails: the decided row refuses a second click |
| `Workers = {w1}` in `agency_recovery` | one worker | `StageTellsTheTruth`, `DecisionLands` and `ReclaimedIsNotRefused` fail: a late verdict overwrites the true one; a decision falls between the gate's commit and the worker's park; a second pass skips the locked orphan and re-queues its task |
| `AttemptsCap = 2` in `agency_recovery` | a `resume` task survives every crash of the run | with 1, `DecisionLands` fails: a `resume` task past its cap is failed by the sweep, and the stage it would release stays parked |

Two assumptions are antecedents of properties of `queue_run`. `crashes = 0` in
`UncrashedRunSettles`: a crash behind the last `done` leaves nobody to settle the
run. `Unretried` in `SettledIsQuiet` and its neighbours, for retries and re-verifications: the
retry route reads `running`, the last stage settles, and the route re-queues without
re-opening. `OvershootBounded` excepts the runs of `astray` for that reason.

## Bounds

- `MaxVerifyAttempts` is 5 in the code, 1 or 2 in the runs: the loop's two ends
  (an attempt left, none left) and one turn between them are all it tells apart.
- `AttemptsCap` is 5 in the code, 1 in the runs: one redelivery below the cap and
  one past it; 2 in `agency_recovery`, where no task passes it.
- `MaxCrashes`, `MaxRetries`, `MaxReruns`, `MaxRequeues`, `MaxTrouble` bound what may
  happen, not what must. Two crashes take a task past its cap, and a resume through a
  redelivery of its redelivery; one re-run re-opens what a crash or a settle left.
- One stage with actions per `Agency` instance: one action, or in `agency_recovery` two,
  the gated one behind the automatic one. `Requires` is instantiated by
  `checkout_sale`, with two buyers and what they require.
- Two sessions or two workers: every race in the gate is between a copy and one
  other writer. The theorems hold for any number.
- Two buyers in `checkout_sale`: whose order proves whose sale takes two. Two
  deliveries: every race of a repeat is with one earlier delivery.
- `Slots` = 2, `MaxEdits` = `MaxReruns` = `MaxCrashes` = 1 in `studio_run`: a pack that grows or
  shrinks by a post, one document older than the newest, one stage out of step with
  the others. `MaxRevisions` = 0: revisions are `Drafting`'s subject. The Strategist
  selects site and demand, demand alone, or the money stage alone.
- `MaxRevisions` = 1, `Attempts` = 2 in `spending` (2 and 3 in the code): a first, a last.
  `RunBudget` = 4 calls is spent in the middle of a stage; `Ceiling` = 1 is passed by two requests that read it at once.
- Two rows in `catalogue`; three troubles (lost answers, deaths, re-runs) and two
  archivings reach every pair of them around one price.
- `MaxTime` = 3 in `timeline`: two transactions beyond the enqueuing, which is what overlap
  takes; two connections, the second of which is late.

The largest run has about 550,000 states (`timeline`); `spending` has some 476,000
under symmetry of its workers and requests, `queue_run` 248,000, `checkout_sale` 175,000.
`CHECK_DEADLOCK FALSE` everywhere, because these systems really end: all stages
landed, all events answered, all connections spent.

## Fairness

- Weak fairness of a begun step of a worker or a request (`Work`, `WorkerStep`,
  `ClickStep`): handlers have timeouts and caps, and the event loop runs what is
  ready. Nobody has to decide, to retry or to crash.
- Weak fairness of the recovery pass, which `run_worker` makes on a timer, and of
  `LeaseLapses`, which is time passing.
- Weak fairness of `Claim` in `TaskQueue`; strong fairness in `Agency`, where a
  claim is disabled while the worker is in a recovery pass: `run_worker` goes to
  `run_once` between any two of them, so a claim possible again and again is made.
- In `Checkout`, weak fairness of each delivery's handling, and of the delivery of
  an event not yet answered, which is Stripe's promise. Nobody has to arm, to
  buy or to pay, and a session abandoned stays open.
- In `agency_recovery` the world is not flaky: a `verify()` that for ever raises
  something other than `VerificationFailed` is re-driven for ever, by design
  (`sweeper.py:95-104`).
- In `Timeline`, weak fairness of the reader's polls and of its status read: the
  generator's loop has no other exit. Nobody has to connect, and no stage has to end.
- `studio_run` and `catalogue` ask only what may never happen. `StagesRunDown` needs no
  fairness: it is an action property, a measure that every step of a stage
  brings down.

## What is proved

TLAPS proves the following for every value of the constants that the modules'
named assumptions admit: every invariant and every action property of the passing
runs, and the refinement of the ledger. What stands before `⇒` is a hypothesis
of the theorem, explained [below](#hypotheses). TLC checks the same properties on instances.

| Module | Theorem | Statement |
|---|---|---|
| `ActionGateProofs` | `TypeCorrect` | `Spec => []TypeOK` |
| | `Invariance` | `Spec => []Inv` |
| | `ApprovalSafe`, `AutomaticSafe`, `SuccessSafe`, `RequiredSafe` | `Spec => []ApprovalBeforeEffect`, `[]AutomaticOnce`, `[]SuccessIsProved`, `[]RequiredFirst` |
| | `CallsFollowTheirRows` | `Spec => []CallsKeepUp`: no session works on a copy ahead of its row |
| | `Refinement` | `Spec => LedgerSpec` |
| `TaskQueueProofs` | `TypeCorrect` | `Spec => []TypeOK` |
| | `HaltSafe` | `Spec => HaltYieldsToReopenOnly` |
| | `OneWorkerSafe` | `PunctualWorkers` ⇒ `Spec => [](retries <= 1 => OneWorkerPerTask)` |
| | `SettledSafe` | `PunctualWorkers` ⇒ `Spec => []SettledIsQuiet`, which itself is asked of unretried runs |
| | `ParkedSafe` | `PunctualWorkers`, `MaxRetries <= 1` ⇒ `Spec => ParkedWaitsForRelease` |
| | `LandedRunSettles` | `PunctualWorkers`, `OneWorker \/ Chain`, `Roots # {}` ⇒ `Spec => []UncrashedRunSettles` |
| `AgencyProofs` | `AgencyImplementsTheGate` | `Spec => Gate!Spec` |
| | `AgencyKeepsTheGate` | `Spec =>` the gate's `ApprovalBeforeEffect`, `AutomaticOnce`, `SuccessIsProved`, `RequiredFirst` |
| | `AgencyKeepsTheLedger` | `Spec =>` the gate's `LedgerSpec` |
| | `DoneSafe` | `OneGateAStage` ⇒ `Spec => []DoneIsProved` |
| | `DenySafe` | `PatientOperator` ⇒ `Spec => DeniedNeverExecutes` |
| | `OnceSafe` | `PatientOperator`, `PunctualWorkers` ⇒ `Spec => []EffectAtMostOnce` |
| | `VerdictSafe` | `PatientOperator`, `OneWorker` ⇒ `Spec => VerdictSticks` |
| | `TruthSafe` | `PatientOperator`, `OneWorker`, `OneGateAStage` ⇒ `Spec => []StageTellsTheTruth` |
| | `CarriedSafe` | `~WebDies` ⇒ `Spec => []DecisionIsCarried` |
| | `ReclaimedSafe` | `PatientOperator`, `OneWorker`, `~FlakyWorld`, `OneGateAStage`, `OneActingStage` ⇒ `Spec => []ReclaimedIsNotRefused` |
| `CheckoutProofs` | `ShopUsesGate` | `CheckoutSpec => Spec` |
| | `ShopKeepsTheGate` | `CheckoutSpec => []Inv /\ []RequiredFirst /\ LedgerSpec` |
| | `SalesPaid`, `AnswersSettled`, `ShopTypes` | `CheckoutSpec => []SoldIsPaid`, `[]AnsweredIsSettled`, `[]CheckoutTypeOK` |
| `StudioProofs` | `StudioInvariant`, `StudioKeepsInv` | `Spec => []IInv`, `[]Inv` (types, and `OutboundIsClean`) |
| | `PackFansOutOnce` | `Spec => []FannedOutOnce` |
| | `ParkedTaskIsReleased` | `"plan" \notin Rerunnable` ⇒ `Spec => []ParkedIsReleased` |
| | `LaunchIsBehindTheDeploy` | `"plan" \notin Rerunnable` ⇒ `Spec => []LaunchAfterLive` |
| `IntakeProofs` | `IntakeKeepsInv` | `Spec => []Inv` |
| | `RejectionSticks`, `CleanIsChecked` | `Spec => []RejectedStaysShut`, `[]CleanPassedBoth` |
| | `StagesComeToAnEnd`, `CeilingHolds` | `Spec => StagesRunDown`, `[]CeilingBoundsRuns` |
| | `OvershootIsBounded` | `RunBudget > 1` ⇒ `Spec => []OvershootBounded` |
| `CatalogueProofs` | `EvidenceExists`, `ArmedSafe` | `Spec => []Inv`, `[]ArmedAsListed` |
| | `BuyerPaysAsListed` | `SlugsNameOffers` ⇒ `Spec => []SoldAsListed` |
| `TimelineProofs` | `LateConsoleSeesAll`, `OrderedStreamSeesAll`, `NothingToldTwice`, `TimelineKeepsInv` | `Spec => []LateStreamIsWhole`, `[]QuietCloseIsWhole`, `[]CursorsLead`, `[]Inv` |

**The gate.** None of the safety properties is inductive. `ApprovalBeforeEffect` breaks in one
step from a state where a session holds a copy `awaiting_approval` of a row
nobody approved, so `Licensed` says what each program counter entitles a session
to: a copy awaiting approval is only ever run by a session whose caller saw a
decision. `AutomaticOnce` breaks from a state with two sessions about to execute
the same row, so `HolderIsFirst` says that the session that inserted a row is the
only one that will ever execute it, and that there is one such session, because
a `pending` row is never re-driven. `RowsAreHonest` says what each row state
implies for the world (a `succeeded` row has evidence, evidence means an effect,
an undecided row has none). `Inv` is the conjunction; TLC checks it in
`checkout_sale`, and the proof takes `Next` apart action by action. Three lemmas
carry it: `StopStep` (a call that ends disturbs nothing), `BeginStep` (a call that
begins on a row it has read), and `WriteStep` (a session that writes the row it is
licensed to write disturbs no other session, so only the row's new columns and the
writer's next licence are left to show). The insert and the effect, the two steps
that do change what others may rely on, are proved conjunct by conjunct. The
refinement maps `proved` to the rows that hold evidence, and follows from the
same invariant: of all the gate's actions only a committed approval, `Execute`
and `VerifySucceeds` move the ledger.

**The queue.** A worker writes its row by id alone, so one worker per task is
not inductive. `Held` strengthens it: a worker's task is in a state only a worker's
task is in and has a live lease (`HeldRows`), and a stage whose `resume` task exists has
parked, or has landed since (`ParkedOnce`), so that a release can move only what
nobody holds. `SettledIsQuiet` fails in one step from a state where a failing stage
has read others as landed that are not: `FailuresRead` says that nothing else
could move when it looked, and nothing has moved since. They are carried over every
action together; the assumptions (no retry, punctual workers) are used
exactly where the retry route and a lapse would break them. After the first retry
`ParkedOnce` is gone, since a redelivered `resume` task may release the stage under the worker
that took the retry; what is left is `HandsOff`: the row may read landed under its
worker, but it is leased to it, and what the operator is about to re-queue is in nobody's hands.

`UncrashedRunSettles` speaks of one moment, all landed and everybody at rest, and what
makes it true lies before it: somebody was the last, and read the others as landed.
`LandingInv` says so: over landed stages of a running run some worker is still to settle
(`SettleIsDue`), and a failing worker that read another stage as movable is right until its
commit (`OthersMove`).
The second half needs the stages not to land side by side, hence one worker or a chain.

`HaltYieldsToReopenOnly` is proved of every step in turn: a settle, a sweep and a failure
write a run they read `running` in the same commit, `Enforce` writes nothing but a halt,
and of the routes only the one that read the run settled writes it.

**The agency.** Its `actions` table is moved by nobody but the gate's sessions, and
the refinement is that statement (`UsesTheGate`). It is not an invariant of the gate
alone: the gate's `Call` demands that only a row somebody decided is resumed, and
that a click comes to a row that is there. So `Base` adds to the gate's invariant what the
queue owes it: a `resume` task exists only for a decided action (`ResumesDecided`), a task
held exists (`HeldTasksExist`), and a click makes only an operator's calls (`ClickCall`).

Two tables carry the rest: what a step can make of a session's call (`SessionSteps`:
it begins, goes on, ends, or is left alone) and of a task (`QueueSteps`, `TaskMoves`).
On them stand the invariants of the properties, one on the other:

- `DoneInv` for `DoneIsProved`: a worker's call is for an action of its task
  (`WorkerCalls`), and a stage asks for its gated action when the others are proved
  (`GatedLast`), so that the verdict of the last one speaks for all.
- `PatientInv` for `DeniedNeverExecutes`: one request is under way, and the row it is
  about to decide still waits undecided.
- `OnceInv` for `EffectAtMostOnce`: a row that waits has at most one `resume` task, and
  none while the request that decided it is still to write one (`CarriedOnce`); that
  task is in one worker's hands, under a live lease (`ResumesHeld`); and whoever executes
  an approved action does so alone and for the first time (`DrivenOnce`).
- `RestInv` for `VerdictSticks`: a row is driven only while it has no verdict
  (`VerdictsRest`), and what has evidence reads `succeeded` (`EvidenceStands`).
- `ReclaimInv` for `ReclaimedIsNotRefused`: an automatic action in flight has its stage
  beside it, still leased, with the action the only one in flight (`FlightsHeld`). The
  recovery pass therefore meets the action before a sweep can meet its task.

**The studio.** `IInv` ties tasks, edges, slots, rows and artifacts: what a task
depends on has a row (`Linked`), its slot and its place fit its kind (`Held`), an action
names the task that asked for it, under that task's own key (`Owned`), and what a
handler holds, a row carries and the world has was read from a clean artifact.
`Fanned` says that no two tasks share a post or the email, and that every post of the
newest pack has one; it holds in the middle of a fan-out because artifacts and
tasks are one commit. `PlannedOnce` (one task to a stage), `Waits` (a parked task's row waits
and names it) and `Launched` (outreach stands behind a deploy in each of its states) are
inductive over it when nobody plans twice.

**Intake.** `Governed` ties a brief's row to its run and its stages, whoever races for
the insert; `Honest` says what each point of a stage entitles it to call checked.
The frame lemmas (`NextFields`, `WorkKeepsStage`) say what a step leaves alone. `Distance`, which `StagesRunDown` brings
down, counts the calls, attempts and revisions a stage has left. The two bounds on money
count sets: `Paid` and `DoorBound` the briefs at the door against the ceiling; `OverspentBy` names,
for each run not astray, the stages whose calls are beyond the budget, each with a worker of
its own that is at none of the run's stages now (`Overspends`, `Flying`). That a worker adds one such
stage and no second rests on `Haltable`: a run not astray with a stage to run reads `running` or
halted, so the next claim of the worker's meets the budget. Sums over those sets are taken one stage at a time by an
induction over finite subsets (`SubsetInduction`), proved here from a least
counterexample.

**The catalogue.** The processor never forgets: every step keeps products known and a
price's lookup key, amount and currency (`Kept`). So what was once proved
(`ProvedExists`) stays, and what was once found stays what it was: `Located` and
`Driven` tie the handler's place to the action at hand, `Priced` the prices it has
gathered to their rows, `Armed` the prefix of the list that arming has read back.
`Sells` adds that what a click finds under a slug was driven and proved for some row of it; `SlugsNameOffers` makes it that row's offer.

**The shop.** Every step of `Checkout` is a step of the gate or leaves it alone
(`ShopIsGate`), so the gate's theorems hold of it; what is the shop's own (`Ours`)
says whose session works on whose key, that a delivery stands at the point its
order and action are at, and that a click is honest: paid if proved, proved or given
up if answered.

**The timeline.** While nothing arrives behind the cursors, every readable row at or
behind its cursor has been told (`Followed`). That needs `Backed`: no cursor is
past every readable row, so a commit later than all of them is beyond each cursor.
A pass that told nothing leaves no row beyond a cursor (`Exhausted`), and a stream
that closes after it has told them all.

### Hypotheses

Each has an instance among the passing runs, the theorem's other hypotheses included.

| Hypothesis | Why it is there |
|---|---|
| the modules' `ASSUME`s | types of the constants, finitely many briefs, requests and workers, something to do |
| `PunctualWorkers`, `PatientOperator`, `~WebDies` | [as in the runs](#the-runs): TLC finds the property broken without it |
| `OneWorker` | the deployment runs one worker process (`fly.toml:22,40`); with two, TLC finds `StageTellsTheTruth` and `ReclaimedIsNotRefused` broken |
| `Chain`, in place of `OneWorker` | stages in a row, the last of which may wait for a decision. Two that fail side by side, or one that fails while the one behind it is released, each read the other as movable |
| `Roots # {}` | a run opens with its `plan` task |
| `retries <= 1`, `MaxRetries <= 1` | retries and re-verifications. The first retry re-queues a stage in nobody's hands. The second may find one in a worker's hands, or parked, that its read found landed: TLC finds both properties broken |
| `~FlakyWorld` | a probe that raises leaves its action in flight for the next pass, and the task is swept meanwhile |
| `OneGateAStage` | a gated action belongs to one stage, a stage has one at most, and a `resume` task is for the gated action of the stage it releases, or for its only one. Re-verification of another action of the stage breaks it, and `DoneIsProved` with it (below) |
| `OneActingStage` | the money stage by itself: one stage asks for actions. With two, a pass sweeps a task whose action it has not driven (below) |
| `"plan" \notin Rerunnable` | a second plan enqueues every stage again |
| `RunBudget > 1` | in calls: the budget covers more than the brief's own screening, which is spent before any stage could be halted |
| `SlugsNameOffers` | rows of one slug differ in currency only; `catalogue_intervals` shows what happens otherwise |

### Model-checked only

The liveness properties: `ClaimedLands`, `DecisionLands`, `InFlightLands`, `EveryCallReturns`,
`PaymentIsProved`, `StreamCloses`. Each is proved from fairness through ENABLED, and
along a measure over data, both beyond the proof system used here. `StagesRunDown`
is the part of such an argument that is an action property, and it is proved.

## Where the code and its documents disagree

With a run that shows it:

- **Two clicks, two deploys** (`agency_double_click`). `_assert_undecided` checks
  what the session loaded; the decision is written later, unconditionally. The
  same race lets an approved action execute after a denial was committed.
- **A flagged page goes live** (`studio_flagged_deploy`). The precondition of a deploy
  takes one of the run's site artifacts, in no order: after an edit and a re-run
  the older, clean page vouches for the newer, flagged one.
- **One slug, two prices** (`catalogue_intervals`). A product sold by the month and by
  the year is two rows with one slug; both are approved at their own prices, and a
  click on either resolves to whichever price action the query returns first.
- **A stage behind the cursor** (`timeline_overlap`). Rows are stamped with the start of
  their transaction, and the cursor moves past a stage that is still working.

Met while modelling, and described without a run of its own:

- **A halt undone.** The retry and the re-verify route read the run's status and write
  `running` later, with no lock and no condition (`tasks.py:73-95`, `actions.py:129-132`);
  `enforce_run_budget` writes its halt as long after its read (`budget.py:116-120`). Two
  requests that re-open a run, or one beside a rollup, read it settled before the halt; the
  later one writes `running` over it, against `settle.py:19-20`, `tasks.py:92` and
  `actions.py:127-128`. The steps are in `TaskQueue`: asked of `MCTaskQueueRun.cfg`,
  `[][run = "halted_budget" => run' = "halted_budget"]_vars` breaks with its one request,
  which reads the run `failed` between a rollup's read and its halt.
  `HaltYieldsToReopenOnly` is what is left of the promise.
- **A settled run spends on.** A retry that read `running`, and loses to the settle of the last
  stage, re-queues its stage under a run that reads settled, which `budget.py:118` never
  halts: the stage, and those behind it, run whatever has been spent, against
  `data-model.md:97-98`. `\A b \in Briefs : WithinAStage(b)`, which is `OvershootBounded`
  without its exception, breaks with one worker, one retry and one run of copy and site
  (`MaxRevisions = 0`, `Attempts = 1`).
- **Calls without a row.** `record_call` writes in the stage's transaction; when the stage
  raises, or its worker dies, what was answered and paid for is rolled back with the
  rest. `DESIGN.md:830-833` wants a row per call.
- **Tasks are told once.** No UPDATE of `tasks` sets `updated_at` (`claim.py:31-33`,
  `worker.py`, `sweeper.py`, `resume.py`, `tasks.py:84` are raw SQL, and the model's `onupdate` is the
  ORM's), so the stream's trail of a task ends with the state it was first read in,
  against `tasks.py:45-46`. `Timeline` has the column so, and `QuietCloseIsWhole` excepts it.
- **Closed over the last commit.** The status is read after the tables, so what commits
  in between is neither told nor waited for, against the comment at `runs.py:116`:
  `QuietCloseIsWhole` without `stream.still` is false.
- **A run behind a failed stage reads `running`.** `settle_run` counts a `pending` stage
  as movable, although a stage behind a failed one is never claimed.
- **A live site called failed.** The orphan pass re-drives a deploy without the brand
  doc that its probe needs, so probes that never look at the site fail it.
- **An orphan with a living worker.** While a `resume` task executes an approved action,
  the action's own task is the parked stage, which holds no lease, so another
  worker's recovery pass takes the action for an orphan, and its late verdict
  overwrites the true one (`agency_recovery` with two workers).
- **An unpaid completion spends the checkout's attempts.** `action-gate.md:162-164` says
  a deferred action enters the verify loop only when its proof arrives. A
  `checkout.session.completed` event comes also before a delayed payment has settled;
  the loop then spends every attempt and the action ends `failed`, and the later event
  of the payment is of a type the webhook ignores.
- **A `pending` row nobody moves.** A crash between the insert and the first commit of
  `_run` leaves a row that later requests take for work in flight.
- **A re-run of `plan`** enqueues every stage again, and `demand` then raises over two
  `site` rows.
- **A re-verified price finishes its stage.** The route takes any failed action
  (`actions.py:83-134`), and the `resume` task it leaves settles the whole stage by that one
  action's verdict (`handlers/resume.py:15-30,57-65`). Re-verifying a failed product
  marks the money stage `done` although no price was asked for and nothing was armed.
  `OneGateAStage` leaves that click out.
- **A pass sweeps what lapsed behind it.** The orphan pass goes over the actions it
  found when it began (`sweeper.py:68-104`), and the sweep follows (`worker.py:172-176`). A lease
  that lapses in between is swept with its action still in flight, so "actions
  first, then their tasks" does not hold from one stage to another. `OneActingStage` excludes it.
- **Two failures at once leave a run `running`.** Each failing stage reads the other as
  one that can move (`worker.py:106-121`), and neither settles; so do a stage that
  raises and a `resume` task that lands beside it.
- **A failed arming stays failed** unless it is re-verified: its key is derived, a second
  request raises, and no route makes another. Re-verification re-opens one whose result
  was recorded, which is one that failed at `verify()`; one that failed at `execute()` is final.
- **An older approval moves the alias back.** Deploys of two versions of a brand document
  are two actions, each of which points the run's alias at its own page when it is
  approved, in whatever order that is.
- **Exports take the highest revision**, and a re-run starts again at revision 0.

## What is not modelled

Prompts and the text of what agents generate; rendering, fonts, HTML and number
scanning (their verdicts are open choices of `Drafting`); what the deploy, e-mail and
publish adapters send over the wire; prices of calls in money; the console;
authentication; tracing; scripts, migrations and the evaluation; the routes that only
read, the timeline excepted. `PROJECT.json` lists every component with its status and
every hazard with the properties that cover it, or the reason none does.

## Plan

1. *Done*: the ten modules above, and their proofs as listed.
2. Proofs with fewer hypotheses: `LandedRunSettles` over any edges, with a condition on
   which stages may land side by side; `ReclaimedSafe` for several acting stages whose
   leases do not lapse during a pass; that `Studio`'s and `Catalogue`'s steps, which fold the
   gate's, are sequences of them.
3. `Publication`: the deploy's upload, alias and poll, the posts' permalinks and the
   sink, the e-mail's message id, against a world that lags; `Timeline` with parked
   stages and their `resume` tasks.
