# Blackspire Command in TLA+

TLA+ models of the command runtime of this repository: the processes that accept
a request from a channel, store it as a task in one SQLite database, let workers
claim it, get it approved where policy asks for that, run it through a read
capability, the Codex CLI, an HTTP provider or a manual handoff, and report what
happened to the chat; and of what stands around that runtime: the admission of
durable work during a release, the upgrade of the buyer writer's configuration,
the dispatch of a buyer search through that writer, and the development
orchestrator. The models are checked with TLC and, where it says so below, proved
with TLAPS.

* [The system](#the-system): inventory, interactions, hard parts
* [The modules](#the-modules): which module models which code
* [The runs](#the-runs): what is checked, within which bounds, and what it shows
* [Fairness](#fairness)
* [The proofs](#the-proofs)
* [Where documents and code disagree](#where-documents-and-code-disagree)
* [What is abstracted](#what-is-abstracted) and [what is not modelled](#what-is-not-modelled)
* [The plan](#the-plan)

## The system

Three kinds of process share one SQLite file: the API server
(`apps/api/server.js`), one or more workers (`apps/worker/worker.js`) and the
Telegram bot (`apps/telegram/bot.js`). There is no other shared memory. A single
SQL statement, and a body run by `transaction()` (`BEGIN IMMEDIATE`,
`packages/task-engine/db.js`), is atomic; nothing wider is. Every process may die
between two statements.

| Component | State it keeps | Operations | What makes it correct |
|---|---|---|---|
| Task engine, `packages/task-engine/tasks.js` | task rows (status, owner, claim token, heartbeat), `provider_attempts` as pre-dispatch ledger, `provider_usage`, `approvals`, `system_flags`, `task_events`, `channel_deliveries` | create, claim, heartbeat, transition, prepare/finish of both ledgers, finalize, approvals, flags, deliveries | cancelled is absorbing; a dispatch is armed once and settled once; outcome and usage together; a decision stands |
| Hermes pipeline, `packages/hermes/hermes.js` | none of its own: one run per claimed task | `processTask`: stop checks, approval, guard, stages, provider with retries, edits, last transition | completed is earned; edits once; nothing before its approval |
| Capability execution, `packages/capabilities/execute.js` | a request in flight | `executeRegisteredCapability` and its exits | one dispatch in the life of a task; a ledger that tells the truth; no late disclosure |
| Receiver authority, `packages/capabilities/receiver-authority.js` | the ledger row's `started` | `consumeReceiverAuthority` | a request is served at most once, never after settlement |
| Providers, `packages/providers/providers.js` | a detached Codex process; inline calls | `executeProviderRequest`, `runCodexCliPacket` | at most one Codex process in a workspace, contained by its quarantine |
| Workspace registry, `packages/workspace-registry/workspaces.js` | quarantine flags | quarantine, eligibility, recovery | a quarantine outlives everything it contains |
| Dispatch guard, `packages/execution/dispatchGuard.js` | none | `guardDispatch`, both phases | refuses replays, stopped and cancelled tasks |
| Worker, `apps/worker/worker.js` | the active tick | poll, claim, process, drain the outbox | one task at a time; a dead worker's task is claimed again |
| API server, `apps/api/server.js` | sessions, handlers | task routes (approve, reject, pause, resume, cancel), stop and reset, reads | no elevation of denied tasks; decisions are recorded before they act |
| Unified input, `packages/unified-input/unified.js` | conversations, bindings, inputs | `createUnifiedInput`, `requestCancellation`, `drainTelegramOutbox` | one task per idempotency key; what is committed is reported |
| Policy, `packages/policy/policy.js` | none | classify a request | the decision is a column that never changes |
| Release admission, `packages/shared/release-admission.js` | a lock file, the state, marker and permit files, the generations of the services | `withReleaseAdmission`, `withHeldReadAdmission`, `openReleaseAdmission`, publication | durable work only while admitted and only in the accepted generations |
| Zola release, rollback, six reads, `packages/zola-*` | release journal, held epoch, acceptance permit | hold, mint, operations, consume, guarded opening; earlier stages and rollback | a half-made release is finished or stays held; a permit is spent once |
| Buyer writer gateway, `packages/buyer-writer/gateway-*` | configuration, journal, state, backup and candidate files | upgrade, reconcile, roll back | the configuration in force can be undone; a rollback stands |
| Buyer dispatch, `packages/buyer-writer/sql/install.sql`, `admission-bridge.js`, `n8n-workflow.js`, `frontend/src/lib/buyer-scoped-dispatch.ts` | search job, dispatches, receipts; admission rows | issue, admitted writes, reconcile, correlate | one live dispatch per job; the job follows it; what is reported is so |
| Hermes orchestrator, `packages/hermes-orchestrator/` | run rows, approvals, provider health, slots per process | `runHermesWorkflow`: stop checks, reservation, slots, attempts, cooldown | an approval serves one run; slots are given back; a stop prevents the retry |
| Sessions, limits, authorization, `packages/shared/` | session rows, rate windows | login, rotation, limits | expiry and windows |
| Recovery, health transitions, Codex worker, GitHub adapter, Telegram bot, Jarvis PWA | see `PROJECT.json` | | |
| Web products and operations (`frontend`, `ember-halo`, `oracle-helix*`, `helix-trade-command`, `ops`, `docs`, ...) | beside the runtime | | |

How they interact: the API and the bot write task rows; workers poll them
(`claimNext`), run `processTask`, and after every tick drain the deliveries that
every transition of any process has queued. The capability path calls back into
the API over HTTP, and the API turns the ledger row of the request from
`dispatching` to `started` before it reads. The Codex path spawns a detached
process that outlives its worker.

What is hard here: leases that lapse under a live worker, so that two workers run
one task; handlers of several statements with workers in between; transitions
that name no claim; requests that arrive late or twice; deaths between a send and
its record; a child process whose end cannot be proved. Around the runtime it is files and
journals that are written one after the other, with a death between them, by
processes that exclude each other only through a lock; and database transactions
that commit after their caller gave up. `PROJECT.json` lists each
hazard at its line with the properties that would catch it.

## The modules

| Module | Models | State and actions |
|---|---|---|
| `DispatchLedger` | what the pre-dispatch rows promise, abstractly | a phase per dispatch and the set of billed ones: `Reserve`, `Start`, `Settle` |
| `TaskEngine` | `packages/task-engine/tasks.js` and the row update of `receiver-authority.js` | the tables as variables, one action per exported operation; `EngineSpec` lets *any* caller call *any* operation under *any* claim |
| `Worker` | the tick of `apps/worker/worker.js` and `shouldStop`, `move` of `hermes.js` | `run[w]`: the worker's task, claim and program point |
| `CapabilityRun` | `packages/capabilities/execute.js`, the wire and the receiver | `sent`, `served`; one action per statement or await, every exit a caller in `src` reaches, and the catch block |
| `ProviderRun` | `providerWithRetries`, `guardDispatch`, Codex in `providers.js`, quarantine | `children`, `quarantine`; inline, manual and Codex lanes |
| `Control` | `taskRoute` and `/api/stop` of `server.js`, `requestCancellation` | `desk`: the handler the API process is in; `cancelling` |
| `Hermes` | `processTask`, and everyone together | composes the four above; histories `launches`, `edits`; deaths and lapsed leases |
| `Outbox` | `transition` to event to delivery, `drainTelegramOutbox`, `deliverEvents`, `dispatchReply` | `queue`, `delivery`, `process`; history `sends`. A call of `dispatchReply` returns or throws, and a call that returns may have been refused |
| `ConfigSwitch` | what a configuration upgrade promises, abstractly | `stage`: each operation is switched on at most once, never beside another, and off for good |
| `GatewayUpgrade` | `gateway-configuration-upgrade.js`, its `-files.js` and the script that drives them | the files and journals; one action per write, each with its failure; `holder`, `pc` and `published` of the process with the lock; deaths |
| `ReleaseAdmission` | `release-admission.js` with `postmerge-admission.js` and `held-acceptance-authority.js` | control files, journal, generations, leases; `step` and `session` of the commander; services that start, stop, take and drop the shared lock |
| `Orchestrator` | `orchestrator.js`, `execute.js`, `approvals.js`, `concurrency.js`, `health.js` | `run[r]` with its program point; approvals, slots per process, health, stop; a stretch between two awaits is one step only where no other process can tell |
| `AttemptOutcome` | what a dispatch promises whoever started it, abstractly | one verdict per attempt for good, and reports that are verdicts |
| `BuyerDispatch` | `buyer-scoped-dispatch.ts`, `n8n-workflow.js`, `admission-bridge.js`, the routines of `install.sql` | job, dispatches, receipts; per attempt a dispatcher, a workflow and three lines of calls, each call with its transaction and its answer apart |
| `TaskEngineProofs`, `HermesProofs`, `DispatchProofs`, `OutboxProofs`, `GatewayUpgradeProofs`, `ReleaseAdmissionProofs`, `OrchestratorProofs`, `BuyerDispatchProofs` | theorems | |
| `MCHermes`, `MCReleaseAdmission` | constants for TLC | profiles of tasks, symmetry, the acceptance operations |

`TaskEngine` is the hinge. It says what the tables promise to arbitrary callers;
`Hermes` puts the real callers on it, and the property `TablesRefined` checks
that with them the tables behave as `EngineSpec` allows. `TaskEngine` in turn
implements `DispatchLedger`: the refinement mapping takes a key to be a task and
its lane, its phase to be the status of the row, and the bills to be the tasks
whose Codex row has its usage row.

The other four components share no state with the tables (a held release is the
exception: it holds back workers, and a worker that is held back is one that does
not step). Each is a model of its own. `GatewayUpgrade` implements `ConfigSwitch`:
an operation is on while its configuration is in force, off when its state file
says it was restored or its candidate was used up. `BuyerDispatch` implements
`AttemptOutcome`: the verdict of an attempt is the final state of its dispatch, or
*never* when there is no dispatch and the revision of the job has passed the one
the attempt captured, which is why an issuance still under way cannot revive it.

A program point of `run[w]` is a phase and a step within it, e.g.
`<<"provider", "record">>` for the settlement of an attempt. Statements that only
read what cannot change, or what a later statement of the same synchronous stretch
reads again, are folded into the step after them; every other read is a step of
its own, so that a check and the action that relies on it can be separated by
other processes exactly where the code lets them be.

`map` in `PROJECT.json` gives the source lines of every definition. Operators
introduced by a comment that begins with "Mutant:" are plausible mistakes in the
definition below them; each property is known to fail when its mutant takes that
definition's place.

## The runs

| Run | Question | Bounds | Distinct states |
|---|---|---|---|
| `hermes_lanes` | is a dispatch with a ledger row launched once, is the ledger true, is Codex billed, is an inline provider asked a bounded number of times and are its edits written once, is completion earned; do the tables refine `EngineSpec` and the rows `DispatchLedger` | 1 task on any lane, 2 workers, 1 request, 1 fault, 6 claims, 2 retries, symmetric | 582 thousand |
| `hermes_live` | does every capability and Codex task come to rest, and is a result stored only with the completion | 1 task, 2 workers, 1 request, 1 fault, fair | 409 thousand |
| `hermes_policy` | approvals before launch, denied never runs, decisions and cancellations stand | all policy outcomes, 2 requests, 5 approval rows, symmetric | 155 thousand |
| `hermes_pair` | do two Codex tasks keep out of each other's workspace | 2 tasks, 2 workers, 1 fault, symmetric | 458 thousand |
| `outbox` | was every recorded attempt made, is giving up in time, does sending end, who can lose a report, does every row come to rest for good | 2 workers and the API, 2 changes, batches of 2, 2 attempts, 1 death, fair | 159 thousand |
| `gateway_upgrade` | can the configuration in force be undone, do answers and rollbacks stand, is it a switch | 2 operations, 3 failures or deaths | 274 thousand |
| `release_admission` | is an opening earned, for the accepted generations, with the permit spent and the record made; does publication cross no work | 3 acceptance operations, 4 starts of a service, 3 failures or deaths | 60 thousand |
| `orchestrator` | does an approval serve one run, are slots honest, does a stop prevent the retry, does every run end | 2 runs, 1 or 2 processes, 1 slot, 2 attempts, 2 approvals, 1 death or stop, fair | 182 thousand |
| `buyer_dispatch` | one live dispatch, the job follows it, answers and reports are so, writes are current, dispatches end | 2 attempts, 1 raw and 1 clean chunk, 1 loss, failure or death, fair | 344 thousand |
| `reprompt`, `manual_wait`, `refused_message` | see [below](#where-documents-and-code-disagree) | smallest that shows it | found in seconds |

Why the bounds are enough. A *fault* is a worker's death, an aborted handler, or a
lease that lapses under a live worker; leases of dead workers lapse freely. One
fault already gives two workers that both believe in their claim, one of them
anywhere in its run, and a request puts an administrator between any two of their
statements. `MaxClaims` is above what a run can use up (the first claim, one per
requeueing request, one per fault, and those that the unowned retry and pause
bring back), so claims never run out in a way the code does not: a smaller bound
shows as a deadlock, and deadlock is checked in every run of `Hermes` and `Outbox`
(the other systems come to an end, and their configurations say so). `MaxApprovals` is at
least claims plus requests for the same reason. Two tasks matter only where they
share something, which is the workspace; hence `hermes_pair`. Two changes in
`outbox` let a batch grow stale behind another row, two workers hold batches that
overlap, and with two attempts a row fails once and is taken again.

Three faults in `gateway_upgrade` let an upgrade die, its reconciliation fail in the
middle of the rollback and a third process finish, while a second operation looks
for its turn. Three operations in `release_admission` are one before the live
reads, the live reads, and one after them; four starts replace both services once
before the permit and once after it. In `buyer_dispatch` a second attempt overtakes
the first at every point of its workflow, and the one fault is a lost request, a
lost answer, a deadline that passes before the transaction ends, a bad source or a
death of either side; the safety properties were also explored once with two
faults (4.5 million states, no error), and the proofs are for any number.

What the properties say:

* `LedgerRefinement`, `OneLaunch`, `LedgerIsTruthful`: a dispatch that goes
  through the ledger reaches the outside at most once in the life of its task,
  across lapsed leases, deaths, replayed requests and requeued tasks, and the row
  never claims an execution that did not happen.
* `CompletedIsEarned`, `EditsAtMostOnce`: a completed task has a result of its
  own, billed where it is metered, written to the workspace where it mutates, and
  written once although an inline provider may be called several times.
* `CallsAreBounded`: those calls are at most `MAX_RETRIES` for every claim drawn. It is
  not a loop bound: a worker that has lost its lease goes on with its own tries beside
  its successor's, and a retry written without naming its claim may requeue the task.
* `SealCompletesTask`, `UsageWithOutcome`: what one transaction promises is not
  undone by the other operations.
* `CancelledIsFinal`, `DecisionStands`, `ApprovedBeforeLaunch`,
  `DeniedNeverRuns`: what a person decided.
* `CodexIsContained`: at most one Codex process per workspace, and a quarantine
  as long as one may be alive.
* `Settles`: every task comes to rest.
* `AttemptsWereMade`, `GivenUpInTime`, `SendsAreBounded`, `UnreportedByDeath`,
  `ReportedForGood`: the outbox counts no call that was not made, gives up neither early nor late,
  stops sending, loses a report only by a death between two of the three statements
  of `transition`, one at most for each, and every row comes to rest although workers
  overwrite each other's records.
* `NewIsUndoable`, `RolledBackIsOff`, `AnswersHold`, `ImplementsSwitch`: wherever an
  upgrade died, what is in force has its backup and a state that a rollback starts
  from (which may still be refused, by the `.manual-restore` copy of one that died
  before it: `files.js:293`), a rollback begun is never turned round, what an
  operation answered is so, even when the row that says it was written by a call that failed.
* `OpenIsEarned`, `WorkerWasAccepted`, `HeldReadIsPending`, `PermitIsSpent`,
  `OpeningIsOnRecord`, `PublicationCrossesNoWork`: intake opens once per consumed
  permit and for the generations named in it, although files and journal rows are
  written one after the other and the commander is resumed from either side.
* `OneRunPerApproval`, `SlotsAreHonest`, `StopPreventsRetry`, `RunsEnd`: the
  promises of the orchestrator's comments, across processes and every way out.
* `OneLiveDispatch`, `JobFollowsNewest`, `WritesAreCurrent`: a later trigger takes
  the job over completely; the earlier workflow, its failure and its late
  transactions no longer move it.
* `AnswersMatchCommits`, `ImplementsOutcome`, `DispatchesEnd`: what the bridge
  answers and what a dispatcher reports was, is and stays so, and a dispatch ends
  unless its dispatcher died or could not learn its fate.

## Fairness

`FairSpec` of `Hermes` assumes weak fairness of each worker's steps (a worker polls
on a timer; every outside call it awaits has a deadline and ends in a result or an
error), of handlers that have begun, and of the lapse of a lease nobody holds (wall
clock). Nothing is assumed of administrators, of the network (a request may be
dropped), of faults, or of the operator who lifts a quarantine. `Settles` excuses
an emergency stop that is on, since workers do nothing while it is.

`FairSpec` of `Outbox` assumes the same of processes and of retry delays, with a
separate condition on the drain, because the writes of a process end. It assumes
nothing of the stop flag: `ReportedForGood` is conditional on a stop that stays
off.

`FairSpec` of `Orchestrator` assumes weak fairness of every run's steps once it has
been received: the loop has no wait but the provider call, and that one has a
timeout (`execute.js`). Nothing is assumed of the operator, of expiry or of deaths;
`RunsEnd` excuses a run whose process died, for nothing takes such a row up again.

`FairSpec` of `BuyerDispatch` assumes weak fairness of each line's calls, each
workflow and each dispatcher. Every wait there is limited in time: the bridge and
the clients abort by a deadline, the database by its statement timeout, so that a
call ends in an answer or in a loss, and a loss counts as the step. Triggers carry
no fairness. `DispatchesEnd` excuses attempts whose dispatcher died or ended
uncertain.

## The proofs

`TaskEngineProofs` proves, for every set of tasks, workers, capabilities and
profiles and every bound, from `EngineAssumption` alone:

| Theorem | Establishes |
|---|---|
| `EngineTyped` | `EngineSpec => []EngineTypeOK` |
| `CancellationAbsorbs` | no operation of any caller takes a task out of cancelled |
| `DecisionsStand` | decided approval rows are never rewritten |
| `UsageSettles` | usage is on record exactly with the outcome of a Codex dispatch |
| `SealsComplete` | a result is stored only with the completion of its task, by its claim, with no stop on |
| `LedgerRefined` | the rows implement `DispatchLedger` |

The argument. The types are inductive by themselves: one lemma for each shape of
ledger write (`RowWritten`, `RowSealed`), one for a fresh claim, one for a
transition, and `TypeStep` goes through the operations. Each action property then
needs only the types: `CancelledStep`, `DecisionStep`. The ledger needs more, for
its mapping spans all tasks and lanes while an operation touches one row:
`LedgerStep` classifies a step by what it does to one row (reserve, start, close,
seal, or nothing) while all others are `Alone`, and the refinement, the usage
invariant and the sealing property are read off that classification.

`HermesProofs` and `DispatchProofs` take this to the running system, for every set of
tasks, workers, capabilities and profiles and every bound, from the assumptions of
`TaskEngine`, `Worker`, `ProviderRun`, `Control` and `Hermes`:

| Theorem | Establishes |
|---|---|
| `CallersSafe` | `Spec => [](EngineTypeOK /\ RunInv /\ DeskInv)` |
| `EngineRefined` | `Spec => TablesRefined`: every step is an operation of the engine or leaves its tables alone |
| `RuntimeCancels`, `RuntimeDecides`, `RuntimeBills`, `RuntimeSeals`, `RuntimeLedger` | the theorems on `EngineSpec` above, for `Spec` |
| `CodexStaysContained` | `Spec => []CodexIsContained` |
| `LaunchedOnce`, `LedgerTells` | `Spec => []OneLaunch`, `Spec => []LedgerIsTruthful` |
| `LaunchIsApproved`, `DeniedStays` | `Spec => []ApprovedBeforeLaunch`, `Spec => []DeniedNeverRuns` |
| `EditedOnce` | `Spec => []EditsAtMostOnce` |
| `CompletionIsEarned` | `Spec => []CompletedIsEarned` |
| `CallsBounded` | `Spec => []CallsAreBounded` |
| `OneClaim` | of all workers at one task, the tasks row names one |
| `LossIsFinal` | `Spec => [][LostForGood]_vars`: who has lost its claim never holds it again |
| `RuntimeTyped` | `Spec => []TypeOK` |

The argument goes in layers, each an invariant that is inductive given the ones
before it.

* `RunInv`: a worker at work has a task that exists and a claim drawn for it, stands
  only where the lane of its task leads, and writes only statuses that a transition
  accepts. With it `Refines` maps every step to an engine operation or a stutter, and
  what is proved of arbitrary callers carries over.
* `Contained`: at most one worker is between the quarantine and its lift, and a live
  process is that worker's.
* `RowInv`: a row names one drawn claim; whoever carries a row is the worker of that
  claim, and no claim has rows of two tasks. A superseded worker cannot meet a row of
  its successor.
* `LaunchInv`: a worker that is armed to start a process has not started one, one that
  has an answer has, and `Truth` relates the launches of a task to its row. That is
  more than `OneLaunch`: a row that is in flight may or may not have been launched,
  and only the worker's place tells.
* `ClearInv`: whoever is past the verdict, every row and every launch belongs to a task
  that policy allows or an approval has cleared, for approvals only grow.
  `DeniedInv`: nobody works on a denied task and no handler is about to revive it.
* `EditInv`: while one worker is about to write, everyone else past the replay guard has
  lost the claim, and after the write everyone has; who comes later finds the row or
  the recorded attempt at the guard.
* `EarnInv`: an answer acted on was recorded, the artifacts are written from `validate`
  on, a capability run past its first check only reads, and a task becomes completed
  only at the end of the pipeline or by the sealing (`Completing`). What is earned is
  not lost (`EarnedStays`).
* `CallInv`: the calls made for a task and those its workers may still make are covered
  by the claims drawn, `MaxRetries` to a claim. `Credit` is the set of the latter: a
  pair of worker and try, for every try not yet begun or begun and not asked. A claim
  adds `MaxRetries` pairs at most, a call takes one away, and no other step of anyone
  adds any (`CreditOn`): that a try is begun once and asked once is the content of
  `ProviderFresh`. `CallsAreBounded` alone is not inductive, for it does not say what a
  worker in the middle of its retries still has to spend.

`OneClaim` and `LossIsFinal` are what fencing by `worker_id` and `claim_token` is for.
The tables alone do not give them: a claim could be drawn twice. `RunInv` has every claim
carried by a worker drawn for it and below the counter, so that a fresh one is new.

The type invariant of `Hermes` is proved (`RuntimeTyped`) and not run: a run's time goes
to the properties that could fail.

The lemmas between (`CarriedOn`, `KnowsOn`, `TailFrom`, `AnswersOn`, ...) say how a
worker can have come to where it is: each goes through the program points once, so
that the invariants themselves need no case per action.

`OutboxProofs` proves for every set of processes and changes, from
`OutboxAssumption`:

| Theorem | Establishes |
|---|---|
| `OutboxTyped` | `Spec => []TypeOK` |
| `AttemptsAreReal` | `Spec => []AttemptsWereMade` |
| `GivenUp` | `Spec => []GivenUpInTime` |
| `SendsBounded` | `Spec => []SendsAreBounded` |
| `LossesAreDeaths` | `Spec => []UnreportedByDeath` |

`AttemptsWereMade` and the two bounds are not inductive: a row is written by a worker
that called a step earlier, and they need to know who else may still write it.
`Holders` are the workers that have the row in a batch or in hand, `Owing` those of
them that have not sent it. `QueueInv` says that a change has one row in the queue
and one reporter before that, so that a worker holds a row once and no row is held before it is there.
`CountInv` then carries a budget for each row: counted attempts and holders together
stay below `MaxAttempts` plus the workers; what a row records, and one record more for
each holder, is covered by the sends made and owed; and these are covered by one per
worker for every attempt behind the row, one per holder while it is pending, and the
deaths. A step of a process moves the two counts by that process only
(`Moved`), and for each kind of step there is the arithmetic (`CountTakes`,
`CountSends`, `CountWrites`, `CountFails`, `CountDies`). The hard step is a failure:
it spends a holder and an attempt, and the attempt pays for all workers that may take
the row again.

`DropInv` says that the changes nobody will report any more are finitely many and no
more than the faults; finiteness is part of it since the set of changes may be infinite.
A process carries at most one change between its statements and hands it to the next
statement or to the queue (`DropsNothing`); a death drops that one change
(`DeathDropsOne`).

`GatewayUpgradeProofs`, for every set of operations and any number of faults, from
`OpsAssumption` and `FaultsAssumption`:

| Theorem | Establishes |
|---|---|
| `UpgradeSafe` | `Spec => []IInv`, the inductive invariant |
| `UpgradeTyped` | `Spec => []TypeOK` |
| `UndoIsPossible` | `Spec => []NewIsUndoable` |
| `AnswersStayTrue` | `Spec => []AnswersHold` |
| `RolledBackStaysOff` | `Spec => []RolledBackIsOff` |
| `SwitchRefined` | `Spec => ImplementsSwitch` |

None of the properties is inductive, for a process relies on what it wrote several
steps ago. `PcInv` says, for each program point, which configuration is in force
and which files exist; `Disk` what the files of an operation in force look like when
no process runs; `Forwards` that a reconciliation goes forward only over an open
journal. `Others` shows that a process touches only its own operation, which
reduces every property to the operation of the holder.

`ReleaseAdmissionProofs`, for every sequence of operations that includes the six
live reads, and any number of starts and faults:

| Theorem | Establishes |
|---|---|
| `ReleaseSafe` | `Spec => []IInv` |
| `ReleaseTyped` | `Spec => []TypeOK` |
| `OpeningIsEarned`, `WorkersWereAccepted`, `HeldReadsArePending`, `PermitsAreSpent`, `OpeningsAreOnRecord` | the five invariants of the run |
| `PublicationIsExclusive` | `Spec => PublicationCrossesNoWork` |

`Exclusive` says that no lease is held while the commander is between its writes,
`Record` what each journal row implies, `Place` what has been written at each of
the commander's points. A death keeps `Record` and forgets `Place`; a resumption
has to find `Place` again from the rows alone, which is the heart of the argument.

`OrchestratorProofs`, for any finite set of runs, any processes, limits and
attempts:

| Theorem | Establishes |
|---|---|
| `RunsAreSafe` | `Spec => []IInv` |
| `OrchestratorTyped` | `Spec => []TypeOK` |
| `ApprovalsServeOneRun` | `Spec => []OneRunPerApproval` |
| `SlotsStayHonest` | `Spec => []SlotsAreHonest` |
| `StopHolds` | `Spec => StopPreventsRetry` |
| `RunsTakeFewSteps` | `Rank` is bounded, and every step of a run lowers it |

`StepLeads` classifies a run's step by where it comes from and goes to; the
invariant follows from the classification: how many calls a run has made follows
from where it is, a run that has called holds an approval it consumed itself, and
the slots are counted as the runs inside the loop (cardinalities change by one).

`Rank` counts the points a run has before it, with five more for every attempt left: a
retry goes back by four points and pays with an attempt. That it falls with every step
of the run, deaths included, and never moves otherwise is the safety half of `RunsEnd`:
no run goes round for ever, and with the fairness of its steps it ends. The other half,
that a step is enabled at every point where the process is alive, stays with TLC.

`BuyerDispatchProofs`, for every set of attempts, any number of chunks and faults:

| Theorem | Establishes |
|---|---|
| `DispatchSafe` | `Spec => []IInv` |
| `DispatchTyped` | `Spec => []TypeOK` |
| `OneDispatchLives` | `Spec => []OneLiveDispatch` |
| `JobsFollow` | `Spec => []JobFollowsNewest` |
| `AnswersAreCommits` | `Spec => []AnswersMatchCommits` |
| `WritesStayCurrent` | `Spec => WritesAreCurrent` |
| `OutcomeRefined` | `Spec => ImplementsOutcome` |

Generations are distinct and only the highest may be alive, so the job has one
dispatch to follow. A verdict once in the tables stays there (`Kept`): a final state
because no routine leaves it, an absent one because the revision of the job has
passed the one the attempt captured and the issuance compares them. So what a
reconciliation read in its transaction is still so when its answer arrives
(`Resolved`) and when it has been reported (`Reports`), and the refinement maps every
step to a decision, a report or nothing.

Every invariant and action property that a passing run checks is proved. Only
checked by TLC is all liveness (`Settles`, `ReportedForGood`, `RunsEnd`, `DispatchesEnd`): fairness and
`ENABLED` are beyond the prover.

What the theorems take from outside the code: the assumptions named in the modules,
and two that are part of an action. `OperatorLifts` lifts a quarantine only while no
Codex process and no worker needs it. `recoverWorkspace` (`workspaces.js:75`) checks
nothing of the kind, it asks its caller to state that containment and integrity were
verified; inside `src` only `providers.js:171` calls it, after its own proof, which is
`ProvLift`. So `CodexStaysContained` says that the code contains its processes provided
that nobody lifts a quarantine by hand without looking. And a provider call in
`Orchestrator` ends, by its answer or by its timeout: `RunsEnd` assumes that an adapter
honours the abort it is given.

## Where documents and code disagree

* `reprompt` / `NoFreshPrompt`. `BLACKSPIRE_COMMAND_SECURITY_REPORT.md:44-48`:
  "once a decision exists, resuming the task reads that decision instead of
  re-deciding from scratch". `createApproval` looks and inserts in two statements
  (`tasks.js:340`), and the pause of `hermes.js:218` names no claim. A worker that
  found no decision, while an administrator then decides, adds a fresh prompt
  behind the decision and parks the task again.
* `manual_wait` / `ManualWaitDurable`. `memory/SESSION_LOG.md:119`: "manual-response
  waits remain durable until canonical ingestion or cancellation". The routes check
  the status (`server.js:576`) and move the task later by a transition without
  claim or status; the handoff can come between, and so can the unowned retry of a
  worker that lost its lease (`hermes.js:306`).
* `refused_message` / `RefusalsAreFailures`. `UNIFIED_INPUT_FOUNDATION.md:14`: "A channel
  delivery failure remains pending for retry and never changes task state".
  `sendTelegramMessageAdmitted` parses whatever Telegram answers (`bot.js:201-206`) and
  `dispatchReplyAdmitted` returns `sent: true` without a look at it (`bot.js:225`); the
  drain asks for no more (`worker.js:112`, `unified.js:151-152`). A message that Telegram
  refused, because of its mark-up, a rate limit or a chat that is gone, becomes delivered and is not
  retried. Only a call that throws stays pending, which is why `AttemptsWereMade`
  speaks of calls and not of messages the chat has.

The following were met while reading. They are statements about wording or about
code with no property of its own, so no run is kept for them:

* `UNIFIED_INPUT_IMPLEMENTATION_STATUS.md:31`: "maximum delivery attempts". An
  attempt is counted when its failure is recorded (`tasks.js:160`); a death between
  the send and its record sends again uncounted. `SendsAreBounded` says what holds:
  the maximum per worker, and one more for each death.
* `orchestrator.js:126-127` says the approval "is NOT consumed on a non-execution so
  the operator can retry within the window", but `execute.js:75-81` consumes it
  before the first dispatch, as `approvals.js:34-39` says itself; a run that then
  fails has used it up.
* A resumed commander answers `resumeReady: true` also where the reconciliation of an
  acceptance operation needs a pending row (`production-held-operations.js:166-167`)
  and where the permit is not in state MINTED
  (`held-acceptance-authority.js:250-251`).
* The cancel routine of `install.sql` ends a dispatch and leaves the job pending or
  processing; nothing in `src` calls it, and it is not an action of `BuyerDispatch`.
* Sales and report rows that a cancelled or an earlier attempt wrote stay with the
  job; no routine deletes them.

## What is abstracted

* Identity of data: requests, results, packets, digests and texts are not
  represented; a row says whether it holds a result, not which. Claim tokens are a
  worker and a number, so that a stale token never equals a fresh one.
* Time: a lease is stale or not, an approval's expiry has passed or not, a retry is
  due or not. `now()` never runs backwards.
* Lanes: a task keeps the provider lane its profile names; provider selection is a
  function of workspace policy and configuration, which no operation changes.
* `decideApproval` selects and updates in two statements but is one step: only the
  API process calls it, synchronously (`server.js:579`, `583`).
* Permissions, cryptography, schema and shape checks are refusals that may happen
  at the point of their check.
* All tasks share one workspace; its content is not represented.
* `withReleaseAdmission` is a shared lock around durable operations, which excludes
  nobody but a release.
* Abort controllers are per process and only shorten outside calls. The exits of
  `execute.js` for a caller's abort signal (177-184 and 231-235) are left out, since
  nobody in `src` passes one: the controller inside is aborted by the timeout and by a
  transition to cancelled, and the catch block tests both before it comes to them.
* `applyEdits` writes file by file (`github.js:26-36`). `edits` counts the task whose
  write has begun: a failure after it may have left files behind, and the task fails.
* `Outbox`: one conversation and one chat; a message of several parts is one call, and
  a bot without a token is a call that throws; `createUnifiedInput` may run under a stop
  set after its check.
* `GatewayUpgrade`: a torn journal row and a refused proof that the services rest are
  failures that may happen at their call; contents and digests of the files are the
  operation they belong to.
* `ReleaseAdmission`: file ownership, access lists and process groups are outside
  refusals; `runReleaseSequence` calls the stages in order, and a stage it has
  confirmed is not called again. An acceptance operation is its journal rows and,
  for the live reads, the active file.
* `Orchestrator`: routing, verification, scorecards and memory review are outside
  choices, for no shared state depends on them. The mock provider takes the same
  path without the health record. Statements that throw, approvals created in the
  same millisecond, and failure counts lost between two processes (`health.js:34`
  reads and writes in two statements) are not represented.
* `BuyerDispatch`: the composition modelled is that of the gateway's research
  admission configuration: issuer and gateway, the admitted local client, the
  socket, the admission bridge, the routine. Criteria and owner of a job do not change
  (nothing in `src` changes them after its creation); permit and digest checks are
  outside refusals; one trigger starts one workflow execution; counters kept beside
  the receipts follow from them. A permit lives 30 s
  (`admitted-local-client.js:94`), longer than a call can take (5 s of reserve and a
  10 s statement timeout), so its expiry is not reached. The job stays pending when
  the acquisition fails, and nothing sweeps the dispatch of a dispatcher that died.

## What is not modelled

The bounded mock path of the test mode; the runtime-status heartbeat and the drain
on shutdown; audit, evidence, subtasks and command results, which nothing reads
back; sessions and rate limits (single statements in one process, with no
interleaving to get wrong); the Telegram bot's polling, and its mock mode
(`TELEGRAM_MODE`), in which nothing is sent; the PWA; the GitHub adapter
beyond the write of edits, and with it the content of the workspace; the cancel,
receipt and recovery routines of the buyer writer, its activation, provisioning,
rotation and migration journals, and the buyer store; the stages of a release before
the held epoch and its rollback; recovery rehearsals; the web products, scripts and
documents, which are most of the repository's lines and share no state with the
runtime: pages, server helpers that are single calls to hosted databases, scoring
functions and research scripts. `PROJECT.json` gives the reason for each.

## The plan

Done, in this order: `DispatchLedger`, `TaskEngine`, `Worker`, `CapabilityRun`,
`ProviderRun`, `Control`, `Hermes`, `Outbox`; then `ConfigSwitch` and
`GatewayUpgrade`, `ReleaseAdmission`, `Orchestrator`, `AttemptOutcome` and
`BuyerDispatch`, each with its proofs.

Left, most useful first:

1. The remaining journals of the buyer writer (activation, provisioning, rotation):
   abstract all-or-nothing steps and the journal that implements them across deaths,
   in the manner of `GatewayUpgrade`.
2. The stages of a release before the held epoch, and its rollback.
3. The content of the workspace, so that a Codex run's comparison before and after
   can be upset by a sibling's edits.
4. `Sessions`: rotation, expiry, rate windows.
5. Measures like `Rank` for the attempts of `BuyerDispatch` and the operations of
   `GatewayUpgrade`, as the safety half of their termination.
