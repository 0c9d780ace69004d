# A TLA+ verification of Dure's orchestration core

Dure runs coding agents in terminal sessions and lets them coordinate. A backend (the
*control plane*, `src/crates/dure-app/control-plane`) hands work to agents as *dispatches*,
carries decisions, messages and completion reports between workers and their coordinator,
wakes a session when it has mail, starts and stops agents, launches them on *schedules*, and
executes *workflow graphs* whose steps are shell commands and agents. Everything it promises
has to survive repeated requests, restarts, a backend that is replaced while it works, and
effects (typed text, launched processes) that nobody can take back or ask about.

This project models that core. Paths below are relative to the repository; `dure-app/` is
short for `src/crates/dure-app/`.

## 1. Inventory

| Component | Where | State | Operations | How it meets the others |
| --- | --- | --- | --- | --- |
| Interaction store | `src/orchestration/src/ports/state.rs`, `state/*.rs` | dispatches, interactions, event log, inbox deliveries, receipts by idempotency key | `create_run`, `open`, `answer`, `complete`, `set_dispatch_deadline`, `expire_dispatch_deadlines`, `read_events`, `transition_delivery_wake` | called through `InteractionService`; one SQLite transaction per call |
| Session rebind | `dure-app/sqlite/src/orchestration.rs` | the worker endpoint of a dispatch and of its queued mail | `rebind_dispatch_session`, `reconcile_dispatch_session` | called when a runtime is rehosted |
| Deadline clock | `control-plane/src/dispatch_deadlines.rs`, `sqlite/src/orchestration/deadlines.rs` | none of its own | a tick every 5 s | writes to the store |
| Wake drivers | `control-plane/src/interaction_wake.rs`, `sqlite/src/orchestration/wake_retries.rs` | in-memory attempts of the retry loop | request, claim, deliver, record, retry tick | transitions of wake receipts in the store, prompts into hmux |
| Workflow run execution | `control-plane/src/workflow_graph/{runtime,command,agent}.rs`, `src/orchestration/src/domain/graph/execution.rs`, `sqlite/src/workflow_graph/{runs,effects}.rs` | one durable record per run | `advance` (load, start, bind, perform, record) | compare-and-set on the record, agent spawn journal, completion reports of the store |
| Workflow definitions | `domain/graph/{compile,lifecycle}.rs`, `control-plane/src/workflow_graph/definitions.rs`, `sqlite/src/workflow_graph/definitions.rs` | drafts with a revision, immutable versions, the active one, receipts | save, pause, activate, run once | a version is the input of admission; compiled outside the transaction that stores it |
| Workflow run admission | `sqlite/src/workflow_graph/runs.rs`, `control-plane/src/workflow_graph/runtime.rs` | admitted runs, worker slots | manual and scheduled admission, the tick of the service loop | creates the runs that are executed |
| Schedules and schedule runtime | `sqlite/src/{schedules,schedule_occurrences}.rs`, `control-plane/src/schedule_runtime.rs` | schedules with revision and watermark, occurrences, receipts | put, delete, run once, tick (claim, preview, bind, apply, finish, compact) | launches through the spawn journal, reports through dispatches |
| Agent spawn journal | `dure-app/src/agent_spawn.rs`, `control-plane/src/agent_spawn_apply.rs`, `sqlite/src/agent_spawn.rs` | events per operation, folded into a receipt with a recovery directive | preview, apply | workspace, hmux or structured runtime, prompt; used by schedules and workflow agents |
| Agent stop, runtime close, removal permit | `control-plane/src/agent_dispatch_stop_apply*`, `agent_runtime_close_apply.rs`, `agent_runtime_recovery.rs` and their stores | stop attempts, closes, removal permits | plan, authorize, drive, plain stop, recovery | freezes the spawn of the agent, stops its session, removes its checkout |
| Agent runtime transition and rehost, removal of an agent | `control-plane/src/agent_runtime_transition*`, `agent_runtime_remove_apply.rs` | operation journals | multi-step sagas | hmux, providers, session rebind |
| Delegate once | `sqlite/src/workflow.rs` | launches and their sessions | `delegate_once`, `bind_session`, `dispatch.context` | the second way a dispatch comes to the store |
| Backend replacement | `control-plane/src/service_lifecycle.rs`, `lib.rs` | the mutation authority | drain, hand over, activate | decides which process may mutate |
| Adapters and clients | provider runtimes, browser engine, git, relay, hmux, desktop, CLI, web | - | - | input and output around the core |

What is hard in it:

* **Repetition.** A client that loses an answer sends the request again, perhaps while the
  first is still being served. Every mutation has an idempotency key; the question is
  whether everything behind the key (events, deliveries, wakes, prompts) is done once.
* **Stale knowledge.** Requests carry the revision they were decided on; executors and
  wake drivers act on snapshots; deliveries name an endpoint that moves in a rebind.
* **Irrevocable effects.** A prompt typed into a terminal or a command that was started
  cannot be repeated safely and cannot be asked about after a crash. The code writes its
  intention first and treats an intention without an outcome as *uncertain*.
* **Two backends.** During replacement two processes hold snapshots of the same run or are in
  the same minute's tick, and the authority check is not atomic with the effect that follows it.
* **Work outside the transaction.** Drafts are compiled, plans previewed and stops planned on
  what was read before the transaction that uses the result.
* **Sagas.** Starting an agent takes up to three effects, stopping it up to four, and the
  process may end between any two of them; the journal alone says what the next one may do.
* **Limits.** Worker slots, unsettled runs, retained occurrences and retry attempts are bounded,
  and what reaches the bound must neither be lost nor keep the rest from going on.
* **Things that must happen.** A deadline has to be reported, a refused wake tried again, a
  run settled, an occurrence launched or given up, a stop ended, whatever else goes on.

`PROJECT.json` lists the hazards line by line with the properties that answer them, and
every component, including those that are not modelled.

## 2. Modules and plan

| Module | Models | Status |
| --- | --- | --- |
| `DeliveryWake` | the state machine of a wake receipt, shared by `InteractionStore` and `InteractionWake` | done |
| `InteractionStore` | the interaction store, the session rebind and the deadline clock | done |
| `SequentialRun` | what a workflow run promises, as an atomic specification | done |
| `WorkflowRun` | run execution by several backend processes; implements `SequentialRun` | done |
| `InteractionWake` | request handlers and retry loop that drive wakes | done |
| `Schedules` | schedules, occurrences and the ticks that launch them | done |
| `WorkflowGraph` | compilation of a definition: implied dependencies and the order of nodes | done |
| `WorkflowAdmission` | definitions, versions, admission and worker slots; uses `WorkflowGraph` | done |
| `AgentSpawn` | the spawn journal and the saga it drives | done |
| `AgentStop` | stops, closes and removal permits, composed with `AgentSpawn` over one state | done |
| `InteractionStoreProofs`, `WorkflowRunProofs`, `InteractionWakeProofs`, `SchedulesProofs`, `WorkflowGraphProofs`, `WorkflowAdmissionProofs`, `AgentSpawnProofs`, `AgentStopProofs` | theorems about them, section 6 | every safety property that the passing runs check |
| `MCInteractionStore`, `MCWorkflowRun`, `MCInteractionWake`, `MCSchedules`, `MCWorkflowAdmission`, `MCAgentStop` | small instances for TLC | done |

The order was: first the store, because every other component writes to it; then the places
where the backend does something irrevocable (wakes, workflow actions); then what admits such
work (schedules, workflow definitions and admission); then the sagas behind it (spawn and
stop). What follows, in order of importance:

1. `DelegateOnce`: the second way a dispatch comes to the store. `delegate_once` records a
   launch, `bind_session` the session that was started for it, `dispatch.context` negotiates
   its authority; then `SessionExclusive` has to hold of launches and dispatches together.
2. Runtime transition and rehost, which would give `AgentStop` its second kind of fence, and
   the removal of an agent, which finishes a stopped close.
3. Backend replacement: the protocol behind the `Takeover` of the modules.
4. Proofs: with each new part, its safety properties. Of the present parts what remains are
   theorems no run's property states yet: that `AgentSpawn` behaves as the one-plan journal
   that `WorkflowRun` and `Schedules` assume of it, and that the wake receipts of
   `InteractionStore` and of `InteractionWake` move alike.

## 3. How the modules correspond to the code

### InteractionStore

`StoreState` is the state: `dispatches`, `interactions`, `events`, `deliveries`,
`idempotency`, `ackIdempotency`. Every operation loads the state, changes a copy and commits
it in one immediate SQLite transaction (`mutate`, `transact`), so each is one action. A
`read_events` that would change something is run again in a write transaction, so it is one
action as well. Refused requests and replays of a remembered receipt write nothing: they are
the stuttering steps. The tick of the deadline clock reports every overdue dispatch in one
transaction, and so does `ExpireDeadlines`.

| Code | Here |
| --- | --- |
| run, task, dispatch id and generation | a member of `Target`; one authority scope (workspace and tenant) |
| event cursor | the position in `events` |
| receipt id of a delivery | `<<cursor, participant>>` |
| fingerprint of a request | the request |
| coordinator grant, worker endpoint, capabilities | the roles `CoordinatorOf` and `WorkerOf`; a request presents the right capability, others are refused before anything changes |
| message bodies, questions, options, results | left out |
| `read_events_batch` | several `ReadEvents` |
| deadline message ids | `<<"deadline", cursor>>` |

The guards are those of the code, in its order of consequence: key not used, dispatch in the
right state, expected revision, interaction id free, caller entitled. A key that was used
for another request is a conflict and a key that was used for the same one is a replay; both
change nothing, so `Fresh` covers both. `TransitionWake` includes `StoreState::validate`,
which `persist_state` runs before every commit and which refuses a wake on a delivery
without endpoint (the in-memory store used by unit tests has no such check).
`RebindSession` and `ReconcileSession` use the rules of `active_dispatch_matches` and
`drainable_completed_dispatch_matches`. The order in which one tick meets overdue
dispatches is left open (SQLite returns them by dispatch id).

### WorkflowRun and SequentialRun

`run` is the durable record, `loop[e]` what the executor of process `e` holds in memory during
one `advance()` call; the program counter follows `advance` from load to record. Every write is
`update_workflow_run`, a compare-and-set against the record that was read (`Commit`,
`Conflict`). The record's timestamps and owner are dropped, so two records that differ only
there are equal here: the model admits at least the commits the code admits. `holder` is the
mutation authority (`ServiceState::is_mutation_authority` in `control-plane/src/lib.rs`); it is
read before the effect and before the result is recorded, and may change in between. `Crash`
empties a process's memory.

A command goes from `command` to `running` (the process exists, `begun` counts it) to an
outcome. An agent is planned in the spawn journal under the dispatch's key, the plan is bound
to the run, the spawn is applied, and later ticks look for its report. The journal is
abstracted to one plan per dispatch whose applies are one effect, which is what `advance` sees of
it; how often a plan's applies start a session and hand over its prompt is `PromptNotReplayed` of
`AgentSpawn`. Inputs of an action always
resolve, because compilation admits only graphs whose references point to earlier actions with
the right outputs (`VersionsAreSavedDrafts` of `WorkflowAdmission` for the order); `restore()`'s
checks of the record's shape follow from the refinement.

`SequentialRun` is the promise: actions start one after the other in the compiled order, an
effect happens at most once and not before its start is on record, an action completes only
after its effect, and nothing starts after a failure. It admits that an effect happens after
its action was recorded as an *uncertain* failure: the old process may start the command after
the new one has given it up for lost, because authority check and spawn are two steps. That
is the strongest promise the code keeps, and the reason why uncertain is an outcome of its own.

### InteractionWake

A handler of a request (`wake_exact_session_delivery`) asks for the wake, claims it, hands the
prompt to the deliverer and records the outcome; every repetition of the request by the client
starts another handler for the same delivery (`Sending`). The retry loop rediscovers wakes
that were queued for a reason that can change, chooses a batch and drives each row through the
same claim. Every read and write of a receipt is a step of its own. The deliverer, the adapter to
the terminal host, types the prompt, refuses it with proof that nothing was written, or fails with
neither.
Times are reduced to the order in which wakes were queued (`backlog`), to whether the retry
window has closed (`expired`), and to the retry interval, which is at least two ticks
(`attempted`). The retry query joins a queued delivery with every dispatch of the authority,
so its rows are `<<delivery, dispatch>>`, and only a row in `Reaches` names the session that
reads the delivery.

### Schedules

`schedules`, `receipts` and `occurrences` are the tables; put, delete and the admission of an
occurrence are one transaction and one action each. `loop[b]` is what one tick of backend `b`
holds in memory: the pending rows it read at its start, the schedules it listed after those,
and the launch it is in. The authority is read when a tick begins (`Tick`) and not again, so a
replaced backend finishes its tick beside its successor's. A launch is `Preview`, `Bind`,
`Apply` and `Finish`, each a step of its own; every one can be refused, and `Finish` includes
the compaction of the schedule's history (`Compacted`). Whether the trust check is asked before
the binding depends on the receipt that the preview returned, so `Preview` decides it. The
spawn journal is `spawns[key]`: one plan per occurrence key, launched at most once, with a
receipt that may not say so yet. `Enroll` and `Report` are the agent. A cron expression is the
set of minutes it is due in; the idempotency key of an occurrence is the pair that the code
digests. `admitted`, `published`, `launchedWith` and `contradicted` are history variables for
the properties.

### WorkflowGraph and WorkflowAdmission

`WorkflowGraph` is `compile.rs`: nodes are numbers in the order of their names, `Order` is the
loop that takes the first ready node, written as a recursive function over the remaining
nodes, and a compiled definition keeps the dependencies that bindings imply as edges. The rules
of a node's own contract are the flag `wellTyped`.

In `WorkflowAdmission` put and pause are one transaction; activate and run once are two steps
(`Compile`, then `Activate` or `StartManualRun`), because the handler reads and compiles the
draft first and the transaction compares it again. The service loop is a tick that lists the
enabled workflows, claims or skips them one transaction at a time in the order of their ids
until an error (a trigger that does not parse, no room, a version that admission refuses) ends the
admissions of the tick, and then fills free worker slots with the
oldest unsettled runs. What a worker does is `WorkflowRun`; here it settles its run or leaves
it. A trigger is manual, due every minute, or one that does not parse.

### AgentSpawn and AgentStop

`journal[o]` is the fold of the events of an operation, `Admits` and `Folded` are the fold,
`Recovery` the directive it yields; an event is appended at the sequence after the one the
caller read, or not at all. `world[o]` is what exists outside: the workspace, the latest
session with the number of sessions `started` under the launch key, the one the stored
selection names (`bound`), the one a close names (`closing`), prompts handed over, removal
permit. A preview looks for the operation of its key and appends a plan in two steps. An apply
is observed, waits for the agent's lock, is authorized again under it and then loops:
directive, append, effect, append. Every effect may happen and lose its answer, fail without
happening, or be given up without an event; `Crash` drops all requests. A session may exit at
any time (`SessionExits`). A launch that is repeated under its key returns the session while it
runs and starts a successor with the same command once it is over (`Startable`,
`SessionStarted`; `execute_advance` in hmux's `managed_create_advance.rs`), so a prompt in that
command goes out with every session that is started. The binding and the selection follow the
successor; the structured runtime refuses to bind one while a close holds the agent
(`open_binding`, `agent_timeline.rs`), the native one does not ask. `MaxSessions` stands for
the host's limit on such a chain. The terminal keeps no receipt of what was typed into it, and
a structured turn has an id derived from the operation. A first-run question of the provider
(`gated`) holds the prompt back until a person answers it; a launch that carried the prompt
queues it behind the question.

There is one backend process at a time here, and `Crash` is also its replacement. The code
relies on that itself: what serializes applies and stops is a lock inside the process, and the
successor of a replaced backend stays without mutation authority while the replacement intent
of its predecessor exists (`is_mutation_authority` in `lib.rs`). The loops of `WorkflowRun`,
`Schedules` and `WorkflowAdmission` do not need the assumption, and their modules do not make
it: there a replaced process may still be in its tick. One idempotency key is modelled, so the
properties are about the repeats of one request; ids are minted fresh. Attempt numbers are left
out, as the sequence determines them.

`AgentStop` adds the stop. A plan freezes the runtime it saw (`Fence`), a later plan supersedes
one that saw another runtime, `AuthorizeStop` admits the close and authorizes the stop in one
transaction, and the drive takes the removal permit, stops the session, advances the close,
settles the checkout and records the outcome, as separate steps under the agent's lock. A close
names the session that is bound when it is admitted, and stops that one: it keeps the source when
another one is bound by then, and is content when that one is over already. A plain
stop of the runtime admits a close of its own or resumes the one it finds. `StopFails` may end
a drive at every step; `DriveStop` and `DriveClose` are both the repeated request and the
recovery worker. `ReplaceCheckout` is somebody who makes another checkout in the place of the
first. A checkout that is preserved is taken off the register of owned checkouts, which no part of
the model reads. There are no runtime transitions, so a fence is a close or nothing. A permit that is
held already is used again without another look at the checkout, as in the code.

## 4. What TLC checks

| Run | Instance | Checks | Distinct states |
| --- | --- | --- | --- |
| `lifecycle` | 2 dispatches with messages, decisions, answers, a completion, competing ids; 2 instants, 3 deadline settings; fair | types; a dispatch is blocked by exactly its open decision; each revision is spent by one accepted request; every event has one producer; at most one report per deadline setting; nothing but client messages after completion; receipts, completions and deliveries are permanent; an outlived deadline is reported | 187,756 |
| `mail` | a coordinator of 2 dispatches and a worker, pages of 1 and 4, repeated and conflicting acknowledgement keys, wakes of any kind and order on 3 events, a rebind | acknowledged mail is a prefix of the inbox; an uncertain wake is only settled; receipts are permanent and deliveries only advance | 53,261 |
| `sessions` | 3 dispatches, 3 sessions, all rebinds in a ring | a session works on one dispatch; deliveries follow their worker; an answer reaches it | 123,702 |
| `workflow_run` | 2 processes, 3 actions (command, agent, command), 3 takeovers, 2 crashes; fair | effects at most once; no invented results; a launched agent is bound; refinement of `SequentialRun`; the run settles | 75,730 |
| `wake_drivers` | 2 deliveries, 2 handlers each, 2 dispatches, 2 attempts per tick, 1 crash; fair | a prompt is typed at most once; receipts are truthful and the backlog lists the queued wakes; refused wakes are retried | 359,856 |
| `wake_retry_attempts` | 1 handler each, 2 dispatches, 1 attempt per tick, no crash; fair | violated, see section 5 | |
| `schedule_ticks` | 2 backends, 1 schedule, 2 minutes, 1 retained row, a takeover, a crash | types; a minute is admitted once; a launched row names its operation; a recorded outcome stays; compaction takes only outcomes of minutes, and only when enough newer ones of the schedule stay | 1,464,578 |
| `schedule_edits` | 1 schedule edited to revision 2 or deleted, 2 templates, 2 mutation keys, a manual key; fair | an occurrence keeps the template of its revision; retries are answered alike; pending occurrences settle | 336,403 |
| `schedule_reports` | 1 schedule, 2 minutes, 1 retained row | violated, see section 5 | |
| `workflow_admission` | 1 workflow saved, edited, activated, run once and paused by 2 callers; 2 backends, 2 minutes, 1 slot, 1 unsettled run, a crash or takeover; fair | types; one run per request and minute; a version is one saved draft in an order that can run; a paused or superseded version is not admitted; runs settle; and, as an assumption TLC evaluates, compilation accepts exactly the graphs of up to 3 nodes that can run | 110,808 |
| `activation_trigger` | the same with one caller and one backend | violated, see section 5 | |
| `agent_stop` | 2 requests, 2 ids, 2 stop attempts and a plain close, 4 kinds of plan (typed, carried, turn, promptless with a checkout of its own), sessions that exit, 2 sessions per launch, 10 events, 1 fault; fair | a prompt is handed over again only by a repeated launch that carries it; the journal says what happened; a recorded stop freezes the spawn; a stop reports the truth; an authorized stop settles | 853,606 |

**Bounds.** An idempotency key is accepted once per operation and dispatch, so the sets of
request keys bound the log and every store instance is finite. The interesting cases need: two
dispatches that compete for ids, and two settings around a report (`lifecycle`); two dispatches
in one inbox, so that an acknowledgement of a wide scope meets one of a narrow scope (`mail`);
a third dispatch, so that both sessions of a rebind are busy while one of them also has a
completed dispatch with unread mail (`sessions`); an agent between two commands and one
takeover more than crashes, so that each process can lose and regain the authority with a
snapshot in hand (`workflow_run`); a wake that can never succeed ahead of one that can
(`wake_drivers`); a second minute with one retained row, so that the row which proves the first
is compacted while a late tick still holds it (`schedule_ticks`); an edit between claim and
launch (`schedule_edits`); a limit and a slot count of one, so that both are reached, and a put
between compilation and commit (`workflow_admission`); a second id, so that two previews can
both find the key free, a second attempt, so that a stop can be superseded, and a second
session, so that a close can name one that has a successor (`agent_stop`). `agent_stop` has one
fault at any step; its safety properties were also checked with two faults (3,334,727 states).
`MaxTakeovers`, `MaxCrashes`, `MaxFaults`, `MaxMinute` and `MaxRevision` bound the environment.
Deadlock is not checked, because every instance ends: the keys are used up, the run is settled,
the mail is read.

**Fairness.** The deadline clock ticks every five seconds and the retry loop every fifteen for
as long as the backend runs: weak fairness of their steps. The executor loop ticks every three
seconds and each await inside `advance` is bounded by a timeout: weak fairness of each
process's steps. A launched agent is polled until it reports or its timeout has passed; both
become true by the passage of time and not by a step of the model, so the step that notices
has strong fairness; for the same reason `WorkflowAdmission` is strongly fair to `Settles`. The
schedule loop ticks every thirty seconds and its calls are bounded; strong fairness of `Preview`
and `Finish` says that a project, provider or store that refuses does so for a while
only. Requests that have begun to spawn or stop an agent go on (weak fairness of each
request's steps). The recovery worker scans for authorized stops every thirty seconds, retries
each with a backoff of 50 ms to 1 s, and queues for the agent's lock, which is granted in
order: strong fairness of `DriveStop`. Errors of the host or the checkout are bounded by
`MaxFaults`, so `StopSettles` says nothing of an error that lasts, for instance a dirty
checkout that nobody cleans. Nothing is assumed of clients, workers, agents or readers.

**Mutants.** For each property a variant of a definition (`...Faulty...`) makes a plausible
mistake, a dropped revision check, a missing worker delivery, an overwrite instead of a
compare-and-set, and TLC finds the property violated. They are not used otherwise.

## 5. What was found

`wake_retry_attempts` is a disagreement between the code and its comment. The retry loop says
that it retries *each* unread delivery until its session admits the prompt or the window
closes. The query of queued wakes (`wake_retries.rs:34`) joins each delivery with every row of
`workflow_interaction_authorities` under the same authority key. That table has one row for
each dispatch and the key is workspace and tenant, so a wake appears once per dispatch ever
created there. The loop takes the first eight due rows, notes their receipts as attempted, and
passes over rows whose session does not read the delivery. Rows of one wake tie in the query's
order and keep their place on each tick. With more than eight dispatches a delivery
may therefore never be tried at its own session. The run shows it with one attempt per tick
and two dispatches; with as many attempts as dispatches (`wake_drivers`) every refused wake is
retried, even behind one that cannot be delivered. The existing test has a single dispatch.

`schedule_reports` is a disagreement with the comment on the compaction of occurrences, "Keep
pending work and missing reports" (`schedule_occurrences.rs:242`). The query drops every
scheduled row that is failed, whatever its dispatch. A launch is recorded as failed with its
operation when the spawn receipt has not succeeded at the moment the tick looks, while the agent
may run and enroll under the row later. Once enough later occurrences are finished, that row is
dropped and its report can no longer be read through the schedule. The same query drops a pending
row whose agent has reported already, which the comment also excludes; `OnlyOldOutcomesGo` states
what the code does keep.

`activation_trigger` is a disagreement with the comment "Admission can never pin a version
validated from stale data" (`definitions.rs:141`). The handler validates the trigger of the
record it read; the transaction compares the definition and the expected revision, and pins
the trigger it finds. A put that keeps the definition, saves a trigger that does not parse and
makes the revision the activation expects becomes active unvalidated. From then on each tick's
admissions end with an error at that workflow.

Everything else that is checked holds. Things a reader may not expect:

* A command can start after its action was recorded as uncertain (section 3).
* A backend that stops between committing a delivery and claiming its wake leaves a wake that
  only a repeated client request takes up: the retry loop looks for queued wakes alone.
* A prompt can be handed over twice. When the launch command carries it, the answer of the launch
  is lost (or the backend stops before the commit) and the session exits, the next apply starts a
  successor with the same command. The comment that the launch "owns both process creation and
  initial prompt at-most-once semantics" (`agent_provider_registry.rs:44`) holds only while the
  session runs. A prompt that is typed or sent as a turn is never repeated.
* A stop reports on the session its close names. When a plain close and a repeated launch have met,
  a successor may run on; the code says as much ("This proves only this generation's exit").
* A pending occurrence that is bound to its operation and whose preview is then refused for
  good stays pending: it cannot be finished without the operation that the preview would name.
* A schedule edited in the minute it was claimed in makes the next tick of that minute end with
  an idempotency conflict, so the schedules after it are not reached by that tick.
* Four runs that wait for agents hold all worker slots until an agent reports or times out (one
  hour by default), and an admission at the limit of 64, or a trigger that does not parse, ends
  the tick's admissions for the workflows after it.
* A stop that ends with the source retained leaves an unfinished spawn refused for ever: only a
  superseded stop lets it go on. A journal that is full leaves a failing operation where it is.

## 6. What is proved

36 theorems, for every value of the constants, in eight modules `...Proofs`. Together they
state every invariant and every safety action property that the passing runs check, the
refinement of `SequentialRun`, and the exactness of compilation. A run shows a property on a
small instance, its theorem for all of them.

| Module | Theorems (the property each states) |
| --- | --- |
| `InteractionStoreProofs` | `TypeCorrect` (`TypeOK`), `SessionsExclusive` (`SessionExclusive`), `DecisionsBlock` (`BlockedByItsOpenDecision`), `DeliveriesAreFenced` (`DeliveriesFenced`), `AnswersReachWorkers` (`AnswerReachesWorker`), `AcknowledgementIsAPrefix` (`AcknowledgedPrefix`), `EventsAreAccounted` (`EventsAccounted`), `CompletionIsLast` (`NothingAfterCompletion`), `RevisionsAreSpentOnce` (`EachRevisionSpentOnce`), `OverdueIsReportedOnce` (`OverdueOncePerSetting`), and of steps `UncertainWakesAreSettled` (`UncertainWakeIsSettled`), `HistoryStays` (`HistoryIsPermanent`) |
| `WorkflowRunProofs` | `TypeCorrect`, `EffectsHappenOnce` (`EffectAtMostOnce`), `ResultsAreNotInvented` (`RecordedResultsWereSeen`), `LaunchesAreBound` (`LaunchIsBound`), `Refinement` (`ImplementsSequentialRun`) |
| `InteractionWakeProofs` | `PromptsAreTypedOnce` (`TypedAtMostOnce`), `ReceiptsAreTruthful` (`ReceiptIsTruthful`) |
| `SchedulesProofs` | `TypeCorrect` (`TypeOK`), `OccurrencesAreAdmittedOnce` (`AdmittedOnce`), `LaunchesNameTheirRow` (`LaunchNamesItsRow`), `TemplatesAreOfTheirRevision` (`TemplateOfItsRevision`), `RetriesAreAnsweredAlike` (`RetryIsAnsweredAlike`), and of steps `OutcomesAreFinal` (`OutcomeIsFinal`), `HistoryStays` (`OnlyOldOutcomesGo`) |
| `WorkflowGraphProofs` | `CompiledOrderRuns`, `CompilesExactlyWhatCanRun` |
| `WorkflowAdmissionProofs` | `TypeCorrect` (`TypeOK`), `RequestsAdmitOneRun` (`OneRunPerRequest`), `SnapshotsAreSavedDrafts` (`VersionsAreSavedDrafts`), and of steps `SchedulesFollowTheDefinition` (`ScheduledWhileActive`) |
| `AgentSpawnProofs` | `CommittedStagesDidHappen` (`CommittedStagesHappened`), and of steps `PromptsAreNotReplayed` (`PromptNotReplayed`) |
| `AgentStopProofs` | `StopsAreTruthful` (`StopIsTruthful`), and of steps `StopsFreezeSpawns` (`FrozenByStop`) |

### Assumptions

Each is named, stands in the module that declares the constants, and is evaluated by TLC on
every run of that module. Apart from types of the constants (bounds are naturals, limits and
slots are positive, requests are built from known names) they say:

* `RolesAssumption`: the coordinator of a dispatch is not its worker (checked by
  `DispatchContextReceipt::validate`).
* `NamesAssumption`: there are finitely many targets, and a client's id is not the reserved id
  of a deadline message.
* `RequestsAssumption`: a request names known targets, sessions, ids and participants, and is
  a request of the operation it is sent to (the receipts of the store keep the two together).
* `KeysAssumption` of `Schedules`, `KeyAssumption` of `WorkflowAdmission`: the digest that keys
  a scheduled occurrence or run is not a key that a client chose.
* `SpawnAssumption`: a launch carries a prompt only of a plan that has one and starts a native
  provider session.
* `AdmissionAssumption`: a draft has finitely many nodes.
* `NoneAssumption`, `StopAssumption`: the value for an absent row is not a row, and the close
  of a plain stop is not that of an attempt.

The bounds may have any value: those on crashes, takeovers, faults and minutes limit the
environment and play no part in the arguments. The proofs of the spawn and of the
stop are about every behaviour of `AgentStop`, so spawns and stops interfere in both.

### The arguments

**Store.** *Types.* `TypeOK` is inductive. Its delicate part is the log: deliveries are indexed
by cursors, so every operation that publishes has to extend log and inbox together
(`PublishType`); the tick of the clock publishes for a whole set of dispatches in some order
(`ExpireDeadlinesType`, which needs the set to be finite).

*Sessions.* `SessionExclusive` is inductive together with `TypeOK`. Most operations neither
move an endpoint nor reopen a dispatch (`RevisionsKeepSessions`, `ExpireKeepsSessions`).
`create_run` asks for a session without unfinished dispatch. A rebind moves drainable
dispatches, which are completed, and the unfinished dispatch of the source only when the target
has none (`ReboundFacts`, `MoveKeepsExclusive`); that the source has just one is the invariant
itself, so it is needed before the step to have it after.

*Decisions.* `BlockedByItsOpenDecision` is inductive with `TypeOK`. It is an equality of sets, so
each operation either leaves the open decisions of each dispatch alone together with its
`blockedBy` (`StaysBlocked`, `InsertStaysBlocked`), or changes both: `OpenDecisionBlocks` starts
from an active dispatch, which by the invariant has no open decision, and `AnswerUnblocks` from
a blocked one, whose only open decision is the one being answered. Deadline messages get a
fresh id (`DeadlineIdIsNew`) or are not open, so they cannot disturb it.

*Log and inbox.* What all operations do to them is stated once: they publish events with their
recipients (`Publishes`, `PublishFacts`), and an accepted request also leaves one receipt that
covers its events (`Accepts`); `Steps` and `LogSteps` divide the steps of the store
accordingly, and the invariants are proved for these forms and not for each operation anew.
`DeliveriesFenced` is inductive: a rebind moves the queued mail of a dispatch in the same
transaction as its endpoint (`MoveFacts`). `AnswerReachesWorker` is not: that the answer is in
the worker's inbox (`AnswersQueued`) is inductive, that it stands under the present endpoint
is `DeliveriesFenced`. `AcknowledgedPrefix` needs `DeliveriesFenced` too: an
acknowledgement is confined to one endpoint, and only because all deliveries of a participant
for one dispatch share theirs does it leave no gap. `EventsAccounted` needs that receipts cover
events of the log only (`ReceiptsWithin`), so that the next event is nobody's yet.
`NothingAfterCompletion` needs that log and dispatch agree on what is completed, and that
the log knows the ids that were opened (`LogInv`): otherwise a deadline message could pass for
a client's. `EachRevisionSpentOnce` becomes inductive with its two ends (`Spent`): a dispatch
that does not exist has spent nothing, one that does is at revision one at least.
`OverdueOncePerSetting` is an inequality between two counts that a step may both raise; the
invariant (`Asked`) also counts a setting that is armed and not yet reported.

**Workflow run.** An executor acts on a snapshot, so `IInv` relates what it holds to the record:
it works on an action it knows as started (`Grounded`), a command belongs to the one that
started it until somebody gives it up as uncertain (`Owned`), a snapshot knows no plan that the
record does not (`PlansKnown`), and results in hand or on record were seen, or nothing began
and nothing will (`ResultsHeld`, `ResultsRecorded`). The compare-and-set makes a stale snapshot
harmless: a commit succeeds only if the record is still the snapshot. *Refinement.* The mapping
reads the abstract states off the record and the performed effects off `begun`. Every step is
then a start, an effect, a completion or a failure of `SequentialRun`, or changes neither; the
invariant excludes the rest, for instance an effect of an action that is not on record.

**Wake drivers.** At most one driver is in the middle of a delivery, and while it is the receipt
says *uncertain* (`ClaimsHeld`, `ClaimsExclusive`); `TypedAsKnown` ties every other state of the
receipt to the terminal, `BacklogExact` to the retries.

**Schedules.** A minute is not admitted twice although the row that proves it may be compacted:
the watermark of the schedule has passed every admitted minute, and the row of a run-once key
is never compacted (`Admissions`). What a tick remembers of the row it executes is true of it
while the row exists (`Loops`), and a launch happened for a row that was bound to it
(`Launches`); two backends in one tick differ only in what they have not yet written. What
compaction leaves is counted from the newest row it takes (`NewestRow`): nothing newer than that
one goes, and by the query's own condition `Retained` finished rows are newer
(`CompactionKeepsNewer`). The count needs the rows of a schedule to be finitely many, which they
are because the row of a minute belongs to the schedule its key names (`Rows`).

**Compilation.** What a recursive function computes needs induction over data, and the theorems
of the library that provide it take an operator. `WorkflowGraphProofs` does without: a set of
counterexamples that is not empty has a smallest member, because the proper-subset order on
the subsets of a finite set is well founded (`Smallest`, `SubsetInduction`). In this way
the loop is shown to be well defined, to give each node after all it depends on, and to stop
early exactly on a cycle.

**Admission.** What was read before the transaction is compared in it, so `StoredInv` speaks of
the tables and `ProcessInv` of what callers and ticks hold, and each side needs little of the
other: a waiting request compiled its draft, a listed workflow exists. A key that admitted a
manual run has its receipt (`Receipted`), and the row of a scheduled run is its own.
`VersionsAreSavedDrafts` uses `CompiledOrderRuns`.

**Spawn.** The holder of the agent's lock has the journal's receipt in hand (`InHand`), so it
runs a stage only when the journal says so; what the receipt says happened did, and a prompt
that was typed or sent shows in it as in flight, as failed uncertainly or as committed
(`Evidenced`), from where no directive leads back to the prompt. A prompt that the launch
carries has been handed over as often as a session was started, and a session is started only
in the place of one that is over and before the launch is committed; the commit names the
latest. A request that waits for the lock may hold an older receipt (`Seen`), which is why it
is authorized again.

**Stop.** The proof adds to this what the driver of a stop or a close knows (`Drivers`), that
nobody applies an operation whose agent is being stopped (`Frozen`), and per operation that
outcomes, closes, permits and the removal of the checkout fit together (`StopFits`): a checkout
that is gone has a stop that was asked to remove it and whose close had stopped the session, and
a stop that reports the end of the agent has a stopped close (`EndsFit`). That the session a
stopped close names is over (`NamedIsOver`) cannot be undone: sessions are numbered in the order
in which they start, so a later start only makes it truer, and no other close is admitted while
a stopped one holds the agent.

### Only model-checked

Liveness, which is out of the prover's reach: `OverdueIsReported`, `RunSettles`,
`RefusedIsRetried`, `PendingSettles`, `RunsSettle` and `StopSettles`. The three violations of
section 5 are TLC's counterexamples.

## 7. What is not modelled

* The transition of an agent between runtimes and hosts, the removal of an agent and the
  backend replacement protocol: planned above.
* In the agent sagas: receipts written by older versions, the identity checks of evidence, claims
  of other users on a checkout, and stop fences on a runtime transition.
* In schedules and definitions: the parsing of cron fields and time zones, limits of lists, and
  the contract each action puts on its inputs (one flag).
* Dispatches of `delegate_once` (`sqlite/src/workflow.rs`, `negotiate_dispatch_context`). Every
  dispatch of `InteractionStore` comes from `create_run`, so its theorems are about those;
  `create_run` also refuses a session with a launch of the other kind, which here is a refusal
  more.
* Runtime-authority expectations and launch identities in the canonical tables that a rebind
  also updates.
* Widths of cursors and revisions: `checked_add` refuses the operation before anything is
  written, and 64 bits are not reached.
* Schemas, wire formats, provider adapters, the browser engine, git, relay, hmux and the
  clients: input and output, or programs of their own.
