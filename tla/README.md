# UNG-CORE: TLA+ models, checks and proofs

UNG-CORE is an asynchronous FastAPI application over one SQL database. Its
handlers and background loops are coroutines, in one or in several processes;
they share nothing but the tables. Each service function reads rows with one
statement, edits the objects in memory and commits with another, without locks
or version columns. This directory models what that design can and cannot
guarantee, starting with the part of the system that acts on the outside world.

- [The system](#the-system)
- [How the code is modelled](#how-the-code-is-modelled)
- [The modules](#the-modules)
- [The runs](#the-runs)
- [Fairness](#fairness)
- [The proofs](#the-proofs)
- [What the models found](#what-the-models-found)
- [Not modelled](#not-modelled)
- [Plan](#plan)

Paths of sources are relative to `src/`; `app/` is the application.

## The system

| component | state | operations | interacts with |
|---|---|---|---|
| Job scheduler (`app/services/scheduler.py`, `app/api/scheduler_routes.py`) | `scheduled_jobs` rows, the batch a loop holds in its session | enqueue, list, claim, execute, mark the result, cancel, report a result | calls the execution adapters; is called by the recovery route |
| Execution adapters (`app/services/execution_adapters.py`) | locals of one call | `ml.health.evaluate`, `event.publish`, `http.request` | idempotency records, dead letters, circuits, event delivery, ML health, HTTP targets |
| Resilience tables (`app/services/security_resilience.py`, `app/api/recovery_routes.py`) | `idempotency_records`, `dead_letters`, `circuit_states`, `credential_references` | begin and complete a record; create, list and replay letters; count failures, open, half-open and close a circuit | replay enqueues a job |
| Approvals (`app/services/approvals.py`, `app/api/approval_routes.py`) | `approval_policies`, `approval_requests`, `approval_decisions` | edit a policy, create, decide and read requests, refresh expiry, the gate | gates the configuration rollback |
| Configuration and control plane (`app/services/control_plane.py`, `control_center.py`, their routes) | configuration entries and versions; organizations, systems and their dependencies | set and roll back a configuration; register; the impact of a failing system | approvals, audit, bootstrap |
| Event delivery (`app/services/event_delivery.py`) | `outbound_event_deliveries` | publish, deliver, retry | HTTP targets; is called by the adapters |
| Alerts, incidents and health polling (`app/services/alerting.py`, `incidents.py`, `health_poller.py`, `heartbeat.py`, `telemetry.py`) | alerts and their policies, incidents, heartbeats, samples | poll, open and resolve; acknowledge, resolve and escalate | service registry, ML health |
| Registry, gateway and routing (`registry.py`, `registry_bootstrap.py`, `gateway.py`, `routing.py`, `relay.py`) | services, routes, correlation rules | bootstrap at start-up, register, forward, correlate an event into an incident | HTTP targets, incidents |
| Audit and command history (`audit.py`, `command_history.py`) | append-only rows; commands | record, list; accept and complete a command | every operator route |
| Unified operations, workflows, resources (`unified_operations.py`, `workflows.py`, `resource_*.py`) | jobs, report outputs, compatibility contracts, workflows, resources | move a job or an output through its states, register a contract; start a workflow, register a resource, admit work | operator commands |
| Foundation runtime and checkpoints (`foundation_runtime.py`, `foundation_checkpoint.py`, `foundation_persistence.py`) | one object graph per process, snapshots in `foundation_state` | run an operation, snapshot, hydrate at start-up | foundation services |
| Foundation services (missions, over-the-air updates, model releases, event bus, API policy, fault supervisor, and a dozen others) | dictionaries in memory | one small state machine each | foundation runtime |
| Model registry, champions, rollback (`app/services/ml/model_registry.py`, `champion_challenger.py`, `auto_rollback.py`, `auto_retraining.py`, `training_pipeline.py`) | `ml_models` | train, register, validate, promote, activate, roll back, retrain, retire | the audit log, ML health |
| Predictions, feedback and serving (`prediction_audit.py`, `feedback.py`, `production_performance.py`, `serving_policy.py`, `human_review.py`, in `app/services/ml/`) | rows of `audit_events` | predict, record an outcome, the production gate, serve with a canary or an ensemble | model registry |
| ML health alerts (`health_dashboard.py`, `health_alerts.py`, `drift_monitoring.py`, in `app/services/ml/`) | alerts of the policy `ml-health` | summarize, check drift, raise | alerts; is run by the adapters |
| ML algorithms (the rest of `app/services/ml/`) | none | fit, score, evaluate | model registry |
| Identity and permissions (`iam.py`, `app/api/security.py`) | none (an external service) | authenticate, require a permission | every route |
| Application, database sessions (`app/main.py`, `app/db/`) | engine, loops | start, stop, time out a request | everything |

### What is hard here

*Interleaving.* Between a SELECT and its commit any other session may commit.
The sessions are created with `expire_on_commit=False`, so an object that was
loaded once is never read again in that session: the scheduler loop settles a
job from the object it claimed, not from the row.

*Lost updates.* An UPDATE names the columns that differ from what was loaded.
Two sessions that count from the same row lose one count; two that decide from
the same row mix their columns.

*Crashes and time-outs.* The middleware of `app/main.py` cancels a handler
after 30 seconds, between any two statements. A process that dies leaves rows
that say `running` and records that say `started`, and nothing looks for them.

*Retries.* A job is retried after a failure, replayed from a dead letter, run
again after a reported result, and claimed twice by two processes. Only the
unique idempotency key stands between this and a second call to the outside.
An outbound event has no such key: its answer may be lost, and then it is sent
again.

*Decisions on old evidence.* A gate reads the audit log, and what it permits is
done some statements later; a status is checked on the object that was read.

*Start-up and shut-down.* In-memory services are rebuilt from a snapshot. The
registries are filled by every process that starts, several at a time.

*Long sequences of legal calls.* The in-memory services check each transition
by itself; what a sequence of them may reach is nobody's line of code.

### What makes each component correct

- Scheduler: a running row has somebody who will settle it; attempts agree
  with `max_attempts`; a cancellation lasts unless a session read the job
  before it; with a live loop every job that does not repeat ends.
- Adapters and records: nothing leaves the process twice under one key; what
  was started and not finished has a trace; success means that the call was
  made and recorded; a key is buried once, as failed or as performed.
- Replay: a letter counts no more replays than jobs were made from it.
- Approvals: what is approved has a quorum of different actors, none of them
  the requester, and the gate opens only on such a request.
- Circuits: a circuit opens on as many failures as its threshold asks for, and
  an open one is tried again once its target was left alone long enough.
- Event delivery: attempts never exceed `max_attempts`; *delivered* means that
  the target accepted; only a request that was under way when the event was
  delivered takes that back.
- Health polls: an all-clear leaves nothing open; a service that recovers has
  its incidents closed in the end, and one that does not has them open.
- Model registry: what is active was validated, a retired version does not come
  back, and a session leaves one version of a key active.
- Evidence: a version is activated on its record; an outcome counts once
  unless requests overlap; what the log keeps showing keeps being alerted, but
  for drift, which ends the evaluation; an answer that nobody reviews is one
  that the models are sure of and near to one another in.
- Configuration: the history explains the value in force; edits of the row
  take their numbers in the order in which they are made.
- Registries: a process that serves has the whole payload registered; the
  bootstrap leaves no dependency without its systems, wherever it stops.
- Operation records: only a request that read a record before it became final
  reopens it.
- Impact: the walk finds exactly the systems that depend on the failing one.
- Foundation services: a task that the engine begins rests on completed work;
  what boots is what was marked; what is in production is in that stage; every delivery of
  the bus is accounted for, and no minute holds more requests than permitted.
- Checkpoints: what was saved with no older snapshot under way is not lost, the
  mode shown is that of the faults, and the row catches up with the runtime.

## How the code is modelled

A step ends at an `await`. A handler that reads and then commits is two steps
and keeps what it read in a session variable; the commit writes with
`Written(stored, loaded, edited)` of module `Orm`, the one operator that says
what SQLAlchemy's UPDATE does with a column. No isolation beyond the single
statement is assumed, except where the code relies on row locks (two places:
`ModelRegistry` and `ConfigVersions`, described there). Unique constraints are
guards: the loser of a race takes the branch the code takes on
`IntegrityError`. The in-memory services run without an `await`, and each of
their operations is one step.

Time is abstracted to sets: a job is in `due` when its `next_attempt_at` has
passed, a request in `overdue` when its `expires_at` has. Time passing is an
action, so any delay is possible and no interval is assumed to be short or
long. Only the rate limit, which is about a window, counts time.

Names, payloads, results, wording and the audit trail are left out. Where the
code tells payloads apart, the model keeps what it tells apart: the idempotency
key, the repetition interval (`no`, `minutes`, `seconds`, the last being the
interval that `mark_job_result` refuses), the number of attempts. Where
decisions are made from the audit trail, it is modelled (`ModelEvidence`).
Floating-point numbers appear as percentages and squared errors, and the
comparisons of rates, means and roots are multiplied out to integers.

The database is assumed to return the time zones it was given, as PostgreSQL
does. On SQLite the comparison with `opened_at` raises; see the hazards.

Variables that a comment calls *history* are not in the code: they record what
a property needs to know of the past and guard nothing.

A definition whose name says what it does wrong (`MarkedNotCounted`,
`InsertTwice`, `VoteCommitTwice`, ...) is no part of the specification. It stands before
the definition it distorts and records a mistake that the property named in
`PROJECT.json` notices.

## The modules

| module | what it is |
|---|---|
| `Orm` | how a session writes a row back |
| `Scheduler` | the job table, the loops, the cancelling and reporting handlers |
| `Execution` | extends `Scheduler`: what a loop does with a claimed job, idempotency records, dead letters, replay |
| `OnceLedger` | the abstract promise of the idempotency records |
| `Approvals` | policies, requests, decisions, expiry, the gate |
| `QuorumGate` | the abstract promise of the gate to what it protects |
| `CircuitBreaker` | the circuit of one target and the calls that ask it and report to it |
| `Checkpoint` | the foundation runtime of a process, its row, and all that save it |
| `ConfigVersions` | one configuration key, its history, the sessions that edit it |
| `EventDelivery` | one outbound event and the requests that send it |
| `ServiceHealth` | one service: its polls, incidents and alerts, and the operators |
| `SystemCatalog` | the registries and the bootstrap of starting processes |
| `DependencyImpact` | the walk from a failing system to those that depend on it |
| `OperationRecords` | a job, an output and a command, moved by overlapping requests |
| `Missions` | the mission workflow of the foundation runtime |
| `Releases` | over-the-air updates and the staged release of models |
| `Flows` | the event bus and the rate limit |
| `ModelRegistry` | the versions of a model key and all that moves them |
| `ServingPolicy` | how a serving request is answered and when a person reviews it |
| `ModelEvidence` | the audit log of a model key and all that is decided by it |
| `MCScheduler`, `MCExecution`, `MCApprovals`, `MCModelRegistry` | constants and symmetry for TLC |
| `MCProgress`, `MCOperations`, `MCEvidence` | compositions for TLC (below) |
| `SchedulerProofs`, `ExecutionProofs`, `ApprovalsProofs`, `ModelRegistryProofs`, `ProgressProofs`, `OperationsProofs`, `FoundationProofs`, `EvidenceProofs` | theorems |

**Compositions.** `Execution` really composes: it extends the scheduler and
takes its actions. The components of `MCProgress` and `MCOperations` share no
row, and no action of one reads what another writes; interleaving them would
multiply their states and show nothing. These modules therefore follow one
component in each behaviour (`followed`, `focus`, chosen initially) and let the
others rest. Each property is one of a single component and is checked in all of
that component's behaviours. `ModelEvidence` is one component whose log would
grow too many ways at once; `MCEvidence` tells it as *stories*, each with some
of what fills the log and some of its readers, so that every action is in a
story with the ones it races with.

### Scheduler

`jobs` is the table, `due` the rows whose time has come. A loop `w` is at
`pc[w]`: *idle*; *claiming* between the SELECT and the commit of
`claim_due_jobs`; *holding* a `batch[w]` of claimed jobs; *executing*
`current[w]`; *returned* or *raised* between `execute_adapter` and
`mark_job_result`. `loaded[w]` are the row objects in its session. `request[h]`
is what a cancelling or reporting handler read. `minted` keeps the uuids of
recurrences apart. `stranded` is history: jobs that a pass of a loop claimed
and left.

| action | code |
|---|---|
| `Enqueue` | `enqueue_job`, `create_job` |
| `ClaimRead`, `ClaimCommit` | `claim_due_jobs`, its SELECT and its commit |
| `Start`, `AdapterEnds` | `execute_claimed_job` up to the call, and the call's outcome |
| `Settle`, `SettleRaises` | `mark_job_result`; the second when a succeeded job asks to be repeated too soon |
| `Escape` | an exception leaves `execute_claimed_job`: the pass ends |
| `Crash` | the process dies or the database fails |
| `CancelRead`, `CancelCommit` | `cancel_job` |
| `ReportRead`, `ReportCommit` | the result route and `mark_job_result` |
| `RequestDropped` | the request timeout |
| `BecomeDue` | time passes |

### Execution

`stage[w]` is the statement of `execute_adapter` that `w` is about to run:
*begin* (SELECT of the record), *insert*, *send*, *complete*, *bury*, and after
a result that could not be encoded *unencoded* and *closed*.
`started` and `completed` are the keys of the records, `dead` the letters,
`effects` the keys of the calls that left the process, in order. `lost` and
`replayJobs` are history.

The three adapters do the same with the record, the circuit and the letter and
differ in the call they make; `Send(w, ok)` stands for each of them, and
`SendRefused` for everything that stops a call before it is made (unknown
action, missing parameter, target not allowed, circuit open). A call that
failed may still have had its effect, so a `Send` that fails counts as an
effect. `event.publish` returns normally when its delivery fails.

`complete_idempotent` marks the record completed before it encodes the result,
and the result of an `ml.health.evaluate` that has raised an alert, or that
reports a drift check, holds a `datetime` that `json.dumps` refuses. The mark
stays in the session, and the next commit writes it: that of
`record_circuit_failure`, when the job names a system, else that of the letter
(`CompleteFails`, `RecordFailure`, `Bury`, `FlushMark`). Such a key is completed
*and* buried, and the attempt counts as failed. `EachKeyEndsOnce` says which of
the two a letter is about.

`ExecutionNext` keeps `QueueStep` of the scheduler and replaces `Start`,
`AdapterEnds`, `Escape` and `Crash` by actions that conjoin them with their
part of the adapter. Two abstract specifications are implemented:
`ImplementsScheduler` (the scheduler's `Spec`, on the same variables) and
`ImplementsLedger` (`OnceLedger` under the mapping `open <- started`,
`closed <- completed`, `performed <- effects`).

### Approvals

`policies`, `requests` and `decisions` are the tables; `edit`, `vote`, `look`
and `gate` the sessions of the handlers. `decide_request` is four steps: the
request, its policy, the existing decision, the commit. `assert_gate` is the
policy, then the request named by the caller or a new one. `passed` is the set
of passages the gate granted. An actor's roles are a constant; the policy's
role list, its enabled flag, whether it covers the operation and the quorum
are columns that an editor changes one by one as the flush does.

The module implements `QuorumGate` (`ImplementsGate`): `asked` is who asked, for
what and of how many, `approvals` who has an approval on record, `open` the
requests with status *approved*. A decision that finds its row gone stale, an
expiry, or an edit of the policy is a stutter or a `Shut`; only a committed
approval that has the quorum on record opens, and only through an open gate
somebody passes. A denial needs no action of its own: it shuts what was open
and is nothing to a gate that was not.

### CircuitBreaker

`circuit` is the row of one target, `call[c]` where caller `c` is in
`execute_adapter`, why it asks (`intent`: for leave, to report a success, to
report a failure) and the row object it has in hand. `Select`, `Create`,
`HalfOpen` and `Refresh` are the awaits of `get_circuit`; `Allowed` and
`Refused` are `assert_circuit_allows`; `Answer` is the call outside;
`RecordSuccess` and `RecordFailure` are the commits. Failures beyond the
threshold are not told apart: a failure is written whatever was loaded, so
nothing depends on them. `opened` says whether `opened_at` is absent, recent,
or older than `retry_after_seconds`. `recorded` is history.

Two things in the code are easily overlooked. A refused call is reported
as a failure, with the row object that the refusal read, since the exception's
traceback keeps it in the session. And a job whose target is named only in its
payload (`event.publish` without a `system_key`) reports its successes and not
its failures.

`Execution` leaves open whether a call is refused, so any behaviour of a
circuit is among those it allows; the two are not composed.

### Checkpoint

`phase` is the life of the process, `runtime` its faults and a version that
counts its changes, `stored` the row, `save[s]` what each saver has in hand: a
snapshot, and the row it loaded. Handlers change the runtime and take
the snapshot without an await in between (`ReportFault`, `ClearFault`); the
loop (`LoopBegins`) and the shutdown (`ProcessStop`) take one of what is there.
`SaveSelect`, `SaveCommit` and `SaveFails` are `save_state`. `ProcessStart`
hydrates a fresh runtime from the row (`Hydrated`); `ProcessCrash` loses all
that was not committed. The version stands for counters and time stamps of the
payload, by which no two states of a process are equal. The other operations of
the runtime change parts that are saved in the same way, and one process is
assumed, as in `Procfile`.

### ConfigVersions

`config` is the row of one key, `versions` its history, `edit[e]` what a
session has in hand, `keeps` the session whose flushed UPDATE or INSERT keeps
the row.

| action | code |
|---|---|
| `SetConfiguration`, `RollbackConfiguration` | `upsert_configuration` and `rollback_configuration` up to the edit of the row object |
| `NextConfigVersion` | `_next_config_version`: its SELECT flushes the edit first, and the flushed row stays locked until the commit |
| `CommitConfiguration` | the INSERT of the version and the commit |
| `RefusedRow`, `RefusedVersion` | the unique keys of the registry and `uq_config_version` |
| `AbandonEdit` | the request timeout, a crash |

The autoflush is what keeps editors apart, and the code does not mention it.
It keeps only the editors that change something: a value that is submitted
unchanged flushes nothing, keeps nothing, and takes its number next to an edit
that is under way. One of the two is then refused. In the history, `set` and
`kept` say which columns the edit really wrote. Whether a rollback is permitted
is `Approvals`.

### EventDelivery

`delivery` is the row, `sender[s]` a request: *mark* after `retry_delivery` has
read it, *post* with a pending row object in hand, *settle* with the answer.
`PublishEvent`, `RetryDelivery`, `MarkPending`, `Post`, `Settle` are the steps
of `publish_event` and `retry_delivery` around `deliver`; `LoseSender` is the
request timeout. A POST may be accepted and its answer lost, and nothing
serializes retries. `taken` and `late` are history.

### ServiceHealth

A poll is `PollBegins` (the probe, the heartbeat, the sample), `ReadIncidents`
and `CommitIncidents`, `ReadAlerts` and `CommitAlerts`. `RefusedIncident` and
`RefusedAlert` are the unique keys that end a poll whose INSERT another one
preceded; `PollFails` is a failing commit, which ends the poll, or a failing
`list_services`, which ends the loop. `RouteEvent` opens the incident of a
correlated event. Operators take an alert (`Acknowledge`, `Resolve`,
`Escalate`) or signal a trouble themselves (`Signal`, the route
`POST /v1/alerting/evaluate`, which opens an alert without any poll), and write
it (`DeskWrites`; `RefusedSignal` is the unique key). `ServiceChanges`,
`Failures` and `UpsertPolicy` are the surroundings. `clear` and `sole` are
history: a healthy poll has ended during which nobody found or signalled a
trouble, and nobody has since. A signal is taken to name a `state` that polls
name as well; alerts of other states are never resolved by a poll and are
outside the model.

### SystemCatalog

`catalog` says who wrote the row of a key last; a key is an organization, a
system or a dependency. `Register` and `RegisterWrites` are an upsert of the
routes; `BootReads`, `BootWrites` and `BootEnds` go through the payload in the
order of `bootstrap_registry`, each key an upsert with its own commit;
`Crash` stops a process anywhere. A refused INSERT ends the start, and the
supervisor starts the process again.

### DependencyImpact, OperationRecords

`WalkStep` is one turn of the `while` of `dependency_impact`, over any graph of
dependencies; the check has all graphs of three systems. `ReadRecord` and
`WriteRecord` are `transition_job`, `change_output` and `complete_command`,
`LoseRequest` the request timeout; `tardy` is history. A command's status and
its result are given independently of one another.

### Missions, Releases, Flows

Three services of the foundation runtime in one module each, with one action
per method: `AddTask`, `RefreshReadiness`, `Transition` for missions; `Stage`,
`MarkRebootPending`, `BeginBootVerification`, `CompleteBootVerification` for
updates, `RegisterRelease` and `Promote` for the releases of a model; `Subscribe`,
`Unsubscribe`, `PublishNowait` and a reader's `Take` for the event bus,
`Evaluate` and `TimePasses` for the rate limit. `marked`, `received`, `owed`
(the pairs of a subscriber and an event published while it subscribed) and
`allowed` (the times of the requests let through, in order) are history;
`bucket`, the deque of the code, is the set of those of them it still holds, so
that two requests of one instant stay two.

`add` and `register` store what the caller hands them, in whatever state or
stage it says it is. A task that comes in as *running* is begun on nothing, and
no property can speak for it: `brought` (history) holds those tasks, and
`BegunOnCompletedWork` is about all others, whatever was brought in next to
them. A release that comes in as *production* has the stage and is not what
production points to.

### ModelRegistry

`models` are the versions of one key: status and the verdict of the last
validation. `session[h]` is where a handler is, the version it works on, the
row object it loaded and the rows its UPDATE has found. An `Activator` is a
session of a route that can activate a version, a `Clerk` one that registers,
validates or retires. `vouched` and `answered` are history.

| action | code |
|---|---|
| `TrainRead`, `PipelineRead`, `RegisterInsert`, `TrainJudge` | `run_training_pipeline` around `register_model` and `record_validation` |
| `ActiveRead`, `Retrain` | `run_controlled_auto_retraining`: the active version, then the pipeline |
| `RegisterRead`, `RegisterInsert` | `register_model` for the other routes |
| `Fetch` | the activation route up to `activate_model`'s checks |
| `PromoteList`, `PromoteFetch` | `promote_challenger` |
| `ActiveRead`, `RollbackList` | `rollback_model` |
| `ActiveRead`, `AutoRollbackList` | `evaluate_auto_rollback` |
| `Demote`, `Lock`, `Activate` | the rest of `activate_model`: the UPDATE, its row locks, the commit |
| `ValidateRead`, `ValidateCommit`, `RetireRead`, `RetireCommit` | the validation route and `retire_model` |
| `Dropped` | a failed check, the request timeout, a deadlock broken by the database |

`activate_model` is the one transaction here with two writing statements, so
the database's isolation matters: the model is READ COMMITTED with row locks,
PostgreSQL's default and what the deployment uses. SQLite lets one transaction
write at a time, and what it allows is among the model's behaviours. The
verdicts of the production gates are left open here and are the subject of
`ModelEvidence`.

### ServingPolicy and ModelEvidence

`ServingPolicy` is the pure part of `serving_predict`: which model is selected
(`CanarySelected`), when the ensemble answers in its place (`FallbackUsed`),
and the reasons and severity of a human review. Its inputs are all requests
over a few probabilities, on and beside every threshold. A single model's class
is its probability against the threshold of its own artifact, which training
may choose; the ensemble's is against 0.5. Review rules look at confidence and
at the distance of probabilities, never at the classes. `AnswersAreReviewed`
therefore promises that an answer that nobody reviews is of a model that is
sure and that the models compared are near; that they say the same class it
promises only for models with the default threshold.

`ModelEvidence` has the audit `log` of one key, the `standing` of its versions,
the `request` of each client, the alerts (`alarm`) and the `policy` ml-health,
and the `job` that evaluates them.

| action | code |
|---|---|
| `Predict`, `Serve`, `Other` | rows that predictions, serving requests and everything else leave |
| `LookUp`, `Insert` | `record_prediction_feedback`, its SELECTs and its INSERT |
| `CheckDrift`, `RecordDrift` | `check_model_drift` |
| `GateRoute` | `activate_model_with_production_gate` |
| `Promote`, `PromoteGate` | `promote_challenger`: the snapshot, then the gate |
| `AutoRollback`, `AuditRollback` | `evaluate_auto_rollback` and the row it leaves |
| `ManualRollback` | `rollback_model` |
| `Activate`, `Retire`, `Dropped` | the commit of an activation, `retire_model`, the request timeout |
| `EvaluateQuiet`, `EvaluateTells`, `EvaluateFails` | one attempt of the job `ml.health.evaluate`: `evaluate_and_raise_ml_alerts` over `summarize_ml_health`, and what becomes of its result |
| `TryAgain` | the next attempt: answered by the completed record, or refused |
| `EvaluateRoute` | the same evaluation by its route, whose session commits nothing when it raises |
| `Schedule`, `JobLost` | the job is scheduled anew; it is cancelled or abandoned |
| `UpsertPolicy`, `Signal`, `Acknowledge`, `Resolve` | what operators do |

Every reader sees a window of the log: promotion, rollback and alerts the newest
rows of all actions, the gate of an activation the newest feedback. That
difference is kept, and the windows are made small enough that rows fall out.
`ActivatedOnItsRecord` therefore says two things of whoever activates a version
other than by hand: the window that it saw does not show the version degraded,
however long the log; and nothing in the whole log did, as long as the log fits
the windows.

The evaluation is a job, and it meets two failures of `json.dumps`. The details
of the drift finding hold the time of the check, so `evaluate_signal` raises
before the alert exists: the key stays started, the remaining attempts are
refused and the job ends without recurring (`DriftEndsTheJob`). Any other alert,
once raised, makes the result one that cannot be encoded: the attempt fails with
its key completed (see *Execution*), the next attempt is answered by the record
and the job recurs, so that it outlives its alerts only with a second attempt.
By default it has three (`Attempts`). `FindingsAreAlerted` is about the
findings other than drift and about a job that does not end. The model assumes
one such job, no service registered under the name `ML`, whose polls would
resolve these alerts, and no other policy that covers them.

## The runs

`CHECK_DEADLOCK FALSE` is set in all of them: each system may stop when every
job has ended and every row of the bounded tables is used.

| run | question | bounds |
|---|---|---|
| `scheduler` | is a running row always held (`RunningIsHeld`) and does a cancellation last (`CancelSticks`) when two loops and reports compete? | 1 job, 2 loops, 1 canceller, 1 reporter, limits 1 and 2, every kind of repetition, 1 crash, 1 uuid |
| `execution_one_loop` | do statuses and attempts agree with `max_attempts` (`AttemptsRationed`)? does *succeeded* mean that the call was made and recorded (`SucceededMeansCompleted`)? does a replay count have its jobs (`ReplayCountIsBacked`)? | 2 jobs sharing 1 client key, 1 uuid, every repetition, limits 1 and 2, 2 replaying sessions, no crash (the runs with two loops have one) |
| `execution_two_loops` | is each key performed once (`AtMostOnceEffect`), is every started record accounted for (`StartedIsAccounted`), are the two abstract specifications implemented? | 2 jobs, 1 client key, 2 loops, 1 uuid, 1 crash, batches of 1 |
| `execution_liveness` | is every claimed job settled (`RunningEnds`), does every job that does not repeat end (`EveryJobSettles`)? | 2 jobs, 1 key, 1 loop, 1 canceller, limits 1 and 2, batches of 2, no crash |
| `execution_refused` | is a refusal "in progress" true? It is not | 1 loop |
| `approvals_gate` | is the count backed by decisions (`CountIsBacked`), does the gate open only on a quorum (`GateOpensOnQuorum`), while the policy is eased and tightened, and is it the gate of `QuorumGate` (`ImplementsGate`)? | 1 request, 2 targets, 3 actors, 2 voters, 1 editor, 1 reader, 1 caller; without edits that write what they read, and without edits while a reader or a caller with a request is under way, which touch no row in common (`EditsMatter`) |
| `registry` | does any session leave two of its versions active (`OneActivePerSession`)? was what is active validated (`ActiveWasVouched`), and who brings a retired version back (`RetirementSticks`)? | 2 versions, 2 activators, 1 clerk |
| `registry_two_active` | is one version active? Two can be | 2 versions, 2 activators, 1 clerk |
| `progress` | is a circuit that stays open without a time given one (`OpenGetsItsTime`), and one whose time has come tried again (`RipeIsTried`)? do polls close and open incidents in the end (`PollsSettle`)? do processes that start together come up (`HostsAllComeUp`)? does the row catch up with the runtime (`RowCatchesUp`)? is every opening earned (`OpenIsEarned`), does a saved change survive (`SettledSurvives`)? | circuit: 2 callers, 1 of them steady, threshold 5, the code's default; health, told three times: both troubles with 1 poll loop, 1 trouble with 2 loops, 1 trouble with 1 loop and everything around it (escalations, signals, events, edits of the policy), each with 1 operator; start: 2 processes, 2 systems, 1 crash; checkpoints: 1 fault, 2 handlers, the loop, the shutdown, 2 changes, any number of crashes |
| `operations` | the control plane and the foundation services, eleven properties that are named with their modules below | configuration: 2 editors, 2 values, 4 versions; events: 3 requests, 2 attempts; health: 2 poll loops, 1 operator, 1 trouble and an event, any policy that is not edited meanwhile; registries: 2 processes, 1 registrar, 1 crash, strict; impact: every graph of 3 systems; records: 2 requests; 3 tasks with any dependencies, added in any state; 2 updates, 2 releases; 2 subscribers, queues of 1, 3 events; 2 requests per minute, a minute of 2, a clock to 4 |
| `evidence` | does an outcome count once (`FeedbackIsRationed`)? is a version activated on its record (`ActivatedOnItsRecord`)? does what lasts stay alerted (`AlarmsLast`), and does drift end the evaluation (`DriftEndsTheWatch`)? is what nobody reviews sure, near and of one class where the thresholds are (`AnswersAreReviewed`)? | 3 versions, two classifiers with 80 % and a regression with rmse 2; 2 clients; windows of 2 rows in logs of up to 4; probabilities 10, 50 and 75 with thresholds 50 and 80, buckets 0, 50 and 100; alarms: degradation and drift of one version, a job of 2 attempts |
| `evidence_rollback` | is a manual rollback gated, as the README says? It is not | as above, logs of up to 3 rows |

The properties of `operations`: `ValueInForceIsRecorded` and `KeeperHasItsNumber`
(`ConfigVersions`); `DeliveredWasTaken`, and `OnlyTheLateUndo`, which joins
`OnlyLateSendersUndeliver` of `EventDelivery` and `OnlyTardyRequestsReopen` of
`OperationRecords`; `AllClearIsQuiet` (`ServiceHealth`); `BootLeavesWhole`
(`SystemCatalog`); `ImpactIsLeastClosed` (`DependencyImpact`);
`BegunOnCompletedWork` (`Missions`); `WhatRunsWasReleased` (`Releases`);
`FlowsAreAccounted` (`Flows`);
and the types of all of them (`OperationsTypeOK`, in which the attempts of an
event are bounded by `max_attempts`). The types of all modules are proved.

Why these bounds suffice to be interesting: every race of the code is between
two sessions on one row, or between two jobs under one key, so two of each is
where each race first exists. Three requests on an event let one be late for
two others. A limit of 2 has a first and a last attempt; a
batch of 2 has a job that is stranded by the other; a threshold of 5 lets two
callers lose counts and still reach it. A crash needs one crash to
leave its traces; a second one adds nothing that a second worker does not.
Three tasks or systems form chains, cycles, and chains into cycles. A
window of 2 rows in a longer log has something that has fallen out of it; one
wrong class in two degrades a classifier, and one of the two squared errors,
alone or with the other, the regression; the
probabilities and buckets are on and beside the thresholds of the policy.
Safety beyond these bounds is what the theorems are for.

## Fairness

`execution_liveness` assumes, in `FairSpec`, weak fairness of each
loop's steps and of time. A scheduler loop polls for ever (`scheduler_loop`),
each of its awaits returns because the HTTP clients have time-outs, and
`next_attempt_at` is a time that passes. Nothing is assumed of handlers or of
clients. The run has no crash: a crash strands its batch for good, which
`RunningIsHeld` says as safety. It has one loop: with two, an `IntegrityError`
strands a batch in the same way. It has no interval below a minute, which strands
the rest of the batch as well.

`progress` gives each component, while it is the one followed, the fairness of
its own scheduling:

- *Circuit*: weak fairness of one steady loop: it is not killed, it goes
  on with its statements, and jobs for the target keep coming to it. The other
  caller may stop anywhere. Time is under no fairness: `RipeIsTried` speaks of the
  behaviours in which the target is left alone, again and again, for
  `retry_after_seconds`. With denser traffic an open circuit stays open for ever,
  because refusals renew `opened_at`.
- *Polls*: weak fairness of each poll loop: it sleeps and polls again. Failures
  are free to happen at any time. `PollsSettle` speaks of the behaviours in
  which they stop in the end, the service stays as it is and the loops are still
  alive (one that died in `list_services` is not restarted). Operators go on:
  one whose acknowledgement was read before a poll resolved the alert and
  committed after it makes it active once more, and with two alerts such
  commits may alternate. What is promised is therefore that *each* alert of a
  healthy service is closed again and again, and not that all are closed at one
  moment.
- *Start*: weak fairness of each starting process; a supervisor starts the one
  that failed again. Crashes are bounded by `MaxCrashes`, as a process that
  is killed for ever never comes up.
- *Checkpoints*: `checkpoint_loop` keeps beginning a save when it has
  none under way, with strong fairness of its SELECT and its commit: the loop
  suppresses failures and tries again, and the database does not fail it every
  time. Nothing is assumed of the handlers or of the process, which may crash at
  any time; `RowCatchesUp` speaks of behaviours in which it stays up.

`evidence` assumes weak fairness of `EvaluationStep` alone: a job that is due is
run by a live loop, and so is its next attempt. That the job is there is not
assumed: it may be cancelled or abandoned, and nobody has to schedule it again.
Operators may resolve an alert whenever they like; `AlarmsLast` says that it is
active again and again for as long as the log shows its cause, the policy covers
it, and the job does not end. `DriftEndsTheWatch` is what the code does with
drift that the policy covers, so a job that lasts is one that sees none.

## The proofs

`tlapm` proves the following for all values of the constants, under the named
assumptions of the modules: job ids, client keys and uuids are different
things, limits are positive, `NoJob` is no job, cancellers are no reporters,
`Nobody` is no actor, target or request, `NoManifest` no manifest, and the
like. No theorem needs a bound on jobs, loops, sessions, crashes or recurrences.

| theorem | property | run |
|---|---|---|
| `TypeCorrect`, `RunningAlwaysHeld`, `AttemptsAlwaysRationed`, `CancellationSticks` | `TypeOK`, `RunningIsHeld`, `AttemptsRationed`, `CancelSticks` | `scheduler`, `execution_one_loop` |
| `ExecutionTypeCorrect`, `EffectAtMostOnce`, `StartedAccounted`, `KeyEndsOnce` | `ExecutionTypeOK`, `AtMostOnceEffect`, `StartedIsAccounted`, `EachKeyEndsOnce` | `execution_two_loops` |
| `ReplaysAreBacked`, `SuccessIsReal` | `ReplayCountIsBacked`, `SucceededMeansCompleted` | `execution_one_loop` |
| `ExecutionImplementsScheduler`, `ExecutionImplementsLedger` | `ImplementsScheduler`, `ImplementsLedger` | `execution_two_loops` |
| `ApprovalsTypeCorrect`, `CountAlwaysBacked`, `GateOpensOnlyOnQuorum` | `TypeOK`, `CountIsBacked`, `GateOpensOnQuorum` | `approvals_gate` |
| `ApprovalsImplementGate` | `ImplementsGate` | `approvals_gate` |
| `RegistryTypeCorrect`, `ActiveAlwaysVouched`, `OneActiveForEachSession`, `ActiveAtMostSessions`, `RetirementStays` | `TypeOK`, `ActiveWasVouched`, `OneActivePerSession`, `RetirementSticks` | `registry` |
| `CircuitTypeCorrect`, `OpenAlwaysEarned` | `TypeOK`, `OpenIsEarned` | `progress` |
| `CheckpointTypeCorrect`, `ModeAlwaysShown`, `SettledAlwaysSurvives` | `CheckpointTypeOK`, `ModeShown`, `SettledSurvives` | `progress` |
| `ProgressIsSafe` | both of them, of the composition | `progress` |
| `DeliveryIsReal`, `DeliveryLasts`, `FinalUnlessTardy` | `DeliveredWasTaken`, and the two halves of `OnlyTheLateUndo` | `operations` |
| `HistoryExplainsTheValue`, `KeepersAreNumbered` | `ValueInForceIsRecorded`, `KeeperHasItsNumber` | `operations` |
| `HealthTypeCorrect`, `AllClearAlwaysQuiet` | `HealthTypeOK`, `AllClearIsQuiet` | `operations` |
| `BootLeavesWholeAlways` | `BootLeavesWhole` | `operations` |
| `MissionsOnSolidGround`, `ReleasesAreWhatTheySeem` | `BegunOnCompletedWork`, `WhatRunsWasReleased` | `operations` |
| `FlowTypeCorrect`, `FlowsAlwaysAccounted` | `FlowTypeOK`, `FlowsAreAccounted` | `operations` |
| `WalkFindsTheImpact` | `ImpactIsLeastClosed` | `operations` |
| `OperationsTypeCorrect`, `OnlyTheLateUndoAnything`, `OperationsAreSafe` | `OperationsTypeOK`, `OnlyTheLateUndo`, and all invariants of the run, of the composition | `operations` |
| `EvidenceTypeCorrect`, `FeedbackAlwaysRationed`, `AnswersAlwaysReviewed`, `ActivationsOnTheirRecord` | `EvidenceTyped`, `FeedbackIsRationed`, `AnswersAreReviewed`, `ActivatedOnItsRecord` | `evidence` |

**Scheduler.** `RunningIsHeld` is not inductive: it says nothing of the row
objects in the sessions, and a handler that commits an old `running` would
break it. The invariant adds what sessions may hold (`LoopsOK`: a loop past
the claim has its batch loaded as running and its current job in the batch;
`HandlersOK`: what a cancelling session read was not terminal, what any session read had
attempts consistent with its status) and the agreement of rows with
`max_attempts` (`RowsOK`). Only `cancelled`, `succeeded`, `failed`, `retry_wait`
and `scheduled` are ever written outside the claim, hence a row becomes running
only in `ClaimCommit`, when the loop holds it.

**Execution.** `AtMostOnceEffect` rests on `EffectsOK`: a key among the
effects has its record, and a loop about to send has a started record that is
its own and that has no effect yet. `StageOK` ties the stage to the pc,
`RecordsOK` keeps started and completed keys apart and gives each stage past
the insertion to one loop alone, `LettersOK` and `BurialOK` say the same of
letters: a letter about an action has a started key, one about a result a
completed one, and no loop is at work under either. `OwnKeys` says that a key derived from a job id belongs to that job.
The refinements follow from the invariant action by action; only the ledger's
`Perform` needs it, for `k \notin Performed`.

`ReplayCountIsBacked` compares a count with the number of jobs made
from a letter. `ReplaysOK` counts those jobs: a session that has enqueued and
not yet marked has one job more than the count it read, since the job it
made was absent before (`JobsOfGrow`), and the jobs of a letter only grow.
`SucceededMeansCompleted` needs to know that what a loop reports, it reports of
the key that the row has. `SuccessOK`: the key in the session is the row's,
except for a job that repeats, whose key changes and which never stays
succeeded; and a loop that has returned has completed its key.

**Approvals.** `GateOpensOnQuorum` needs to know that a voter about to commit
read a count that is still backed (`HeldSound`): decisions are never deleted,
so approvals on record only grow, and the count a session read plus its own
decision stays at most what is on record when the unique pair lets it commit.
The other parts are `RowSound` for each request and `PoliciesAsk` (a policy
asks for one approval at least, as the route's schema demands).

`GateRefines` takes the steps one by one. What matters are the three that write
a request: a creation is an `Ask` (`CreationAsks`), an expiry a `Shut` or
nothing (`ExpiryShuts`), and a vote's commit an `Approve`, a `Shut` or nothing
(`CommitDecides`). In the last, `Flush` may leave the status of another session
in place or put *approved* over a denial; what it cannot do is to set *approved*
without a decision of its own that completes the quorum, which is `HeldSound`.
`PassageIsPass` needs nothing of the session but that the status it reads and
the passage it grants are one step.

**Model registry.** `OneActivePerSession` says that the session that activated
an active version last is an injection into `Activators`, whence the count of
`ActiveAtMostSessions`. `Tenure` makes it inductive. It is kept because an activation demotes every version that
was active when its UPDATE began, its own former one among them, and only the
session itself can make another version its own; re-activating a version that
another session demotes writes nothing. `ActiveWasVouched` needs `Sound` (a
session that is about to activate read a passed validation) and `Vouching`.
`RetirementSticks` uses that row locks exclude one another (`LocksHeld`).

**Circuit.** `InHandEarned` says of the row objects in the sessions what
`OpenIsEarned` says of the row. Without it a session could bring back
an opening that a clean success had accounted for; that is why
`recorded` starts again only when no other session has a row object in hand. It
also says that a session about to half-open read an open row.

**Checkpoints.** `Fresher`: a live process has seen all that is
settled or stored, and no snapshot under way is older than what is settled. A
version becomes settled only when no older snapshot is under way, and later
snapshots are taken of a runtime that is at least as new.

**Compositions.** What is proved of a component holds in the compositions that
follow one component at a time: `ProgressImplements` and `OperationsImplement`
show that a behaviour of the composition is one of each component (which takes
steps while it is followed and stutters otherwise), and `ProgressIsSafe` and
`OperationsAreSafe` collect the results.

**Event delivery and records.** `Posting`: what a request is about to count
stays within `max_attempts`, and what it is about to settle as accepted was.
`Overtaken`: once the row says delivered, every request under way is late,
because a new one is refused; so whoever changes the row is. `ReadLast` says
the same of jobs and outputs: a request that is not tardy has the record as it
is, and may not leave a final state.

**Configuration.** `Keeping`: the session that keeps the row is the one
that is about to commit a change. A value that an edit sets is therefore set by
the newest version that sets one, and a commit that sets none leaves the value
that was there (`EditedRow`). A keeper's number can be taken only by a version
that was committed while it kept the row, and such a version kept nothing.

**Registries.** `Whole`: what a session read as written is written, for no row
is ever deleted; a host is up only with the payload done; and the next keys are
of the lowest rank that is left, so that a dependency is written after both its
systems, which strict validation has found in the payload.

**Health polls.** `AllClearIsQuiet` is about the history variable `clear`, which
a healthy poll sets when it ends *sole*: when nobody has found or signalled a
trouble since it began. The invariant says what a sole poll knows. `NobodySick`: while one exists, or the all-clear stands, no poll and no operator carries a
trouble that is yet to be reported. `SoleSeesAll`: hence what it read as open is all that is open, and
what it has closed stays closed. `DesksOpenNothing` covers the other operators,
who may write an alert that they loaded long ago, but never its status *open*,
which an edit at most leaves as it was loaded and which is then not written.
Several polls may overlap, fail at a commit, lose a unique key or die.

**Foundation services.** A group of tasks begun by the engine that waited for
itself would have been completed before it began (`BegunStep`). `StagedIsAManifest` says
that nothing is marked or verified before something was staged. `WalkIsOnTrack`:
what the walk has found is in every closed set, and what it has not yet visited
is all that keeps its own from being closed.
Of the bus, `InOrder` says that what a subscriber has received and what waits
in its queue are ascending, so that no event is there twice, and `Accounted`
that what reached it was owed and the rest are the drops. Of the rate limit,
`Limited` says that the bucket has every request of the last minute, whence the
requests of any minute were all in the bucket when the last of them was let in
(`Within`, for every beginning of a minute, not only for the present one).

**Evidence.** `Rationed` counts, for each prediction, the feedback on record
together with the clients that have looked it up and found none: a client
passes from the second to the first and nobody enters the second once there is
feedback, so the sum never exceeds the clients. `DecidedOnRecord` says that a
request that is about to activate decided on a window that did not show its
version degraded; the log only grows, and a window taken of its beginning stays
what it was (`LogGrows`). `AnswersServed` says that an answer is one of
`serving_predict` to some request; then `UnreviewedAnswer` and `CriticalAnswer`
are arithmetic, for every probability the models may answer and every threshold
of their artifacts (`NearKeepsClass`: sure and near means on the same side of
the default). `Fits` turns what was
seen into what was there.

**Only model-checked.** The liveness properties `RunningEnds`,
`EveryJobSettles`, `OpenGetsItsTime`, `RipeIsTried`, `PollsSettle`,
`HostsAllComeUp`, `RowCatchesUp`, `AlarmsLast` and `DriftEndsTheWatch`, which are out of the
prover's reach, and the violations. Every safety property that a passing run
checks is proved, `ImplementsScheduler`, `ImplementsLedger` and `ImplementsGate`
among them.

## What the models found

Three statements of the repository are not what the code does; each has a run
that ends in a violation.

- `RefusedOnlyInProgress` fails: the record of a failed attempt stays
  *started*, so the second attempt, and any replay that carries the key, is
  refused as "already in progress" although nothing is. `max_attempts` thus
  never repeats an action, which is also why `AtMostOnceEffect` holds.
- `OneActive` fails: two overlapping activations leave two active versions,
  after which every `get_active_model` raises.
- `RollbackIsGated` fails: activation, promotion and automatic rollback ask the
  production gate; a manual rollback does not, and writes no audit event.

Met while modelling and recorded as hazards or in the modules:

- a drift finding never becomes an alert: its details cannot be encoded, and
  the job that evaluates the alerts ends at the first one that its policy covers;
- an evaluation that raises an alert fails all the same, because its result
  cannot be encoded, and leaves a dead letter of a key that is completed;
- models whose artifacts have different thresholds may disagree, sure and near,
  in an answer that nobody reviews;
- `add` takes a mission task over in any state, and `register` a release in any
  stage, without a look at what that state presupposes;
- running rows are never reclaimed;
- a job that is cancelled while it is executed leaves the terminal status when
  the loop settles it (`CancelSticks` says by whom this can happen);
- a repetition below a minute strands its batch after the action was performed;
- two overlapping replays, or a replay repeated after a time-out between its
  commits, make two jobs of one letter;
- an approval under way when a denial commits makes the request approved;
- a refused call renews `opened_at` of the circuit;
- a success that overlaps an opening leaves a circuit open without `opened_at`,
  until refusals have counted up to the threshold again;
- a retirement between the check and the commit of an activation is overwritten;
- re-activating the active version while another activation demotes it succeeds
  and leaves no version active;
- an event whose answer was lost, or that two requests sent at once, leaves
  *delivered* and is sent again;
- the newest version of a configuration may name another value than the one in
  force, when it was submitted unchanged next to an edit;
- the newest drift check counts against whichever version is active, so each
  call of the automatic rollback goes one further back;
- an error while a poll loop lists the services ends the loop for good;
- `promote` of the model lifecycle forgets the production release when the
  newest one is withdrawn, although an older one still has the stage
  *production*;
- an update's `minimum_current_version` is stored and never compared;
- the rate limit counts with the wall clock; the model lets it stand still and
  not go back.

## Not modelled

- ML algorithms: floating-point numerics. Drift statistics and explanations
  enter `ModelEvidence` as their verdicts.
- Identity: validation by an external service; models start from a principal.
- Operator pages, read-only summaries, rendering: no state.
- The CAD viewer: a separate single-user page.
- Credential references, storage references, heartbeats, telemetry samples,
  service registration and audit events: single upserts or inserts that no
  decision of the modelled parts reads back.
- The gateway and the relay: a lookup and a forwarded call.
- Compatibility contracts: a contract is registered once, and a transition is
  evaluated only from the current version to itself; no version ever moves.
- Workflows: rows inserted as *accepted*, which nothing advances. The resource
  catalog: upserts. The resource scheduler: one sorted list in memory whose
  admission compares a need with a constant capacity.
- The other foundation services (device identity, calibration, replay, disaster
  recovery, storage lifecycle, schema registry, fleet, scenarios, HMI, time
  synchronization, self test, observability, predictive maintenance, geography):
  tables with one writer in one process, or arithmetic.
- Writing the row of the foundation runtime through the state route.
- The 500-letter limit of the replay route's listing.

## Plan

Done: the scheduler and its adapters, approvals, the model registry, circuits
and checkpoints; then configuration, event delivery, health and incidents, the
registries, operation records, the foundation services whose states interact,
the evidence of the model registry, and the proofs of every safety property that
a run checks. Left, in order:

1. The composition of the gate (`QuorumGate`) with the rollback of
   `ConfigVersions` and with a loop's adapter, which ask it.
2. `Execution` composed with `CircuitBreaker`, so that a refusal is the
   circuit's; and with `EventDelivery` for `event.publish`.
3. Two processes that share the row of the foundation runtime.
