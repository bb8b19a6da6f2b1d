# TLA+ models of the GitOps restore system

This directory holds TLA+ models of the restore orchestration engine in
`src/shared/restore/gitops_restore.py` and of the pipeline around it:

- the trigger-file monitor (`triggers/gitops_trigger.py`);
- the secure webhook server and client (`integration/secure_gitops_client.py`);
- the security manager's rate limiter (`security/python_security.py`);
- the shared configuration loader (`config/loader.py`);
- the plain webhook server (`triggers/webhook_handler.py`). `PROJECT.json` lists the components, the runs,
the mutants, the map from every definition to the source lines it models, the
findings and the hazards.

## 1. Inventory

### Components, their state and operations

| Component | Source | State | Operations |
|---|---|---|---|
| Restore Orchestrator | `restore/gitops_restore.py` `GitOpsRestoreOrchestrator` | `active_restores` (restore_id → `RestoreProgress`), `restore_history` (list of `RestoreResult`), one `work_dir` holding `templates/`, `generated/` and the clone `gitops_repo/` | `start_restore`, the background task `_execute_restore` and its six `_phase_*` methods, `cancel_restore`, `get_restore_status`, `list_restore_history`, `get_dr_capabilities`, `cleanup` |
| Restore Planner | `_load_backup_metadata`, `_create_restore_plan` | none (mock metadata, fixed 7 steps) | plan |
| Validators | `_validate_cluster_access`, `_validate_gitops_access`, `_validate_restore_permissions`, `_check_restore_conflicts` | none | each sleeps 1 s and returns True; the conflict check returns `[]` |
| Resource Transformer | `_transform_to_gitops`, `_apply_gitops_transformations`, `_validate_gitops_manifests` | the resource dicts it is given (it writes into them, see findings) | transform, validate |
| GitOps Repository Adapter | `_clone_gitops_repo`, `_commit_gitops_manifests`, `_trigger_gitops_sync`, `_monitor_gitops_sync` | `work_dir/gitops_repo` | clone, commit and push, trigger, a 60-iteration sleep loop |
| Verifier | `_wait_for_resources_ready`, `_validate_resource_health`, `_run_functional_tests`, `_generate_verification_report` | none | sleeps and constant reports |
| Trigger handler | `triggers/gitops_trigger.py` | `processed_files` of the monitor loop; the trigger directory | `handle_backup_completion` (runs the generator subprocess with a timeout), `monitor_trigger_files` (poll, process, unlink) |
| Webhook server | `triggers/webhook_handler.py` | `WebhookServer.running`; the `HTTPServer`'s listen queue and its `__shutdown_request`/`__is_shut_down` handshake | `do_GET`, `do_POST` → trigger handler, `start`, `stop`, `_signal_handler` |
| GitOps clients | `integration/gitops_client.py`, `integration/secure_gitops_client.py` | an HTTP session | start, status, `wait_for_completion` (poll every 5 s until a timeout), cancel, notify |
| Security manager | `security/python_security.py` | `RateLimiter.clients` (per-client request times), `last_cleanup` | `allow`, `_cleanup`, `validate_request`, authentication, crypto, audit |
| Error taxonomy | `errors/errors.py` | none | severity and retryable classification, `MultiError` |
| Configuration | `config/loader.py`, `config/validator.py`, `config/simple_validator.py` | the `SharedConfig` built during one `load` call | `_load_file`, `_merge_configs`, environment overrides, `expandvars`, `_validate` |
| Diagnostic scripts | `claudedocs/validate_*.py`, `coverage-dashboard.py`, `integration_test.py` | none | standalone reports; out of scope |

### How the orchestrator's parts interact

`start_restore` stores a new `RestoreProgress` under `restore_id` and calls
`asyncio.create_task(_execute_restore(request))`. The task runs the phases in
order and calls the planner, validators, transformer, adapter and verifier
directly. All tasks run on one event loop. They interleave only at awaits that
really suspend:

- the `asyncio.sleep` in each of the three validators;
- the sleep in `_trigger_gitops_sync`;
- each of the 60 sleeps of `_monitor_gitops_sync`;
- the ready-wait;
- the functional tests.

Everything between two of those points is atomic, including the clone, the
commit and the push. GitPython calls block the loop, and awaiting a coroutine
that does not suspend does not yield. The tasks share three things:

- `active_restores`: every task looks its own progress up there when it first
  runs, and deletes the entry for its id when it ends;
- `restore_history`: every task appends to it;
- `work_dir`: every restore clones into it, and every Cleanup deletes it.

### What is hard

- The task reads `active_restores` only when it first runs (line 193), not
  when it is created.
- Duplicate `restore_id`s are not guarded.
- Cancellation removes only the bookkeeping.
- The failure path never runs Cleanup.
- One clone directory is shared by all restores.
- The transformer's copy is shallow.

All of these show up only under particular interleavings or failures.

### What makes each component correct

- **Orchestrator.** An active entry always belongs to a running restore. Every
  ended restore has exactly one result, and it agrees with the final phase.
  Progress never moves backward. Every restore eventually ends. Restores with
  distinct ids do not interfere. Temporary resources are released when a
  restore ends.
- **Transformer.** The output carries the provenance labels and annotations
  and the namespace-mapping rule of spec §4.3. Invalid manifests abort
  Preparation. The input is left unchanged.
- **Trigger monitor.** Every trigger file is eventually processed once. A new
  file with a reused name is not lost. A failing file does not block others.
- **Rate limiter.** No client gets more than `max_requests` in any window.
- **Configuration loader.** Each field of the returned configuration comes
  from the highest-priority source that sets it: environment, then later
  files, then earlier files, then the defaults. A file the loader reports
  as failed to load contributes nothing.
- **Webhook server.** Every request is answered. A signal stops the server.

## 2. Modules at a glance

| Module | Models | Checked by |
|---|---|---|
| `RestoreOrchestrator`, `MCRestoreOrchestrator` | the orchestrator's tasks and shared state | orchestrator, cancel_before_run, shared_workdir |
| `RestoreLifecycle` | the abstract promise per restore (spec §3, §4.6, §7) | lifecycle_refinement |
| `ResourceTransformer`, `MCResourceTransformer` | Preparation's transformation and validation | transformer, transformer_input |
| `TriggerFileMonitor`, `MCTriggerFileMonitor` | `monitor_trigger_files` against the backup side's writer | trigger_monitor |
| `RateLimiter` | `RateLimiter.allow` and `_cleanup`, under a steppable wall clock | through `SecureIntegration` |
| `InputValidator` | `validate_request` and the recursive `validate_json` / `_validate_string`, as operators | through `SecureIntegration` |
| `SecureIntegration`, `MCSecureIntegration` | the secure server's middleware and handlers over the manager, with `RateLimiter` and `InputValidator` instantiated inside it; the secure client's first steps | secure_server |
| `ConfigLoader`, `MCConfigLoader` | one `ConfigLoader.load` / `load_without_validation` call | config_loader, config_half_merge |
| `WebhookServer`, `MCWebhookServer` | the plain webhook server: request routing, the single-threaded loop, signal handling | webhook_server, webhook_signal |

## 3. Modules and runs

### `RestoreOrchestrator` (+ `MCRestoreOrchestrator`)

**Variables.**

- `active_restores`: id → progress object, or `NoEntry`.
- `progress`: the kept fields of each `RestoreProgress`, which are `phase`,
  `steps_completed`, `percent_complete` and `errors`. Progress objects are
  numbered by the `start_restore` call that created them.
- `restore_history`.
- `work_repo`: whether `work_dir/gitops_repo` exists.
- Per task: `request`, `pc` (where `_execute_restore` is suspended), `held`
  (the object it looked up at line 193) and `polls` (monitor-loop
  iterations).

**Actions**, one per resumption of a task:

- `ExecutePlanning`: the lookup, Planning, and Validation up to the first
  sleep.
- `ClusterAccessChecked` and `GitopsAccessChecked`.
- `PermissionsChecked`: the rest of Validation, all of Preparation, and
  GitOps Sync up to its first sleep. Its outcomes are: validator false,
  clone destination exists, clone fails, push fails, success. The clone and
  the commit are the helper operators `CloneGitopsRepo`
  (`_clone_gitops_repo`) and `CommitGitopsManifests`
  (`_commit_gitops_manifests`).
- `SyncTriggered`, `MonitorPoll`, `ResourcesReady`, `FunctionalTestsRan`.
- Plus the callers' `StartRestore` and `CancelRestore`.

`Fail` is the except and finally clauses. `FinishRestore` is the end of
Verification, Cleanup (which deletes `work_dir`), Completed, the successful
`RestoreResult` (`SuccessResult`), and the finally clause.

**External outcomes.** The outcomes of external calls are constants:

- `MetadataOutcomes`, `ValidatorOutcomes`: the shipped stubs always succeed.
  The runs also let them fail, as their contract in spec §6 allows.
- `CloneOutcomes`, `PushOutcomes`: real git calls.

`validate_request` is modelled as passing. A rejected request raises to the
caller before any state changes. In the current source, the call passes one
argument to a five-parameter method, so it raises `TypeError` every time.
The model assumes the call is fixed to match the signature.

**What `Init` assumes.** `Init` starts from a constructed orchestrator with
empty maps. As written, the module cannot be imported: line 32 imports
`load_config` from `config.loader`, which defines no such name. Even with
that import fixed, `__init__` passes the config dict to
`PythonSecurityManager` (line 129), whose constructor reads
`config.rate_limit_requests` and raises `AttributeError` on a dict. The model
assumes both are repaired: an import that succeeds, and a manager built from
a `SecurityConfig`. Nothing the model checks depends on the manager beyond
the `validate_request` call above.

**Fairness.** There is weak fairness on every task's steps: the asyncio loop
resumes every task whose sleep has elapsed, and every await in the task is a
finite sleep. Callers (`StartRestore`, `CancelRestore`) get no fairness.

**Runs.**

| Run | cfg | Bounds | Expect | Shows |
|---|---|---|---|---|
| orchestrator | `MCRestoreOrchestrator.cfg` | 3 ids, 3 starts, 2 polls, all outcomes | pass (741,679 states) | `ActiveEntryIsLive`, `HistoryRecordsTerminal`, `ProgressNeverRegresses`, `TaskTerminates` hold for distinct ids under every interleaving, failure and cancellation |
| cancel_before_run | `MCRestoreCancel.cfg` | 1 start | violation | a cancel before the task's first run → KeyError, no result (`AcceptedRestoreRecorded`) |
| shared_workdir | `MCRestoreSharedWorkdir.cfg` | 2 starts, no failures | violation | the second concurrent restore fails on the first's clone (`EveryRestoreSucceeds`) |

**Why these bounds are enough.** Three starts give a restore that runs while
two others are at any of their suspension points. That covers every pairwise
order of clone, Cleanup, cancel and the finally clause. Two polls make the
monitor loop both repeat and exit. The 60 iterations of the real loop add
only more identical suspension points.

### `ResourceTransformer` (+ `MCResourceTransformer`)

A resource is a record: presence of `apiVersion`, `kind` and `metadata`, plus
`metadata` (labels, annotations, namespace). `NewMetadata` is
`_apply_gitops_transformations`'s effect on the metadata dict. `Transformed`
is the returned copy. `InputAfter` is the caller's resource afterwards: the
shallow copy shares the metadata dict. `PrepareManifests` is the transform
loop plus validation.

Inputs:

- lists of up to two resources;
- pre-existing labels and annotations that include stale tracking keys;
- namespaced and cluster-scoped resources;
- `target_namespaces` of length 0, 1 and 2.

| Run | cfg | Expect | Shows |
|---|---|---|---|
| transformer | `MCResourceTransformer.cfg` | pass | `TransformMatchesReference`: manifests match spec §4.3/§8 stated independently; `InvalidManifestRejected` |
| transformer_input | `MCResourceTransformerInput.cfg` | violation | `InputUnchanged`: the shallow `resource.copy()` lets the tracking labels, annotations and namespace reach the caller's resource (spec §4.3: "must not mutate its input") |

### `RestoreLifecycle`: refinement

`RestoreLifecycle` states what a caller is promised about each restore,
with no tasks, awaits or directories:

- phases move only forward (`Submit`, `Advance`);
- the restore ends once, Completed or Failed, appending one result
  (`Complete`, `Abort`);
- a cancel only hides it from `get_restore_status` (`Cancel`);
- every submitted restore ends (weak fairness on its execution).

`RestoreOrchestrator` maps onto it with `INSTANCE ... WITH`. Abstract
restore `t` is task `t`. Its phase is the phase of the progress object the
task drives. It is active while `active_restores` maps its id to its own
object. The history keeps each result's task and success.

| Run | cfg | Bounds | Expect | Shows |
|---|---|---|---|---|
| lifecycle_refinement | `MCRestoreRefinement.cfg` | 3 distinct ids, validators and push may fail, 1 poll | pass | `RefinesLifecycle`, the abstract spec as a `PROPERTY` |

The refinement holds only with callers that cancel a restore after they
have seen it past Planning (`CancelAfterPlanning`). An earlier cancel is the
cancel_before_run finding, and the mapping cannot express it.

### `TriggerFileMonitor` (+ `MCTriggerFileMonitor`)

**Variables.**

- `dir`: file name → the event written and whether the write is complete.
- `wstate`: the backup side's progress per event.
- `processed_files`, `listing` (the rest of the current glob) and `mpc`: the
  monitor loop.
- `enabled`: automation enabled in the config.
- `handled`: the events `handle_backup_completion` succeeded for.

**Actions.**

- `BeginWrite` and `EndWrite`: the writer of `example_integration.py`.
  Opening a file truncates it, so the monitor can read a file mid-write.
- `Scan`: a glob in any order, via `SetToSeqs`.
- `ProcessFile`: one file of the listing. It covers the skip, the JSON
  error, success with unlink, and failure with retry.
- `Sleep`.

**Fairness.** Weak fairness on the monitor thread, which loops forever, and
on each started write.

| Run | cfg | Bounds | Expect | Shows |
|---|---|---|---|---|
| trigger_monitor | `MCTriggerFileMonitor.cfg` | 3 events, distinct names, one always failing, automation on or off | pass (434 states) | `NoTriggerDropped`, `EveryTriggerHandled` |

Three events are enough: one keeps failing while the other two are written,
read half-written, and handled, in every glob order.

`enabled` starts TRUE. `handle_backup_completion` reads
`pipeline.automation.enabled`, but `_merge_configs` never reads the pipeline
section, so the loaded value is always the dataclass default.

**Assumption about the loader.** `GitOpsTriggerHandler.__init__` calls
`ConfigLoader.load()`, which always raises (see `ConfigLoader` below). As the
code stands, neither the monitor nor the webhook server can start. The
`TriggerFileMonitor` and `WebhookServer` models assume a loader whose
`_validate` is repaired, so that the handler can be built.

### `ConfigLoader` (+ `MCConfigLoader`)

One `load()` or `load_without_validation()` call. `validating` picks which
one. The variables are:

- `content`: what each path of `config_paths` holds.
- `env`: the environment.
- `config`: the `SharedConfig` being built, reduced to ten fields.
- `pc` and `i`: the position in the call.
- `warned`: the paths whose load printed a warning.
- `raised`: the exception that ended the call.

Strings are abstracted to "well formed", "malformed", the dataclass default
and the empty string. YAML null is `Null`.

**Actions.**

- `LoadFile` is `_load_file` with `_merge_configs`. `MergeConfigs` assigns
  every field up to the first section written with no body. That section
  raises on its first `.get`, and `_load_file` catches the exception.
- `ApplyEnvironmentOverrides`: `os.getenv(NAME, current)`, the
  `MINIO_USE_SSL` comparison and `BATCH_SIZE` parsing.
- `ExpandEnvironmentVariables`: raises `TypeError` on a null field.
- `Validate`: always raises `AttributeError`, because `self.to_dict` does
  not exist.

`LaterSourceWins` compares the result with `Expected`, the precedence
written from the sources alone. `Expected` uses `SelectLastInSeq` for the
last file that writes a field, and `ToString` to compare integers with
environment text. `Expected(k, P)` takes the set of files that count:
`LaterSourceWins` counts every file, and `FailedFileLeavesNoTrace` only the
files that loaded without a warning.

| Run | cfg | Bounds | Expect | Shows |
|---|---|---|---|---|
| config_loader | `MCConfigLoader.cfg` | 2 paths, each missing, unparsable, empty or one of 4 documents; 4 environments; both entry points | pass | `LaterSourceWins` |
| config_half_merge | `MCConfigLoaderHalfMerge.cfg` | the same, plus a file `{storage.endpoint, cluster: null}` | violation | `FailedFileLeavesNoTrace`: the file is reported as failed, yet its endpoint is in the returned config |

Why these bounds: two paths give an earlier and a later file. The documents
between them write every field, override with malformed values, write
explicit nulls, and null a field that `expandvars` reads. The environments
set a variable to "", give `MINIO_USE_SSL` "TRUE" and "yes", and give
`BATCH_SIZE` a number, "x" and "". The files here have no empty section
(`MCWellFormed`). The half-merge run adds one file with a bodiless
`cluster:` after a storage field (`DocNullCluster`).

No fairness: the call is a finite sequence of steps.

### `WebhookServer` (+ `MCWebhookServer`)

**Variables.**

- `queue`: the listen queue, bounded by `Backlog`.
- `mpc` and `current`: the main thread, in `select` or running a generation.
- `running`: `WebhookServer.running`.
- `shutdown_request` and `is_shut_down`: socketserver's handshake.
- `waiting`: `_signal_handler` frames blocked in `shutdown()`.
- `pending` and `signals`: signal delivery.
- `closed`: `server_close()` has run.
- `answer` and `triggered`: what each request got.

**Actions.**

- `Route` is the handler's decision: a status, or 0 when the request
  reaches `handle_backup_completion`.
- `HandleRequest`: one `serve_forever` iteration.
- `FinishGeneration`: the trigger answers 200 or 500. The answer is 200
  exactly when `TriggerGitopsGeneration` (`_trigger_gitops_generation`)
  succeeds: no `None` value in the generator's environment, a binary found,
  and a subprocess that exits 0 before `max_wait_time`. Any other outcome
  raises, and `handle_backup_completion` turns the raise into a failure.
- `SignalHandler`: runs on the main thread wherever it is, and blocks it if
  `shutdown()` waits.
- `Connect` and `Signal` are the environment.

The requests are a GET to each path and POSTs that are empty, not JSON, of
the wrong event type, missing fields, wrapped with all fields, or flat with
all fields.

**Fairness.** Weak fairness on the main thread (`Main`), which always runs
when it is not blocked. There is none on clients or signals.

| Run | cfg | Bounds | Expect | Shows |
|---|---|---|---|---|
| webhook_server | `MCWebhookServer.cfg` | 3 clients, 11 requests, backlog 2, 1 signal | pass | `AnsweredUnlessSignalled` |
| webhook_signal | `MCWebhookSignal.cfg` | same | violation | `StopsOnSignal`: `_signal_handler` calls `shutdown()` on the serve_forever thread and hangs |

Three clients with a backlog of two fill the queue while a generation runs.
One signal can arrive in `select`, or during a generation.

The `finally: self.stop()` in `start()` is never reached after a signal.
`serve_forever` cannot return while the handler that called `shutdown()` is
blocked on the same thread. So the model has no step for it.

### `RateLimiter`, `InputValidator` and `SecureIntegration` (+ `MCSecureIntegration`)

**`RateLimiter`** keeps `clients` (per client, its request times and
`last_request`) and `last_cleanup`. It also keeps two clocks: real time `rt`
and the wall clock `now` that `time.time()` reads. `Tick` moves both clocks.
`ClockJump` steps the wall clock alone. `Allow(c)` is the whole of
`allow()`: the cleanup when due, get-or-create, the window filter, the
limit, the append and refresh. A ghost `log` records every call, with its
real time, its wall time and the answer.

**`InputValidator`** has no state. It gives `validate_request` and the
recursive `validate_json` as operators. A JSON value keeps its shape: objects
keep their key order, and lists their item order. A string is the set of
`_validate_string`'s checks it trips (`sql`, `xss`, `traversal`, `long`); a
number, boolean or null is `num`. `ValidateString` returns the first check
tripped, in the code's order. `ValidateJson` walks an object's entries (key
first, then value) and a list's items, and returns the first error raised.
`ValidateRequest` runs the checks in order: limiter verdict, size, method,
Content-Type, decode and parse, then `ValidateJson`. The reference
`StringsOf` lists a document's strings in depth-first order.

**`SecureIntegration`** instantiates the limiter over the request sources:
`RL == INSTANCE RateLimiter WITH Clients <- Sources, ...`. `Serve` is the
middleware plus the route handler, one atomic step, since nothing in it
awaits. It runs in this order:

1. `authenticate_request`, where an error is answered before the limiter;
2. `validate_request`, whose first check is `RL!Allow`;
3. the rest of `validate_request`, through `IV!ValidateRequest`;
4. the handler with `authorize_request`.

`ClientEnter` and `ClientStart` are the secure client's `__aenter__` and
`start_secure_gitops_generation`.

| Run | cfg | Bounds | Expect | Shows |
|---|---|---|---|---|
| secure_server | `MCSecureIntegration.cfg` | 2 sources (symmetric), key good/bad/none, limit 1 per 2 s, cleanup due every second, time 0..5, one step back of 2 s, 5 requests | pass (2,274,876 states, about 3 min) | `AdmittedWithinLimit`, `LimiterExact`, `BodyVerdictMatchesReference` |

`BodyVerdictMatchesReference` says the following. A JSON body reaches a
handler only if no string in it trips a check. That covers keys and values,
at any depth. Otherwise the body is refused, and the refusal names the check
tripped by its first offending string in document order. The four bodies are:

- none;
- a clean nested document sent without a JSON Content-Type;
- the same document, sent as JSON;
- `{"a": [{"javascript:x": "../y"}]}`.

The last one has a flagged key two levels down, whose value is also flagged.
Skipping keys, visiting a value before its key, or not recursing into lists
would each give a different verdict for it. `last.body` keeps a body only
when the request reached the body checks. An unauthenticated or rate-limited
answer records none, so those answers do not multiply the states.

Why these bounds:

- Five seconds with a 2-second window is long enough for `_cleanup` to
  forget a client idle for two windows. With one request per second, a
  client whose `last_request` lagged (the `AdmittedKeepsLast` mutant) keeps a
  request in the window when it is forgotten.
- The step back makes the window see requests stamped "in the future".

**Fairness.** Weak fairness on the client coroutine only. Requests and time
are the environment.

## 4. Findings

See `PROJECT.json` `findings`. In short:

- Cancel before the first run loses the restore.
- The shared clone directory makes concurrent restores fail.
- The transformer writes into the resources it was given (spec §4.3).
- A config file reported as "Failed to load" still sets the fields before its
  first bodiless section.
- A SIGINT or SIGTERM hangs the plain webhook server instead of stopping it.

### Observations without a run

These were met while modelling. They either hold by the code's shape, are
design choices, or were checked with a violation run that later gave way to
the runs above:

- **Failure skips Cleanup.** The except path of `_execute_restore` goes
  straight to result assembly. A push failure leaves `work_dir/gitops_repo`,
  and every later restore then fails to clone (spec §4.6 says Cleanup is
  attempted after failure).
- **A reused trigger-file name is never handled.** `processed_files` never
  forgets a name, although the file is unlinked. The writer names files by
  cluster and second, so a second file with that name is skipped forever.
- **`load()` always raises.** `_validate` calls `self.to_dict`, which
  `ConfigLoader` does not have. `test_environment_overrides` expects
  `load()` to succeed. Even with the converter `_config_to_dict`, its output
  holds `pipeline.notifications` and `pipeline.error_handling`, which the
  validator's pipeline model (extra keys forbidden) rejects.
- **Half-merged files pass the validator.** `validator.py` does not check
  `cluster` or `observability`, so `validate_config_file` accepts the file
  of the config_half_merge run.
- **`test_validation_errors`** expects `load_without_validation` to raise
  `ValueError`. It never validates.
- **Flat webhook payloads.** `_handle_backup_complete_webhook` accepts a
  flat `backup_complete` event in its `elif` branch. `from_dict` then
  receives the `event_type` key and raises, so the request gets a 400.

- **Duplicate restore ids.** A second `start_restore` with an active id
  overwrites the entry. Two tasks then drive one progress object, which can
  move backwards. The orchestrator run assumes distinct ids (`UniqueIds`).
- **Wall-clock steps forward.** The limiter measures the window with
  `time.time()`. A forward step forgets requests made less than a window of
  real time ago. A step back is covered by `AdmittedWithinLimit`.
- **Failed authentications are not throttled.** The middleware answers an
  authentication error before `validate_request`, so credential guessing
  never reaches the rate limiter.
- **Every secure response is a 500.** `web` is imported only inside
  `start()`, so `web.json_response` raises `NameError` in the middleware and
  the handlers.
- **Permissions never granted.** Authentication grants only `webhook_access`
  and `status_read`. The handlers ask for `webhook_backup` and
  `security_status`, and the client asks for `gitops_generate`. So
  protected routes always answer an authorization error, and the secure
  client always raises. Since no granted permission opens a protected
  handler, a property about who reaches those handlers would hold vacuously;
  none is checked.
- **`json.dumps` of the GitOps request fails.** The request's datetime makes
  `_validate_gitops_request` raise `TypeError`, and the plain client's
  `session.post(json=asdict(request))` fails the same way.
- **`async with secure_http_request(...)`.** The helper is a coroutine, not
  a context manager, so every later call of the secure client fails.

## 5. Not modelled, and why

- **Data the properties do not distinguish:** resource counts, durations,
  report contents, `current_step` strings and log messages.
- **`git_commits`**: always `[]` in the result, although a commit is made.
  This is a visible divergence from spec §8, but holds by the code's shape and
  needs no model checking.
- **`get_dr_capabilities`**: a constant.
- **`cleanup()`**: runs once at CLI exit.
- **Webhook server output**: response bodies, logging and the CLI
  (`create_argument_parser`, `main`).
- **Configuration validators** (`validator.py`, `simple_validator.py`):
  `load()` never reaches them, because it raises first. Their other callers
  are their own CLI entry points. They are pure functions over a dict. The
  two implementations of one schema disagree, so neither can serve as the
  other's reference. `simple_validator` requires `storage.type` and
  `cluster.name`, and ignores unknown keys. `validator.py` defaults the type,
  does not look at `cluster`, and forbids extra keys in every section.
- **Loader output**: `get_gitops_config_from_shared` only reshapes data;
  `save_to_file` and `_config_to_dict` write a file and change no loader
  state.
- **Error taxonomy** (`errors.py`): fixed tables with no state, and nothing
  outside its own tests imports it.
- **Secure client past its first failure**: polling, notify and register are
  never reached.
- **Security manager I/O**: TLS, crypto, audit logging and the unused ASGI
  middleware. The regular expressions of `InputValidator` are abstracted to
  the set of patterns a string matches.
- **GitOps client** (`integration/gitops_client.py`):
  `process_backup_completion` cannot pass its first call.
  `start_gitops_generation` posts `json=asdict(request)`, and the request's
  `timestamp` is a `datetime` set in `__post_init__`. `json.dumps` cannot
  serialise it, so a `TypeError` is raised before anything is sent and
  re-raised at line 187. `wait_for_completion` and `notify_completion` are
  never reached, and the other methods are single HTTP requests that
  nothing in the repository calls. No state machine is left to check.
- **Diagnostic scripts**: see the components in `PROJECT.json`.
