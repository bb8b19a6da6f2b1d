------------------------- MODULE RestoreOrchestrator -------------------------
(***************************************************************************)
(* GitOpsRestoreOrchestrator, src/shared/restore/gitops_restore.py.        *)
(*                                                                         *)
(* Every start_restore call spawns one asyncio task running               *)
(* _execute_restore.  Tasks interleave only at the awaits that really      *)
(* suspend (asyncio.sleep in the validators, the sync trigger, the sync    *)
(* monitor loop, the ready-wait and the functional tests); everything      *)
(* between two such awaits is one atomic action below.  Shared between     *)
(* tasks: the active_restores map, the restore_history list and the one    *)
(* work_dir of the orchestrator, into which every restore clones the       *)
(* GitOps repository and which every Cleanup phase deletes.                *)
(*                                                                         *)
(* A task is a number 1..MaxStarts (the order of start_restore calls); the *)
(* RestoreProgress object created by start call t is object t.  The       *)
(* object a task mutates is the one it looked up in active_restores when   *)
(* it first ran (line 193), which need not be its own.                     *)
(*                                                                         *)
(* Init is a constructed orchestrator, which the source as written cannot *)
(* produce: line 32 imports load_config, which config/loader.py does not   *)
(* define, and line 129 hands the config dict to PythonSecurityManager,   *)
(* whose __init__ reads config.rate_limit_requests off it.  The model      *)
(* assumes both are repaired.                                              *)
(***************************************************************************)
EXTENDS Naturals, Sequences, FiniteSets

CONSTANTS
    RestoreIds,         \* restore_id values callers submit
    MaxStarts,          \* bound on accepted start_restore calls
    SyncPolls,          \* iterations of the _monitor_gitops_sync loop (60 in the code)
    AutoSync,           \* config gitops.auto_sync (default True)
    UniqueIds,          \* TRUE: callers never submit a restore_id twice
    MetadataOutcomes,   \* TRUE = _load_backup_metadata found the backup
    ValidatorOutcomes,  \* return values of the three _validate_* helpers
    CloneOutcomes,      \* TRUE = git clone of the GitOps remote succeeds
    PushOutcomes,       \* TRUE = commit and push to origin succeed
    CancelAfterPlanning,\* TRUE: callers cancel only restores seen past Planning
    NoEntry             \* model value: absent key / no object

ASSUME MaxStarts \in Nat /\ SyncPolls \in Nat \ {0} /\ AutoSync \in BOOLEAN
ASSUME UniqueIds \in BOOLEAN /\ CancelAfterPlanning \in BOOLEAN
ASSUME \A S \in {MetadataOutcomes, ValidatorOutcomes, CloneOutcomes, PushOutcomes} :
          S \subseteq BOOLEAN /\ TRUE \in S

VARIABLES
    active_restores,    \* restore_id -> progress object, or NoEntry
    progress,           \* progress object -> RestoreProgress fields kept
    restore_history,    \* the list of RestoreResult
    work_repo,          \* TRUE iff work_dir/gitops_repo exists
    request,            \* task -> the RestoreRequest it executes
    pc,                 \* task -> where _execute_restore is suspended
    held,               \* task -> progress object it obtained at line 193
    polls,              \* task -> completed iterations of the monitor loop
    started             \* number of accepted start_restore calls

vars == <<active_restores, progress, restore_history, work_repo,
          request, pc, held, polls, started>>

Tasks == 1..MaxStarts

\* RestorePhase, in the order _execute_restore runs the phases.
PhaseOrder == <<"planning", "validation", "preparation", "gitops_sync",
                "verification", "cleanup", "completed">>
Phases == {PhaseOrder[i] : i \in 1..7} \cup {"failed"}
Rank(ph) == CHOOSE i \in 1..7 : PhaseOrder[i] = ph

\* total_steps: the plan of _create_restore_plan always says 7.
TotalSteps == 7

\* Mutant of Percent: the division by total_steps is missing.
PercentUndivided(steps) == steps * 100

Percent(steps) == (steps * 100) \div TotalSteps

\* Messages of the exceptions a task can raise, by the check that raises it.
Causes == {"BackupNotFound", "ClusterAccess", "GitopsAccess", "Permissions",
           "CloneExists", "CloneFailed", "PushFailed"}

\* Suspension points of _execute_restore.
PCs == {"unstarted", "spawned", "clusterWait", "gitopsWait", "permWait",
        "triggerWait", "monitor", "readyWait", "testsWait", "done", "crashed"}

ProgressRec == [phase : Phases, steps : 0..6, percent : 0..100,
                errors : Seq(Causes)]
ResultRec == [task : Tasks, id : RestoreIds, success : BOOLEAN,
              error_summary : Causes \cup {NoEntry}]

\* RestoreProgress as start_restore creates it.
NewProgress == [phase |-> "planning", steps |-> 0, percent |-> 0,
                errors |-> <<>>]

\* A phase entered, with steps_completed and percent_complete of the phase
\* that just ended.
EnterPhase(p, ph, done) ==
    [p EXCEPT !.phase = ph, !.steps = done, !.percent = Percent(done)]

Init ==
    /\ active_restores = [id \in RestoreIds |-> NoEntry]
    /\ progress = [o \in Tasks |-> NewProgress]
    /\ restore_history = <<>>
    /\ work_repo = FALSE
    /\ request = [t \in Tasks |-> [id |-> NoEntry, functional_tests |-> FALSE]]
    /\ pc = [t \in Tasks |-> "unstarted"]
    /\ held = [t \in Tasks |-> NoEntry]
    /\ polls = [t \in Tasks |-> 0]
    /\ started = 0

\* The RestoreResult of a restore whose try body reached its end.
SuccessResult(t) ==
    [task |-> t, id |-> request[t].id, success |-> TRUE, error_summary |-> NoEntry]

\* Mutant of Unregister: the finally clause leaves the entry in place.
UnregisterKept(id) == active_restores

(***************************************************************************)
(* The finally clause of _execute_restore: the entry of the request's id   *)
(* is deleted, whichever object it maps to.                                *)
(***************************************************************************)
Unregister(id) == [active_restores EXCEPT ![id] = NoEntry]

\* Mutant of Fail: the except clause leaves result None, so the finally
\* appends nothing to the history.
FailNoResult(t, o, p, cause) ==
    /\ progress' = [progress EXCEPT ![o] = [p EXCEPT !.phase = "failed",
                                                 !.errors = Append(@, cause)]]
    /\ UNCHANGED restore_history
    /\ active_restores' = Unregister(request[t].id)
    /\ pc' = [pc EXCEPT ![t] = "done"]

\* The except and finally clauses: object o, whose fields before the raise
\* are p, becomes Failed, and a failed RestoreResult goes to the history.
Fail(t, o, p, cause) ==
    /\ progress' = [progress EXCEPT ![o] = [p EXCEPT !.phase = "failed",
                                                 !.errors = Append(@, cause)]]
    /\ restore_history' = Append(restore_history,
          [task |-> t, id |-> request[t].id, success |-> FALSE,
           error_summary |-> cause])
    /\ active_restores' = Unregister(request[t].id)
    /\ pc' = [pc EXCEPT ![t] = "done"]

\* Mutant of FinishRestore: the assignment progress.phase = COMPLETED is
\* missing; the result is still recorded as a success.
FinishRestoreNoPhase(t) ==
    LET o == held[t] IN
    /\ progress' = [progress EXCEPT ![o] = [@ EXCEPT !.percent = 100]]
    /\ work_repo' = FALSE
    /\ restore_history' = Append(restore_history, SuccessResult(t))
    /\ active_restores' = Unregister(request[t].id)
    /\ pc' = [pc EXCEPT ![t] = "done"]
    /\ UNCHANGED <<request, held, polls, started>>

\* The try body reached its end: Verification's report, Cleanup (which
\* deletes the whole work_dir), Completed, the result and the finally.
FinishRestore(t) ==
    LET o == held[t] IN
    /\ progress' = [progress EXCEPT ![o] =
                      [EnterPhase(@, "completed", 6) EXCEPT !.percent = 100]]
    /\ work_repo' = FALSE
    /\ restore_history' = Append(restore_history, SuccessResult(t))
    /\ active_restores' = Unregister(request[t].id)
    /\ pc' = [pc EXCEPT ![t] = "done"]
    /\ UNCHANGED <<request, held, polls, started>>

(***************************************************************************)
(* start_restore: the request passed validate_request (a rejected request *)
(* raises to the caller and changes nothing), a new progress object is     *)
(* stored under restore_id, overwriting any entry, and a task is created.  *)
(***************************************************************************)
StartRestore(id) ==
    /\ started < MaxStarts
    /\ UniqueIds => \A t \in 1..started : request[t].id # id
    /\ \E tests \in BOOLEAN :
         LET t == started + 1 IN
         /\ started' = t
         /\ request' = [request EXCEPT ![t] = [id |-> id, functional_tests |-> tests]]
         /\ progress' = [progress EXCEPT ![t] = NewProgress]
         /\ active_restores' = [active_restores EXCEPT ![id] = t]
         /\ pc' = [pc EXCEPT ![t] = "spawned"]
    /\ UNCHANGED <<restore_history, work_repo, held, polls>>

(***************************************************************************)
(* First run of the task: the lookup at line 193 (outside the try, so a    *)
(* missing entry kills the task with KeyError), then the Planning phase    *)
(* and Validation up to the sleep in _validate_cluster_access.             *)
(***************************************************************************)
ExecutePlanning(t) ==
    /\ pc[t] = "spawned"
    /\ LET id == request[t].id
           o  == active_restores[id] IN
       \/ /\ o = NoEntry
          /\ pc' = [pc EXCEPT ![t] = "crashed"]
          /\ UNCHANGED <<active_restores, progress, restore_history, held>>
       \/ /\ o # NoEntry
          /\ held' = [held EXCEPT ![t] = o]
          /\ \E found \in MetadataOutcomes :
               \/ /\ ~found
                  /\ Fail(t, o, [progress[o] EXCEPT !.phase = "planning"],
                          "BackupNotFound")
               \/ /\ found
                  /\ progress' = [progress EXCEPT ![o] =
                                    EnterPhase(@, "validation", 1)]
                  /\ pc' = [pc EXCEPT ![t] = "clusterWait"]
                  /\ UNCHANGED <<active_restores, restore_history>>
    /\ UNCHANGED <<work_repo, request, polls, started>>

\* A validator's sleep returns; False raises, True goes on to the next
\* validator's sleep.
ValidatorReturns(t, at, next, cause) ==
    /\ pc[t] = at
    /\ \E ok \in ValidatorOutcomes :
         \/ /\ ~ok
            /\ Fail(t, held[t], progress[held[t]], cause)
         \/ /\ ok
            /\ pc' = [pc EXCEPT ![t] = next]
            /\ UNCHANGED <<active_restores, progress, restore_history>>
    /\ UNCHANGED <<work_repo, request, held, polls, started>>

ClusterAccessChecked(t) == ValidatorReturns(t, "clusterWait", "gitopsWait", "ClusterAccess")
GitopsAccessChecked(t) == ValidatorReturns(t, "gitopsWait", "permWait", "GitopsAccess")

\* _clone_gitops_repo: git clone into work_dir/gitops_repo, which fails when
\* that directory already holds a clone or the remote cannot be cloned; the
\* error is logged and re-raised.
CloneGitopsRepo(exists, remote_ok) ==
    IF exists THEN "CloneExists" ELSE IF ~remote_ok THEN "CloneFailed" ELSE "ok"

\* _commit_gitops_manifests: opens the clone, copies the generated manifests
\* into it, commits and pushes to origin; a failed push raises.
CommitGitopsManifests(pushed) == IF pushed THEN "ok" ELSE "PushFailed"

(***************************************************************************)
(* _validate_restore_permissions returns; the rest of Validation (the      *)
(* conflict list of _check_restore_conflicts is always empty), all of      *)
(* Preparation (clone into the shared work_dir, transform, validate) and   *)
(* GitOps Sync up to its first suspension run without a suspension.        *)
(***************************************************************************)
PermissionsChecked(t) ==
    /\ pc[t] = "permWait"
    /\ LET o  == held[t]
           p2 == EnterPhase(progress[o], "preparation", 2)
           p3 == EnterPhase(p2, "gitops_sync", 3) IN
       \E ok \in ValidatorOutcomes, cloned \in CloneOutcomes, pushed \in PushOutcomes :
         LET clone  == CloneGitopsRepo(work_repo, cloned)
             commit == CommitGitopsManifests(pushed) IN
         \/ /\ ~ok
            /\ Fail(t, o, progress[o], "Permissions")
            /\ UNCHANGED work_repo
         \/ /\ ok /\ clone # "ok"
            /\ Fail(t, o, p2, clone)
            /\ UNCHANGED work_repo
         \/ /\ ok /\ clone = "ok" /\ commit # "ok"
            /\ work_repo' = TRUE
            /\ Fail(t, o, p3, commit)
         \/ /\ ok /\ clone = "ok" /\ commit = "ok"
            /\ work_repo' = TRUE
            /\ progress' = [progress EXCEPT ![o] = p3]
            /\ pc' = [pc EXCEPT ![t] = IF AutoSync THEN "triggerWait" ELSE "monitor"]
            /\ UNCHANGED <<active_restores, restore_history>>
    /\ UNCHANGED <<request, held, polls, started>>
(***************************************************************************)
(* _trigger_gitops_sync's sleep returns; monitoring starts with its first  *)
(* sleep.                                                                  *)
(***************************************************************************)
SyncTriggered(t) ==
    /\ pc[t] = "triggerWait"
    /\ pc' = [pc EXCEPT ![t] = "monitor"]
    /\ UNCHANGED <<active_restores, progress, restore_history, work_repo,
                   request, held, polls, started>>

\* Mutants of MonitorPoll (bugs of the loop at lines 686-688 and of the
\* steps_completed assignment at line 356).
MonitorPollStuck(t) ==
    /\ pc[t] = "monitor"
    /\ UNCHANGED vars

MonitorPollWrongStep(t) ==
    /\ pc[t] = "monitor"
    /\ polls' = [polls EXCEPT ![t] = @ + 1]
    /\ IF polls[t] + 1 < SyncPolls
         THEN UNCHANGED <<progress, pc>>
         ELSE /\ progress' = [progress EXCEPT ![held[t]] =
                                EnterPhase(@, "verification", 2)]
              /\ pc' = [pc EXCEPT ![t] = "readyWait"]
    /\ UNCHANGED <<active_restores, restore_history, work_repo, request,
                   held, started>>

(***************************************************************************)
(* One sleep of _monitor_gitops_sync returns.  After the last one GitOps   *)
(* Sync ends, Verification begins and _wait_for_resources_ready sleeps.    *)
(***************************************************************************)
MonitorPoll(t) ==
    /\ pc[t] = "monitor"
    /\ polls' = [polls EXCEPT ![t] = @ + 1]
    /\ IF polls[t] + 1 < SyncPolls
         THEN UNCHANGED <<progress, pc>>
         ELSE /\ progress' = [progress EXCEPT ![held[t]] =
                                EnterPhase(@, "verification", 4)]
              /\ pc' = [pc EXCEPT ![t] = "readyWait"]
    /\ UNCHANGED <<active_restores, restore_history, work_repo, request,
                   held, started>>

\* The ready-wait returns; with functional_tests configured the task sleeps
\* again in _run_functional_tests, otherwise it runs to the end.
ResourcesReady(t) ==
    /\ pc[t] = "readyWait"
    /\ \/ /\ request[t].functional_tests
          /\ pc' = [pc EXCEPT ![t] = "testsWait"]
          /\ UNCHANGED <<active_restores, progress, restore_history, work_repo,
                         request, held, polls, started>>
       \/ /\ ~request[t].functional_tests
          /\ FinishRestore(t)

FunctionalTestsRan(t) ==
    /\ pc[t] = "testsWait"
    /\ FinishRestore(t)

(***************************************************************************)
(* cancel_restore: deletes the bookkeeping of an active restore; the task  *)
(* itself goes on.  On an unknown id it returns False and changes nothing. *)
(***************************************************************************)
CancelRestore(id) ==
    /\ active_restores[id] # NoEntry
    /\ active_restores' = [active_restores EXCEPT ![id] = NoEntry]
    /\ UNCHANGED <<progress, restore_history, work_repo, request, pc, held,
                   polls, started>>

\* get_restore_status and list_restore_history only read.
GetRestoreStatus(id) ==
    IF active_restores[id] = NoEntry THEN NoEntry ELSE progress[active_restores[id]]

ListRestoreHistory(limit) ==
    SubSeq(restore_history, IF Len(restore_history) > limit
                            THEN Len(restore_history) - limit + 1 ELSE 1,
           Len(restore_history))

\* A caller cancels a restore; with CancelAfterPlanning it does so only
\* after get_restore_status has shown the restore past Planning.
CallerCancels(id) ==
    /\ CancelAfterPlanning =>
          GetRestoreStatus(id) # NoEntry /\ GetRestoreStatus(id).phase # "planning"
    /\ CancelRestore(id)

TaskStep(t) ==
    \/ ExecutePlanning(t)
    \/ ClusterAccessChecked(t)
    \/ GitopsAccessChecked(t)
    \/ PermissionsChecked(t)
    \/ SyncTriggered(t)
    \/ MonitorPoll(t)
    \/ ResourcesReady(t)
    \/ FunctionalTestsRan(t)

Next ==
    \/ \E id \in RestoreIds : StartRestore(id) \/ CallerCancels(id)
    \/ \E t \in Tasks : TaskStep(t)

\* The asyncio event loop eventually resumes every task whose await is
\* ready; callers are under no obligation to start or cancel anything.
Spec == Init /\ [][Next]_vars /\ \A t \in Tasks : WF_vars(TaskStep(t))

-----------------------------------------------------------------------------
Live(t) == pc[t] \notin {"unstarted", "done", "crashed"}

TypeOK ==
    /\ active_restores \in [RestoreIds -> Tasks \cup {NoEntry}]
    /\ progress \in [Tasks -> ProgressRec]
    /\ restore_history \in Seq(ResultRec)
    /\ work_repo \in BOOLEAN
    /\ pc \in [Tasks -> PCs]
    /\ held \in [Tasks -> Tasks \cup {NoEntry}]
    /\ polls \in [Tasks -> 0..SyncPolls]
    /\ started \in 0..MaxStarts

\* get_restore_status answers absent once a restore is terminal: an entry
\* of active_restores always names the progress object of a task that is
\* still running (the finally clause of _execute_restore, lines 252-257).
ActiveEntryIsLive ==
    \A id \in RestoreIds :
        active_restores[id] # NoEntry => Live(active_restores[id])

\* restore_history holds exactly one RestoreResult for every task that has
\* ended, none for a running one, and a result is successful exactly when
\* the progress object the task drove reached Completed (lines 215-255).
HistoryRecordsTerminal ==
    /\ \A t \in Tasks :
         Cardinality({i \in 1..Len(restore_history) : restore_history[i].task = t})
            = IF pc[t] = "done" THEN 1 ELSE 0
    /\ \A i \in 1..Len(restore_history) :
         restore_history[i].success
            <=> progress[held[restore_history[i].task]].phase = "completed"

\* A RestoreProgress never goes back: its phase only moves forward in the
\* phase order or from a non-terminal phase to Failed, never leaves
\* Completed or Failed, and percent_complete never decreases (spec 3, 8).
PhaseSucceeds(p, q) ==
    \/ p = q
    \/ p \notin {"completed", "failed"} /\ q = "failed"
    \/ p # "failed" /\ q # "failed" /\ Rank(q) > Rank(p) /\ p # "completed"

ProgressNeverRegresses ==
    [][\A o \in Tasks :
         /\ PhaseSucceeds(progress[o].phase, progress'[o].phase)
         /\ progress'[o].percent >= progress[o].percent]_progress

\* Every restore that start_restore accepted eventually ends, successfully
\* or not: no task waits forever (the phase sequence and its polling loop
\* are bounded).
TaskTerminates ==
    \A t \in Tasks : pc[t] = "spawned" ~> pc[t] \in {"done", "crashed"}

-----------------------------------------------------------------------------
(***************************************************************************)
(* Refinement: the orchestrator implements RestoreLifecycle.  Restore r of *)
(* the abstract spec is task r; its phase is the phase of the progress     *)
(* object the task drives (its own one until it has looked one up), it is  *)
(* active while active_restores maps its id to its own object, and the    *)
(* history keeps the task and success of every RestoreResult.              *)
(***************************************************************************)
DrivenObject(t) == IF held[t] = NoEntry THEN t ELSE held[t]

Lifecycle == INSTANCE RestoreLifecycle WITH
    Restores <- Tasks,
    lphase <- [t \in Tasks |-> IF pc[t] = "unstarted" THEN "unsubmitted"
                                ELSE progress[DrivenObject(t)].phase],
    active <- [t \in Tasks |-> pc[t] # "unstarted"
                                /\ active_restores[request[t].id] = t],
    history <- [i \in 1..Len(restore_history) |->
                  [restore |-> restore_history[i].task,
                   success |-> restore_history[i].success]]

\* Every behaviour of the orchestrator, seen through the mapping, is a
\* behaviour RestoreLifecycle allows: phases only forward, one result per
\* restore at its end, cancel only hides it, and every restore ends.
RefinesLifecycle == Lifecycle!LSpec

-----------------------------------------------------------------------------
(* Claims of the spec the code does not keep; each has a run that expects *)
(* TLC to find it violated.                                                *)

\* Spec 3: a RestoreResult is created exactly once per restore.  Every
\* restore that start_restore accepted eventually has a result in
\* restore_history, cancelled or not.
AcceptedRestoreRecorded ==
    \A t \in Tasks :
        pc[t] = "spawned" ~>
            \E i \in 1..Len(restore_history) : restore_history[i].task = t

\* Spec 8: restores with distinct ids are independent; when every external
\* collaborator succeeds, every restore that ends ends successfully.
EveryRestoreSucceeds ==
    \A i \in 1..Len(restore_history) : restore_history[i].success

====
