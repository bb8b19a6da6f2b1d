--------------------------- MODULE RestoreLifecycle ---------------------------
(***************************************************************************)
(* What the restore orchestrator promises a caller about one restore       *)
(* (spec 3, 4.6, 7), with no tasks, awaits or shared directories in it.    *)
(*                                                                         *)
(* Restores are numbered in the order they are submitted.  A submitted     *)
(* restore moves forward through the phases a caller can observe with      *)
(* getRestoreStatus, and ends exactly once, Completed or Failed; its end   *)
(* appends exactly one result to the history and makes it absent from      *)
(* getRestoreStatus.  A cancel only makes it absent.  Every submitted      *)
(* restore eventually ends.                                                *)
(***************************************************************************)
EXTENDS Naturals, Sequences

CONSTANT Restores       \* 1..N: the submissions, in order

VARIABLES
    lphase,     \* restore -> "unsubmitted" or its RestorePhase
    active,     \* restore -> TRUE iff getRestoreStatus answers with it
    history     \* the list of results, [restore, success]

lvars == <<lphase, active, history>>

LPhaseOrder == <<"planning", "validation", "preparation", "gitops_sync",
                 "verification", "cleanup", "completed">>
LRank(ph) == CHOOSE i \in 1..7 : LPhaseOrder[i] = ph
Running(r) == lphase[r] \notin {"unsubmitted", "completed", "failed"}

LInit ==
    /\ lphase = [r \in Restores |-> "unsubmitted"]
    /\ active = [r \in Restores |-> FALSE]
    /\ history = <<>>

\* startRestore registers the next restore and returns.
Submit(r) ==
    /\ lphase[r] = "unsubmitted"
    /\ \A q \in Restores : q < r => lphase[q] # "unsubmitted"
    /\ lphase' = [lphase EXCEPT ![r] = "planning"]
    /\ active' = [active EXCEPT ![r] = TRUE]
    /\ UNCHANGED history

\* The restore is seen in a later phase; phases a caller had no chance to
\* observe may be passed over, none is entered twice, none is reordered.
Advance(r) ==
    /\ Running(r)
    /\ \E ph \in {LPhaseOrder[i] : i \in 1..6} :
         /\ LRank(ph) > LRank(lphase[r])
         /\ lphase' = [lphase EXCEPT ![r] = ph]
    /\ UNCHANGED <<active, history>>

\* Completed only after Verification; the one successful result.
Complete(r) ==
    /\ lphase[r] \in {"verification", "cleanup"}
    /\ lphase' = [lphase EXCEPT ![r] = "completed"]
    /\ history' = Append(history, [restore |-> r, success |-> TRUE])
    /\ active' = [active EXCEPT ![r] = FALSE]

\* Failed from any non-terminal phase; the one failed result.
Abort(r) ==
    /\ Running(r)
    /\ lphase' = [lphase EXCEPT ![r] = "failed"]
    /\ history' = Append(history, [restore |-> r, success |-> FALSE])
    /\ active' = [active EXCEPT ![r] = FALSE]

\* cancelRestore removes the bookkeeping only.
Cancel(r) ==
    /\ active[r]
    /\ active' = [active EXCEPT ![r] = FALSE]
    /\ UNCHANGED <<lphase, history>>

LNext == \E r \in Restores :
            Submit(r) \/ Advance(r) \/ Complete(r) \/ Abort(r) \/ Cancel(r)

\* Execution of a submitted restore is never abandoned.
LSpec == LInit /\ [][LNext]_lvars
              /\ \A r \in Restores : WF_lvars(Advance(r) \/ Complete(r) \/ Abort(r))
====
