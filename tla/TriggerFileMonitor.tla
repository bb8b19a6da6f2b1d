--------------------------- MODULE TriggerFileMonitor ---------------------------
(***************************************************************************)
(* GitOpsTriggerHandler.monitor_trigger_files and handle_backup_completion *)
(* of src/shared/triggers/gitops_trigger.py, with the backup side that     *)
(* writes backup-complete-*.json files into the trigger directory.         *)
(*                                                                         *)
(* The monitor is one thread: it globs the directory, then handles the     *)
(* files of that listing one by one (each a generator subprocess run),     *)
(* then sleeps.  The writer is another process; it opens a file (which     *)
(* truncates it) and dumps the event, so the monitor can read a file that  *)
(* is not yet complete.  A file's name is a function of its event          *)
(* (cluster and timestamp in seconds); NameOf says which events share one. *)
(* An event of FailingEvents makes the generator fail every time (a bad    *)
(* event, a non-zero exit, the subprocess timeout).                        *)
(***************************************************************************)
EXTENDS Naturals, Sequences, SequencesExt

CONSTANTS
    Events,         \* backup completion events the backup side reports
    Names,          \* trigger file names
    NameOf,         \* event -> name of its trigger file
    FailingEvents,  \* events whose GitOps generation always fails
    NoFile          \* model value: no file of that name

ASSUME NameOf \in [Events -> Names] /\ FailingEvents \subseteq Events

VARIABLES
    dir,              \* name -> [event, complete] or NoFile
    wstate,           \* event -> "todo", "writing" or "done" (backup side)
    processed_files,  \* the monitor's set of names
    listing,          \* names of the current glob still to be handled
    mpc,              \* "scan" (about to glob) or "process"
    enabled,          \* pipeline.automation.enabled of the loaded config
    handled           \* events handle_backup_completion returned success for

vars == <<dir, wstate, processed_files, listing, mpc, enabled, handled>>

Present == {n \in Names : dir[n] # NoFile}

Init ==
    /\ dir = [n \in Names |-> NoFile]
    /\ wstate = [e \in Events |-> "todo"]
    /\ processed_files = {}
    /\ listing = <<>>
    /\ mpc = "scan"
    \* ConfigLoader._merge_configs and the environment overrides never read
    \* pipeline.automation, so enabled keeps the dataclass default True.
    /\ enabled = TRUE
    /\ handled = {}

\* The backup side opens the trigger file for writing: the file exists,
\* empty, replacing whatever had that name.  It writes one file at a time.
BeginWrite(e) ==
    /\ wstate[e] = "todo"
    /\ \A f \in Events : wstate[f] # "writing"
    /\ dir' = [dir EXCEPT ![NameOf[e]] = [event |-> e, complete |-> FALSE]]
    /\ wstate' = [wstate EXCEPT ![e] = "writing"]
    /\ UNCHANGED <<processed_files, listing, mpc, enabled, handled>>

\* json.dump finishes and the file is closed.
EndWrite(e) ==
    /\ wstate[e] = "writing"
    /\ dir' = [dir EXCEPT ![NameOf[e]] = [event |-> e, complete |-> TRUE]]
    /\ wstate' = [wstate EXCEPT ![e] = "done"]
    /\ UNCHANGED <<processed_files, listing, mpc, enabled, handled>>

\* Path(trigger_dir).glob: the files present, in the order the directory
\* lists them, which the code does not fix.
Scan ==
    /\ mpc = "scan"
    /\ \E order \in SetToSeqs(Present) : listing' = order
    /\ mpc' = "process"
    /\ UNCHANGED <<dir, wstate, processed_files, enabled, handled>>

\* handle_backup_completion succeeds for an event: automation is disabled
\* (nothing is run) or the generator subprocess exits 0 in time.
HandleSucceeds(e) == ~enabled \/ e \notin FailingEvents

\* Mutant of ProcessFile: the file is removed after every attempt,
\* successful or not.
ProcessFileUnlinkAlways ==
    /\ mpc = "process" /\ listing # <<>>
    /\ LET n == Head(listing) IN
       /\ listing' = Tail(listing)
       /\ IF n \in processed_files \/ dir[n] = NoFile \/ ~dir[n].complete
            THEN UNCHANGED <<dir, processed_files, handled>>
            ELSE /\ dir' = [dir EXCEPT ![n] = NoFile]
                 /\ IF HandleSucceeds(dir[n].event)
                      THEN /\ processed_files' = processed_files \cup {n}
                           /\ handled' = handled \cup {dir[n].event}
                      ELSE UNCHANGED <<processed_files, handled>>
    /\ UNCHANGED <<wstate, mpc, enabled>>

\* Mutant of ProcessFile: a failure ends the pass over the listing (a break
\* in the for loop).
ProcessFileBreakOnFailure ==
    /\ mpc = "process" /\ listing # <<>>
    /\ LET n == Head(listing) IN
       IF \/ n \in processed_files \/ dir[n] = NoFile \/ ~dir[n].complete
          \/ ~HandleSucceeds(dir[n].event)
         THEN /\ listing' = IF n \notin processed_files /\ dir[n] # NoFile
                               /\ dir[n].complete THEN <<>> ELSE Tail(listing)
              /\ UNCHANGED <<dir, processed_files, handled>>
         ELSE /\ listing' = Tail(listing)
              /\ dir' = [dir EXCEPT ![n] = NoFile]
              /\ processed_files' = processed_files \cup {n}
              /\ handled' = handled \cup {dir[n].event}
    /\ UNCHANGED <<wstate, mpc, enabled>>

\* Mutant of ProcessFile: the Path object, not its name, is added to
\* processed_files.
ProcessFileAddsPath ==
    /\ mpc = "process" /\ listing # <<>>
    /\ LET n == Head(listing) IN
       /\ listing' = Tail(listing)
       /\ IF \/ n \in processed_files \/ dir[n] = NoFile \/ ~dir[n].complete
             \/ ~HandleSucceeds(dir[n].event)
            THEN UNCHANGED <<dir, processed_files, handled>>
            ELSE /\ dir' = [dir EXCEPT ![n] = NoFile]
                 /\ processed_files' = processed_files \cup {[path |-> n]}
                 /\ handled' = handled \cup {dir[n].event}
    /\ UNCHANGED <<wstate, mpc, enabled>>

(***************************************************************************)
(* One file of the listing.  A name in processed_files is skipped.  A      *)
(* file that is gone or not yet valid JSON raises, is logged, and stays.   *)
(* Otherwise the event is handled; on success the name is added to         *)
(* processed_files and the file unlinked, on failure the file stays for    *)
(* the next scan.                                                          *)
(***************************************************************************)
ProcessFile ==
    /\ mpc = "process" /\ listing # <<>>
    /\ LET n == Head(listing) IN
       /\ listing' = Tail(listing)
       /\ IF \/ n \in processed_files \/ dir[n] = NoFile \/ ~dir[n].complete
             \/ ~HandleSucceeds(dir[n].event)
            THEN UNCHANGED <<dir, processed_files, handled>>
            ELSE /\ dir' = [dir EXCEPT ![n] = NoFile]
                 /\ processed_files' = processed_files \cup {n}
                 /\ handled' = handled \cup {dir[n].event}
    /\ UNCHANGED <<wstate, mpc, enabled>>

\* The listing is done: time.sleep(poll_interval), then the next scan.
Sleep ==
    /\ mpc = "process" /\ listing = <<>>
    /\ mpc' = "scan"
    /\ UNCHANGED <<dir, wstate, processed_files, listing, enabled, handled>>

MonitorStep == Scan \/ ProcessFile \/ Sleep

Next ==
    \/ \E e \in Events : BeginWrite(e) \/ EndWrite(e)
    \/ MonitorStep

\* The monitor thread always runs; a started write is always finished.
Spec == Init /\ [][Next]_vars /\ WF_vars(MonitorStep)
             /\ \A e \in Events : WF_vars(EndWrite(e))

-----------------------------------------------------------------------------
TypeOK ==
    /\ dir \in [Names -> [event : Events, complete : BOOLEAN] \cup {NoFile}]
    /\ wstate \in [Events -> {"todo", "writing", "done"}]
    /\ processed_files \subseteq Names
    /\ listing \in Seq(Names)
    /\ mpc \in {"scan", "process"}
    /\ enabled \in BOOLEAN
    /\ handled \subseteq Events

\* A failed attempt never loses a trigger: every event the backup side has
\* written and the handler has not yet accepted still has its complete
\* file in the directory, to be retried at the next scan (lines 298-308).
NoTriggerDropped ==
    \A e \in Events :
        wstate[e] = "done" /\ e \notin handled =>
            dir[NameOf[e]] = [event |-> e, complete |-> TRUE]

\* Every trigger the backup side writes is eventually handled unless its
\* generation always fails; a failing file, retried at every scan, holds
\* up no other.
EveryTriggerHandled ==
    \A e \in Events \ FailingEvents : wstate[e] = "done" ~> e \in handled
====
