----------------------------- MODULE TaskService -----------------------------
(***************************************************************************)
(* TaskService: a task row in the database, a cancellation token in the    *)
(* in-memory registry and a worker that runs one command, all of which have *)
(* to agree.  The command is the one CommandContract promises.  The desktop *)
(* process may crash at any moment and be started again; the database and  *)
(* the temporary files survive it.                                         *)
(***************************************************************************)
EXTENDS Naturals, FiniteSets

CONSTANTS
  Task,         \* the ids tasks may get
  MaxCrashes,   \* bound on crashes of the desktop process
  MaxFailures   \* bound on failed writes to the database and failed removals

ASSUME TaskAssumption ==
  /\ IsFiniteSet(Task)
  /\ MaxCrashes \in Nat
  /\ MaxFailures \in Nat

VARIABLES
  row,        \* tasks.status in the database, "absent" without a row
  paths,      \* the tasks whose cleanup_paths exist on disk
  up,         \* the desktop process is running
  registry,   \* the tasks with a token in `running`
  token,      \* the tokens that have been cancelled
  pc,         \* where start, then the worker, of a task has got to
  command,    \* the command of a task: "none", "running", "killed" or "ended"
  verdict,    \* the final status the worker computed
  told,       \* the last status the UI was sent for the task
  answer,     \* the last answer of cancel: "none", "ok" or "error"
  lost,       \* the tasks with a write to their row that failed
  leftover,   \* the tasks whose temporary files could not be removed
  crashes, failures

vars == <<row, paths, up, registry, token, pc, command, verdict, told, answer,
          lost, leftover, crashes, failures>>
workerVars == <<registry, token, pc, command, verdict>>

Open == {"pending", "running"}
Final == {"success", "failed", "cancelled"}
Status == Open \cup Final

TypeOK ==
  /\ row \in [Task -> Status \cup {"absent"}]
  /\ paths \in SUBSET Task
  /\ up \in BOOLEAN
  /\ registry \in SUBSET Task
  /\ token \in SUBSET Task
  /\ pc \in [Task -> {"idle", "inserted", "spawned", "marked", "executing",
                      "ended", "updated", "cleaned", "emitted", "gone"}]
  /\ command \in [Task -> {"none", "running", "killed", "ended"}]
  /\ verdict \in [Task -> Final \cup {"none"}]
  /\ told \in [Task -> Status \cup {"none"}]
  /\ answer \in [Task -> {"none", "ok", "error"}]
  /\ lost \in SUBSET Task
  /\ leftover \in SUBSET Task
  /\ crashes \in 0..MaxCrashes
  /\ failures \in 0..MaxFailures

Init ==
  /\ row = [t \in Task |-> "absent"]
  /\ paths = {}
  /\ up = TRUE
  /\ registry = {}
  /\ token = {}
  /\ pc = [t \in Task |-> "idle"]
  /\ command = [t \in Task |-> "none"]
  /\ verdict = [t \in Task |-> "none"]
  /\ told = [t \in Task |-> "none"]
  /\ answer = [t \in Task |-> "none"]
  /\ lost = {}
  /\ leftover = {}
  /\ crashes = 0
  /\ failures = 0

Goto(t, from, to) == up /\ pc[t] = from /\ pc' = [pc EXCEPT ![t] = to]

\* UPDATE tasks SET status ...; a failure is ignored by the worker.
UpdateRow(t, status) ==
  \/ /\ row' = [row EXCEPT ![t] = status]
     /\ UNCHANGED <<lost, failures>>
  \/ /\ failures < MaxFailures
     /\ failures' = failures + 1
     /\ lost' = lost \cup {t}
     /\ UNCHANGED row

-----------------------------------------------------------------------------
(* start: insert the row, register the token, spawn the worker. *)

\* The caller has put its temporary files on disk before it starts the task.
InsertRow(t) ==
  /\ Goto(t, "idle", "inserted")
  /\ row' = [row EXCEPT ![t] = "pending"]
  /\ paths' = paths \cup {t}
  /\ UNCHANGED <<up, registry, token, command, verdict, told, answer, leftover, lost,
                 crashes, failures>>

\* The insert fails, start returns the error: no worker will reclaim the files.
InsertFails(t) ==
  /\ Goto(t, "idle", "gone")
  /\ failures < MaxFailures
  /\ failures' = failures + 1
  /\ lost' = lost \cup {t}
  /\ paths' = paths \cup {t}
  /\ UNCHANGED <<row, up, registry, token, command, verdict, told, answer, leftover, crashes>>

\* A plausible bug: the worker is spawned before its token can be found.
SpawnUnregistered(t) ==
  /\ Goto(t, "inserted", "spawned")
  /\ UNCHANGED <<row, paths, up, registry, token, command, verdict, told, answer, leftover,
                 lost, crashes, failures>>

Register(t) ==
  /\ Goto(t, "inserted", "spawned")
  /\ registry' = registry \cup {t}
  /\ UNCHANGED <<row, paths, up, token, command, verdict, told, answer, leftover, lost,
                 crashes, failures>>

-----------------------------------------------------------------------------
(* The worker. *)

MarkRunning(t) ==
  /\ Goto(t, "spawned", "marked")
  /\ UpdateRow(t, "running")
  /\ UNCHANGED <<paths, up, registry, token, command, verdict, told, answer, leftover, crashes>>

\* emit_status, then execute spawns the child.
Launch(t) ==
  /\ Goto(t, "marked", "executing")
  /\ told' = [told EXCEPT ![t] = "running"]
  /\ command' = [command EXCEPT ![t] = "running"]
  /\ UNCHANGED <<row, paths, up, registry, token, verdict, answer, leftover, lost, crashes,
                 failures>>

\* The outcomes of execute and the status each one becomes: an exit code, an
\* error or a timeout, a cancellation.
Conclusions(t) == {"success", "failed"} \cup (IF t \in token THEN {"cancelled"} ELSE {})

\* execute returns; a child that has not ended gets SIGKILL on the way out.
Conclude(t) ==
  /\ Goto(t, "executing", "ended")
  /\ verdict' \in {[verdict EXCEPT ![t] = s] : s \in Conclusions(t)}
  /\ command' \in {[command EXCEPT ![t] = c] :
                     c \in IF verdict'[t] = "success" THEN {"ended"}
                                                      ELSE {"ended", "killed"}}
  /\ UNCHANGED <<row, paths, up, registry, token, told, answer, leftover, lost, crashes, failures>>

Persist(t) ==
  /\ Goto(t, "ended", "updated")
  /\ UpdateRow(t, verdict[t])
  /\ UNCHANGED <<paths, up, registry, token, command, verdict, told, answer, leftover, crashes>>

\* A plausible bug: only the files of a task that succeeded are removed.
CleanupOfSuccess(t) ==
  /\ Goto(t, "updated", "cleaned")
  /\ paths' = IF verdict[t] = "success" THEN paths \ {t} ELSE paths
  /\ UNCHANGED <<row, up, registry, token, command, verdict, told, answer, leftover, lost,
                 crashes, failures>>

\* cleanup_task_paths; a removal that fails leaves the files, with a warning in
\* the log, and nobody tries again.
Cleanup(t) ==
  /\ Goto(t, "updated", "cleaned")
  /\ \/ /\ paths' = paths \ {t}
        /\ UNCHANGED <<leftover, failures>>
     \/ /\ failures < MaxFailures
        /\ failures' = failures + 1
        /\ leftover' = leftover \cup {t}
        /\ UNCHANGED paths
  /\ UNCHANGED <<row, up, registry, token, command, verdict, told, answer, lost, crashes>>

\* A plausible bug: the UI hears of the end before the database does.
AnnounceEarly(t) ==
  /\ up /\ pc[t] \in {"ended", "cleaned"}
  /\ told' = [told EXCEPT ![t] = verdict[t]]
  /\ pc' = [pc EXCEPT ![t] = IF @ = "cleaned" THEN "emitted" ELSE @]
  /\ UNCHANGED <<row, paths, up, registry, token, command, verdict, answer, leftover, lost,
                 crashes, failures>>

Announce(t) ==
  /\ Goto(t, "cleaned", "emitted")
  /\ told' = [told EXCEPT ![t] = verdict[t]]
  /\ UNCHANGED <<row, paths, up, registry, token, command, verdict, answer, leftover, lost,
                 crashes, failures>>

Unregister(t) ==
  /\ Goto(t, "emitted", "gone")
  /\ registry' = registry \ {t}
  /\ UNCHANGED <<row, paths, up, token, command, verdict, told, answer, leftover, lost,
                 crashes, failures>>

-----------------------------------------------------------------------------
(* cancel, crash and restart. *)

\* The user asks for a task the list shows, or showed a moment ago.
Cancel(t) ==
  /\ up
  /\ row[t] # "absent"
  /\ answer' = [answer EXCEPT ![t] = IF t \in registry THEN "ok" ELSE "error"]
  /\ token' = token \cup ({t} \cap registry)
  /\ UNCHANGED <<row, paths, up, registry, pc, command, verdict, told, leftover, lost,
                 crashes, failures>>

\* Memory is gone, the worker with it, and so is the UI.  kill_on_drop does
\* not run: a child may outlive the desktop process.
Crash ==
  /\ up
  /\ crashes < MaxCrashes
  /\ crashes' = crashes + 1
  /\ up' = FALSE
  /\ registry' = {}
  /\ token' = {}
  /\ pc' = [t \in Task |-> IF pc[t] = "idle" THEN "idle" ELSE "gone"]
  /\ verdict' = [t \in Task |-> "none"]
  /\ told' = [t \in Task |-> "none"]
  /\ UNCHANGED <<row, paths, command, answer, leftover, lost, failures>>

\* A plausible bug: the sweep takes every row for one of a dead process.
OrphansAll == {t \in Task : row[t] # "absent"}

\* A plausible bug: the sweep only looks at tasks that had begun to run.
OrphansRunning == {t \in Task : row[t] = "running"}

\* The rows mark_orphans_failed matches.
Orphans == {t \in Task : row[t] \in Open}

\* TaskService::new: mark_orphans_failed, whose failure is only logged.
Restart ==
  /\ ~up
  /\ up' = TRUE
  /\ \/ /\ row' = [t \in Task |-> IF t \in Orphans THEN "failed" ELSE row[t]]
        /\ UNCHANGED <<lost, failures>>
     \/ /\ failures < MaxFailures
        /\ failures' = failures + 1
        /\ lost' = lost \cup Orphans
        /\ UNCHANGED row
  /\ UNCHANGED <<paths, workerVars, told, answer, leftover, crashes>>

\* A child that was killed, or that outlived a crash, ends.
ChildEnds(t) ==
  /\ command[t] = "killed" \/ (command[t] = "running" /\ pc[t] = "gone")
  /\ command' = [command EXCEPT ![t] = "ended"]
  /\ UNCHANGED <<row, paths, up, registry, token, pc, verdict, told, answer, leftover, lost,
                 crashes, failures>>

-----------------------------------------------------------------------------
Start(t) == InsertRow(t) \/ InsertFails(t) \/ Register(t)

Worker(t) ==
  \/ MarkRunning(t) \/ Launch(t) \/ Conclude(t) \/ Persist(t)
  \/ Cleanup(t) \/ Announce(t) \/ Unregister(t)

Next ==
  \/ \E t \in Task : Start(t) \/ Worker(t) \/ Cancel(t) \/ ChildEnds(t)
  \/ Crash
  \/ Restart

Spec == Init /\ [][Next]_vars

\* The tasks that were begun go on; a desktop that crashed is started again.
\* That a command ends is the assumption about the command.
FairSpec ==
  /\ Spec
  /\ \A t \in Task : WF_vars(Register(t)) /\ WF_vars(Worker(t))
  /\ WF_vars(Restart)

-----------------------------------------------------------------------------
(* Properties. *)

\* A final status is never rewritten: not by the worker, not by the sweep that
\* a restart runs over rows of the processes before it.
FinalStatusStays == [][\A t \in Task : row[t] \in Final => row'[t] = row[t]]_row

\* What the UI was told last is what the database says, or the write was lost:
\* the worker persists the status before it announces it.
ToldIsPersisted ==
  \A t \in Task : told[t] \in Final => row[t] = told[t] \/ t \in lost

\* After a restart no row still claims to be pending or running without a
\* worker behind it that will finish it.
OpenRowHasWorker ==
  \A t \in Task : up /\ row[t] \in Open => pc[t] \notin {"idle", "gone"} \/ t \in lost

\* A command that runs can be cancelled: its token is in the registry.
RunningIsCancellable ==
  \A t \in Task : command[t] = "running" /\ pc[t] # "gone" => t \in registry

\* The files a command may be reading are never taken away under it.
PathsOutliveCommand == \A t \in Task : command[t] = "running" => t \in paths

\* Every task that was started reaches a final status in the database, unless
\* the write is lost, and its temporary files are gone in the end, unless the
\* desktop crashed or the removal failed: nobody comes back for them.
TaskSettles ==
  []<>(\A t \in Task :
         \/ row[t] = "absent"
         \/ /\ row[t] \in Final \/ t \in lost
            /\ t \notin paths \/ crashes > 0 \/ t \in leftover)
=============================================================================
