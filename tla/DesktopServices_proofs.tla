------------------------- MODULE DesktopServices_proofs -------------------------
(***************************************************************************)
(* Of services of the desktop, each by itself, for any number of tasks,    *)
(* callers, exports, children, downloads, failures and deaths of the       *)
(* desktop: background tasks (TaskService), the Agent binary of a device   *)
(* (AgentInstall), the artifacts of exports (AppExport), the child of a    *)
(* process plugin (PluginHost), the downloads of tools (ToolMarket) and a  *)
(* command (ProcessService, with the contract it keeps).                   *)
(***************************************************************************)
EXTENDS TaskService, AgentInstall, AppExport, PluginHost, ToolMarket, ProcessService, TLAPS

-----------------------------------------------------------------------------
(* TaskService: its safety properties are not inductive, since they do not *)
(* say where a worker has to be for the row, the token and the files to    *)
(* agree.  IInv says it, position by position.                             *)


\* The positions at which the row is still open, and at which the worker lives.
Unfinished == {"inserted", "spawned", "marked", "executing", "ended"}
Finished == {"updated", "cleaned", "emitted"}
Alive == {"spawned", "marked", "executing", "ended"} \cup Finished

DownIsQuiet == ~up => \A t \in Task : pc[t] \in {"idle", "gone"}

IdleIsFresh == \A t \in Task : pc[t] = "idle" =>
  row[t] = "absent" /\ command[t] = "none" /\ told[t] = "none"

UnfinishedIsOpen == \A t \in Task : pc[t] \in Unfinished => row[t] \in Open /\ t \in paths

VerdictIsKnown == \A t \in Task : pc[t] \in {"ended"} \cup Finished => verdict[t] \in Final

FinishedIsPersisted ==
  \A t \in Task : pc[t] \in Finished => row[t] = verdict[t] \/ t \in lost

ToldAtTheEnd == \A t \in Task : told[t] \in Final =>
  pc[t] \in {"emitted", "gone"} /\ (row[t] = told[t] \/ t \in lost)

AliveIsRegistered == \A t \in Task : pc[t] \in Alive => t \in registry

CommandHasItsFiles == \A t \in Task : command[t] = "running" =>
  pc[t] \in {"executing", "gone"} /\ t \in paths

OpenIsUnfinished == up => \A t \in Task : row[t] \in Open => pc[t] \in Unfinished \/ t \in lost

IInv ==
  /\ TypeOK
  /\ DownIsQuiet
  /\ IdleIsFresh
  /\ UnfinishedIsOpen
  /\ VerdictIsKnown
  /\ FinishedIsPersisted
  /\ ToldAtTheEnd
  /\ AliveIsRegistered
  /\ CommandHasItsFiles
  /\ OpenIsUnfinished

-----------------------------------------------------------------------------
\* IInv holds in the initial state: before any task is started there is no row,
\* no token and no worker (TaskService::new on an empty database).
LEMMA InitIInv == Init => IInv
<1> SUFFICES ASSUME Init PROVE IInv
  OBVIOUS
<1> USE DEF Init
<1>1. TypeOK
  BY TaskAssumption DEF TypeOK, Status, Open, Final
<1>2. DownIsQuiet /\ IdleIsFresh /\ OpenIsUnfinished
  BY DEF DownIsQuiet, IdleIsFresh, OpenIsUnfinished, Open
<1>3. UnfinishedIsOpen /\ VerdictIsKnown /\ FinishedIsPersisted /\ AliveIsRegistered
  BY DEF UnfinishedIsOpen, VerdictIsKnown, FinishedIsPersisted, AliveIsRegistered,
         Unfinished, Finished, Alive
<1>4. ToldAtTheEnd /\ CommandHasItsFiles
  BY DEF ToldAtTheEnd, CommandHasItsFiles, Final
<1> QED
  BY <1>1, <1>2, <1>3, <1>4 DEF IInv

-----------------------------------------------------------------------------
(* One lemma per action: the conjuncts it leaves alone in one step, one step *)
(* for each conjunct it can disturb.                                         *)

\* start puts the row and the files there before anybody can look for them.
LEMMA InsertRowKeeps ==
  ASSUME NEW t \in Task PROVE IInv /\ InsertRow(t) => IInv'
<1> SUFFICES ASSUME IInv, InsertRow(t) PROVE IInv'
  OBVIOUS
<1> USE DEF IInv, TypeOK, Status, Open, Final, InsertRow, Goto
<1>1. TypeOK'
  OBVIOUS
<1>2. DownIsQuiet' /\ VerdictIsKnown' /\ FinishedIsPersisted'
     /\ AliveIsRegistered'
  BY DEF DownIsQuiet, VerdictIsKnown, FinishedIsPersisted, AliveIsRegistered,
         Finished, Alive
<1>3. IdleIsFresh'
  BY DEF IdleIsFresh
<1>4. UnfinishedIsOpen'
  BY DEF UnfinishedIsOpen, Unfinished
<1>5. ToldAtTheEnd'
  BY DEF ToldAtTheEnd
<1>6. CommandHasItsFiles'
  BY DEF CommandHasItsFiles
<1>7. OpenIsUnfinished'
  BY DEF OpenIsUnfinished, Unfinished
<1> QED
  BY <1>1, <1>2, <1>3, <1>4, <1>5, <1>6, <1>7

\* A failed insert leaves neither a row nor a worker, only the files.
LEMMA InsertFailsKeeps ==
  ASSUME NEW t \in Task PROVE IInv /\ InsertFails(t) => IInv'
<1> SUFFICES ASSUME IInv, InsertFails(t) PROVE IInv'
  OBVIOUS
<1> USE DEF IInv, TypeOK, Status, Open, Final, InsertFails, Goto
<1>1. TypeOK'
  BY TaskAssumption
<1>2. DownIsQuiet' /\ VerdictIsKnown' /\ FinishedIsPersisted'
     /\ AliveIsRegistered'
  BY DEF DownIsQuiet, VerdictIsKnown, FinishedIsPersisted, AliveIsRegistered,
         Finished, Alive
<1>3. IdleIsFresh'
  BY DEF IdleIsFresh
<1>4. UnfinishedIsOpen'
  BY DEF UnfinishedIsOpen, Unfinished
<1>5. ToldAtTheEnd'
  BY DEF ToldAtTheEnd
<1>6. CommandHasItsFiles'
  BY DEF CommandHasItsFiles
<1>7. OpenIsUnfinished'
  BY DEF OpenIsUnfinished, Unfinished
<1> QED
  BY <1>1, <1>2, <1>3, <1>4, <1>5, <1>6, <1>7

\* The token is in the registry before the worker lives.
LEMMA RegisterKeeps ==
  ASSUME NEW t \in Task PROVE IInv /\ Register(t) => IInv'
<1> SUFFICES ASSUME IInv, Register(t) PROVE IInv'
  OBVIOUS
<1> USE DEF IInv, TypeOK, Status, Open, Final, Register, Goto
<1>1. TypeOK'
  OBVIOUS
<1>2. DownIsQuiet' /\ IdleIsFresh' /\ UnfinishedIsOpen' /\ VerdictIsKnown'
     /\ FinishedIsPersisted' /\ ToldAtTheEnd' /\ CommandHasItsFiles'
  BY DEF DownIsQuiet, IdleIsFresh, UnfinishedIsOpen, VerdictIsKnown,
         FinishedIsPersisted, ToldAtTheEnd, CommandHasItsFiles, Unfinished,
         Finished
<1>3. AliveIsRegistered'
  BY DEF AliveIsRegistered, Finished, Alive
<1>4. OpenIsUnfinished'
  BY DEF OpenIsUnfinished, Unfinished
<1> QED
  BY <1>1, <1>2, <1>3, <1>4

\* Marking a task running, even when the write is lost, keeps its row open.
LEMMA MarkRunningKeeps ==
  ASSUME NEW t \in Task PROVE IInv /\ MarkRunning(t) => IInv'
<1> SUFFICES ASSUME IInv, MarkRunning(t) PROVE IInv'
  OBVIOUS
<1> USE DEF IInv, TypeOK, Status, Open, Final, MarkRunning, Goto, UpdateRow
<1>1. TypeOK'
  BY TaskAssumption
<1>2. DownIsQuiet' /\ IdleIsFresh' /\ VerdictIsKnown' /\ AliveIsRegistered'
     /\ CommandHasItsFiles'
  BY DEF DownIsQuiet, IdleIsFresh, VerdictIsKnown, AliveIsRegistered,
         CommandHasItsFiles, Finished, Alive
<1>3. UnfinishedIsOpen'
  BY DEF UnfinishedIsOpen, Unfinished
<1>4. FinishedIsPersisted'
  BY DEF FinishedIsPersisted, Finished
<1>5. ToldAtTheEnd'
  BY DEF ToldAtTheEnd
<1>6. OpenIsUnfinished'
  BY DEF OpenIsUnfinished, Unfinished
<1> QED
  BY <1>1, <1>2, <1>3, <1>4, <1>5, <1>6

\* The command starts with its files on disk.
LEMMA LaunchKeeps ==
  ASSUME NEW t \in Task PROVE IInv /\ Launch(t) => IInv'
<1> SUFFICES ASSUME IInv, Launch(t) PROVE IInv'
  OBVIOUS
<1> USE DEF IInv, TypeOK, Status, Open, Final, Launch, Goto
<1>1. TypeOK'
  OBVIOUS
<1>2. DownIsQuiet' /\ IdleIsFresh' /\ UnfinishedIsOpen' /\ VerdictIsKnown'
     /\ FinishedIsPersisted' /\ AliveIsRegistered' /\ OpenIsUnfinished'
  BY DEF DownIsQuiet, IdleIsFresh, UnfinishedIsOpen, VerdictIsKnown,
         FinishedIsPersisted, AliveIsRegistered, OpenIsUnfinished,
         Unfinished, Finished, Alive
<1>3. ToldAtTheEnd'
  BY DEF ToldAtTheEnd
<1>4. CommandHasItsFiles'
  BY DEF CommandHasItsFiles, UnfinishedIsOpen, Unfinished
<1> QED
  BY <1>1, <1>2, <1>3, <1>4

\* When execute returns there is a verdict, and no command that runs.
LEMMA ConcludeKeeps ==
  ASSUME NEW t \in Task PROVE IInv /\ Conclude(t) => IInv'
<1> SUFFICES ASSUME IInv, Conclude(t) PROVE IInv'
  OBVIOUS
<1> USE DEF IInv, TypeOK, Status, Open, Final, Conclude, Goto
<1>1. PICK s \in Final, c \in {"ended", "killed"} :
        verdict' = [verdict EXCEPT ![t] = s] /\ command' = [command EXCEPT ![t] = c]
  BY DEF Conclusions
<1> HIDE DEF Final
<1>2. TypeOK'
  BY <1>1 DEF Final
<1>3. DownIsQuiet' /\ IdleIsFresh' /\ UnfinishedIsOpen' /\ ToldAtTheEnd'
     /\ AliveIsRegistered' /\ OpenIsUnfinished'
  BY <1>1  DEF DownIsQuiet, IdleIsFresh, UnfinishedIsOpen, ToldAtTheEnd,
         AliveIsRegistered, OpenIsUnfinished, Unfinished, Finished, Alive
<1>4. VerdictIsKnown'
  BY <1>1 DEF VerdictIsKnown, Finished
<1>5. FinishedIsPersisted'
  BY <1>1 DEF FinishedIsPersisted, Finished
<1>6. CommandHasItsFiles'
  BY <1>1 DEF CommandHasItsFiles
<1> QED
  BY <1>2, <1>3, <1>4, <1>5, <1>6

\* After the worker's last write the row is the verdict, or the write was lost.
LEMMA PersistKeeps ==
  ASSUME NEW t \in Task PROVE IInv /\ Persist(t) => IInv'
<1> SUFFICES ASSUME IInv, Persist(t) PROVE IInv'
  OBVIOUS
<1> USE DEF IInv, TypeOK, Status, Open, Final, Persist, Goto, UpdateRow
<1>1. TypeOK'
  BY TaskAssumption DEF VerdictIsKnown, Finished
<1>2. DownIsQuiet' /\ IdleIsFresh' /\ UnfinishedIsOpen' /\ VerdictIsKnown'
     /\ AliveIsRegistered' /\ CommandHasItsFiles'
  BY DEF DownIsQuiet, IdleIsFresh, UnfinishedIsOpen, VerdictIsKnown,
         AliveIsRegistered, CommandHasItsFiles, Unfinished, Finished, Alive
<1>3. FinishedIsPersisted'
  BY DEF FinishedIsPersisted, Finished
<1>4. ToldAtTheEnd'
  BY DEF ToldAtTheEnd
<1>5. OpenIsUnfinished'
  BY DEF OpenIsUnfinished, Unfinished
<1> QED
  BY <1>1, <1>2, <1>3, <1>4, <1>5

\* The files go when no command runs that could read them.
LEMMA CleanupKeeps ==
  ASSUME NEW t \in Task PROVE IInv /\ Cleanup(t) => IInv'
<1> SUFFICES ASSUME IInv, Cleanup(t) PROVE IInv'
  OBVIOUS
<1> USE DEF IInv, TypeOK, Status, Open, Final, Cleanup, Goto
<1>1. TypeOK'
  BY TaskAssumption
<1>2. DownIsQuiet' /\ IdleIsFresh' /\ VerdictIsKnown'
     /\ FinishedIsPersisted' /\ ToldAtTheEnd' /\ AliveIsRegistered'
     /\ OpenIsUnfinished'
  BY DEF DownIsQuiet, IdleIsFresh, VerdictIsKnown, FinishedIsPersisted,
         ToldAtTheEnd, AliveIsRegistered, OpenIsUnfinished, Unfinished,
         Finished, Alive
<1>3. UnfinishedIsOpen'
  BY DEF UnfinishedIsOpen, Unfinished
<1>4. CommandHasItsFiles'
  BY DEF CommandHasItsFiles
<1> QED
  BY <1>1, <1>2, <1>3, <1>4

\* What is announced is what was persisted.
LEMMA AnnounceKeeps ==
  ASSUME NEW t \in Task PROVE IInv /\ Announce(t) => IInv'
<1> SUFFICES ASSUME IInv, Announce(t) PROVE IInv'
  OBVIOUS
<1> USE DEF IInv, TypeOK, Status, Open, Final, Announce, Goto
<1>1. TypeOK'
  BY DEF VerdictIsKnown, Finished
<1>2. DownIsQuiet' /\ IdleIsFresh' /\ UnfinishedIsOpen' /\ VerdictIsKnown'
     /\ AliveIsRegistered' /\ CommandHasItsFiles' /\ OpenIsUnfinished'
  BY DEF DownIsQuiet, IdleIsFresh, UnfinishedIsOpen, VerdictIsKnown,
         AliveIsRegistered, CommandHasItsFiles, OpenIsUnfinished, Unfinished,
         Finished, Alive
<1>3. FinishedIsPersisted'
  BY DEF FinishedIsPersisted, Finished
<1>4. ToldAtTheEnd'
  BY DEF ToldAtTheEnd, FinishedIsPersisted, Finished
<1> QED
  BY <1>1, <1>2, <1>3, <1>4

\* The token goes last.
LEMMA UnregisterKeeps ==
  ASSUME NEW t \in Task PROVE IInv /\ Unregister(t) => IInv'
<1> SUFFICES ASSUME IInv, Unregister(t) PROVE IInv'
  OBVIOUS
<1> USE DEF IInv, TypeOK, Status, Open, Final, Unregister, Goto
<1>1. TypeOK'
  OBVIOUS
<1>2. DownIsQuiet' /\ IdleIsFresh' /\ UnfinishedIsOpen' /\ VerdictIsKnown'
     /\ FinishedIsPersisted' /\ CommandHasItsFiles' /\ OpenIsUnfinished'
  BY DEF DownIsQuiet, IdleIsFresh, UnfinishedIsOpen, VerdictIsKnown,
         FinishedIsPersisted, CommandHasItsFiles, OpenIsUnfinished,
         Unfinished, Finished
<1>3. ToldAtTheEnd'
  BY DEF ToldAtTheEnd
<1>4. AliveIsRegistered'
  BY DEF AliveIsRegistered, Finished, Alive
<1> QED
  BY <1>1, <1>2, <1>3, <1>4

\* cancel touches nothing but the token and its answer.
LEMMA CancelKeeps ==
  ASSUME NEW t \in Task PROVE IInv /\ Cancel(t) => IInv'
<1> SUFFICES ASSUME IInv, Cancel(t) PROVE IInv'
  OBVIOUS
<1> USE DEF IInv, TypeOK, Status, Open, Final, Cancel
<1>1. TypeOK'
  OBVIOUS
<1>2. DownIsQuiet' /\ IdleIsFresh' /\ UnfinishedIsOpen' /\ VerdictIsKnown'
     /\ FinishedIsPersisted' /\ ToldAtTheEnd' /\ AliveIsRegistered'
     /\ CommandHasItsFiles' /\ OpenIsUnfinished'
  BY DEF DownIsQuiet, IdleIsFresh, UnfinishedIsOpen, VerdictIsKnown,
         FinishedIsPersisted, ToldAtTheEnd, AliveIsRegistered,
         CommandHasItsFiles, OpenIsUnfinished, Unfinished, Finished, Alive
<1> QED
  BY <1>1, <1>2

\* A child that ends leaves everything else alone.
LEMMA ChildEndsKeeps ==
  ASSUME NEW t \in Task PROVE IInv /\ ChildEnds(t) => IInv'
<1> SUFFICES ASSUME IInv, ChildEnds(t) PROVE IInv'
  OBVIOUS
<1> USE DEF IInv, TypeOK, Status, Open, Final, ChildEnds
<1>1. TypeOK'
  OBVIOUS
<1>2. DownIsQuiet' /\ UnfinishedIsOpen' /\ VerdictIsKnown'
     /\ FinishedIsPersisted' /\ ToldAtTheEnd' /\ AliveIsRegistered'
     /\ OpenIsUnfinished'
  BY DEF DownIsQuiet, UnfinishedIsOpen, VerdictIsKnown, FinishedIsPersisted,
         ToldAtTheEnd, AliveIsRegistered, OpenIsUnfinished, Unfinished,
         Finished, Alive
<1>3. IdleIsFresh'
  BY DEF IdleIsFresh
<1>4. CommandHasItsFiles'
  BY DEF CommandHasItsFiles
<1> QED
  BY <1>1, <1>2, <1>3, <1>4

\* A crash leaves open rows behind, but nothing that runs in the process.
LEMMA CrashKeeps ==
  IInv /\ Crash => IInv'
<1> SUFFICES ASSUME IInv, Crash PROVE IInv'
  OBVIOUS
<1> USE DEF IInv, TypeOK, Status, Open, Final, Crash
<1>1. TypeOK'
  <2>1. pc' \in [Task -> {"idle", "gone"}]
    OBVIOUS
  <2>2. crashes' \in 0..MaxCrashes
    BY TaskAssumption
  <2> QED
    BY <2>1, <2>2
<1>2. UnfinishedIsOpen' /\ VerdictIsKnown' /\ FinishedIsPersisted'
     /\ AliveIsRegistered'
  BY DEF UnfinishedIsOpen, VerdictIsKnown, FinishedIsPersisted,
         AliveIsRegistered, Unfinished, Finished, Alive
<1>3. DownIsQuiet'
  BY DEF DownIsQuiet
<1>4. IdleIsFresh'
  BY DEF IdleIsFresh
<1>5. ToldAtTheEnd'
  BY DEF ToldAtTheEnd
<1>6. CommandHasItsFiles'
  BY DEF CommandHasItsFiles
<1>7. OpenIsUnfinished'
  BY DEF OpenIsUnfinished, Unfinished
<1> QED
  BY <1>1, <1>2, <1>3, <1>4, <1>5, <1>6, <1>7

\* The sweep of a restart closes every open row, or fails to write to all of them.
LEMMA RestartKeeps ==
  IInv /\ Restart => IInv'
<1> SUFFICES ASSUME IInv, Restart PROVE IInv'
  OBVIOUS
<1> USE DEF IInv, TypeOK, Status, Open, Final, Restart, Orphans, workerVars
<1>1. TypeOK'
  <2>1. row' \in [Task -> Status \cup {"absent"}]
    OBVIOUS
  <2>2. failures' \in 0..MaxFailures /\ lost' \in SUBSET Task
    BY TaskAssumption
  <2> QED
    BY <2>1, <2>2
<1>2. UnfinishedIsOpen' /\ VerdictIsKnown' /\ FinishedIsPersisted'
     /\ AliveIsRegistered' /\ CommandHasItsFiles'
  BY DEF DownIsQuiet, UnfinishedIsOpen, VerdictIsKnown, FinishedIsPersisted,
         AliveIsRegistered, CommandHasItsFiles, Unfinished, Finished, Alive
<1>3. DownIsQuiet'
  BY DEF DownIsQuiet
<1>4. IdleIsFresh'
  BY DEF IdleIsFresh
<1>5. ToldAtTheEnd'
  BY DEF ToldAtTheEnd
<1>6. OpenIsUnfinished'
  BY DEF OpenIsUnfinished, Unfinished
<1> QED
  BY <1>1, <1>2, <1>3, <1>4, <1>5, <1>6

\* Every step of the specification keeps IInv: the induction step.
LEMMA NextIInv == IInv /\ [Next]_vars => IInv'
<1> SUFFICES ASSUME IInv, [Next]_vars PROVE IInv'
  OBVIOUS
<1>1. ASSUME NEW t \in Task, Start(t) \/ Worker(t) PROVE IInv'
  BY <1>1, InsertRowKeeps, InsertFailsKeeps, RegisterKeeps, MarkRunningKeeps,
     LaunchKeeps, ConcludeKeeps, PersistKeeps, CleanupKeeps, AnnounceKeeps,
     UnregisterKeeps DEF Start, Worker
<1>2. ASSUME NEW t \in Task, Cancel(t) \/ ChildEnds(t) PROVE IInv'
  BY <1>2, CancelKeeps, ChildEndsKeeps
<1>3. CASE Crash
  BY <1>3, CrashKeeps
<1>4. CASE Restart
  BY <1>4, RestartKeeps
<1>5. CASE UNCHANGED vars
  BY <1>5 DEF vars, IInv, TypeOK, DownIsQuiet, IdleIsFresh, UnfinishedIsOpen,
     VerdictIsKnown, FinishedIsPersisted, ToldAtTheEnd, AliveIsRegistered,
     CommandHasItsFiles, OpenIsUnfinished
<1> QED
  BY <1>1, <1>2, <1>3, <1>4, <1>5 DEF Next

-----------------------------------------------------------------------------
\* IInv is an invariant of the task service, for every set of tasks and every
\* number of crashes of the desktop and of failed writes to its database.
THEOREM Invariance == Spec => []IInv
<1> QED
  BY InitIInv, NextIInv, PTL DEF Spec

\* Every variable keeps its type in every reachable state of the task service.
THEOREM TypeCorrect == Spec => []TypeOK
<1>1. IInv => TypeOK
  BY DEF IInv
<1> QED
  BY <1>1, Invariance, PTL

\* run_task persists before it announces: the final status the UI was told last
\* is the one in the database, or a write to that row was lost.
THEOREM ToldIsAlwaysPersisted == Spec => []ToldIsPersisted
<1>1. IInv => ToldIsPersisted
  BY DEF IInv, ToldAtTheEnd, ToldIsPersisted
<1> QED
  BY <1>1, Invariance, PTL

\* While the desktop is up, a row that claims to be pending or running has a
\* worker that will finish it, whatever crashed before (mark_orphans_failed).
THEOREM OpenRowAlwaysHasWorker == Spec => []OpenRowHasWorker
<1>1. IInv => OpenRowHasWorker
  BY DEF IInv, OpenIsUnfinished, OpenRowHasWorker, Unfinished
<1> QED
  BY <1>1, Invariance, PTL

\* start registers the token before it spawns the worker: a command that runs
\* under a worker can always be cancelled.
THEOREM RunningIsAlwaysCancellable == Spec => []RunningIsCancellable
<1>1. IInv => RunningIsCancellable
  BY DEF IInv, CommandHasItsFiles, AliveIsRegistered, Alive, RunningIsCancellable
<1> QED
  BY <1>1, Invariance, PTL

\* cleanup_task_paths runs after execute has returned: the files a command may
\* be reading are never taken away under it.
THEOREM PathsAlwaysOutliveCommand == Spec => []PathsOutliveCommand
<1>1. IInv => PathsOutliveCommand
  BY DEF IInv, CommandHasItsFiles, PathsOutliveCommand
<1> QED
  BY <1>1, Invariance, PTL

\* No step rewrites a final status: the worker writes while its row is open and
\* the sweep of a restart matches open rows only.
THEOREM FinalStatusAlwaysStays == Spec => FinalStatusStays
<1> DEFINE Stays == \A t \in Task : row[t] \in Final => row'[t] = row[t]
<1>1. IInv /\ [Next]_vars => [Stays]_row
  <2> SUFFICES ASSUME IInv, [Next]_vars, row' # row PROVE Stays
    OBVIOUS
  <2> USE DEF IInv, TypeOK, Open, Final
  <2>1. ASSUME NEW t \in Task, InsertRow(t) PROVE Stays
    BY <2>1 DEF InsertRow, Goto, IdleIsFresh
  <2>2. ASSUME NEW t \in Task, MarkRunning(t) \/ Persist(t) PROVE Stays
    BY <2>2 DEF MarkRunning, Persist, Goto, UpdateRow, UnfinishedIsOpen, Unfinished
  <2>3. ASSUME Restart PROVE Stays
    BY <2>3 DEF Restart, Orphans
  <2>4. ASSUME UNCHANGED vars PROVE FALSE
    BY <2>4 DEF vars
  <2>5. ASSUME NEW t \in Task,
               \/ InsertFails(t) \/ Register(t) \/ Launch(t) \/ Conclude(t)
               \/ Cleanup(t) \/ Announce(t) \/ Unregister(t)
               \/ Cancel(t) \/ ChildEnds(t)
        PROVE FALSE
    BY <2>5 DEF InsertFails, Register, Launch, Conclude, Cleanup, Announce,
       Unregister, Cancel, ChildEnds
  <2>6. ASSUME Crash PROVE FALSE
    BY <2>6 DEF Crash
  <2> QED
    BY <2>1, <2>2, <2>3, <2>4, <2>5, <2>6 DEF Next, Start, Worker
<1> QED
  BY <1>1, Invariance, PTL DEF Spec, FinalStatusStays

-----------------------------------------------------------------------------
(* AgentInstall: a device that had an Agent that worked has one. *)

\* The steps of a round, which are taken with the lock.
RoundStep == {"stop", "check", "stage", "promote", "start", "hello", "commit", "recover",
              "rollback"}
Invalidates(c) == step[c] = "invalidate"

\* One artifact for all callers; who is in a round has the lock.
RoundInv ==
  /\ \A c \in Caller : artifact[c] \in Artifact
  /\ \A c, d \in Caller : artifact[c] = artifact[d]
  /\ \A c \in Caller : step[c] \in RoundStep => lock = c

\* What the steps rely on.  A second round, which removes the binary, follows only an
\* artifact that names another version, and that is never accepted; in a round the
\* binary is the artifact from its start on, and not before it was promoted.
StepInv(c) ==
  LET a == artifact[c] IN
  /\ again[c] \/ Invalidates(c) => a \in Mislabelled
  /\ a \in Mislabelled => good \subseteq {Old}
  /\ step[c] \in {"stage", "promote"} => binary # a
  /\ step[c] \in {"start", "hello", "commit"} => binary = a \/ a \in Mislabelled
  /\ step[c] = "commit" => a \in good \ Mislabelled
  /\ rollback # a
  /\ {binary, rollback} \ {a, NoBinary} \subseteq good

\* The copy is another binary than the one in place.
CopyInv ==
  /\ NoBinary \notin good
  /\ rollback # NoBinary => binary # rollback

InstallInv ==
  InstallTypeOK /\ RoundInv /\ CopyInv /\ KnownGoodKept /\ \A c \in Caller : StepInv(c)

-----------------------------------------------------------------------------
(* Every step keeps the types. *)

LEMMA InstallNextType ==
  ASSUME InstallTypeOK, InstallNext
  PROVE  InstallTypeOK'
<1> USE InstallAssumption
<1>1. ASSUME NEW c \in Caller, Connect(c) PROVE InstallTypeOK'
  BY <1>1 DEF InstallTypeOK, Connect, Proceed, deviceVars, roundVars, Binary
<1>2. ASSUME NEW c \in Caller, BeginRound(c) PROVE InstallTypeOK'
  BY <1>2 DEF InstallTypeOK, BeginRound, Proceed, deviceVars, roundVars, Binary
<1>3. ASSUME NEW c \in Caller, Stop(c) PROVE InstallTypeOK'
  BY <1>3 DEF InstallTypeOK, Stop, Proceed, Abandon, Fine, Fails, deviceVars, roundVars, Binary
<1>4. ASSUME NEW c \in Caller, Check(c) PROVE InstallTypeOK'
  <2> DEFINE copy == rollback # NoBinary
  <2>1. copy \in BOOLEAN
    OBVIOUS
  <2>2. available' \in {available, [available EXCEPT ![c] = copy]}
    BY <1>4 DEF Check
  <2> HIDE DEF copy
  <2>3. available' \in [Caller -> BOOLEAN]
    BY <2>1, <2>2 DEF InstallTypeOK
  <2>4. changed' \in [Caller -> BOOLEAN]
    BY <1>4 DEF InstallTypeOK, Check
  <2>5. /\ binary' \in Binary /\ rollback' \in Binary /\ running' \in Binary
        /\ UNCHANGED <<line, artifact, retry, again, deaths, good, forsaken>>
    BY <1>4 DEF InstallTypeOK, Check, Proceed, Abandon, Fine, Fails, deviceVars, roundVars, Binary
  <2>6. lock' \in Caller \cup {NoBinary} /\ adbFailures' \in 0..MaxAdbFailures
    BY <1>4 DEF InstallTypeOK, Check, Proceed, Abandon, Fine, Fails, deviceVars, roundVars
  <2>7. step' = [step EXCEPT ![c] = step'[c]] /\ step'[c] \in {"idle", "stage", "start"}
    BY <1>4 DEF InstallTypeOK, Check, Proceed, Abandon, Fine, Fails, deviceVars, roundVars
  <2> QED
    BY <2>3, <2>4, <2>5, <2>6, <2>7 DEF InstallTypeOK
<1>5. ASSUME NEW c \in Caller, StageCandidate(c) PROVE InstallTypeOK'
  BY <1>5 DEF InstallTypeOK, StageCandidate, Proceed, Abandon, Fine, Fails, deviceVars,
     roundVars, Binary
<1>6. ASSUME NEW c \in Caller, Promote(c) PROVE InstallTypeOK'
  <2> DEFINE copy == binary # NoBinary
  <2>1. copy \in BOOLEAN
    OBVIOUS
  <2>2. available' \in {available, [available EXCEPT ![c] = copy]}
    BY <1>6 DEF Promote
  <2> HIDE DEF copy
  <2>3. available' \in [Caller -> BOOLEAN]
    BY <2>1, <2>2 DEF InstallTypeOK
  <2>4. changed' \in [Caller -> BOOLEAN]
    BY <1>6 DEF InstallTypeOK, Promote
  <2>5. /\ binary' \in Binary /\ rollback' \in Binary /\ running' \in Binary
        /\ UNCHANGED <<line, artifact, retry, again, deaths, good>>
    BY <1>6 DEF InstallTypeOK, Promote, Proceed, Abandon, Promoted, PromotedPartly, Fine, Fails,
       deviceVars,
       roundVars, Binary
  <2>6. lock' \in Caller \cup {NoBinary} /\ adbFailures' \in 0..MaxAdbFailures
    BY <1>6 DEF InstallTypeOK, Promote, Proceed, Abandon, Promoted, PromotedPartly, Fine, Fails,
       deviceVars,
       roundVars
  <2>7. step' = [step EXCEPT ![c] = step'[c]] /\ step'[c] \in {"idle", "start"}
    BY <1>6 DEF InstallTypeOK, Promote, Proceed, Abandon, Promoted, PromotedPartly, Fine, Fails,
       deviceVars,
       roundVars
  <2> DEFINE loses == binary = NoBinary /\ rollback' # rollback
  <2>8. forsaken' = (forsaken \/ loses)
    BY <1>6 DEF Promote
  <2> HIDE DEF loses
  <2>9. forsaken' \in BOOLEAN
    BY <2>8
  <2> QED
    BY <2>3, <2>4, <2>5, <2>6, <2>7, <2>9 DEF InstallTypeOK
<1>7. ASSUME NEW c \in Caller, StartBinary(c) PROVE InstallTypeOK'
  BY <1>7 DEF InstallTypeOK, StartBinary, Proceed, Fine, Fails, deviceVars, roundVars, Binary
<1>8. ASSUME NEW c \in Caller, Hello(c) PROVE InstallTypeOK'
  BY <1>8 DEF InstallTypeOK, Hello, Proceed, deviceVars, roundVars, Binary
<1>9. ASSUME NEW c \in Caller, HelloFails(c) PROVE InstallTypeOK'
  BY <1>9 DEF InstallTypeOK, HelloFails, Proceed, HelloMismatch, HelloUnanswered, Fine, Fails,
     deviceVars, roundVars, Binary
<1>10. ASSUME NEW c \in Caller, CommitCandidate(c) PROVE InstallTypeOK'
  BY <1>10 DEF InstallTypeOK, CommitCandidate, Proceed, Accept, Fine, Fails, deviceVars,
     roundVars, Binary
<1>11. ASSUME NEW c \in Caller, RecoverStop(c) PROVE InstallTypeOK'
  BY <1>11 DEF InstallTypeOK, RecoverStop, Proceed, Fine, Fails, deviceVars, roundVars, Binary
<1>12. ASSUME NEW c \in Caller, RollBack(c) PROVE InstallTypeOK'
  BY <1>12 DEF InstallTypeOK, RollBack, EndRound, PutBack, PutBackFails, Fine, Fails, deviceVars,
     roundVars,
     Binary
<1>13. ASSUME NEW c \in Caller, Invalidate(c) PROVE InstallTypeOK'
  <2>1. /\ binary' \in Binary /\ good' \in SUBSET Binary /\ adbFailures' \in 0..MaxAdbFailures
        /\ retry' \in [Caller -> BOOLEAN]
        /\ UNCHANGED <<rollback, running, lock, artifact, changed, available, again, deaths,
                       forsaken>>
    BY <1>13 DEF InstallTypeOK, Invalidate, Proceed, Fine, Fails, Binary
  <2>2. step' = [step EXCEPT ![c] = step'[c]] /\ step'[c] \in {"idle", "wait"}
    BY <1>13 DEF InstallTypeOK, Invalidate, Proceed
  <2>3. line' \in {line, Append(line, c)}
    BY <1>13 DEF Invalidate
  <2>4. line' \in Seq(Caller)
    BY <2>3 DEF InstallTypeOK
  <2> QED
    BY <2>1, <2>2, <2>4 DEF InstallTypeOK
<1>14. CASE DesktopDies
  BY <1>14 DEF InstallTypeOK, DesktopDies, deviceVars, roundVars
<1> QED
  BY <1>1, <1>2, <1>3, <1>4, <1>5, <1>6, <1>7, <1>8, <1>9, <1>10, <1>11, <1>12, <1>13, <1>14
     DEF InstallNext, Round

-----------------------------------------------------------------------------
(* Every step keeps the rest. *)

LEMMA InstallNextRound ==
  ASSUME InstallInv, InstallNext
  PROVE  RoundInv'
<1> USE InstallAssumption
<1>1. UNCHANGED artifact
  BY DEF InstallNext, Round, Connect, BeginRound, Stop, Check, StageCandidate, Promote,
     StartBinary, Hello, HelloFails, CommitCandidate, RecoverStop, RollBack, Invalidate,
     DesktopDies, roundVars
<1>2. ASSUME NEW c \in Caller, Connect(c) \/ Round(c), NEW d \in Caller, step'[d] \in RoundStep
      PROVE  lock' = d
  <2>1. CASE Connect(c)
    BY <1>2, <2>1 DEF InstallInv, InstallTypeOK, RoundInv, RoundStep, Connect, Proceed
  <2>2. CASE BeginRound(c)
    BY <1>2, <2>2 DEF InstallInv, InstallTypeOK, RoundInv, RoundStep, BeginRound, Proceed
  <2>3. CASE Stop(c)
    BY <1>2, <2>3 DEF InstallInv, InstallTypeOK, RoundInv, RoundStep, Stop, Proceed, Abandon,
       Fine, Fails
  <2>4. CASE Check(c)
    BY <1>2, <2>4 DEF InstallInv, InstallTypeOK, RoundInv, RoundStep, Check, Proceed, Abandon,
       Fine, Fails
  <2>5. CASE StageCandidate(c)
    BY <1>2, <2>5 DEF InstallInv, InstallTypeOK, RoundInv, RoundStep, StageCandidate, Proceed,
       Abandon, Fine, Fails
  <2>6. CASE Promote(c)
    BY <1>2, <2>6 DEF InstallInv, InstallTypeOK, RoundInv, RoundStep, Promote, Proceed, Abandon,
       Promoted, PromotedPartly, Fine, Fails
  <2>7. CASE StartBinary(c)
    BY <1>2, <2>7 DEF InstallInv, InstallTypeOK, RoundInv, RoundStep, StartBinary, Proceed,
       Fine, Fails
  <2>8. CASE Hello(c)
    BY <1>2, <2>8 DEF InstallInv, InstallTypeOK, RoundInv, RoundStep, Hello, Proceed
  <2>9. CASE HelloFails(c)
    BY <1>2, <2>9 DEF InstallInv, InstallTypeOK, RoundInv, RoundStep, HelloFails, Proceed,
       HelloMismatch, HelloUnanswered, Fine, Fails
  <2>10. CASE CommitCandidate(c)
    BY <1>2, <2>10 DEF InstallInv, InstallTypeOK, RoundInv, RoundStep, CommitCandidate, Proceed,
       Accept, Fine, Fails
  <2>11. CASE RecoverStop(c)
    BY <1>2, <2>11 DEF InstallInv, InstallTypeOK, RoundInv, RoundStep, RecoverStop, Proceed,
       Fine, Fails
  <2>12. CASE RollBack(c)
    BY <1>2, <2>12 DEF InstallInv, InstallTypeOK, RoundInv, RoundStep, RollBack, EndRound,
       PutBack, PutBackFails, Fine, Fails
  <2>13. CASE Invalidate(c)
    BY <1>2, <2>13 DEF InstallInv, InstallTypeOK, RoundInv, RoundStep, Invalidate, Proceed,
       Fine, Fails
  <2> QED
    BY <1>2, <2>1, <2>2, <2>3, <2>4, <2>5, <2>6, <2>7, <2>8, <2>9, <2>10, <2>11, <2>12,
       <2>13 DEF Round
<1>3. ASSUME DesktopDies, NEW d \in Caller PROVE step'[d] \notin RoundStep
  BY <1>3 DEF DesktopDies, RoundStep
<1> QED
  BY <1>1, <1>2, <1>3 DEF InstallInv, RoundInv, InstallNext

\* A caller that is not in a round, beside one that is.
LEMMA InstallOthers ==
  ASSUME InstallInv, NEW c \in Caller, NEW d \in Caller, c # d,
         step[c] \in RoundStep \/ lock = NoBinary
  PROVE  step[d] \notin RoundStep
BY InstallAssumption DEF InstallInv, RoundInv, InstallTypeOK

LEMMA InstallNextKeeps ==
  ASSUME InstallInv, InstallNext
  PROVE  CopyInv' /\ KnownGoodKept' /\ \A d \in Caller : StepInv(d)'
<1> USE InstallAssumption
<1>1. ASSUME NEW c \in Caller, Connect(c)
     PROVE  CopyInv' /\ KnownGoodKept' /\ \A d \in Caller : StepInv(d)'
  <2>1. CopyInv' /\ KnownGoodKept'
    BY <1>1 DEF InstallInv, InstallTypeOK, RoundInv, CopyInv, KnownGoodKept, StepInv, Connect,
       Proceed,
       deviceVars, roundVars, Binary
  <2>2. StepInv(c)'
    BY <1>1 DEF InstallInv, InstallTypeOK, RoundInv, CopyInv, StepInv, Invalidates, Connect,
       Proceed,
       deviceVars, roundVars, Binary
  <2>3. ASSUME NEW d \in Caller, d # c PROVE StepInv(d)'
    BY <1>1, <2>2, <2>3, InstallOthers DEF InstallInv, InstallTypeOK, RoundInv, RoundStep,
       StepInv,
       Invalidates, Connect, Proceed, deviceVars, roundVars
  <2> QED
    BY <2>1, <2>2, <2>3
<1>2. ASSUME NEW c \in Caller, BeginRound(c)
     PROVE  CopyInv' /\ KnownGoodKept' /\ \A d \in Caller : StepInv(d)'
  <2>1. CopyInv' /\ KnownGoodKept'
    BY <1>2 DEF InstallInv, InstallTypeOK, RoundInv, CopyInv, KnownGoodKept, StepInv,
       BeginRound, Proceed,
       deviceVars, roundVars, Binary
  <2>2. StepInv(c)'
    BY <1>2 DEF InstallInv, InstallTypeOK, RoundInv, CopyInv, StepInv, Invalidates, BeginRound,
       Proceed,
       deviceVars, roundVars, Binary
  <2>3. ASSUME NEW d \in Caller, d # c PROVE StepInv(d)'
    BY <1>2, <2>2, <2>3, InstallOthers DEF InstallInv, InstallTypeOK, RoundInv, RoundStep,
       StepInv,
       Invalidates, BeginRound, Proceed, deviceVars, roundVars
  <2> QED
    BY <2>1, <2>2, <2>3
<1>3. ASSUME NEW c \in Caller, Stop(c)
     PROVE  CopyInv' /\ KnownGoodKept' /\ \A d \in Caller : StepInv(d)'
  <2>1. CopyInv' /\ KnownGoodKept'
    BY <1>3 DEF InstallInv, InstallTypeOK, RoundInv, CopyInv, KnownGoodKept, StepInv, Stop,
       Proceed, Abandon, Fine, Fails,
       deviceVars, roundVars, Binary
  <2>2. StepInv(c)'
    BY <1>3 DEF InstallInv, InstallTypeOK, RoundInv, CopyInv, StepInv, Invalidates, Stop,
       Proceed, Abandon, Fine, Fails,
       deviceVars, roundVars, Binary
  <2>3. ASSUME NEW d \in Caller, d # c PROVE StepInv(d)'
    BY <1>3, <2>2, <2>3, InstallOthers DEF InstallInv, InstallTypeOK, RoundInv, RoundStep,
       StepInv,
       Invalidates, Stop, Proceed, Abandon, Fine, Fails, deviceVars, roundVars
  <2> QED
    BY <2>1, <2>2, <2>3
<1>4. ASSUME NEW c \in Caller, Check(c)
     PROVE  CopyInv' /\ KnownGoodKept' /\ \A d \in Caller : StepInv(d)'
  <2>1. CopyInv' /\ KnownGoodKept'
    BY <1>4 DEF InstallInv, InstallTypeOK, RoundInv, CopyInv, KnownGoodKept, StepInv, Check,
       Proceed, Abandon, Fine, Fails,
       deviceVars, roundVars, Binary
  <2>2. StepInv(c)'
    BY <1>4 DEF InstallInv, InstallTypeOK, RoundInv, CopyInv, StepInv, Invalidates, Check,
       Proceed, Abandon, Fine, Fails,
       deviceVars, roundVars, Binary
  <2>3. ASSUME NEW d \in Caller, d # c PROVE StepInv(d)'
    BY <1>4, <2>2, <2>3, InstallOthers DEF InstallInv, InstallTypeOK, RoundInv, RoundStep,
       StepInv,
       Invalidates, Check, Proceed, Abandon, Fine, Fails, deviceVars, roundVars
  <2> QED
    BY <2>1, <2>2, <2>3
<1>5. ASSUME NEW c \in Caller, StageCandidate(c)
     PROVE  CopyInv' /\ KnownGoodKept' /\ \A d \in Caller : StepInv(d)'
  <2>1. CopyInv' /\ KnownGoodKept'
    BY <1>5 DEF InstallInv, InstallTypeOK, RoundInv, CopyInv, KnownGoodKept, StepInv,
       StageCandidate, Proceed, Abandon, Fine, Fails,
       deviceVars, roundVars, Binary
  <2>2. StepInv(c)'
    BY <1>5 DEF InstallInv, InstallTypeOK, RoundInv, CopyInv, StepInv, Invalidates,
       StageCandidate, Proceed, Abandon, Fine, Fails,
       deviceVars, roundVars, Binary
  <2>3. ASSUME NEW d \in Caller, d # c PROVE StepInv(d)'
    BY <1>5, <2>2, <2>3, InstallOthers DEF InstallInv, InstallTypeOK, RoundInv, RoundStep,
       StepInv,
       Invalidates, StageCandidate, Proceed, Abandon, Fine, Fails, deviceVars, roundVars
  <2> QED
    BY <2>1, <2>2, <2>3
<1>6. ASSUME NEW c \in Caller, Promote(c)
     PROVE  CopyInv' /\ KnownGoodKept' /\ \A d \in Caller : StepInv(d)'
  <2> DEFINE loses == binary = NoBinary /\ rollback' # rollback
  <2>4. forsaken' = (forsaken \/ loses) /\ good' = good
    BY <1>6 DEF Promote
  <2>5. ~forsaken' => ~forsaken /\ (binary # NoBinary \/ rollback' = rollback)
    BY <2>4
  <2>6. \/ rollback' = binary /\ binary' \in {artifact[c], NoBinary}
        \/ rollback' \in {rollback, NoBinary} /\ binary' = binary
    BY <1>6 DEF Promote, Promoted, PromotedPartly
  <2>7. /\ binary # artifact[c] /\ artifact[c] # NoBinary
        /\ binary \in good \cup {NoBinary}
    BY <1>6 DEF InstallInv, InstallTypeOK, RoundInv, StepInv, Promote, Proceed
  <2>8. CopyInv'
    BY <2>4, <2>6, <2>7 DEF InstallInv, CopyInv
  <2>9. KnownGoodKept'
    <3>1. CASE binary # NoBinary
      BY <2>4, <2>6, <2>7, <3>1 DEF KnownGoodKept
    <3>2. CASE binary = NoBinary /\ rollback' = rollback
      BY <2>4, <2>5, <2>6, <3>2 DEF InstallInv, CopyInv, KnownGoodKept
    <3> QED
      BY <2>5, <3>1, <3>2 DEF KnownGoodKept
  <2>1. CopyInv' /\ KnownGoodKept'
    BY <2>8, <2>9
  <2> HIDE DEF loses
  <2>10. UNCHANGED <<artifact, again>> /\ step'[c] \in {"start", "idle"}
         /\ step' = [step EXCEPT ![c] = step'[c]]
         /\ (step'[c] = "start" => binary' = artifact[c])
    BY <1>6 DEF InstallInv, InstallTypeOK, Promote, Proceed, Promoted, Abandon
  <2>2. StepInv(c)'
    BY <1>6, <2>4, <2>6, <2>7, <2>10 DEF InstallInv, InstallTypeOK, RoundInv, CopyInv, StepInv,
       Invalidates, Promote, Proceed
  <2>3. ASSUME NEW d \in Caller, d # c PROVE StepInv(d)'
    <3>1. step[d] \notin RoundStep /\ step'[d] = step[d]
      BY <1>6, <2>3, <2>10, InstallOthers DEF RoundStep, Promote, Proceed, InstallInv,
         InstallTypeOK
    <3>2. artifact[d] = artifact[c]
      BY DEF InstallInv, RoundInv
    <3> QED
      BY <2>3, <2>2, <2>10, <3>1, <3>2 DEF StepInv, InstallInv, Invalidates, RoundStep
  <2> QED
    BY <2>1, <2>2, <2>3
<1>7. ASSUME NEW c \in Caller, StartBinary(c)
     PROVE  CopyInv' /\ KnownGoodKept' /\ \A d \in Caller : StepInv(d)'
  <2>1. CopyInv' /\ KnownGoodKept'
    BY <1>7 DEF InstallInv, InstallTypeOK, RoundInv, CopyInv, KnownGoodKept, StepInv,
       StartBinary, Proceed, Fine, Fails,
       deviceVars, roundVars, Binary
  <2>2. StepInv(c)'
    BY <1>7 DEF InstallInv, InstallTypeOK, RoundInv, CopyInv, StepInv, Invalidates, StartBinary,
       Proceed, Fine, Fails,
       deviceVars, roundVars, Binary
  <2>3. ASSUME NEW d \in Caller, d # c PROVE StepInv(d)'
    BY <1>7, <2>2, <2>3, InstallOthers DEF InstallInv, InstallTypeOK, RoundInv, RoundStep,
       StepInv,
       Invalidates, StartBinary, Proceed, Fine, Fails, deviceVars, roundVars
  <2> QED
    BY <2>1, <2>2, <2>3
<1>8. ASSUME NEW c \in Caller, Hello(c)
     PROVE  CopyInv' /\ KnownGoodKept' /\ \A d \in Caller : StepInv(d)'
  <2>1. CopyInv' /\ KnownGoodKept'
    BY <1>8 DEF InstallInv, InstallTypeOK, RoundInv, CopyInv, KnownGoodKept, StepInv, Hello,
       Proceed,
       deviceVars, roundVars, Binary
  <2>2. StepInv(c)'
    BY <1>8 DEF InstallInv, InstallTypeOK, RoundInv, CopyInv, StepInv, Invalidates, Hello,
       Proceed,
       deviceVars, roundVars, Binary
  <2>3. ASSUME NEW d \in Caller, d # c PROVE StepInv(d)'
    BY <1>8, <2>2, <2>3, InstallOthers DEF InstallInv, InstallTypeOK, RoundInv, RoundStep,
       StepInv,
       Invalidates, Hello, Proceed, deviceVars, roundVars
  <2> QED
    BY <2>1, <2>2, <2>3
<1>9. ASSUME NEW c \in Caller, HelloFails(c)
     PROVE  CopyInv' /\ KnownGoodKept' /\ \A d \in Caller : StepInv(d)'
  <2>1. CopyInv' /\ KnownGoodKept'
    BY <1>9 DEF InstallInv, InstallTypeOK, RoundInv, CopyInv, KnownGoodKept, StepInv,
       HelloFails, Proceed, HelloMismatch, HelloUnanswered, Fine, Fails,
       deviceVars, roundVars, Binary
  <2>2. StepInv(c)'
    BY <1>9 DEF InstallInv, InstallTypeOK, RoundInv, CopyInv, StepInv, Invalidates, HelloFails,
       Proceed, HelloMismatch, HelloUnanswered, Fine, Fails,
       deviceVars, roundVars, Binary
  <2>3. ASSUME NEW d \in Caller, d # c PROVE StepInv(d)'
    BY <1>9, <2>2, <2>3, InstallOthers DEF InstallInv, InstallTypeOK, RoundInv, RoundStep,
       StepInv,
       Invalidates, HelloFails, Proceed, HelloMismatch, HelloUnanswered, Fine, Fails, deviceVars,
       roundVars
  <2> QED
    BY <2>1, <2>2, <2>3
<1>10. ASSUME NEW c \in Caller, CommitCandidate(c)
     PROVE  CopyInv' /\ KnownGoodKept' /\ \A d \in Caller : StepInv(d)'
  <2>1. CopyInv' /\ KnownGoodKept'
    BY <1>10 DEF InstallInv, InstallTypeOK, RoundInv, CopyInv, KnownGoodKept, StepInv,
       CommitCandidate, Proceed, Accept, Fine, Fails,
       deviceVars, roundVars, Binary
  <2>2. StepInv(c)'
    BY <1>10 DEF InstallInv, InstallTypeOK, RoundInv, CopyInv, StepInv, Invalidates,
       CommitCandidate, Proceed, Accept, Fine, Fails,
       deviceVars, roundVars, Binary
  <2>3. ASSUME NEW d \in Caller, d # c PROVE StepInv(d)'
    BY <1>10, <2>2, <2>3, InstallOthers DEF InstallInv, InstallTypeOK, RoundInv, RoundStep,
       StepInv,
       Invalidates, CommitCandidate, Proceed, Accept, Fine, Fails, deviceVars, roundVars
  <2> QED
    BY <2>1, <2>2, <2>3
<1>11. ASSUME NEW c \in Caller, RecoverStop(c)
     PROVE  CopyInv' /\ KnownGoodKept' /\ \A d \in Caller : StepInv(d)'
  <2>1. CopyInv' /\ KnownGoodKept'
    BY <1>11 DEF InstallInv, InstallTypeOK, RoundInv, CopyInv, KnownGoodKept, StepInv,
       RecoverStop, Proceed, Fine, Fails,
       deviceVars, roundVars, Binary
  <2>2. StepInv(c)'
    BY <1>11 DEF InstallInv, InstallTypeOK, RoundInv, CopyInv, StepInv, Invalidates,
       RecoverStop, Proceed, Fine, Fails,
       deviceVars, roundVars, Binary
  <2>3. ASSUME NEW d \in Caller, d # c PROVE StepInv(d)'
    BY <1>11, <2>2, <2>3, InstallOthers DEF InstallInv, InstallTypeOK, RoundInv, RoundStep,
       StepInv,
       Invalidates, RecoverStop, Proceed, Fine, Fails, deviceVars, roundVars
  <2> QED
    BY <2>1, <2>2, <2>3
<1>12. ASSUME NEW c \in Caller, RollBack(c)
     PROVE  CopyInv' /\ KnownGoodKept' /\ \A d \in Caller : StepInv(d)'
  <2>1. CopyInv' /\ KnownGoodKept'
    BY <1>12 DEF InstallInv, InstallTypeOK, RoundInv, CopyInv, KnownGoodKept, StepInv, RollBack,
       EndRound, PutBack, PutBackFails, Fine, Fails,
       deviceVars, roundVars, Binary
  <2>2. StepInv(c)'
    BY <1>12 DEF InstallInv, InstallTypeOK, RoundInv, CopyInv, StepInv, Invalidates, RollBack,
       EndRound, PutBack, PutBackFails, Fine, Fails,
       deviceVars, roundVars, Binary
  <2>3. ASSUME NEW d \in Caller, d # c PROVE StepInv(d)'
    BY <1>12, <2>2, <2>3, InstallOthers DEF InstallInv, InstallTypeOK, RoundInv, RoundStep,
       StepInv,
       Invalidates, RollBack, EndRound, PutBack, PutBackFails, Fine, Fails, deviceVars, roundVars
  <2> QED
    BY <2>1, <2>2, <2>3
<1>13. ASSUME NEW c \in Caller, Invalidate(c)
     PROVE  CopyInv' /\ KnownGoodKept' /\ \A d \in Caller : StepInv(d)'
  <2>4. UNCHANGED <<forsaken, rollback, artifact>> /\ binary' \in {binary, NoBinary}
        /\ good' = good \ ({binary} \ {binary'})
    BY <1>13 DEF Invalidate
  <2>5. CopyInv'
    BY <2>4 DEF InstallInv, CopyInv
  <2>6. artifact[c] \in Mislabelled /\ good \subseteq {Old}
        /\ {rollback} \ {NoBinary} \subseteq good
    BY <1>13 DEF InstallInv, StepInv, Invalidates, Invalidate, Proceed
  <2>7. KnownGoodKept'
    BY <2>4, <2>6 DEF InstallInv, CopyInv, KnownGoodKept
  <2>1. CopyInv' /\ KnownGoodKept'
    BY <2>5, <2>7
  <2>2. StepInv(c)'
    BY <1>13 DEF InstallInv, InstallTypeOK, RoundInv, CopyInv, StepInv, Invalidates, Invalidate,
       Proceed, Fine, Fails,
       deviceVars, roundVars, Binary
  <2>3. ASSUME NEW d \in Caller, d # c PROVE StepInv(d)'
    BY <1>13, <2>2, <2>3, InstallOthers DEF InstallInv, InstallTypeOK, RoundInv, RoundStep,
       StepInv,
       Invalidates, Invalidate, Proceed, Fine, Fails, deviceVars, roundVars
  <2> QED
    BY <2>1, <2>2, <2>3
<1>14. ASSUME DesktopDies
      PROVE  CopyInv' /\ KnownGoodKept' /\ \A d \in Caller : StepInv(d)'
  BY <1>14 DEF InstallInv, InstallTypeOK, CopyInv, KnownGoodKept, StepInv, Invalidates,
     DesktopDies,
     deviceVars, roundVars
<1> QED
  BY <1>1, <1>2, <1>3, <1>4, <1>5, <1>6, <1>7, <1>8, <1>9, <1>10, <1>11, <1>12, <1>13, <1>14
     DEF InstallNext, Round

LEMMA InstallInvariance == InstallSpec => []InstallInv
<1>1. ASSUME InstallInit PROVE InstallInv
  <2>1. PICK a \in Artifact : artifact = [c \in Caller |-> a]
    BY <1>1 DEF InstallInit
  <2>2. /\ binary \in {Old, NoBinary} /\ rollback = NoBinary /\ good = {binary} \ {NoBinary}
        /\ NoBinary \notin Artifact
    BY <1>1, InstallAssumption DEF InstallInit
  <2>3. \A c \in Caller : artifact[c] = a /\ step[c] = "idle" /\ again[c] = FALSE
    BY <1>1, <2>1 DEF InstallInit
  <2>8. /\ binary \in Binary /\ rollback \in Binary /\ running \in Binary
        /\ good \in SUBSET Binary /\ line \in Seq(Caller) /\ artifact \in [Caller -> Binary]
    BY <1>1, <2>1, <2>2 DEF InstallInit, Binary
  <2>9. 0 \in 0..MaxAdbFailures /\ 0 \in 0..MaxDeaths
    BY InstallAssumption
  <2>4. InstallTypeOK
    BY <1>1, <2>8, <2>9 DEF InstallInit, InstallTypeOK
  <2>5. RoundInv
    BY <2>1, <2>3 DEF RoundInv, RoundStep
  <2>6. CopyInv /\ KnownGoodKept
    BY <2>2 DEF CopyInv, KnownGoodKept
  <2>7. ASSUME NEW c \in Caller PROVE StepInv(c)
    BY <2>2, <2>3 DEF StepInv, Invalidates
  <2> QED
    BY <2>4, <2>5, <2>6, <2>7 DEF InstallInv
<1>2. InstallInv /\ [InstallNext]_installVars => InstallInv'
  <2>1. CASE UNCHANGED installVars
    BY <2>1 DEF installVars, deviceVars, roundVars, InstallInv, InstallTypeOK, RoundInv, CopyInv,
       KnownGoodKept, StepInv, Invalidates
  <2> QED
    BY <2>1, InstallNextType, InstallNextRound, InstallNextKeeps DEF InstallInv
<1> QED
  BY <1>1, <1>2, PTL DEF InstallSpec

\* The lock of connect_artifact serves one round at a time, also with second rounds.
OneRound ==
  \A c, d \in Caller : step[c] \in RoundStep /\ step[d] \in RoundStep => c = d

\* No two callers are in connect_artifact_inner at once, wherever an adb command fails
\* and whoever repeats his round.
THEOREM RoundsNeverOverlap == InstallSpec => []OneRound
<1>1. InstallInv => OneRound
  BY DEF InstallInv, RoundInv, OneRound
<1> QED
  BY <1>1, InstallInvariance, PTL

\* A binary that was accepted stays on the device, under its own name or as the copy,
\* whichever adb command fails, before its effect, after it or between two commands of
\* its script, and whenever the desktop dies, until invalidate_remote_artifact takes it,
\* or a promote begins that finds the copy alone and removes it (install_artifact,
\* commit_install, rollback_install, recover_failed_start).
THEOREM AKnownGoodIsAlwaysKept == InstallSpec => []KnownGoodKept
<1>1. InstallInv => KnownGoodKept
  BY DEF InstallInv
<1> QED
  BY <1>1, InstallInvariance, PTL

-----------------------------------------------------------------------------
(* AppExport: what is saved stays. *)

\* Who is in the directory and who writes has chosen that name.
EntryInv ==
  \A e \in Export :
    /\ \A n \in FileName : entry[n] = e => chosen[e] = n /\ doing[e] \in {"fill", "check", "over"}
    /\ \A f \in Export : writesTo[f] = e =>
         chosen[f] = chosen[e] /\ doing[f] = "fill" /\ doing[e] \in {"fill", "check", "over"}

\* Nobody looked for a name while this export was at its own.
Apart(e) ==
  e \notin collided /\ (doing[e] \in {"place", "fill", "check"} \/ returned[e] = "saved")

\* Then nobody else is at that name, and the file is its own.
ApartInv(e) ==
  /\ \A f \in Export \ {e} : chosen[f] = chosen[e] => doing[f] = "over"
  /\ doing[e] = "place" => entry[chosen[e]] = NoFile
  /\ doing[e] # "place" => entry[chosen[e]] = e
  /\ doing[e] = "fill" => writesTo[e] = e /\ holds[e] = {}
  /\ doing[e] \in {"check", "over"} => holds[e] = {e}

ChoiceInv(e) ==
  /\ doing[e] \in {"idle", "prepare", "pull", "clean", "choose"} => chosen[e] = 0
  /\ doing[e] \in {"place", "fill", "check"} \/ returned[e] = "saved" => chosen[e] # 0
  /\ returned[e] = "saved" => doing[e] = "over"

ExportInv ==
  ExportTypeOK /\ EntryInv /\ \A e \in Export : ChoiceInv(e) /\ (Apart(e) => ApartInv(e))

LEMMA ExportNextType ==
  ASSUME ExportInv, ExportNext
  PROVE  ExportTypeOK'
<1> USE ExportAssumption DEF ExportInv
<1>1. ASSUME NEW e \in Export, RequestStaging(e) PROVE ExportTypeOK'
  BY <1>1 DEF ExportTypeOK, RequestStaging, Onward, Ends, Directory, FileName
<1>2. ASSUME NEW e \in Export, Prepare(e) PROVE ExportTypeOK'
  BY <1>2 DEF ExportTypeOK, Prepare, Onward, Ends, Directory, FileName
<1>3. ASSUME NEW e \in Export, Pull(e) PROVE ExportTypeOK'
  BY <1>3 DEF ExportTypeOK, Pull, Onward, Ends, Directory, FileName
<1>4. ASSUME NEW e \in Export, CleanStaging(e) PROVE ExportTypeOK'
  BY <1>4 DEF ExportTypeOK, CleanStaging, Onward, Ends, Directory, FileName
<1>5. ASSUME NEW e \in Export, Reserve(e) PROVE ExportTypeOK'
  BY <1>5 DEF ExportTypeOK, Reserve, Takes, Onward, Ends, FileName, AtIt
<1>6. ASSUME NEW e \in Export, MoveFile(e) PROVE ExportTypeOK'
  BY <1>6 DEF ExportTypeOK, MoveFile, Onward, FileName
<1>7. ASSUME NEW e \in Export, CreateFile(e) PROVE ExportTypeOK'
  <2> DEFINE i == IF entry[chosen[e]] = NoFile THEN e ELSE entry[chosen[e]]
  <2>1. i \in Export
    BY <1>7 DEF ExportTypeOK, ChoiceInv, CreateFile
  <2> QED
    BY <1>7, <2>1 DEF ExportTypeOK, CreateFile, Onward, FileName
<1>8. ASSUME NEW e \in Export, Fill(e) PROVE ExportTypeOK'
  BY <1>8 DEF ExportTypeOK, Fill, Onward, FileName
<1>9. ASSUME NEW e \in Export, AssemblyFails(e) PROVE ExportTypeOK'
  BY <1>9 DEF ExportTypeOK, AssemblyFails, FailAssembly, Ends, FileName
<1>10. ASSUME NEW e \in Export, Saves(e) PROVE ExportTypeOK'
  BY <1>10 DEF ExportTypeOK, Saves, Onward, Ends, Directory, FileName
<1>11. ASSUME NEW e \in Export, CheckFails(e) PROVE ExportTypeOK'
  BY <1>11 DEF ExportTypeOK, CheckFails, FailAssembly, Ends, FileName
<1> QED
  BY <1>1, <1>2, <1>3, <1>4, <1>5, <1>6, <1>7, <1>8, <1>9, <1>10, <1>11 DEF ExportNext

LEMMA ExportNextEntry ==
  ASSUME ExportInv, ExportNext
  PROVE  EntryInv'
<1> USE ExportAssumption
<1>1. ASSUME NEW e \in Export, RequestStaging(e) PROVE EntryInv'
  BY <1>1 DEF ExportInv, ExportTypeOK, EntryInv, ChoiceInv, RequestStaging, Onward, Ends,
     Directory, FileName
<1>2. ASSUME NEW e \in Export, Prepare(e) PROVE EntryInv'
  BY <1>2 DEF ExportInv, ExportTypeOK, EntryInv, ChoiceInv, Prepare, Onward, Ends, Directory,
     FileName
<1>3. ASSUME NEW e \in Export, Pull(e) PROVE EntryInv'
  BY <1>3 DEF ExportInv, ExportTypeOK, EntryInv, ChoiceInv, Pull, Onward, Ends, Directory,
     FileName
<1>4. ASSUME NEW e \in Export, CleanStaging(e) PROVE EntryInv'
  BY <1>4 DEF ExportInv, ExportTypeOK, EntryInv, ChoiceInv, CleanStaging, Onward, Ends,
     Directory, FileName
<1>5. ASSUME NEW e \in Export, Reserve(e) PROVE EntryInv'
  BY <1>5 DEF ExportInv, ExportTypeOK, EntryInv, ChoiceInv, Reserve, Takes, Onward, Ends, FileName
<1>6. ASSUME NEW e \in Export, MoveFile(e) PROVE EntryInv'
  BY <1>6 DEF ExportInv, ExportTypeOK, EntryInv, ChoiceInv, MoveFile, Onward, FileName
<1>7. ASSUME NEW e \in Export, CreateFile(e) PROVE EntryInv'
  BY <1>7 DEF ExportInv, ExportTypeOK, EntryInv, ChoiceInv, CreateFile, Onward, FileName
<1>8. ASSUME NEW e \in Export, Fill(e) PROVE EntryInv'
  BY <1>8 DEF ExportInv, ExportTypeOK, EntryInv, ChoiceInv, Fill, Onward, FileName
<1>9. ASSUME NEW e \in Export, AssemblyFails(e) PROVE EntryInv'
  BY <1>9 DEF ExportInv, ExportTypeOK, EntryInv, ChoiceInv, AssemblyFails, FailAssembly, Ends,
     FileName
<1>10. ASSUME NEW e \in Export, Saves(e) PROVE EntryInv'
  BY <1>10 DEF ExportInv, ExportTypeOK, EntryInv, ChoiceInv, Saves, Onward, Ends, Directory,
     FileName
<1>11. ASSUME NEW e \in Export, CheckFails(e) PROVE EntryInv'
  BY <1>11 DEF ExportInv, ExportTypeOK, EntryInv, ChoiceInv, CheckFails, FailAssembly, Ends,
     FileName
<1> QED
  BY <1>1, <1>2, <1>3, <1>4, <1>5, <1>6, <1>7, <1>8, <1>9, <1>10, <1>11 DEF ExportNext

LEMMA ExportNextKeeps ==
  ASSUME ExportInv, ExportNext, NEW d \in Export
  PROVE  ChoiceInv(d)' /\ (Apart(d)' => ApartInv(d)')
<1> USE ExportAssumption
<1>1. ASSUME NEW e \in Export, RequestStaging(e)
     PROVE  ChoiceInv(d)' /\ (Apart(d)' => ApartInv(d)')
  <2>1. ChoiceInv(d)'
    BY <1>1 DEF ExportInv, ExportTypeOK, ChoiceInv, RequestStaging, Onward, Ends, Directory,
       FileName
  <2>2. ASSUME Apart(d)' PROVE ApartInv(d)'
    BY <1>1, <2>2 DEF ExportInv, ExportTypeOK, EntryInv, ChoiceInv, Apart, ApartInv,
       RequestStaging,
       Onward, Ends, Directory, FileName
  <2> QED
    BY <2>1, <2>2
<1>2. ASSUME NEW e \in Export, Prepare(e)
     PROVE  ChoiceInv(d)' /\ (Apart(d)' => ApartInv(d)')
  <2>1. ChoiceInv(d)'
    BY <1>2 DEF ExportInv, ExportTypeOK, ChoiceInv, Prepare, Onward, Ends, Directory, FileName
  <2>2. ASSUME Apart(d)' PROVE ApartInv(d)'
    BY <1>2, <2>2 DEF ExportInv, ExportTypeOK, EntryInv, ChoiceInv, Apart, ApartInv, Prepare,
       Onward, Ends, Directory, FileName
  <2> QED
    BY <2>1, <2>2
<1>3. ASSUME NEW e \in Export, Pull(e)
     PROVE  ChoiceInv(d)' /\ (Apart(d)' => ApartInv(d)')
  <2>1. ChoiceInv(d)'
    BY <1>3 DEF ExportInv, ExportTypeOK, ChoiceInv, Pull, Onward, Ends, Directory, FileName
  <2>2. ASSUME Apart(d)' PROVE ApartInv(d)'
    BY <1>3, <2>2 DEF ExportInv, ExportTypeOK, EntryInv, ChoiceInv, Apart, ApartInv, Pull,
       Onward, Ends, Directory, FileName
  <2> QED
    BY <2>1, <2>2
<1>4. ASSUME NEW e \in Export, CleanStaging(e)
     PROVE  ChoiceInv(d)' /\ (Apart(d)' => ApartInv(d)')
  <2>1. ChoiceInv(d)'
    BY <1>4 DEF ExportInv, ExportTypeOK, ChoiceInv, CleanStaging, Onward, Ends, Directory,
       FileName
  <2>2. ASSUME Apart(d)' PROVE ApartInv(d)'
    BY <1>4, <2>2 DEF ExportInv, ExportTypeOK, EntryInv, ChoiceInv, Apart, ApartInv, CleanStaging,
       Onward, Ends, Directory, FileName
  <2> QED
    BY <2>1, <2>2
<1>5. ASSUME NEW e \in Export, Reserve(e)
     PROVE  ChoiceInv(d)' /\ (Apart(d)' => ApartInv(d)')
  <2>1. ChoiceInv(d)'
    BY <1>5 DEF ExportInv, ExportTypeOK, ChoiceInv, Reserve, Takes, Onward, Ends, FileName
  <2>2. ASSUME Apart(d)' PROVE ApartInv(d)'
    BY <1>5, <2>2 DEF ExportInv, ExportTypeOK, EntryInv, ChoiceInv, Apart, ApartInv, Reserve,
       Takes, Onward, Ends, FileName, AtIt
  <2> QED
    BY <2>1, <2>2
<1>6. ASSUME NEW e \in Export, MoveFile(e)
     PROVE  ChoiceInv(d)' /\ (Apart(d)' => ApartInv(d)')
  <2>1. ChoiceInv(d)'
    BY <1>6 DEF ExportInv, ExportTypeOK, ChoiceInv, MoveFile, Onward, FileName
  <2>2. ASSUME Apart(d)' PROVE ApartInv(d)'
    BY <1>6, <2>2 DEF ExportInv, ExportTypeOK, EntryInv, ChoiceInv, Apart, ApartInv, MoveFile,
       Onward, FileName
  <2> QED
    BY <2>1, <2>2
<1>7. ASSUME NEW e \in Export, CreateFile(e)
     PROVE  ChoiceInv(d)' /\ (Apart(d)' => ApartInv(d)')
  <2>1. ChoiceInv(d)'
    BY <1>7 DEF ExportInv, ExportTypeOK, ChoiceInv, CreateFile, Onward, FileName
  <2>2. ASSUME Apart(d)' PROVE ApartInv(d)'
    BY <1>7, <2>2 DEF ExportInv, ExportTypeOK, EntryInv, ChoiceInv, Apart, ApartInv, CreateFile,
       Onward, FileName
  <2> QED
    BY <2>1, <2>2
<1>8. ASSUME NEW e \in Export, Fill(e)
     PROVE  ChoiceInv(d)' /\ (Apart(d)' => ApartInv(d)')
  <2>1. ChoiceInv(d)'
    BY <1>8 DEF ExportInv, ExportTypeOK, ChoiceInv, Fill, Onward, FileName
  <2>2. ASSUME Apart(d)' PROVE ApartInv(d)'
    BY <1>8, <2>2 DEF ExportInv, ExportTypeOK, EntryInv, ChoiceInv, Apart, ApartInv, Fill,
       Onward, FileName
  <2> QED
    BY <2>1, <2>2
<1>9. ASSUME NEW e \in Export, AssemblyFails(e)
     PROVE  ChoiceInv(d)' /\ (Apart(d)' => ApartInv(d)')
  <2>1. ChoiceInv(d)'
    BY <1>9 DEF ExportInv, ExportTypeOK, ChoiceInv, AssemblyFails, FailAssembly, Ends, FileName
  <2>2. ASSUME Apart(d)' PROVE ApartInv(d)'
    BY <1>9, <2>2 DEF ExportInv, ExportTypeOK, EntryInv, ChoiceInv, Apart, ApartInv,
       AssemblyFails,
       FailAssembly, Ends, FileName
  <2> QED
    BY <2>1, <2>2
<1>10. ASSUME NEW e \in Export, Saves(e)
     PROVE  ChoiceInv(d)' /\ (Apart(d)' => ApartInv(d)')
  <2>1. ChoiceInv(d)'
    BY <1>10 DEF ExportInv, ExportTypeOK, ChoiceInv, Saves, Onward, Ends, Directory, FileName
  <2>2. ASSUME Apart(d)' PROVE ApartInv(d)'
    BY <1>10, <2>2 DEF ExportInv, ExportTypeOK, EntryInv, ChoiceInv, Apart, ApartInv, Saves,
       Onward, Ends, Directory, FileName
  <2> QED
    BY <2>1, <2>2
<1>11. ASSUME NEW e \in Export, CheckFails(e)
     PROVE  ChoiceInv(d)' /\ (Apart(d)' => ApartInv(d)')
  <2>1. ChoiceInv(d)'
    BY <1>11 DEF ExportInv, ExportTypeOK, ChoiceInv, CheckFails, FailAssembly, Ends, FileName
  <2>2. ASSUME Apart(d)' PROVE ApartInv(d)'
    BY <1>11, <2>2 DEF ExportInv, ExportTypeOK, EntryInv, ChoiceInv, Apart, ApartInv, CheckFails,
       FailAssembly, Ends, FileName
  <2> QED
    BY <2>1, <2>2
<1> QED
  BY <1>1, <1>2, <1>3, <1>4, <1>5, <1>6, <1>7, <1>8, <1>9, <1>10, <1>11 DEF ExportNext

LEMMA ExportInvariance == ExportSpec => []ExportInv
<1>1. ExportInit => ExportInv
  BY ExportAssumption DEF ExportInit, ExportInv, ExportTypeOK, EntryInv, ChoiceInv, Apart,
     ApartInv
<1>2. ExportInv /\ [ExportNext]_exportVars => ExportInv'
  <2>1. CASE UNCHANGED exportVars
    BY <2>1 DEF exportVars, ExportInv, ExportTypeOK, EntryInv, ChoiceInv, Apart, ApartInv
  <2> QED
    BY <2>1, ExportNextType, ExportNextEntry, ExportNextKeeps DEF ExportInv
<1> QED
  BY <1>1, <1>2, PTL DEF ExportSpec

\* An artifact that was reported as saved stays in the directory and holds the bytes of
\* its own export, whatever other exports save, fail and remove, unless two looked for a
\* name before either had its file (reserve_file_name, place_file, assemble).
THEOREM SavedAlwaysStays == ExportSpec => []SavedStays
<1>1. ExportInv => SavedStays
  BY ExportAssumption DEF ExportInv, ExportTypeOK, ChoiceInv, Apart, ApartInv, SavedStays
<1> QED
  BY <1>1, ExportInvariance, PTL

-----------------------------------------------------------------------------
(* PluginHost: no child is left to itself. *)

\* Who deals with a child has the lock of its handle; who spawns one does it for an empty
\* slot; a child is in the hand of a thread only while that thread will slot or reap it.
ActorInv(a) ==
  /\ does[a] \in {"handshake", "send", "wait"} \/ (does[a] = "close" /\ arc[a] # None)
       => inner[arc[a]] = a
  /\ does[a] = "handshake" => slot[arc[a]] = None
  /\ does[a] \in {"enter", "handshake", "send", "wait", "stop", "leave"} => arc[a] # None
  /\ does[a] \in {"idle", "done"} => arc[a] = None
  /\ does[a] \notin {"handshake", "close"} => inHand[a] = None

StillHeld(h) == listed = h \/ \E a \in Actor : arc[a] = h

\* A handle with a child is held by the map or by an Arc.
HandleInv ==
  \A h \in HandleId : slot[h] # None => StillHeld(h)

LiveInv ==
  \A p \in live : (\E h \in HandleId : slot[h] = p) \/ (\E a \in Actor : inHand[a] = p)

HostShape ==
  /\ listed \in HandleId \cup {None} /\ made \in 0..MaxHandles /\ live \subseteq Child
  /\ slot \in [HandleId -> Child \cup {None}] /\ inner \in [HandleId -> Actor \cup {NoActor}]
  /\ arc \in [Actor -> HandleId \cup {None}] /\ inHand \in [Actor -> Child \cup {None}]
  /\ does \in [Actor -> {"idle", "enter", "handshake", "send", "wait", "stop", "close", "leave",
                       "done"}]

HostInv == HostShape /\ (\A a \in Actor : ActorInv(a)) /\ HandleInv /\ LiveInv

LEMMA NewChildIsUnused == Unused # {} => NewChild \in Unused
BY DEF NewChild

LEMMA HostNextShape ==
  ASSUME HostInv, HostNext
  PROVE  HostShape'
<1> USE HostAssumption DEF Actor, None
<1>1. ASSUME Load PROVE HostShape'
  BY <1>1 DEF HostInv, HostShape, HandleId, Child, Load, handleVars, childVars, GoOn
<1>2. ASSUME Unload PROVE HostShape'
  BY <1>2 DEF HostInv, HostShape, HandleId, Child, Unload, handleVars, childVars, GoOn
<1>2a. ASSUME ScanDrops PROVE HostShape'
  BY <1>2a DEF HostInv, HostShape, HandleId, Child, ScanDrops, handleVars, childVars, GoOn
<1>3. ASSUME StopPlugin PROVE HostShape'
  <2>1. CASE slot[arc[Manager]] = None
    BY <1>3, <2>1 DEF HostInv, HostShape, HandleId, Child, StopPlugin, handleVars, childVars, GoOn
  <2>2. CASE slot[arc[Manager]] # None
    <3>1. arc[Manager] \in HandleId /\ slot[arc[Manager]] \in Child
      BY <1>3, <2>2 DEF HostInv, HostShape, ActorInv, StopPlugin
    <3>2. /\ inner' = [inner EXCEPT ![arc[Manager]] = Manager]
          /\ inHand' = [inHand EXCEPT ![Manager] = slot[arc[Manager]]]
          /\ slot' = [slot EXCEPT ![arc[Manager]] = None]
          /\ does' = [does EXCEPT ![Manager] = "close"]
          /\ UNCHANGED <<listed, made, arc, live>>
      BY <1>3, <2>2 DEF StopPlugin, childVars, GoOn
    <3> QED
      BY <3>1, <3>2 DEF HostInv, HostShape
  <2> QED
    BY <2>1, <2>2
<1>4. ASSUME NEW a \in Actor, SpawnChild(a) PROVE HostShape'
  <2>1. NewChild \in Child
    BY <1>4, NewChildIsUnused DEF SpawnChild, Unused
  <2> QED
    BY <1>4, <2>1 DEF HostInv, HostShape, HandleId, Child, SpawnChild, handleVars, childVars, GoOn
<1>5. ASSUME NEW a \in Actor, SpawnChildFails(a) PROVE HostShape'
  BY <1>5 DEF HostInv, HostShape, HandleId, Child, SpawnChildFails, handleVars, childVars, GoOn
<1>6. ASSUME NEW a \in Actor, Skip(a) PROVE HostShape'
  BY <1>6 DEF HostInv, HostShape, HandleId, Child, Skip, handleVars, childVars, GoOn, Waiting,
     Says, Consume
<1>7. ASSUME NEW a \in Actor, Handshaken(a) PROVE HostShape'
  BY <1>7 DEF HostInv, HostShape, HandleId, Child, Handshaken, handleVars, childVars, GoOn,
     Says, Consume, Unlock
<1>8. ASSUME NEW a \in Actor, HandshakeFails(a) PROVE HostShape'
  BY <1>8 DEF HostInv, HostShape, HandleId, Child, HandshakeFails, handleVars, childVars, GoOn,
     Reap, Unlock
<1>9. ASSUME NEW a \in Actor, ShutdownChild(a) PROVE HostShape'
  BY <1>9 DEF HostInv, HostShape, HandleId, Child, ShutdownChild, handleVars, childVars, GoOn,
     Reap, Unlock, Rest
<1>10. ASSUME NEW a \in Actor, DropArc(a) PROVE HostShape'
  <2>1. CASE LastArc(a) /\ slot[arc[a]] # None
    BY <1>10, <2>1 DEF HostInv, HostShape, HandleId, Child, DropArc, handleVars, childVars,
       GoOn, Rest, ActorInv
  <2>2. CASE ~(LastArc(a) /\ slot[arc[a]] # None)
    BY <1>10, <2>2 DEF HostInv, HostShape, HandleId, Child, DropArc, handleVars, childVars,
       GoOn, Rest
  <2> QED
    BY <2>1, <2>2
<1>11. ASSUME NEW a \in HostCall, TakeArc(a) PROVE HostShape'
  BY <1>11 DEF HostInv, HostShape, HandleId, Child, TakeArc, handleVars, childVars, GoOn
<1>12. ASSUME NEW a \in HostCall, Deadline(a) PROVE HostShape'
  BY <1>12 DEF HostInv, HostShape, HandleId, Child, Deadline, handleVars, childVars, GoOn
<1>13. ASSUME NEW a \in HostCall, UseChild(a) PROVE HostShape'
  BY <1>13 DEF HostInv, HostShape, HandleId, Child, UseChild, handleVars, childVars, GoOn
<1>14. ASSUME NEW a \in HostCall, Send(a) PROVE HostShape'
  BY <1>14 DEF HostInv, HostShape, HandleId, Child, Send, handleVars, childVars, GoOn
<1>15. ASSUME NEW a \in HostCall, SendFails(a) PROVE HostShape'
  BY <1>15 DEF HostInv, HostShape, HandleId, Child, SendFails, handleVars, childVars, GoOn,
     KillAndClear, Reap, Unlock
<1>16. ASSUME NEW a \in HostCall, CallAnswered(a) PROVE HostShape'
  BY <1>16 DEF HostInv, HostShape, HandleId, Child, CallAnswered, handleVars, childVars, GoOn,
     Says, Consume, Unlock
<1>17. ASSUME NEW a \in HostCall, CallFails(a) PROVE HostShape'
  BY <1>17 DEF HostInv, HostShape, HandleId, Child, CallFails, handleVars, childVars, GoOn,
     KillAndClear, Reap, Unlock
<1>18. ASSUME NEW p \in Child, PluginAnswers(p) PROVE HostShape'
  BY <1>18 DEF HostInv, HostShape, HandleId, Child, PluginAnswers, handleVars, childVars, GoOn,
     Writes
<1>19. ASSUME NEW p \in Child, PluginTalks(p) PROVE HostShape'
  BY <1>19 DEF HostInv, HostShape, HandleId, Child, PluginTalks, handleVars, childVars, GoOn,
     Writes
<1>20. ASSUME NEW p \in Child, PluginExits(p) PROVE HostShape'
  BY <1>20 DEF HostInv, HostShape, HandleId, Child, PluginExits, handleVars, childVars, GoOn
<1> QED
  BY <1>1, <1>2, <1>2a, <1>3, <1>4, <1>5, <1>6, <1>7, <1>8, <1>9, <1>10, <1>11, <1>12, <1>13, <1>14,
     <1>15, <1>16, <1>17, <1>18, <1>19, <1>20 DEF HostNext, Acts, Goes

LEMMA HostNextActor ==
  ASSUME HostInv, HostNext, NEW b \in Actor
  PROVE  ActorInv(b)'
<1> USE HostAssumption DEF Actor, None
<1>1. ASSUME Load PROVE ActorInv(b)'
  BY <1>1 DEF HostInv, HostShape, ActorInv, Load, handleVars, childVars, GoOn
<1>2. ASSUME Unload PROVE ActorInv(b)'
  BY <1>2 DEF HostInv, HostShape, ActorInv, Unload, handleVars, childVars, GoOn
<1>2a. ASSUME ScanDrops PROVE ActorInv(b)'
  BY <1>2a DEF HostInv, HostShape, ActorInv, ScanDrops, handleVars, childVars, GoOn
<1>3. ASSUME StopPlugin PROVE ActorInv(b)'
  BY <1>3 DEF HostInv, HostShape, ActorInv, StopPlugin, handleVars, childVars, GoOn
<1>4. ASSUME NEW a \in Actor, SpawnChild(a) PROVE ActorInv(b)'
  BY <1>4 DEF HostInv, HostShape, ActorInv, SpawnChild, handleVars, childVars, GoOn
<1>5. ASSUME NEW a \in Actor, SpawnChildFails(a) PROVE ActorInv(b)'
  BY <1>5 DEF HostInv, HostShape, ActorInv, SpawnChildFails, handleVars, childVars, GoOn
<1>6. ASSUME NEW a \in Actor, Skip(a) PROVE ActorInv(b)'
  BY <1>6 DEF HostInv, HostShape, ActorInv, Skip, handleVars, childVars, GoOn, Waiting, Says,
     Consume
<1>7. ASSUME NEW a \in Actor, Handshaken(a) PROVE ActorInv(b)'
  BY <1>7 DEF HostInv, HostShape, ActorInv, Handshaken, handleVars, childVars, GoOn, Says,
     Consume, Unlock
<1>8. ASSUME NEW a \in Actor, HandshakeFails(a) PROVE ActorInv(b)'
  BY <1>8 DEF HostInv, HostShape, ActorInv, HandshakeFails, handleVars, childVars, GoOn, Reap,
     Unlock
<1>9. ASSUME NEW a \in Actor, ShutdownChild(a) PROVE ActorInv(b)'
  BY <1>9 DEF HostInv, HostShape, ActorInv, ShutdownChild, handleVars, childVars, GoOn, Reap,
     Unlock, Rest
<1>10. ASSUME NEW a \in Actor, DropArc(a) PROVE ActorInv(b)'
  BY <1>10 DEF HostInv, HostShape, ActorInv, DropArc, handleVars, childVars, GoOn, LastArc, Rest
<1>11. ASSUME NEW a \in HostCall, TakeArc(a) PROVE ActorInv(b)'
  BY <1>11 DEF HostInv, HostShape, ActorInv, TakeArc, handleVars, childVars, GoOn
<1>12. ASSUME NEW a \in HostCall, Deadline(a) PROVE ActorInv(b)'
  BY <1>12 DEF HostInv, HostShape, ActorInv, Deadline, handleVars, childVars, GoOn
<1>13. ASSUME NEW a \in HostCall, UseChild(a) PROVE ActorInv(b)'
  BY <1>13 DEF HostInv, HostShape, ActorInv, UseChild, handleVars, childVars, GoOn
<1>14. ASSUME NEW a \in HostCall, Send(a) PROVE ActorInv(b)'
  BY <1>14 DEF HostInv, HostShape, ActorInv, Send, handleVars, childVars, GoOn
<1>15. ASSUME NEW a \in HostCall, SendFails(a) PROVE ActorInv(b)'
  BY <1>15 DEF HostInv, HostShape, ActorInv, SendFails, handleVars, childVars, GoOn,
     KillAndClear, Reap, Unlock
<1>16. ASSUME NEW a \in HostCall, CallAnswered(a) PROVE ActorInv(b)'
  BY <1>16 DEF HostInv, HostShape, ActorInv, CallAnswered, handleVars, childVars, GoOn, Says,
     Consume, Unlock
<1>17. ASSUME NEW a \in HostCall, CallFails(a) PROVE ActorInv(b)'
  BY <1>17 DEF HostInv, HostShape, ActorInv, CallFails, handleVars, childVars, GoOn,
     KillAndClear, Reap, Unlock
<1>18. ASSUME NEW p \in Child, PluginAnswers(p) PROVE ActorInv(b)'
  BY <1>18 DEF HostInv, HostShape, ActorInv, PluginAnswers, handleVars, childVars, GoOn, Writes
<1>19. ASSUME NEW p \in Child, PluginTalks(p) PROVE ActorInv(b)'
  BY <1>19 DEF HostInv, HostShape, ActorInv, PluginTalks, handleVars, childVars, GoOn, Writes
<1>20. ASSUME NEW p \in Child, PluginExits(p) PROVE ActorInv(b)'
  BY <1>20 DEF HostInv, HostShape, ActorInv, PluginExits, handleVars, childVars, GoOn
<1> QED
  BY <1>1, <1>2, <1>2a, <1>3, <1>4, <1>5, <1>6, <1>7, <1>8, <1>9, <1>10, <1>11, <1>12, <1>13, <1>14,
     <1>15, <1>16, <1>17, <1>18, <1>19, <1>20 DEF HostNext, Acts, Goes

LEMMA HostNextHandle ==
  ASSUME HostInv, HostNext
  PROVE  HandleInv'
<1> USE HostAssumption DEF Actor, None
<1>1. ASSUME Load PROVE HandleInv'
  <2>1. arc[Manager] = None /\ UNCHANGED <<slot, listed>>
    BY <1>1 DEF HostInv, ActorInv, Load
  <2>2. \A a \in Actor \ {Manager} : arc'[a] = arc[a]
    BY <1>1 DEF HostInv, HostShape, Load
  <2>3. ASSUME NEW h \in HandleId, StillHeld(h) PROVE StillHeld(h)'
    BY <2>1, <2>2, <2>3 DEF StillHeld, HandleId
  <2> QED
    BY <2>1, <2>3 DEF HostInv, HandleInv
<1>2. ASSUME Unload PROVE HandleInv'
  BY <1>2 DEF HostInv, HostShape, ActorInv, HandleInv, StillHeld, Unload, handleVars, childVars,
     GoOn
<1>2a. ASSUME ScanDrops PROVE HandleInv'
  BY <1>2a DEF HostInv, HostShape, ActorInv, HandleInv, StillHeld, ScanDrops, handleVars, childVars,
     GoOn
<1>3. ASSUME StopPlugin PROVE HandleInv'
  BY <1>3 DEF HostInv, HostShape, ActorInv, HandleInv, StillHeld, StopPlugin, handleVars,
     childVars, GoOn
<1>4. ASSUME NEW a \in Actor, SpawnChild(a) PROVE HandleInv'
  BY <1>4 DEF HostInv, HostShape, ActorInv, HandleInv, StillHeld, SpawnChild, handleVars,
     childVars, GoOn
<1>5. ASSUME NEW a \in Actor, SpawnChildFails(a) PROVE HandleInv'
  BY <1>5 DEF HostInv, HostShape, ActorInv, HandleInv, StillHeld, SpawnChildFails, handleVars,
     childVars, GoOn
<1>6. ASSUME NEW a \in Actor, Skip(a) PROVE HandleInv'
  BY <1>6 DEF HostInv, HostShape, ActorInv, HandleInv, StillHeld, Skip, handleVars, childVars,
     GoOn, Waiting, Says, Consume
<1>7. ASSUME NEW a \in Actor, Handshaken(a) PROVE HandleInv'
  BY <1>7 DEF HostInv, HostShape, ActorInv, HandleInv, StillHeld, Handshaken, handleVars,
     childVars, GoOn, Says, Consume, Unlock
<1>8. ASSUME NEW a \in Actor, HandshakeFails(a) PROVE HandleInv'
  BY <1>8 DEF HostInv, HostShape, ActorInv, HandleInv, StillHeld, HandshakeFails, handleVars,
     childVars, GoOn, Reap, Unlock
<1>9. ASSUME NEW a \in Actor, ShutdownChild(a) PROVE HandleInv'
  BY <1>9 DEF HostInv, HostShape, ActorInv, HandleInv, StillHeld, ShutdownChild, handleVars,
     childVars, GoOn, Reap, Unlock, Rest
<1>10. ASSUME NEW a \in Actor, DropArc(a) PROVE HandleInv'
  <2>1. arc[a] \in HandleId /\ UNCHANGED listed
    BY <1>10 DEF HostInv, HostShape, ActorInv, DropArc
  <2>2. \A b \in Actor \ {a} : arc'[b] = arc[b]
    BY <1>10 DEF HostInv, HostShape, DropArc
  <2>3. ASSUME NEW h \in HandleId, h # arc[a], StillHeld(h) PROVE StillHeld(h)'
    BY <2>1, <2>2, <2>3 DEF StillHeld
  <2>4. ASSUME NEW h \in HandleId, h = arc[a], ~LastArc(a) PROVE StillHeld(h)'
    <3>1. listed = h \/ \E b \in Actor \ {a} : arc[b] = h
      BY <2>4 DEF LastArc
    <3> QED
      BY <3>1, <2>1, <2>2 DEF StillHeld
  <2>5. LastArc(a) => slot'[arc[a]] = None
    BY <1>10, <2>1 DEF HostInv, HostShape, DropArc
  <2>6. \A h \in HandleId : h # arc[a] => slot'[h] = slot[h]
    BY <1>10 DEF HostInv, HostShape, DropArc
  <2>7. ASSUME NEW h \in HandleId, slot'[h] # None PROVE StillHeld(h)'
    <3>1. CASE h = arc[a]
      BY <3>1, <2>4, <2>5, <2>7
    <3>2. CASE h # arc[a]
      BY <3>2, <2>3, <2>6, <2>7 DEF HostInv, HandleInv
    <3> QED
      BY <3>1, <3>2
  <2> QED
    BY <2>7 DEF HandleInv
<1>11. ASSUME NEW a \in HostCall, TakeArc(a) PROVE HandleInv'
  <2>1. arc[a] = None /\ UNCHANGED <<slot, listed>>
    BY <1>11 DEF HostInv, ActorInv, TakeArc, handleVars
  <2>2. \A b \in Actor \ {a} : arc'[b] = arc[b]
    BY <1>11 DEF HostInv, HostShape, TakeArc
  <2>3. ASSUME NEW h \in HandleId, StillHeld(h) PROVE StillHeld(h)'
    BY <2>1, <2>2, <2>3 DEF StillHeld, HandleId
  <2> QED
    BY <2>1, <2>3 DEF HostInv, HandleInv
<1>12. ASSUME NEW a \in HostCall, Deadline(a) PROVE HandleInv'
  BY <1>12 DEF HostInv, HostShape, ActorInv, HandleInv, StillHeld, Deadline, handleVars,
     childVars, GoOn
<1>13. ASSUME NEW a \in HostCall, UseChild(a) PROVE HandleInv'
  BY <1>13 DEF HostInv, HostShape, ActorInv, HandleInv, StillHeld, UseChild, handleVars,
     childVars, GoOn
<1>14. ASSUME NEW a \in HostCall, Send(a) PROVE HandleInv'
  BY <1>14 DEF HostInv, HostShape, ActorInv, HandleInv, StillHeld, Send, handleVars, childVars,
     GoOn
<1>15. ASSUME NEW a \in HostCall, SendFails(a) PROVE HandleInv'
  BY <1>15 DEF HostInv, HostShape, ActorInv, HandleInv, StillHeld, SendFails, handleVars,
     childVars, GoOn, KillAndClear, Reap, Unlock
<1>16. ASSUME NEW a \in HostCall, CallAnswered(a) PROVE HandleInv'
  BY <1>16 DEF HostInv, HostShape, ActorInv, HandleInv, StillHeld, CallAnswered, handleVars,
     childVars, GoOn, Says, Consume, Unlock
<1>17. ASSUME NEW a \in HostCall, CallFails(a) PROVE HandleInv'
  BY <1>17 DEF HostInv, HostShape, ActorInv, HandleInv, StillHeld, CallFails, handleVars,
     childVars, GoOn, KillAndClear, Reap, Unlock
<1>18. ASSUME NEW p \in Child, PluginAnswers(p) PROVE HandleInv'
  BY <1>18 DEF HostInv, HostShape, ActorInv, HandleInv, StillHeld, PluginAnswers, handleVars,
     childVars, GoOn, Writes
<1>19. ASSUME NEW p \in Child, PluginTalks(p) PROVE HandleInv'
  BY <1>19 DEF HostInv, HostShape, ActorInv, HandleInv, StillHeld, PluginTalks, handleVars,
     childVars, GoOn, Writes
<1>20. ASSUME NEW p \in Child, PluginExits(p) PROVE HandleInv'
  BY <1>20 DEF HostInv, HostShape, ActorInv, HandleInv, StillHeld, PluginExits, handleVars,
     childVars, GoOn
<1> QED
  BY <1>1, <1>2, <1>2a, <1>3, <1>4, <1>5, <1>6, <1>7, <1>8, <1>9, <1>10, <1>11, <1>12, <1>13, <1>14,
     <1>15, <1>16, <1>17, <1>18, <1>19, <1>20 DEF HostNext, Acts, Goes

LEMMA HostNextLive ==
  ASSUME HostInv, HostNext
  PROVE  LiveInv'
<1> USE HostAssumption DEF Actor, None
<1>1. ASSUME Load PROVE LiveInv'
  BY <1>1 DEF HostInv, HostShape, ActorInv, LiveInv, Child, Load, handleVars, childVars, GoOn
<1>2. ASSUME Unload PROVE LiveInv'
  BY <1>2 DEF HostInv, HostShape, ActorInv, LiveInv, Child, Unload, handleVars, childVars, GoOn
<1>2a. ASSUME ScanDrops PROVE LiveInv'
  BY <1>2a DEF HostInv, HostShape, ActorInv, LiveInv, Child, ScanDrops, handleVars, childVars, GoOn
<1>3. ASSUME StopPlugin PROVE LiveInv'
  <2> SUFFICES ASSUME NEW q \in live'
               PROVE  \/ \E h \in HandleId : slot'[h] = q
                      \/ \E b \in Actor : inHand'[b] = q
    BY DEF LiveInv
  <2>1. ASSUME NEW h \in HandleId, slot[h] = q PROVE slot'[h] = q \/ inHand'[Manager] = q
    BY <1>3, <2>1 DEF HostInv, HostShape, ActorInv, LiveInv, Child, StopPlugin, handleVars,
       childVars, GoOn
  <2>2. ASSUME NEW b \in Actor, inHand[b] = q PROVE inHand'[b] = q
    BY <1>3, <2>2 DEF HostInv, HostShape, ActorInv, LiveInv, Child, StopPlugin, handleVars,
       childVars, GoOn
  <2>3. q \in live
    BY <1>3 DEF StopPlugin, childVars
  <2> QED
    BY <2>1, <2>2, <2>3 DEF HostInv, LiveInv
<1>4. ASSUME NEW a \in Actor, SpawnChild(a) PROVE LiveInv'
  <2> SUFFICES ASSUME NEW q \in live'
               PROVE  \/ \E h \in HandleId : slot'[h] = q
                      \/ \E b \in Actor : inHand'[b] = q
    BY DEF LiveInv
  <2>1. ASSUME NEW b \in Actor, inHand[b] = q PROVE inHand'[b] = q
    BY <1>4, <2>1 DEF HostInv, HostShape, ActorInv, LiveInv, Child, SpawnChild, handleVars,
       childVars, GoOn
  <2>2. q \in live \/ inHand'[a] = q
    BY <1>4 DEF HostInv, HostShape, ActorInv, LiveInv, Child, SpawnChild, handleVars, childVars,
       GoOn
  <2>3. UNCHANGED slot
    BY <1>4 DEF SpawnChild
  <2> QED
    BY <2>1, <2>2, <2>3 DEF HostInv, LiveInv
<1>5. ASSUME NEW a \in Actor, SpawnChildFails(a) PROVE LiveInv'
  BY <1>5 DEF HostInv, HostShape, ActorInv, LiveInv, Child, SpawnChildFails, handleVars,
     childVars, GoOn
<1>6. ASSUME NEW a \in Actor, Skip(a) PROVE LiveInv'
  BY <1>6 DEF HostInv, HostShape, ActorInv, LiveInv, Child, Skip, handleVars, childVars, GoOn,
     Waiting, Says, Consume
<1>7. ASSUME NEW a \in Actor, Handshaken(a) PROVE LiveInv'
  <2> SUFFICES ASSUME NEW q \in live'
               PROVE  \/ \E h \in HandleId : slot'[h] = q
                      \/ \E b \in Actor : inHand'[b] = q
    BY DEF LiveInv
  <2>1. ASSUME NEW h \in HandleId, slot[h] = q PROVE slot'[h] = q
    BY <1>7, <2>1 DEF HostInv, HostShape, ActorInv, LiveInv, Child, Handshaken, handleVars,
       childVars, GoOn, Says, Consume, Unlock
  <2>2. ASSUME NEW b \in Actor, inHand[b] = q, b # a PROVE inHand'[b] = q
    BY <1>7, <2>2 DEF HostInv, HostShape, ActorInv, LiveInv, Child, Handshaken, handleVars,
       childVars, GoOn, Says, Consume, Unlock
  <2>3. slot'[arc[a]] = inHand[a] /\ arc[a] \in HandleId
    BY <1>7 DEF HostInv, HostShape, ActorInv, LiveInv, Child, Handshaken, handleVars, childVars,
       GoOn, Says, Consume, Unlock
  <2>4. q \in live
    BY <1>7 DEF Handshaken
  <2> QED
    BY <2>1, <2>2, <2>3, <2>4 DEF HostInv, LiveInv
<1>8. ASSUME NEW a \in Actor, HandshakeFails(a) PROVE LiveInv'
  BY <1>8 DEF HostInv, HostShape, ActorInv, LiveInv, Child, HandshakeFails, handleVars,
     childVars, GoOn, Reap, Unlock
<1>9. ASSUME NEW a \in Actor, ShutdownChild(a) PROVE LiveInv'
  BY <1>9 DEF HostInv, HostShape, ActorInv, LiveInv, Child, ShutdownChild, handleVars,
     childVars, GoOn, Reap, Unlock, Rest
<1>10. ASSUME NEW a \in Actor, DropArc(a) PROVE LiveInv'
  <2> SUFFICES ASSUME NEW q \in live'
               PROVE  \/ \E h \in HandleId : slot'[h] = q
                      \/ \E b \in Actor : inHand'[b] = q
    BY DEF LiveInv
  <2>1. ASSUME NEW h \in HandleId, slot[h] = q PROVE slot'[h] = q \/ inHand'[a] = q
    BY <1>10, <2>1 DEF HostInv, HostShape, ActorInv, LiveInv, Child, DropArc, handleVars,
       childVars, GoOn, LastArc, Rest
  <2>2. ASSUME NEW b \in Actor, inHand[b] = q PROVE inHand'[b] = q
    BY <1>10, <2>2 DEF HostInv, HostShape, ActorInv, LiveInv, Child, DropArc, handleVars,
       childVars, GoOn, LastArc, Rest
  <2>3. q \in live
    BY <1>10 DEF DropArc, childVars
  <2> QED
    BY <2>1, <2>2, <2>3 DEF HostInv, LiveInv
<1>11. ASSUME NEW a \in HostCall, TakeArc(a) PROVE LiveInv'
  BY <1>11 DEF HostInv, HostShape, ActorInv, LiveInv, Child, TakeArc, handleVars, childVars, GoOn
<1>12. ASSUME NEW a \in HostCall, Deadline(a) PROVE LiveInv'
  BY <1>12 DEF HostInv, HostShape, ActorInv, LiveInv, Child, Deadline, handleVars, childVars, GoOn
<1>13. ASSUME NEW a \in HostCall, UseChild(a) PROVE LiveInv'
  BY <1>13 DEF HostInv, HostShape, ActorInv, LiveInv, Child, UseChild, handleVars, childVars, GoOn
<1>14. ASSUME NEW a \in HostCall, Send(a) PROVE LiveInv'
  BY <1>14 DEF HostInv, HostShape, ActorInv, LiveInv, Child, Send, handleVars, childVars, GoOn
<1>15. ASSUME NEW a \in HostCall, SendFails(a) PROVE LiveInv'
  BY <1>15 DEF HostInv, HostShape, ActorInv, LiveInv, Child, SendFails, handleVars, childVars,
     GoOn, KillAndClear, Reap, Unlock
<1>16. ASSUME NEW a \in HostCall, CallAnswered(a) PROVE LiveInv'
  BY <1>16 DEF HostInv, HostShape, ActorInv, LiveInv, Child, CallAnswered, handleVars,
     childVars, GoOn, Says, Consume, Unlock
<1>17. ASSUME NEW a \in HostCall, CallFails(a) PROVE LiveInv'
  BY <1>17 DEF HostInv, HostShape, ActorInv, LiveInv, Child, CallFails, handleVars, childVars,
     GoOn, KillAndClear, Reap, Unlock
<1>18. ASSUME NEW p \in Child, PluginAnswers(p) PROVE LiveInv'
  BY <1>18 DEF HostInv, HostShape, ActorInv, LiveInv, Child, PluginAnswers, handleVars,
     childVars, GoOn, Writes
<1>19. ASSUME NEW p \in Child, PluginTalks(p) PROVE LiveInv'
  BY <1>19 DEF HostInv, HostShape, ActorInv, LiveInv, Child, PluginTalks, handleVars, childVars,
     GoOn, Writes
<1>20. ASSUME NEW p \in Child, PluginExits(p) PROVE LiveInv'
  BY <1>20 DEF HostInv, HostShape, ActorInv, LiveInv, Child, PluginExits, handleVars, childVars,
     GoOn
<1> QED
  BY <1>1, <1>2, <1>2a, <1>3, <1>4, <1>5, <1>6, <1>7, <1>8, <1>9, <1>10, <1>11, <1>12, <1>13, <1>14,
     <1>15, <1>16, <1>17, <1>18, <1>19, <1>20 DEF HostNext, Acts, Goes

LEMMA HostInvariance == HostSpec => []HostInv
<1>1. HostInit => HostInv
  BY HostAssumption DEF HostInit, HostInv, HostShape, ActorInv, HandleInv, LiveInv, Actor, None
<1>2. HostInv /\ [HostNext]_hostVars => HostInv'
  <2>1. CASE UNCHANGED hostVars
    BY <2>1 DEF hostVars, HostInv, HostShape, ActorInv, HandleInv, StillHeld, LiveInv
  <2> QED
    BY <2>1, HostNextShape, HostNextActor, HostNextHandle, HostNextLive DEF HostInv
<1> QED
  BY <1>1, <1>2, PTL DEF HostSpec

\* A child that runs is in the slot of a handle that the map or a thread still has, or in
\* the hands of a thread that will slot or kill it (ensure_running with ChildGuard,
\* kill_and_clear, stop, Drop of ProcessPlugin), whatever the plugin does.
THEOREM NeverAnOrphan == HostSpec => []NoOrphan
<1>1. HostInv => NoOrphan
  BY HostAssumption DEF HostInv, HostShape, HandleInv, StillHeld, LiveInv, NoOrphan, None, Child
<1> QED
  BY <1>1, HostInvariance, PTL

-----------------------------------------------------------------------------
(* ToolMarket: only verified bytes are pushed. *)

WritesNow(o) == stage[o] \in {"stream", "fill"}

Stages ==
  {"idle", "resolve", "check", "fetch", "stream", "open", "fill", "push", "verify", "done"}

\* A part file has an inode of its own.
FileInv ==
  \A f, g \in File : part[f] # NoInode => part[f] # cached[g] /\ (part[f] = part[g] => f = g)

\* Installs under way are of one tool, and only a frida-server is extracted.
ToolInv ==
  /\ \A o, p \in Order : tool[o] = "none" \/ tool[p] = "none" \/ tool[o] = tool[p]
  /\ \A o \in Order : stage[o] = "idle" <=> tool[o] = "none"
  /\ \A o \in Order : stage[o] \in {"open", "fill"} => tool[o] = "frida"

\* The writer of a part file has it open under its name, and nobody else has.
WriterInv(o) ==
  /\ WritesNow(o) <=> into[o] # NoInode
  /\ WritesNow(o) => into[o] = part[FileOf(o)]
  /\ stage[o] = "fill" => clean[o]

AloneAtFile == \A o, p \in Order : into[o] # NoInode /\ into[o] = into[p] => o = p

\* A download without its tail is one whose last write was lost.
Sound(b) == Whole(b) \/ (unflushed /\ Cut(b))

\* While the digest matches, what was written is what should be, but for a last chunk that
\* was lost; the rest of the file is empty.
WrittenInv(o) ==
  WritesNow(o) =>
    \A c \in Chunk :
      /\ c > wrote[o] => bytes[into[o]][c] = "none"
      /\ clean[o] /\ c <= wrote[o] =>
           \/ bytes[into[o]][c] = "good"
           \/ c = Size /\ bytes[into[o]][c] = "none" /\ unflushed

\* What is about to be pushed is sound: a cached file is damaged only between installs.
PushInv(o) ==
  stage[o] = "push" /\ cached[Payload(o)] # NoInode => Sound(bytes[cached[Payload(o)]])

SentInv(o) == pushed[o] # Empty => Sound(pushed[o])

\* Only a file of the whole length is reported as verified.
ReportInv ==
  \A o \in Order : report[o] = "verified" => stage[o] = "done" /\ FullLength(pushed[o])

TriesInv == \A o \in Order : stage[o] \in {"idle", "resolve"} => tries[o] < Attempts

MarketShape == MarketTypeOK /\ ToolInv /\ TriesInv /\ ReportInv

MarketInv ==
  /\ MarketShape
  /\ \/ shared
     \/ /\ FileInv /\ AloneAtFile
        /\ \A o \in Order : WriterInv(o) /\ WrittenInv(o) /\ PushInv(o) /\ SentInv(o)

-----------------------------------------------------------------------------
(* What the creation of a part file does: to the inode of that name, or to one that is *)
(* free.                                                                               *)

LEMMA CreatedPart ==
  ASSUME MarketTypeOK, NEW o \in Order, CreatePart(o)
  PROVE  \E f \in File, i \in Inode :
           /\ f = FileOf(o)
           /\ part[f] = i \/ (part[f] = NoInode /\ i \in Free)
           /\ part' = [part EXCEPT ![f] = i]
           /\ bytes' = [bytes EXCEPT ![i] = Empty]
           /\ into' = [into EXCEPT ![o] = i]
           /\ shared' = (shared \/ \E p \in Order : into[p] = i)
<1> DEFINE f == FileOf(o)
           i == IF part[f] # NoInode THEN part[f] ELSE NewInode
<1>1. f \in File
  BY DEF FileOf, File
<1>2. part[f] # NoInode \/ Free # {}
  BY DEF CreatePart
<1>3. Free # {} => NewInode \in Free
  BY DEF NewInode
<1>4. part[f] \in Inode \cup {NoInode} /\ Free \subseteq Inode
  BY <1>1 DEF MarketTypeOK, Free
<1>5. i \in Inode /\ (part[f] = i \/ (part[f] = NoInode /\ i \in Free))
  BY <1>2, <1>3, <1>4
<1>6. /\ part' = [part EXCEPT ![f] = i]
      /\ bytes' = [bytes EXCEPT ![i] = Empty]
      /\ into' = [into EXCEPT ![o] = i]
      /\ shared' = (shared \/ \E p \in Order : into[p] = i)
  BY DEF CreatePart
<1> HIDE DEF i
<1> QED
  BY <1>1, <1>5, <1>6

LEMMA MarketNextType ==
  ASSUME MarketInv, MarketNext
  PROVE  MarketTypeOK'
<1> USE MarketAssumption
<1>1. ASSUME NEW o \in Order, Resolve(o) PROVE MarketTypeOK'
  <2>1. tries' = [tries EXCEPT ![o] = tries'[o]] /\ tries'[o] \in 0..Attempts
    BY <1>1 DEF MarketInv, MarketShape, MarketTypeOK, TriesInv, NoInode, File, Inode, Resolve,
       fileVars, streamVars, At, To, Noise, Ended
  <2>2. /\ stage' = [stage EXCEPT ![o] = stage'[o]] /\ stage'[o] \in {"resolve", "check", "done"}
        /\ report' = [report EXCEPT ![o] = report'[o]] /\ report'[o] \in {report[o], "failed"}
    BY <1>1 DEF MarketInv, MarketShape, MarketTypeOK, TriesInv, NoInode, File, Inode, Resolve,
       fileVars, streamVars, At, To, Noise, Ended
  <2>3. tries' \in [Order -> 0..Attempts]
    BY <2>1 DEF MarketInv, MarketShape, MarketTypeOK
  <2>4. stage' \in [Order -> Stages]
    BY <2>2 DEF MarketInv, MarketShape, MarketTypeOK, Stages
  <2>5. report' \in [Order -> {"none", "failed", "short", "verified"}]
    BY <2>2 DEF MarketInv, MarketShape, MarketTypeOK
  <2>6. UNCHANGED <<part, cached, bytes, into, wrote, from, clean, tool, pushed>>
    BY <1>1 DEF Resolve, fileVars, streamVars
  <2> QED
    BY <2>3, <2>4, <2>5, <2>6 DEF MarketInv, MarketShape, MarketTypeOK, Stages
<1>2. ASSUME NEW o \in Order, CheckCache(o) PROVE MarketTypeOK'
  BY <1>2 DEF MarketInv, MarketShape, MarketTypeOK, TriesInv, NoInode, File, Inode, CheckCache,
     fileVars, streamVars, At, To, NextStage
<1>3. ASSUME NEW o \in Order, CreatePart(o) PROVE MarketTypeOK'
  <2>1. PICK f \in File, i \in Inode : part' = [part EXCEPT ![f] = i]
             /\ bytes' = [bytes EXCEPT ![i] = Empty] /\ into' = [into EXCEPT ![o] = i]
    BY <1>3, CreatedPart DEF MarketInv, MarketShape
  <2>2. Empty \in [Chunk -> {"none", "good", "bad"}]
    BY DEF Empty
  <2>3. /\ part' \in [File -> Inode \cup {NoInode}] /\ into' \in [Order -> Inode \cup {NoInode}]
        /\ bytes' \in [Inode -> [Chunk -> {"none", "good", "bad"}]]
    BY <2>1, <2>2 DEF MarketInv, MarketShape, MarketTypeOK
  <2>4. from' = [from EXCEPT ![o] = from'[o]] /\ from'[o] \in Inode \cup {NoInode}
    BY <1>3 DEF MarketInv, MarketShape, MarketTypeOK, CreatePart, File
  <2>5. /\ stage' = [stage EXCEPT ![o] = stage'[o]] /\ stage'[o] \in {"stream", "fill"}
        /\ wrote' = [wrote EXCEPT ![o] = 0] /\ clean' = [clean EXCEPT ![o] = TRUE]
        /\ UNCHANGED <<cached, tool, tries, pushed, report>>
    BY <1>3 DEF MarketInv, MarketShape, MarketTypeOK, CreatePart, To
  <2>6. wrote' \in [Order -> 0..Size] /\ clean' \in [Order -> BOOLEAN]
    BY <2>5 DEF MarketInv, MarketShape, MarketTypeOK
  <2>7. stage' \in [Order -> Stages]
    BY <2>5 DEF MarketInv, MarketShape, MarketTypeOK, Stages
  <2>8. from' \in [Order -> Inode \cup {NoInode}]
    BY <2>4 DEF MarketInv, MarketShape, MarketTypeOK
  <2> QED
    BY <2>3, <2>5, <2>6, <2>7, <2>8 DEF MarketInv, MarketShape, MarketTypeOK, Stages
<1>4. ASSUME NEW o \in Order, WriteChunk(o) PROVE MarketTypeOK'
  <2>1. PICK b \in {"good", "bad"} :
             /\ bytes' = [bytes EXCEPT ![into[o]][wrote[o] + 1] = b]
             /\ clean' = [clean EXCEPT ![o] = clean[o] /\ b = "good"]
             /\ wrote' = [wrote EXCEPT ![o] = wrote[o] + 1]
    BY <1>4 DEF WriteChunk
  <2> DEFINE stays == clean[o] /\ b = "good"
  <2>2. clean' = [clean EXCEPT ![o] = stays]
    BY <2>1
  <2>3. stays \in BOOLEAN
    OBVIOUS
  <2> HIDE DEF stays
  <2>4. clean' \in [Order -> BOOLEAN]
    BY <2>2, <2>3 DEF MarketInv, MarketShape, MarketTypeOK
  <2>7. wrote[o] < Size
    BY <1>4 DEF WriteChunk
  <2>5. wrote' \in [Order -> 0..Size]
    BY <2>1, <2>7 DEF MarketInv, MarketShape, MarketTypeOK
  <2>6. bytes' \in [Inode -> [Chunk -> {"none", "good", "bad"}]]
    BY <2>1 DEF MarketInv, MarketShape, MarketTypeOK
  <2> QED
    BY <1>4, <2>4, <2>5, <2>6 DEF MarketInv, MarketShape, MarketTypeOK, WriteChunk
<1>5. ASSUME NEW o \in Order, BreakOff(o) PROVE MarketTypeOK'
  BY <1>5 DEF MarketInv, MarketShape, MarketTypeOK, TriesInv, NoInode, File, Inode, BreakOff,
     fileVars, streamVars, At, To, Noise, Ended, Close, DropPart
<1>6. ASSUME NEW o \in Order, Finish(o) PROVE MarketTypeOK'
  <2> DEFINE f == FileOf(o)
  <2>1. f \in File
    BY DEF FileOf, File
  <2>2. /\ part' \in {part, [part EXCEPT ![f] = NoInode]}
        /\ cached' \in {cached, [cached EXCEPT ![f] = part[f]]}
        /\ into' = [into EXCEPT ![o] = NoInode] /\ from' = [from EXCEPT ![o] = NoInode]
        /\ UNCHANGED <<wrote, clean, bytes, tool, tries, pushed>>
    BY <1>6 DEF Finish, Close, DropPart
  <2>3. /\ stage' = [stage EXCEPT ![o] = stage'[o]] /\ stage'[o] \in {"open", "push", "done"}
        /\ report' = [report EXCEPT ![o] = report'[o]] /\ report'[o] \in {report[o], "failed"}
    BY <1>6 DEF MarketInv, MarketShape, MarketTypeOK, Finish, Ended, To, NextStage
  <2> HIDE DEF f
  <2>4. stage' \in [Order -> Stages]
    BY <2>3 DEF MarketInv, MarketShape, MarketTypeOK, Stages
  <2>5. report' \in [Order -> {"none", "failed", "short", "verified"}]
    BY <2>3 DEF MarketInv, MarketShape, MarketTypeOK
  <2>6. part' \in [File -> Inode \cup {NoInode}] /\ cached' \in [File -> Inode \cup {NoInode}]
    BY <2>1, <2>2 DEF MarketInv, MarketShape, MarketTypeOK
  <2>7. into' \in [Order -> Inode \cup {NoInode}] /\ from' \in [Order -> Inode \cup {NoInode}]
    BY <2>2 DEF MarketInv, MarketShape, MarketTypeOK
  <2> QED
    BY <2>2, <2>4, <2>5, <2>6, <2>7 DEF MarketInv, MarketShape, MarketTypeOK, Stages
<1>7. ASSUME NEW o \in Order, Push(o) PROVE MarketTypeOK'
  <2>1. Payload(o) \in File
    BY DEF Payload, File
  <2>2. pushed' = pushed \/ (cached[Payload(o)] # NoInode /\
             pushed' = [pushed EXCEPT ![o] = bytes[cached[Payload(o)]]])
    BY <1>7 DEF Push
  <2>3. pushed' \in [Order -> [Chunk -> {"none", "good", "bad"}]]
    BY <2>1, <2>2 DEF MarketInv, MarketShape, MarketTypeOK
  <2>4. /\ stage' = [stage EXCEPT ![o] = stage'[o]] /\ stage'[o] \in {"verify", "done"}
        /\ report' = [report EXCEPT ![o] = report'[o]] /\ report'[o] \in {report[o], "failed"}
    BY <1>7 DEF MarketInv, MarketShape, MarketTypeOK, Push, Ended, To
  <2>5. UNCHANGED <<part, cached, bytes, into, wrote, from, clean, tool, tries>>
    BY <1>7 DEF Push, fileVars, streamVars
  <2>6. stage' \in [Order -> Stages]
    BY <2>4 DEF MarketInv, MarketShape, MarketTypeOK, Stages
  <2>7. report' \in [Order -> {"none", "failed", "short", "verified"}]
    BY <2>4 DEF MarketInv, MarketShape, MarketTypeOK
  <2> QED
    BY <2>3, <2>5, <2>6, <2>7 DEF MarketInv, MarketShape, MarketTypeOK, Stages
<1>8. ASSUME NEW o \in Order, Verify(o) PROVE MarketTypeOK'
  BY <1>8 DEF MarketInv, MarketShape, MarketTypeOK, TriesInv, NoInode, File, Inode, Verify,
     fileVars, streamVars, At, To, Ended
<1>9. ASSUME NEW o \in Order, NEW k \in {"fixed", "frida"}, PlaceOrder(o, k)
     PROVE  MarketTypeOK'
  BY <1>9 DEF MarketInv, MarketShape, MarketTypeOK, TriesInv, NoInode, File, Inode, PlaceOrder,
     fileVars, streamVars, At, To
<1>10. ASSUME Quit PROVE MarketTypeOK'
  BY <1>10 DEF MarketInv, MarketShape, MarketTypeOK, TriesInv, NoInode, File, Inode, Quit,
     fileVars, streamVars, At, To
<1>11. ASSUME Damage PROVE MarketTypeOK'
  BY <1>11 DEF MarketInv, MarketShape, MarketTypeOK, TriesInv, NoInode, File, Inode, Damage,
     fileVars, streamVars, At, To, Noise
<1>12. ASSUME NEW o \in Order, LoseTail(o) PROVE MarketTypeOK'
  BY <1>12 DEF MarketInv, MarketShape, MarketTypeOK, LoseTail, fileVars
<1> QED
  BY <1>1, <1>2, <1>3, <1>4, <1>5, <1>6, <1>7, <1>8, <1>9, <1>10, <1>11, <1>12
  DEF MarketNext, Installing

LEMMA MarketNextTool ==
  ASSUME MarketInv, MarketNext
  PROVE  ToolInv'
<1> USE MarketAssumption
<1>1. ASSUME NEW o \in Order, Resolve(o) PROVE ToolInv'
  <2>1. /\ stage' = [stage EXCEPT ![o] = stage'[o]] /\ UNCHANGED tool
        /\ stage[o] # "idle" /\ stage'[o] # "idle"
        /\ stage'[o] \in {"open", "fill"} => tool[o] = "frida"
    BY <1>1 DEF MarketInv, MarketShape, MarketTypeOK, ToolInv, Resolve, fileVars, streamVars,
       At, To, Noise, Ended
  <2>2. \A p \in Order : p # o => stage'[p] = stage[p]
    BY <2>1 DEF MarketInv, MarketShape, MarketTypeOK
  <2> QED
    BY <2>1, <2>2 DEF MarketInv, MarketShape, ToolInv
<1>2. ASSUME NEW o \in Order, CheckCache(o) PROVE ToolInv'
  BY <1>2 DEF MarketInv, MarketShape, MarketTypeOK, ToolInv, CheckCache, fileVars, streamVars,
     At, To, NextStage
<1>3. ASSUME NEW o \in Order, CreatePart(o) PROVE ToolInv'
  BY <1>3 DEF MarketInv, MarketShape, MarketTypeOK, ToolInv, CreatePart, fileVars, streamVars,
     At, To
<1>4. ASSUME NEW o \in Order, WriteChunk(o) PROVE ToolInv'
  BY <1>4 DEF MarketInv, MarketShape, MarketTypeOK, ToolInv, WriteChunk, fileVars, streamVars,
     At, To, Noise
<1>5. ASSUME NEW o \in Order, BreakOff(o) PROVE ToolInv'
  <2>1. /\ stage' = [stage EXCEPT ![o] = stage'[o]] /\ UNCHANGED tool
        /\ stage[o] # "idle" /\ stage'[o] # "idle"
        /\ stage'[o] \in {"open", "fill"} => tool[o] = "frida"
    BY <1>5 DEF MarketInv, MarketShape, MarketTypeOK, ToolInv, BreakOff, fileVars, streamVars,
       At, To, Noise, Ended, Close, DropPart
  <2>2. \A p \in Order : p # o => stage'[p] = stage[p]
    BY <2>1 DEF MarketInv, MarketShape, MarketTypeOK
  <2> QED
    BY <2>1, <2>2 DEF MarketInv, MarketShape, ToolInv
<1>6. ASSUME NEW o \in Order, Finish(o) PROVE ToolInv'
  <2>1. /\ stage' = [stage EXCEPT ![o] = stage'[o]] /\ UNCHANGED tool
        /\ stage[o] # "idle" /\ stage'[o] # "idle"
        /\ stage'[o] \in {"open", "fill"} => tool[o] = "frida"
    BY <1>6 DEF MarketInv, MarketShape, MarketTypeOK, ToolInv, Finish, fileVars, streamVars, At,
       To, Ended, Close, DropPart, NextStage
  <2>2. \A p \in Order : p # o => stage'[p] = stage[p]
    BY <2>1 DEF MarketInv, MarketShape, MarketTypeOK
  <2> QED
    BY <2>1, <2>2 DEF MarketInv, MarketShape, ToolInv
<1>7. ASSUME NEW o \in Order, Push(o) PROVE ToolInv'
  BY <1>7 DEF MarketInv, MarketShape, MarketTypeOK, ToolInv, Push, fileVars, streamVars, At, To,
     Ended
<1>8. ASSUME NEW o \in Order, Verify(o) PROVE ToolInv'
  BY <1>8 DEF MarketInv, MarketShape, MarketTypeOK, ToolInv, Verify, fileVars, streamVars, At,
     To, Ended
<1>9. ASSUME NEW o \in Order, NEW k \in {"fixed", "frida"}, PlaceOrder(o, k)
     PROVE  ToolInv'
  <2>1. /\ stage' = [stage EXCEPT ![o] = stage'[o]] /\ stage'[o] \in {"resolve", "check"}
        /\ tool' = [tool EXCEPT ![o] = k]
    BY <1>9 DEF MarketInv, MarketShape, MarketTypeOK, ToolInv, PlaceOrder, fileVars, streamVars,
       At, To
  <2>2. \A p \in Order : tool[p] \in {"none", k}
    BY <1>9 DEF PlaceOrder
  <2>3. /\ \A p \in Order : p # o => stage'[p] = stage[p] /\ tool'[p] = tool[p]
        /\ stage'[o] # "idle" /\ stage'[o] \notin {"open", "fill"} /\ tool'[o] = k /\ k # "none"
    BY <2>1 DEF MarketInv, MarketShape, MarketTypeOK
  <2> QED
    BY <2>2, <2>3 DEF MarketInv, MarketShape, ToolInv
<1>10. ASSUME Quit PROVE ToolInv'
  <2>1. /\ stage' = [o \in Order |-> IF stage[o] = "idle" THEN "idle" ELSE "done"]
        /\ UNCHANGED tool
    BY <1>10 DEF Quit, At
  <2>2. \A p \in Order : stage'[p] = IF stage[p] = "idle" THEN "idle" ELSE "done"
    BY <2>1
  <2> QED
    BY <2>1, <2>2 DEF MarketInv, MarketShape, ToolInv
<1>11. ASSUME Damage PROVE ToolInv'
  BY <1>11 DEF MarketInv, MarketShape, MarketTypeOK, ToolInv, Damage, fileVars, streamVars, At,
     To, Noise
<1>12. ASSUME NEW o \in Order, LoseTail(o) PROVE ToolInv'
  BY <1>12 DEF MarketInv, MarketShape, ToolInv, LoseTail
<1> QED
  BY <1>1, <1>2, <1>3, <1>4, <1>5, <1>6, <1>7, <1>8, <1>9, <1>10, <1>11, <1>12
  DEF MarketNext, Installing

LEMMA MarketNextTries ==
  ASSUME MarketInv, MarketNext
  PROVE  TriesInv'
<1> USE MarketAssumption
<1>1. ASSUME NEW o \in Order, Resolve(o) PROVE TriesInv'
  <2>1. tries[o] < Attempts /\ tries[o] \in 0..Attempts
    BY <1>1 DEF MarketInv, MarketShape, MarketTypeOK, TriesInv, Resolve, At
  <2>2. tries' = tries \/ (tries' = [tries EXCEPT ![o] = tries[o] + 1] /\
             (tries[o] + 1 = Attempts => stage'[o] = "done"))
    BY <1>1, <2>1 DEF MarketInv, MarketShape, MarketTypeOK, Resolve, Ended, To
  <2>3. stage' = [stage EXCEPT ![o] = stage'[o]]
    BY <1>1 DEF MarketInv, MarketShape, MarketTypeOK, Resolve, Ended, To
  <2> QED
    BY <2>1, <2>2, <2>3 DEF MarketInv, MarketShape, MarketTypeOK, TriesInv
<1>2. ASSUME NEW o \in Order, CheckCache(o) PROVE TriesInv'
  BY <1>2 DEF MarketInv, MarketShape, MarketTypeOK, TriesInv, CheckCache, fileVars, streamVars,
     At, To, NextStage
<1>3. ASSUME NEW o \in Order, CreatePart(o) PROVE TriesInv'
  BY <1>3 DEF MarketInv, MarketShape, MarketTypeOK, TriesInv, CreatePart, fileVars, streamVars,
     At, To
<1>4. ASSUME NEW o \in Order, WriteChunk(o) PROVE TriesInv'
  BY <1>4 DEF MarketInv, MarketShape, MarketTypeOK, TriesInv, WriteChunk, fileVars, streamVars,
     At, To, Noise
<1>5. ASSUME NEW o \in Order, BreakOff(o) PROVE TriesInv'
  <2>1. stage' = [stage EXCEPT ![o] = stage'[o]] /\ UNCHANGED tries
    BY <1>5 DEF MarketInv, MarketShape, MarketTypeOK, BreakOff, fileVars, streamVars, At, To,
       Noise, Ended, Close, DropPart
  <2>2. stage'[o] \in {"idle", "resolve"} => stage[o] \in {"idle", "resolve"}
    BY <1>5 DEF MarketInv, MarketShape, MarketTypeOK, BreakOff, fileVars, streamVars, At, To,
       Noise, Ended, Close, DropPart
  <2> QED
    BY <2>1, <2>2 DEF MarketInv, MarketShape, MarketTypeOK, TriesInv
<1>6. ASSUME NEW o \in Order, Finish(o) PROVE TriesInv'
  <2>1. stage' = [stage EXCEPT ![o] = stage'[o]] /\ UNCHANGED tries
    BY <1>6 DEF MarketInv, MarketShape, MarketTypeOK, Finish, fileVars, streamVars, At, To,
       Ended, Close, DropPart, NextStage
  <2>2. stage'[o] \in {"idle", "resolve"} => stage[o] \in {"idle", "resolve"}
    BY <1>6 DEF MarketInv, MarketShape, MarketTypeOK, Finish, fileVars, streamVars, At, To,
       Ended, Close, DropPart, NextStage
  <2> QED
    BY <2>1, <2>2 DEF MarketInv, MarketShape, MarketTypeOK, TriesInv
<1>7. ASSUME NEW o \in Order, Push(o) PROVE TriesInv'
  BY <1>7 DEF MarketInv, MarketShape, MarketTypeOK, TriesInv, Push, fileVars, streamVars, At,
     To, Ended
<1>8. ASSUME NEW o \in Order, Verify(o) PROVE TriesInv'
  BY <1>8 DEF MarketInv, MarketShape, MarketTypeOK, TriesInv, Verify, fileVars, streamVars, At,
     To, Ended
<1>9. ASSUME NEW o \in Order, NEW k \in {"fixed", "frida"}, PlaceOrder(o, k)
     PROVE  TriesInv'
  <2>1. stage' = [stage EXCEPT ![o] = stage'[o]] /\ UNCHANGED tries
    BY <1>9 DEF MarketInv, MarketShape, MarketTypeOK, PlaceOrder, fileVars, streamVars, At, To
  <2>2. stage'[o] \in {"idle", "resolve"} => stage[o] \in {"idle", "resolve"}
    BY <1>9 DEF MarketInv, MarketShape, MarketTypeOK, PlaceOrder, fileVars, streamVars, At, To
  <2> QED
    BY <2>1, <2>2 DEF MarketInv, MarketShape, MarketTypeOK, TriesInv
<1>10. ASSUME Quit PROVE TriesInv'
  <2>1. /\ stage' = [o \in Order |-> IF stage[o] = "idle" THEN "idle" ELSE "done"]
        /\ UNCHANGED tries
    BY <1>10 DEF Quit, At
  <2> QED
    BY <2>1 DEF MarketInv, MarketShape, MarketTypeOK, TriesInv
<1>11. ASSUME Damage PROVE TriesInv'
  BY <1>11 DEF MarketInv, MarketShape, MarketTypeOK, TriesInv, Damage, fileVars, streamVars, At,
     To, Noise
<1>12. ASSUME NEW o \in Order, LoseTail(o) PROVE TriesInv'
  BY <1>12 DEF MarketInv, MarketShape, TriesInv, LoseTail
<1> QED
  BY <1>1, <1>2, <1>3, <1>4, <1>5, <1>6, <1>7, <1>8, <1>9, <1>10, <1>11, <1>12
  DEF MarketNext, Installing

LEMMA MarketNextReport ==
  ASSUME MarketInv, MarketNext
  PROVE  ReportInv'
<1>0. MarketTypeOK /\ ReportInv
  BY DEF MarketInv, MarketShape
<1>1. ASSUME NEW o \in Order, Resolve(o) \/ BreakOff(o) \/ Finish(o) PROVE ReportInv'
  <2>1. /\ stage' = [stage EXCEPT ![o] = stage'[o]] /\ stage[o] # "done"
        /\ report' = [report EXCEPT ![o] = report'[o]] /\ report'[o] \in {report[o], "failed"}
        /\ UNCHANGED pushed
    BY <1>0, <1>1 DEF MarketTypeOK, Resolve, BreakOff, Finish, At, To, Ended, NextStage
  <2> QED
    BY <1>0, <2>1 DEF MarketTypeOK, ReportInv, FullLength
<1>2. ASSUME NEW o \in Order,
             \/ CheckCache(o) \/ CreatePart(o) \/ WriteChunk(o) \/ LoseTail(o)
             \/ \E k \in {"fixed", "frida"} : PlaceOrder(o, k)
      PROVE  ReportInv'
  <2>1. /\ stage' = [stage EXCEPT ![o] = stage'[o]] /\ stage[o] # "done"
        /\ UNCHANGED <<report, pushed>>
    BY <1>0, <1>2 DEF MarketTypeOK, CheckCache, CreatePart, WriteChunk, LoseTail, PlaceOrder, At, To
  <2> QED
    BY <1>0, <2>1 DEF MarketTypeOK, ReportInv, FullLength
<1>3. ASSUME NEW o \in Order, Push(o) PROVE ReportInv'
  <2>1. /\ stage' = [stage EXCEPT ![o] = stage'[o]] /\ stage[o] = "push"
        /\ report' = [report EXCEPT ![o] = report'[o]] /\ report'[o] \in {report[o], "failed"}
        /\ pushed' = [pushed EXCEPT ![o] = pushed'[o]]
    BY <1>0, <1>3 DEF MarketTypeOK, Push, At, To, Ended
  <2> QED
    BY <1>0, <2>1 DEF MarketTypeOK, ReportInv, FullLength
<1>4. ASSUME NEW o \in Order, Verify(o) PROVE ReportInv'
  BY <1>0, <1>4 DEF MarketTypeOK, ReportInv, Verify, At, To, Ended, FullLength
<1>5. ASSUME Quit PROVE ReportInv'
  BY <1>0, <1>5 DEF MarketTypeOK, ReportInv, Quit, At, FullLength
<1>6. ASSUME Damage PROVE ReportInv'
  BY <1>0, <1>6 DEF ReportInv, Damage, FullLength
<1> QED
  BY <1>1, <1>2, <1>3, <1>4, <1>5, <1>6 DEF MarketNext, Installing

LEMMA MarketNextFile ==
  ASSUME MarketInv, MarketNext, ~shared'
  PROVE  FileInv'
<1> USE MarketAssumption
<1>1. ASSUME NEW o \in Order, Resolve(o) PROVE FileInv'
  BY <1>1 DEF MarketInv, MarketShape, MarketTypeOK, FileInv, AloneAtFile, WriterInv, WritesNow,
     FileOf, NoInode, File, ToolInv, Resolve, fileVars, streamVars, At, To, Noise, Ended
<1>2. ASSUME NEW o \in Order, CheckCache(o) PROVE FileInv'
  BY <1>2 DEF MarketInv, MarketShape, MarketTypeOK, FileInv, AloneAtFile, WriterInv, WritesNow,
     FileOf, NoInode, File, ToolInv, CheckCache, fileVars, streamVars, At, To, NextStage
<1>3. ASSUME NEW o \in Order, CreatePart(o) PROVE FileInv'
  <2>1. PICK f \in File, i \in Inode :
           /\ f = FileOf(o)
           /\ part[f] = i \/ (part[f] = NoInode /\ i \in Free)
           /\ part' = [part EXCEPT ![f] = i]
           /\ bytes' = [bytes EXCEPT ![i] = Empty]
           /\ into' = [into EXCEPT ![o] = i]
           /\ shared' = (shared \/ \E p \in Order : into[p] = i)
    BY <1>3, CreatedPart DEF MarketInv, MarketShape
  <2>2. ~shared /\ \A p \in Order : into[p] # i
    BY <2>1
  <2>3. UNCHANGED cached
    BY <1>3 DEF CreatePart
  <2> QED
    BY <2>1, <2>2, <2>3 DEF MarketInv, MarketShape, MarketTypeOK, FileInv, Free, NoInode, Inode
<1>4. ASSUME NEW o \in Order, WriteChunk(o) PROVE FileInv'
  BY <1>4 DEF MarketInv, MarketShape, MarketTypeOK, FileInv, AloneAtFile, WriterInv, WritesNow,
     FileOf, NoInode, File, ToolInv, WriteChunk, fileVars, streamVars, At, To, Noise
<1>5. ASSUME NEW o \in Order, BreakOff(o) PROVE FileInv'
  BY <1>5 DEF MarketInv, MarketShape, MarketTypeOK, FileInv, AloneAtFile, WriterInv, WritesNow,
     FileOf, NoInode, File, ToolInv, BreakOff, fileVars, streamVars, At, To, Noise, Ended,
     Close, DropPart
<1>6. ASSUME NEW o \in Order, Finish(o) PROVE FileInv'
  BY <1>6 DEF MarketInv, MarketShape, MarketTypeOK, FileInv, AloneAtFile, WriterInv, WritesNow,
     FileOf, NoInode, File, ToolInv, Finish, fileVars, streamVars, At, To, Ended, Close,
     DropPart, NextStage
<1>7. ASSUME NEW o \in Order, Push(o) PROVE FileInv'
  BY <1>7 DEF MarketInv, MarketShape, MarketTypeOK, FileInv, AloneAtFile, WriterInv, WritesNow,
     FileOf, NoInode, File, ToolInv, Push, fileVars, streamVars, At, To, Ended
<1>8. ASSUME NEW o \in Order, Verify(o) PROVE FileInv'
  BY <1>8 DEF MarketInv, MarketShape, MarketTypeOK, FileInv, AloneAtFile, WriterInv, WritesNow,
     FileOf, NoInode, File, ToolInv, Verify, fileVars, streamVars, At, To, Ended
<1>9. ASSUME NEW o \in Order, NEW k \in {"fixed", "frida"}, PlaceOrder(o, k)
     PROVE  FileInv'
  BY <1>9 DEF MarketInv, MarketShape, MarketTypeOK, FileInv, AloneAtFile, WriterInv, WritesNow,
     FileOf, NoInode, File, ToolInv, PlaceOrder, fileVars, streamVars, At, To
<1>10. ASSUME Quit PROVE FileInv'
  BY <1>10 DEF MarketInv, MarketShape, MarketTypeOK, FileInv, AloneAtFile, WriterInv, WritesNow,
     FileOf, NoInode, File, ToolInv, Quit, fileVars, streamVars, At, To
<1>11. ASSUME Damage PROVE FileInv'
  BY <1>11 DEF MarketInv, MarketShape, MarketTypeOK, FileInv, AloneAtFile, WriterInv, WritesNow,
     FileOf, NoInode, File, ToolInv, Damage, fileVars, streamVars, At, To, Noise
<1>12. ASSUME NEW o \in Order, LoseTail(o) PROVE FileInv'
  BY <1>12 DEF MarketInv, FileInv, LoseTail, fileVars
<1> QED
  BY <1>1, <1>2, <1>3, <1>4, <1>5, <1>6, <1>7, <1>8, <1>9, <1>10, <1>11, <1>12
  DEF MarketNext, Installing

LEMMA MarketNextAlone ==
  ASSUME MarketInv, MarketNext, ~shared'
  PROVE  AloneAtFile'
<1> USE MarketAssumption
<1>1. ASSUME NEW o \in Order, Resolve(o) PROVE AloneAtFile'
  BY <1>1 DEF MarketInv, MarketShape, MarketTypeOK, FileInv, AloneAtFile, WriterInv, WritesNow,
     FileOf, NoInode, File, ToolInv, Resolve, fileVars, streamVars, At, To, Noise, Ended
<1>2. ASSUME NEW o \in Order, CheckCache(o) PROVE AloneAtFile'
  BY <1>2 DEF MarketInv, MarketShape, MarketTypeOK, FileInv, AloneAtFile, WriterInv, WritesNow,
     FileOf, NoInode, File, ToolInv, CheckCache, fileVars, streamVars, At, To, NextStage
<1>3. ASSUME NEW o \in Order, CreatePart(o) PROVE AloneAtFile'
  <2>1. PICK f \in File, i \in Inode :
           /\ f = FileOf(o)
           /\ part[f] = i \/ (part[f] = NoInode /\ i \in Free)
           /\ part' = [part EXCEPT ![f] = i]
           /\ bytes' = [bytes EXCEPT ![i] = Empty]
           /\ into' = [into EXCEPT ![o] = i]
           /\ shared' = (shared \/ \E p \in Order : into[p] = i)
    BY <1>3, CreatedPart DEF MarketInv, MarketShape
  <2>2. ~shared /\ \A p \in Order : into[p] # i
    BY <2>1
  <2> QED
    BY <2>1, <2>2 DEF MarketInv, MarketShape, MarketTypeOK, AloneAtFile
<1>4. ASSUME NEW o \in Order, WriteChunk(o) PROVE AloneAtFile'
  BY <1>4 DEF MarketInv, MarketShape, MarketTypeOK, FileInv, AloneAtFile, WriterInv, WritesNow,
     FileOf, NoInode, File, ToolInv, WriteChunk, fileVars, streamVars, At, To, Noise
<1>5. ASSUME NEW o \in Order, BreakOff(o) PROVE AloneAtFile'
  BY <1>5 DEF MarketInv, MarketShape, MarketTypeOK, FileInv, AloneAtFile, WriterInv, WritesNow,
     FileOf, NoInode, File, ToolInv, BreakOff, fileVars, streamVars, At, To, Noise, Ended,
     Close, DropPart
<1>6. ASSUME NEW o \in Order, Finish(o) PROVE AloneAtFile'
  BY <1>6 DEF MarketInv, MarketShape, MarketTypeOK, FileInv, AloneAtFile, WriterInv, WritesNow,
     FileOf, NoInode, File, ToolInv, Finish, fileVars, streamVars, At, To, Ended, Close,
     DropPart, NextStage
<1>7. ASSUME NEW o \in Order, Push(o) PROVE AloneAtFile'
  BY <1>7 DEF MarketInv, MarketShape, MarketTypeOK, FileInv, AloneAtFile, WriterInv, WritesNow,
     FileOf, NoInode, File, ToolInv, Push, fileVars, streamVars, At, To, Ended
<1>8. ASSUME NEW o \in Order, Verify(o) PROVE AloneAtFile'
  BY <1>8 DEF MarketInv, MarketShape, MarketTypeOK, FileInv, AloneAtFile, WriterInv, WritesNow,
     FileOf, NoInode, File, ToolInv, Verify, fileVars, streamVars, At, To, Ended
<1>9. ASSUME NEW o \in Order, NEW k \in {"fixed", "frida"}, PlaceOrder(o, k)
     PROVE  AloneAtFile'
  BY <1>9 DEF MarketInv, MarketShape, MarketTypeOK, FileInv, AloneAtFile, WriterInv, WritesNow,
     FileOf, NoInode, File, ToolInv, PlaceOrder, fileVars, streamVars, At, To
<1>10. ASSUME Quit PROVE AloneAtFile'
  BY <1>10 DEF MarketInv, MarketShape, MarketTypeOK, FileInv, AloneAtFile, WriterInv, WritesNow,
     FileOf, NoInode, File, ToolInv, Quit, fileVars, streamVars, At, To
<1>11. ASSUME Damage PROVE AloneAtFile'
  BY <1>11 DEF MarketInv, MarketShape, MarketTypeOK, FileInv, AloneAtFile, WriterInv, WritesNow,
     FileOf, NoInode, File, ToolInv, Damage, fileVars, streamVars, At, To, Noise
<1>12. ASSUME NEW o \in Order, LoseTail(o) PROVE AloneAtFile'
  BY <1>12 DEF MarketInv, AloneAtFile, LoseTail
<1> QED
  BY <1>1, <1>2, <1>3, <1>4, <1>5, <1>6, <1>7, <1>8, <1>9, <1>10, <1>11, <1>12
  DEF MarketNext, Installing

LEMMA MarketNextWriter ==
  ASSUME MarketInv, MarketNext, ~shared', NEW q \in Order
  PROVE  WriterInv(q)'
<1> USE MarketAssumption
<1>1. ASSUME NEW o \in Order, Resolve(o) PROVE WriterInv(q)'
  BY <1>1 DEF MarketInv, MarketShape, MarketTypeOK, FileInv, AloneAtFile, WriterInv, WritesNow,
     FileOf, NoInode, File, ToolInv, Resolve, fileVars, streamVars, At, To, Noise, Ended
<1>2. ASSUME NEW o \in Order, CheckCache(o) PROVE WriterInv(q)'
  BY <1>2 DEF MarketInv, MarketShape, MarketTypeOK, FileInv, AloneAtFile, WriterInv, WritesNow,
     FileOf, NoInode, File, ToolInv, CheckCache, fileVars, streamVars, At, To, NextStage
<1>3. ASSUME NEW o \in Order, CreatePart(o) PROVE WriterInv(q)'
  <2>1. PICK f \in File, i \in Inode :
           /\ f = FileOf(o)
           /\ part[f] = i \/ (part[f] = NoInode /\ i \in Free)
           /\ part' = [part EXCEPT ![f] = i]
           /\ bytes' = [bytes EXCEPT ![i] = Empty]
           /\ into' = [into EXCEPT ![o] = i]
           /\ shared' = (shared \/ \E p \in Order : into[p] = i)
    BY <1>3, CreatedPart DEF MarketInv, MarketShape
  <2>2. ~shared /\ \A p \in Order : into[p] # i
    BY <2>1
  <2>3. /\ stage' = [stage EXCEPT ![o] = IF stage[o] = "fetch" THEN "stream" ELSE "fill"]
        /\ clean' = [clean EXCEPT ![o] = TRUE] /\ stage[o] \in {"fetch", "open"} /\ tool' = tool
    BY <1>3 DEF CreatePart, At, To
  <2>4. CASE q = o
    BY <2>1, <2>3, <2>4 DEF MarketInv, MarketShape, MarketTypeOK, ToolInv, WriterInv, WritesNow,
       FileOf, At, NoInode, Inode
  <2>5. CASE q # o
    <3>1. WriterInv(q) /\ (WritesNow(q) => part[FileOf(q)] # i)
      BY <2>2 DEF MarketInv, WriterInv
    <3>2. part'[FileOf(q)] = part[FileOf(q)] \/ ~WritesNow(q)
      BY <2>1, <2>2, <3>1 DEF MarketInv, MarketShape, MarketTypeOK, WriterInv, FileOf, File
    <3> QED
      BY <2>1, <2>3, <2>5, <3>1, <3>2 DEF MarketInv, MarketShape, MarketTypeOK, WriterInv,
         WritesNow,
         FileOf
  <2> QED
    BY <2>4, <2>5
<1>4. ASSUME NEW o \in Order, WriteChunk(o) PROVE WriterInv(q)'
  <2>1. PICK b \in {"good", "bad"} :
             /\ clean' = [clean EXCEPT ![o] = clean[o] /\ b = "good"]
             /\ b = "bad" => stage[o] = "stream"
    BY <1>4 DEF WriteChunk, At
  <2>2. UNCHANGED <<stage, tool, into, part>>
    BY <1>4 DEF WriteChunk
  <2>3. WriterInv(q)
    BY <1>4 DEF MarketInv, WriteChunk
  <2>4. stage[q] = "fill" => clean'[q]
    BY <2>1, <2>3 DEF MarketInv, MarketShape, MarketTypeOK, WriterInv
  <2> QED
    BY <2>2, <2>3, <2>4 DEF WriterInv, WritesNow, FileOf
<1>5. ASSUME NEW o \in Order, BreakOff(o) PROVE WriterInv(q)'
  <2>1. /\ into' = [into EXCEPT ![o] = NoInode] /\ stage' = [stage EXCEPT ![o] = "done"]
        /\ UNCHANGED <<tool, clean, shared>>
    BY <1>5 DEF BreakOff, Close, Ended, To
  <2>2. part' = part \/ (WritesNow(o) /\ part' = [part EXCEPT ![FileOf(o)] = NoInode])
    BY <1>5 DEF MarketInv, MarketShape, ToolInv, BreakOff, DropPart, WritesNow, FileOf, At
  <2>3. CASE q = o
    BY <2>1, <2>3 DEF MarketInv, MarketShape, MarketTypeOK, WriterInv, WritesNow
  <2>4. CASE q # o
    <3>1. WriterInv(q) /\ (WritesNow(q) /\ WritesNow(o) => part[FileOf(q)] # part[FileOf(o)])
      BY <2>1, <2>4 DEF MarketInv, WriterInv, AloneAtFile
    <3>2. WritesNow(q) => part'[FileOf(q)] = part[FileOf(q)]
      BY <2>2, <3>1 DEF MarketInv, MarketShape, MarketTypeOK, FileOf, File
    <3> QED
      BY <2>1, <2>4, <3>1, <3>2 DEF MarketInv, MarketShape, MarketTypeOK, WriterInv, WritesNow,
         FileOf
  <2> QED
    BY <2>3, <2>4
<1>6. ASSUME NEW o \in Order, Finish(o) PROVE WriterInv(q)'
  BY <1>6 DEF MarketInv, MarketShape, MarketTypeOK, FileInv, AloneAtFile, WriterInv, WritesNow,
     FileOf, NoInode, File, ToolInv, Finish, fileVars, streamVars, At, To, Ended, Close,
     DropPart, NextStage
<1>7. ASSUME NEW o \in Order, Push(o) PROVE WriterInv(q)'
  BY <1>7 DEF MarketInv, MarketShape, MarketTypeOK, FileInv, AloneAtFile, WriterInv, WritesNow,
     FileOf, NoInode, File, ToolInv, Push, fileVars, streamVars, At, To, Ended
<1>8. ASSUME NEW o \in Order, Verify(o) PROVE WriterInv(q)'
  BY <1>8 DEF MarketInv, MarketShape, MarketTypeOK, FileInv, AloneAtFile, WriterInv, WritesNow,
     FileOf, NoInode, File, ToolInv, Verify, fileVars, streamVars, At, To, Ended
<1>9. ASSUME NEW o \in Order, NEW k \in {"fixed", "frida"}, PlaceOrder(o, k)
     PROVE  WriterInv(q)'
  BY <1>9 DEF MarketInv, MarketShape, MarketTypeOK, FileInv, AloneAtFile, WriterInv, WritesNow,
     FileOf, NoInode, File, ToolInv, PlaceOrder, fileVars, streamVars, At, To
<1>10. ASSUME Quit PROVE WriterInv(q)'
  BY <1>10 DEF MarketInv, MarketShape, MarketTypeOK, FileInv, AloneAtFile, WriterInv, WritesNow,
     FileOf, NoInode, File, ToolInv, Quit, fileVars, streamVars, At, To
<1>11. ASSUME Damage PROVE WriterInv(q)'
  BY <1>11 DEF MarketInv, MarketShape, MarketTypeOK, FileInv, AloneAtFile, WriterInv, WritesNow,
     FileOf, NoInode, File, ToolInv, Damage, fileVars, streamVars, At, To, Noise
<1>12. ASSUME NEW o \in Order, LoseTail(o) PROVE WriterInv(q)'
  BY <1>12 DEF MarketInv, WriterInv, WritesNow, FileOf, LoseTail, fileVars
<1> QED
  BY <1>1, <1>2, <1>3, <1>4, <1>5, <1>6, <1>7, <1>8, <1>9, <1>10, <1>11, <1>12
  DEF MarketNext, Installing

LEMMA MarketNextWritten ==
  ASSUME MarketInv, MarketNext, ~shared', NEW q \in Order
  PROVE  WrittenInv(q)'
<1> USE MarketAssumption
<1>1. ASSUME NEW o \in Order, Resolve(o) PROVE WrittenInv(q)'
  <2>1. WrittenInv(q) /\ (WritesNow(q)' => WritesNow(q))
    BY <1>1 DEF MarketInv, MarketShape, MarketTypeOK, WritesNow, Resolve, fileVars, streamVars,
       At, To, Noise, Ended
  <2>2. UNCHANGED <<into, wrote, clean, bytes, unflushed>>
    BY <1>1 DEF Resolve, fileVars, streamVars, At, To, Noise, Ended
  <2> QED
    BY <2>1, <2>2 DEF WrittenInv
<1>2. ASSUME NEW o \in Order, CheckCache(o) PROVE WrittenInv(q)'
  <2>1. WrittenInv(q) /\ (WritesNow(q)' => WritesNow(q))
    BY <1>2 DEF MarketInv, MarketShape, MarketTypeOK, WritesNow, CheckCache, fileVars,
       streamVars, At, To, NextStage
  <2>2. UNCHANGED <<into, wrote, clean, bytes, unflushed>>
    BY <1>2 DEF CheckCache, fileVars, streamVars, At, To, NextStage
  <2> QED
    BY <2>1, <2>2 DEF WrittenInv
<1>3. ASSUME NEW o \in Order, CreatePart(o) PROVE WrittenInv(q)'
  <2>1. PICK f \in File, i \in Inode :
           /\ f = FileOf(o)
           /\ part[f] = i \/ (part[f] = NoInode /\ i \in Free)
           /\ part' = [part EXCEPT ![f] = i]
           /\ bytes' = [bytes EXCEPT ![i] = Empty]
           /\ into' = [into EXCEPT ![o] = i]
           /\ shared' = (shared \/ \E p \in Order : into[p] = i)
    BY <1>3, CreatedPart DEF MarketInv, MarketShape
  <2>2. ~shared /\ \A p \in Order : into[p] # i
    BY <2>1
  <2>3. /\ wrote' = [wrote EXCEPT ![o] = 0] /\ clean' = [clean EXCEPT ![o] = TRUE]
        /\ stage' = [stage EXCEPT ![o] = stage'[o]] /\ UNCHANGED unflushed
    BY <1>3 DEF MarketInv, MarketShape, MarketTypeOK, CreatePart, To
  <2>4. CASE q = o
    <3>1. wrote'[o] = 0 /\ into'[o] = i /\ bytes'[i] = Empty
      BY <2>1, <2>3 DEF MarketInv, MarketShape, MarketTypeOK
    <3>2. \A c \in Chunk : c > 0 /\ Empty[c] = "none"
      BY DEF Chunk, Empty
    <3> QED
      BY <2>4, <3>1, <3>2 DEF WrittenInv, Chunk
  <2>5. CASE q # o
    <3>1. /\ into'[q] = into[q] /\ wrote'[q] = wrote[q] /\ clean'[q] = clean[q]
          /\ stage'[q] = stage[q] /\ into[q] # i
      BY <2>1, <2>2, <2>3, <2>5 DEF MarketInv, MarketShape, MarketTypeOK
    <3>2. WrittenInv(q) /\ (WritesNow(q) => into[q] \in Inode)
      BY <2>2 DEF MarketInv, MarketShape, MarketTypeOK, WriterInv
    <3>3. WritesNow(q) => bytes'[into[q]] = bytes[into[q]]
      BY <2>1, <3>1, <3>2 DEF MarketInv, MarketShape, MarketTypeOK
    <3> QED
      BY <2>3, <3>1, <3>2, <3>3 DEF WrittenInv, WritesNow
  <2> QED
    BY <2>4, <2>5
<1>4. ASSUME NEW o \in Order, WriteChunk(o) PROVE WrittenInv(q)'
  <2>1. PICK b \in {"good", "bad"} :
             /\ bytes' = [bytes EXCEPT ![into[o]][wrote[o] + 1] = b]
             /\ clean' = [clean EXCEPT ![o] = clean[o] /\ b = "good"]
             /\ wrote' = [wrote EXCEPT ![o] = wrote[o] + 1]
    BY <1>4 DEF WriteChunk
  <2>2. /\ wrote[o] \in 0..(Size - 1) /\ WritesNow(o)
        /\ UNCHANGED <<stage, into, shared, unflushed>>
    BY <1>4 DEF MarketInv, MarketShape, MarketTypeOK, WriteChunk, At, WritesNow
  <2>3. into[o] \in Inode
    BY <2>2 DEF MarketInv, MarketShape, MarketTypeOK, WriterInv
  <2>6. WrittenInv(q)
    BY <2>2 DEF MarketInv
  <2>4. CASE q = o
    <3>1. wrote'[o] = wrote[o] + 1 /\ (clean'[o] => clean[o] /\ b = "good")
      BY <2>1 DEF MarketInv, MarketShape, MarketTypeOK
    <3>2. \A c \in Chunk : bytes'[into[o]][c] = IF c = wrote[o] + 1 THEN b ELSE bytes[into[o]][c]
      BY <2>1, <2>3 DEF MarketInv, MarketShape, MarketTypeOK
    <3>3. \A c \in Chunk :
            /\ c > wrote[o] + 1 => c > wrote[o] /\ c # wrote[o] + 1
            /\ c <= wrote[o] + 1 => c <= wrote[o] \/ c = wrote[o] + 1
            /\ c <= wrote[o] => c # wrote[o] + 1
      BY <2>2 DEF Chunk
    <3> QED
      BY <2>2, <2>4, <2>6, <3>1, <3>2, <3>3 DEF WrittenInv, WritesNow
  <2>5. CASE q # o
    <3>1. wrote'[q] = wrote[q] /\ clean'[q] = clean[q]
      BY <2>1, <2>5 DEF MarketInv, MarketShape, MarketTypeOK
    <3>2. WritesNow(q) => into[q] \in Inode /\ into[q] # into[o]
      BY <2>2, <2>5 DEF MarketInv, MarketShape, MarketTypeOK, WriterInv, AloneAtFile
    <3>3. WritesNow(q) => bytes'[into[q]] = bytes[into[q]]
      BY <2>1, <2>3, <3>2 DEF MarketInv, MarketShape, MarketTypeOK
    <3> QED
      BY <2>2, <2>6, <3>1, <3>3 DEF WrittenInv, WritesNow
  <2> QED
    BY <2>4, <2>5
<1>5. ASSUME NEW o \in Order, BreakOff(o) PROVE WrittenInv(q)'
  <2>1. UNCHANGED <<wrote, clean, bytes, shared, unflushed>> /\ into' = [into EXCEPT ![o] = NoInode]
    BY <1>5 DEF BreakOff, Close
  <2>2. stage' = [stage EXCEPT ![o] = stage'[o]] /\ stage'[o] \notin {"stream", "fill"}
    BY <1>5 DEF MarketInv, MarketShape, MarketTypeOK, BreakOff, fileVars, streamVars, At, To,
       Noise, Ended, Close, DropPart
  <2>3. CASE q = o
    BY <2>2, <2>3 DEF MarketInv, MarketShape, MarketTypeOK, WrittenInv, WritesNow
  <2>4. CASE q # o
    BY <2>1, <2>2, <2>4 DEF MarketInv, MarketShape, MarketTypeOK, WrittenInv, WritesNow
  <2> QED
    BY <2>3, <2>4
<1>6. ASSUME NEW o \in Order, Finish(o) PROVE WrittenInv(q)'
  <2>1. UNCHANGED <<wrote, clean, bytes, shared, unflushed>> /\ into' = [into EXCEPT ![o] = NoInode]
    BY <1>6 DEF Finish, Close
  <2>2. stage' = [stage EXCEPT ![o] = stage'[o]] /\ stage'[o] \notin {"stream", "fill"}
    BY <1>6 DEF MarketInv, MarketShape, MarketTypeOK, Finish, fileVars, streamVars, At, To,
       Ended, Close, DropPart, NextStage
  <2>3. CASE q = o
    BY <2>2, <2>3 DEF MarketInv, MarketShape, MarketTypeOK, WrittenInv, WritesNow
  <2>4. CASE q # o
    BY <2>1, <2>2, <2>4 DEF MarketInv, MarketShape, MarketTypeOK, WrittenInv, WritesNow
  <2> QED
    BY <2>3, <2>4
<1>7. ASSUME NEW o \in Order, Push(o) PROVE WrittenInv(q)'
  <2>1. WrittenInv(q) /\ (WritesNow(q)' => WritesNow(q))
    BY <1>7 DEF MarketInv, MarketShape, MarketTypeOK, WritesNow, Push, fileVars, streamVars, At,
       To, Ended
  <2>2. UNCHANGED <<into, wrote, clean, bytes, unflushed>>
    BY <1>7 DEF Push, fileVars, streamVars, At, To, Ended
  <2> QED
    BY <2>1, <2>2 DEF WrittenInv
<1>8. ASSUME NEW o \in Order, Verify(o) PROVE WrittenInv(q)'
  <2>1. WrittenInv(q) /\ (WritesNow(q)' => WritesNow(q))
    BY <1>8 DEF MarketInv, MarketShape, MarketTypeOK, WritesNow, Verify, fileVars, streamVars,
       At, To, Ended
  <2>2. UNCHANGED <<into, wrote, clean, bytes, unflushed>>
    BY <1>8 DEF Verify, fileVars, streamVars, At, To, Ended
  <2> QED
    BY <2>1, <2>2 DEF WrittenInv
<1>9. ASSUME NEW o \in Order, NEW k \in {"fixed", "frida"}, PlaceOrder(o, k)
     PROVE  WrittenInv(q)'
  <2>1. WrittenInv(q) /\ (WritesNow(q)' => WritesNow(q))
    BY <1>9 DEF MarketInv, MarketShape, MarketTypeOK, WritesNow, PlaceOrder, fileVars,
       streamVars, At, To
  <2>2. UNCHANGED <<into, wrote, clean, bytes, unflushed>>
    BY <1>9 DEF PlaceOrder, fileVars, streamVars, At, To
  <2> QED
    BY <2>1, <2>2 DEF WrittenInv
<1>10. ASSUME Quit PROVE WrittenInv(q)'
  BY <1>10 DEF MarketInv, MarketShape, MarketTypeOK, WrittenInv, WritesNow, Quit, fileVars,
     streamVars, At, To
<1>11. ASSUME Damage PROVE WrittenInv(q)'
  BY <1>11 DEF MarketInv, MarketShape, MarketTypeOK, WrittenInv, WritesNow, Damage, fileVars,
     streamVars, At, To, Noise
<1>12. ASSUME NEW o \in Order, LoseTail(o) PROVE WrittenInv(q)'
  <2>1. /\ wrote' = [wrote EXCEPT ![o] = Size] /\ wrote[o] = Size - 1 /\ unflushed'
        /\ WritesNow(o) /\ UNCHANGED <<into, clean, bytes, stage, shared>>
    BY <1>12 DEF LoseTail, fileVars, At, WritesNow
  <2>2. WrittenInv(q)
    BY <2>1 DEF MarketInv
  <2>3. CASE q = o
    <3>1. wrote'[o] = Size /\ \A c \in Chunk : c <= Size - 1 \/ c = Size
      BY <2>1 DEF MarketInv, MarketShape, MarketTypeOK, Chunk
    <3> QED
      BY <2>1, <2>2, <2>3, <3>1 DEF WrittenInv, WritesNow, Chunk
  <2>4. CASE q # o
    <3>1. wrote'[q] = wrote[q]
      BY <2>1, <2>4 DEF MarketInv, MarketShape, MarketTypeOK
    <3> QED
      BY <2>1, <2>2, <3>1 DEF WrittenInv, WritesNow
  <2> QED
    BY <2>3, <2>4
<1> QED
  BY <1>1, <1>2, <1>3, <1>4, <1>5, <1>6, <1>7, <1>8, <1>9, <1>10, <1>11, <1>12
  DEF MarketNext, Installing

LEMMA MarketNextPush ==
  ASSUME MarketInv, MarketNext, ~shared', NEW q \in Order
  PROVE  PushInv(q)'
<1> USE MarketAssumption
<1>1. ASSUME NEW o \in Order, Resolve(o) PROVE PushInv(q)'
  <2>1. PushInv(q) /\ (stage'[q] = "push" => stage[q] = "push" /\ tool'[q] = tool[q])
    BY <1>1 DEF MarketInv, MarketShape, MarketTypeOK, Resolve, fileVars, streamVars, At, To,
       Noise, Ended
  <2>2. UNCHANGED <<cached, bytes, unflushed>>
    BY <1>1 DEF Resolve, fileVars, streamVars, At, To, Noise, Ended
  <2> QED
    BY <2>1, <2>2 DEF PushInv, Payload, Sound, Whole, Cut
<1>2. ASSUME NEW o \in Order, CheckCache(o) PROVE PushInv(q)'
  <2>1. UNCHANGED <<bytes, tool, shared, unflushed>> /\ \A f \in File : cached'[f] \in {cached[f], NoInode}
    BY <1>2 DEF MarketInv, MarketShape, MarketTypeOK, CheckCache, fileVars
  <2>2. stage' = [stage EXCEPT ![o] = stage'[o]]
    BY <1>2 DEF MarketInv, MarketShape, MarketTypeOK, CheckCache, To
  <2>3. CASE q = o
    <3>1. stage'[o] = "push" => /\ cached' = cached /\ Payload(o) = "archive"
                               /\ Whole(bytes[cached["archive"]])
      BY <1>2 DEF MarketInv, MarketShape, MarketTypeOK, CheckCache, To, NextStage, Payload
    <3> QED
      BY <2>1, <2>3, <3>1 DEF PushInv, Payload, Sound, Whole, Cut
  <2>4. CASE q # o
    <3>1. PushInv(q) /\ stage'[q] = stage[q] /\ Payload(q) \in File
      BY <2>1, <2>2, <2>4 DEF MarketInv, MarketShape, MarketTypeOK, Payload, File
    <3> QED
      BY <2>1, <3>1 DEF PushInv, Payload, Sound, Whole, Cut
  <2> QED
    BY <2>3, <2>4
<1>3. ASSUME NEW o \in Order, CreatePart(o) PROVE PushInv(q)'
  <2>1. PICK f \in File, i \in Inode :
           /\ f = FileOf(o)
           /\ part[f] = i \/ (part[f] = NoInode /\ i \in Free)
           /\ part' = [part EXCEPT ![f] = i]
           /\ bytes' = [bytes EXCEPT ![i] = Empty]
           /\ into' = [into EXCEPT ![o] = i]
           /\ shared' = (shared \/ \E p \in Order : into[p] = i)
    BY <1>3, CreatedPart DEF MarketInv, MarketShape
  <2>2. ~shared /\ \A p \in Order : into[p] # i
    BY <2>1
  <2>3. stage'[q] = "push" => stage[q] = "push"
    BY <1>3 DEF MarketInv, MarketShape, MarketTypeOK, CreatePart, To
  <2>4. UNCHANGED <<cached, tool, unflushed>>
    BY <1>3 DEF CreatePart
  <2>5. \A g \in File : cached[g] # i
    BY <2>1, <2>2 DEF MarketInv, FileInv, Free, Inode, NoInode
  <2>6. cached[Payload(q)] # NoInode =>
          cached[Payload(q)] \in Inode /\ bytes'[cached[Payload(q)]] = bytes[cached[Payload(q)]]
    BY <2>1, <2>5 DEF MarketInv, MarketShape, MarketTypeOK, Payload, File
  <2> QED
    BY <2>2, <2>3, <2>4, <2>6 DEF MarketInv, PushInv, Payload, Sound, Whole, Cut
<1>4. ASSUME NEW o \in Order, WriteChunk(o) PROVE PushInv(q)'
  <2>1. PICK b \in {"good", "bad"} : bytes' = [bytes EXCEPT ![into[o]][wrote[o] + 1] = b]
    BY <1>4 DEF WriteChunk
  <2>2. WritesNow(o) /\ UNCHANGED <<stage, tool, cached, shared, unflushed>>
    BY <1>4 DEF WriteChunk, At, WritesNow
  <2>3. \A g \in File : cached[g] # into[o]
    BY <2>2 DEF MarketInv, WriterInv, FileInv, FileOf, File
  <2>4. cached[Payload(q)] # NoInode =>
          cached[Payload(q)] \in Inode /\ bytes'[cached[Payload(q)]] = bytes[cached[Payload(q)]]
    BY <2>1, <2>3 DEF MarketInv, MarketShape, MarketTypeOK, Payload, File
  <2> QED
    BY <2>2, <2>4 DEF MarketInv, PushInv, Payload, Sound, Whole, Cut
<1>5. ASSUME NEW o \in Order, BreakOff(o) PROVE PushInv(q)'
  <2>1. PushInv(q) /\ (stage'[q] = "push" => stage[q] = "push" /\ tool'[q] = tool[q])
    BY <1>5 DEF MarketInv, MarketShape, MarketTypeOK, BreakOff, fileVars, streamVars, At, To,
       Noise, Ended, Close, DropPart
  <2>2. UNCHANGED <<cached, bytes, unflushed>>
    BY <1>5 DEF BreakOff, fileVars, streamVars, At, To, Noise, Ended, Close, DropPart
  <2> QED
    BY <2>1, <2>2 DEF PushInv, Payload, Sound, Whole, Cut
<1>6. ASSUME NEW o \in Order, Finish(o) PROVE PushInv(q)'
  <2> DEFINE f == FileOf(o)
  <2>1. f \in File /\ Payload(q) \in File
    BY DEF FileOf, Payload, File
  <2>2. UNCHANGED <<bytes, tool, shared, unflushed>> /\ WritesNow(o) /\ wrote[o] = Size
    BY <1>6 DEF Finish, At, WritesNow
  <2>3. cached' = cached \/ (cached' = [cached EXCEPT ![f] = part[f]] /\ clean[o])
    BY <1>6 DEF Finish
  <2>4. clean[o] => part[f] # NoInode /\ Sound(bytes[part[f]])
    <3>1. into[o] = part[f] /\ into[o] # NoInode /\ WrittenInv(o)
      BY <2>2 DEF MarketInv, WriterInv
    <3>2. \A c \in Chunk : c <= Size
      BY DEF Chunk
    <3>3. Size \in Chunk
      BY DEF Chunk
    <3> SUFFICES ASSUME clean[o] PROVE Sound(bytes[into[o]])
      BY <3>1
    <3>4. \A c \in Chunk :
            \/ bytes[into[o]][c] = "good"
            \/ c = Size /\ bytes[into[o]][c] = "none" /\ unflushed
      <4> SUFFICES ASSUME NEW c \in Chunk
                   PROVE  \/ bytes[into[o]][c] = "good"
                          \/ c = Size /\ bytes[into[o]][c] = "none" /\ unflushed
        OBVIOUS
      <4>1. c <= wrote[o]
        BY <2>2, <3>2
      <4> QED
        BY <2>2, <3>1, <4>1, Zenon DEF WrittenInv
    <3> QED
      BY <3>3, <3>4 DEF Sound, Whole, Cut
  <2>5. cached'[f] = part[f] \/ stage'[o] # "push"
    BY <1>6, <2>1 DEF MarketInv, MarketShape, MarketTypeOK, Finish, Ended, To
  <2>6. CASE q = o
    <3>1. stage'[o] = "push" => Payload(o) = f /\ clean[o] /\ cached'[f] = part[f]
      BY <1>6, <2>5 DEF MarketInv, MarketShape, MarketTypeOK, ToolInv, Finish, Ended, To,
         NextStage,
         At, Payload, FileOf
    <3> QED
      BY <2>2, <2>4, <2>6, <3>1 DEF PushInv, Payload, Sound, Whole, Cut
  <2>7. CASE q # o
    <3>1. PushInv(q) /\ (stage'[q] = "push" => stage[q] = "push")
      BY <1>6, <2>2, <2>7 DEF MarketInv, MarketShape, MarketTypeOK, Finish, Ended, To
    <3>2. cached'[Payload(q)] = cached[Payload(q)] \/ Sound(bytes[cached'[Payload(q)]])
      BY <2>1, <2>3, <2>4 DEF MarketInv, MarketShape, MarketTypeOK
    <3> QED
      BY <2>2, <3>1, <3>2 DEF PushInv, Payload, Sound, Whole, Cut
  <2> QED
    BY <2>6, <2>7
<1>7. ASSUME NEW o \in Order, Push(o) PROVE PushInv(q)'
  <2>1. PushInv(q) /\ (stage'[q] = "push" => stage[q] = "push" /\ tool'[q] = tool[q])
    BY <1>7 DEF MarketInv, MarketShape, MarketTypeOK, Push, fileVars, streamVars, At, To, Ended
  <2>2. UNCHANGED <<cached, bytes, unflushed>>
    BY <1>7 DEF Push, fileVars, streamVars, At, To, Ended
  <2> QED
    BY <2>1, <2>2 DEF PushInv, Payload, Sound, Whole, Cut
<1>8. ASSUME NEW o \in Order, Verify(o) PROVE PushInv(q)'
  <2>1. PushInv(q) /\ (stage'[q] = "push" => stage[q] = "push" /\ tool'[q] = tool[q])
    BY <1>8 DEF MarketInv, MarketShape, MarketTypeOK, Verify, fileVars, streamVars, At, To, Ended
  <2>2. UNCHANGED <<cached, bytes, unflushed>>
    BY <1>8 DEF Verify, fileVars, streamVars, At, To, Ended
  <2> QED
    BY <2>1, <2>2 DEF PushInv, Payload, Sound, Whole, Cut
<1>9. ASSUME NEW o \in Order, NEW k \in {"fixed", "frida"}, PlaceOrder(o, k)
     PROVE  PushInv(q)'
  <2>1. PushInv(q) /\ (stage'[q] = "push" => stage[q] = "push" /\ tool'[q] = tool[q])
    BY <1>9 DEF MarketInv, MarketShape, MarketTypeOK, PlaceOrder, fileVars, streamVars, At, To
  <2>2. UNCHANGED <<cached, bytes, unflushed>>
    BY <1>9 DEF PlaceOrder, fileVars, streamVars, At, To
  <2> QED
    BY <2>1, <2>2 DEF PushInv, Payload, Sound, Whole, Cut
<1>10. ASSUME Quit PROVE PushInv(q)'
  BY <1>10 DEF MarketInv, MarketShape, MarketTypeOK, PushInv, Quit, fileVars, streamVars, At, To
<1>11. ASSUME Damage PROVE PushInv(q)'
  BY <1>11 DEF MarketInv, MarketShape, MarketTypeOK, PushInv, Damage, fileVars, streamVars, At,
     To, Noise
<1>12. ASSUME NEW o \in Order, LoseTail(o) PROVE PushInv(q)'
  BY <1>12 DEF MarketInv, PushInv, Payload, Sound, Whole, Cut, LoseTail, fileVars
<1> QED
  BY <1>1, <1>2, <1>3, <1>4, <1>5, <1>6, <1>7, <1>8, <1>9, <1>10, <1>11, <1>12
  DEF MarketNext, Installing

LEMMA MarketNextSent ==
  ASSUME MarketInv, MarketNext, ~shared', NEW q \in Order
  PROVE  SentInv(q)'
<1> USE MarketAssumption
<1>1. ASSUME NEW o \in Order, Resolve(o) PROVE SentInv(q)'
  BY <1>1 DEF MarketInv, SentInv, Sound, Whole, Cut, Resolve
<1>2. ASSUME NEW o \in Order, CheckCache(o) PROVE SentInv(q)'
  BY <1>2 DEF MarketInv, SentInv, Sound, Whole, Cut, CheckCache
<1>3. ASSUME NEW o \in Order, CreatePart(o) PROVE SentInv(q)'
  BY <1>3 DEF MarketInv, SentInv, Sound, Whole, Cut, CreatePart
<1>4. ASSUME NEW o \in Order, WriteChunk(o) PROVE SentInv(q)'
  BY <1>4 DEF MarketInv, SentInv, Sound, Whole, Cut, WriteChunk
<1>5. ASSUME NEW o \in Order, BreakOff(o) PROVE SentInv(q)'
  BY <1>5 DEF MarketInv, SentInv, Sound, Whole, Cut, BreakOff
<1>6. ASSUME NEW o \in Order, Finish(o) PROVE SentInv(q)'
  BY <1>6 DEF MarketInv, SentInv, Sound, Whole, Cut, Finish
<1>7. ASSUME NEW o \in Order, Push(o) PROVE SentInv(q)'
  <2> DEFINE i == cached[Payload(o)]
  <2>1. pushed' = pushed \/ (i # NoInode /\ pushed' = [pushed EXCEPT ![o] = bytes[i]])
    BY <1>7 DEF Push
  <2>2. i # NoInode => Sound(bytes[i])
    BY <1>7 DEF MarketInv, PushInv, Push, At
  <2>3. SentInv(q) /\ UNCHANGED unflushed
    BY <1>7 DEF MarketInv, Push
  <2>4. pushed'[q] = pushed[q] \/ (i # NoInode /\ pushed'[q] = bytes[i])
    BY <2>1 DEF MarketInv, MarketShape, MarketTypeOK
  <2> QED
    BY <2>2, <2>3, <2>4 DEF SentInv, Sound, Whole, Cut
<1>8. ASSUME NEW o \in Order, Verify(o) PROVE SentInv(q)'
  BY <1>8 DEF MarketInv, SentInv, Sound, Whole, Cut, Verify
<1>9. ASSUME NEW o \in Order, NEW k \in {"fixed", "frida"}, PlaceOrder(o, k)
     PROVE  SentInv(q)'
  BY <1>9 DEF MarketInv, SentInv, Sound, Whole, Cut, PlaceOrder
<1>10. ASSUME Quit PROVE SentInv(q)'
  BY <1>10 DEF MarketInv, SentInv, Sound, Whole, Cut, Quit
<1>11. ASSUME Damage PROVE SentInv(q)'
  BY <1>11 DEF MarketInv, SentInv, Sound, Whole, Cut, Damage
<1>12. ASSUME NEW o \in Order, LoseTail(o) PROVE SentInv(q)'
  BY <1>12 DEF MarketInv, SentInv, Sound, Whole, Cut, LoseTail
<1> QED
  BY <1>1, <1>2, <1>3, <1>4, <1>5, <1>6, <1>7, <1>8, <1>9, <1>10, <1>11, <1>12
  DEF MarketNext, Installing

LEMMA MarketInvariance == MarketSpec => []MarketInv
<1>1. MarketInit => MarketInv
  BY MarketAssumption DEF MarketInit, MarketInv, MarketShape, MarketTypeOK, ToolInv, TriesInv,
     FileInv, ReportInv,
     AloneAtFile, WriterInv, WrittenInv, PushInv, SentInv, WritesNow, NoInode, File, Empty
<1>2. MarketInv /\ [MarketNext]_marketVars => MarketInv'
  <2>1. CASE UNCHANGED marketVars
    BY <2>1 DEF marketVars, MarketInv, MarketShape, MarketTypeOK, ToolInv, TriesInv, FileInv,
       AloneAtFile, WriterInv, WrittenInv, PushInv, SentInv, WritesNow, FileOf, At, Payload, Whole,
       Sound, Cut, ReportInv, FullLength
  <2>2. ASSUME MarketInv, MarketNext PROVE MarketInv'
    <3>1. MarketTypeOK' /\ ToolInv' /\ TriesInv' /\ ReportInv'
      BY <2>2, MarketNextType, MarketNextTool, MarketNextTries, MarketNextReport
    <3>2. CASE ~shared'
      BY <2>2, <3>1, <3>2, MarketNextFile, MarketNextAlone, MarketNextWriter, MarketNextWritten,
         MarketNextPush, MarketNextSent DEF MarketInv, MarketShape
    <3> QED
      BY <3>1, <3>2 DEF MarketInv, MarketShape
  <2> QED
    BY <2>1, <2>2
<1> QED
  BY <1>1, <1>2, PTL DEF MarketSpec

\* What reaches a device had the digest that was expected, whatever broke a download, was
\* left in the cache or damaged there, and wherever the desktop ended, as long as no two
\* installs had one part file open; or it is a download whose last write was lost, which is
\* not reported as verified (ensure_local, ensure_frida_binary, push_and_verify).
THEOREM OnlyVerifiedIsDelivered == MarketSpec => []DeliversVerified
<1>1. MarketInv => DeliversVerified
  BY DEF MarketInv, MarketShape, SentInv, Sound, Cut, ReportInv, FullLength, DeliversVerified
<1> QED
  BY <1>1, MarketInvariance, PTL

-----------------------------------------------------------------------------
(* ProcessService: the loop of execute keeps the contract of a command, and *)
(* a child has its grace.  Neither is inductive: that a verdict is the one  *)
(* the contract allows rests on what the loop knew when it took its reason, *)
(* which LoopInv says.                                                      *)

\* What the loop knows of the child, of its output and of why it ends is so.
LoopInv ==
  /\ loop = "spawn" => child = "none" /\ deadline = Never /\ reason = "none"
  /\ loop # "done" => outcome = "none"
  /\ delivered <= produced
  /\ exitCode # Never => child = "reaped"
  /\ ~rxOpen => Eof /\ delivered = produced
  /\ termAt # Never => reason # "none"
  /\ reason = "Cancelled" => cancelled
  /\ reason = "TimedOut" => deadline # Never /\ now >= deadline

CommandInv == ProcessTypeOK /\ LoopInv

\* The end of an arm: nothing but the escalation and the exits of the loop.
LEMMA ArmKeepsTypes ==
  ASSUME ProcessTypeOK, NEW signalled \in SUBSET {"TERM"}, AfterArm(signalled),
         exitCode' \in Codes \cup {Never}, reason' \in {"none", "Cancelled", "TimedOut"}
  PROVE  /\ forceSent' \in BOOLEAN /\ signals' \in SUBSET {"TERM", "KILL"}
         /\ loop' \in {loop, "done"}
         /\ outcome' \in {"none", "success", "failure", "Cancelled", "TimedOut", "Err"}
         /\ UNCHANGED <<now, deadline, code, obeys, descendant, pumps, produced, cancelled>>
<1>1. Verdict \in {"success", "failure", "Cancelled", "TimedOut"}
  BY DEF Verdict
<1>2. ForceDue \in BOOLEAN /\ DropKill \subseteq {"KILL"}
  BY DEF ForceDue, DropKill
<1> HIDE DEF Verdict
<1> QED
  BY <1>1, <1>2 DEF AfterArm, ProcessTypeOK

\* HARD_CAP_AFTER_TERM is not shorter than the grace period.
LEMMA LongerThanGrace ==
  ASSUME NEW n \in Nat, NEW at \in Nat, n - at >= HardCap
  PROVE  n - at >= Grace
BY ProcessAssumption

\* The arms of the select.
LEMMA ArmsKeep ==
  ASSUME CommandInv, PumpOutput \/ WaitChild \/ CancelArm \/ TimeoutArm
  PROVE  CommandInv'
<1> USE ProcessAssumption
<1>1. loop = "select" /\ loop' \in {"select", "done"}
  BY DEF PumpOutput, WaitChild, CancelArm, TimeoutArm, Terminate, AfterArm
<1>2. ASSUME PumpOutput PROVE CommandInv'
  <2>1. AfterArm({}) /\ UNCHANGED <<child, exitCode, termAt, reason>> /\ RxReady
    BY <1>2 DEF PumpOutput
  <2>2. \/ delivered < produced /\ delivered' = delivered + 1 /\ (rxOpen' <=> rxOpen)
        \/ ~(delivered < produced) /\ delivered' = delivered
    BY <1>2, Zenon DEF PumpOutput
  <2>5. rxOpen' \in BOOLEAN
    BY <1>2, Zenon DEF PumpOutput, CommandInv, ProcessTypeOK
  <2>3. ProcessTypeOK'
    BY <1>1, <2>1, <2>2, <2>5, ArmKeepsTypes DEF CommandInv, ProcessTypeOK
  <2>4. LoopInv'
    BY <1>1, <2>1, <2>2, <2>5 DEF CommandInv, ProcessTypeOK, LoopInv, AfterArm, RxReady, Eof
  <2> QED
    BY <2>3, <2>4 DEF CommandInv
<1>3. ASSUME WaitChild PROVE CommandInv'
  <2>1. /\ AfterArm({}) /\ UNCHANGED <<delivered, rxOpen, termAt, reason>>
        /\ exitCode' = code /\ child' = "reaped" /\ child = "zombie"
    BY <1>3 DEF WaitChild, WaitReady
  <2>2. ProcessTypeOK'
    BY <1>1, <2>1, ArmKeepsTypes DEF CommandInv, ProcessTypeOK
  <2>3. LoopInv'
    BY <1>1, <2>1 DEF CommandInv, ProcessTypeOK, LoopInv, AfterArm, Eof
  <2> QED
    BY <2>2, <2>3 DEF CommandInv
<1>4. ASSUME CancelArm \/ TimeoutArm PROVE CommandInv'
  <2>1. PICK why \in {"Cancelled", "TimedOut"} :
          /\ Terminate(why)
          /\ why = "Cancelled" => cancelled
          /\ why = "TimedOut" => deadline # Never /\ now >= deadline
    BY <1>4 DEF CancelArm, TimeoutArm, CancelReady, TimeoutReady
  <2>2. /\ AfterArm(IF exitCode = Never THEN {"TERM"} ELSE {})
        /\ reason' = why /\ termAt' \in {now, termAt}
        /\ UNCHANGED <<child, exitCode, delivered, rxOpen>>
    BY <2>1 DEF Terminate
  <2>3. ProcessTypeOK'
    BY <1>1, <2>2, ArmKeepsTypes DEF CommandInv, ProcessTypeOK
  <2>4. LoopInv'
    BY <1>1, <2>1, <2>2 DEF CommandInv, ProcessTypeOK, LoopInv, AfterArm, Eof
  <2> QED
    BY <2>3, <2>4 DEF CommandInv
<1> QED
  BY <1>2, <1>3, <1>4

\* The loop of execute takes a reason only when it is so, keeps it, and loses no
\* line of output that a pump has read, whatever the child and its descendants do,
\* and however early a pump stops.
THEOREM CommandInvariance == ProcessSpec => []CommandInv
<1>1. ProcessInit => CommandInv
  <2>1. ProcessInit => ProcessTypeOK
    <3> SUFFICES ASSUME ProcessInit PROVE ProcessTypeOK
      OBVIOUS
    <3>1. /\ descendant \in BOOLEAN /\ cancelled \in BOOLEAN
          /\ rxOpen \in BOOLEAN /\ forceSent \in BOOLEAN
      BY Zenon DEF ProcessInit
    <3> QED
      BY <3>1, ProcessAssumption DEF ProcessInit, ProcessTypeOK, Codes
  <2>2. ProcessInit => LoopInv
    BY DEF ProcessInit, LoopInv
  <2> QED
    BY <2>1, <2>2 DEF CommandInv
<1>2. CommandInv /\ [ProcessNext]_processVars => CommandInv'
  <2> SUFFICES ASSUME CommandInv, [ProcessNext]_processVars PROVE CommandInv'
    OBVIOUS
  <2>0. ProcessTypeOK /\ LoopInv
    BY DEF CommandInv
  <2>1. CASE Spawn
    <3>0. PICK t \in Timeouts : deadline' = IF t = Never THEN Never ELSE now + t
      BY <2>1 DEF Spawn
    <3>1. ProcessTypeOK'
      BY <2>0, <2>1, <3>0, ProcessAssumption DEF Spawn, loopVars, ProcessTypeOK
    <3>2. LoopInv'
      BY <2>0, <2>1, ProcessAssumption DEF Spawn, loopVars, ProcessTypeOK, LoopInv, Eof
    <3> QED
      BY <3>1, <3>2 DEF CommandInv
  <2>2. CASE SpawnFails
    <3>1. ProcessTypeOK'
      BY <2>0, <2>2, ProcessAssumption DEF SpawnFails, procVars, loopVars, ProcessTypeOK
    <3>2. LoopInv'
      BY <2>0, <2>2, ProcessAssumption DEF SpawnFails, procVars, loopVars, ProcessTypeOK, LoopInv,
         Eof
    <3> QED
      BY <3>1, <3>2 DEF CommandInv
  <2>3. CASE PumpOutput \/ WaitChild \/ CancelArm \/ TimeoutArm
    BY <2>3, ArmsKeep
  <2>4. CASE WriteLine
    <3>1. ProcessTypeOK'
      BY <2>0, <2>4, ProcessAssumption DEF WriteLine, loopVars, ProcessTypeOK
    <3>2. LoopInv'
      BY <2>0, <2>4, ProcessAssumption DEF WriteLine, Writing, loopVars, ProcessTypeOK, LoopInv, Eof
    <3> QED
      BY <3>1, <3>2 DEF CommandInv
  <2>11. CASE PumpStops
    <3>1. ProcessTypeOK'
      BY <2>0, <2>11, ProcessAssumption DEF PumpStops, loopVars, ProcessTypeOK
    <3>2. LoopInv'
      BY <2>0, <2>11, ProcessAssumption DEF PumpStops, Writing, loopVars, ProcessTypeOK, LoopInv,
         Eof
    <3> QED
      BY <3>1, <3>2 DEF CommandInv
  <2>5. CASE Exit
    <3>1. ProcessTypeOK'
      BY <2>0, <2>5, ProcessAssumption DEF Exit, loopVars, ProcessTypeOK, Codes
    <3>2. LoopInv'
      BY <2>0, <2>5, ProcessAssumption DEF Exit, loopVars, ProcessTypeOK, LoopInv, Eof
    <3> QED
      BY <3>1, <3>2 DEF CommandInv
  <2>6. CASE DieOfSignal
    <3>1. ProcessTypeOK'
      BY <2>0, <2>6, ProcessAssumption DEF DieOfSignal, loopVars, ProcessTypeOK, Codes
    <3>2. LoopInv'
      BY <2>0, <2>6, ProcessAssumption DEF DieOfSignal, loopVars, ProcessTypeOK, LoopInv, Eof
    <3> QED
      BY <3>1, <3>2 DEF CommandInv
  <2>7. CASE DescendantExit
    <3>1. ProcessTypeOK'
      <4>1. descendant' \in BOOLEAN
        BY <2>7, Zenon DEF DescendantExit
      <4> QED
        BY <2>0, <2>7, <4>1, ProcessAssumption DEF DescendantExit, loopVars, ProcessTypeOK
    <3>2. LoopInv'
      BY <2>0, <2>7, ProcessAssumption DEF DescendantExit, loopVars, ProcessTypeOK, LoopInv, Eof
    <3> QED
      BY <3>1, <3>2 DEF CommandInv
  <2>8. CASE Tick
    <3>1. ProcessTypeOK'
      BY <2>0, <2>8, ProcessAssumption DEF Tick, procVars, loopVars, ProcessTypeOK
    <3>2. LoopInv'
      BY <2>0, <2>8, ProcessAssumption DEF Tick, procVars, loopVars, ProcessTypeOK, LoopInv, Eof
    <3> QED
      BY <3>1, <3>2 DEF CommandInv
  <2>9. CASE UserCancels
    <3>1. ProcessTypeOK'
      BY <2>0, <2>9, ProcessAssumption DEF UserCancels, procVars, loopVars, ProcessTypeOK
    <3>2. LoopInv'
      BY <2>0, <2>9, ProcessAssumption DEF UserCancels, procVars, loopVars, ProcessTypeOK,
         LoopInv, Eof
    <3> QED
      BY <3>1, <3>2 DEF CommandInv
  <2>10. CASE UNCHANGED processVars
    <3>1. ProcessTypeOK'
      BY <2>0, <2>10, ProcessAssumption DEF processVars, procVars, loopVars, ProcessTypeOK
    <3>2. LoopInv'
      BY <2>0, <2>10, ProcessAssumption DEF processVars, procVars, loopVars, ProcessTypeOK,
         LoopInv, Eof
    <3> QED
      BY <3>1, <3>2 DEF CommandInv
  <2> QED
    BY <2>1, <2>2, <2>3, <2>4, <2>5, <2>6, <2>7, <2>8, <2>9, <2>10,
       <2>11
    DEF ProcessNext, Execute, Environment
<1> QED
  BY <1>1, <1>2, PTL DEF ProcessSpec

\* force_kill and the kill of a dropped child come only when the grace period has
\* passed since terminate: no arm of the select, taken in any order, kills sooner.
THEOREM ChildAlwaysHasItsGrace == ProcessSpec => GraceBeforeKill
<1> DEFINE Graced == "KILL" \in signals' /\ "KILL" \notin signals => Elapsed(termAt', Grace)
<1>1. CommandInv /\ [ProcessNext]_processVars => [Graced]_processVars
  <2> SUFFICES ASSUME CommandInv, ProcessNext, "KILL" \in signals', "KILL" \notin signals
               PROVE  Elapsed(termAt', Grace)
    OBVIOUS
  <2>1. PumpOutput \/ WaitChild \/ CancelArm \/ TimeoutArm
    BY DEF ProcessNext, Execute, Environment, Spawn, SpawnFails, WriteLine, PumpStops, Exit,
       DieOfSignal,
           DescendantExit, Tick, UserCancels, procVars
  <2>2. CommandInv'
    BY <2>1, ArmsKeep
  <2>3. \E s \in SUBSET {"TERM"} : AfterArm(s)
    BY <2>1 DEF PumpOutput, WaitChild, CancelArm, TimeoutArm, Terminate
  <2>4. CASE ForceDue
    BY <2>4 DEF ForceDue
  <2>5. CASE LoopDone /\ exitCode' = Never
    <3>0. Elapsed(termAt', HardCap)
      BY <2>5, Zenon DEF LoopDone
    <3>1. termAt' # Never /\ now - termAt' >= HardCap
      BY <3>0, Zenon DEF Elapsed
    <3>2. termAt' \in Nat /\ now \in Nat
      BY <2>2, <3>1, ProcessAssumption DEF CommandInv, ProcessTypeOK
    <3>4. now - termAt' >= Grace
      BY <3>1, <3>2, LongerThanGrace, Zenon
    <3> QED
      BY <3>1, <3>4, Zenon DEF Elapsed
  <2> QED
    BY <2>3, <2>4, <2>5 DEF AfterArm, DropKill
<1> QED
  BY <1>1, CommandInvariance, PTL DEF ProcessSpec, GraceBeforeKill

\* execute implements CommandContract: a command ends once, is reported as cancelled
\* or timed out only if it was, and a success or a failure is that of a child that
\* was reaped, after every line that the pumps read of its output was delivered.
THEOREM ExecuteKeepsItsContract == ProcessSpec => ContractSpec
<1>1. ProcessInit => Contract!Init
  BY DEF ProcessInit, Contract!Init
<1>2. CommandInv /\ CommandInv' /\ [ProcessNext]_processVars => [Contract!Next]_Contract!vars
  <2> SUFFICES ASSUME CommandInv, CommandInv', [ProcessNext]_processVars
               PROVE  Contract!Next \/ UNCHANGED Contract!vars
    OBVIOUS
  <2>0. /\ loop \in {"spawn", "select", "done"} /\ loop' \in {"spawn", "select", "done"}
        /\ now \in Nat /\ now' \in Nat /\ (deadline # Never => deadline \in Nat)
        /\ produced \in Nat /\ delivered \in Nat /\ produced' \in Nat /\ delivered' \in Nat
    BY ProcessAssumption DEF CommandInv, ProcessTypeOK
  <2>1. CASE UNCHANGED processVars
    BY <2>1 DEF processVars, procVars, loopVars, Contract!vars
  <2>2. CASE Environment
    <3>1. /\ UNCHANGED <<loop, outcome, deadline>> /\ now' >= now
          /\ cancelled => cancelled'
          /\ child = "reaped" => child' = "reaped"
      BY <2>0, <2>2 DEF Environment, WriteLine, PumpStops, Exit, DieOfSignal, DescendantExit, Tick,
                        UserCancels, procVars
    <3>2. Contract!Irrevocable
      BY <2>0, <3>1 DEF Contract!Irrevocable
    <3>3. Contract!Progress \/ Contract!Aftermath
      BY <2>0, <3>1 DEF Contract!Progress, Contract!Aftermath
    <3> QED
      BY <3>2, <3>3 DEF Contract!Next
  <2>3. CASE Spawn
    <3>1. /\ loop = "spawn" /\ loop' = "select" /\ UNCHANGED <<outcome, cancelled>>
          /\ child = "none" /\ deadline = Never
      BY <2>3 DEF Spawn, CommandInv, LoopInv
    <3> QED
      BY <3>1 DEF Contract!Next, Contract!Progress, Contract!Irrevocable
  <2>4. CASE SpawnFails
    BY <2>4 DEF SpawnFails, procVars, Contract!Next, Contract!Finish, Contract!Outcomes,
                Contract!Irrevocable
  <2>5. CASE PumpOutput \/ WaitChild \/ CancelArm \/ TimeoutArm
    <3>1. PICK s \in SUBSET {"TERM"} : AfterArm(s)
      BY <2>5 DEF PumpOutput, WaitChild, CancelArm, TimeoutArm, Terminate
    <3>2. /\ loop = "select" /\ UNCHANGED <<now, deadline, cancelled, produced>>
          /\ child = "reaped" => child' = "reaped"
      BY <2>5, <3>1 DEF AfterArm, PumpOutput, WaitChild, CancelArm, TimeoutArm, Terminate
    <3>3. Contract!Irrevocable
      BY <3>2 DEF Contract!Irrevocable
    <3>4. CASE ~LoopDone
      BY <3>1, <3>2, <3>4 DEF AfterArm, Contract!Progress, Contract!Next, Contract!Irrevocable
    <3>5. CASE LoopDone
      <4>1. loop' = "done" /\ outcome' = Verdict
        BY <3>1, <3>5 DEF AfterArm
      <4>2. CASE reason' = "none"
        <5>1. exitCode' # Never /\ ~rxOpen'
          BY <3>5, <4>2 DEF LoopDone, Elapsed, CommandInv, LoopInv
        <5>2. child' = "reaped" /\ delivered' = produced' /\ outcome' \in {"success", "failure"}
          BY <4>1, <4>2, <5>1 DEF CommandInv, LoopInv, Verdict
        <5> QED
          BY <2>0, <3>2, <3>3, <4>1, <5>2 DEF Contract!Finish, Contract!Outcomes, Contract!Next
      <4>3. CASE reason' # "none"
        <5>1. /\ outcome' \in {"Cancelled", "TimedOut"}
              /\ outcome' = "Cancelled" => cancelled
              /\ outcome' = "TimedOut" => deadline # Never /\ now >= deadline
          BY <3>2, <4>1, <4>3 DEF CommandInv, ProcessTypeOK, LoopInv, Verdict
        <5> QED
          BY <3>2, <3>3, <4>1, <5>1 DEF Contract!Finish, Contract!Outcomes, Contract!Next
      <4> QED
        BY <4>2, <4>3
    <3> QED
      BY <3>3, <3>4, <3>5
  <2> QED
    BY <2>1, <2>2, <2>3, <2>4, <2>5 DEF ProcessNext, Execute
<1> QED
  BY <1>1, <1>2, CommandInvariance, PTL DEF ProcessSpec, ContractSpec, Contract!Spec

================================================================================
