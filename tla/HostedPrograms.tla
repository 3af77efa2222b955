---------------------------- MODULE HostedPrograms ----------------------------
(***************************************************************************)
(* provider/hosted.rs: the table of the programs the Agent has started or  *)
(* taken over, its record files, and the processes of the device, whose    *)
(* pids are used again.  The table is behind a lock that is released       *)
(* between the steps of start and of write; the Agent may be killed        *)
(* anywhere, and its programs survive it.                                  *)
(*                                                                         *)
(* A process stands for its start_time_ticks: two processes with one pid   *)
(* differ in them, and a record may have none: read_start_time_ticks opens *)
(* a file, and start goes on without it (unwrap_or(0)).  try_wait of an    *)
(* own child does not fail.                                                *)
(***************************************************************************)
EXTENDS Naturals, Sequences

CONSTANTS
  Proc,          \* the processes of the device, over time
  PidOf,         \* their pids
  Stranger,      \* those that run no file of HOSTED_DIR
  Dim,           \* those whose /proc/<pid>/stat can be unreadable at times
  RootOwned,     \* those the Agent, as shell, may not signal
  Handle,        \* the handles of random_handle, 1..n in order of use
  NoRun,         \* no record, no handle, no process
  MaxRecords,    \* MAX_RUN_RECORDS
  MaxKills       \* bound on kills of the Agent

RunRecord ==
  [proc : Proc, state : {"running", "exited", "unknown"}, child : BOOLEAN, pipe : BOOLEAN,
   stdin : {"none", "once", "open", "lost"}]

RunFile == [handle : Handle, proc : Proc, stdin : {"none", "once", "open", "lost"}]

Start == [proc : Proc, stdin : {"none", "once", "open"}, handle : Handle \cup {NoRun}]
Stop == [handle : Handle, seen : Proc, sent : BOOLEAN]

ASSUME HostedAssumption ==
  /\ Stranger \subseteq Proc
  /\ RootOwned \subseteq Proc
  /\ Dim \subseteq Proc
  /\ MaxRecords \in Nat \ {0}
  /\ MaxKills \in Nat
  /\ NoRun \notin Proc \cup Handle \cup RunRecord \cup Start \cup Stop

VARIABLES
  life,        \* "unborn", "running", "zombie" or "gone"
  agentUp,     \* the Agent runs
  runsLoaded,  \* Table.loaded
  runs,        \* Table.runs
  runFiles,    \* the files of STATE_DIR, oldest first
  untimed,     \* the handles of the records with start_time_ticks 0
  starting,    \* the start between its spawn and its insert
  stopping,    \* the stop that holds the lock of the table
  writing,     \* the handles whose pipe a write holds
  probing,     \* the process of the probe in progress
  kills,       \* how often the Agent has been killed
  (* history *)
  told,        \* the processes a start or an adopt was answered for
  unsaved,     \* those whose record file was not written or was pruned, or that
               \* an adopt answered with an older record of their pid, or a stop
               \* took for gone because their record had no start time
  struck       \* the processes a stop has signalled

procVars == <<life, agentUp, kills>>
tableVars == <<runsLoaded, runs, runFiles, untimed>>
callVars == <<starting, stopping, writing, probing>>
historyVars == <<told, unsaved, struck>>
hostedVars == <<procVars, tableVars, callVars, historyVars>>

HostedTypeOK ==
  /\ life \in [Proc -> {"unborn", "running", "zombie", "gone"}]
  /\ agentUp \in BOOLEAN /\ runsLoaded \in BOOLEAN
  /\ runs \in [Handle -> RunRecord \cup {NoRun}]
  /\ runFiles \in Seq(RunFile)
  /\ untimed \subseteq Handle
  /\ starting \in Start \cup {NoRun} /\ stopping \in Stop \cup {NoRun}
  /\ writing \subseteq Handle
  /\ probing \in Proc \cup {NoRun}
  /\ told \subseteq Proc /\ unsaved \subseteq Proc /\ struck \subseteq Proc

HostedInit ==
  /\ life = [p \in Proc |-> "unborn"]
  /\ agentUp = TRUE /\ kills = 0
  /\ runsLoaded = FALSE
  /\ runs = [h \in Handle |-> NoRun]
  /\ runFiles = <<>> /\ untimed = {}
  /\ starting = NoRun /\ stopping = NoRun /\ writing = {} /\ probing = NoRun
  /\ told = {} /\ unsaved = {} /\ struck = {}

-----------------------------------------------------------------------------
Exists(p) == life[p] \in {"running", "zombie"}
Known == {h \in Handle : runs[h] # NoRun}

\* read_start_time_ticks: the process that has the pid now.
Occupants(pid) == {p \in Proc : Exists(p) /\ PidOf[p] = pid}

\* Somebody holds the Child: a process that ends waits to be reaped.
Held(p) ==
  \/ \E h \in Known : runs[h].proc = p /\ runs[h].child
  \/ starting # NoRun /\ starting.proc = p
  \/ probing = p

Born(p) ==
  /\ life[p] = "unborn"
  /\ Occupants(PidOf[p]) = {}
  /\ life' = [life EXCEPT ![p] = "running"]

\* Every handler begins with ensure_loaded, and takes the lock.
LockFree == agentUp /\ runsLoaded /\ stopping = NoRun

\* reconcile, where the stat files of unread cannot be read: known by its ticks,
\* which no process has in common with a record that has none.
Reconciled(h, p, unread) ==
  IF Occupants(PidOf[p]) \cap unread # {} THEN "unknown"
  ELSE IF Exists(p) /\ h \notin untimed THEN "running" ELSE "exited"

\* There is one file of a handle at most.
Without(files, h) ==
  LET mine == {i \in 1..Len(files) : files[i].handle = h}
      i == CHOOSE j \in mine : TRUE
  IN IF mine = {} THEN files
     ELSE SubSeq(files, 1, i - 1) \o SubSeq(files, i + 1, Len(files))

\* persist, then prune_state_dir: the newest MaxRecords files stay.
Persist(h, p, stdin) ==
  LET all == Append(Without(runFiles, h), [handle |-> h, proc |-> p, stdin |-> stdin])
      cut == IF Len(all) > MaxRecords THEN Len(all) - MaxRecords ELSE 0
  IN /\ runFiles' = SubSeq(all, cut + 1, Len(all))
     /\ unsaved' = unsaved \cup {all[i].proc : i \in 1..cut}

\* Errors of persist are logged and ignored; the file is as it was, or cut
\* short, and the next Agent removes what it cannot parse.
PersistFails(h, p) ==
  /\ unsaved' = unsaved \cup {p}
  /\ runFiles' \in {runFiles, Without(runFiles, h)}

DropPersisted(h) == runFiles' = Without(runFiles, h)

\* A plausible bug: an unconfirmed stop drops the record as well.
UnconfirmedDrops(h) == DropPersisted(h)

\* The signal was sent and the process is still there.
Unconfirmed(h) == UNCHANGED runFiles

\* A handle nobody has used: 8 random bytes.
Fresh(h) ==
  /\ h \notin Known
  /\ \A i \in 1..Len(runFiles) : runFiles[i].handle # h
  /\ \A g \in Handle : g < h => g \in Known \/ \E i \in 1..Len(runFiles) : runFiles[i].handle = g

-----------------------------------------------------------------------------
(* the device *)

\* A terminal, a root shell of the desktop, or any other program.
BornOutside(p) ==
  /\ Born(p)
  /\ UNCHANGED <<agentUp, kills, tableVars, callVars, historyVars>>

Dies(p) ==
  /\ life[p] = "running"
  /\ life' = [life EXCEPT ![p] = IF Held(p) THEN "zombie" ELSE "gone"]
  /\ UNCHANGED <<agentUp, kills, tableVars, callVars, historyVars>>

\* kill_on_drop(false) and a process group of their own: the programs live on.
AgentKilled ==
  /\ agentUp
  /\ kills < MaxKills
  /\ kills' = kills + 1
  /\ agentUp' = FALSE
  /\ life' = [p \in Proc |-> IF life[p] = "zombie" THEN "gone" ELSE life[p]]
  /\ runsLoaded' = FALSE
  /\ runs' = [h \in Handle |-> NoRun]
  /\ starting' = NoRun /\ stopping' = NoRun /\ writing' = {} /\ probing' = NoRun
  /\ UNCHANGED <<runFiles, untimed, historyVars>>

AgentRestarted ==
  /\ ~agentUp
  /\ agentUp' = TRUE
  /\ UNCHANGED <<life, kills, tableVars, callVars, historyVars>>

-----------------------------------------------------------------------------
(* the handlers *)

RestoredRun(f, unread) ==
  [proc |-> f.proc, state |-> Reconciled(f.handle, f.proc, unread), child |-> FALSE,
   pipe |-> FALSE, stdin |-> IF f.stdin = "open" THEN "lost" ELSE f.stdin]

EnsureLoaded ==
  /\ agentUp /\ ~runsLoaded
  /\ runsLoaded' = TRUE
  /\ \E unread \in SUBSET Dim :
       runs' = [h \in Handle |->
                  LET mine == {i \in 1..Len(runFiles) : runFiles[i].handle = h}
                  IN IF mine = {} THEN NoRun
                     ELSE RestoredRun(runFiles[CHOOSE i \in mine : TRUE], unread)]
  /\ UNCHANGED <<runFiles, untimed, procVars, callVars, historyVars>>

\* start, up to the pipe: the lock is not held.
StartSpawns(p, stdin) ==
  /\ agentUp /\ runsLoaded
  /\ starting = NoRun
  /\ p \notin Stranger \cup RootOwned
  /\ Born(p)
  /\ starting' = [proc |-> p, stdin |-> stdin, handle |-> NoRun]
  /\ UNCHANGED <<agentUp, kills, tableVars, stopping, writing, probing, historyVars>>

\* random_handle fails: the program runs and nobody knows it.
StartLosesIt ==
  /\ starting # NoRun /\ starting.handle = NoRun
  /\ starting' = NoRun
  /\ life' = [life EXCEPT ![starting.proc] = IF @ = "zombie" THEN "gone" ELSE @]
  /\ UNCHANGED <<agentUp, kills, tableVars, stopping, writing, probing, historyVars>>

\* The start time was read before the pipe was taken, or could not be.
StartPersists(h) ==
  /\ starting # NoRun /\ starting.handle = NoRun
  /\ Fresh(h)
  /\ \/ untimed' = untimed \ {h}
     \/ starting.proc \in Dim /\ untimed' = untimed \cup {h}
  /\ \/ Persist(h, starting.proc, starting.stdin)
     \/ PersistFails(h, starting.proc)
  /\ starting' = [starting EXCEPT !.handle = h]
  /\ UNCHANGED <<procVars, runsLoaded, runs, stopping, writing, probing, told, struck>>

StartInserts ==
  /\ LockFree
  /\ starting # NoRun /\ starting.handle # NoRun
  /\ runs' = [runs EXCEPT ![starting.handle] =
       [proc |-> starting.proc, state |-> "running", child |-> TRUE,
        pipe |-> starting.stdin = "open", stdin |-> starting.stdin]]
  /\ told' = told \cup {starting.proc}
  /\ starting' = NoRun
  /\ UNCHANGED <<procVars, runsLoaded, runFiles, untimed, stopping, writing, probing,
                 unsaved, struck>>

\* The evidence, a start time that was read among it, then the lock: idempotent by
\* pid, as the table has it.
Adopt(p) ==
  LET same == {h \in Known : PidOf[runs[h].proc] = PidOf[p] /\ runs[h].state = "running"}
  IN /\ LockFree
     /\ life[p] = "running"
     /\ p \notin Stranger
     /\ \/ /\ same # {}
           /\ told' = told \cup {p}
           /\ unsaved' = IF p \in told THEN unsaved ELSE unsaved \cup {p}
           /\ UNCHANGED <<runs, runFiles, untimed>>
        \/ /\ same = {}
           /\ \E h \in Handle :
                /\ Fresh(h)
                /\ starting # NoRun => starting.handle # h
                /\ Persist(h, p, "none") \/ PersistFails(h, p)
                /\ untimed' = untimed \ {h}
                /\ runs' = [runs EXCEPT ![h] =
                     [proc |-> p, state |-> "running", child |-> FALSE,
                      pipe |-> FALSE, stdin |-> "none"]]
           /\ told' = told \cup {p}
     /\ UNCHANGED <<procVars, runsLoaded, callVars, struck>>

Refreshed(h, run, unread) ==
  IF run = NoRun THEN NoRun
  ELSE IF run.child
  THEN IF life[run.proc] = "zombie"
       THEN [run EXCEPT !.state = "exited", !.child = FALSE]
       ELSE [run EXCEPT !.state = "running"]
  ELSE [run EXCEPT !.state = Reconciled(h, run.proc, unread)]

Reaped == {p \in Proc : life[p] = "zombie" /\ \E h \in Known : runs[h].child /\ runs[h].proc = p}

\* status and list.
Status ==
  /\ LockFree
  /\ \E unread \in SUBSET Dim : runs' = [h \in Handle |-> Refreshed(h, runs[h], unread)]
  /\ life' = [p \in Proc |-> IF p \in Reaped THEN "gone" ELSE life[p]]
  /\ UNCHANGED <<agentUp, kills, runsLoaded, runFiles, untimed, callVars, historyVars>>

SaysExited(h) == runs' = [runs EXCEPT ![h].state = "exited", ![h].child = FALSE]

\* A plausible bug: whoever has the pid.
VerifiedByPid(h) == Occupants(PidOf[runs[h].proc])

\* Who a stop takes for the process of the record: its ticks are the same.
Verified(h) == Occupants(PidOf[runs[h].proc]) \cap {runs[h].proc}

\* A record without a start time is of its process only for the Child, while the
\* stat file cannot be read.
StopKnows(h, p) == h \in untimed => runs[h].child /\ p \in Dim

\* stop, up to the signal: the lock stays held.  A stat file that cannot be read lets
\* only the Child through; without it the stop is refused, and changes nothing.
StopChecks(h) ==
  LET p == runs[h].proc
  IN /\ LockFree
     /\ h \in Known
     /\ \/ /\ \E q \in Verified(h) :
                /\ StopKnows(h, q)
                /\ stopping' = [handle |-> h, seen |-> q, sent |-> FALSE]
           /\ UNCHANGED <<life, runs, runFiles, unsaved>>
        \/ /\ Verified(h) = {} \/ h \in untimed
           /\ SaysExited(h)
           /\ life' = [life EXCEPT ![p] = IF @ = "zombie" /\ runs[h].child THEN "gone" ELSE @]
           /\ DropPersisted(h)
           /\ unsaved' = IF h \in untimed THEN unsaved \cup {p} ELSE unsaved
           /\ UNCHANGED stopping
     /\ UNCHANGED <<agentUp, kills, runsLoaded, untimed, starting, writing, probing, told, struck>>

\* kill: gone, refused, or sent.
StopSignals ==
  LET h == stopping.handle
      here == Occupants(PidOf[stopping.seen])
  IN /\ stopping # NoRun /\ ~stopping.sent
     /\ \/ /\ here = {}
           /\ SaysExited(h)
           /\ DropPersisted(h)
           /\ stopping' = NoRun
           /\ UNCHANGED struck
        \/ /\ here \cap RootOwned # {}
           /\ stopping' = NoRun
           /\ UNCHANGED <<runs, runFiles, struck>>
        \/ /\ here # {} /\ here \cap RootOwned = {}
           /\ struck' = struck \cup here
           /\ stopping' = [stopping EXCEPT !.sent = TRUE]
           /\ UNCHANGED <<runs, runFiles>>
     /\ UNCHANGED <<procVars, runsLoaded, untimed, starting, writing, probing, told, unsaved>>

\* poll_dead: nobody has the pid, or a zombie; otherwise not confirmed.
StopConfirms ==
  LET h == stopping.handle
      p == runs[h].proc
      dead == \A q \in Occupants(PidOf[stopping.seen]) : life[q] = "zombie"
  IN /\ stopping # NoRun /\ stopping.sent
     /\ \/ /\ dead
           /\ SaysExited(h)
           /\ life' = [life EXCEPT ![p] = IF @ = "zombie" /\ runs[h].child THEN "gone" ELSE @]
           /\ DropPersisted(h)
        \/ /\ ~dead
           /\ Unconfirmed(h)
           /\ UNCHANGED <<runs, life>>
     /\ stopping' = NoRun
     /\ UNCHANGED <<agentUp, kills, runsLoaded, untimed, starting, writing, probing, historyVars>>

\* write, up to the pipe; a child found dead is reaped, and the state stays.
WriteTakes(h) ==
  /\ LockFree
  /\ h \in Known \ writing
  /\ \/ /\ runs[h].child /\ life[runs[h].proc] = "zombie"
        /\ runs' = [runs EXCEPT ![h].child = FALSE]
        /\ life' = [life EXCEPT ![runs[h].proc] = "gone"]
        /\ UNCHANGED writing
     \/ /\ IF runs[h].child THEN life[runs[h].proc] # "zombie" ELSE runs[h].state # "exited"
        /\ runs[h].pipe /\ runs[h].stdin = "open"
        /\ writing' = writing \cup {h}
        /\ UNCHANGED <<runs, life>>
  /\ UNCHANGED <<agentUp, kills, runsLoaded, runFiles, untimed, starting, stopping, probing,
                 historyVars>>

\* A plausible bug: a broken pipe is given up and the record is not told.
ChannelUntold(h, end) ==
  IF end = "open" THEN runs[h]
  ELSE [runs[h] EXCEPT !.pipe = FALSE, !.stdin = IF end = "lost" THEN @ ELSE end]

\* The channel after a write: still open, closed, or broken.
Channel(h, end) ==
  IF end = "open" THEN runs[h]
  ELSE [runs[h] EXCEPT !.pipe = FALSE, !.stdin = end]

\* The lock is taken again, and the record written, whatever a stop has done.
WriteEnds(h) ==
  /\ LockFree
  /\ h \in writing
  /\ \E end \in IF life[runs[h].proc] = "running" THEN {"open", "once", "lost"} ELSE {"lost"} :
       /\ runs' = [runs EXCEPT ![h] = Channel(h, end)]
       /\ \/ Persist(h, runs[h].proc, Channel(h, end).stdin)
          \/ PersistFails(h, runs[h].proc)
  /\ writing' = writing \ {h}
  /\ UNCHANGED <<procVars, runsLoaded, untimed, starting, stopping, probing, told, struck>>

\* The connection of the caller ends: its task is aborted at the await.
WriteAborted(h) ==
  /\ h \in writing
  /\ writing' = writing \ {h}
  /\ UNCHANGED <<procVars, tableVars, starting, stopping, probing, historyVars>>

\* probe: not in the table, and kill_on_drop(true).
ProbeSpawns(p) ==
  /\ agentUp
  /\ probing = NoRun
  /\ p \notin Stranger \cup RootOwned
  /\ Born(p)
  /\ probing' = p
  /\ UNCHANGED <<agentUp, kills, tableVars, starting, stopping, writing, historyVars>>

\* It ended; or the timeout, or the abort, kills it.
ProbeEnds ==
  /\ probing # NoRun
  /\ life' = [life EXCEPT ![probing] = "gone"]
  /\ probing' = NoRun
  /\ UNCHANGED <<agentUp, kills, tableVars, starting, stopping, writing, historyVars>>

-----------------------------------------------------------------------------
HostedNext ==
  \/ \E p \in Proc : BornOutside(p) \/ Dies(p) \/ Adopt(p) \/ ProbeSpawns(p)
  \/ \E p \in Proc, m \in {"once", "open"} : StartSpawns(p, m)
  \/ AgentKilled \/ AgentRestarted
  \/ EnsureLoaded \/ Status
  \/ StartLosesIt \/ StartInserts
  \/ \E h \in Handle : StartPersists(h) \/ StopChecks(h)
  \/ \E h \in Handle : WriteTakes(h) \/ WriteEnds(h) \/ WriteAborted(h)
  \/ StopSignals \/ StopConfirms
  \/ ProbeEnds

HostedSpec == HostedInit /\ [][HostedNext]_hostedVars

-----------------------------------------------------------------------------
(***************************************************************************)
(* A stop strikes the process its record was made for; another one only    *)
(* if that process was there when the lock was taken and ended before the  *)
(* signal went out, which cannot happen to a child of the Agent: hosted.rs *)
(* compares start_time_ticks and keeps a child unreaped under the lock.    *)
(***************************************************************************)
StopStrikesItsOwn ==
  [][\A q \in struck' \ struck :
       LET run == runs[stopping.handle]
       IN \/ q = run.proc
          \/ ~run.child /\ stopping.seen = run.proc /\ life[run.proc] = "gone"]_hostedVars

(***************************************************************************)
(* What the table says holds: a record that says exited has no process     *)
(* that runs, and a record that says its input is open has the pipe, also  *)
(* after the Agent has been replaced (drop_stdin, ensure_loaded).  A       *)
(* record that was written without a start time is excepted: its program   *)
(* is called exited while it runs, by a stop and by the next Agent.        *)
(***************************************************************************)
TableTellsTruth ==
  \A h \in Known :
    /\ runs[h].state = "exited" => life[runs[h].proc] # "running" \/ h \in untimed
    /\ runs[h].stdin = "open" => runs[h].pipe

(***************************************************************************)
(* A program that runs and that a caller was told of stays on record, in   *)
(* the table or, until the next Agent has read them, in the files, unless  *)
(* its file could not be written or had to go to keep MAX_RUN_RECORDS, or  *)
(* an adopt took it for an earlier process with its pid, whose record no   *)
(* refresh had found dead yet, or a stop took it for gone because its      *)
(* record has no start time.                                               *)
(***************************************************************************)
ToldIsOnRecord ==
  \A p \in told :
    life[p] = "running" =>
      \/ runsLoaded /\ \E h \in Known : runs[h].proc = p
      \/ \E i \in 1..Len(runFiles) : runFiles[i].proc = p
      \/ p \in unsaved
===============================================================================
