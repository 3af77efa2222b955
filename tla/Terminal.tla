------------------------------- MODULE Terminal -------------------------------
(* The real terminal: the table of tabs (terminalStore.ts), the session of a   *)
(* tab (terminalSession.ts) and the PTY behind it (pty_service.rs).            *)
(* A tab starts at most one PTY, so the sessions of the desktop are named by   *)
(* their tabs.  JavaScript runs one callback at a time; between two callbacks  *)
(* anything may happen in the threads of the desktop.                          *)
EXTENDS Naturals, FiniteSets

CONSTANTS Tab,         \* the tabs that may ever be made
          Max,         \* MAX_TERMINAL_SESSIONS
          Typists,     \* tabs into which the user types
          Deaf,        \* tabs whose program may stop reading its input
          Lingering,   \* tabs whose program may leave a child with the terminal
          None

ASSUME TerminalAssumption == Max \in Nat \ {0} /\ None \notin Tab

VARIABLES
  (* terminalStore.ts and terminalSession.ts *)
  entries,      \* the tabs in the table
  disposed,     \* the tabs whose session was disposed
  status,       \* TerminalTab.status
  pc,           \* how far TerminalSession.start has come
  hasId,        \* the sessions whose id is set
  listening,    \* the sessions with a listener of pty://exit
  waiting,      \* closeNow waits in stop for the answer of pty_close
  writing,      \* a key stroke is on its way to the desktop
  (* pty_service.rs *)
  proc,         \* the child: "none", "alive", "deaf" (alive, reads nothing), "dead"
  linger,       \* a child of the child holds the terminal open
  sessions,     \* PtyService.sessions
  exitSent,     \* the waiter has told the end of the child
  closing,      \* the progress of pty_close
  lock          \* who holds the mutex of the sessions while he writes

tabVars == <<entries, disposed, status, waiting>>
startVars == <<pc, hasId, listening>>
ptyVars == <<proc, linger, sessions, exitSent, closing, lock, writing>>
vars == <<tabVars, startVars, ptyVars>>

Alive == {"alive", "deaf"}
Open == {"starting", "running"}

TypeOK ==
  /\ {entries, disposed, waiting, writing, hasId, listening, sessions, exitSent} \subseteq SUBSET Tab
  /\ linger \in SUBSET Lingering
  /\ status \in [Tab -> {"none", "starting", "running", "exited", "stopped", "failed"}]
  /\ pc \in [Tab -> {"idle", "opening", "spawned", "inserted", "subscribing", "listening", "up", "failed"}]
  /\ proc \in [Tab -> {"none", "dead"} \cup Alive]
  /\ closing \in [Tab -> {"none", "asked", "removed", "joining", "done"}]
  /\ lock \in Tab \cup {None}
  /\ waiting \subseteq {t \in Tab : closing[t] # "none"}

Init ==
  /\ entries = {} /\ disposed = {} /\ waiting = {} /\ writing = {}
  /\ hasId = {} /\ listening = {}
  /\ sessions = {} /\ exitSent = {} /\ linger = {}
  /\ status = [t \in Tab |-> "none"]
  /\ pc = [t \in Tab |-> "idle"]
  /\ proc = [t \in Tab |-> "none"]
  /\ closing = [t \in Tab |-> "none"]
  /\ lock = None

Set(f, t, value) == [f EXCEPT ![t] = value]

-----------------------------------------------------------------------------
(* The table of tabs and closeNow of the panel. *)

\* create: registered first, started when it is mounted.  At the limit nothing
\* is closed to make room.
Create(t) ==
  /\ status[t] = "none"
  /\ Cardinality(entries) < Max
  /\ entries' = entries \cup {t}
  /\ status' = Set(status, t, "starting")
  /\ UNCHANGED <<disposed, waiting, startVars, ptyVars>>

\* mount and begin: only the first one starts the program.
Mount(t) ==
  /\ t \in entries /\ status[t] = "starting" /\ pc[t] = "idle"
  /\ pc' = Set(pc, t, "opening")
  /\ UNCHANGED <<tabVars, hasId, listening, ptyVars>>

\* The element cannot be opened: the failure is on the tab, nothing is started.
MountFails(t) ==
  /\ t \in entries /\ status[t] = "starting" /\ pc[t] = "idle"
  /\ status' = Set(status, t, "failed")
  /\ UNCHANGED <<entries, disposed, waiting, startVars, ptyVars>>

\* dispose of the sessions of tabs T: what has no id yet is not closed.
Dispose(T) ==
  /\ entries' = entries \ T
  /\ disposed' = disposed \cup T
  /\ listening' = listening \ T
  /\ hasId' = hasId \ T
  /\ closing' = [t \in Tab |-> IF t \in T \cap hasId THEN "asked" ELSE closing[t]]

\* closeNow: stop, and with an id that means to wait for pty_close ...
CloseNow(t) ==
  /\ t \in entries
  /\ t \in hasId
  /\ hasId' = hasId \ {t}
  /\ closing' = Set(closing, t, "asked")
  /\ waiting' = waiting \cup {t}
  /\ UNCHANGED <<entries, disposed, status, pc, listening, proc, linger, sessions,
                 exitSent, lock, writing>>

\* ... and without one stop has nothing to do and the tab is closed at once.
CloseIdle(t) ==
  /\ t \in entries
  /\ t \notin hasId
  /\ Dispose({t})
  /\ UNCHANGED <<status, waiting, pc, proc, linger, sessions, exitSent, lock, writing>>

\* A plausible bug: a tab that was stopped is kept.
CloseReturnsOnly(t) ==
  /\ t \in waiting /\ closing[t] = "done"
  /\ waiting' = waiting \ {t}
  /\ status' = IF pc[t] = "up" /\ status[t] \in Open THEN Set(status, t, "stopped") ELSE status
  /\ UNCHANGED <<entries, disposed, startVars, ptyVars>>

\* stop goes on after pty_close: a session that was started is "stopped", and
\* closeNow goes on with close.
CloseReturns(t) ==
  /\ t \in waiting /\ closing[t] = "done"
  /\ waiting' = waiting \ {t}
  /\ status' = IF pc[t] = "up" /\ status[t] \in Open THEN Set(status, t, "stopped") ELSE status
  /\ IF t \in entries
       THEN Dispose({t})
       ELSE UNCHANGED <<entries, disposed, listening, hasId, closing>>
  /\ UNCHANGED <<pc, proc, linger, sessions, exitSent, lock, writing>>

\* disposeAll: the page is left.
LeavePage ==
  /\ entries # {}
  /\ Dispose(entries)
  /\ UNCHANGED <<status, waiting, pc, proc, linger, sessions, exitSent, lock, writing>>

-----------------------------------------------------------------------------
(* TerminalSession.start. *)

Goto(t, from, to) == pc[t] = from /\ pc' = [pc EXCEPT ![t] = to]

\* pty_open answers; nobody asks whether the session was disposed meanwhile.
OpenReturns(t) ==
  /\ Goto(t, "inserted", "subscribing")
  /\ hasId' = hasId \cup {t}
  /\ UNCHANGED <<tabVars, listening, ptyVars>>

OpenFails(t) ==
  /\ Goto(t, "opening", "failed")
  /\ status' = Set(status, t, "failed")
  /\ UNCHANGED <<entries, disposed, waiting, hasId, listening, ptyVars>>

\* listen("pty://exit") is registered in the desktop ...
Listen(t) ==
  /\ Goto(t, "subscribing", "listening")
  /\ listening' = listening \cup {t}
  /\ UNCHANGED <<tabVars, hasId, ptyVars>>

\* ... and start goes on with update({ running: true }).
Started(t) ==
  /\ Goto(t, "listening", "up")
  /\ status' = Set(status, t, "running")
  /\ UNCHANGED <<entries, disposed, waiting, hasId, listening, ptyVars>>

\* The handler of pty://exit ignores the end of a session it has no id of, and
\* syncFromSession ignores one before the start was complete.
OnExit(t) ==
  IF t \in listening \cap hasId
    THEN /\ hasId' = hasId \ {t}
         /\ status' = IF pc[t] = "up" /\ status[t] \in Open
                        THEN Set(status, t, "exited") ELSE status
    ELSE UNCHANGED <<hasId, status>>

-----------------------------------------------------------------------------
(* PtyService. *)

\* open: the child, its reader and its waiter, then the entry of the table.
Spawn(t) ==
  /\ Goto(t, "opening", "spawned")
  /\ proc' = Set(proc, t, "alive")
  /\ UNCHANGED <<tabVars, hasId, listening, linger, sessions, exitSent, closing, lock, writing>>

Insert(t) ==
  /\ Goto(t, "spawned", "inserted")
  /\ lock = None
  /\ sessions' = sessions \cup {t}
  /\ UNCHANGED <<tabVars, hasId, listening, proc, linger, exitSent, closing, lock, writing>>

\* A key stroke leaves the front end, one at a time.
Type(t) ==
  /\ t \in Typists \cap hasId
  /\ t \notin disposed \cup writing
  /\ writing' = writing \cup {t}
  /\ UNCHANGED <<tabVars, startVars, proc, linger, sessions, exitSent, closing, lock>>

\* write: the mutex of the table is held until the terminal has taken the bytes.
BeginWrite(t) ==
  /\ t \in writing \cap sessions
  /\ lock = None
  /\ lock' = t
  /\ UNCHANGED <<tabVars, startVars, proc, linger, sessions, exitSent, closing, writing>>

EndWrite(t) ==
  /\ lock = t
  /\ proc[t] # "deaf"
  /\ lock' = None
  /\ writing' = writing \ {t}
  /\ UNCHANGED <<tabVars, startVars, proc, linger, sessions, exitSent, closing>>

\* The session is not in the table any more, or its program is dead: the tab
\* is marked as failed.
WriteFails(t) ==
  /\ t \in writing
  /\ \/ lock = None /\ t \notin sessions
     \/ lock = t /\ proc[t] = "dead"
  /\ lock' = None
  /\ writing' = writing \ {t}
  /\ status' = Set(status, t, "failed")
  /\ UNCHANGED <<entries, disposed, waiting, startVars, proc, linger, sessions, exitSent, closing>>

\* A plausible bug: the entry is dropped and the child is left to itself.
CloseDrops(t) ==
  /\ closing[t] = "asked"
  /\ lock = None
  /\ sessions' = sessions \ {t}
  /\ closing' = Set(closing, t, "done")
  /\ UNCHANGED <<tabVars, startVars, proc, linger, exitSent, lock, writing>>

\* close: take the entry, kill and reap the child, join the reader and the waiter.
CloseRemove(t) ==
  /\ closing[t] = "asked"
  /\ lock = None
  /\ sessions' = sessions \ {t}
  /\ closing' = Set(closing, t, IF t \in sessions THEN "removed" ELSE "done")
  /\ UNCHANGED <<tabVars, startVars, proc, linger, exitSent, lock, writing>>

\* The child dies; a child of its own may stay and hold the terminal.
Dies(t) ==
  /\ proc' = Set(proc, t, "dead")
  /\ linger' \in {linger, linger \cup ({t} \cap Lingering)}

CloseKill(t) ==
  /\ closing[t] = "removed"
  /\ IF proc[t] = "dead" THEN UNCHANGED <<proc, linger>> ELSE Dies(t)
  /\ closing' = Set(closing, t, "joining")
  /\ UNCHANGED <<tabVars, startVars, sessions, exitSent, lock, writing>>

\* The reader ends when nobody holds the terminal any more.
CloseJoin(t) ==
  /\ closing[t] = "joining"
  /\ t \notin linger /\ t \in exitSent
  /\ closing' = Set(closing, t, "done")
  /\ UNCHANGED <<tabVars, startVars, proc, linger, sessions, exitSent, lock, writing>>

\* The waiter of a session: one event, when the child is dead.
ReportExit(t) ==
  /\ proc[t] = "dead" /\ t \notin exitSent
  /\ exitSent' = exitSent \cup {t}
  /\ OnExit(t)
  /\ UNCHANGED <<entries, disposed, waiting, pc, listening, proc, linger, sessions,
                 closing, lock, writing>>

-----------------------------------------------------------------------------
(* What the program in the terminal does. *)

Exit(t) ==
  /\ proc[t] \in Alive
  /\ Dies(t)
  /\ UNCHANGED <<tabVars, startVars, sessions, exitSent, closing, lock, writing>>

\* It matters only to a write, whose bytes do not fit into the terminal.
StopReading(t) ==
  /\ t \in Deaf /\ proc[t] = "alive" /\ lock = t
  /\ proc' = Set(proc, t, "deaf")
  /\ UNCHANGED <<tabVars, startVars, linger, sessions, exitSent, closing, lock, writing>>

-----------------------------------------------------------------------------
User(t) == Create(t) \/ MountFails(t) \/ CloseNow(t) \/ CloseIdle(t) \/ Type(t)

Starting(t) ==
  Mount(t) \/ Spawn(t) \/ OpenFails(t) \/ OpenReturns(t) \/ Listen(t) \/ Started(t)
Writing(t) == BeginWrite(t) \/ EndWrite(t) \/ WriteFails(t)
Closing(t) == CloseKill(t) \/ CloseJoin(t) \/ CloseReturns(t)

Program(t) == Exit(t) \/ StopReading(t)

Next ==
  \/ LeavePage
  \/ \E t \in Tab :
       \/ User(t) \/ Program(t)
       \/ Starting(t) \/ Insert(t) \/ Writing(t) \/ CloseRemove(t) \/ Closing(t) \/ ReportExit(t)

Spec == Init /\ [][Next]_vars

\* A write ends, a close that asks for the mutex gets it at last, and the threads
\* of the desktop go on.  Nothing is asked of the start of a program.
FairSpec ==
  /\ Spec
  /\ \A t \in Tab :
       /\ WF_vars(EndWrite(t) \/ WriteFails(t))
       /\ SF_vars(CloseRemove(t))
       /\ WF_vars(Closing(t))
       /\ WF_vars(ReportExit(t))

-----------------------------------------------------------------------------
(* Properties. *)

\* "Stopped" and "exited" are said only of a program that is really gone, however
\* stop, the exit event and the continuation of start interleave (syncFromSession).
EndIsTrue ==
  \A t \in Tab : status[t] \in {"stopped", "exited"} => proc[t] = "dead"

\* A program somewhere that does not read its input: write may hold the mutex.
SomebodyDeaf == \E t \in Tab : proc[t] = "deaf"

\* pty_close kills the program, whoever types into the table meanwhile, unless
\* some program has stopped reading.
CloseKills == \A t \in Tab : closing[t] = "asked" ~> (proc[t] = "dead" \/ SomebodyDeaf)

\* A tab whose cross was pressed goes away (closeNow waits for pty_close first),
\* unless some program has stopped reading or a child was left with the terminal.
TabGoes ==
  \A t \in Tab : t \in waiting ~> (t \notin entries \/ SomebodyDeaf \/ t \in linger)

\* A tab that is closed leaves no program behind, at whatever moment of its
\* start it is closed (closeNow, R-08).
NothingLeftRunning ==
  \A t \in disposed : pc[t] = "up" /\ closing[t] = "none" => proc[t] \notin Alive
=============================================================================
