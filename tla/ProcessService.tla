--------------------------- MODULE ProcessService ---------------------------
(***************************************************************************)
(* One call of process_service::execute: the select loop that pumps the    *)
(* output of a child process, waits for it, reacts to cancellation and to  *)
(* the deadline, and escalates from SIGTERM to SIGKILL.                    *)
(*                                                                         *)
(* The loop only looks at the clock after a branch of the select has fired.*)
(* The child, the descendants that inherited its pipes and the user are    *)
(* the environment.  Time is counted in ticks.                             *)
(***************************************************************************)
EXTENDS Naturals

CONSTANTS
  Grace,      \* GRACE_AFTER_TERM
  HardCap,    \* HARD_CAP_AFTER_TERM
  Never,      \* Rust's None, for instants and exit codes
  Timeouts,   \* the values CommandSpec.timeout may have
  MaxTime,    \* bound on the clock
  MaxLines    \* bound on the lines of output

ASSUME ProcessAssumption ==
  /\ Grace \in Nat
  /\ HardCap \in Nat
  /\ Grace <= HardCap
  /\ MaxTime \in Nat
  /\ HardCap <= MaxTime
  /\ MaxLines \in Nat
  /\ Never \notin Nat \cup {"0", "1", "signal"}
  /\ Timeouts \subseteq (0..MaxTime) \cup {Never}

VARIABLES
  now,          \* the clock
  deadline,     \* anchored when the child is spawned, Never without a timeout
  child,        \* "none", "running", "zombie" or "reaped"
  code,         \* the exit code of a child that ended: "0", "1" or "signal"
  obeys,        \* SIGTERM ends this child
  descendant,   \* a process that inherited the pipes is alive
  signals,      \* signals sent to the child, a subset of {"TERM", "KILL"}
  pumps,        \* how many of the two pumps still read their pipe
  produced,     \* lines the pumps have read, or will read
  delivered,    \* lines the sink has been called with
  cancelled,    \* the cancellation token
  loop,         \* "spawn", "select" or "done"
  exitCode,     \* exit_code, Never while the child has not been waited for
  rxOpen,       \* rx_open
  termAt,       \* terminate_sent_at
  forceSent,    \* force_sent
  reason,       \* reason
  outcome       \* what execute returned

procVars == <<child, code, obeys, descendant, signals, pumps, produced>>
loopVars == <<exitCode, rxOpen, termAt, forceSent, reason>>
processVars == <<now, deadline, procVars, delivered, cancelled, loop, loopVars, outcome>>

Codes == {"0", "1", "signal"}

ProcessTypeOK ==
  /\ now \in 0..MaxTime
  /\ deadline \in (0..2*MaxTime) \cup {Never}
  /\ child \in {"none", "running", "zombie", "reaped"}
  /\ code \in Codes \cup {Never}
  /\ obeys \in BOOLEAN
  /\ descendant \in BOOLEAN
  /\ signals \in SUBSET {"TERM", "KILL"}
  /\ pumps \in 0..2
  /\ produced \in 0..MaxLines
  /\ delivered \in 0..MaxLines
  /\ cancelled \in BOOLEAN
  /\ loop \in {"spawn", "select", "done"}
  /\ exitCode \in Codes \cup {Never}
  /\ rxOpen \in BOOLEAN
  /\ termAt \in (0..MaxTime) \cup {Never}
  /\ forceSent \in BOOLEAN
  /\ reason \in {"none", "Cancelled", "TimedOut"}
  /\ outcome \in {"none", "success", "failure", "Cancelled", "TimedOut", "Err"}

ProcessInit ==
  /\ now = 0
  /\ deadline = Never
  /\ child = "none"
  /\ code = Never
  /\ obeys \in BOOLEAN
  /\ descendant = FALSE
  /\ signals = {}
  /\ pumps = 2
  /\ produced = 0
  /\ delivered = 0
  /\ cancelled = FALSE
  /\ loop = "spawn"
  /\ exitCode = Never
  /\ rxOpen = TRUE
  /\ termAt = Never
  /\ forceSent = FALSE
  /\ reason = "none"
  /\ outcome = "none"

-----------------------------------------------------------------------------
(* The child process, its descendants, the clock and the user. *)

\* Both pumps have dropped their senders: nobody is left to write, or they
\* stopped before.
Eof == pumps = 0 \/ (child \in {"zombie", "reaped"} /\ ~descendant)

Writing == child = "running" \/ descendant

WriteLine ==
  /\ Writing
  /\ pumps > 0
  /\ produced < MaxLines
  /\ produced' = produced + 1
  /\ UNCHANGED <<now, deadline, child, code, obeys, descendant, signals, pumps,
                 delivered, cancelled, loop, loopVars, outcome>>

\* A pump ends although its pipe is still written to: it has met a line that
\* is not UTF-8, and what follows on that pipe is lost, or the process closed
\* its end early.
PumpStops ==
  /\ Writing
  /\ pumps > 0
  /\ pumps' = pumps - 1
  /\ UNCHANGED <<now, deadline, child, code, obeys, descendant, signals, produced,
                 delivered, cancelled, loop, loopVars, outcome>>

\* The child ends by itself, and may leave a descendant behind that still
\* holds the pipes (an adb server, a daemonised helper).  Writing to a pipe that
\* nobody reads may kill it.
Exit ==
  /\ child = "running"
  /\ child' = "zombie"
  /\ code' \in {"0", "1"} \cup (IF pumps < 2 THEN {"signal"} ELSE {})
  /\ descendant' \in BOOLEAN
  /\ UNCHANGED <<now, deadline, obeys, signals, pumps, produced, delivered, cancelled,
                 loop, loopVars, outcome>>

\* On Unix only the child is signalled, so a descendant may survive it.
DieOfSignal ==
  /\ child = "running"
  /\ "KILL" \in signals \/ ("TERM" \in signals /\ obeys)
  /\ child' = "zombie"
  /\ code' = "signal"
  /\ descendant' \in BOOLEAN
  /\ UNCHANGED <<now, deadline, obeys, signals, pumps, produced, delivered, cancelled,
                 loop, loopVars, outcome>>

DescendantExit ==
  /\ descendant
  /\ descendant' = FALSE
  /\ UNCHANGED <<now, deadline, child, code, obeys, signals, pumps, produced, delivered,
                 cancelled, loop, loopVars, outcome>>

Tick ==
  /\ now < MaxTime
  /\ now' = now + 1
  /\ UNCHANGED <<deadline, procVars, delivered, cancelled, loop, loopVars, outcome>>

\* The bound leaves the clock room for the grace period and the hard cap.
UserCancels ==
  /\ ~cancelled
  /\ now + HardCap <= MaxTime
  /\ cancelled' = TRUE
  /\ UNCHANGED <<now, deadline, procVars, delivered, loop, loopVars, outcome>>

-----------------------------------------------------------------------------
(* execute. *)

Spawn ==
  /\ loop = "spawn"
  /\ loop' = "select"
  /\ child' = "running"
  /\ \E t \in Timeouts : deadline' = IF t = Never THEN Never ELSE now + t
  /\ UNCHANGED <<now, code, obeys, descendant, signals, pumps, produced, delivered,
                 cancelled, loopVars, outcome>>

SpawnFails ==
  /\ loop = "spawn"
  /\ loop' = "done"
  /\ outcome' = "Err"
  /\ UNCHANGED <<now, deadline, procVars, delivered, cancelled, loopVars>>

\* The arms of the select that can fire.
RxReady == rxOpen /\ (delivered < produced \/ Eof)
WaitReady == exitCode = Never /\ child = "zombie"
CancelReady == reason = "none" /\ cancelled
TimeoutReady == reason = "none" /\ deadline # Never /\ now >= deadline

Elapsed(at, span) == at # Never /\ now - at >= span

\* The grace period after SIGTERM is over and nobody has killed the child yet.
ForceDue == ~forceSent /\ exitCode' = Never /\ Elapsed(termAt', Grace)

\* A plausible bug: once SIGTERM is sent nobody waits for what it does.
LoopDoneAtSignal == (exitCode' # Never /\ ~rxOpen') \/ termAt' # Never

\* The natural end, or the hard cap after SIGTERM.
LoopDone == (exitCode' # Never /\ ~rxOpen') \/ Elapsed(termAt', HardCap)

Verdict ==
  IF reason' # "none" THEN reason'
  ELSE IF exitCode' = "0" THEN "success" ELSE "failure"

\* A return drops the Child handle, and kill_on_drop(true) kills a child that
\* has not been waited for.
DropKill == IF LoopDone /\ exitCode' = Never THEN {"KILL"} ELSE {}

\* What follows every arm: escalation, then the two exits of the loop.
AfterArm(signalled) ==
  /\ forceSent' = (forceSent \/ ForceDue)
  /\ signals' = signals \cup signalled \cup (IF ForceDue THEN {"KILL"} ELSE {})
                        \cup DropKill
  /\ loop' = IF LoopDone THEN "done" ELSE loop
  /\ outcome' = IF LoopDone THEN Verdict ELSE outcome
  /\ UNCHANGED <<now, deadline, code, obeys, descendant, pumps, produced, cancelled>>

PumpOutput ==
  /\ loop = "select"
  /\ RxReady
  /\ IF delivered < produced
       THEN delivered' = delivered + 1 /\ UNCHANGED rxOpen
       ELSE rxOpen' = FALSE /\ UNCHANGED delivered
  /\ UNCHANGED <<child, exitCode, termAt, reason>>
  /\ AfterArm({})

WaitChild ==
  /\ loop = "select"
  /\ ~RxReady
  /\ WaitReady
  /\ exitCode' = code
  /\ child' = "reaped"
  /\ UNCHANGED <<delivered, rxOpen, termAt, reason>>
  /\ AfterArm({})

\* A plausible bug: the cancellation is noted, the child is not told.
NoteOnly(why) ==
  /\ reason' = why
  /\ UNCHANGED <<child, exitCode, delivered, rxOpen, termAt>>
  /\ AfterArm({})

\* terminate_tree, unless the child has been waited for: its pid may have been
\* reused.
Terminate(why) ==
  /\ reason' = why
  /\ termAt' = IF exitCode = Never THEN now ELSE termAt
  /\ UNCHANGED <<child, exitCode, delivered, rxOpen>>
  /\ AfterArm(IF exitCode = Never THEN {"TERM"} ELSE {})

CancelArm ==
  /\ loop = "select"
  /\ ~RxReady /\ ~WaitReady
  /\ CancelReady
  /\ Terminate("Cancelled")

\* A plausible bug: a deadline reported as the user's decision.
TimeoutAsCancel ==
  /\ loop = "select"
  /\ ~RxReady /\ ~WaitReady /\ ~CancelReady
  /\ TimeoutReady
  /\ Terminate("Cancelled")

TimeoutArm ==
  /\ loop = "select"
  /\ ~RxReady /\ ~WaitReady /\ ~CancelReady
  /\ TimeoutReady
  /\ Terminate("TimedOut")

Execute == Spawn \/ SpawnFails \/ PumpOutput \/ WaitChild \/ CancelArm \/ TimeoutArm

Environment == WriteLine \/ PumpStops \/ Exit \/ DieOfSignal \/ DescendantExit \/ Tick \/ UserCancels

ProcessNext == Execute \/ Environment

ProcessSpec == ProcessInit /\ [][ProcessNext]_processVars

\* tokio runs a ready task, the kernel delivers signals and the clock goes on.
\* Nothing makes a child write, exit or let go of its pipes by itself.
ProcessFairSpec ==
  /\ ProcessSpec
  /\ WF_processVars(Execute)
  /\ WF_processVars(DieOfSignal)
  /\ WF_processVars(Tick)

-----------------------------------------------------------------------------
(* Properties. *)

\* SIGKILL, whether it is sent by the escalation or by dropping the handle when
\* execute returns, comes only after SIGTERM and a whole grace period.
GraceBeforeKill ==
  [][ "KILL" \in signals' /\ "KILL" \notin signals => Elapsed(termAt', Grace) ]_processVars

\* A cancellation ends the command, when the child obeys SIGTERM and leaves
\* nobody behind with its pipes.
CancelEnds == []<>(~ (cancelled /\ loop = "select" /\ obeys /\ ~descendant))

\* The promise of the module comment: cancelling and timing out mean SIGTERM,
\* then SIGKILL when the grace period is over.  So a child that was told to
\* stop, with time left on the clock for grace and hard cap, is not left
\* running for ever.
ForcedAfterGrace ==
  (child = "running" /\ termAt # Never /\ termAt + HardCap <= MaxTime)
    ~> (child # "running")

\* execute implements the contract its callers rely on.
Contract == INSTANCE CommandContract WITH
  phase <- CASE loop = "spawn" -> "idle" [] loop = "select" -> "running" [] OTHER -> "ended",
  overdue <- deadline # Never /\ now >= deadline,
  exited <- child = "reaped",
  unread <- delivered < produced

ContractSpec == Contract!Spec
=============================================================================
