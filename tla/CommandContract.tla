--------------------------- MODULE CommandContract ---------------------------
(***************************************************************************)
(* What running one external command promises its caller, whatever the     *)
(* child process does: it ends at most once, and each way of ending has    *)
(* its cause.  ProcessService implements it with a select loop over the    *)
(* output channel, the child, the cancellation token and a deadline.       *)
(***************************************************************************)
EXTENDS Naturals

VARIABLES
  phase,      \* "idle", "running" or "ended"
  outcome,    \* "none", "success", "failure", "Cancelled", "TimedOut", "Err"
  cancelled,  \* the caller cancelled the token
  overdue,    \* the deadline of the command has passed
  exited,     \* the child has exited and has been waited for
  unread      \* a line of output that was read has not reached the sink

vars == <<phase, outcome, cancelled, overdue, exited, unread>>

Outcomes == {"success", "failure", "Cancelled", "TimedOut", "Err"}

Init ==
  /\ phase = "idle"
  /\ outcome = "none"
  /\ cancelled = FALSE
  /\ overdue \in BOOLEAN
  /\ exited = FALSE
  /\ unread = FALSE

\* The child, its output, the clock and the user move on; nothing is undone.
Progress ==
  /\ phase # "ended"
  /\ phase' \in {phase, "running"}
  /\ outcome' = outcome
  /\ exited => exited'

\* The command ends.  An exit code is only reported for a child that was
\* waited for, after every line that was read of its output; what follows a
\* line that is not UTF-8 is never read, and no part of this promise.  A
\* cancellation or a timeout is reported only when that is what happened.
Finish ==
  /\ phase # "ended"
  /\ phase' = "ended"
  /\ outcome' \in Outcomes
  /\ outcome' \in {"success", "failure"} => exited' /\ ~unread'
  /\ outcome' = "Cancelled" => cancelled
  /\ outcome' = "TimedOut" => overdue
  /\ outcome' = "Err" => phase = "idle"

\* After the end the outside world may still move, the verdict may not.
Aftermath ==
  /\ phase = "ended"
  /\ UNCHANGED <<phase, outcome>>

Irrevocable ==
  /\ cancelled => cancelled'
  /\ overdue => overdue'

Next == (Progress \/ Finish \/ Aftermath) /\ Irrevocable

Spec == Init /\ [][Next]_vars
=============================================================================
