---------------------------- MODULE AgentPresence ----------------------------
(***************************************************************************)
(* When the Agent leaves the device by itself: serve_connection counts the *)
(* clients that passed the hello, a watchdog polls the count, and when it  *)
(* was zero for the whole grace period the process exits.  Connections and *)
(* the watchdog are tasks of a multi-threaded runtime.                     *)
(*                                                                         *)
(* One tick is one IDLE_POLL.  Only spans of time matter, so they are kept *)
(* as counters that stop at Grace.                                         *)
(***************************************************************************)
EXTENDS Naturals, FiniteSets

CONSTANTS
  Conn,       \* connections that may be open at the same time
  Grace,      \* the grace period in ticks
  NotEmpty,   \* zero_since is None
  MaxStarts   \* bound on starts of the Agent

ASSUME PresenceAssumption ==
  /\ IsFiniteSet(Conn)
  /\ Grace \in Nat \ {0}
  /\ NotEmpty \notin Nat
  /\ MaxStarts \in Nat

VARIABLES
  agent,       \* "running" or "gone"
  conn,        \* each connection on the Agent's side
  live,        \* ClientPresence.live
  watchdog,    \* "due", "sleep", "decided", "cleaned"
  zeroFor,     \* how long zero_since is ago, NotEmpty when it is None
  sinceSeen,   \* history: ticks since the start or since a poll saw a client
  starts       \* how often the Agent was started

presenceVars == <<agent, conn, live, watchdog, zeroFor, sinceSeen, starts>>

PresenceTypeOK ==
  /\ agent \in {"running", "gone"}
  /\ conn \in [Conn -> {"none", "open", "greeted", "attending"}]
  /\ live \in 0..Cardinality(Conn)
  /\ watchdog \in {"due", "sleep", "decided", "cleaned"}
  /\ zeroFor \in 0..Grace \cup {NotEmpty}
  /\ sinceSeen \in 0..Grace
  /\ starts \in 0..MaxStarts

PresenceInit ==
  /\ agent = "gone"
  /\ conn = [c \in Conn |-> "none"]
  /\ live = 0
  /\ watchdog = "due"
  /\ zeroFor = NotEmpty
  /\ sinceSeen = 0
  /\ starts = 0

-----------------------------------------------------------------------------
(* serve_connection. *)

Step(c, from, to) ==
  /\ agent = "running"
  /\ conn[c] = from
  /\ conn' = [conn EXCEPT ![c] = to]
  /\ UNCHANGED <<agent, watchdog, zeroFor, sinceSeen, starts>>

Accept(c) == Step(c, "none", "open") /\ UNCHANGED live

\* The hello is answered with success; the presence is registered only after.
HelloSucceeds(c) == Step(c, "open", "greeted") /\ UNCHANGED live

\* The first request is no hello, its token or version is wrong, or the peer
\* hangs up: none of this is a presence.
HelloFails(c) == Step(c, "open", "none") /\ UNCHANGED live

Attend(c) == Step(c, "greeted", "attending") /\ live' = live + 1

\* The answer to the hello cannot be written.
GreetingLost(c) == Step(c, "greeted", "none") /\ UNCHANGED live

\* A plausible bug: one of the exits forgets to give the presence back.
LeaveWithoutRelease(c) == Step(c, "attending", "none") /\ live' \in {live, live - 1}

\* EOF, a read error or an aborted task: Attendance is dropped in each case.
Leave(c) == Step(c, "attending", "none") /\ live' = live - 1

-----------------------------------------------------------------------------
(* wait_until_should_exit and what main does after it. *)

\* Timers are punctual: the clock waits for a poll that is due.
Tick ==
  /\ agent = "running"
  /\ watchdog = "sleep"
  /\ watchdog' = "due"
  /\ zeroFor' = IF zeroFor \in 0..(Grace - 1) THEN zeroFor + 1 ELSE zeroFor
  /\ sinceSeen' = IF sinceSeen < Grace THEN sinceSeen + 1 ELSE sinceSeen
  /\ UNCHANGED <<agent, conn, live, starts>>

\* A plausible bug: the empty time is accumulated, a client does not reset it.
AccumulateZero == IF zeroFor = NotEmpty THEN 0 ELSE zeroFor

\* zero_since after observe: a client resets it, else it starts or goes on.
ObservedZero ==
  IF live > 0 THEN NotEmpty ELSE IF zeroFor = NotEmpty THEN 0 ELSE zeroFor

Poll ==
  /\ agent = "running"
  /\ watchdog = "due"
  /\ zeroFor' = ObservedZero
  /\ sinceSeen' = IF live > 0 THEN 0 ELSE sinceSeen
  /\ watchdog' = IF live = 0 /\ zeroFor' = Grace THEN "decided" ELSE "sleep"
  /\ UNCHANGED <<agent, conn, live, starts>>

RemoveSessionDir ==
  /\ agent = "running"
  /\ watchdog = "decided"
  /\ watchdog' = "cleaned"
  /\ UNCHANGED <<agent, conn, live, zeroFor, sinceSeen, starts>>

\* The process is gone and with it every connection.
Gone ==
  /\ agent = "running" /\ agent' = "gone"
  /\ conn' = [c \in Conn |-> "none"]
  /\ live' = 0
  /\ UNCHANGED <<watchdog, zeroFor, sinceSeen, starts>>

\* std::process::exit(0).
ExitProcess == watchdog = "cleaned" /\ Gone

\* A desktop that restarts the Agent, or the system, ends it.
Killed == Gone

\* main: a new count, a new watchdog.
Start ==
  /\ agent = "gone" /\ agent' = "running"
  /\ starts < MaxStarts /\ starts' = starts + 1
  /\ watchdog' = "due" /\ zeroFor' = NotEmpty /\ sinceSeen' = 0
  /\ UNCHANGED <<conn, live>>

-----------------------------------------------------------------------------
Greet(c) == Accept(c) \/ HelloSucceeds(c) \/ HelloFails(c) \/ Attend(c) \/ GreetingLost(c)

-----------------------------------------------------------------------------
(* Properties. *)

\* The Agent decides to leave only when every poll of a whole grace period saw
\* nobody: a client in between starts the period anew.
DecidesAfterWholeGrace == watchdog \in {"decided", "cleaned"} => sinceSeen = Grace

\* When nobody attends any more, the Agent leaves, however many connections
\* that fail their hello come and go.
IdleAgentLeaves == (<>[](\A c \in Conn : conn[c] # "attending")) => <>[](agent = "gone")
=============================================================================
