----------------------------- MODULE AgentServer -----------------------------
(***************************************************************************)
(* The Agent as one process: the connections of AgentPresence carry the    *)
(* attempts of OperationLedger, the end of a connection aborts them, and   *)
(* the end of the process takes the ledger away.  Both run on one clock.   *)
(***************************************************************************)
EXTENDS OperationLedger, AgentPresence

CONSTANT Carrier   \* the connection each attempt comes on

ASSUME CarrierAssumption == Carrier \in [Attempt -> Conn]

vars == <<ledgerVars, presenceVars>>

TypeOK ==
  /\ LedgerTypeOK
  /\ PresenceTypeOK

Init ==
  /\ LedgerInit
  /\ PresenceInit

-----------------------------------------------------------------------------
\* A request after the hello: a task of its own for each.
Request(a, o) ==
  /\ conn[Carrier[a]] = "attending"
  /\ Receive(a, o)
  /\ UNCHANGED presenceVars

Handle(a) == Work(a) /\ UNCHANGED presenceVars

Deadline(a) ==
  /\ pc[a] \in InProgress
  /\ Drop({a})
  /\ UNCHANGED presenceVars

\* abort_all, and then the guard of the presence is dropped.
HangUp(c) ==
  /\ Leave(c)
  /\ Drop({a \in Attempt : Carrier[a] = c})

Connect(c) == Greet(c) /\ UNCHANGED ledgerVars

TimePasses == Tick /\ Age

Decide == (Poll \/ RemoveSessionDir) /\ UNCHANGED ledgerVars

Exit == ExitProcess /\ Forget

Kill == Killed /\ Forget

StartAgent == Start /\ UNCHANGED ledgerVars

-----------------------------------------------------------------------------
Watchdog == TimePasses \/ Decide \/ Exit

Next ==
  \/ \E a \in Attempt : (\E o \in Op : Request(a, o)) \/ Handle(a) \/ Deadline(a)
  \/ \E c \in Conn : Connect(c) \/ HangUp(c)
  \/ Watchdog \/ Kill \/ StartAgent

Spec == Init /\ [][Next]_vars

\* The runtime polls its tasks and fires its timers.  Nobody has to connect.
FairSpec == Spec /\ WF_vars(Watchdog)
=============================================================================
