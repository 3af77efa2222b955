---------------------------- MODULE Terminal_proofs ----------------------------
(***************************************************************************)
(* What the table of tabs says of a program that is gone is true, for any  *)
(* number of tabs.  That is not inductive: "stopped" is said because       *)
(* pty_close has answered, and pty_close answers at once when the table of *)
(* the sessions has no entry.  The invariant says that with an id there is *)
(* an entry, and that an id is given up once.                              *)
(***************************************************************************)
EXTENDS Terminal, TLAPS

\* pty_open has answered.
Opened(t) == pc[t] \in {"subscribing", "listening", "up"}

TabInv(t) ==
  /\ t \in hasId => Opened(t) /\ closing[t] = "none"
  /\ closing[t] # "none" => Opened(t)
  /\ (Opened(t) \/ pc[t] = "inserted") /\ closing[t] \in {"none", "asked"} => t \in sessions
  /\ closing[t] \in {"joining", "done"} => proc[t] = "dead"
  /\ status[t] \in {"stopped", "exited"} => pc[t] = "up" /\ proc[t] = "dead"

IInv == TypeOK /\ \A t \in Tab : TabInv(t)

LEMMA NextType == ASSUME IInv, Next PROVE TypeOK'
<1> USE DEF IInv, TypeOK, Alive, Set, Goto
<1>1. CASE LeavePage
  BY <1>1 DEF LeavePage, Dispose
<1>2. ASSUME NEW t \in Tab, User(t) PROVE TypeOK'
  BY <1>2 DEF User, Create, MountFails, CloseNow, CloseIdle, Type, Dispose, startVars, ptyVars,
              tabVars
<1>3. ASSUME NEW t \in Tab, Program(t) PROVE TypeOK'
  BY <1>3 DEF Program, Exit, Dies, StopReading, startVars, tabVars
<1>4. ASSUME NEW t \in Tab, Starting(t) PROVE TypeOK'
  BY <1>4 DEF Starting, Mount, Spawn, OpenFails, OpenReturns, Listen, Started, tabVars, ptyVars
<1>5. ASSUME NEW t \in Tab, Insert(t) \/ Writing(t) PROVE TypeOK'
  BY <1>5 DEF Insert, Writing, BeginWrite, EndWrite, WriteFails, tabVars, startVars
<1>6. ASSUME NEW t \in Tab, CloseRemove(t) \/ CloseKill(t) \/ CloseJoin(t) PROVE TypeOK'
  BY <1>6 DEF CloseRemove, CloseKill, CloseJoin, Dies, tabVars, startVars
<1>7. ASSUME NEW t \in Tab, CloseReturns(t) PROVE TypeOK'
  BY <1>7 DEF CloseReturns, Dispose
<1>8. ASSUME NEW t \in Tab, ReportExit(t) PROVE TypeOK'
  BY <1>8 DEF ReportExit, OnExit
<1> QED
  BY <1>1, <1>2, <1>3, <1>4, <1>5, <1>6, <1>7, <1>8 DEF Next, Closing

\* What a step does to one tab.
LEMMA NextTab == ASSUME IInv, Next, NEW d \in Tab PROVE TabInv(d)'
<1> USE DEF IInv, TypeOK, Alive, TabInv, Opened, Set, Goto
<1>1. CASE LeavePage
  BY <1>1 DEF LeavePage, Dispose
<1>2. ASSUME NEW t \in Tab, User(t) PROVE TabInv(d)'
  BY <1>2 DEF User, Create, MountFails, CloseNow, CloseIdle, Type, Dispose, startVars, ptyVars,
              tabVars
<1>3. ASSUME NEW t \in Tab, Program(t) PROVE TabInv(d)'
  BY <1>3 DEF Program, Exit, Dies, StopReading, startVars, tabVars
<1>4. ASSUME NEW t \in Tab, Starting(t) PROVE TabInv(d)'
  BY <1>4 DEF Starting, Mount, Spawn, OpenFails, OpenReturns, Listen, Started, tabVars, ptyVars
<1>5. ASSUME NEW t \in Tab, Insert(t) \/ Writing(t) PROVE TabInv(d)'
  BY <1>5 DEF Insert, Writing, BeginWrite, EndWrite, WriteFails, tabVars, startVars
<1>6. ASSUME NEW t \in Tab, CloseRemove(t) \/ CloseKill(t) \/ CloseJoin(t) PROVE TabInv(d)'
  BY <1>6 DEF CloseRemove, CloseKill, CloseJoin, Dies, tabVars, startVars
<1>7. ASSUME NEW t \in Tab, CloseReturns(t) PROVE TabInv(d)'
  BY <1>7 DEF CloseReturns, Dispose
<1>8. ASSUME NEW t \in Tab, ReportExit(t) PROVE TabInv(d)'
  BY <1>8 DEF ReportExit, OnExit
<1> QED
  BY <1>1, <1>2, <1>3, <1>4, <1>5, <1>6, <1>7, <1>8 DEF Next, Closing

LEMMA Invariance == Spec => []IInv
<1>1. Init => IInv
  BY DEF Init, IInv, TypeOK, TabInv, Opened
<1>2. IInv /\ [Next]_vars => IInv'
  <2>1. CASE UNCHANGED vars
    BY <2>1 DEF vars, tabVars, startVars, ptyVars, IInv, TypeOK, TabInv, Opened
  <2> QED
    BY <2>1, NextType, NextTab DEF IInv
<1> QED
  BY <1>1, <1>2, PTL DEF Spec

\* Tabs, sessions and closes keep to their types, and whoever waits for pty_close has asked for
\* it (terminalSession.ts, pty_service.rs).
THEOREM TerminalTypeCorrect == Spec => []TypeOK
<1>1. IInv => TypeOK
  BY DEF IInv
<1> QED
  BY <1>1, Invariance, PTL

\* "Stopped" and "exited" are said only of a program that is gone, however many tabs there
\* are and however stop, the exit event and start interleave (syncFromSession, closeNow, stop
\* and start of the front end; close and the waiter of pty_service.rs).
THEOREM EndIsAlwaysTrue == Spec => []EndIsTrue
<1>1. IInv => EndIsTrue
  BY DEF IInv, TabInv, EndIsTrue
<1> QED
  BY <1>1, Invariance, PTL
================================================================================
