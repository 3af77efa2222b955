---------------------------- MODULE AgentSession ----------------------------
(***************************************************************************)
(* The session of one device in AgentManager: the client, the record of    *)
(* the adb forward, the plan (the token kept for a light reconnect) and    *)
(* the status, which the operations change under the `operation` lock,     *)
(* while sweep_stale_forwards and release_forwards do not take it.  On the *)
(* other side are the forward rules in the adb server and the Agent, which *)
(* come and go by themselves.                                              *)
(*                                                                         *)
(* Installing is one step here; AgentInstall models it.                    *)
(***************************************************************************)
EXTENDS Naturals, Sequences, FiniteSets

CONSTANTS
  Op,         \* calls of the operations, each used once
  Port,       \* local ports adb may choose
  None,       \* Rust's None
  MaxEvents   \* bound on what happens by itself: unplugging, adbd restarts, ...

Kinds == {"connect", "reconnect", "disconnect", "gone", "diagnose", "sweep", "release"}

ASSUME SessionAssumption ==
  /\ IsFiniteSet(Op)
  /\ IsFiniteSet(Port)
  /\ MaxEvents \in Nat
  /\ None \notin Op \cup Port \cup Nat \cup Kinds

VARIABLES
  (* the session *)
  status,    \* "disconnected", "starting" (also adb_online and installing),
             \* "handshaking" or "ready" (also degraded)
  client,    \* the Agent instance the client talks to, or None
  forward,   \* session.forward
  plan,      \* the Agent instance whose token the plan holds, or None
  queue,     \* the operations that hold (the first) or wait for the lock
  kind,      \* the operation each call is of
  pc,        \* where each call is
  held,      \* the port a call has got from adb and not recorded yet
  launched,  \* the Agent instance a call of connect has started, or None
  keep,      \* what a sweep read with owned_forwards
  result,    \* what each call returned
  (* outside *)
  online,    \* get-state says "device"
  rules,     \* forward rules to the Agent's socket in the adb server
  agent,     \* the Agent instance that runs, or None
  alive,     \* the connection of the client answers
  events,
  (* history *)
  instances, \* how many Agent instances were started
  stray,     \* rules whose removal failed, that a killed desktop left, or that
             \* adb made for a forward that was answered with an error
  dropped,   \* rules a failed reconnect forgot
  served,    \* callers have had a client of this session
  closed     \* the session was closed and no connect has begun since

sessionVars == <<status, client, forward, plan>>
outsideVars == <<online, rules, agent, alive, events>>
historyVars == <<instances, stray, dropped, served, closed>>
vars == <<sessionVars, queue, kind, pc, held, launched, keep, result, outsideVars,
          historyVars>>

Locked == Kinds \ {"sweep", "release"}
Instance == 0..Cardinality(Op)

TypeOK ==
  /\ status \in {"disconnected", "starting", "handshaking", "ready"}
  /\ client \in Instance \cup {None}
  /\ forward \in Port \cup {None}
  /\ plan \in Instance \cup {None}
  /\ queue \in Seq(Op)
  /\ kind \in [Op -> Kinds \cup {None}]
  /\ pc \in [Op -> {"idle", "lock", "online", "start", "forward", "record", "hello",
                    "commit", "recover", "list", "over"}]
  /\ held \in [Op -> Port \cup {None}]
  /\ launched \in [Op -> Instance \cup {None}]
  /\ keep \in [Op -> SUBSET Port]
  /\ result \in [Op -> {"none", "ok", "error"}]
  /\ online \in BOOLEAN
  /\ rules \in SUBSET Port
  /\ agent \in Instance \cup {None}
  /\ alive \in BOOLEAN
  /\ events \in 0..MaxEvents
  /\ instances \in Instance
  /\ stray \in SUBSET Port
  /\ dropped \in SUBSET Port
  /\ served \in BOOLEAN
  /\ closed \in BOOLEAN

\* The desktop has just been started.  The one before it may have left forward
\* rules and a running Agent whose token nobody knows any more.
Init ==
  /\ status = "disconnected"
  /\ client = None /\ forward = None /\ plan = None
  /\ queue = <<>>
  /\ kind = [o \in Op |-> None]
  /\ pc = [o \in Op |-> "idle"]
  /\ held = [o \in Op |-> None]
  /\ launched = [o \in Op |-> None]
  /\ keep = [o \in Op |-> {}]
  /\ result = [o \in Op |-> "none"]
  /\ online = TRUE /\ alive = FALSE
  /\ rules \in {r \in SUBSET Port : Cardinality(r) <= 1}
  /\ agent \in {None, 0}
  /\ events = 0 /\ instances = 0
  /\ stray = rules
  /\ dropped = {}
  /\ served = FALSE /\ closed = FALSE

-----------------------------------------------------------------------------
(* The operation lock: a fair mutex. *)

\* The watch loop calls device_disconnected when it does not see the device; a
\* reconnect follows a call of a client that lost its connection; release is
\* the last thing the desktop does.
Call(o, k) ==
  /\ pc[o] = "idle"
  /\ k = "gone" => ~online
  /\ k = "reconnect" => served
  /\ \A q \in Op : kind[q] # "release"
  /\ kind' = [kind EXCEPT ![o] = k]
  /\ IF k \in Locked
       THEN queue' = Append(queue, o) /\ pc' = [pc EXCEPT ![o] = "lock"]
       ELSE UNCHANGED queue /\ pc' = [pc EXCEPT ![o] = "start"]
  /\ UNCHANGED <<sessionVars, held, launched, keep, result, outsideVars, historyVars>>

At(o, k, label) ==
  /\ pc[o] = label
  /\ kind[o] = k
  /\ k \in Locked => Head(queue) = o

Goto(o, label) ==
  /\ pc' = [pc EXCEPT ![o] = label]
  /\ UNCHANGED <<queue, result>>

\* The guard of the lock goes out of scope.
Return(o, what) ==
  /\ pc' = [pc EXCEPT ![o] = "over"]
  /\ result' = [result EXCEPT ![o] = what]
  /\ queue' = IF kind[o] \in Locked THEN Tail(queue) ELSE queue

Healthy == client # None /\ alive

\* remove_forward of the rule of p: adb removes it, or fails and it may stay.
RemoveRule(p) ==
  \/ rules' = rules \ {p} /\ UNCHANGED stray
  \/ p \in rules /\ stray' = stray \cup {p} /\ UNCHANGED rules

\* forward.take() and remove_forward.
TakeForward ==
  /\ forward' = None
  /\ IF forward = None THEN UNCHANGED <<rules, stray>> ELSE RemoveRule(forward)

\* stop: a connection to an Agent that is gone does not answer.
StopAgent ==
  /\ agent' = None
  /\ alive' = FALSE

-----------------------------------------------------------------------------
(* connect_artifact_inner. *)

\* A session that answers is used again; else it is taken apart first.
BeginConnect(o) ==
  /\ At(o, "connect", "lock")
  /\ IF status = "ready" /\ Healthy
       THEN Return(o, "ok") /\ UNCHANGED <<sessionVars, closed>>
       ELSE /\ client' = None /\ plan' = None /\ status' = "disconnected"
            /\ UNCHANGED forward
            /\ closed' = FALSE
            /\ Goto(o, "online")
  /\ UNCHANGED <<kind, held, launched, keep, outsideVars, instances, stray, dropped, served>>

\* A plausible bug: the old forward is overwritten later and never removed.
EnsureOnlineOnly(o) ==
  /\ At(o, "connect", "online")
  /\ IF online THEN Goto(o, "start") /\ status' = "starting"
               ELSE Return(o, "error") /\ UNCHANGED status
  /\ UNCHANGED <<client, forward, plan, rules, stray, kind, held, launched, keep, online,
                 agent, alive, events, instances, dropped, served, closed>>

\* ensure_online, then the stale forward is removed.
EnsureOnline(o) ==
  /\ At(o, "connect", "online")
  /\ \/ online /\ Goto(o, "start") /\ TakeForward /\ status' = "starting"
     \/ ~online /\ Return(o, "error") /\ UNCHANGED <<status, forward, rules, stray>>
  /\ UNCHANGED <<client, plan, kind, held, launched, keep, online, agent, alive,
                 events, instances, dropped, served, closed>>

\* device_abi, stop, install_artifact, start.
StartAgent(o) ==
  /\ At(o, "connect", "start")
  /\ online
  /\ instances' = instances + 1
  /\ agent' = instances'
  /\ alive' = FALSE
  /\ launched' = [launched EXCEPT ![o] = instances']
  /\ Goto(o, "forward")
  /\ UNCHANGED <<sessionVars, kind, held, keep, online, rules, events, stray, dropped,
                 served, closed>>

\* One of these fails, before or after the old Agent was stopped.
StartFails(o) ==
  /\ At(o, "connect", "start")
  /\ StopAgent \/ UNCHANGED <<agent, alive>>
  /\ status' = "disconnected"
  /\ Return(o, "error")
  /\ UNCHANGED <<client, forward, plan, kind, held, launched, keep, online, rules, events,
                 historyVars>>

\* adb forward tcp:0: the rule exists before the session knows of it.
Forward(o) ==
  /\ At(o, "connect", "forward") \/ At(o, "reconnect", "forward")
  /\ online
  /\ \E p \in Port \ rules :
       /\ rules' = rules \cup {p}
       /\ held' = [held EXCEPT ![o] = p]
       /\ stray' = stray \ {p}
       /\ dropped' = dropped \ {p}
  /\ Goto(o, "record")
  /\ UNCHANGED <<sessionVars, kind, launched, keep, online, agent, alive, events, instances,
                 served, closed>>

\* The command fails, or its timeout and a port that cannot be parsed make it fail
\* after adb has made the rule, which nobody knows then.
ForwardFails(o) ==
  /\ \/ At(o, "connect", "forward") /\ Goto(o, "recover") /\ UNCHANGED status
     \/ At(o, "reconnect", "forward") /\ Return(o, "error") /\ status' = "disconnected"
  /\ \/ UNCHANGED <<rules, stray>>
     \/ /\ online
        /\ \E p \in Port \ rules : rules' = rules \cup {p} /\ stray' = stray \cup {p}
  /\ UNCHANGED <<client, forward, plan, kind, held, launched, keep, online, agent, alive, events,
                 instances, dropped, served, closed>>

Record(o) ==
  /\ At(o, "connect", "record") \/ At(o, "reconnect", "record")
  /\ forward' = held[o]
  /\ held' = [held EXCEPT ![o] = None]
  /\ status' = IF kind[o] = "connect" THEN "handshaking" ELSE status
  /\ Goto(o, "hello")
  /\ UNCHANGED <<client, plan, kind, launched, keep, outsideVars, historyVars>>

\* The Agent accepts exactly the token it was started with.
Reaches(instance) == online /\ forward \in rules /\ agent = instance

Accepted(instance) ==
  /\ status' = "ready"
  /\ client' = instance
  /\ alive' = TRUE
  /\ served' = TRUE
  /\ UNCHANGED <<online, rules, agent, events, instances, stray, dropped, closed>>

HandshakeConnect(o) ==
  /\ At(o, "connect", "hello")
  /\ Reaches(launched[o])
  /\ Accepted(launched[o])
  /\ Goto(o, "commit")
  /\ UNCHANGED <<forward, plan, kind, held, launched, keep>>

\* cleanup_launch, commit_install, the plan.
Commit(o) ==
  /\ At(o, "connect", "commit")
  /\ plan' = launched[o]
  /\ Return(o, "ok")
  /\ UNCHANGED <<status, client, forward, kind, held, launched, keep, outsideVars, historyVars>>

\* The handshake fails, and says so in the status, or commit_install does.
ConnectFails(o) ==
  /\ \/ At(o, "connect", "hello") /\ status' = "disconnected"
     \/ At(o, "connect", "commit") /\ UNCHANGED status
  /\ Goto(o, "recover")
  /\ UNCHANGED <<client, forward, plan, kind, held, launched, keep, outsideVars, historyVars>>

\* recover_failed_start; the failure of stop is ignored.
Recover(o) ==
  /\ At(o, "connect", "recover")
  /\ client' = None
  /\ TakeForward
  /\ StopAgent \/ UNCHANGED <<agent, alive>>
  /\ status' = "disconnected"
  /\ Return(o, "error")
  /\ UNCHANGED <<plan, kind, held, launched, keep, online, events, instances, dropped,
                 served, closed>>

-----------------------------------------------------------------------------
(* reconnect_after_transport_loss. *)

\* A plausible bug: without the health check every failed call reconnects.
BeginReconnectBlindly(o) ==
  /\ At(o, "reconnect", "lock")
  /\ IF plan = None
       THEN /\ status' = "disconnected"
            /\ Return(o, "error")
            /\ UNCHANGED <<client, forward, rules, stray>>
       ELSE /\ client' = None
            /\ TakeForward
            /\ Goto(o, "online")
            /\ UNCHANGED status
  /\ UNCHANGED <<plan, kind, held, launched, keep, online, agent, alive, events, instances,
                 dropped, served, closed>>

\* The first of those who wait for the lock reconnects; the others find a
\* client that answers.  Without a plan there is nothing to reconnect with.
BeginReconnect(o) ==
  /\ At(o, "reconnect", "lock")
  /\ \/ /\ Healthy
        /\ Return(o, "ok")
        /\ UNCHANGED <<status, client, forward, rules, stray>>
     \/ /\ ~Healthy /\ plan = None
        /\ status' = "disconnected"
        /\ Return(o, "error")
        /\ UNCHANGED <<client, forward, rules, stray>>
     \/ /\ ~Healthy /\ plan # None
        /\ client' = None
        /\ TakeForward
        /\ Goto(o, "online")
        /\ UNCHANGED status
  /\ UNCHANGED <<plan, kind, held, launched, keep, online, agent, alive, events, instances,
                 dropped, served, closed>>

\* A plausible bug: without the deadline a device that stays away keeps the lock.
WaitOnlineForever(o) ==
  /\ At(o, "reconnect", "online")
  /\ online /\ status' = "starting" /\ Goto(o, "forward")
  /\ UNCHANGED <<client, forward, plan, kind, held, launched, keep, outsideVars, historyVars>>

\* wait_device_online, which gives up after its deadline.
WaitOnline(o) ==
  /\ At(o, "reconnect", "online")
  /\ \/ online /\ status' = "starting" /\ Goto(o, "forward")
     \/ ~online /\ status' = "disconnected" /\ Return(o, "error")
  /\ UNCHANGED <<client, forward, plan, kind, held, launched, keep, outsideVars, historyVars>>

HandshakeReconnect(o) ==
  /\ At(o, "reconnect", "hello")
  /\ Reaches(plan)
  /\ Accepted(plan)
  /\ Return(o, "ok")
  /\ UNCHANGED <<forward, plan, kind, held, launched, keep>>

\* forward.take() without remove_forward.
ReconnectFails(o) ==
  /\ At(o, "reconnect", "hello")
  /\ forward' = None
  /\ dropped' = IF forward \in rules THEN dropped \cup {forward} ELSE dropped
  /\ status' = "disconnected"
  /\ Return(o, "error")
  /\ UNCHANGED <<client, plan, kind, held, launched, keep, outsideVars, instances, stray,
                 served, closed>>

-----------------------------------------------------------------------------
(* disconnect, device_disconnected, diagnostics. *)

\* The plan stays, but the Agent that knows its token does not.
Disconnect(o) ==
  /\ At(o, "disconnect", "lock")
  /\ client' = None
  /\ status' = "disconnected"
  /\ TakeForward
  /\ \/ /\ online
        /\ StopAgent
        /\ closed' = (closed \/ stray' = stray)
        /\ Return(o, IF stray' = stray THEN "ok" ELSE "error")
     \/ /\ UNCHANGED <<agent, alive, closed>>
        /\ Return(o, "error")
  /\ UNCHANGED <<plan, kind, held, launched, keep, online, events, instances, dropped, served>>

\* A plausible bug: the plan survives the device.
DeviceGoneKeepsPlan(o) ==
  /\ At(o, "gone", "lock")
  /\ client' = None
  /\ TakeForward
  /\ alive' = FALSE
  /\ status' = "disconnected"
  /\ closed' = TRUE
  /\ Return(o, "ok")
  /\ UNCHANGED <<plan, kind, held, launched, keep, online, agent, events, instances,
                 dropped, served>>

DeviceGone(o) ==
  /\ At(o, "gone", "lock")
  /\ client' = None /\ plan' = None
  /\ TakeForward
  /\ alive' = FALSE
  /\ status' = "disconnected"
  /\ closed' = TRUE
  /\ Return(o, "ok")
  /\ UNCHANGED <<kind, held, launched, keep, online, agent, events, instances,
                 dropped, served>>

\* A plausible bug: a client that does not answer is dropped, the status stays.
DiagnoseQuietly(o) ==
  /\ At(o, "diagnose", "lock")
  /\ client' = IF Healthy THEN client ELSE None
  /\ Return(o, "ok")
  /\ UNCHANGED <<status, forward, plan, kind, held, launched, keep, outsideVars, historyVars>>

\* A client that does not answer is dropped; the forward and the plan stay.
Diagnose(o) ==
  /\ At(o, "diagnose", "lock")
  /\ IF client = None \/ Healthy
       THEN UNCHANGED <<client, status>>
       ELSE client' = None /\ status' = "disconnected"
  /\ Return(o, "ok")
  /\ UNCHANGED <<forward, plan, kind, held, launched, keep, outsideVars, historyVars>>

-----------------------------------------------------------------------------
(* sweep_stale_forwards and release_forwards take no lock. *)

ReadOwned(o) ==
  /\ At(o, "sweep", "start")
  /\ keep' = [keep EXCEPT ![o] = {forward} \ {None}]
  /\ Goto(o, "list")
  /\ UNCHANGED <<sessionVars, kind, held, launched, outsideVars, historyVars>>

\* Every rule that was not in the list of the owned ones is removed, or adb
\* fails on it.
Sweep(o) ==
  /\ At(o, "sweep", "list")
  /\ \E removed \in SUBSET (rules \ keep[o]) : rules' = rules \ removed
  /\ Return(o, "ok")
  /\ UNCHANGED <<sessionVars, kind, held, launched, keep, online, agent, alive, events,
                 historyVars>>

\* On the way out of the desktop.
ReleaseForward(o) ==
  /\ At(o, "release", "start")
  /\ TakeForward
  /\ Return(o, "ok")
  /\ UNCHANGED <<status, client, plan, kind, held, launched, keep, online, agent, alive,
                 events, instances, dropped, served, closed>>

-----------------------------------------------------------------------------
(* What happens by itself. *)

\* What happens outside, a bounded number of times.
Event ==
  /\ events < MaxEvents
  /\ events' = events + 1
  /\ UNCHANGED <<sessionVars, queue, kind, pc, held, launched, keep, result, instances,
                 stray, dropped, served, closed>>

\* The connection breaks, or the Agent stops answering in time.
LinkLost ==
  /\ alive
  /\ alive' = FALSE
  /\ Event
  /\ UNCHANGED <<online, rules, agent>>

\* adbd restarts and takes the forward rules with it; the Agent stays.
AdbdRestarts ==
  /\ rules' = {}
  /\ alive' = FALSE
  /\ Event
  /\ UNCHANGED <<online, agent>>

AgentDies ==
  /\ agent # None
  /\ StopAgent
  /\ Event
  /\ UNCHANGED <<online, rules>>

Unplug ==
  /\ online
  /\ online' = FALSE
  /\ rules' = {}
  /\ alive' = FALSE
  /\ Event
  /\ UNCHANGED agent

Replug ==
  /\ ~online
  /\ online' = TRUE
  /\ UNCHANGED <<sessionVars, queue, kind, pc, held, launched, keep, result, rules, agent,
                 alive, events, historyVars>>

-----------------------------------------------------------------------------
Connecting(o) ==
  \/ BeginConnect(o) \/ EnsureOnline(o) \/ StartAgent(o) \/ StartFails(o)
  \/ HandshakeConnect(o) \/ Commit(o) \/ ConnectFails(o) \/ Recover(o)

Reconnecting(o) ==
  \/ BeginReconnect(o) \/ WaitOnline(o) \/ HandshakeReconnect(o) \/ ReconnectFails(o)

Running(o) ==
  \/ Connecting(o) \/ Reconnecting(o)
  \/ Forward(o) \/ ForwardFails(o) \/ Record(o)
  \/ Disconnect(o) \/ DeviceGone(o) \/ Diagnose(o)
  \/ ReadOwned(o) \/ Sweep(o) \/ ReleaseForward(o)

Outside == LinkLost \/ AdbdRestarts \/ AgentDies \/ Unplug \/ Replug

Next ==
  \/ \E o \in Op : (\E k \in Kinds : Call(o, k)) \/ Running(o)
  \/ Outside

Spec == Init /\ [][Next]_vars

\* Every adb command, every health check and the handshake have timeouts, so
\* an operation that holds the lock goes on.
FairSpec == Spec /\ \A o \in Op : WF_vars(Running(o))

-----------------------------------------------------------------------------
(* Properties. *)

Settled == queue = <<>> \/ pc[Head(queue)] = "lock"

\* When nobody is at work under the lock, the status says "ready" exactly when
\* there is a client, and the plan is the one of that client's Agent.
ConsistentWhenSettled ==
  Settled => /\ (status = "ready") <=> (client # None)
             /\ client # None => plan = client

\* Every forward rule in the adb server is on the record of the session, about
\* to be recorded, or was left there by one of four known ways: a desktop that
\* was killed, a removal that failed, a forward whose command failed although
\* adb had made the rule, and a reconnect that failed.
RulesAreAccounted ==
  rules \subseteq {forward} \cup {held[o] : o \in Op} \cup stray \cup dropped

\* A session the user closed, or whose device went away, does not come back by
\* itself: a reconnect that was waiting for the lock meanwhile does not revive it.
NoRevival == closed => client = None

\* A reconnect never takes a client away that answers: of many calls that fail
\* together only the first touches the session.
ReconnectSparesHealthy ==
  [][ \A o \in Op :
        kind[o] = "reconnect" /\ pc[o] # pc'[o] /\ Healthy => client' = client ]_vars

\* Every operation returns: nobody holds the lock for ever, and those who wait
\* for it get it in turn.
OperationsEnd == []<>(queue = <<>>)

\* The premise of the sweep: a session remembers its rule, and only a process
\* that was killed leaves rules behind (removals and forwards that adb answered
\* with an error aside).
RulesAreOwned == rules \subseteq {forward} \cup {held[o] : o \in Op} \cup stray
=============================================================================
