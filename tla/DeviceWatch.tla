----------------------------- MODULE DeviceWatch -----------------------------
(***************************************************************************)
(* How the desktop notices devices and brings their Agent back: the poll   *)
(* loop of device_service.rs with its snapshot, the automatic connection   *)
(* of agent_auto.rs with its probe, its consents and its second look, and  *)
(* the clicks that connect by hand; and how a session is given up between  *)
(* two events of the poll.  A connection and a reconnect are one step of   *)
(* success or failure under the lock of the session; what they do is       *)
(* AgentSession and AgentInstall.                                          *)
(***************************************************************************)
EXTENDS Naturals, FiniteSets

CONSTANTS
  Device,
  Task,        \* slots for the tasks that kick_agent_auto spawns
  User,        \* clicks that are being served at the same time
  Nobody,
  Grace,       \* AGENT_IDLE_EXIT_SECS
  Margin,      \* the margin of agent_takeover_recheck_delay
  MaxFlaps     \* bound on changes of the state adb reports

ASSUME WatchAssumption ==
  /\ Nobody \notin Device \cup Task \cup User
  /\ Grace \in Nat /\ Margin \in Nat
  /\ MaxFlaps \in Nat

VARIABLES
  (* the device *)
  adb,         \* "absent", "offline" or "device"
  agent,       \* an Agent process runs
  client,      \* who is connected to it: Nobody, "us" or "other"
  idle,        \* for how long nobody has been
  (* the desktop *)
  known,       \* the snapshot of the last poll, "absent" for no entry
  poll,        \* the poll: what it listed, has to tear down and will kick
  session,     \* the devices whose session is ready
  planned,     \* those whose session has a plan to reconnect with
  lock,        \* who holds the lock of a session
  auto,        \* the setting of the automatic connection
  consent,     \* the devices in the list of consents
  inflight,    \* AgentAutoService.inflight
  task, user,
  flaps,
  (* history *)
  excused,     \* devices whose connection failed, was refused for one under way,
               \* torn down while online or given up, or that somebody else used,
               \* since they last appeared
  unnoticed    \* devices that were connected while no poll had seen them

deviceVars == <<adb, agent, client, idle>>
pollVars == <<known, poll>>
consentVars == <<auto, consent>>
baseVars == <<deviceVars, pollVars, session, planned, lock>>
vars == <<baseVars, consentVars, inflight, task, user, flaps, excused, unnoticed>>

Online(d) == adb[d] = "device"

\* The connection of the desktop ends; the Agent starts to count.
LoseClient(d) ==
  /\ client' = IF client[d] = "us" THEN [client EXCEPT ![d] = Nobody] ELSE client
  /\ idle' = IF client[d] = "us" THEN [idle EXCEPT ![d] = 0] ELSE idle

NoPoll ==
  [at |-> "idle", list |-> [d \in Device |-> "absent"], gone |-> {}, appeared |-> {}]
NoTask ==
  [at |-> "free", dev |-> Nobody, second |-> FALSE, consent |-> FALSE, slept |-> 0]
NoUser == [at |-> "free", dev |-> Nobody, restart |-> FALSE, list |-> {}]

TypeOK ==
  /\ adb \in [Device -> {"absent", "offline", "device"}]
  /\ agent \in [Device -> BOOLEAN]
  /\ client \in [Device -> {Nobody, "us", "other"}]
  /\ idle \in [Device -> 0..Grace]
  /\ known \in [Device -> {"absent", "offline", "device"}]
  /\ session \in SUBSET Device /\ planned \in SUBSET Device
  /\ inflight \in SUBSET Device /\ consent \in SUBSET Device
  /\ lock \in [Device -> Task \cup User \cup {Nobody}]

\* Before the desktop started, an Agent of an earlier one may run, with or
\* without the client of somebody else.
Init ==
  /\ adb \in [Device -> {"absent", "device"}]
  /\ agent \in [Device -> BOOLEAN]
  /\ client \in {f \in [Device -> {Nobody, "other"}] :
                   \A d \in Device : f[d] = "other" => agent[d]}
  /\ idle = [d \in Device |-> 0]
  /\ known = [d \in Device |-> "absent"]
  /\ poll = NoPoll
  /\ session = {} /\ planned = {}
  /\ lock = [d \in Device |-> Nobody]
  /\ auto \in BOOLEAN
  /\ consent \in SUBSET Device
  /\ inflight = {}
  /\ task = [k \in Task |-> NoTask]
  /\ user = [u \in User |-> NoUser]
  /\ flaps = 0
  /\ excused = {} /\ unnoticed = {}

-----------------------------------------------------------------------------
(* poll_once. *)

pollEnv == <<session, planned, lock, consentVars, inflight, task, user, flaps, excused>>

\* list_devices: an await between what adb says and the snapshot.
List ==
  /\ poll.at = "idle"
  /\ poll' = [NoPoll EXCEPT !.at = "listed", !.list = adb]
  /\ UNCHANGED <<deviceVars, known, pollEnv, unnoticed>>

\* adb itself is missing for a moment: the snapshot is emptied.
ListNothing ==
  /\ poll.at = "idle" /\ flaps < MaxFlaps
  /\ poll' = [NoPoll EXCEPT !.at = "listed"]
  /\ flaps' = flaps + 1
  /\ UNCHANGED <<deviceVars, known, session, planned, lock, consentVars, inflight, task,
                 user, excused, unnoticed>>

\* A plausible bug: only a device that adb does not list any more is torn down.
LostOnlyAbsent(old, new) == {d \in Device : old[d] # new[d] /\ new[d] = "absent"}

\* The events of the diff that call device_disconnected ...
Lost(old, new) == {d \in Device : old[d] # new[d] /\ new[d] # "device"}

\* ... and the devices that have just become "device".
Appeared(old, new) == {d \in Device : old[d] # new[d] /\ new[d] = "device"}

Diff ==
  /\ poll.at = "listed"
  /\ known' = poll.list
  /\ poll' = [NoPoll EXCEPT !.at = "tearing", !.gone = Lost(known, poll.list),
                            !.appeared = Appeared(known, poll.list)]
  /\ unnoticed' = {d \in unnoticed : known'[d] # "device"}
  /\ UNCHANGED <<deviceVars, pollEnv>>

\* device_disconnected, one device after the other, each under its lock.
TearDown(d) ==
  /\ poll.at = "tearing" /\ d \in poll.gone
  /\ lock[d] = Nobody
  /\ poll' = [poll EXCEPT !.gone = @ \ {d}]
  /\ session' = session \ {d} /\ planned' = planned \ {d}
  /\ LoseClient(d)
  /\ excused' = IF Online(d) THEN excused \cup {d} ELSE excused
  /\ unnoticed' = unnoticed \ {d}
  /\ UNCHANGED <<adb, agent, known, lock, consentVars, inflight, task, user, flaps>>

Free == {k \in Task : task[k].at = "free"}

\* kick_agent_auto: a task for each device that appeared.
Kick(d) ==
  /\ poll.at = "tearing" /\ poll.gone = {} /\ d \in poll.appeared
  /\ poll' = [poll EXCEPT !.appeared = @ \ {d}]
  /\ Free # {}
  /\ LET k == CHOOSE k \in Free : TRUE
     IN task' = [task EXCEPT ![k] = [NoTask EXCEPT !.at = "begin", !.dev = d]]
  /\ excused' = IF client[d] = "other" THEN excused \cup {d} ELSE excused \ {d}
  /\ UNCHANGED <<deviceVars, known, session, planned, lock, consentVars, inflight, user,
                 flaps, unnoticed>>

EndPoll ==
  /\ poll.at = "tearing" /\ poll.gone = {} /\ poll.appeared = {}
  /\ poll' = NoPoll
  /\ UNCHANGED <<deviceVars, known, pollEnv, unnoticed>>

Poll == List \/ Diff \/ (\E d \in Device : TearDown(d) \/ Kick(d)) \/ EndPoll

-----------------------------------------------------------------------------
(* auto_connect. *)

Step(k, from, to) == task[k].at = from /\ task' = [task EXCEPT ![k].at = to]
End(k) == task' = [task EXCEPT ![k] = NoTask]

\* gather_facts reads session, setting and consent before it asks the device.
BeginProbe(k) ==
  /\ task[k].at = "begin"
  /\ IF auto /\ task[k].dev \notin session
       THEN task' = [task EXCEPT ![k].at = "probe",
                                 ![k].consent = task[k].dev \in consent]
       ELSE End(k)
  /\ UNCHANGED <<baseVars, consentVars, inflight, user, flaps, excused, unnoticed>>

Fails(d) == excused' = excused \cup {d}

\* An Agent that runs and is not ours is left alone; the second look follows
\* after the time in which an abandoned one leaves.
Defer(k) == IF task[k].second THEN End(k) ELSE Step(k, task[k].at, "sleep")

\* decide, with what the probe has found.
Decide(k, d) ==
  IF agent[d] THEN Defer(k)
  ELSE IF task[k].consent THEN Step(k, "probe", "claim") ELSE End(k)

Probe(k) ==
  LET d == task[k].dev IN
  /\ task[k].at = "probe"
  /\ \/ Online(d) /\ Decide(k, d) /\ UNCHANGED excused
     \/ End(k) /\ Fails(d)
  /\ UNCHANGED <<baseVars, consentVars, inflight, user, flaps, unnoticed>>

\* The place in the set of connections under way.
Claim(k) ==
  /\ task[k].at = "claim"
  /\ IF task[k].dev \in inflight
       THEN /\ End(k) /\ excused' = excused \cup {task[k].dev}
            /\ UNCHANGED inflight
       ELSE /\ Step(k, "claim", "wait") /\ inflight' = inflight \cup {task[k].dev}
            /\ UNCHANGED excused
  /\ UNCHANGED <<baseVars, consentVars, user, flaps, unnoticed>>

Acquire(d, who) == lock[d] = Nobody /\ lock' = [lock EXCEPT ![d] = who]
Release(d) == lock' = [lock EXCEPT ![d] = Nobody]

BeginConnect(k) ==
  /\ Step(k, "wait", "connect")
  /\ Acquire(task[k].dev, k)
  /\ UNCHANGED <<deviceVars, pollVars, session, planned, consentVars, inflight, user, flaps,
                 excused, unnoticed>>

\* A session that is ready is used again, else an Agent of ours is started in
\* place of whatever runs.
Connected(d) ==
  /\ Online(d)
  /\ agent' = [agent EXCEPT ![d] = TRUE]
  /\ client' = [client EXCEPT ![d] = "us"]
  /\ idle' = [idle EXCEPT ![d] = 0]
  /\ session' = session \cup {d} /\ planned' = planned \cup {d}
  /\ unnoticed' = IF known[d] = "device" THEN unnoticed ELSE unnoticed \cup {d}
  /\ UNCHANGED excused

\* What a failed connect leaves behind may still run.
NotConnected(d) ==
  /\ Fails(d)
  /\ session' = session \ {d} /\ planned' = planned \ {d}
  /\ \/ Online(d) /\ \E runs \in BOOLEAN : agent' = [agent EXCEPT ![d] = runs]
     \/ ~Online(d) /\ UNCHANGED agent
  /\ client' = [client EXCEPT ![d] = IF agent'[d] /\ @ # "us" THEN @ ELSE Nobody]
  /\ idle' = [idle EXCEPT ![d] = IF agent'[d] THEN @ ELSE 0]
  /\ unnoticed' = unnoticed \ {d}

Connect(d) == Connected(d) \/ NotConnected(d)

EndConnect(k) ==
  LET d == task[k].dev IN
  /\ Step(k, "connect", "connected")
  /\ Connect(d) /\ Release(d)
  /\ UNCHANGED <<adb, pollVars, consentVars, inflight, user, flaps>>

\* The place is given back; the probe that follows may call for a second look.
Leave(k) ==
  LET d == task[k].dev IN
  /\ task[k].at = "connected"
  /\ inflight' = inflight \ {d}
  /\ \/ auto /\ d \notin session /\ Online(d) /\ agent[d] /\ Defer(k)
     \/ ~(auto /\ d \notin session /\ Online(d) /\ agent[d]) /\ End(k)
  /\ UNCHANGED <<baseVars, consentVars, user, flaps, excused, unnoticed>>

\* A plausible bug: the desktop looks again when the Agent is only about to leave.
RecheckDelayTight == Grace

RecheckDelay == Grace + Margin

Wake(k) ==
  /\ task[k].at = "sleep" /\ task[k].slept = RecheckDelay
  /\ task' = [task EXCEPT ![k] = [NoTask EXCEPT !.at = "begin", !.dev = task[k].dev,
                                                        !.second = TRUE]]
  /\ UNCHANGED <<baseVars, consentVars, inflight, user, flaps, excused, unnoticed>>

Run(k) ==
  \/ BeginProbe(k) \/ Probe(k) \/ Claim(k) \/ BeginConnect(k) \/ EndConnect(k)
  \/ Leave(k) \/ Wake(k)

-----------------------------------------------------------------------------
(* agent_install and agent_restart: the click is the consent. *)

At(u, from, to) == user[u].at = from /\ user' = [user EXCEPT ![u].at = to]
Answer(u) == user' = [user EXCEPT ![u] = [NoUser EXCEPT !.at = "over"]]

\* set_consent: read the list ...
Click(u, d) ==
  /\ user[u].at = "free"
  /\ \E restart \in BOOLEAN :
       user' = [user EXCEPT ![u] = [at |-> "consent", dev |-> d, restart |-> restart,
                                    list |-> consent]]
  /\ UNCHANGED <<baseVars, auto, consent, inflight, task, flaps, excused, unnoticed>>

\* ... and write it back: one of two at the same time is lost.
SetConsent(u) ==
  /\ user[u].at = "consent"
  /\ user' = [user EXCEPT ![u].at = IF user[u].restart THEN "disconnect" ELSE "wait",
                          ![u].list = {}]
  /\ consent' = user[u].list \cup {user[u].dev}
  /\ UNCHANGED <<baseVars, auto, inflight, task, flaps, excused, unnoticed>>

\* disconnect stops the Agent, whoever uses it; when that fails the click ends.
Disconnect(u) ==
  LET d == user[u].dev IN
  /\ user[u].at = "disconnect" /\ lock[d] = Nobody
  /\ session' = session \ {d}
  /\ \/ /\ At(u, "disconnect", "wait")
        /\ Online(d)
        /\ agent' = [agent EXCEPT ![d] = FALSE]
        /\ client' = [client EXCEPT ![d] = Nobody]
        /\ idle' = [idle EXCEPT ![d] = 0]
        /\ UNCHANGED excused
     \/ /\ Answer(u)
        /\ Fails(d) /\ LoseClient(d)
        /\ UNCHANGED agent
  /\ unnoticed' = unnoticed \ {d}
  /\ UNCHANGED <<adb, pollVars, planned, lock, consentVars, inflight, task, flaps>>

BeginByHand(u) ==
  /\ At(u, "wait", "connect")
  /\ Acquire(user[u].dev, u)
  /\ UNCHANGED <<deviceVars, pollVars, session, planned, consentVars, inflight, task, flaps,
                 excused, unnoticed>>

EndByHand(u) ==
  LET d == user[u].dev IN
  /\ user[u].at = "connect" /\ Answer(u)
  /\ Connect(d) /\ Release(d)
  /\ UNCHANGED <<adb, pollVars, consentVars, inflight, task, flaps>>

Serve(u) == SetConsent(u) \/ Disconnect(u) \/ BeginByHand(u) \/ EndByHand(u)

-----------------------------------------------------------------------------
(* diagnostics and reconnect_after_transport_loss. *)

\* diagnostics, which takes no lock, finds that the client does not answer; or a call
\* failed, and the reconnect that follows fails, too.  The device was not gone for the
\* poll, so that nothing kicks auto_connect again.
GiveUp(d) ==
  /\ d \in session
  /\ session' = session \ {d}
  /\ LoseClient(d) /\ Fails(d)
  /\ unnoticed' = unnoticed \ {d}
  /\ UNCHANGED <<adb, agent, pollVars, planned, lock, consentVars, inflight, task, user, flaps>>

\* The Agent of the plan still runs, and takes the token again.
Reconnect(d) ==
  /\ d \in planned /\ lock[d] = Nobody
  /\ agent[d] /\ client[d] = Nobody
  /\ Connected(d)
  /\ UNCHANGED <<adb, pollVars, lock, consentVars, inflight, task, user, flaps>>

-----------------------------------------------------------------------------
(* The devices. *)

deskVars == <<pollVars, session, planned, lock, consentVars, inflight, user>>

\* What adb says of a device changes: with it goes every connection.
Flap(d) ==
  /\ flaps < MaxFlaps /\ flaps' = flaps + 1
  /\ \E s \in {"absent", "offline", "device"} \ {adb[d]} : adb' = [adb EXCEPT ![d] = s]
  /\ client' = [client EXCEPT ![d] = IF Online(d) THEN Nobody ELSE @]
  /\ idle' = [idle EXCEPT ![d] = IF Online(d) /\ client[d] # Nobody THEN 0 ELSE @]
  /\ UNCHANGED <<agent, deskVars, task, excused, unnoticed>>

\* Somebody else hangs up: how long after our probe is not ours to know.
ForeignLeaves(d) ==
  /\ client[d] = "other"
  /\ client' = [client EXCEPT ![d] = Nobody]
  /\ idle' = [idle EXCEPT ![d] = 0]
  /\ excused' = excused \cup {d}
  /\ UNCHANGED <<adb, agent, deskVars, task, flaps, unnoticed>>

Alone(d) == agent[d] /\ client[d] = Nobody
Due(d) == Alone(d) /\ idle[d] = Grace

AgentLeaves(d) ==
  /\ Due(d)
  /\ agent' = [agent EXCEPT ![d] = FALSE]
  /\ idle' = [idle EXCEPT ![d] = 0]
  /\ UNCHANGED <<adb, client, deskVars, task, flaps, excused, unnoticed>>

\* Time passes on both sides alike; an Agent that is due leaves within Margin,
\* here: before the next unit of time.
Tick ==
  /\ \A d \in Device : ~Due(d)
  /\ idle' = [d \in Device |-> IF Alone(d) THEN idle[d] + 1 ELSE idle[d]]
  /\ task' = [k \in Task |->
                IF task[k].at = "sleep" /\ task[k].slept < RecheckDelay
                  THEN [task[k] EXCEPT !.slept = @ + 1] ELSE task[k]]
  /\ <<idle, task>>' # <<idle, task>>
  /\ UNCHANGED <<adb, agent, client, deskVars, flaps, excused, unnoticed>>

-----------------------------------------------------------------------------
Next ==
  \/ Poll \/ ListNothing
  \/ \E k \in Task : Run(k)
  \/ \E u \in User : (\E d \in Device : Click(u, d)) \/ Serve(u)
  \/ \E d \in Device : GiveUp(d) \/ Reconnect(d)
  \/ \E d \in Device : Flap(d) \/ ForeignLeaves(d) \/ AgentLeaves(d)
  \/ Tick

Spec == Init /\ [][Next]_vars

\* The loop goes on, tasks and clicks run to their end, the lock of a session
\* is fair, and time passes.
FairSpec ==
  /\ Spec
  /\ WF_vars(Poll)
  /\ \A k \in Task : WF_vars(Run(k))
  /\ \A u \in User : WF_vars(Serve(u))
  /\ WF_vars(Tick) /\ \A d \in Device : WF_vars(AgentLeaves(d))

-----------------------------------------------------------------------------
(* Properties. *)

\* poll_once: a device that is gone for good does not keep a session that
\* says ready, whatever connected, waited or flapped in between, if a poll has
\* seen the device since it was connected.
SessionFollowsDevice ==
  \A d \in Device :
    <>[](~Online(d)) => <>[](d \notin session \/ d \in unnoticed)

\* agent_recheck_delay_for: an online device with a consent gets its session
\* back, though an Agent nobody uses was found running, unless an attempt of
\* its own failed, was refused for one under way whose session a poll then tore
\* down, or somebody else was using it, or the session it had was given up while
\* the poll saw the device all the time: nobody looks again after that.
OrphanIsTakenOver ==
  \A d \in Device :
    []<>(d \in session \/ d \in excused \/ ~(Online(d) /\ auto /\ d \in consent))
==============================================================================
