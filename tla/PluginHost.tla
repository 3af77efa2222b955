------------------------------ MODULE PluginHost ------------------------------
(***************************************************************************)
(* plugins/process.rs with the parts of services/plugin_service.rs that    *)
(* hold a process plugin: a child that is spawned when it is first needed, *)
(* asked one request at a time over its pipes, killed when anything goes   *)
(* wrong, and stopped when the plugin is unloaded.  A call keeps its Arc   *)
(* of the handle while the map lets go of it, so that a handle can be      *)
(* stopped before a call that waits for its lock begins.                   *)
(*                                                                         *)
(* Of a line that a plugin writes only this matters: it answers the        *)
(* request that waits, it is something to skip (a notification, an old     *)
(* id), or it breaks the protocol.  A plugin reads what it is sent: a pipe *)
(* that is full would block write_line under the lock, without a limit.    *)
(***************************************************************************)
EXTENDS Naturals, Sequences

CONSTANTS
  HostCall,      \* the calls of the front end
  Manager,       \* the command that loads and unloads the plugin
  NoActor,
  MaxHandles,    \* bound on the ProcessPlugins made
  MaxChildren,   \* bound on the children there are at a time
  MaxTroubles    \* bound on exits, and on lines that answer nothing

ASSUME HostAssumption ==
  /\ Manager \notin HostCall /\ NoActor \notin HostCall \cup {Manager}
  /\ MaxHandles \in Nat /\ MaxChildren \in Nat /\ MaxTroubles \in Nat

Actor == HostCall \cup {Manager}
None == 0                          \* no handle, no child
HandleId == 1..MaxHandles
Child == 1..MaxChildren

VARIABLES
  listed, made,      \* the handle in PluginService.loaded, handles made so far
  slot, inner,       \* of each handle: its child, the holder of its mutex
  arc,               \* the handle an actor has an Arc of
  does,              \* where an actor is
  inHand,            \* the child an actor has taken or spawned, in no slot
  late,              \* calls whose deadline is over
  live,              \* the children that run
  asked, lines,      \* a request a child has not answered; what it wrote
  troubles

hostVars == <<listed, made, slot, inner, arc, does, inHand, late, live, asked,
              lines, troubles>>
childVars == <<live, asked, lines>>
handleVars == <<listed, made, slot, inner>>

HostTypeOK ==
  /\ listed \in HandleId \cup {None} /\ made \in 0..MaxHandles
  /\ slot \in [HandleId -> Child \cup {None}] /\ inner \in [HandleId -> Actor \cup {NoActor}]
  /\ arc \in [Actor -> HandleId \cup {None}] /\ inHand \in [Actor -> Child \cup {None}]
  /\ does \in [Actor -> {"idle", "enter", "handshake", "send", "wait", "stop", "close", "leave", "done"}]
  /\ late \subseteq HostCall /\ live \subseteq Child
  /\ asked \in [Child -> BOOLEAN] /\ lines \in [Child -> Seq({"answer", "other", "bad"})]

HostInit ==
  /\ listed = None /\ made = 0
  /\ slot = [h \in HandleId |-> None] /\ inner = [h \in HandleId |-> NoActor]
  /\ arc = [a \in Actor |-> None] /\ does = [a \in Actor |-> "idle"]
  /\ inHand = [a \in Actor |-> None] /\ late = {}
  /\ live = {}
  /\ asked = [p \in Child |-> FALSE] /\ lines = [p \in Child |-> <<>>] /\ troubles = 0

-----------------------------------------------------------------------------
GoOn(a, next) == does' = [does EXCEPT ![a] = next]
Unlock(a) == inner' = [inner EXCEPT ![arc[a]] = NoActor]

(* load_dir makes a handle, and info starts its child.  An install takes   *)
(* the old handle out first; scan and set_enabled leave it in the map.     *)
Load ==
  /\ does[Manager] = "idle" /\ made < MaxHandles
  /\ made' = made + 1
  /\ arc' = [arc EXCEPT ![Manager] = made + 1]
  /\ GoOn(Manager, "enter")
  /\ UNCHANGED <<listed, slot, inner, inHand, late, childVars, troubles>>

(* PluginService.call clones the Arc; the deadline of call runs from here, *)
(* not from when it has the lock.                                          *)
TakeArc(c) ==
  /\ does[c] = "idle" /\ listed # None
  /\ arc' = [arc EXCEPT ![c] = listed]
  /\ GoOn(c, "enter")
  /\ UNCHANGED <<handleVars, inHand, late, childVars, troubles>>

Deadline(c) ==
  /\ does[c] \in {"enter", "handshake", "send", "wait"} /\ c \notin late
  /\ late' = late \cup {c}
  /\ UNCHANGED <<handleVars, arc, does, inHand, childVars, troubles>>

(* ensure_running uses a child that is there, also one that has exited ... *)
UseChild(c) ==
  LET h == arc[c] IN
  /\ does[c] = "enter" /\ inner[h] = NoActor /\ slot[h] # None
  /\ inner' = [inner EXCEPT ![h] = c]
  /\ GoOn(c, "send")
  /\ UNCHANGED <<listed, made, slot, arc, inHand, late, childVars, troubles>>

Unused == {p \in Child : p \notin live /\ (\A h \in HandleId : slot[h] # p)
                                          /\ (\A a \in Actor : inHand[a] # p)}
NewChild == CHOOSE p \in Unused : TRUE
(* ... or spawns one and asks it to initialize. *)
SpawnChild(a) ==
  LET h == arc[a] p == NewChild IN
  /\ does[a] = "enter" /\ inner[h] = NoActor /\ slot[h] = None /\ Unused # {}
  /\ inner' = [inner EXCEPT ![h] = a]
  /\ inHand' = [inHand EXCEPT ![a] = p]
  /\ live' = live \cup {p} /\ asked' = [asked EXCEPT ![p] = TRUE]
  /\ GoOn(a, "handshake")
  /\ UNCHANGED <<listed, made, slot, arc, late, lines, troubles>>

SpawnChildFails(a) ==
  /\ does[a] = "enter" /\ inner[arc[a]] = NoActor /\ slot[arc[a]] = None
  /\ GoOn(a, "leave")
  /\ UNCHANGED <<handleVars, arc, inHand, late, childVars, troubles>>

-----------------------------------------------------------------------------
(* wait_response: the child that is waited for, and its next line. *)
Partner(a) == IF does[a] = "handshake" THEN inHand[a] ELSE slot[arc[a]]
Waiting(a) == does[a] \in {"handshake", "wait"}
Says(a, line) == lines[Partner(a)] # <<>> /\ Head(lines[Partner(a)]) = line
Consume(a) == lines' = [lines EXCEPT ![Partner(a)] = Tail(@)]
Silent(a) == lines[Partner(a)] = <<>> /\ Partner(a) \notin live

OverdueNever(a) == FALSE
(* The call has a deadline of its own, the handshake HANDSHAKE_TIMEOUT: it *)
(* may be over at any time.                                                *)
Overdue(a) == does[a] = "handshake" \/ a \in late
InTime(a) == does[a] = "handshake" \/ a \notin late

Skip(a) ==
  /\ Waiting(a) /\ InTime(a) /\ Says(a, "other")
  /\ Consume(a)
  /\ UNCHANGED <<handleVars, arc, does, inHand, late, live, asked, troubles>>

(* The guard is disarmed and the child moves into the slot; a load is done *)
(* with that, and put_loaded lists the handle and drops the one it finds.  *)
Handshaken(a) ==
  LET h == arc[a] IN
  /\ does[a] = "handshake" /\ Says(a, "answer")
  /\ slot' = [slot EXCEPT ![h] = inHand[a]]
  /\ inHand' = [inHand EXCEPT ![a] = None]
  /\ Consume(a)
  /\ IF a = Manager
     THEN /\ listed' = h /\ Unlock(a)
          /\ arc' = [arc EXCEPT ![a] = listed]
          /\ GoOn(a, IF listed = None THEN "idle" ELSE "leave")
     ELSE GoOn(a, "send") /\ UNCHANGED <<listed, inner, arc>>
  /\ UNCHANGED <<made, late, live, asked, troubles>>

Unfit(a) == Overdue(a) \/ Says(a, "bad") \/ Silent(a)

HandshakeFailsUnguarded(a) ==
  /\ does[a] = "handshake" /\ Unfit(a)
  /\ inHand' = [inHand EXCEPT ![a] = None]
  /\ Unlock(a) /\ GoOn(a, "leave")
  /\ UNCHANGED <<listed, made, slot, arc, late, childVars, troubles>>

(* kill and wait; its pipes are closed. *)
Reap(p) ==
  /\ live' = live \ {p}
  /\ asked' = [asked EXCEPT ![p] = FALSE] /\ lines' = [lines EXCEPT ![p] = <<>>]

(* Dropping ChildGuard kills the child. *)
HandshakeFails(a) ==
  /\ does[a] = "handshake" /\ Unfit(a)
  /\ Reap(inHand[a])
  /\ inHand' = [inHand EXCEPT ![a] = None]
  /\ Unlock(a) /\ GoOn(a, "leave")
  /\ UNCHANGED <<listed, made, slot, arc, late, troubles>>

(* kill_and_clear, and the error to the caller. *)
KillAndClear(c) ==
  /\ Reap(slot[arc[c]])
  /\ slot' = [slot EXCEPT ![arc[c]] = None]
  /\ Unlock(c) /\ GoOn(c, "leave")
  /\ UNCHANGED <<listed, made, arc, inHand, late, troubles>>

(* The request is written before the deadline is looked at. *)
Send(c) ==
  /\ does[c] = "send" /\ slot[arc[c]] \in live
  /\ asked' = [asked EXCEPT ![slot[arc[c]]] = TRUE]
  /\ GoOn(c, "wait")
  /\ UNCHANGED <<handleVars, arc, inHand, late, live, lines, troubles>>

SendFails(c) == does[c] = "send" /\ slot[arc[c]] \notin live /\ KillAndClear(c)

CallAnswered(c) ==
  /\ does[c] = "wait" /\ InTime(c) /\ Says(c, "answer")
  /\ Consume(c)
  /\ Unlock(c) /\ GoOn(c, "leave")
  /\ UNCHANGED <<listed, made, slot, arc, inHand, late, live, asked, troubles>>

CallFails(c) == does[c] = "wait" /\ Unfit(c) /\ KillAndClear(c)

-----------------------------------------------------------------------------
(* unload_handle takes the handle out of the map and stops it; with the    *)
(* locks of the map and of plugin code held, it waits for the call that    *)
(* has the child.                                                          *)
Unload ==
  /\ does[Manager] = "idle" /\ listed # None
  /\ arc' = [arc EXCEPT ![Manager] = listed]
  /\ listed' = None
  /\ GoOn(Manager, "stop")
  /\ UNCHANGED <<made, slot, inner, inHand, late, childVars, troubles>>

(* scan replaces the map: a handle it could not load again is dropped.     *)
ScanDrops ==
  /\ does[Manager] = "idle" /\ listed # None
  /\ arc' = [arc EXCEPT ![Manager] = listed]
  /\ listed' = None
  /\ GoOn(Manager, "leave")
  /\ UNCHANGED <<made, slot, inner, inHand, late, childVars, troubles>>

StopPlugin ==
  LET h == arc[Manager] IN
  /\ does[Manager] = "stop" /\ inner[h] = NoActor
  /\ IF slot[h] = None
     THEN GoOn(Manager, "leave") /\ UNCHANGED <<slot, inner, inHand>>
     ELSE /\ inner' = [inner EXCEPT ![h] = Manager]
          /\ inHand' = [inHand EXCEPT ![Manager] = slot[h]]
          /\ slot' = [slot EXCEPT ![h] = None]
          /\ GoOn(Manager, "close")
  /\ UNCHANGED <<listed, made, arc, late, childVars, troubles>>

Rest(a) == IF a = Manager THEN "idle" ELSE "done"
(* shutdown_child: by itself or killed after SHUTDOWN_GRACE, it ends. *)
ShutdownChild(a) ==
  /\ does[a] = "close"
  /\ Reap(inHand[a])
  /\ inHand' = [inHand EXCEPT ![a] = None]
  /\ IF arc[a] # None THEN Unlock(a) /\ GoOn(a, "leave") ELSE GoOn(a, Rest(a)) /\ UNCHANGED inner
  /\ UNCHANGED <<listed, made, slot, arc, late, troubles>>

(* An Arc goes; with the last one the handle, and its child (Drop). *)
LastArc(a) == listed # arc[a] /\ \A b \in Actor \ {a} : arc[b] # arc[a]
DropArc(a) ==
  LET h == arc[a] IN
  /\ does[a] = "leave"
  /\ arc' = [arc EXCEPT ![a] = None]
  /\ late' = late \ {a}
  /\ IF LastArc(a) /\ slot[h] # None
     THEN /\ inHand' = [inHand EXCEPT ![a] = slot[h]]
          /\ slot' = [slot EXCEPT ![h] = None]
          /\ GoOn(a, "close")
     ELSE GoOn(a, Rest(a)) /\ UNCHANGED <<inHand, slot>>
  /\ UNCHANGED <<listed, made, inner, childVars, troubles>>

-----------------------------------------------------------------------------
(* The plugin: it answers, or writes something else, or ends. *)
Writes(p, line) ==
  /\ p \in live
  /\ lines' = [lines EXCEPT ![p] = Append(@, line)]
PluginAnswers(p) ==
  /\ asked[p] /\ Writes(p, "answer")
  /\ asked' = [asked EXCEPT ![p] = FALSE]
  /\ UNCHANGED <<handleVars, arc, does, inHand, late, live, troubles>>
Trouble == troubles < MaxTroubles /\ troubles' = troubles + 1
PluginTalks(p) ==
  /\ Trouble /\ \E line \in {"other", "bad"} : Writes(p, line)
  /\ UNCHANGED <<handleVars, arc, does, inHand, late, live, asked>>
PluginExits(p) ==
  /\ Trouble /\ p \in live
  /\ live' = live \ {p}
  /\ UNCHANGED <<handleVars, arc, does, inHand, late, asked, lines>>

Acts(a) == SpawnChild(a) \/ SpawnChildFails(a) \/ Skip(a) \/ Handshaken(a) \/ HandshakeFails(a)
           \/ ShutdownChild(a) \/ DropArc(a)
Goes(c) == Acts(c) \/ UseChild(c) \/ Send(c) \/ SendFails(c) \/ CallAnswered(c) \/ CallFails(c)

HostNext ==
  \/ Load \/ Unload \/ ScanDrops \/ StopPlugin \/ Acts(Manager)
  \/ \E c \in HostCall : TakeArc(c) \/ Deadline(c) \/ Goes(c)
  \/ \E p \in Child : PluginAnswers(p) \/ PluginTalks(p) \/ PluginExits(p)

(* The threads run and clocks go on; a plugin need not answer. *)
HostFairness ==
  /\ WF_hostVars(StopPlugin) /\ WF_hostVars(Acts(Manager))
  /\ \A c \in HostCall : WF_hostVars(Goes(c)) /\ WF_hostVars(Deadline(c))
HostSpec == HostInit /\ [][HostNext]_hostVars /\ HostFairness

-----------------------------------------------------------------------------
(* No child is left to itself: one that runs is in the slot of a handle    *)
(* that somebody still has, or in the hands of a thread that will slot or  *)
(* kill it, also when a call starts it again behind a stop.                *)
NoOrphan ==
  \A p \in live :
    \/ \E h \in HandleId : slot[h] = p /\ (listed = h \/ \E a \in Actor : arc[a] = h)
    \/ \E a \in Actor : inHand[a] = p

(* A load or an unload ends, whatever the plugin does and whoever calls    *)
(* it: the deadline of a call frees the lock that stop waits for with the  *)
(* map locked.                                                             *)
UnloadEnds == []<>(does[Manager] = "idle")
===============================================================================
