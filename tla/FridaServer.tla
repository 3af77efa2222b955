----------------------------- MODULE FridaServer -----------------------------
(***************************************************************************)
(* provider/frida.rs with the scripts of privileged.rs: frida-server is    *)
(* started by a script under su, checked from outside (is it there, is it  *)
(* root's, does its port listen), stopped again when it is of no use, and  *)
(* stopped on request.  No lock spans the scan, the script and the check.  *)
(* The server is known by its name only, and of several the one with the   *)
(* lowest pid counts.  Operations have ids of their own; what a retry with *)
(* the same id is told is the business of the ledger (OperationLedger).    *)
(*                                                                         *)
(* The server that operation o starts is named o, and pids are in the      *)
(* order of the names; Outsider is one that was started by hand.           *)
(***************************************************************************)
EXTENDS Naturals, FiniteSets

CONSTANTS
  FridaOp,      \* the operations
  Outsider,
  FridaPort,
  MaxUpsets     \* bound on scripts that fail, waits given up, servers that end

ASSUME FridaAssumption ==
  FridaOp \subseteq Nat \ {0} /\ Outsider \in Nat \ (FridaOp \cup {0}) /\ MaxUpsets \in Nat

Server == FridaOp \cup {Outsider}
NoServer == 0

VARIABLES
  server,       \* each server: not yet, up, bound to its port, ending, gone
  port,         \* the port it is to listen on
  manner,       \* of the Outsider: run by root, by shell, or its uid is not readable
  installed,    \* the binary is there and executable
  request,      \* what an operation is asked for
  at,           \* where it is
  found,        \* the server its last scan found first
  suScripts,    \* the scripts that run under su
  ended,        \* how the script an operation waits for ended
  said,         \* what it answered
  upsets,
  (* history *)
  unsure        \* operations a script of which failed or was not waited for

fridaVars == <<server, port, manner, installed, request, at, found, suScripts, ended,
               said, upsets, unsure>>
serverVars == <<server, port, manner, installed>>

FridaTypeOK ==
  /\ server \in [Server -> {"none", "up", "bound", "ending", "gone"}]
  /\ port \in [Server -> FridaPort] /\ manner \in {"root", "shell", "hidden"}
  /\ request \in [FridaOp -> {"none", "start", "stop"}]
  /\ at \in [FridaOp -> {"idle", "scan", "script", "check", "listen", "undo", "confirm", "done"}]
  /\ found \in [FridaOp -> Server \cup {NoServer}]
  /\ suScripts \subseteq [op : FridaOp, does : {"start", "stop"}, begun : BOOLEAN]
  /\ ended \in [FridaOp -> {"none", "ok", "failed"}]
  /\ said \in [FridaOp -> {"nothing", "failed", "no_op", "verified", "stopped", "late"}]

FridaInit ==
  /\ manner \in {"root", "shell", "hidden"}
  /\ \E s \in {"none", "bound"}, q \in FridaPort :
       /\ server = [p \in Server |-> IF p = Outsider THEN s ELSE "none"]
       /\ port = [p \in Server |-> q]
       /\ s = "none" => manner = "root"
  /\ installed = TRUE
  /\ request = [o \in FridaOp |-> "none"] /\ at = [o \in FridaOp |-> "idle"]
  /\ found = [o \in FridaOp |-> NoServer] /\ suScripts = {}
  /\ ended = [o \in FridaOp |-> "none"] /\ said = [o \in FridaOp |-> "nothing"]
  /\ upsets = 0 /\ unsure = {}

-----------------------------------------------------------------------------
Running == {p \in Server : server[p] \in {"up", "bound", "ending"}}
(* find_server sorts by pid; its users take the first. *)
First == IF Running = {} THEN NoServer ELSE CHOOSE p \in Running : \A q \in Running : p <= q
AsRoot(p) == p # Outsider \/ manner = "root"
Upset == upsets < MaxUpsets /\ upsets' = upsets + 1
Move(o, step) == at' = [at EXCEPT ![o] = step]

(* run_privileged *)
RunScript(o, kind, step) ==
  /\ suScripts' = suScripts \cup {[op |-> o, does |-> kind, begun |-> FALSE]}
  /\ ended' = [ended EXCEPT ![o] = "none"]
  /\ Move(o, step)
Tell(o, word) == said' = [said EXCEPT ![o] = word] /\ Move(o, "done")
NoScript == UNCHANGED <<suScripts, ended>>

Ask(o, what, q) ==
  /\ at[o] = "idle"
  /\ request' = [request EXCEPT ![o] = what]
  /\ port' = [port EXCEPT ![o] = q]
  /\ Move(o, "scan")
  /\ UNCHANGED <<server, manner, installed, found, suScripts, ended, said, upsets, unsure>>

(* start: the binary must be there, and a server that runs is left alone. *)
StartScans(o) ==
  /\ request[o] = "start" /\ at[o] = "scan"
  /\ IF ~installed THEN Tell(o, "failed") /\ NoScript
     ELSE IF Running # {} THEN Tell(o, "no_op") /\ NoScript
     ELSE RunScript(o, "start", "script") /\ UNCHANGED said
  /\ UNCHANGED <<serverVars, request, found, upsets, unsure>>

(* stop: the first server, by a script when it is root's, else by a signal *)
(* of the Agent's own, which only a server of shell obeys.                 *)
StopScans(o) ==
  /\ request[o] = "stop" /\ at[o] = "scan"
  /\ found' = [found EXCEPT ![o] = First]
  /\ \/ First = NoServer /\ Tell(o, "no_op") /\ NoScript /\ UNCHANGED server
     \/ /\ First # NoServer /\ AsRoot(First)
        /\ RunScript(o, "stop", "script") /\ UNCHANGED <<said, server>>
     \/ /\ First # NoServer /\ ~AsRoot(First) /\ manner = "shell"
        /\ server' = [server EXCEPT ![First] = "ending"]
        /\ Move(o, "confirm") /\ NoScript /\ UNCHANGED said
     \/ /\ First # NoServer /\ ~AsRoot(First) /\ manner = "hidden"
        /\ Tell(o, "failed") /\ NoScript /\ UNCHANGED server
  /\ UNCHANGED <<port, manner, installed, request, upsets, unsure>>

-----------------------------------------------------------------------------
(* A script ends: whoever still waits for it learns how. *)
Awaits(s) ==
  s.op \in {o \in FridaOp : at[o] = IF s.does = request[o] THEN "script" ELSE "undo"}
ScriptEnds(s, how) ==
  /\ suScripts' = suScripts \ {s}
  /\ ended' = [ended EXCEPT ![s.op] = IF Awaits(s) THEN how ELSE @]

(* frida_start_script: "test -x" decides nothing (a ";" follows), and the *)
(* sentinel comes a second after the server was put in the background.     *)
Launch(s) ==
  /\ s.does = "start" /\ ~s.begun
  /\ server' = IF installed THEN [server EXCEPT ![s.op] = "up"] ELSE server
  /\ suScripts' = (suScripts \ {s}) \cup {[s EXCEPT !.begun = TRUE]}
  /\ UNCHANGED <<port, manner, installed, request, at, found, ended, said, upsets, unsure>>

SayStarted(s) ==
  /\ s.does = "start" /\ s.begun
  /\ ScriptEnds(s, "ok")
  /\ UNCHANGED <<serverVars, request, at, found, said, upsets, unsure>>

(* frida_stop_script: every server of that name; FRIDA_NOT_RUNNING with    *)
(* none there, and FRIDA_KILL_DENIED when one was gone before its kill,    *)
(* are not the word that is waited for.                                    *)
StopAll(s) ==
  /\ s.does = "stop"
  /\ server' = [p \in Server |-> IF p \in Running THEN "ending" ELSE server[p]]
  /\ \/ Running # {} /\ ScriptEnds(s, "ok")
     \/ (\A p \in Running : server[p] = "ending") /\ ScriptEnds(s, "failed")
  /\ UNCHANGED <<port, manner, installed, request, at, found, said, upsets, unsure>>

(* su refuses; or the Agent stops waiting after SU_TIMEOUT, and the script *)
(* runs on.                                                                *)
SuRefuses(s) ==
  /\ Upset /\ ~s.begun
  /\ ScriptEnds(s, "failed")
  /\ unsure' = unsure \cup {s.op}
  /\ UNCHANGED <<serverVars, request, at, found, said>>

StopWaiting(o) ==
  /\ Upset /\ at[o] \in {"script", "undo"} /\ ended[o] = "none"
  /\ ended' = [ended EXCEPT ![o] = "failed"]
  /\ unsure' = unsure \cup {o}
  /\ UNCHANGED <<serverVars, request, at, found, suScripts, said>>

-----------------------------------------------------------------------------
AfterScript(o) ==
  /\ at[o] = "script" /\ ended[o] # "none"
  /\ IF ended[o] = "failed" THEN Tell(o, "failed")
     ELSE Move(o, IF request[o] = "start" THEN "check" ELSE "confirm") /\ UNCHANGED said
  /\ UNCHANGED <<serverVars, request, found, suScripts, ended, upsets, unsure>>

(* The check of a start: a scan, then the port of what the scan found. *)
CheckServer(o) ==
  /\ at[o] = "check"
  /\ found' = [found EXCEPT ![o] = First]
  /\ Move(o, "listen")
  /\ UNCHANGED <<serverVars, request, suScripts, ended, said, upsets, unsure>>

Listening(q) == \E p \in Server : server[p] = "bound" /\ port[p] = q
Useful(o) == found[o] # NoServer /\ AsRoot(found[o]) /\ Listening(port[found[o]])

Verifies(o) ==
  /\ at[o] = "listen" /\ Useful(o)
  /\ Tell(o, "verified")
  /\ UNCHANGED <<serverVars, request, found, suScripts, ended, upsets, unsure>>

RejectOnly(o) ==
  /\ at[o] = "listen" /\ ~Useful(o)
  /\ Tell(o, "failed")
  /\ UNCHANGED <<serverVars, request, found, suScripts, ended, upsets, unsure>>

(* What runs and is of no use is stopped at once, by its name. *)
Reject(o) ==
  /\ at[o] = "listen" /\ ~Useful(o)
  /\ RunScript(o, "stop", "undo")
  /\ UNCHANGED <<serverVars, request, found, said, upsets, unsure>>

AfterUndo(o) ==
  /\ at[o] = "undo" /\ ended[o] # "none"
  /\ Tell(o, "failed")
  /\ UNCHANGED <<serverVars, request, found, suScripts, ended, upsets, unsure>>

(* stop polls for five seconds until nothing of that name runs. *)
Confirms(o) ==
  /\ at[o] = "confirm"
  /\ Tell(o, IF Running = {} THEN "stopped" ELSE "failed")
  /\ UNCHANGED <<serverVars, request, found, suScripts, ended, upsets, unsure>>

(* The connection ends, and nobody is told; or the deadline of the request *)
(* is over, which the server answers itself.  Either way the provider is   *)
(* dropped where it stands, and a script runs on.                          *)
FridaAborted(o) ==
  /\ Upset /\ at[o] \notin {"idle", "done"}
  /\ Move(o, "done")
  /\ said' \in {said, [said EXCEPT ![o] = "late"]}
  /\ UNCHANGED <<serverVars, request, found, suScripts, ended, unsure>>

-----------------------------------------------------------------------------
(* The servers: one binds its port, or ends because another has it.        *)
Binds(p) ==
  /\ server[p] = "up"
  /\ server' = [server EXCEPT ![p] = IF Listening(port[p]) THEN "gone" ELSE "bound"]
  /\ UNCHANGED <<port, manner, installed, request, at, found, suScripts, ended, said, upsets,
                 unsure>>
Ends(p) ==
  /\ \/ server[p] = "ending" /\ upsets' = upsets
     \/ server[p] \in {"up", "bound"} /\ Upset
  /\ server' = [server EXCEPT ![p] = "gone"]
  /\ UNCHANGED <<port, manner, installed, request, at, found, suScripts, ended, said, unsure>>
(* Somebody starts one by hand, or takes the binary away. *)
ByHand ==
  /\ Upset
  /\ \/ /\ server[Outsider] = "none" /\ server' = [server EXCEPT ![Outsider] = "up"]
        /\ manner' \in {"root", "shell"} /\ UNCHANGED installed
     \/ installed /\ installed' = FALSE /\ UNCHANGED <<server, manner>>
  /\ UNCHANGED <<port, request, at, found, suScripts, ended, said, unsure>>

Handles(o) == StartScans(o) \/ StopScans(o) \/ AfterScript(o) \/ CheckServer(o)
              \/ Verifies(o) \/ Reject(o) \/ AfterUndo(o) \/ Confirms(o)
FridaNext ==
  \/ \E o \in FridaOp : \/ \E q \in FridaPort : Ask(o, "start", q)
                        \/ Ask(o, "stop", port[o]) \/ Handles(o) \/ StopWaiting(o) \/ FridaAborted(o)
  \/ \E s \in suScripts : Launch(s) \/ SayStarted(s) \/ StopAll(s) \/ SuRefuses(s)
  \/ \E p \in Server : Binds(p) \/ Ends(p)
  \/ ByHand
FridaSpec == FridaInit /\ [][FridaNext]_fridaVars

-----------------------------------------------------------------------------
(* A start that failed leaves no server of its own behind that looks as if *)
(* it were of use, whatever others start and stop meanwhile, unless su     *)
(* refused or was not waited for.  "Failed" is the answer of the provider: *)
(* after DEADLINE_EXCEEDED a script may still start one.                   *)
LeavesNothingHalfUp ==
  \A o \in FridaOp :
    request[o] = "start" /\ said[o] = "failed" /\ o \notin unsure =>
      server[o] \notin {"up", "bound"}
==============================================================================
