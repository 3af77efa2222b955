---------------------------- MODULE MCAgentServer ----------------------------
(***************************************************************************)
(* Small instances of the Agent process and of the starts of a program on  *)
(* a device.  They share no state: "scene", fixed from the start, says     *)
(* which of them moves, and the other one rests as it was born.            *)
(***************************************************************************)
EXTENDS AgentServer, HostedLaunch

VARIABLE scene
serverSceneVars == <<vars, launchVars, scene>>

\* Two attempts on one connection, and one on the other.
CONSTANTS c1, c2
mcConn == {c1, c2}
mcCarrier == [a \in 1..3 |-> IF a = 3 THEN c2 ELSE c1]

\* Phones are symmetric: the first call and the outsider are on p1, the second
\* call on p1 or p2.
CONSTANTS r1, r2, p1, p2
PhonesOf == on[r1] = p1 /\ on[Outsider] = p1

ServerInit ==
  /\ scene \in {"server", "launch"}
  /\ Init
  /\ LaunchInit /\ PhonesOf /\ (on[r2] = p1 \/ scene = "launch")

\* ReportIsItsOwn excepts calls that share their files at the same time; here
\* they do not.
Apart == crossed' = {}

ServerNext ==
  \/ scene = "server" /\ Next /\ UNCHANGED <<launchVars, scene>>
  \/ scene = "launch" /\ LaunchNext /\ Apart /\ UNCHANGED <<vars, scene>>

\* The fairness of FairSpec.
ServerSpec ==
  ServerInit /\ [][ServerNext]_serverSceneVars /\ WF_vars(scene = "server" /\ Watchdog)
===============================================================================
