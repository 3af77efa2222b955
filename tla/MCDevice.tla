------------------------------- MODULE MCDevice -------------------------------
(***************************************************************************)
(* Small instances of a call to the Agent and of what is done through it   *)
(* on the device: hosted programs, the bridge to the Zygisk modules, the   *)
(* replacement of a native library, and frida-server.  They share no       *)
(* state: "scene", fixed from the start, says which of them moves, and the *)
(* others rest as they were born.                                          *)
(***************************************************************************)
EXTENDS AgentRpc, HostedPrograms, ZygiskBridge, LibraryReplacement, FridaServer

VARIABLE scene
deviceSceneVars == <<vars, hostedVars, bridgeVars, libraryVars, fridaVars, scene>>

CONSTANTS write, write2, read, portA
mcReq == {write, write2, read}
mcMutating == {write, write2}
mcLegacy == {read}
mcTooLarge == {write2}

mcPidOf == [p \in Proc |-> 1]     \* every program gets the pid of the one before

Scene == {"call", "hosted", "bridge", "library", "frida"}

\* One initial state of FridaServer, for the scenes in which it rests.
InitialServer == server[Outsider] = "none" /\ port[Outsider] = portA

DeviceInit ==
  /\ scene \in Scene
  /\ Init /\ HostedInit /\ BridgeInit
  /\ FridaInit /\ (scene = "frida" \/ InitialServer)
  /\ LibraryInit /\ (target = Original \/ scene = "library")

DeviceNext ==
  \/ /\ scene = "call" /\ Next
     /\ UNCHANGED <<hostedVars, bridgeVars, libraryVars, fridaVars, scene>>
  \/ /\ scene = "hosted" /\ HostedNext
     /\ UNCHANGED <<vars, bridgeVars, libraryVars, fridaVars, scene>>
  \/ /\ scene = "bridge" /\ BridgeNext
     /\ UNCHANGED <<vars, hostedVars, libraryVars, fridaVars, scene>>
  \/ /\ scene = "library" /\ LibraryNext
     /\ UNCHANGED <<vars, hostedVars, bridgeVars, fridaVars, scene>>
  \/ /\ scene = "frida" /\ FridaNext
     /\ UNCHANGED <<vars, hostedVars, bridgeVars, libraryVars, scene>>

\* The fairness of PatientSpec and BridgeSpec, for the one that moves.
DeviceSpec ==
  /\ DeviceInit /\ [][DeviceNext]_deviceSceneVars
  /\ \A r \in Req : /\ WF_vars(scene = "call" /\ Resolve(r))
                    /\ WF_vars(scene = "call" /\ RunLegacy(r))
                    /\ WF_vars(scene = "call" /\ FinishLegacy(r))
  /\ WF_vars(scene = "call" /\ Reading)
  /\ WF_bridgeVars(scene = "bridge" /\ BridgeTick)
  /\ \A r \in Request : WF_bridgeVars(scene = "bridge" /\ Proceeds(r))
  /\ \A r \in Lists : /\ WF_bridgeVars(scene = "bridge" /\ Asks(r))
                      /\ SF_bridgeVars(scene = "bridge" /\ TakesOff(r))
===============================================================================
