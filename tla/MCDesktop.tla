------------------------------ MODULE MCDesktop ------------------------------
(***************************************************************************)
(* Small instances of services of the desktop: the run of a command, tasks,*)
(* plugins, the child of a process plugin, downloads, the installation of  *)
(* the Agent, and exports of an app.  They share no state: "scene", fixed  *)
(* from the start, says which of them moves, and the others rest as they   *)
(* were born.                                                              *)
(***************************************************************************)
EXTENDS ProcessService, TaskService, PluginStore, PluginHost, ToolMarket, AgentInstall,
        AppExport

VARIABLE scene
desktopVars == <<processVars, vars, pluginVars, hostVars, marketVars, installVars,
                 exportVars, scene>>

CONSTANTS NoTimeout, new, wrong
mcTimeouts == {0, 1, NoTimeout}
mcWrong == {wrong}
mcBoth == {new, wrong}

Scene == {"command", "tasks", "plugin", "host", "market", "install", "export"}

\* A module that rests has one initial state.
DesktopInit ==
  /\ scene \in Scene
  /\ ProcessInit /\ (scene = "command" \/ obeys)
  /\ Init
  /\ PluginInit /\ (target = Absent \/ (scene = "plugin" /\ target = 3))
  /\ HostInit
  /\ MarketInit
  /\ InstallInit
  /\ ExportInit
  /\ scene = "install" \/ (binary = NoBinary /\ artifact = [c \in Caller |-> new])

DesktopNext ==
  \/ /\ scene = "command" /\ ProcessNext
     /\ UNCHANGED <<vars, pluginVars, hostVars, marketVars, installVars, exportVars, scene>>
  \/ /\ scene = "tasks" /\ Next
     /\ UNCHANGED <<processVars, pluginVars, hostVars, marketVars, installVars, exportVars, scene>>
  \/ /\ scene = "plugin" /\ PluginNext
     /\ UNCHANGED <<processVars, vars, hostVars, marketVars, installVars, exportVars, scene>>
  \/ /\ scene = "host" /\ HostNext
     /\ UNCHANGED <<processVars, vars, pluginVars, marketVars, installVars, exportVars, scene>>
  \/ /\ scene = "market" /\ MarketNext
     /\ UNCHANGED <<processVars, vars, pluginVars, hostVars, installVars, exportVars, scene>>
  \/ /\ scene = "install" /\ InstallNext
     /\ UNCHANGED <<processVars, vars, pluginVars, hostVars, marketVars, exportVars, scene>>
  \/ /\ scene = "export" /\ ExportNext
     /\ UNCHANGED <<processVars, vars, pluginVars, hostVars, marketVars, installVars, scene>>

\* The fairness that each module states, for the one that moves.
DesktopSpec ==
  /\ DesktopInit /\ [][DesktopNext]_desktopVars
  /\ WF_processVars(scene = "command" /\ Execute)
  /\ WF_processVars(scene = "command" /\ DieOfSignal)
  /\ WF_processVars(scene = "command" /\ Tick)
  /\ \A t \in Task : /\ WF_vars(scene = "tasks" /\ Register(t))
                     /\ WF_vars(scene = "tasks" /\ Worker(t))
  /\ WF_vars(scene = "tasks" /\ Restart)
  /\ \A o \in Cmd : WF_pluginVars(scene = "plugin" /\ Steps(o))
  /\ WF_hostVars(scene = "host" /\ StopPlugin) /\ WF_hostVars(scene = "host" /\ Acts(Manager))
  /\ \A c \in HostCall : /\ WF_hostVars(scene = "host" /\ Goes(c))
                         /\ WF_hostVars(scene = "host" /\ Deadline(c))
  /\ \A c \in Caller : WF_installVars(scene = "install" /\ Round(c))
==============================================================================
