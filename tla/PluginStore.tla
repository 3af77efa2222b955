------------------------------ MODULE PluginStore ------------------------------
(***************************************************************************)
(* services/plugin_service.rs with plugins/install.rs, plugin_repo.rs and  *)
(* loader.rs, for one in-process plugin: its directory, backups and trash  *)
(* on disk, its row in the database, and its handle in memory.  Every      *)
(* command runs on a blocking thread of its own; two locks are all that    *)
(* keeps them apart, the one of the loaded map and the one around plugin   *)
(* code, and no lock covers the files.                                     *)
(*                                                                         *)
(* A handle (an Arc of a loaded library) is named by the command that      *)
(* loaded it, or by Boot, the scan of a start.                             *)
(***************************************************************************)
EXTENDS Naturals, Sequences

CONSTANTS
  Cmd,         \* the commands of the front end, given in their order
  Boot,        \* the scan of a start, as a loader of handles
  MaxVersion,  \* versions of the plugin are 1..MaxVersion
  Broken,      \* those whose library does not load
  MaxHalts,    \* bound on kills of the desktop
  MaxFaults    \* bound on failing copies, renames, loads and database writes

ASSUME PluginAssumption ==
  /\ Cmd \subseteq Nat \ {0} /\ Boot \in Nat \ ({0} \cup Cmd)
  /\ MaxVersion \in Nat \ {0} /\ Broken \subseteq 1..MaxVersion
  /\ MaxHalts \in Nat /\ MaxFaults \in Nat

Absent == 0                       \* no version, no handle
Version == 1..MaxVersion
PluginHandle == Cmd \cup {Boot}
Job == {"install", "rollback", "uninstall", "enable", "disable", "scan", "call"}
FileJob == {"install", "rollback", "uninstall"}

(* Where a command can be, next to "idle" and "done". *)
Places(k) ==
  CASE k = "install" -> {"check", "unload", "stage", "swap", "place", "load", "upsert", "put",
                         "prune", "undo", "restore", "reload"}
    [] k = "rollback" -> {"unload", "pick", "exchange", "clean", "load", "upsert", "put"}
    [] k = "uninstall" -> {"unload", "remove", "backups", "delete"}
    [] k = "enable" -> {"row", "load", "enable", "put"}
    [] k = "disable" -> {"row", "unload", "disable"}
    [] k = "scan" -> {"list", "load", "put", "sweep"}
    [] k = "call" -> {"look", "wait", "answered", "expel"}
    [] k = "none" -> {}

VARIABLES
  desktopUp,
  target, backups, trash,  \* root/<id>, .backups/<id> oldest first, .staging trash
  oldTrash,                \* what earlier processes left in trashes of theirs
  dbRow,                   \* the row of the plugins table
  mapLock, callLock,       \* PluginService.loaded and LOADED_CALL_LOCK
  table,                   \* the handle in PluginService.loaded
  built,                   \* the version a handle was loaded from
  quarantined,             \* handles kept until the process ends
  job, at, version,        \* of each command: what, where, the version it works on
  saved,                   \* the version its commit_swap made a backup of
  held,                    \* the handle its Arc points to
  inside,                  \* the handle whose code its worker runs or waits to run
  halts, faults,
  (* history *)
  owed,                    \* a version that loads was there, and not uninstalled
  givenUp,                 \* a rollback to a backup that does not load dropped it
  raced                    \* commands on the files overlapped

diskVars == <<target, backups, trash, dbRow>>
runVars == <<desktopUp, oldTrash, halts>>   \* what only a halt or a start changes
lockVars == <<mapLock, callLock>>
memoryVars == <<table, built, quarantined>>
jobVars == <<job, version, saved, held, inside>>
pluginHistory == <<owed, givenUp, raced>>
pluginVars == <<runVars, diskVars, lockVars, memoryVars, job, at, version, saved, held,
                inside, faults, pluginHistory>>

PluginRow == [version : Version, enabled : BOOLEAN]
NoRow == [version |-> Absent, enabled |-> FALSE]

(* A handle lives while the map, a caller or the quarantine refers to it. *)
Alive(h) == h = table \/ h \in quarantined \/ \E o \in Cmd : held[o] = h
Busy(o) == at[o] \notin {"idle", "done"}
Good(v) == v \in Version \ Broken

PluginTypeOK ==
  /\ desktopUp \in BOOLEAN
  /\ target \in Version \cup {Absent} /\ trash \in Version \cup {Absent}
  /\ backups \in Seq(Version) /\ oldTrash \subseteq Version
  /\ dbRow \in PluginRow \cup {NoRow}
  /\ mapLock \in Cmd \cup {Absent} /\ callLock \in Cmd \cup {Absent}
  /\ table \in PluginHandle \cup {Absent}
  /\ quarantined \subseteq PluginHandle
  /\ built \in [PluginHandle -> Version \cup {Absent}]
  /\ job \in [Cmd -> Job \cup {"none"}]
  /\ at = [o \in Cmd |-> at[o]]
  /\ \A o \in Cmd : at[o] \in {"idle", "done"} \cup Places(job[o])
  /\ version \in [Cmd -> Version \cup {Absent}] /\ saved \in [Cmd -> Version \cup {Absent}]
  /\ held \in [Cmd -> PluginHandle \cup {Absent}]
  /\ inside \in [Cmd -> PluginHandle \cup {Absent}]
  /\ owed \in BOOLEAN /\ givenUp \in BOOLEAN /\ raced \in BOOLEAN

(* Nothing installed; one version; an upgrade with its backup; the plugin  *)
(* enabled and loaded by the scan of the start, or disabled.               *)
PluginInit ==
  /\ desktopUp = TRUE
  /\ trash = Absent /\ oldTrash = {}
  /\ \/ target = Absent /\ backups = <<>> /\ dbRow = NoRow /\ table = Absent
     \/ \E on \in BOOLEAN, v \in {w \in Version : Good(w)} :
          /\ v < MaxVersion
          /\ target = v
          /\ backups \in {<<>>} \cup {<<w>> : w \in 1..(v - 1)}
          /\ dbRow = [version |-> v, enabled |-> on]
          /\ table = IF on THEN Boot ELSE Absent
  /\ built = [h \in PluginHandle |-> IF h = Boot THEN target ELSE Absent]
  /\ mapLock = Absent /\ callLock = Absent /\ quarantined = {}
  /\ job = [o \in Cmd |-> "none"] /\ at = [o \in Cmd |-> "idle"]
  /\ version = [o \in Cmd |-> Absent] /\ saved = [o \in Cmd |-> Absent]
  /\ held = [o \in Cmd |-> Absent] /\ inside = [o \in Cmd |-> Absent]
  /\ halts = 0 /\ faults = 0
  /\ owed = (target # Absent) /\ givenUp = FALSE /\ raced = FALSE

-----------------------------------------------------------------------------
Go(o, next) == at' = [at EXCEPT ![o] = next]
Fault == faults < MaxFaults /\ faults' = faults + 1

(* The first step of each command; those that unload begin with it. *)
FirstStep(k) ==
  CASE k = "install" -> "check" [] k \in {"rollback", "uninstall"} -> "unload"
    [] k \in {"enable", "disable"} -> "row" [] k = "scan" -> "list" [] k = "call" -> "look"

BeginJob(o, k, v) ==
  /\ desktopUp /\ at[o] = "idle"
  /\ \A p \in Cmd : p < o => at[p] # "idle"
  /\ Go(o, FirstStep(k))
  /\ job' = [job EXCEPT ![o] = k]
  /\ version' = [version EXCEPT ![o] = v]
  /\ raced' = (raced \/ (k \in FileJob /\ \E p \in Cmd : Busy(p) /\ job[p] \in FileJob))
  /\ UNCHANGED <<runVars, diskVars, lockVars, memoryVars, saved, held, inside, faults,
                 owed, givenUp>>

(* unload_handle and put_loaded: the map first, then the lock around      *)
(* plugin code, so that no plugin runs while a handle is dropped.          *)
LockMap(o) ==
  /\ desktopUp /\ at[o] \in {"unload", "put"} /\ mapLock = Absent
  /\ mapLock' = o
  /\ UNCHANGED <<runVars, diskVars, callLock, memoryVars, jobVars, at, faults,
                 pluginHistory>>

LockCall(o) ==
  /\ desktopUp /\ mapLock = o /\ callLock = Absent
  /\ callLock' = o
  /\ UNCHANGED <<runVars, diskVars, mapLock, memoryVars, jobVars, at, faults,
                 pluginHistory>>

Unlocked == mapLock' = Absent /\ callLock' = Absent

AfterUnload(o) ==
  CASE job[o] = "install" -> "stage" [] job[o] = "rollback" -> "pick"
    [] job[o] = "uninstall" -> "remove" [] job[o] = "disable" -> "disable"

UnloadHandleRelocking(o) ==
  /\ desktopUp /\ at[o] = "unload" /\ mapLock = o /\ callLock = o
  /\ table # Absent => callLock = Absent
  /\ table' = Absent
  /\ Unlocked /\ Go(o, AfterUnload(o))
  /\ UNCHANGED <<runVars, diskVars, built, quarantined, jobVars, faults, pluginHistory>>

UnloadHandle(o) ==
  /\ desktopUp /\ at[o] = "unload" /\ mapLock = o /\ callLock = o
  /\ table' = Absent
  /\ Unlocked /\ Go(o, AfterUnload(o))
  /\ UNCHANGED <<runVars, diskVars, built, quarantined, jobVars, faults, pluginHistory>>

(* put_loaded, and the swap of the whole map at the end of a scan. *)
PutLoaded(o) ==
  /\ desktopUp /\ at[o] = "put" /\ mapLock = o /\ callLock = o
  /\ table' = held[o]
  /\ held' = [held EXCEPT ![o] = Absent]
  /\ Unlocked
  /\ Go(o, IF job[o] = "scan" THEN "sweep" ELSE IF job[o] = "install" THEN "prune" ELSE "done")
  /\ UNCHANGED <<runVars, diskVars, built, quarantined, job, version, saved, inside,
                 faults, pluginHistory>>

-----------------------------------------------------------------------------
(* install: an existing plugin is only replaced by a higher version. *)
CheckVersion(o) ==
  /\ desktopUp /\ at[o] = "check"
  /\ Go(o, IF target = Absent \/ version[o] > target THEN "unload" ELSE "done")
  /\ UNCHANGED <<runVars, diskVars, lockVars, memoryVars, jobVars, faults, pluginHistory>>

(* stage: a copy that fails leaves the plugin on disk, and unloaded. *)
Stage(o) ==
  /\ desktopUp /\ at[o] = "stage"
  /\ \/ Go(o, "swap") /\ UNCHANGED faults
     \/ Fault /\ Go(o, "done")
  /\ UNCHANGED <<runVars, diskVars, lockVars, memoryVars, jobVars, owed, givenUp, raced>>

MoveOutForgetful(o) ==
  /\ desktopUp /\ at[o] = "swap"
  /\ target' = Absent
  /\ Go(o, "place")
  /\ UNCHANGED <<runVars, backups, trash, dbRow, lockVars, memoryVars, jobVars, faults,
                 pluginHistory>>

(* commit_swap: the old directory becomes the newest backup ... *)
MoveOut(o) ==
  /\ desktopUp /\ at[o] = "swap"
  /\ saved' = [saved EXCEPT ![o] = target]
  /\ backups' = IF target = Absent THEN backups ELSE Append(backups, target)
  /\ target' = Absent
  /\ Go(o, "place")
  /\ UNCHANGED <<runVars, trash, dbRow, lockVars, memoryVars, job, version, held, inside,
                 faults, pluginHistory>>

Backups == {backups[i] : i \in DOMAIN backups}
Kept(v) == IF v \in Backups THEN <<v>> ELSE <<>>
Without(v) ==
  LET i == CHOOSE j \in DOMAIN backups : backups[j] = v IN
  SubSeq(backups, 1, i - 1) \o SubSeq(backups, i + 1, Len(backups))
(* ... the move back of the backup a command made: nothing moves when     *)
(* another command took it, or put a directory where it belongs.           *)
Restored(o) == saved[o] \in Backups /\ target = Absent
MovedBack(o) ==
  IF Restored(o) THEN target' = saved[o] /\ backups' = Without(saved[o])
  ELSE UNCHANGED <<target, backups>>

(* ... and the staged one takes its place; a rename that fails (something  *)
(* stands there again) moves the backup back.                              *)
MoveIn(o) ==
  /\ desktopUp /\ at[o] = "place"
  /\ \/ /\ target = Absent
        /\ target' = version[o] /\ backups' = backups
        /\ Go(o, "load") /\ UNCHANGED faults
     \/ /\ \/ target # Absent /\ faults' = faults
           \/ Fault
        /\ MovedBack(o)
        /\ Go(o, "done")
  /\ UNCHANGED <<runVars, trash, dbRow, lockVars, memoryVars, jobVars, pluginHistory>>

(* load_dir: dlopen, and at_plugin_init under the lock of plugin code. *)
Loads(o) ==
  /\ target # Absent /\ ~(target \in Broken)
  /\ built' = [built EXCEPT ![o] = target]
  /\ held' = [held EXCEPT ![o] = o]
  /\ Go(o, CASE job[o] = "enable" -> "enable" [] job[o] = "scan" -> "put"
             [] at[o] = "reload" -> "put" [] OTHER -> "upsert")
  /\ owed' = (owed \/ job[o] = "install")
  /\ givenUp' = (givenUp /\ job[o] # "install")
  /\ UNCHANGED <<dbRow, faults>>

FailsToLoad(o) ==
  /\ \/ (target = Absent \/ target \in Broken) /\ faults' = faults
     \/ Fault
  /\ dbRow' = IF job[o] = "enable" /\ dbRow # NoRow THEN [dbRow EXCEPT !.enabled = FALSE] ELSE dbRow
  /\ Go(o, CASE at[o] = "load" /\ job[o] = "install" -> "undo"
             [] job[o] = "scan" -> "put" [] OTHER -> "done")
  /\ UNCHANGED <<built, held, owed, givenUp>>

LoadDir(o) ==
  /\ desktopUp /\ at[o] \in {"load", "reload"} /\ callLock = Absent
  /\ Loads(o) \/ FailsToLoad(o)
  /\ UNCHANGED <<runVars, target, backups, trash, lockVars, table, quarantined, job,
                 version, saved, inside, raced>>

(* The row of what was loaded; upsert leaves "enabled" of an old row.  A   *)
(* write that fails drops the handle just loaded.                          *)
Upsert(o) ==
  /\ desktopUp /\ at[o] = "upsert"
  /\ \/ /\ dbRow' = [version |-> built[o], enabled |-> dbRow = NoRow \/ dbRow.enabled]
        /\ Go(o, "put") /\ UNCHANGED <<held, faults>>
     \/ /\ Fault /\ dbRow' = dbRow
        /\ held' = [held EXCEPT ![o] = Absent]
        /\ Go(o, "done")
  /\ UNCHANGED <<runVars, target, backups, trash, lockVars, memoryVars, job, version,
                 saved, inside, owed, givenUp, raced>>

(* prune_backups: the backup this command made, or none, is kept. *)
Prune(o) ==
  /\ desktopUp /\ at[o] = "prune"
  /\ backups' = Kept(saved[o])
  /\ Go(o, "done")
  /\ UNCHANGED <<runVars, target, trash, dbRow, lockVars, memoryVars, jobVars, faults,
                 pluginHistory>>

(* A new version that does not load is removed ... *)
Undo(o) ==
  /\ desktopUp /\ at[o] = "undo"
  /\ target' = Absent
  /\ Go(o, IF saved[o] # Absent THEN "restore" ELSE "done")
  /\ UNCHANGED <<runVars, backups, trash, dbRow, lockVars, memoryVars, jobVars, faults,
                 pluginHistory>>

(* ... and the old one takes its place and is loaded again. *)
Restore(o) ==
  /\ desktopUp /\ at[o] = "restore"
  /\ MovedBack(o)
  /\ saved' = [saved EXCEPT ![o] = Absent]
  /\ Go(o, IF Restored(o) THEN "reload" ELSE "done")
  /\ UNCHANGED <<runVars, trash, dbRow, lockVars, memoryVars, job, version, held, inside,
                 faults, pluginHistory>>

-----------------------------------------------------------------------------
(* rollback: the newest backup and the current version change places by   *)
(* way of the trash; a trash left by a command of this process is in the   *)
(* way, one of an earlier process has another name.                        *)
PickBackup(o) ==
  /\ desktopUp /\ at[o] = "pick"
  /\ \/ /\ backups # <<>> /\ ~(target # Absent /\ trash # Absent)
        /\ version' = [version EXCEPT ![o] = backups[Len(backups)]]
        /\ trash' = IF target = Absent THEN trash ELSE target
        /\ target' = Absent
        /\ Go(o, "exchange")
     \/ /\ backups = <<>> \/ (target # Absent /\ trash # Absent)
        /\ Go(o, "done") /\ UNCHANGED <<version, trash, target>>
  /\ UNCHANGED <<runVars, backups, dbRow, lockVars, memoryVars, job, saved, held, inside,
                 faults, pluginHistory>>

Exchange(o) ==
  /\ desktopUp /\ at[o] = "exchange"
  /\ LET there == version[o] \in Backups IN
     \/ /\ there /\ target = Absent
        /\ target' = version[o] /\ backups' = Without(version[o])
        /\ Go(o, "clean") /\ UNCHANGED <<trash, faults>>
     \/ /\ \/ (~there \/ target # Absent) /\ faults' = faults
           \/ Fault
        /\ target' = trash /\ trash' = Absent
        /\ Go(o, "done") /\ UNCHANGED backups
  /\ UNCHANGED <<runVars, dbRow, lockVars, memoryVars, jobVars, owed, givenUp, raced>>

(* The version that was rolled back and all backups are given up, also     *)
(* when the one that is left does not load; with no manifest to read (an   *)
(* uninstall came between) all stays as it is.                             *)
ClearTrash(o) ==
  /\ desktopUp /\ at[o] = "clean"
  /\ \/ /\ target # Absent
        /\ trash' = Absent /\ backups' = <<>>
        /\ givenUp' = (givenUp \/ ~Good(target))
        /\ Go(o, "load")
     \/ /\ target = Absent
        /\ Go(o, "done") /\ UNCHANGED <<trash, backups, givenUp>>
  /\ UNCHANGED <<runVars, target, dbRow, lockVars, memoryVars, jobVars, faults, owed, raced>>

(* uninstall: the directory, its backups, the row. *)
Remove(o) ==
  /\ desktopUp
  /\ \/ /\ at[o] = "remove" /\ Go(o, "backups")
        /\ target' = Absent /\ owed' = FALSE /\ UNCHANGED <<backups, dbRow>>
     \/ /\ at[o] = "backups" /\ Go(o, "delete")
        /\ backups' = <<>> /\ UNCHANGED <<target, dbRow, owed>>
     \/ /\ at[o] = "delete" /\ Go(o, "done")
        /\ dbRow' = NoRow /\ UNCHANGED <<target, backups, owed>>
  /\ UNCHANGED <<runVars, trash, lockVars, memoryVars, jobVars, faults, givenUp, raced>>

-----------------------------------------------------------------------------
(* set_enabled reads the row, then loads and enables, or unloads and      *)
(* disables.                                                               *)
ReadRow(o) ==
  /\ desktopUp /\ at[o] = "row"
  /\ Go(o, IF dbRow = NoRow THEN "done" ELSE IF job[o] = "enable" THEN "load" ELSE "unload")
  /\ UNCHANGED <<runVars, diskVars, lockVars, memoryVars, jobVars, faults, pluginHistory>>

SetEnabled(o) ==
  /\ desktopUp /\ at[o] \in {"enable", "disable"}
  /\ \/ /\ dbRow' = IF dbRow = NoRow THEN dbRow ELSE [dbRow EXCEPT !.enabled = at[o] = "enable"]
        /\ Go(o, IF at[o] = "enable" THEN "put" ELSE "done") /\ UNCHANGED <<held, faults>>
     \/ /\ Fault /\ dbRow' = dbRow
        /\ held' = [held EXCEPT ![o] = Absent] /\ Go(o, "done")
  /\ UNCHANGED <<runVars, target, backups, trash, lockVars, memoryVars, job, version,
                 saved, inside, pluginHistory>>

(* scan: the directory is the truth: a row for what is there, loaded when  *)
(* enabled; the rows of what is not there go.                              *)
ListDirs(o) ==
  /\ desktopUp /\ at[o] = "list"
  /\ version' = [version EXCEPT ![o] = target]
  /\ dbRow' = IF target = Absent THEN dbRow
            ELSE [version |-> target, enabled |-> dbRow = NoRow \/ dbRow.enabled]
  /\ Go(o, IF target # Absent /\ (dbRow = NoRow \/ dbRow.enabled) THEN "load" ELSE "put")
  /\ UNCHANGED <<runVars, target, backups, trash, lockVars, memoryVars, job, saved, held,
                 inside, faults, pluginHistory>>

Sweep(o) ==
  /\ desktopUp /\ at[o] = "sweep"
  /\ dbRow' = IF version[o] = Absent THEN NoRow ELSE dbRow
  /\ Go(o, "done")
  /\ UNCHANGED <<runVars, target, backups, trash, lockVars, memoryVars, jobVars, faults,
                 pluginHistory>>

-----------------------------------------------------------------------------
(* call: a row that is disabled refuses, and the Arc is cloned under the   *)
(* lock of the map; the worker runs plugin code under the other lock.      *)
Look(o) ==
  /\ desktopUp /\ at[o] = "look"
  /\ \/ dbRow # NoRow /\ ~dbRow.enabled /\ Go(o, "done") /\ UNCHANGED <<held, inside>>
     \/ /\ dbRow = NoRow \/ dbRow.enabled
        /\ mapLock = Absent
        /\ held' = [held EXCEPT ![o] = table] /\ inside' = [inside EXCEPT ![o] = table]
        /\ Go(o, IF table = Absent THEN "done" ELSE "wait")
  /\ UNCHANGED <<runVars, diskVars, lockVars, memoryVars, job, version, saved, faults,
                 pluginHistory>>

(* The worker thread: it may go on after its caller has given up. *)
Enter(o) ==
  /\ desktopUp /\ inside[o] # Absent /\ callLock = Absent
  /\ callLock' = o
  /\ UNCHANGED <<runVars, diskVars, mapLock, memoryVars, jobVars, at, faults,
                 pluginHistory>>

Leave(o) ==
  /\ desktopUp /\ inside[o] # Absent /\ callLock = o
  /\ callLock' = Absent
  /\ inside' = [inside EXCEPT ![o] = Absent]
  /\ Go(o, IF at[o] = "wait" THEN "answered" ELSE at[o])
  /\ UNCHANGED <<runVars, diskVars, mapLock, memoryVars, job, version, saved, held,
                 faults, pluginHistory>>

(* The caller has its answer, and drops its Arc. *)
Answered(o) ==
  /\ desktopUp /\ at[o] = "answered"
  /\ held' = [held EXCEPT ![o] = Absent]
  /\ Go(o, "done")
  /\ UNCHANGED <<runVars, diskVars, lockVars, memoryVars, job, version, saved, inside,
                 faults, pluginHistory>>

(* A call that times out moves its Arc to the quarantine, takes the handle *)
(* of this id out of the map, whichever it is by now, and disables.        *)
TimesOut(o) ==
  /\ desktopUp /\ at[o] = "wait"
  /\ held' = [held EXCEPT ![o] = Absent]
  /\ Go(o, "expel")
  /\ UNCHANGED <<runVars, diskVars, lockVars, table, built, job, version, saved, inside,
                 faults, pluginHistory>>

QuarantineNothing(o) == TimesOut(o) /\ UNCHANGED quarantined
Quarantine(o) == TimesOut(o) /\ quarantined' = quarantined \cup {held[o]}

Expel(o) ==
  /\ desktopUp /\ at[o] = "expel" /\ mapLock = Absent
  /\ table' = Absent
  /\ dbRow' = IF dbRow = NoRow THEN dbRow ELSE [dbRow EXCEPT !.enabled = FALSE]
  /\ Go(o, "done")
  /\ UNCHANGED <<runVars, target, backups, trash, lockVars, built, quarantined, jobVars,
                 faults, pluginHistory>>

-----------------------------------------------------------------------------
(* The desktop is killed; the scan of the next start runs before any      *)
(* command can.                                                            *)
Halt ==
  /\ desktopUp /\ halts < MaxHalts
  /\ desktopUp' = FALSE /\ halts' = halts + 1
  /\ trash' = Absent /\ oldTrash' = oldTrash \cup ({trash} \ {Absent})
  /\ mapLock' = Absent /\ callLock' = Absent
  /\ table' = Absent /\ quarantined' = {} /\ built' = [h \in PluginHandle |-> Absent]
  /\ at' = [o \in Cmd |-> IF at[o] = "idle" THEN "idle" ELSE "done"]
  /\ held' = [o \in Cmd |-> Absent] /\ inside' = [o \in Cmd |-> Absent]
  /\ UNCHANGED <<target, backups, dbRow, job, version, saved, faults, pluginHistory>>

StartUp ==
  /\ ~desktopUp /\ desktopUp' = TRUE
  /\ LET on == dbRow = NoRow \/ dbRow.enabled IN
     /\ dbRow' = IF target = Absent THEN NoRow ELSE [version |-> target, enabled |-> on]
     /\ table' = IF Good(target) /\ on THEN Boot ELSE Absent
  /\ built' = [built EXCEPT ![Boot] = target]
  /\ owed' = (owed \/ Good(target))
  /\ givenUp' = (givenUp /\ ~Good(target))
  /\ UNCHANGED <<target, backups, trash, oldTrash, lockVars, quarantined, jobVars, at, halts,
                 faults, raced>>

Installs(o) == CheckVersion(o) \/ Stage(o) \/ MoveOut(o) \/ MoveIn(o) \/ LoadDir(o)
               \/ Upsert(o) \/ Prune(o) \/ Undo(o) \/ Restore(o)
Manages(o) == PickBackup(o) \/ Exchange(o) \/ ClearTrash(o) \/ Remove(o) \/ ReadRow(o)
              \/ SetEnabled(o) \/ ListDirs(o) \/ Sweep(o)
Calls(o) == Look(o) \/ Enter(o) \/ Leave(o) \/ Answered(o) \/ Expel(o)
Locks(o) == LockMap(o) \/ LockCall(o) \/ UnloadHandle(o) \/ PutLoaded(o)
Steps(o) == Installs(o) \/ Manages(o) \/ Calls(o) \/ Locks(o)

PluginNext ==
  \/ \E o \in Cmd, k \in Job, v \in Version \cup {Absent} :
       (v # Absent <=> k = "install") /\ BeginJob(o, k, v)
  \/ \E o \in Cmd : Steps(o) \/ Quarantine(o)
  \/ Halt \/ StartUp

PluginSpec == PluginInit /\ [][PluginNext]_pluginVars
PluginFairSpec == PluginSpec /\ \A o \in Cmd : WF_pluginVars(Steps(o))

-----------------------------------------------------------------------------
(* Whatever fails, and wherever the desktop is killed, a user who had a    *)
(* version of the plugin that loads still has one on disk until it is      *)
(* uninstalled; except that a rollback to a backup that does not load      *)
(* gives up the version that did, and that commands on the files may have  *)
(* overlapped.                                                             *)
KeepsACopy ==
  owed /\ ~givenUp /\ ~raced =>
    \E v \in {target, trash} \cup oldTrash \cup Backups : Good(v)

(* A library is not closed while a worker runs its code or waits to. *)
CodeOutlivesCalls ==
  \A o \in Cmd : inside[o] # Absent => Alive(inside[o])

(* Again and again no command is under way: every command ends, whatever    *)
(* locks it needs, if every call into a plugin returns.                    *)
CommandsEnd == []<>(\A o \in Cmd : ~Busy(o))
=============================================================================
