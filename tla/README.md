# Verification of androidRevBox

androidRevBox is a desktop workbench (Tauri: a Rust core and a React front end)
for Android devices.  The desktop runs `adb`, installs a small *Agent* on the
device, talks to it through an `adb forward` rule, runs long commands as tasks
and hosts real terminals.  This directory holds TLA+ modules of the parts that
carry the concurrency and the failure handling of the program, the TLC
configurations that check them and proofs that TLAPS checks.

Paths below are relative to the repository: `desk/` stands for
`src-tauri/src/`, `agent/` for `android-agent/src/`, `ui/` for `src/`.

## 1. Inventory

| Component | State it keeps | Operations | Interacts with | Hard behaviour |
|---|---|---|---|---|
| Command execution `desk/services/process_service.rs` | the child, two pumps with a channel of lines, the token, `terminate_sent_at`, `force_sent`, `reason` | `execute`, `cancel` | task service, adb adapter, environment probes | several arms of `select!` ready at once; exit before the last lines; a pid that was reaped; grace before SIGKILL; descendants that keep the pipes |
| Task service `desk/services/task_service.rs`, `desk/db/task_repo.rs` | rows in SQLite, `running` (tokens), temporary inputs | `start`, worker, `cancel`, `list`, orphan sweep at start | command execution, database, events to the UI | crash between two writes; failing writes; cancellation at each moment |
| Agent client and routing `desk/services/agent_client.rs`, `android_backend.rs`, `desk/adapters/agent_transport.rs` | `pending`, `terminal_error`, one socket | `request`, reader, deadline, cancellation; Legacy fallback | Agent server, sessions | an answer races its deadline; loss with requests under way; a write that may have been executed |
| Agent server `agent/server.rs`, `agent/router.rs` | a task per request, a queue to the writer | hello, dispatch, abort | client, providers, presence | concurrent handlers; answers too large; abort between effect and answer |
| Operation ledger `agent/provider/operations.rs` | `operation_id` to result, TTL and cap | `lookup`, `remember`, `prune` | write handlers | retry, double click, eviction, restart |
| Client presence `agent/presence.rs`, `agent/main.rs` | `live`, `zero_since` | `attend`, drop of the guard, `wait_until_should_exit` | connections, `main` | decision and exit are two steps; clients between two polls |
| Agent session `desk/services/agent_manager.rs` | status, client, forward, plan, per device and behind one lock | connect, reconnect, disconnect, device loss, diagnostics, sweep, release at exit | adb server, Agent, client | operations that waited act on old facts; partial failure; single flight |
| Agent installation `agent_manager.rs`, `desk/adapters/agent_bootstrap.rs` | binary and rollback copy on the device | push, promote, start, handshake, commit, roll back, retry after a mismatch | adb, session lock | failing adb commands, a crash between two, a second caller between two rounds |
| Terminal `ui/lib/terminalStore.ts`, `terminalSession.ts`, `desk/services/pty_service.rs` | tabs, `id`, listener; table of sessions, child, two threads | create, mount, type, stop, close, dispose; open, write, close, exit event | React, IPC, child programs | answers and events in any order; a mutex held over a blocking write |
| Device watch and automatic connection `desk/services/device_service.rs`, `agent_auto.rs`, `desk/commands/agent.rs` | `known` (last listing), `inflight`, the setting, the list of consents | `poll_once`, `kick_agent_auto`, `auto_connect`, `agent_install`, `agent_restart` | adb, sessions, the idle exit of the Agent | a listing that is old when it is used; tasks of several appearances of one device; two timers on two machines |
| Plugins `desk/services/plugin_service.rs`, `desk/plugins/install.rs`, `loader.rs`, `plugin_repo.rs` | target, backups, staging and trash on disk, a row in SQLite, the loaded handle, two locks | install, rollback, uninstall, enable, disable, scan, call | file system, database, foreign code in the process | no lock spans files, row and handle; a crash between two renames; a call whose caller stopped waiting |
| Tool market `desk/services/tool_market.rs` | cache and `.part` files, known frida assets | install, install_frida | network, adb | broken streams, two downloads of one file, damage in the cache |
| Hosted programs `agent/provider/hosted.rs` | table of runs, one file per run | start, adopt, status, stop, write, probe, load after a restart | processes of the device | pids that are used again; programs that outlive the Agent; files that cannot be written |
| Zygisk modules `agent/provider/zygisk.rs` | cached probe, cached token, staging directories | list, export, export_clean | two modules in the system, su | a token or a probe that is older than the module |
| Native library replacement `agent/provider/package.rs`, `privileged.rs` | the library, a temporary name, backups | replace_native_library | scripts under su | a script that outlives its wait; a command that fails unnoticed |
| Environment, hooks, configuration `desk/services/*` | scripts, key-value table | probe, run, read, write | command execution, tasks | read-modify-write of settings |
| Process plugins `desk/plugins/process.rs`, `plugin_service.rs` | the child with its pipes, a mutex per handle, the map of handles | load, call, stop, unload, drop of the last `Arc` | a child that answers, talks, exits or is silent | a deadline that runs while the lock is waited for; a stop before a call that has its `Arc`; children that nobody holds |
| Frida server `agent/provider/frida.rs`, `privileged.rs` | none: what it finds in `/proc` | start, stop, status | scripts under su, servers started by hand | no lock over scan, script and check; servers are known by name only |
| Hosting from the desktop `desk/services/device_service.rs`, `desk/adapters/adb.rs` | temporary files, the log and two input files on the device | hosted_run by the Agent or under su, adoption | Agent, su, programs started by hand | files that runs share; a command whose answer is lost; logs of other owners |
| Files of the device `agent/provider/filesystem_write.rs`, `device_service.rs` | none: the files | mkdir, rename, remove, chmod by the Agent or under su | the apps of the device | look, act and look again with others between |
| Export of apps `desk/services/zygisk_applist.rs`, `apk_bundle.rs` | staging directories on both sides, the artifact | export_package, assemble | Agent, adb, the directory the user chose | a name that is chosen before it is taken; failures that clean up by name |
| Other providers `agent/provider/{device,process,system,filesystem}.rs` | none | reads | processes and files of the device | none that has a state |

Not modelled parts are listed with their reason in section 8 and in
`PROJECT.json`.

### What makes each part correct

* Command execution: one verdict, whatever becomes ready first; SIGKILL only after SIGTERM and its grace, also when `execute` drops the handle; a
  cancelled command ends.
* Task service: the UI is told only what the database says; open rows have a
  worker; a final status is never rewritten; a task comes to its end through
  crashes.
* Agent client: a lost connection is reported at once to all who wait; a write acts at most once, through retries
  and the Legacy path; an answer belongs to its request.
* Ledger: a retry of remembered work is replayed, of other work never.
* Presence: the Agent decides to leave only when it was alone for a whole grace
  period, and then it does leave.
* Session: status, client, plan and forward rules agree whenever the lock is
  free; nobody's rule is left behind or removed under its owner; a healthy client
  is not taken away.
* Installation: a device with an Agent that worked keeps one.
* Terminal: one program per tab; its end is shown; closing a tab ends it.
* Device watch: a session does not outlive its device; an abandoned Agent is replaced.
* Plugins: a user who had a version that loads keeps one on disk; no code is
  unmapped under a call; commands end.
* Process plugins: no child runs that nobody can stop any more; an unload ends,
  whatever the plugin does, if it reads its input.
* Tool market: a device receives only bytes whose digest was checked.
* Hosted programs: a stop strikes the process it was asked for; what was told of a
  running program stays on record across an Agent; the table tells the truth.
* Frida server: a start that failed leaves nothing half up behind.
* Hosting from the desktop: what a run reports, and quotes as the cause of a failure,
  is of its own program.
* Files: what lies in a directory goes only with a removal that was asked to be
  recursive.
* Export: an artifact that was reported as saved stays, and is the one reported.
* Zygisk: a healthy module is used again, whatever was cached.
* Library replacement: the library the app came with is never lost, and the answer
  is true of the disk.

## 2. Modules

| Module | Stands for | Correspondence |
|---|---|---|
| `CommandContract` | what callers of `execute` rely on | abstract: running, then one outcome; no code |
| `ProcessService` | `execute` | `pc` "select" is the loop; one action per arm (`Output`, exit, cancellation, timeout), `ForceDue` the test after an arm; a pump stops at the end of its pipe or at a line it cannot read (`PumpStops`); child, kernel and descendants are actions of the environment |
| `TaskService` | `TaskService` | one action per step of the worker (`Register` ... `Finish`), `Cancel`, `Crash`, `Restart` with the orphan sweep |
| `PluginHost` | the resident child of a process plugin | a handle has a mutex and a slot for the child; an actor holds an `Arc` of a handle and may hold a child in its hand; a line of the plugin answers, is skipped or breaks the protocol; a second handle may replace a listed one (`Load`, `ScanDrops`) |
| `DesktopServices_proofs` | proofs about `ProcessService`, `TaskService`, `AgentInstall`, `AppExport`, `PluginHost`, `ToolMarket` | one part per module, none uses another; section 7 |
| `DeviceServices_proofs` | proofs about `LibraryReplacement`, `FridaServer`, `HostedPrograms`, `FileWrites` | likewise |
| `AgentServer_proofs` | proofs about `OperationLedger`, `AgentPresence` and their composition | section 7 |
| `AgentRpc_proofs`, `AgentSession_proofs`, `PluginStore_proofs`, `HostedLaunch_proofs`, `Terminal_proofs` | proofs about the modules of the same name | section 7 |
| `DeviceCall` | what a caller of the Android backend may rely on | abstract: idle, waiting, one result, at most one effect of a write |
| `AgentRpc` | client, connection, server, routing | `pending`, oneshot channels, reader, handlers; two sets of messages on the way, each sent once; Legacy path of `android_backend.rs` |
| `OperationLedger` | `operations.rs` and the write handlers around it | an attempt is lookup, act, remember, answer |
| `AgentPresence` | `presence.rs`, `server.rs` (hello), `main.rs` | connections, guard, watchdog, exit |
| `AgentSession` | one device session of `agent_manager.rs` | the queue of the lock; each `await` under it is an action; adb server and Agent are the outside |
| `AgentInstall` | `connect_artifact` with `agent_bootstrap.rs` | two files on the device; each adb command may fail, the script of promote between its commands (`PromotedPartly`), the move of the rollback unseen (`PutBackFails`) |
| `Terminal` | the three layers of the terminal | JavaScript runs one callback at a time; each answer of the desktop is an action |
| `AgentServer` | the Agent process | composes `OperationLedger` and `AgentPresence`: attempts are carried by connections, a hang-up aborts its handlers, the end of the process ends both |
| `PluginStore` | install, rollback, uninstall, set_enabled, scan and call of one in-process plugin | a handle (an `Arc`) is named by the command that loaded it and lives while the map, a caller or the quarantine refers to it; each rename, each lock and each write of the row is an action |
| `ToolMarket` | downloads and installs of `tool_market.rs` | a file is an inode with an entry, as `File::create` and `rename` treat it; a download writes chunk by chunk and digests what it received, also when its last write failed (`LoseTail`) |
| `HostedPrograms` | `hosted.rs` | actions are what happens under one lock of the table; start, stop and write span several; the programs, their pids and the files outlive the Agent; a stat file of `/proc` may be unreadable (`Dim`, `untimed`) |
| `ZygiskBridge` | `zygisk.rs` | the probe with its single flight, the token cache, `package.list_localized` (`Lists`) and `package.export_apk` (`Exports`) step by step between awaits |
| `LibraryReplacement` | `replace_native_library`, `privileged.rs` | each script under su is a process of its own, with the order of its commands, joined by `;` or `&&` as in the code; the Agent waits, gives up or dies |
| `FridaServer` | `frida.rs` with the scripts of `privileged.rs` | a server is named like the operation that started it, pids are in that order; each scan, each command of a script and each check is an action |
| `HostedLaunch` | `hosted_run` with its helpers, on both branches | a process is named like its run; each adb command is an action that may be lost; the shell under su forks, opens and removes on its own |
| `FileWrites` | the writes of the Files page on both legs | a first look, an act, a look afterwards, each an action; what others do comes between |
| `AppExport` | `export_package`, `assemble` | a file is an inode with a name; an export stages, pulls, cleans, chooses, writes and checks |
| `DeviceWatch` | `poll_once`, `kick_agent_auto`, `auto_connect`, the two commands | each `await` of the poll, of a task and of a click ends an action; a connection is one step under the lock; a failed health check gives a session up (`GiveUp`), a failing call reconnects it (`Reconnect`) |

`AgentRpc` composes client, server and routing; `AgentServer` composes
`AgentPresence` and `OperationLedger`, two parts of the server that `AgentRpc`
abstracts from; `AgentInstall` details the connect that `AgentSession` and
`DeviceWatch` abstract from, and `AgentSession` the session.  Two
modules are refinements: `ProcessService` implements `CommandContract`
(`ContractSpec`), `AgentRpc` implements `DeviceCall` (`CallSpec`).

An MC module (`MC...`) extends a module with the values its configurations need.
`MCDesktop`, `MCDevice`, `MCAgentServer` and `MCPages` hold several modules at once: the
ones of the desktop (`ProcessService`, `TaskService`, `PluginStore`, `PluginHost`, `ToolMarket`,
`AgentInstall`, `AppExport`), the ones about the device (`AgentRpc`, `HostedPrograms`,
`ZygiskBridge`, `LibraryReplacement`, `FridaServer`), the Agent process with the starts of hosted programs
(`AgentServer`, `HostedLaunch`), and what two pages of the front end drive (`Terminal`,
`FileWrites`).  These share no state, so a product of their steps would show
nothing new: the variable `scene`, fixed from the start, says which module moves, the
others rest in their initial state, and every module's fairness is asserted of its own
scene.  A run is then the union of the runs of its modules.

Operators that take part in no behaviour and precede one of a similar name
(`CloseDrops` before `CloseRemove`) are plausible bugs; each is listed in
`PROJECT.json` with the property that notices it.

## 3. Runs

`tlc -workers 2 -config X.cfg MCModule` in this directory.  Every run ends within
five minutes.  What each shows is said in its `about` in `PROJECT.json`.

| Configuration | Checks | Bounds and why they are enough |
|---|---|---|
| `Desktop`, scene command | grace before SIGKILL, a cancelled command ends, refinement of `CommandContract` | two lines (one before and one after any event), two pumps that may stop early, clock of 4 with grace 1 and cap 2: each order of deadline, grace, cap and exit occurs |
| `Desktop`, scene tasks | what was told is persisted, open rows have a worker, a final status stays; a task settles | two tasks share registry and database; one crash with restart, one failing write |
| `Desktop`, scene plugin | a copy is kept, code outlives calls, commands end | two commands of every pair of kinds on an installed version 3 of four, of which the lowest and the highest do not load (an upgrade that must be undone, a backup that is of no use), one kill with restart, one failing operation |
| `Desktop`, scene host | no orphan, an unload ends | two calls and the command that loads and unloads, two handles (a call that kept the old one), three children at a time, one exit or line that answers nothing |
| `Desktop`, scene export | what was saved stays | three exports that want one name, of which one is a single file, two names: two artifacts, and one export that finds no name |
| `Desktop`, scene market | only verified bytes are delivered | two installs of one tool (fixed or frida), two chunks, two corruptions or broken streams, one quit; `MaxInodes` is what two installs can use at a time, so that its guard never bites |
| `Desktop`, scene install | known good kept, connect ends | two callers, two artifacts of which one is mislabelled, two failing commands, one crash |
| `Device`, scene call | a loss is reported without timeouts, refinement of `DeviceCall` | two writes and a read, of which one has no Legacy command and one is too large; one connection, lost at any step |
| `Device`, scene hosted | stop strikes its own, table and record are true | two programs that get the same pid one after the other, one kill of the Agent, and two handles; the stat file of one of the two may be unreadable at each look (`Dim`), of the other never, so that a record with and one without a start time meet |
| `Device`, scene bridge | a healthy module is used | one list and one export, ages of two (probe) and three (token), three disturbances |
| `Device`, scene library | the original is kept, answers are true | two replacements of one library, two mishaps (failing commands, looks that fail, timeouts, deaths) |
| `Device`, scene frida | a failed start leaves nothing half up | two operations of both kinds next to a server started by hand (of root, of shell, or with an unreadable uid), two ports, one failing or abandoned script or server that ends |
| `AgentServer`, scene launch | a report is of the run's own program | two runs on one or two phones, one after the other (`Apart`: runs at the same time are excepted in the property), on both branches, with and without files; one upset |
| `AgentServer`, scene server | replay, whole grace, an idle Agent leaves | two operations with cap 1 (eviction) and TTL 1, three attempts on two connections (a retry on the same one and on another), grace of two ticks, one start |
| `AgentSession` | consistency at rest, rules accounted for, no revival, healthy clients spared; the lock becomes free again | three concurrent operations of every kind (a connect, a loss and a reconnect in every order), two ports, one event outside |
| `Pages`, scene terminal | true end, close kills, tab goes | two tabs on one mutex, limit 1; one program may stop reading or leave a child, the other one exits |
| `Pages`, scene files | content goes only if asked | two writes of every kind on both legs next to each other and to one step of an app; two paths, a file and two directories in every arrangement; one adb command that fails |
| `DeviceWatch` | session follows device, orphan is replaced | one device with three states of adb and two changes of them, two tasks, one click, health checks and reconnects at any time; grace and margin of one unit, since only their order matters |

Actions on different tasks, calls, tabs or connections are symmetric and meet
only in shared state (registry, lock, mutex, ledger, presence count); with two of
each, three where an eviction or a queue needs it, every pairwise interleaving
occurs.

## 4. Disagreements between code and text

Each of these configurations checks one property that states what a comment, a
message or a test says, and TLC violates it.  `PROJECT.json` quotes the lines.

| Configuration | What happens |
|---|---|
| `ProcessServiceForced` | a silent child that ignores SIGTERM is never killed: no arm of the select is a timer of the grace |
| `OperationLedgerOnce` | two attempts with one id both pass `lookup` and act twice |
| `AgentSessionLeak` | a failed reconnect forgets its rule without removing it |
| `TerminalLeft` | a tab closed during its start leaves its program running |
| `FileWrites` | as root a path that is absent is never seen to be absent: a removal that succeeded is answered as a failure (and a new directory and every rename are refused before they begin) |
| `ToolMarket` | two installs share one `.part` file, and each digests its own stream: a file nobody checked is pushed and reported as verified |

Other behaviour met while modelling, which the models contain and their
properties except by name, without a configuration of its own:

* `cancel` of a task answers Ok for a task that ended a moment before.
* The retry of an uninstall that was answered `verify_failed` is answered Ok,
  since the result is remembered before it is verified.
* A client may attend between the decision of the watchdog and `process::exit`
  and is cut off.
* When a reconnect fails, each call that waited for it reconnects on its own.
* A device loss that waited for the lock tears down a session connected since.
* The start-up sweep may remove a rule recorded after it read the owned ones.
* `invalidate_remote_artifact` runs without the lock: it may remove the binary of
  another caller, or strand the only copy that worked (`forsaken`).
* The message of a failed start says "first install" after a reinstall.
* An exit event before its listener exists is lost; the tab learns of it only
  when the user types.  `pty_count` counts sessions nobody
  uses.  A blocking write under the mutex keeps `pty_close` waiting.
* A pump ends at the first line that is not UTF-8: the rest of the output is lost, and
  a child that goes on to write may die of SIGPIPE.  `ContractSpec` speaks of the lines
  that a pump has read.
* A temporary file of a task whose removal fails is only logged (`leftover`).
* The error of a download's last write is thrown away (`file.flush().await.ok()`): the
  file that is renamed and pushed can lack its tail (`unflushed`).  Its length on the
  device then differs, so that it is reported short and not as verified.
* The script of promote can be cut between its moves, and the one of the rollback
  removes the binary first and says `restored` whether or not its move succeeded.  One
  good file is left, which the next promote drops (`forsaken`).
* A forward that fails on its timeout or on a port it cannot read may have made its
  rule, which nobody records (`stray`).
* A session that fails a health check of `diagnostics`, or whose reconnect fails, is
  given up while the device stays online: only a flap, a click or a call that reconnects
  brings it back (`excused` in `DeviceWatch`).
* A device that flaps while its first task connects: the second task is refused
  as in flight, the poll tears the first one's session down, and nobody connects
  again until the next flap (`excused` in `DeviceWatch`).
* A flap between two polls is not seen: a connect that fails on it is not
  repeated, and a session connected in it is not torn down (`unnoticed`).
* Two clicks at the same time on different devices: one consent is lost, since
  `set_consent` reads and writes the list in two steps.
* The single second look starts at the probe.  When somebody else's client leaves
  after it, the Agent may still run at the second look.
* `send` of a request is awaited outside its timeout.
* `replace_native_library` takes every error of `symlink_metadata` for an absent
  library, and then makes no backup and rolls back by a removal (`unbacked`).
* `backup_script` prints `BACKED_UP` although its `cp` failed (`unbacked`), and
  `rollback_script` prints its sentinel although its `cp` or `rm` failed (`unchecked`):
  the commands are joined by `;`, and a partial or stale `target.arttmp` is moved into
  place.  A library can then be replaced without a backup, and a later failure loses it;
  or it is reported as rolled back and is not.
* A script under su runs on after `SU_TIMEOUT`: it can install after the rollback was
  answered (`outlived`).  Two replacements of one library share `target.arttmp`.
* A stop that could be sent but not confirmed, and a start whose file could not be
  written, leave a hosted program that the next Agent does not know (`unsaved`).
* A program whose start time could not be read when it was recorded is called exited by
  a stop (unless its stat file is unreadable again) and dropped by the next Agent while
  it runs (`untimed`).
* `adopt` answers a record that says running of a process that is gone while its pid
  is used again, until a refresh has seen it.
* One request that fails faults the cached probe for all others and makes it young
  again: callers that never pause for `PROBE_TTL` never see the module recover.
* An export of the v1 module whose stream cannot be opened leaves its staging
  directory (`?` before the clean-up).
* A rollback of a plugin gives up the version in place and all backups before it knows
  that the version it put in place loads (`givenUp`).
* A scan of the plugins replaces the map of handles while calls and loads are under way.
* `call` keeps an `Arc` of a plugin over `unload_handle`.  When it drops the last one,
  `at_plugin_shutdown` runs without the lock that, as `loader.rs:78` says, every call of
  plugin code must hold.
* `child_info` of a process plugin relies on a handshake that compared the id with the
  manifest; `spawn_and_initialize` only asks that it is not empty.
* The deadline of a plugin call runs while the call waits for the lock: it may send with
  no time left and kill a child that worked.  `write_line` has no deadline at all.
* A start of frida-server is verified by any server of that name and by the port of the
  one with the lowest pid; its undoing stops all its undoing stops all of them.  `find_server` stops silently
  after `MAX_SCANNED_PIDS`.  A start that is answered `DEADLINE_EXCEEDED` may still put a
  server up.
* Two runs of one hosted program share the temporary files on the desktop and the input
  files on the device (`crossed`); the look before a run is not repeated under a lock.
  `rm -f` of the input file races the program's opening of it.  A lost adb command
  leaves a script that starts the program later, without the files that were removed.  A
  failing `kill -0`, a su that refuses it too, answers failed while the program runs
  untracked.
* `process.kill` without root sends its signal also when it found no process at its look
  (`process.rs:340` only writes the audit line), and `kill_verified_script` sends its
  SIGKILL up to a second after its one look at the name: a process that took over the pid
  meanwhile is struck.
* As root a directory is looked into by `ls -A` and removed by `rm -rf`: what arrived
  between goes, too.  The Agent's `rename` looks first and then calls rename(2), which
  overwrites a file that appeared between.
* Two exports that choose one name before either has created its file truncate or
  remove each other's artifact (`collided`).  An export of a single file that fails after
  its rename has given up the original that its message says was kept.  When a
  directory cannot be made, the staging directory stays on the device.

## 5. Hazards

`PROJECT.json` lists under "hazards" what is hard to test, at the line where it
bites, with the properties that would notice it going wrong.

## 6. Fairness

Weak fairness is asserted of what a thread, a Tokio task or the event loop does
once it can, and never of the user, of a device, of a failure or of a program
that ends.

* `ProcessService`: the loop, the kernel's delivery of a signal and the clock.
* `TaskService`: each worker, and the user who starts the desktop again.
* `AgentRpc.PatientSpec`: the reader, the caller that was answered and the Legacy
  command; *not* the timeout, since the run asks whether a loss is reported
  without it.
* `AgentServer`: the watchdog.
* `AgentSession`: each operation; the lock is a FIFO queue as Tokio's is.
* `AgentInstall`: each round; the lock is a FIFO queue.
* `PluginStore`: each step of a command, the return of a call into a plugin included;
  not the timeout of a call.
* `ZygiskBridge`: the clock, the steps of a request, callers that ask again, and
  strong fairness of taking the lock of the single flight, which Tokio hands over in
  order.
* `PluginHost`: the steps of the actors, the deadline of a call and of a stop; never the
  plugin, which need not answer nor exit.
* `HostedPrograms`, `ToolMarket`, `LibraryReplacement`, `FridaServer`, `HostedLaunch`,
  `FileWrites`, `AppExport`: none, their properties are of safety.
* `DeviceWatch`: the poll loop, the tasks, the clicks that were made, time and the
  watchdog of the Agent; never a flap, a click or somebody else's hang-up.
* `Terminal`: writes that can end, the threads of the desktop, and strong fairness
  of the one action of `close` that waits for the mutex of the table.

## 7. Proofs

`tlapm M_proofs.tla` checks the proofs of a module; the longest take three minutes.
Every safety property that a passing run checks is a theorem, for every value of the
constants that their named assumptions allow: for any number of tasks, calls, tabs,
versions, processes or devices, and of crashes, kills and failures.  Hardly any of these
properties is inductive.  Below, for each part, is what the inductive invariant adds and
why it is needed.  A step lemma has one step per action and under it one per conjunct
that the action disturbs; the theorem then follows with PTL.

### Desktop (`DesktopServices_proofs`)

* **Commands** (`ProcessService`): `ChildAlwaysHasItsGrace` (`GraceBeforeKill`) and
  `ExecuteKeepsItsContract`, the refinement `ProcessSpec => ContractSpec` step by step:
  an arm of the select is `Finish` or `Progress` of `CommandContract`, what child and
  kernel do is `Progress` or `Aftermath`.  `LoopInv` says what the loop knows when it
  stops: an exit code is that of a child that was waited for, a closed channel was read
  to the end of what the pumps had read (not of what the child wrote: a pump may have
  stopped early), and a reason was taken when it was so.  The cap after SIGTERM is not
  shorter than the grace (`ProcessAssumption`), on which the grace rests.
* **Tasks** (`TaskService`): `TypeCorrect`, `ToldIsAlwaysPersisted`,
  `OpenRowAlwaysHasWorker`, `RunningIsAlwaysCancellable`, `PathsAlwaysOutliveCommand` and
  the action property `FinalStatusAlwaysStays`.  `IInv` relates the position of a worker
  to the rest: a desktop that is down runs nothing (`DownIsQuiet`), an unfinished worker
  has an open row (`UnfinishedIsOpen`) and the reverse (`OpenIsUnfinished`), one past its
  command has a verdict (`VerdictIsKnown`), one past the write has written it or lost it
  (`FinishedIsPersisted`), the UI is told last (`ToldAtTheEnd`), a worker before its end is
  registered (`AliveIsRegistered`), a command has its files (`CommandHasItsFiles`).
* **Installation** (`AgentInstall`): `AKnownGoodIsAlwaysKept` (`KnownGoodKept`) and
  `RoundsNeverOverlap`.  A round puts the copy and the binary at risk in turn, so
  `StepInv` says at each step which of the two is the artifact: before its promotion the
  binary is another one, from its start on it is the artifact, the copy never is, and an
  artifact that is repeated under the wrong version is never accepted.  `CopyInv` says
  that nothing is in place without a copy unless that was forsaken.  A script cut
  between its moves leaves one of the two files, which is why the next promote forsakes
  what it drops when there is no binary.
* **Exports** (`AppExport`): `SavedAlwaysStays` (`SavedStays`).  `Apart` are the exports
  at whose name nobody else looked in time; `ApartInv` says that such a name belongs to
  one export, from the choice on, and the file to whom it is of.
* **Process plugins** (`PluginHost`): `NeverAnOrphan` (`NoOrphan`).  The property counts
  the handles that somebody has; `HandleInv` says that a handle with a child is
  one; `ActorInv` says who must have
  an `Arc` and who may have a child in hand.
* **Tool market** (`ToolMarket`): `OnlyVerifiedIsDelivered` (`DeliversVerified`).  The
  digest is one of the stream, not of the file; `WrittenInv` says that while it matches
  the file has those bytes, or all but the tail of an `unflushed` one, which needs that the
  part file is of one writer (`AloneAtFile`, `WriterInv`) and no inode of another name
  (`FileInv`).

### Agent and session

* **Ledger** (`AgentServer_proofs`): `RetryIsAlwaysReplayed`.  The property speaks of a
  history (how long ago an operation was remembered); `LedgerInv` says that an entry has
  that age (`EntryIsTrue`) and that what is still to be known is there (`KnownIsThere`).
  The heart is `PruneEvictsTheOldest`: `prune` gives up an entry before its time only for
  `Cap` others that are not older.
* **Agent server** (`AgentServer_proofs`): `PresenceTypeCorrect` (the unsigned counter
  never drops below zero), `LiveIsAlwaysExact`, and `AlwaysDecidesAfterWholeGrace`, whose
  invariant relates `zero_since` to the time since a poll saw a client (`ZeroIsRecent`).
  `ServerImplementsLedger` is the composition: every step of the server is one of the
  ledger or a stutter, so that `AgentReplaysRetries` follows from the theorem about the
  ledger alone.
* **Calls** (`AgentRpc_proofs`): `CallsKeepTheirPromise`, the refinement
  `Spec => CallSpec` of `DeviceCall`.  `CallInv` says of each call where its one effect
  can still come from (`UnsentIsFresh`, `LegacyIsAlone`, `HandlerActsOnce`), and that a
  response, a delivered response and a result are true (`ResponseIsTrue`,
  `ChannelIsTrue`, `ResultIsTrue`).
* **Session** (`AgentSession_proofs`): `AlwaysConsistentWhenSettled`,
  `RulesAreAlwaysAccounted`, `NeverRevived`, `ReconnectAlwaysSparesHealthy`,
  `OneHolderAtATime`, `SessionTypeCorrect`.  The first says nothing while somebody is at
  work, so the invariant does: `LockInv` (the queue is a mutex, and its head alone is past
  the lock) and `ConnectInv`, `ReconnectInv`, `ForwardInv` (what the holder has taken apart
  so far).  `ClosedIsFinal` is what makes `NoRevival` inductive: the Agent whose token
  a closed session's plan has does not run and will not run again.  `Counted` bounds the
  Agents by the calls.

### Device (`DeviceServices_proofs`, `HostedLaunch_proofs`)

* **Library** (`LibraryReplacement`): `OriginalIsAlwaysKept`, `AnswerIsAlwaysTrue`.  The
  invariant says which operations can still change the target, by a step or by a script
  that outlived its wait (`Harmful`), and that a backup is written by one script, once
  (`BackedUpOnce`).
* **Frida** (`FridaServer`): `NothingIsLeftHalfUp` (`LeavesNothingHalfUp`).  A failed
  start is of no harm only if no script is left that could start its server again
  (`Settled`); `StartInv` says when that is so.
* **Hosted programs** (`HostedPrograms`): `TableAlwaysTellsTruth`, `ToldIsAlwaysOnRecord`,
  `AStopAlwaysStrikesItsOwn`.  Table, files and processes are three accounts of one thing;
  `HostedInv` says how they agree between the steps of start, stop and write.  A pid is of
  one process at a time (`OnePerPid`), a `Child` has one holder and is not reaped
  (`ChildInv`), a handle stands for the process its file names (`FileInv`), and who was
  told of is in a file or known not to be (`ToldInv`).  The lemmas on `Persist` and
  `Without` say what becomes of the sequence of files when one is replaced, pruned or
  dropped.
* **Files** (`FileWrites`): `ContentAlwaysGoesOnlyIfAsked`, an action property: whatever
  the look of the Agent found, its kernel call gives up no content, by a lemma on each of
  unlink, rename and rmdir.
* **Hosting from the desktop** (`HostedLaunch`): `ReportIsAlwaysItsOwn`
  (`ReportIsItsOwn`).  Arguments, input and log pass through files that all runs share;
  `FileInv`, `ProcessInv` and `LogInv` follow them from the push to the shell, its
  program and the table, for a run that met no other one (`Apart`).

### Terminal and plugins

* **Terminal** (`Terminal_proofs`): `EndIsAlwaysTrue`.  `pty_close` answers at once when
  the table has no session, so `TabInv` says that a tab with an id has one.
* **Plugins** (`PluginStore_proofs`): `AlwaysKeepsACopy` (`KeepsACopy`),
  `CodeAlwaysOutlivesCalls`, `PluginTypeCorrect`.  `FilesInv` says at each step of a
  command that works alone on the files which of directory, backup and trash has a version
  that loads; `CallKeeps` says who keeps a library that a worker is in: the waiting caller,
  then the quarantine.

The attempt to prove `KeepsACopy` changed the model in three places.  `owed` was set when
a version took its place and taken back when it did not load, so that the undoing of an
install without a backup forgot an older debt, too; it is now set once a version has
loaded, and only an uninstall or a rollback takes it back.  The trash of a desktop that was
killed stood in the way of the next one's rollbacks, though its name carries the process
id (`oldTrash`).  And the backups of the initial states all loaded; now any version may be
one.  The theorem holds of the code for all that.

The assumptions are the named ones about the constants, in the modules that declare them:
sizes and bounds are natural numbers, caps and graces relate as in the code, and a value
such as `None` or `NoRun` is none of the things it stands beside.  TLC evaluates them in
every run.

### Only model-checked

* Liveness, which rests on fairness: `CancelEnds`, `TaskSettles`, `CommandsEnd`,
  `UnloadEnds`, `ConnectEnds`, `LossIsReported`, `HealthyModuleIsUsed`, `IdleAgentLeaves`,
  `OperationsEnd`, `CloseKills`, `TabGoes`, `SessionFollowsDevice`, `OrphanIsTakenOver`.
  `ZygiskBridge` and `DeviceWatch` have no other property and no theorem.
* The violations of section 4, which are behaviours and not theorems.

## 8. Limits

* Time is a bounded clock in `ProcessService`, and the age of what matters in
  `OperationLedger`, `AgentPresence` and `DeviceWatch`; elsewhere a timeout may
  come at any step.
* `AgentRpc` lets `send` fail, or succeed also into a connection that is broken already,
  never block: TCP back pressure is left out.
* `AgentSession` treats the installation as one step that succeeds or fails;
  `AgentInstall` has the steps.  One session is modelled, sessions share nothing
  but the adb server.
* `AgentInstall` fixes the artifact between two starts of the desktop.  A copy that a
  promote drops while there is no binary, after a script that was cut or a rollback that
  failed, or that `invalidate_remote_artifact` removed the binary of, is excepted in
  `KnownGoodKept` (`forsaken`): the code does lose it, see section 4.
* `TaskSettles` excepts files whose removal failed (`leftover`), `KeepsACopy` a rollback
  to a version that does not load (`givenUp`), `OriginalIsKept` and `AnswerIsTrue` what
  fails unseen in `replace_native_library` and its scripts (`unbacked`, `unchecked`),
  `TableTellsTruth` and `ToldIsOnRecord` records without a start time (`untimed`),
  `RulesAreAccounted` rules left by a forward that failed (`stray`), `OrphanIsTakenOver`
  sessions given up while the device stays online (`excused`): of these the code gives no
  more than section 4 says.
* `PluginStore` has one plugin, in-process.  `unload_all` on the way out and
  manifests that cannot be read (but for the one of rollback) are left out.
* `PluginHost` has one plugin, which reads its input.
* `FridaServer` excepts operations whose script failed or was not waited for (`unsure`),
  and says nothing of one that was answered `DEADLINE_EXCEEDED`: its script goes on.
* `HostedLaunch` excepts runs that met on their files (`crossed`) and those whose old
  log could not be moved (`unretired`).  `hosted_claim_terminal` is left out.
* `FileWrites` has paths side by side and one level below them.  Symbolic links, chmod
  and the reads are left out.  `ContentGoesOnlyIfAsked` is about the Agent's leg.
* `AppExport` takes the container as its parts: the layout of the zip file, and the
  check of its central directory, are data.  A directory can be listed: `try_exists`
  takes an error for a free name.
* `ToolMarket` has one entry of the catalog and one frida version.  Of a file whose tail
  was lost at the last write (`unflushed`) `DeliversVerified` says that it is not called
  verified; a frida archive without its tail does not unpack.  Assets without a
  registered digest are left out: their bytes are checked by length only.
* `HostedPrograms`: output rings, paths and environment are data; programs with
  one pid stand for the reuse of pids.  In the run `Dim` has one of the two programs; the
  theorems hold for any.
* `ZygiskBridge`: `package.describe` and the other commands of v2 have the shape of
  `package.list_localized`.
* `AgentPresence` has a grace above zero: `--idle-exit-secs 0` switches the watchdog off.
* `DeviceWatch` has one poll loop: `poll_once_manual` has no caller.  A `list_devices`
  that fails changes nothing and is a stutter; that it fails for ever is ruled out by
  the fairness of the loop.  A change of
  the setting while the desktop runs is left out.
* `Terminal`: one key stroke per tab is under way at a time.  Two programs and one
  mutex stand for eight.
* Not modelled: see `PROJECT.json`, components with status `not_modelled`.

## 9. Plan

1. `process.kill` on both legs (`agent/provider/process.rs`, `kill_verified_script`), next
   to processes that end and pids that are used again.
2. `hosted_claim_terminal`, and the uploads that precede a hosted run.
3. Pure algorithms against reference definitions on bounded inputs: frame limits of
   the wire protocol, the choice of install inputs, the version order of plugins.

Proofs: every safety property of the passing runs is a theorem.  Left are

1. the parts of liveness that are of safety: what holds a call, a session or a plugin up
   can be stated as an invariant (`LossIsReported`: a waiter that is registered has a
   reader that will see the loss; `CommandsEnd`: the two locks are always taken in one
   order), and would say why the runs find no deadlock;
2. type correctness of `ZygiskBridge` and `DeviceWatch`, and the invariants their
   liveness rests on;
3. theorems about what is modelled next.

Each module declares its constants with assumptions and uses no RECURSIVE operator, so
that it can be proved about as it stands.
