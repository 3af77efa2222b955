--------------------------- MODULE PluginStore_proofs ---------------------------
(***************************************************************************)
(* Of PluginStore: a user who had a version that loads keeps a copy, and   *)
(* no library is closed under a worker, for any number of commands,        *)
(* versions, kills and failures.                                           *)
(***************************************************************************)
EXTENDS PluginStore, SequenceTheorems, TLAPS

-----------------------------------------------------------------------------
(* What every state has. *)

\* Its type; a handle just loaded has a version; a call that waits has its Arc; no
\* command is under way while the desktop is down.
PluginShape ==
  /\ PluginTypeOK
  /\ \A o \in Cmd : at[o] = "upsert" => built[o] \in Version
  /\ \A o \in Cmd : at[o] = "wait" => held[o] # Absent
  /\ ~desktopUp => \A o \in Cmd : ~Busy(o)

\* Who runs plugin code, or waits to, keeps its library: by its own Arc while it
\* waits for the answer, by the quarantine once it has given up.
CallKeeps(o) ==
  inside[o] # Absent =>
    \/ at[o] = "wait" /\ held[o] = inside[o]
    \/ at[o] \in {"expel", "done"} /\ inside[o] \in quarantined

\* A version that loads was there; nobody removed it or gave it up.
Owed == owed /\ ~givenUp

\* A good version other than the one in the directory of the plugin.
Spare == \E v \in {trash} \cup oldTrash \cup Backups : Good(v)

Working(o) == Busy(o) /\ job[o] \in FileJob

\* What a command that works on the files can rely on at its steps, alone there.
FilesInv(o) ==
  /\ at[o] \in {"place", "exchange"} => target = Absent
  /\ job[o] = "install" /\ at[o] \in {"load", "undo"} => (Owed => Spare)
  /\ job[o] = "install" /\ at[o] \in {"upsert", "put", "prune"} => Good(target)
  /\ at[o] = "backups" => ~Owed

CopiesInv ==
  ~raced =>
    /\ Owed => Good(target) \/ Spare
    /\ \A o \in Cmd : Working(o) =>
         FilesInv(o) /\ \A p \in Cmd : Working(p) => p = o

CallsInv == \A o \in Cmd : CallKeeps(o)

PluginInv == PluginShape /\ CopiesInv /\ CallsInv

-----------------------------------------------------------------------------
(* The backups of the plugin. *)

\* The moved backup leaves the others where they are.
LEMMA WithoutOne ==
  ASSUME backups \in Seq(Version), NEW v \in Backups
  PROVE  /\ Without(v) \in Seq(Version)
         /\ Backups \subseteq {v} \cup {Without(v)[i] : i \in DOMAIN Without(v)}
<1> DEFINE n == CHOOSE j \in DOMAIN backups : backups[j] = v
           left == SubSeq(backups, 1, n - 1)
           right == SubSeq(backups, n + 1, Len(backups))
<1>1. n \in 1..Len(backups) /\ backups[n] = v
  BY DEF Backups
<1> HIDE DEF n
<1>2. left \in Seq(Version) /\ right \in Seq(Version)
  BY <1>1
<1>3. Len(left) = n - 1 /\ Len(right) = Len(backups) - n
  BY <1>1
<1>4. \A i \in 1..(n - 1) : left[i] = backups[i]
  BY <1>1
<1>5. \A i \in (n + 1)..Len(backups) : right[i - n] = backups[i]
  BY <1>1
<1> HIDE DEF left, right
<1>6. left \o right \in Seq(Version) /\ Len(left \o right) = Len(backups) - 1
  BY <1>1, <1>2, <1>3
<1>7. ASSUME NEW i \in 1..Len(backups), i # n
      PROVE  \E j \in DOMAIN (left \o right) : (left \o right)[j] = backups[i]
  <2>1. CASE i < n
    <3>1. i \in 1..(n - 1) /\ i \in DOMAIN (left \o right)
      BY <1>1, <1>6, <2>1
    <3>2. (left \o right)[i] = left[i]
      BY <1>2, <1>3, <3>1
    <3> QED
      BY <1>4, <3>1, <3>2
  <2>2. CASE i > n
    <3>1. i \in (n + 1)..Len(backups) /\ i - 1 \in DOMAIN (left \o right)
      BY <1>1, <1>6, <2>2
    <3>2. (left \o right)[i - 1] = right[i - n]
      BY <1>1, <1>2, <1>3, <2>2
    <3> QED
      BY <1>5, <3>1, <3>2
  <2> QED
    BY <1>1, <1>7, <2>1, <2>2
<1>8. Without(v) = left \o right
  BY DEF Without, n, left, right
<1>9. Backups \subseteq {v} \cup {(left \o right)[i] : i \in DOMAIN (left \o right)}
  BY <1>1, <1>7 DEF Backups
<1> QED
  BY <1>6, <1>8, <1>9

\* A directory that moves out becomes one more backup.
LEMMA OneMore ==
  ASSUME backups \in Seq(Version), NEW v \in Version
  PROVE  /\ Append(backups, v) \in Seq(Version)
         /\ {v} \cup Backups \subseteq {Append(backups, v)[i] : i \in DOMAIN Append(backups, v)}
<1>1. \A i \in DOMAIN backups :
        i \in DOMAIN Append(backups, v) /\ Append(backups, v)[i] = backups[i]
  OBVIOUS
<1>2. Len(backups) + 1 \in DOMAIN Append(backups, v) /\ Append(backups, v)[Len(backups) + 1] = v
  OBVIOUS
<1> QED
  BY <1>1, <1>2 DEF Backups

\* A backup is a version.
LEMMA BackupsAreVersions == backups \in Seq(Version) => Backups \subseteq Version
  BY DEF Backups

-----------------------------------------------------------------------------
(* The steps keep the shape. *)

\* Of the versions, only Absent is none.
LEMMA NoVersion == Absent \notin Version /\ ~Good(Absent)
  BY PluginAssumption DEF Absent, Version, Good

\* The places of each job, as the steps name them.
LEMMA PlacesAre ==
  /\ Places("install") = {"check", "unload", "stage", "swap", "place", "load", "upsert", "put",
                          "prune", "undo", "restore", "reload"}
  /\ Places("rollback") = {"unload", "pick", "exchange", "clean", "load", "upsert", "put"}
  /\ Places("uninstall") = {"unload", "remove", "backups", "delete"}
  /\ Places("enable") = {"row", "load", "enable", "put"}
  /\ Places("disable") = {"row", "unload", "disable"}
  /\ Places("scan") = {"list", "load", "put", "sweep"}
  /\ Places("call") = {"look", "wait", "answered", "expel"}
  /\ Places("none") = {}
  BY DEF Places

\* The place of a command tells its job.
LEMMA JobOfPlace ==
  ASSUME PluginTypeOK, NEW o \in Cmd
  PROVE  /\ at[o] \in {"check", "stage", "swap", "place", "prune", "undo", "restore", "reload"} =>
              job[o] = "install"
         /\ at[o] \in {"pick", "exchange", "clean"} => job[o] = "rollback"
         /\ at[o] \in {"remove", "backups", "delete"} => job[o] = "uninstall"
         /\ at[o] \in {"list", "sweep"} => job[o] = "scan"
         /\ at[o] \in {"look", "wait", "answered", "expel"} => job[o] = "call"
         /\ at[o] = "row" => job[o] \in {"enable", "disable"}
         /\ at[o] = "enable" => job[o] = "enable"
         /\ at[o] = "disable" => job[o] = "disable"
         /\ at[o] = "upsert" => job[o] \in {"install", "rollback"}
         /\ at[o] = "unload" => job[o] \in {"install", "rollback", "uninstall", "disable"}
         /\ at[o] \in {"load", "put"} => job[o] \in {"install", "rollback", "enable", "scan"}
<1>1. /\ at[o] \in {"idle", "done"} \cup Places(job[o])
      /\ job[o] \in {"install", "rollback", "uninstall", "enable", "disable", "scan", "call",
                     "none"}
  BY DEF PluginTypeOK, Job
<1>2. CASE job[o] = "install"
  BY <1>1, <1>2, PlacesAre
<1>3. CASE job[o] = "rollback"
  BY <1>1, <1>3, PlacesAre
<1>4. CASE job[o] = "uninstall"
  BY <1>1, <1>4, PlacesAre
<1>5. CASE job[o] = "enable"
  BY <1>1, <1>5, PlacesAre
<1>6. CASE job[o] = "disable"
  BY <1>1, <1>6, PlacesAre
<1>7. CASE job[o] = "scan"
  BY <1>1, <1>7, PlacesAre
<1>8. CASE job[o] \in {"call", "none"}
  BY <1>1, <1>8, PlacesAre
<1> QED
  BY <1>1, <1>2, <1>3, <1>4, <1>5, <1>6, <1>7, <1>8

\* Every step of a command is one of these.
Moves(o) == Steps(o) \/ Quarantine(o)

\* The step of a command moves it to a place of its job, or leaves it where it is.
LEMMA StepGoes ==
  ASSUME PluginTypeOK, NEW o \in Cmd, Moves(o)
  PROVE  /\ desktopUp /\ desktopUp' = desktopUp /\ job' = job
         /\ at' = [at EXCEPT ![o] = at'[o]]
         /\ at'[o] \in {"idle", "done"} \cup Places(job[o])
<1> USE JobOfPlace, PlacesAre DEF PluginTypeOK, Go, runVars, jobVars
<1>1. CASE Installs(o)
  <2>1. CASE CheckVersion(o)
    BY <2>1 DEF CheckVersion
  <2>2. CASE Stage(o)
    BY <2>2 DEF Stage
  <2>3. CASE MoveOut(o)
    BY <2>3 DEF MoveOut
  <2>4. CASE MoveIn(o)
    BY <2>4 DEF MoveIn
  <2>5. CASE LoadDir(o)
    <3>1. CASE Loads(o)
      BY <2>5, <3>1 DEF LoadDir, Loads
    <3>2. CASE FailsToLoad(o)
      BY <2>5, <3>2 DEF LoadDir, FailsToLoad
    <3> QED
      BY <2>5, <3>1, <3>2 DEF LoadDir
  <2>6. CASE Upsert(o)
    BY <2>6 DEF Upsert
  <2>7. CASE Prune(o) \/ Undo(o) \/ Restore(o)
    BY <2>7 DEF Prune, Undo, Restore
  <2> QED
    BY <1>1, <2>1, <2>2, <2>3, <2>4, <2>5, <2>6, <2>7 DEF Installs
<1>2. CASE Manages(o)
  <2>1. CASE PickBackup(o)
    BY <2>1 DEF PickBackup
  <2>2. CASE Exchange(o)
    BY <2>2 DEF Exchange
  <2>3. CASE ClearTrash(o)
    BY <2>3 DEF ClearTrash
  <2>4. CASE Remove(o)
    BY <2>4 DEF Remove
  <2>5. CASE ReadRow(o)
    BY <2>5 DEF ReadRow
  <2>6. CASE SetEnabled(o)
    BY <2>6 DEF SetEnabled
  <2>7. CASE ListDirs(o) \/ Sweep(o)
    BY <2>7 DEF ListDirs, Sweep
  <2> QED
    BY <1>2, <2>1, <2>2, <2>3, <2>4, <2>5, <2>6, <2>7 DEF Manages
<1>3. CASE Calls(o) \/ Quarantine(o)
  <2>1. CASE Look(o)
    BY <2>1 DEF Look
  <2>2. CASE Enter(o)
    BY <2>2 DEF Enter
  <2>3. CASE Leave(o)
    BY <2>3 DEF Leave, PluginTypeOK
  <2>4. CASE Answered(o) \/ Expel(o) \/ Quarantine(o)
    BY <2>4 DEF Answered, Expel, Quarantine, TimesOut
  <2> QED
    BY <1>3, <2>1, <2>2, <2>3, <2>4 DEF Calls
<1>4. CASE Locks(o)
  <2>1. CASE LockMap(o) \/ LockCall(o)
    BY <2>1 DEF LockMap, LockCall
  <2>2. CASE UnloadHandle(o)
    BY <2>2 DEF UnloadHandle, AfterUnload
  <2>3. CASE PutLoaded(o)
    BY <2>3 DEF PutLoaded
  <2> QED
    BY <1>4, <2>1, <2>2, <2>3 DEF Locks
<1> QED
  BY <1>1, <1>2, <1>3, <1>4 DEF Moves, Steps

-----------------------------------------------------------------------------
(* The parts of the type: of the files, and of the rest. *)
FilesType ==
  /\ target \in Version \cup {Absent} /\ trash \in Version \cup {Absent}
  /\ backups \in Seq(Version) /\ oldTrash \subseteq Version
  /\ version \in [Cmd -> Version \cup {Absent}] /\ saved \in [Cmd -> Version \cup {Absent}]
  /\ owed \in BOOLEAN /\ givenUp \in BOOLEAN /\ raced \in BOOLEAN

MemoryType ==
  /\ desktopUp \in BOOLEAN /\ dbRow \in PluginRow \cup {NoRow}
  /\ mapLock \in Cmd \cup {Absent} /\ callLock \in Cmd \cup {Absent}
  /\ table \in PluginHandle \cup {Absent} /\ quarantined \subseteq PluginHandle
  /\ built \in [PluginHandle -> Version \cup {Absent}]
  /\ held \in [Cmd -> PluginHandle \cup {Absent}]
  /\ inside \in [Cmd -> PluginHandle \cup {Absent}]

\* Steps of a command that leave the files alone, and those that only move it on.
TakesALock(o) == LockMap(o) \/ LockCall(o) \/ Enter(o)
OffTheFiles(o) ==
  \/ CheckVersion(o) \/ Stage(o) \/ Upsert(o) \/ ReadRow(o) \/ SetEnabled(o) \/ Sweep(o)
  \/ TakesALock(o) \/ Look(o) \/ Leave(o) \/ Answered(o) \/ Quarantine(o) \/ Expel(o)
  \/ UnloadHandle(o) \/ PutLoaded(o)

\* What such a step keeps.
LEMMA FilesAreLeft ==
  ASSUME NEW o \in Cmd, OffTheFiles(o)
  PROVE  UNCHANGED <<target, trash, backups, oldTrash, version, saved, owed, givenUp, raced>>
<1> USE DEF runVars, diskVars, jobVars, pluginHistory
<1>1. CASE CheckVersion(o) \/ Stage(o) \/ Upsert(o) \/ ReadRow(o) \/ SetEnabled(o) \/ Sweep(o)
  BY <1>1 DEF CheckVersion, Stage, Upsert, ReadRow, SetEnabled, Sweep
<1>2. CASE TakesALock(o)
  BY <1>2 DEF TakesALock, LockMap, LockCall, Enter
<1>3. CASE Look(o) \/ Leave(o) \/ Answered(o)
  BY <1>3 DEF Look, Leave, Answered
<1>4. CASE Quarantine(o) \/ Expel(o) \/ UnloadHandle(o) \/ PutLoaded(o)
  BY <1>4 DEF Quarantine, TimesOut, Expel, UnloadHandle, PutLoaded
<1> QED
  BY <1>1, <1>2, <1>3, <1>4 DEF OffTheFiles

\* The steps on the files, and those next to them.
LEMMA StepFilesType ==
  ASSUME PluginShape, NEW o \in Cmd, Moves(o) PROVE FilesType'
<1> USE DEF FilesType, runVars, diskVars, jobVars, pluginHistory
<1>1. FilesType
  BY DEF PluginShape, PluginTypeOK
<1>2. CASE OffTheFiles(o)
  BY <1>1, <1>2, FilesAreLeft
<1>3. CASE MoveOut(o)
  BY <1>1, <1>3, OneMore DEF MoveOut
<1>4. CASE MoveIn(o)
  BY <1>1, <1>4, WithoutOne, BackupsAreVersions DEF MoveIn, MovedBack, Restored
<1>5. CASE LoadDir(o)
  BY <1>1, <1>5 DEF LoadDir, Loads, FailsToLoad
<1>6. CASE Prune(o)
  BY <1>1, <1>6, BackupsAreVersions DEF Prune, Kept
<1>7. CASE Undo(o)
  BY <1>1, <1>7 DEF Undo
<1>8. CASE Restore(o)
  BY <1>1, <1>8, WithoutOne, BackupsAreVersions DEF Restore, MovedBack, Restored
<1>9. CASE PickBackup(o)
  BY <1>1, <1>9 DEF PickBackup
<1>10. CASE Exchange(o)
  BY <1>1, <1>10, WithoutOne DEF Exchange
<1>11. CASE ClearTrash(o)
  <2>1. givenUp' \in BOOLEAN
    <3>1. givenUp' = (givenUp \/ ~Good(target)) \/ givenUp' = givenUp
      BY <1>11 DEF ClearTrash
    <3>2. Good(target) \in BOOLEAN
      BY DEF Good
    <3> QED
      BY <1>1, <3>1, <3>2
  <2> QED
    BY <1>1, <1>11, <2>1, EmptySeq DEF ClearTrash
<1>12. CASE Remove(o)
  BY <1>1, <1>12, EmptySeq DEF Remove
<1>13. CASE ListDirs(o)
  BY <1>1, <1>13 DEF ListDirs
<1> QED
  BY <1>2, <1>3, <1>4, <1>5, <1>6, <1>7, <1>8, <1>9, <1>10, <1>11, <1>12, <1>13
     DEF Moves, Steps, Installs, Manages, Calls, Locks, OffTheFiles, TakesALock

LEMMA StepMemoryType ==
  ASSUME PluginShape, NEW o \in Cmd, Moves(o) PROVE MemoryType'
<1> USE DEF MemoryType, runVars, diskVars, lockVars, memoryVars, jobVars
<1>1. MemoryType /\ FilesType
  BY DEF PluginShape, PluginTypeOK, FilesType
<1>2. CASE CheckVersion(o) \/ Stage(o) \/ MoveOut(o) \/ MoveIn(o) \/ Prune(o) \/ Undo(o) \/ Restore(o)
  BY <1>1, <1>2 DEF CheckVersion, Stage, MoveOut, MoveIn, Prune, Undo, Restore
<1>3. CASE LoadDir(o)
  <2>1. CASE Loads(o)
    BY <1>1, <1>3, <2>1 DEF LoadDir, Loads, FilesType, PluginHandle
  <2>2. CASE FailsToLoad(o)
    <3>1. dbRow' \in PluginRow \cup {NoRow}
      BY <1>1, <2>2 DEF FailsToLoad, PluginRow, NoRow
    <3> QED
      BY <1>1, <1>3, <2>2, <3>1 DEF LoadDir, FailsToLoad
  <2> QED
    BY <1>3, <2>1, <2>2 DEF LoadDir
<1>4. CASE Upsert(o)
  <2>1. dbRow' \in PluginRow \cup {NoRow}
    <3>1. built[o] \in Version
      BY <1>4 DEF Upsert, PluginShape
    <3> DEFINE on == dbRow = NoRow \/ dbRow.enabled
    <3>2. on \in BOOLEAN
      BY <1>1 DEF PluginRow
    <3>3. dbRow' = [version |-> built[o], enabled |-> on] \/ dbRow' = dbRow
      BY <1>4 DEF Upsert
    <3> HIDE DEF on
    <3> QED
      BY <1>1, <3>1, <3>2, <3>3 DEF PluginRow
  <2> QED
    BY <1>1, <1>4, <2>1 DEF Upsert
<1>5. CASE PickBackup(o) \/ Exchange(o) \/ ClearTrash(o) \/ ReadRow(o)
  BY <1>1, <1>5 DEF PickBackup, Exchange, ClearTrash, ReadRow
<1>6. CASE Remove(o) \/ SetEnabled(o)
  BY <1>1, <1>6 DEF Remove, SetEnabled, PluginRow, NoRow
<1>7. CASE ListDirs(o) \/ Sweep(o)
  BY <1>1, <1>7 DEF ListDirs, Sweep, FilesType, PluginRow, NoRow
<1>8. CASE TakesALock(o)
  BY <1>1, <1>8 DEF TakesALock, LockMap, LockCall, Enter
<1>9. CASE Look(o) \/ Leave(o) \/ Answered(o)
  BY <1>1, <1>9 DEF Look, Leave, Answered
<1>10. CASE Quarantine(o)
  <2>1. held[o] \in PluginHandle
    BY <1>1, <1>10 DEF Quarantine, TimesOut, PluginShape
  <2> QED
    BY <1>1, <1>10, <2>1 DEF Quarantine, TimesOut
<1>11. CASE Expel(o)
  BY <1>1, <1>11 DEF Expel, PluginRow, NoRow
<1>12. CASE UnloadHandle(o) \/ PutLoaded(o)
  BY <1>1, <1>12 DEF UnloadHandle, PutLoaded, Unlocked
<1> QED
  BY <1>2, <1>3, <1>4, <1>5, <1>6, <1>7, <1>8, <1>9, <1>10, <1>11, <1>12
     DEF Moves, Steps, Installs, Manages, Calls, Locks, TakesALock

\* A step of a command leaves the others, and keeps what is in the quarantine.
LEMMA StepIsItsOwn ==
  ASSUME PluginShape, NEW o \in Cmd, Moves(o)
  PROVE  /\ \A p \in Cmd \ {o} : held'[p] = held[p] /\ inside'[p] = inside[p] /\ built'[p] = built[p]
         /\ quarantined \subseteq quarantined'
<1> USE DEF memoryVars, jobVars
<1>1. MemoryType
  BY DEF PluginShape, PluginTypeOK, MemoryType
<1>2. \A p \in Cmd : p \in PluginHandle
  BY DEF PluginHandle
<1>3. CASE LoadDir(o)
  BY <1>1, <1>2, <1>3 DEF MemoryType, LoadDir, Loads, FailsToLoad
<1>4. CASE Upsert(o) \/ SetEnabled(o) \/ PutLoaded(o) \/ Answered(o) \/ Look(o) \/ Leave(o)
  BY <1>1, <1>2, <1>4 DEF MemoryType, Upsert, SetEnabled, PutLoaded, Answered, Look, Leave
<1>5. CASE Quarantine(o)
  BY <1>1, <1>2, <1>5 DEF MemoryType, Quarantine, TimesOut
<1>6. CASE UNCHANGED <<held, inside, built, quarantined>>
  BY <1>6
<1>7. CASE \/ CheckVersion(o) \/ Stage(o) \/ MoveOut(o) \/ MoveIn(o) \/ Prune(o) \/ Undo(o)
           \/ Restore(o) \/ UnloadHandle(o) \/ TakesALock(o) \/ Expel(o)
  BY <1>6, <1>7 DEF CheckVersion, Stage, MoveOut, MoveIn, Prune, Undo, Restore, UnloadHandle,
                    TakesALock, LockMap, LockCall, Enter, Expel
<1>8. CASE Manages(o) /\ ~SetEnabled(o)
  BY <1>6, <1>8 DEF Manages, PickBackup, Exchange, ClearTrash, Remove, ReadRow, ListDirs, Sweep
<1> QED
  BY <1>3, <1>4, <1>5, <1>7, <1>8 DEF Moves, Steps, Installs, Manages, Calls, Locks, TakesALock

\* Where the step of a command can take it: to the write of a row with a version, to
\* the wait with an Arc, and nowhere when it only takes a lock.
LEMMA StepArrives ==
  ASSUME PluginShape, NEW o \in Cmd, Moves(o)
  PROVE  /\ at'[o] = "upsert" => built'[o] \in Version
         /\ at'[o] = "wait" => held'[o] # Absent
<1> USE DEF memoryVars, jobVars, Go
<1>1. MemoryType /\ FilesType /\ at = [p \in Cmd |-> at[p]]
  BY DEF PluginShape, PluginTypeOK, MemoryType, FilesType
<1>2. o \in PluginHandle
  BY DEF PluginHandle
<1>3. CASE LoadDir(o)
  BY <1>1, <1>2, <1>3 DEF MemoryType, FilesType, LoadDir, Loads, FailsToLoad
<1>4. CASE Look(o)
  BY <1>1, <1>4 DEF MemoryType, Look
<1>5. CASE TakesALock(o) \/ Leave(o)
  BY <1>1, <1>5 DEF PluginShape, TakesALock, LockMap, LockCall, Enter, Leave
<1>6. CASE at'[o] \notin {"upsert", "wait"}
  BY <1>6
<1>7. CASE CheckVersion(o) \/ Stage(o) \/ MoveOut(o) \/ MoveIn(o) \/ Upsert(o) \/ Prune(o)
  BY <1>1, <1>6, <1>7 DEF CheckVersion, Stage, MoveOut, MoveIn, Upsert, Prune
<1>8. CASE Undo(o) \/ Restore(o) \/ PickBackup(o) \/ Exchange(o) \/ ClearTrash(o) \/ Remove(o)
  BY <1>1, <1>6, <1>8 DEF Undo, Restore, PickBackup, Exchange, ClearTrash, Remove
<1>9. CASE ReadRow(o) \/ SetEnabled(o) \/ ListDirs(o) \/ Sweep(o) \/ Answered(o) \/ Expel(o)
  BY <1>1, <1>6, <1>9 DEF ReadRow, SetEnabled, ListDirs, Sweep, Answered, Expel
<1>10. CASE Quarantine(o) \/ PutLoaded(o)
  BY <1>1, <1>6, <1>10 DEF Quarantine, TimesOut, PutLoaded
<1>11. CASE UnloadHandle(o)
  <2>1. AfterUnload(o) \in {"stage", "pick", "remove", "disable"}
    BY <1>11, JobOfPlace DEF UnloadHandle, AfterUnload, PluginShape
  <2> QED
    BY <1>1, <1>6, <1>11, <2>1 DEF UnloadHandle
<1> QED
  BY <1>3, <1>4, <1>5, <1>7, <1>8, <1>9, <1>10, <1>11
     DEF Moves, Steps, Installs, Manages, Calls, Locks, TakesALock

LEMMA StepShape ==
  ASSUME PluginShape, NEW o \in Cmd, Moves(o) PROVE PluginShape'
<1>1. PluginTypeOK
  BY DEF PluginShape
<1>2. /\ desktopUp' /\ job' = job /\ at' = [at EXCEPT ![o] = at'[o]]
      /\ at'[o] \in {"idle", "done"} \cup Places(job[o])
  BY <1>1, StepGoes
<1>3. /\ at' = [p \in Cmd |-> at'[p]] /\ \A p \in Cmd \ {o} : at'[p] = at[p]
  BY <1>1, <1>2 DEF PluginTypeOK
<1>4. \A p \in Cmd : at'[p] \in {"idle", "done"} \cup Places(job'[p])
  BY <1>1, <1>2, <1>3 DEF PluginTypeOK
<1>5. job' \in [Cmd -> Job \cup {"none"}]
  BY <1>1, <1>2 DEF PluginTypeOK
<1>6. PluginTypeOK'
  BY <1>3, <1>4, <1>5, StepFilesType, StepMemoryType DEF PluginTypeOK, FilesType, MemoryType
<1>7. \A p \in Cmd : at'[p] = "upsert" => built'[p] \in Version
  BY <1>3, StepArrives, StepIsItsOwn DEF PluginShape
<1>8. \A p \in Cmd : at'[p] = "wait" => held'[p] # Absent
  BY <1>3, StepArrives, StepIsItsOwn DEF PluginShape
<1> QED
  BY <1>2, <1>6, <1>7, <1>8 DEF PluginShape

\* A command begins at a place of its job.
Begins(o, k, v) == (v # Absent <=> k = "install") /\ BeginJob(o, k, v)

LEMMA BeginShape ==
  ASSUME PluginShape, NEW o \in Cmd, NEW k \in Job, NEW v \in Version \cup {Absent}, Begins(o, k, v)
  PROVE  PluginShape'
<1>1. PluginTypeOK
  BY DEF PluginShape
<1>2. FirstStep(k) \in Places(k) \ {"upsert", "wait"}
  BY PlacesAre DEF FirstStep, Job
<1>3. /\ desktopUp /\ at[o] = "idle" /\ desktopUp' = desktopUp
      /\ job' = [job EXCEPT ![o] = k] /\ at' = [at EXCEPT ![o] = FirstStep(k)]
      /\ version' = [version EXCEPT ![o] = v]
      /\ UNCHANGED <<target, backups, trash, oldTrash, dbRow, mapLock, callLock, table, built,
                     quarantined, saved, held, inside, owed, givenUp>>
      /\ raced' \in BOOLEAN
  BY <1>1 DEF Begins, BeginJob, Go, runVars, diskVars, lockVars, memoryVars, PluginTypeOK
<1>4. at' = [p \in Cmd |-> at'[p]] /\ \A p \in Cmd : at'[p] \in {"idle", "done"} \cup Places(job'[p])
  BY <1>1, <1>2, <1>3 DEF PluginTypeOK
<1>5. job' \in [Cmd -> Job \cup {"none"}] /\ version' \in [Cmd -> Version \cup {Absent}]
  BY <1>1, <1>3 DEF PluginTypeOK
<1>6. PluginTypeOK'
  BY <1>1, <1>3, <1>4, <1>5 DEF PluginTypeOK
<1>7. \A p \in Cmd : at'[p] \in {"upsert", "wait"} => at[p] = at'[p]
  BY <1>1, <1>2, <1>3 DEF PluginTypeOK
<1> QED
  BY <1>3, <1>6, <1>7 DEF PluginShape

LEMMA HaltShape == ASSUME PluginShape, Halt PROVE PluginShape'
<1>1. PluginTypeOK
  BY DEF PluginShape
<1>2. at' = [p \in Cmd |-> at'[p]] /\ \A p \in Cmd : at'[p] \in {"idle", "done"}
  BY DEF Halt
<1>3. MemoryType'
  BY <1>1 DEF Halt, MemoryType, PluginTypeOK
<1>4. FilesType'
  BY <1>1 DEF Halt, FilesType, PluginTypeOK, pluginHistory
<1>5. PluginTypeOK'
  BY <1>1, <1>2, <1>3, <1>4 DEF PluginTypeOK, MemoryType, FilesType, Halt
<1> QED
  BY <1>2, <1>5 DEF PluginShape, Busy

LEMMA StartShape == ASSUME PluginShape, StartUp PROVE PluginShape'
<1>1. PluginTypeOK
  BY DEF PluginShape
<1>2. UNCHANGED <<job, at, held, inside, quarantined, mapLock, callLock, version, saved, target,
                  backups, trash, oldTrash, raced>>
  BY DEF StartUp, lockVars, jobVars
<1>3. owed' \in BOOLEAN /\ givenUp' \in BOOLEAN
  <2>1. owed' = (owed \/ Good(target)) /\ givenUp' = (givenUp /\ ~Good(target))
    BY DEF StartUp
  <2>2. Good(target) \in BOOLEAN
    BY DEF Good
  <2> QED
    BY <1>1, <2>1, <2>2 DEF PluginTypeOK
<1>4. dbRow' \in PluginRow \cup {NoRow}
  <2> DEFINE on == dbRow = NoRow \/ dbRow.enabled
  <2>1. on \in BOOLEAN
    BY <1>1 DEF PluginRow, PluginTypeOK
  <2>2. dbRow' = IF target = Absent THEN NoRow ELSE [version |-> target, enabled |-> on]
    BY DEF StartUp
  <2> HIDE DEF on
  <2> QED
    BY <1>1, <2>1, <2>2 DEF PluginRow, PluginTypeOK
<1>5. table' \in PluginHandle \cup {Absent} /\ built' \in [PluginHandle -> Version \cup {Absent}]
  BY <1>1 DEF StartUp, PluginHandle, PluginTypeOK
<1>6. \A o \in Cmd : built'[o] = built[o]
  BY <1>1, PluginAssumption DEF StartUp, PluginHandle, PluginTypeOK
<1>7. PluginTypeOK' /\ desktopUp'
  BY <1>1, <1>2, <1>3, <1>4, <1>5 DEF PluginTypeOK, StartUp
<1> QED
  BY <1>2, <1>6, <1>7 DEF PluginShape

LEMMA InitShape == PluginInit => PluginShape
<1> SUFFICES ASSUME PluginInit PROVE PluginShape
  OBVIOUS
<1> USE NoVersion DEF PluginInit
<1>1. target \in Version \cup {Absent} /\ backups \in Seq(Version)
  <2>1. \A v \in Version : \A w \in 1..(v - 1) : v < MaxVersion => <<w>> \in Seq(Version)
    BY PluginAssumption DEF Version
  <2> QED
    BY <2>1, EmptySeq
<1>2. dbRow \in PluginRow \cup {NoRow} /\ table \in PluginHandle \cup {Absent}
  BY DEF PluginRow, PluginHandle
<1>3. built \in [PluginHandle -> Version \cup {Absent}]
  BY <1>1
<1>4. owed \in BOOLEAN /\ givenUp \in BOOLEAN
  OBVIOUS
<1>5. PluginTypeOK
  BY <1>1, <1>2, <1>3, <1>4 DEF PluginTypeOK
<1> QED
  BY <1>5 DEF PluginShape

LEMMA NextShape == PluginShape /\ [PluginNext]_pluginVars => PluginShape'
<1> SUFFICES ASSUME PluginShape, [PluginNext]_pluginVars PROVE PluginShape'
  OBVIOUS
<1>1. CASE UNCHANGED pluginVars
  BY <1>1 DEF pluginVars, runVars, diskVars, lockVars, memoryVars, pluginHistory, PluginShape,
              PluginTypeOK, Busy
<1>2. CASE PluginNext
  BY <1>2, BeginShape, StepShape, HaltShape, StartShape DEF PluginNext, Begins, Moves
<1> QED
  BY <1>1, <1>2

-----------------------------------------------------------------------------
(* The calls keep their library. *)
LEMMA StepKeepsCalls ==
  ASSUME PluginShape, NEW o \in Cmd, Moves(o), CallKeeps(o) PROVE CallKeeps(o)'
<1> USE DEF memoryVars, jobVars, Go
<1>1. MemoryType /\ at = [p \in Cmd |-> at[p]]
  BY DEF PluginShape, PluginTypeOK, MemoryType
<1>2. CASE TakesALock(o)
  BY <1>2 DEF CallKeeps, TakesALock, LockMap, LockCall, Enter
<1>3. CASE Look(o)
  BY <1>1, <1>3 DEF CallKeeps, MemoryType, Look
<1>4. CASE Leave(o)
  BY <1>1, <1>4 DEF CallKeeps, MemoryType, Leave
<1>5. CASE Quarantine(o)
  BY <1>1, <1>5 DEF CallKeeps, MemoryType, Quarantine, TimesOut
<1>6. CASE Expel(o)
  BY <1>1, <1>6 DEF CallKeeps, Expel
<1>7. CASE at[o] \notin {"wait", "expel", "done"} /\ inside' = inside
  BY <1>7 DEF CallKeeps
<1>8. CASE CheckVersion(o) \/ Stage(o) \/ MoveOut(o) \/ MoveIn(o) \/ LoadDir(o) \/ Upsert(o)
  BY <1>7, <1>8 DEF CheckVersion, Stage, MoveOut, MoveIn, LoadDir, Upsert
<1>9. CASE Prune(o) \/ Undo(o) \/ Restore(o) \/ PickBackup(o) \/ Exchange(o) \/ ClearTrash(o)
  BY <1>7, <1>9 DEF Prune, Undo, Restore, PickBackup, Exchange, ClearTrash
<1>10. CASE Remove(o) \/ ReadRow(o) \/ SetEnabled(o) \/ ListDirs(o) \/ Sweep(o) \/ Answered(o)
  BY <1>7, <1>10 DEF Remove, ReadRow, SetEnabled, ListDirs, Sweep, Answered
<1>11. CASE UnloadHandle(o) \/ PutLoaded(o)
  BY <1>7, <1>11 DEF UnloadHandle, PutLoaded
<1> QED
  BY <1>2, <1>3, <1>4, <1>5, <1>6, <1>8, <1>9, <1>10, <1>11
     DEF Moves, Steps, Installs, Manages, Calls, Locks, TakesALock

LEMMA NextCallsInv == PluginShape /\ CallsInv /\ [PluginNext]_pluginVars => CallsInv'
<1> SUFFICES ASSUME PluginShape, CallsInv, [PluginNext]_pluginVars, NEW o \in Cmd PROVE CallKeeps(o)'
  BY DEF CallsInv
<1>1. CallKeeps(o) /\ PluginTypeOK
  BY DEF CallsInv, PluginShape
<1>2. CASE UNCHANGED <<at, held, inside, quarantined>>
  BY <1>1, <1>2 DEF CallKeeps
<1>3. ASSUME NEW p \in Cmd, Moves(p) PROVE CallKeeps(o)'
  <2>1. CASE p = o
    BY <1>1, <1>3, <2>1, StepKeepsCalls
  <2>2. CASE p # o
    <3>1. at'[o] = at[o]
      BY <1>1, <1>3, <2>2, StepGoes DEF PluginTypeOK
    <3>2. held'[o] = held[o] /\ inside'[o] = inside[o] /\ quarantined \subseteq quarantined'
      BY <1>3, <2>2, StepIsItsOwn
    <3> QED
      BY <1>1, <3>1, <3>2 DEF CallKeeps
  <2> QED
    BY <2>1, <2>2
<1>4. ASSUME NEW p \in Cmd, NEW k \in Job, NEW v \in Version \cup {Absent}, Begins(p, k, v)
      PROVE  CallKeeps(o)'
  <2>1. /\ UNCHANGED <<held, inside, quarantined>> /\ at[p] = "idle"
        /\ at' = [at EXCEPT ![p] = FirstStep(k)]
    BY <1>4 DEF Begins, BeginJob, Go, memoryVars
  <2>2. o # p => at'[o] = at[o]
    BY <1>1, <2>1 DEF PluginTypeOK
  <2> QED
    BY <1>1, <2>1, <2>2 DEF CallKeeps
<1>5. CASE Halt
  BY <1>5 DEF Halt, CallKeeps
<1>6. CASE StartUp
  BY <1>2, <1>6 DEF StartUp, jobVars
<1>7. CASE UNCHANGED pluginVars
  BY <1>2, <1>7 DEF pluginVars, memoryVars
<1> QED
  BY <1>3, <1>4, <1>5, <1>6, <1>7 DEF PluginNext, Begins, Moves

-----------------------------------------------------------------------------
(* The user keeps a copy. *)

\* A command that is not at work on the files leaves them.
LEMMA OthersLeaveTheFiles ==
  ASSUME PluginShape, NEW o \in Cmd, Moves(o), ~Working(o)
  PROVE  UNCHANGED <<target, trash, backups, oldTrash, owed, givenUp>>
<1>1. PluginTypeOK
  BY DEF PluginShape
<1>2. CASE OffTheFiles(o)
  BY <1>2, FilesAreLeft
<1>3. CASE LoadDir(o)
  <2>1. job[o] # "install"
    BY <1>3 DEF LoadDir, Working, FileJob, Busy
  <2> QED
    BY <1>1, <1>3, <2>1, Zenon DEF LoadDir, Loads, FailsToLoad, runVars, PluginTypeOK
<1>4. CASE ListDirs(o)
  BY <1>4 DEF ListDirs, runVars, pluginHistory
<1>5. CASE Busy(o) /\ job[o] \in FileJob
  BY <1>5 DEF Working
<1>6. CASE MoveOut(o) \/ MoveIn(o) \/ Prune(o) \/ Undo(o) \/ Restore(o)
  BY <1>1, <1>5, <1>6, JobOfPlace DEF MoveOut, MoveIn, Prune, Undo, Restore, Busy, FileJob
<1>7. CASE PickBackup(o) \/ Exchange(o) \/ ClearTrash(o) \/ Remove(o)
  BY <1>1, <1>5, <1>7, JobOfPlace DEF PickBackup, Exchange, ClearTrash, Remove, Busy, FileJob
<1> QED
  BY <1>2, <1>3, <1>4, <1>6, <1>7 DEF Moves, Steps, Installs, Manages, Calls, Locks, OffTheFiles, TakesALock

\* No step makes a command busy that was not.
LEMMA StepsAreOfBusy ==
  ASSUME PluginShape, NEW o \in Cmd, Moves(o), NEW p \in Cmd, Working(p)' PROVE Working(p)
<1>1. PluginTypeOK
  BY DEF PluginShape
<1>2. job' = job /\ at' = [at EXCEPT ![o] = at'[o]]
  BY <1>1, StepGoes
<1>3. at'[o] = at[o] \/ at[o] \notin {"idle", "done"}
  <2>1. CASE TakesALock(o) \/ Leave(o)
    BY <1>1, <2>1 DEF TakesALock, LockMap, LockCall, Enter, Leave, Go, PluginTypeOK
  <2>2. CASE Installs(o)
    BY <2>2 DEF Installs, CheckVersion, Stage, MoveOut, MoveIn, LoadDir, Upsert, Prune, Undo, Restore
  <2>3. CASE Manages(o)
    BY <2>3 DEF Manages, PickBackup, Exchange, ClearTrash, Remove, ReadRow, SetEnabled, ListDirs, Sweep
  <2>4. CASE Look(o) \/ Answered(o) \/ Expel(o) \/ Quarantine(o) \/ UnloadHandle(o) \/ PutLoaded(o)
    BY <2>4 DEF Look, Answered, Expel, Quarantine, TimesOut, UnloadHandle, PutLoaded
  <2> QED
    BY <2>1, <2>2, <2>3, <2>4 DEF Moves, Steps, Calls, Locks, TakesALock
<1> QED
  BY <1>1, <1>2, <1>3 DEF Working, Busy, PluginTypeOK

\* What moves out is in the backups, what moves back was there.
LEMMA MoveOutKeeps ==
  ASSUME FilesType, NEW o \in Cmd, MoveOut(o)
  PROVE  Backups \subseteq Backups' /\ (target # Absent => target \in Backups')
<1>1. CASE target = Absent
  BY <1>1 DEF MoveOut, Backups
<1>2. CASE target # Absent
  <2>1. target \in Version /\ backups \in Seq(Version)
    BY <1>2 DEF FilesType
  <2>2. backups' = Append(backups, target)
    BY <1>2 DEF MoveOut
  <2> QED
    BY <2>1, <2>2, OneMore DEF Backups
<1> QED
  BY <1>1, <1>2

LEMMA TakenFromBackups ==
  ASSUME FilesType, NEW v \in Backups, backups' = Without(v) PROVE Backups \subseteq {v} \cup Backups'
<1>1. Backups \subseteq {v} \cup {Without(v)[i] : i \in DOMAIN Without(v)}
  BY WithoutOne DEF FilesType
<1> QED
  BY <1>1 DEF Backups

LEMMA MovedBackKeeps ==
  ASSUME FilesType, NEW o \in Cmd, MovedBack(o)
  PROVE  ({target} \cup Backups) \ {Absent} \subseteq {target'} \cup Backups'
<1>1. CASE Restored(o)
  BY <1>1, TakenFromBackups DEF Restored, MovedBack
<1>2. CASE ~Restored(o)
  BY <1>2 DEF MovedBack, Backups
<1> QED
  BY <1>1, <1>2

\* The steps of the command at work on the files.
LEMMA WorkKeepsCopies ==
  ASSUME PluginShape, CopiesInv, ~raced, NEW o \in Cmd, Moves(o), Working(o)
  PROVE  (Owed' => Good(target') \/ Spare') /\ FilesInv(o)'
<1>1. PluginTypeOK /\ FilesType /\ at = [p \in Cmd |-> at[p]]
  BY DEF PluginShape, PluginTypeOK, FilesType
<1>2. (Owed => Good(target) \/ Spare) /\ FilesInv(o)
  BY DEF CopiesInv
<1>3. job' = job
  BY <1>1, StepGoes
<1> USE JobOfPlace, NoVersion DEF Go, runVars, diskVars, jobVars, pluginHistory, Owed
<1>4. CASE /\ UNCHANGED <<target, trash, backups, oldTrash, owed, givenUp>>
           /\ at'[o] \notin {"place", "exchange", "load", "undo", "upsert", "put", "prune", "backups"}
  BY <1>2, <1>4 DEF FilesInv, Spare, Backups
<1>5. CASE TakesALock(o) \/ Leave(o)
  <2>1. at' = at /\ UNCHANGED <<target, trash, backups, oldTrash, owed, givenUp>>
    BY <1>1, <1>5 DEF TakesALock, LockMap, LockCall, Enter, Leave, Working, FileJob
  <2> QED
    BY <1>2, <1>3, <2>1 DEF FilesInv, Spare, Backups
<1>6. CASE CheckVersion(o) \/ Stage(o) \/ ReadRow(o) \/ SetEnabled(o) \/ Sweep(o) \/ ListDirs(o)
  BY <1>1, <1>4, <1>6 DEF CheckVersion, Stage, ReadRow, SetEnabled, Sweep, ListDirs, Working, FileJob
<1>7. CASE Look(o) \/ Answered(o) \/ Quarantine(o) \/ Expel(o)
  BY <1>1, <1>7 DEF Look, Answered, Quarantine, TimesOut, Expel, Working, FileJob
<1>8. CASE UnloadHandle(o)
  <2>1. AfterUnload(o) \in {"stage", "pick", "remove", "disable"}
    BY <1>1, <1>8 DEF UnloadHandle, AfterUnload
  <2> QED
    BY <1>1, <1>4, <1>8, <2>1 DEF UnloadHandle
<1>9. CASE PutLoaded(o) \/ Upsert(o)
  <2>1. /\ UNCHANGED <<target, trash, backups, oldTrash, owed, givenUp>>
        /\ at[o] \in {"put", "upsert"} /\ at'[o] \in {"put", "prune", "sweep", "done"}
    BY <1>1, <1>9 DEF PutLoaded, Upsert
  <2> QED
    BY <1>2, <1>3, <2>1 DEF FilesInv, Spare, Backups
<1>10. CASE MoveOut(o)
  <2>1. /\ target' = Absent /\ UNCHANGED <<trash, oldTrash, owed, givenUp>> /\ at'[o] = "place"
        /\ job'[o] = "install"
    BY <1>1, <1>3, <1>10 DEF MoveOut
  <2>2. Backups \subseteq Backups' /\ (target # Absent => target \in Backups')
    BY <1>1, <1>10, MoveOutKeeps
  <2> QED
    BY <1>2, <2>1, <2>2 DEF FilesInv, Spare
<1>11. CASE MoveIn(o)
  <2>1. UNCHANGED <<trash, oldTrash, owed, givenUp>> /\ target = Absent /\ job'[o] = "install"
    BY <1>1, <1>2, <1>3, <1>11 DEF MoveIn, FilesInv
  <2>2. CASE backups' = backups /\ at'[o] = "load"
    BY <1>2, <2>1, <2>2 DEF FilesInv, Spare, Backups
  <2>3. CASE MovedBack(o) /\ at'[o] = "done"
    BY <1>1, <1>2, <2>1, <2>3, MovedBackKeeps DEF FilesInv, Spare
  <2> QED
    BY <1>1, <1>11, <2>2, <2>3 DEF MoveIn
<1>12. CASE LoadDir(o)
  <2>1. UNCHANGED <<target, trash, oldTrash, backups>>
    BY <1>12 DEF LoadDir
  <2>2. CASE Loads(o)
    <3>1. Good(target)
      BY <1>1, <2>2 DEF Loads, FilesType, Good
    <3>2. at'[o] \in {"enable", "put", "upsert"}
      BY <1>1, <2>2 DEF Loads
    <3> QED
      BY <2>1, <3>1, <3>2 DEF FilesInv
  <2>3. CASE FailsToLoad(o)
    <3>1. owed' = owed /\ givenUp' = givenUp
      BY <2>3 DEF FailsToLoad
    <3>2. \/ at'[o] = "undo" /\ at[o] = "load"
          \/ at'[o] \in {"put", "done"} /\ (at'[o] = "put" => job[o] = "scan")
      BY <1>1, <2>3 DEF FailsToLoad
    <3> QED
      BY <1>2, <1>3, <2>1, <3>1, <3>2 DEF FilesInv, Spare, Backups
  <2> QED
    BY <1>12, <2>2, <2>3 DEF LoadDir
<1>13. CASE Prune(o)
  <2>1. target' = target /\ Good(target) /\ at'[o] = "done"
    BY <1>1, <1>2, <1>13 DEF Prune, FilesInv
  <2> QED
    BY <2>1 DEF FilesInv
<1>14. CASE Undo(o)
  <2>1. /\ UNCHANGED <<trash, oldTrash, backups, owed, givenUp>> /\ at'[o] \in {"restore", "done"}
        /\ Owed => Spare
    BY <1>1, <1>2, <1>14 DEF Undo, FilesInv
  <2> QED
    BY <2>1 DEF FilesInv, Spare, Backups
<1>15. CASE Restore(o)
  <2>1. UNCHANGED <<trash, oldTrash, owed, givenUp>> /\ at'[o] \in {"reload", "done"} /\ MovedBack(o)
    BY <1>1, <1>15 DEF Restore
  <2> QED
    BY <1>1, <1>2, <2>1, MovedBackKeeps DEF FilesInv, Spare
<1>16. CASE PickBackup(o)
  <2>1. /\ UNCHANGED <<oldTrash, owed, givenUp, backups>> /\ at'[o] \in {"exchange", "done"}
        /\ \/ target' = Absent /\ trash' = (IF target = Absent THEN trash ELSE target)
              /\ (target = Absent \/ trash = Absent)
           \/ UNCHANGED <<target, trash>> /\ at'[o] = "done"
    BY <1>1, <1>16 DEF PickBackup
  <2> QED
    BY <1>2, <2>1 DEF FilesInv, Spare, Backups
<1>17. CASE Exchange(o)
  <2>1. UNCHANGED <<oldTrash, owed, givenUp>> /\ at'[o] \in {"clean", "done"} /\ target = Absent
    BY <1>1, <1>2, <1>17 DEF Exchange, FilesInv
  <2>2. CASE /\ version[o] \in Backups /\ target' = version[o]
             /\ backups' = Without(version[o]) /\ trash' = trash
    BY <1>1, <1>2, <2>1, <2>2, TakenFromBackups DEF FilesInv, Spare
  <2>3. CASE target' = trash /\ backups' = backups
    BY <1>2, <2>1, <2>3 DEF FilesInv, Spare, Backups
  <2> QED
    BY <1>17, <2>2, <2>3 DEF Exchange
<1>18. CASE ClearTrash(o)
  <2>1. /\ target' = target /\ oldTrash' = oldTrash /\ job'[o] = "rollback"
        /\ at'[o] \in {"load", "done"}
        /\ owed' = owed
        /\ \/ givenUp' = (givenUp \/ ~Good(target))
           \/ UNCHANGED <<trash, backups, givenUp>>
    BY <1>1, <1>3, <1>18 DEF ClearTrash
  <2>2. FilesInv(o)'
    BY <1>2, <2>1 DEF FilesInv
  <2>3. CASE UNCHANGED <<trash, backups, givenUp>>
    BY <1>2, <2>1, <2>2, <2>3 DEF Spare, Backups
  <2>4. CASE givenUp' = (givenUp \/ ~Good(target))
    <3>1. Owed' => Good(target)
      BY <2>4
    <3> QED
      BY <2>1, <2>2, <3>1
  <2> QED
    BY <2>1, <2>2, <2>3, <2>4
<1>19. CASE Remove(o)
  <2>1. /\ UNCHANGED <<trash, oldTrash>> /\ at'[o] \in {"backups", "delete", "done"}
        /\ \/ ~Owed'
           \/ at'[o] = "done" /\ UNCHANGED <<target, backups, owed, givenUp>>
    BY <1>1, <1>2, <1>19 DEF Remove, FilesInv
  <2> QED
    BY <1>2, <2>1 DEF FilesInv, Spare, Backups
<1> QED
  BY <1>5, <1>6, <1>7, <1>8, <1>9, <1>10, <1>11, <1>12, <1>13, <1>14, <1>15, <1>16, <1>17, <1>18, <1>19
     DEF Moves, Steps, Installs, Manages, Calls, Locks, TakesALock

LEMMA NextCopiesInv == PluginShape /\ CopiesInv /\ [PluginNext]_pluginVars => CopiesInv'
<1> SUFFICES ASSUME PluginShape, CopiesInv, [PluginNext]_pluginVars, ~raced'
             PROVE  /\ Owed' => Good(target') \/ Spare'
                    /\ \A p \in Cmd : Working(p)' =>
                         FilesInv(p)' /\ \A q \in Cmd : Working(q)' => q = p
  BY DEF CopiesInv
<1>1. PluginTypeOK
  BY DEF PluginShape
<1>2. CASE UNCHANGED pluginVars
  BY <1>2 DEF Owed, pluginVars, runVars, diskVars, pluginHistory, CopiesInv, FilesInv, Working, Busy,
              Spare, Backups
<1>3. ASSUME NEW o \in Cmd, Moves(o)
      PROVE  /\ Owed' => Good(target') \/ Spare'
             /\ \A p \in Cmd : Working(p)' =>
                  FilesInv(p)' /\ \A q \in Cmd : Working(q)' => q = p
  <2>1. ~raced /\ job' = job /\ at' = [at EXCEPT ![o] = at'[o]]
    <3>1. ~raced
      <4>1. CASE LoadDir(o)
        BY <4>1 DEF LoadDir
      <4>2. CASE OffTheFiles(o)
        BY <4>2, FilesAreLeft
      <4>3. CASE Installs(o) \/ Manages(o)
        BY <4>1, <4>2, <4>3 DEF Installs, Manages, OffTheFiles, MoveOut, MoveIn, Prune, Undo,
           Restore, PickBackup, Exchange, ClearTrash, Remove, ListDirs, pluginHistory
      <4> QED
        BY <1>3, <4>2, <4>3 DEF Moves, Steps, Calls, Locks, OffTheFiles, TakesALock
    <3> QED
      BY <1>1, <1>3, <3>1, StepGoes
  <2>2. \A p, q \in Cmd : Working(p)' /\ Working(q)' => Working(p) /\ q = p
    BY <1>3, <2>1, StepsAreOfBusy DEF CopiesInv
  <2>3. CASE Working(o)
    <3>1. (Owed' => Good(target') \/ Spare') /\ FilesInv(o)'
      BY <1>3, <2>1, <2>3, WorkKeepsCopies
    <3>2. \A p \in Cmd : Working(p)' => p = o
      BY <2>1, <2>2, <2>3 DEF CopiesInv
    <3> QED
      BY <2>2, <3>1, <3>2
  <2>4. CASE ~Working(o)
    <3>1. UNCHANGED <<target, trash, backups, oldTrash, owed, givenUp>>
      BY <1>3, <2>4, OthersLeaveTheFiles
    <3>2. Owed' => Good(target') \/ Spare'
      BY <2>1, <3>1 DEF Owed, CopiesInv, Spare, Backups
    <3>3. ASSUME NEW p \in Cmd, Working(p)' PROVE FilesInv(p)'
      <4>1. FilesInv(p) /\ at'[p] = at[p] /\ job'[p] = job[p]
        BY <1>1, <2>1, <2>2, <2>4, <3>3 DEF CopiesInv, PluginTypeOK
      <4> QED
        BY <3>1, <4>1 DEF Owed, FilesInv, Spare, Backups
    <3> QED
      BY <2>2, <3>2, <3>3
  <2> QED
    BY <2>3, <2>4
<1>4. ASSUME NEW o \in Cmd, NEW k \in Job, NEW v \in Version \cup {Absent}, Begins(o, k, v)
      PROVE  /\ Owed' => Good(target') \/ Spare'
             /\ \A p \in Cmd : Working(p)' =>
                  FilesInv(p)' /\ \A q \in Cmd : Working(q)' => q = p
  <2>1. /\ ~raced /\ at[o] = "idle" /\ UNCHANGED <<target, trash, backups, oldTrash, owed, givenUp>>
        /\ at' = [at EXCEPT ![o] = FirstStep(k)] /\ job' = [job EXCEPT ![o] = k]
        /\ k \in FileJob => \A p \in Cmd : ~Working(p)
    BY <1>4 DEF Begins, BeginJob, Go, runVars, diskVars, Working
  <2>2. \A p \in Cmd \ {o} : at'[p] = at[p] /\ job'[p] = job[p]
    BY <1>1, <2>1 DEF PluginTypeOK
  <2>3. at'[o] = FirstStep(k) /\ job'[o] = k
    BY <1>1, <2>1 DEF PluginTypeOK
  <2>4. \A p \in Cmd \ {o} : Working(p)' <=> Working(p)
    BY <2>2 DEF Working, Busy
  <2>5. Working(o)' => k \in FileJob /\ at'[o] \in {"check", "unload"}
    BY <2>3 DEF Working, FileJob, FirstStep
  <2>6. Owed' => Good(target') \/ Spare'
    BY <2>1 DEF Owed, CopiesInv, Spare, Backups
  <2>7. \A p, q \in Cmd : Working(p)' /\ Working(q)' => q = p
    BY <2>1, <2>4, <2>5 DEF CopiesInv
  <2>8. ASSUME NEW p \in Cmd, Working(p)' PROVE FilesInv(p)'
    <3>1. CASE p = o
      BY <2>5, <2>8, <3>1 DEF FilesInv
    <3>2. CASE p # o
      <4>1. FilesInv(p)
        BY <2>1, <2>4, <2>8, <3>2 DEF CopiesInv
      <4> QED
        BY <2>1, <2>2, <3>2, <4>1 DEF Owed, FilesInv, Spare, Backups
    <3> QED
      BY <3>1, <3>2
  <2> QED
    BY <2>6, <2>7, <2>8
<1>5. CASE Halt
  <2>1. \A p \in Cmd : ~Working(p)'
    BY <1>5 DEF Halt, Working, Busy
  <2>2. Owed => Good(target) \/ Spare
    BY <1>5 DEF CopiesInv, Halt, pluginHistory
  <2>3. Owed' => Good(target') \/ Spare'
    BY <1>5, <2>2, NoVersion DEF Owed, Halt, Spare, Backups, pluginHistory
  <2> QED
    BY <2>1, <2>3
<1>6. CASE StartUp
  <2>1. \A p \in Cmd : ~Working(p)'
    BY <1>6 DEF PluginShape, StartUp, Working, Busy
  <2>2. Owed => Good(target) \/ Spare
    BY <1>6 DEF CopiesInv, StartUp
  <2>3. Owed' => Good(target') \/ Spare'
    BY <1>6, <2>2 DEF Owed, StartUp, Spare, Backups
  <2> QED
    BY <2>1, <2>3
<1> QED
  BY <1>2, <1>3, <1>4, <1>5, <1>6 DEF PluginNext, Begins, Moves

-----------------------------------------------------------------------------
(* The theorems. *)

LEMMA PluginInvariance == PluginSpec => []PluginInv
<1>1. PluginInit => PluginInv
  <2> SUFFICES ASSUME PluginInit PROVE CopiesInv /\ CallsInv
    BY InitShape DEF PluginInv
  <2>1. Owed => Good(target)
    BY DEF Owed, PluginInit
  <2>2. \A o \in Cmd : ~Working(o) /\ inside[o] = Absent
    BY DEF PluginInit, Working, Busy
  <2> QED
    BY <2>1, <2>2 DEF CopiesInv, CallsInv, CallKeeps
<1>2. PluginInv /\ [PluginNext]_pluginVars => PluginInv'
  BY NextShape, NextCopiesInv, NextCallsInv DEF PluginInv
<1> QED
  BY <1>1, <1>2, PTL DEF PluginSpec

\* Every variable keeps its type: a command is only where a command of its kind can be, and
\* the trash and the backups hold versions that were installed.
THEOREM PluginTypeCorrect == PluginSpec => []PluginTypeOK
<1>1. PluginInv => PluginTypeOK
  BY DEF PluginInv, PluginShape
<1> QED
  BY <1>1, PluginInvariance, PTL

\* A user who had a version that loads keeps one on disk until it is uninstalled,
\* whichever copy, rename, load or write fails and wherever the desktop is killed, unless
\* a rollback went to a backup that does not load, or commands on the files overlapped
\* (install with commit_swap, prune_backups and its roll back; rollback).
THEOREM AlwaysKeepsACopy == PluginSpec => []KeepsACopy
<1>1. PluginInv => KeepsACopy
  BY DEF PluginInv, CopiesInv, KeepsACopy, Spare, Owed
<1> QED
  BY <1>1, PluginInvariance, PTL

\* A library is not closed while a worker runs its code or waits to (call with its
\* quarantine; unload_handle, put_loaded and scan drop the handle of the map).
THEOREM CodeAlwaysOutlivesCalls == PluginSpec => []CodeOutlivesCalls
<1>1. PluginInv => CodeOutlivesCalls
  BY DEF PluginInv, CallsInv, CallKeeps, CodeOutlivesCalls, Alive
<1> QED
  BY <1>1, PluginInvariance, PTL
================================================================================
