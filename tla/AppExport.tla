----------------------------- MODULE AppExport -----------------------------
(***************************************************************************)
(* The export of an app to the desktop: export_package of                  *)
(* zygisk_applist.rs and assemble of apk_bundle.rs.  The Agent stages the  *)
(* parts on the device, the desktop pulls them into a directory of its own *)
(* and puts them into one artifact in the directory the user chose.        *)
(*                                                                         *)
(* Exports run at the same time (several devices, or a page that was left  *)
(* and writesTo again), and those of one app and version want one name.  A   *)
(* file is an inode with a name, as File::create and rename treat it.      *)
(***************************************************************************)
EXTENDS Naturals, FiniteSets

CONSTANTS
  Export,     \* exports of one app and version to one directory
  Split,      \* those of an app in several parts, which go into a container
  MaxSuffix,  \* MAX_SUFFIX: how many names reserve_file_name tries after the first
  NoFile

ASSUME ExportAssumption ==
  /\ Split \subseteq Export
  /\ MaxSuffix \in Nat
  /\ NoFile \notin Export

VARIABLES
  doing,      \* where each export is
  staged,     \* exports with a staging directory on the device
  originals,  \* exports whose parts lie in their directory on the desktop
  entry,      \* the chosen directory: name to inode, named for its creator
  holds,      \* whose bytes are in each inode
  chosen,     \* the name each export chose
  writesTo,   \* the inode a writer writes to
  returned,
  collided    \* exports that chose a name while another export was at it

exportVars == <<doing, staged, originals, entry, holds, chosen, writesTo, returned, collided>>

FileName == 1..(MaxSuffix + 1)

ExportTypeOK ==
  /\ doing \in [Export -> {"idle", "prepare", "pull", "clean", "choose", "place", "fill",
                           "check", "over"}]
  /\ staged \subseteq Export /\ originals \subseteq Export /\ collided \subseteq Export
  /\ entry \in [FileName -> Export \cup {NoFile}]
  /\ holds \in [Export -> SUBSET Export]
  /\ chosen \in [Export -> FileName \cup {0}]
  /\ writesTo \in [Export -> Export \cup {NoFile}]
  /\ returned \in [Export -> {"none", "saved", "failed"}]

ExportInit ==
  /\ doing = [e \in Export |-> "idle"]
  /\ staged = {} /\ originals = {} /\ collided = {}
  /\ entry = [n \in FileName |-> NoFile]
  /\ holds = [e \in Export |-> {}]
  /\ chosen = [e \in Export |-> 0]
  /\ writesTo = [e \in Export |-> NoFile]
  /\ returned = [e \in Export |-> "none"]

Onward(e, where) == doing' = [doing EXCEPT ![e] = where] /\ UNCHANGED returned
Ends(e, what) == /\ doing' = [doing EXCEPT ![e] = "over"]
                   /\ returned' = [returned EXCEPT ![e] = what]
Directory == <<entry, holds, chosen, writesTo, collided>>

-----------------------------------------------------------------------------
(* export_package. *)

\* package.export_apk.  A request that failed or was lost may have staged.
RequestStaging(e) ==
  /\ doing[e] = "idle"
  /\ \/ staged' = staged \cup {e} /\ Onward(e, "prepare")
     \/ staged' \in {staged, staged \cup {e}} /\ Ends(e, "failed")
  /\ UNCHANGED <<originals, Directory>>

\* The name is asked for, which cannot fail, and two directories are made.  When
\* that fails the staging directory stays on the device.
Prepare(e) ==
  /\ doing[e] = "prepare"
  /\ Onward(e, "pull") \/ Ends(e, "failed")
  /\ UNCHANGED <<staged, originals, Directory>>

\* pull_staged_files: every part, with the size the device said.
Pull(e) ==
  /\ doing[e] = "pull"
  /\ originals' \in {originals, originals \cup {e}}
  /\ Onward(e, "clean")
  /\ UNCHANGED <<staged, Directory>>

\* clean_staged, whether the parts came or not; its failure is only logged.
CleanStaging(e) ==
  /\ doing[e] = "clean"
  /\ staged' \in {staged, staged \ {e}}
  /\ IF e \in originals THEN Onward(e, "choose") ELSE Ends(e, "failed")
  /\ UNCHANGED <<originals, Directory>>

-----------------------------------------------------------------------------
(* assemble. *)

AtIt(n) == {e \in Export : chosen[e] = n /\ doing[e] \in {"place", "fill", "check"}}

Takes(e, n) ==
  /\ chosen' = [chosen EXCEPT ![e] = n]
  /\ collided' = IF AtIt(n) = {} THEN collided ELSE collided \cup {e} \cup AtIt(n)
  /\ Onward(e, "place")

\* A plausible bug: the first name is taken without a look at the directory.
ReserveFirst(e) ==
  /\ doing[e] = "choose"
  /\ Takes(e, 1)
  /\ UNCHANGED <<staged, originals, entry, holds, writesTo>>

\* reserve_file_name: the first name that is free now.  Nothing is created.
Reserve(e) ==
  /\ doing[e] = "choose"
  /\ \/ \E n \in FileName : /\ entry[n] = NoFile
                            /\ \A m \in 1..(n - 1) : entry[m] # NoFile
                            /\ Takes(e, n)
     \/ /\ \A n \in FileName : entry[n] # NoFile
        /\ Ends(e, "failed") /\ UNCHANGED <<chosen, collided>>
  /\ UNCHANGED <<staged, originals, entry, holds, writesTo>>

\* The one part of an app that is not split is moved: place_file.
MoveFile(e) ==
  /\ doing[e] = "place" /\ e \notin Split
  /\ entry' = [entry EXCEPT ![chosen[e]] = e]
  /\ holds' = [holds EXCEPT ![e] = {e}]
  /\ originals' = originals \ {e}
  /\ Onward(e, "check")
  /\ UNCHANGED <<staged, chosen, writesTo, collided>>

\* File::create of the container, or of the copy when a part cannot be moved: a
\* file that is there is emptied, whoever writes to it.
CreateFile(e) ==
  /\ doing[e] = "place"
  /\ LET n == chosen[e]
         i == IF entry[n] = NoFile THEN e ELSE entry[n] IN
       /\ entry' = [entry EXCEPT ![n] = i]
       /\ holds' = [holds EXCEPT ![i] = {}]
       /\ writesTo' = [writesTo EXCEPT ![e] = i]
  /\ Onward(e, "fill")
  /\ UNCHANGED <<staged, originals, chosen, collided>>

\* The parts are written.  The source of a copy is removed.
Fill(e) ==
  /\ doing[e] = "fill"
  /\ holds' = [holds EXCEPT ![writesTo[e]] = @ \cup {e}]
  /\ originals' = IF e \in Split THEN originals ELSE originals \ {e}
  /\ writesTo' = [writesTo EXCEPT ![e] = NoFile]
  /\ Onward(e, "check")
  /\ UNCHANGED <<staged, entry, chosen, collided>>

\* remove_file(target), whoever the target belongs to by now.
FailAssembly(e) ==
  /\ entry' = [entry EXCEPT ![chosen[e]] = NoFile]
  /\ writesTo' = [writesTo EXCEPT ![e] = NoFile]
  /\ Ends(e, "failed")
  /\ UNCHANGED <<staged, originals, holds, chosen, collided>>

\* A write or a look fails; before File::create has succeeded it does so, too.
AssemblyFails(e) == doing[e] \in {"place", "fill"} /\ FailAssembly(e)

\* The container is read back by its name: its directory at the end, not the
\* parts.  Of a single file only the size is asked.
Saves(e) ==
  /\ doing[e] = "check"
  /\ entry[chosen[e]] # NoFile
  /\ Ends(e, "saved")
  /\ originals' = originals \ {e}
  /\ UNCHANGED <<staged, Directory>>

\* The name is gone, the container is not what was written, or reading fails.
CheckFails(e) == doing[e] = "check" /\ FailAssembly(e)

-----------------------------------------------------------------------------
ExportNext ==
  \E e \in Export :
    \/ RequestStaging(e) \/ Prepare(e) \/ Pull(e) \/ CleanStaging(e)
    \/ Reserve(e) \/ MoveFile(e) \/ CreateFile(e) \/ Fill(e) \/ AssemblyFails(e)
    \/ Saves(e) \/ CheckFails(e)

ExportSpec == ExportInit /\ [][ExportNext]_exportVars

-----------------------------------------------------------------------------
(* Properties. *)

\* What an export reported as saved is there, and is its own: a later one takes
\* another name, and one that fails removes only its own file.  Not so of two
\* that look for a name before either has created its file.
SavedStays ==
  \A e \in Export \ collided : returned[e] = "saved" =>
    LET i == entry[chosen[e]] IN i # NoFile /\ holds[i] = {e}
=============================================================================
