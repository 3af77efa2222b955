----------------------------- MODULE FileWrites -----------------------------
(***************************************************************************)
(* The files of the device as the Files page changes them: filesystem.mkdir*)
(* rename and remove of the Agent (filesystem_write.rs), and the same as   *)
(* root by commands over adb (fs_*_rooted of device_service.rs).  Each     *)
(* looks, acts and looks again; the apps of the device, and other writes,  *)
(* come between.                                                           *)
(*                                                                         *)
(* Paths are the ones that the gates of both sides let pass (fs_policy,    *)
(* check_writable, is_protected_root).  chmod moves nothing and is left    *)
(* out, symbolic links too.                                                *)
(***************************************************************************)
EXTENDS Naturals, FiniteSets

CONSTANTS
  FileCall,     \* writes
  Path,         \* paths side by side in a directory nobody touches
  Thing,        \* files and directories
  Folder,       \* the directories among them
  NoThing,
  MaxMeddling,  \* bound on the steps of others
  MaxCuts       \* bound on the adb commands that fail

ASSUME FilesAssumption ==
  /\ Folder \subseteq Thing
  /\ NoThing \notin Thing
  /\ MaxMeddling \in Nat /\ MaxCuts \in Nat

VARIABLES
  lies,       \* what is at each path
  inside,     \* what is in each directory; one level is enough
  edit,       \* what each call does, and where it is
  meddled, cuts

filesVars == <<lies, inside, edit, meddled, cuts>>

Idle == [step |-> "idle", leg |-> "none", op |-> "none", from |-> NoThing,
         to |-> NoThing, deep |-> FALSE, folder |-> FALSE, answer |-> "none"]

FilesTypeOK ==
  /\ lies \in [Path -> Thing \cup {NoThing}]
  /\ inside \in [Folder -> SUBSET (Thing \ Folder)]
  /\ \A c \in FileCall :
       /\ edit[c].step \in {"idle", "look", "lookAtTarget", "count", "act", "rmdir", "check"}
       /\ edit[c].leg \in {"none", "agent", "root"}
       /\ edit[c].op \in {"none", "mkdir", "rename", "remove"}
       /\ edit[c].answer \in {"none", "ok", "failed"}
  /\ meddled \in 0..MaxMeddling /\ cuts \in 0..MaxCuts

Content == UNION {inside[d] : d \in Folder \cap {lies[p] : p \in Path}}
Present == ({lies[p] : p \in Path} \ {NoThing}) \cup Content

FilesInit ==
  /\ lies \in [Path -> Thing \cup {NoThing}]
  /\ \A p, q \in Path : p # q /\ lies[p] # NoThing => lies[p] # lies[q]
  /\ inside \in [Folder -> SUBSET (Thing \ Folder)]
  /\ \A d \in Folder : inside[d] \cap {lies[p] : p \in Path} = {}
  /\ \A d, e \in Folder : d # e => inside[d] \cap inside[e] = {}
  /\ edit = [c \in FileCall |-> Idle]
  /\ meddled = 0 /\ cuts = 0

-----------------------------------------------------------------------------
There(p) == lies[p] # NoThing
FolderAt(p) == lies[p] \in Folder
Filled(p) == FolderAt(p) /\ inside[lies[p]] # {}

GoTo(c, step) == edit' = [edit EXCEPT ![c].step = step]
EndWith(c, answer) == edit' = [edit EXCEPT ![c] = [Idle EXCEPT !.answer = answer]]
Rests == UNCHANGED <<lies, inside, meddled, cuts>>

\* fs_mkdir, fs_rename and fs_remove of the desktop: the leg is the user's choice.
AskWrite(c) ==
  /\ edit[c].step = "idle" /\ edit[c].answer = "none"
  /\ \E leg \in {"agent", "root"}, op \in {"mkdir", "rename", "remove"},
        from, to \in Path, deep \in BOOLEAN :
       /\ op # "rename" => to = from
       /\ op # "remove" => ~deep
       /\ edit' = [edit EXCEPT ![c] = [Idle EXCEPT !.step = "look", !.leg = leg, !.op = op,
                                         !.from = from, !.to = to, !.deep = deep]]
  /\ Rests

\* Is something there?  The Agent asks lstat.  fs_probe asks a script under su,
\* whose exit code is that of its last command: of a path that is absent it
\* reports success with an output that parse_rooted_stat cannot read, which is
\* an internal error and never NOT_FOUND.
Probe(c, p) ==
  IF There(p) THEN "there" ELSE IF edit[c].leg = "agent" THEN "absent" ELSE "error"

-----------------------------------------------------------------------------
(* The first looks. *)

LookMkdir(c) ==
  LET w == edit[c] IN
  /\ w.step = "look" /\ w.op = "mkdir"
  /\ CASE Probe(c, w.from) = "error" -> EndWith(c, "failed")
       [] w.leg = "agent" /\ FolderAt(w.from) -> EndWith(c, "ok")
       [] w.leg = "agent" /\ There(w.from) -> EndWith(c, "failed")
       [] OTHER -> GoTo(c, "act")
  /\ Rests

LookRename(c) ==
  LET w == edit[c] IN
  /\ w.step = "look" /\ w.op = "rename"
  /\ CASE ~There(w.from) -> EndWith(c, "failed")
       [] There(w.from) /\ w.from = w.to -> EndWith(c, "ok")
       [] OTHER -> GoTo(c, "lookAtTarget")
  /\ Rests

\* Nothing is overwritten, as far as this look can tell.  As root a rename ends
\* here: a free target is an error of the probe.
LookAtTarget(c) ==
  /\ edit[c].step = "lookAtTarget"
  /\ IF Probe(c, edit[c].to) = "absent" THEN GoTo(c, "act") ELSE EndWith(c, "failed")
  /\ Rests

\* A path that is gone is, as root, what was wanted: the probe never says so.
LookRemove(c) ==
  LET w == edit[c] IN
  /\ w.step = "look" /\ w.op = "remove"
  /\ CASE Probe(c, w.from) = "error" -> EndWith(c, "failed")
       [] Probe(c, w.from) = "absent" -> EndWith(c, IF w.leg = "root" THEN "ok" ELSE "failed")
       [] OTHER -> edit' = [edit EXCEPT
            ![c].folder = FolderAt(w.from),
            ![c].step = IF FolderAt(w.from) /\ ~w.deep THEN "count" ELSE "act"]
  /\ Rests

\* A directory that is not empty must be asked for (count_entries, ls -A).
Count(c) ==
  LET w == edit[c] IN
  /\ w.step = "count"
  /\ IF FolderAt(w.from) /\ ~Filled(w.from) THEN GoTo(c, "act")
     ELSE EndWith(c, "failed")
  /\ Rests

\* measure of the Agent: what cannot be counted, or is too much, is not removed.
MeasureRefuses(c) ==
  /\ edit[c].step = "act" /\ edit[c].op = "remove" /\ edit[c].leg = "agent"
  /\ EndWith(c, "failed")
  /\ Rests

-----------------------------------------------------------------------------
(* The acts. *)

\* create_dir and mkdir fail when something is there.
ActMkdir(c) ==
  LET w == edit[c] IN
  /\ w.step = "act" /\ w.op = "mkdir"
  /\ IF There(w.from) THEN EndWith(c, "failed") /\ UNCHANGED <<lies, inside>>
     ELSE \E d \in Folder \ Present : /\ lies' = [lies EXCEPT ![w.from] = d]
                                      /\ inside' = [inside EXCEPT ![d] = {}]
                                      /\ GoTo(c, "check")
  /\ UNCHANGED <<meddled, cuts>>

\* rename(2): a file takes the place of a file, a directory that of an empty one.
Replaces(x, y) ==
  \/ y = NoThing
  \/ x \notin Folder /\ y \notin Folder
  \/ x \in Folder /\ y \in Folder /\ inside[y] = {}

ActRename(c) ==
  LET w == edit[c] IN
  /\ w.step = "act" /\ w.op = "rename"
  /\ IF There(w.from) /\ Replaces(lies[w.from], lies[w.to])
     THEN lies' = [lies EXCEPT ![w.to] = lies[w.from], ![w.from] = NoThing] /\ GoTo(c, "check")
     ELSE EndWith(c, "failed") /\ UNCHANGED lies
  /\ UNCHANGED <<inside, meddled, cuts>>

Empties(p) == inside' = [inside EXCEPT ![lies[p]] = {}]
Unlinks(p) == lies' = [lies EXCEPT ![p] = NoThing] /\ UNCHANGED inside

\* A plausible bug: remove_dir_all also for what was found empty a moment ago.
ActRemoveAll(c) ==
  LET w == edit[c] IN
  /\ w.step = "act" /\ w.op = "remove" /\ w.leg = "agent"
  /\ \/ ~w.folder /\ There(w.from) /\ ~FolderAt(w.from) /\ Unlinks(w.from) /\ GoTo(c, "check")
     \/ w.folder /\ FolderAt(w.from) /\ Empties(w.from) /\ UNCHANGED lies /\ GoTo(c, "rmdir")
     \/ w.folder # FolderAt(w.from) /\ EndWith(c, "failed") /\ UNCHANGED <<lies, inside>>
     \/ ~There(w.from) /\ EndWith(c, "failed") /\ UNCHANGED <<lies, inside>>
  /\ UNCHANGED <<meddled, cuts>>

\* remove_file, remove_dir, or remove_dir_all, which empties the directory first.
\* The choice was made from the first look; the kernel looks again.
ActRemove(c) ==
  LET w == edit[c]
      fits == There(w.from) /\ w.folder = FolderAt(w.from) /\ (Filled(w.from) => w.deep) IN
  /\ w.step = "act" /\ w.op = "remove" /\ w.leg = "agent"
  /\ CASE ~fits -> EndWith(c, "failed") /\ UNCHANGED <<lies, inside>>
       [] fits /\ w.deep /\ w.folder -> Empties(w.from) /\ UNCHANGED lies /\ GoTo(c, "rmdir")
       [] OTHER -> Unlinks(w.from) /\ GoTo(c, "check")
  /\ UNCHANGED <<meddled, cuts>>

\* The end of remove_dir_all: somebody may have put something in meanwhile.
RemoveFolder(c) ==
  LET p == edit[c].from IN
  /\ edit[c].step = "rmdir"
  /\ IF FolderAt(p) /\ ~Filled(p) THEN Unlinks(p) /\ GoTo(c, "check")
     ELSE EndWith(c, "failed") /\ UNCHANGED <<lies, inside>>
  /\ UNCHANGED <<meddled, cuts>>

\* rm -rf, whatever was asked, found or counted.
ForceRemove(c) ==
  /\ edit[c].step = "act" /\ edit[c].op = "remove" /\ edit[c].leg = "root"
  /\ Unlinks(edit[c].from)
  /\ GoTo(c, "check")
  /\ UNCHANGED <<meddled, cuts>>

-----------------------------------------------------------------------------
(* The looks afterwards. *)

CheckWrite(c) ==
  LET w == edit[c]
      done == CASE w.op = "mkdir" -> IF w.leg = "agent" THEN FolderAt(w.from) ELSE There(w.from)
                [] w.op = "rename" -> There(w.to) /\ ~There(w.from)
                [] w.op = "remove" -> Probe(c, w.from) = "absent" IN
  /\ w.step = "check"
  /\ EndWith(c, IF done THEN "ok" ELSE "failed")
  /\ Rests

\* An adb command fails or is cut off, perhaps after its effect.
Cut(c) ==
  LET w == edit[c] IN
  /\ w.leg = "root"
  /\ cuts < MaxCuts /\ cuts' = cuts + 1
  /\ EndWith(c, "failed")
  /\ \/ UNCHANGED <<lies, inside>>
     \/ w.step = "act" /\ w.op = "remove" /\ Unlinks(w.from)
  /\ UNCHANGED meddled

\* The apps of the device.
Meddle ==
  /\ meddled < MaxMeddling /\ meddled' = meddled + 1
  /\ \E p \in Path :
       \/ There(p) /\ Unlinks(p)
       \/ \E x \in Thing \ Present :
            \/ ~There(p) /\ lies' = [lies EXCEPT ![p] = x]
               /\ inside' = [d \in Folder |-> IF d = x THEN {} ELSE inside[d]]
            \/ FolderAt(p) /\ x \notin Folder
               /\ inside' = [inside EXCEPT ![lies[p]] = @ \cup {x}] /\ UNCHANGED lies
  /\ UNCHANGED <<edit, cuts>>

-----------------------------------------------------------------------------
FilesNext ==
  \/ \E c \in FileCall :
       \/ AskWrite(c)
       \/ LookMkdir(c) \/ LookRename(c) \/ LookAtTarget(c) \/ LookRemove(c) \/ Count(c)
       \/ MeasureRefuses(c) \/ ActMkdir(c) \/ ActRename(c) \/ ActRemove(c) \/ RemoveFolder(c)
       \/ ForceRemove(c) \/ CheckWrite(c) \/ Cut(c)
  \/ Meddle

FilesSpec == FilesInit /\ [][FilesNext]_filesVars

-----------------------------------------------------------------------------
(* Properties. *)

\* What lies in a directory goes only with a removal that was asked to be
\* recursive, whoever fills, empties, renames or replaces the directory between
\* the count and the act.  Not so as root: ls -A and rm -rf are two commands.
ContentGoesOnlyIfAsked ==
  [][ \A c \in FileCall :
        edit[c] # edit'[c] /\ edit[c].leg = "agent" /\ ~(Content \subseteq Present') =>
          edit[c].op = "remove" /\ edit[c].deep ]_filesVars

\* fs_probe: Ok(None) means that the entry is not on the device.  So a removal
\* that finds nothing left of it says that it succeeded.
AbsentIsSeen ==
  [][ \A c \in FileCall :
        edit[c].op = "remove" /\ edit[c].step = "check" /\ edit'[c].step = "idle"
          /\ ~There(edit[c].from) /\ cuts' = cuts => edit'[c].answer = "ok" ]_filesVars
=============================================================================
