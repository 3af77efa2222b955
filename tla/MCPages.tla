------------------------------- MODULE MCPages -------------------------------
(***************************************************************************)
(* Small instances of what two pages of the front end drive: terminals,    *)
(* and the files of a device.  They share no state: "scene", fixed from    *)
(* the start, says which of them moves, and the other one rests as it was  *)
(* born.                                                                   *)
(***************************************************************************)
EXTENDS Terminal, FileWrites

VARIABLE scene
pageVars == <<vars, filesVars, scene>>

\* One initial state of FileWrites, for the scene in which it rests.
NoFilesYet ==
  /\ lies = [p \in Path |-> NoThing]
  /\ inside = [d \in Folder |-> {}]

PagesInit ==
  /\ scene \in {"terminal", "files"}
  /\ Init
  /\ FilesInit /\ (scene = "files" \/ NoFilesYet)

PagesNext ==
  \/ scene = "terminal" /\ Next /\ UNCHANGED <<filesVars, scene>>
  \/ scene = "files" /\ FilesNext /\ UNCHANGED <<vars, scene>>

\* The fairness of Terminal's FairSpec.
PagesSpec ==
  /\ PagesInit /\ [][PagesNext]_pageVars
  /\ \A t \in Tab :
       /\ WF_vars(scene = "terminal" /\ (EndWrite(t) \/ WriteFails(t)))
       /\ SF_vars(scene = "terminal" /\ CloseRemove(t))
       /\ WF_vars(scene = "terminal" /\ Closing(t))
       /\ WF_vars(scene = "terminal" /\ ReportExit(t))
=============================================================================
