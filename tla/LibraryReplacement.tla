-------------------------- MODULE LibraryReplacement --------------------------
(***************************************************************************)
(* provider/package.rs replace_native_library with the scripts of          *)
(* privileged.rs: an .so of an app is backed up, replaced by way of a      *)
(* temporary name, read back, and rolled back when it is not what was      *)
(* staged.  Every privileged step is a script under su; run_privileged     *)
(* waits 20 s for it, and a script it stops waiting for runs on, also      *)
(* after the Agent is gone.  The library on disk is external.              *)
(***************************************************************************)
EXTENDS Naturals, FiniteSets

CONSTANTS
  Replacement,   \* the operations, each with a staged library of its own
  Original,      \* the library the app was installed with
  Nowhere,       \* no library
  Torn,          \* a library whose copy was cut short
  MaxMishaps     \* bound on failing scripts, timeouts and deaths of the Agent

ASSUME LibraryAssumption ==
  /\ Original \notin Replacement /\ Nowhere \notin Replacement \cup {Original}
  /\ Torn \notin Replacement \cup {Original, Nowhere}
  /\ MaxMishaps \in Nat

VARIABLES
  target, aside,   \* the library, and target.arttmp, one name for all
  backup,          \* so_name.artbak in the directory of an operation
  phase,           \* where each operation is
  existed,         \* replaced_existing: what symlink_metadata told of the target
  outcome,         \* how the script an operation waited for ended
  scripts,         \* the scripts that run under su
  reply,           \* what an operation was answered with
  mishaps,
  (* history *)
  before,          \* the library when an operation began
  overlapped,      \* an operation began while another or its scripts ran
  outlived,        \* the operations that stopped waiting for a script
  unbacked,        \* those that took a library for absent, or whose backup's cp failed
  unchecked        \* those a command of whose roll back failed unnoticed

libraryVars == <<target, aside, backup, phase, existed, outcome, scripts, reply, mishaps,
                 before, overlapped, outlived, unbacked, unchecked>>
unnoticed == <<unbacked, unchecked>>

Library == Replacement \cup {Original, Nowhere, Torn}
Kind == {"backup", "install", "restore", "remove"}
Waits(r) == phase[r] \in Kind
UnderWay(r) == phase[r] \notin {"idle", "done"}

LibraryTypeOK ==
  /\ target \in Library /\ aside \in Library
  /\ backup \in [Replacement -> Library]
  /\ phase \in [Replacement -> Kind \cup {"idle", "verify", "done"}]
  /\ existed \in [Replacement -> BOOLEAN]
  /\ outcome \in [Replacement -> {"none", "ok", "failed"}]
  /\ scripts \subseteq [op : Replacement, kind : Kind, moved : BOOLEAN]
  /\ reply \in [Replacement -> {"none", "failed", "verified", "restored", "stuck"}]
  /\ before \in [Replacement -> Library] /\ overlapped \in BOOLEAN

LibraryInit ==
  /\ target \in {Original, Nowhere} /\ aside = Nowhere
  /\ backup = [r \in Replacement |-> Nowhere]
  /\ phase = [r \in Replacement |-> "idle"] /\ existed = [r \in Replacement |-> FALSE]
  /\ outcome = [r \in Replacement |-> "none"] /\ scripts = {}
  /\ reply = [r \in Replacement |-> "none"] /\ mishaps = 0
  /\ before = [r \in Replacement |-> Nowhere]
  /\ overlapped = FALSE /\ outlived = {}
  /\ unbacked = {} /\ unchecked = {}

-----------------------------------------------------------------------------
libraryFiles == <<target, aside, backup>>
Mishap == mishaps < MaxMishaps /\ mishaps' = mishaps + 1

(* run_privileged: start a script and wait for it. *)
Await(r, k) ==
  /\ phase' = [phase EXCEPT ![r] = k]
  /\ scripts' = scripts \cup {[op |-> r, kind |-> k, moved |-> FALSE]}
  /\ outcome' = [outcome EXCEPT ![r] = "none"]
Answer(r, a) ==
  /\ phase' = [phase EXCEPT ![r] = "done"] /\ reply' = [reply EXCEPT ![r] = a]
  /\ UNCHANGED <<scripts, outcome>>

Finds(r, present) ==
  /\ existed' = [existed EXCEPT ![r] = present]
  /\ Await(r, IF present THEN "backup" ELSE "install")

(* The checks, then a backup when there is something to back up.  The     *)
(* Agent looks with its own rights: whatever keeps it from seeing the     *)
(* target, it takes for absent, and the root scripts overwrite it.         *)
BeginReplace(r) ==
  /\ phase[r] = "idle"
  /\ \/ Finds(r, target # Nowhere) /\ UNCHANGED <<mishaps, unbacked>>
     \/ /\ target # Nowhere /\ Mishap
        /\ Finds(r, FALSE) /\ unbacked' = unbacked \cup {r}
  /\ before' = [before EXCEPT ![r] = target]
  /\ overlapped' = (overlapped \/ scripts # {} \/ \E q \in Replacement : UnderWay(q))
  /\ UNCHANGED <<libraryFiles, reply, outlived, unchecked>>

(* A script ends: whoever still waits for it learns how. *)
EndScript(s, how) ==
  /\ scripts' = scripts \ {s}
  /\ outcome' = [outcome EXCEPT ![s.op] = IF phase[s.op] = s.kind THEN how ELSE @]
AgentUnmoved == UNCHANGED <<phase, existed, reply, before, overlapped, outlived>>
StaysOnDisk == AgentUnmoved /\ UNCHANGED <<mishaps, unnoticed>>

BackUpShared(s) ==
  /\ s.kind = "backup"
  /\ backup' = IF target = Nowhere THEN backup ELSE [r \in Replacement |-> target]
  /\ EndScript(s, "ok")
  /\ UNCHANGED <<target, aside>> /\ StaysOnDisk

(* backup_script copies into the directory of its own operation, and says  *)
(* BACKED_UP also when there is nothing to copy.                           *)
BackUp(s) ==
  /\ s.kind = "backup"
  /\ backup' = IF target = Nowhere THEN backup ELSE [backup EXCEPT ![s.op] = target]
  /\ EndScript(s, "ok")
  /\ UNCHANGED <<target, aside>> /\ StaysOnDisk

(* cp of backup_script or rm of rollback_script fails, with no set -e and  *)
(* no &&: the script goes on to its sentinel and counts as done.           *)
BackUpFails(s) ==
  /\ s.kind = "backup" /\ Mishap
  /\ backup' \in {backup, [backup EXCEPT ![s.op] = Torn]}
  /\ EndScript(s, "ok")
  /\ unbacked' = unbacked \cup {s.op}
  /\ UNCHANGED <<target, aside, unchecked>> /\ AgentUnmoved

RemoveFails(s) ==
  /\ s.kind = "remove" /\ Mishap
  /\ EndScript(s, "ok")
  /\ unchecked' = unchecked \cup {s.op}
  /\ UNCHANGED <<libraryFiles, unbacked>> /\ AgentUnmoved

(* install_script and rollback_script copy to the temporary name ... *)
CopyAside(s) ==
  /\ s.kind \in {"install", "restore"} /\ ~s.moved
  /\ IF s.kind = "restore" /\ backup[s.op] = Nowhere
     THEN EndScript(s, "failed") /\ UNCHANGED aside
     ELSE /\ aside' = IF s.kind = "install" THEN s.op ELSE backup[s.op]
          /\ scripts' = (scripts \ {s}) \cup {[s EXCEPT !.moved = TRUE]}
          /\ UNCHANGED outcome
  /\ UNCHANGED <<target, backup>> /\ StaysOnDisk

(* A copy that fails leaves a part of the library, or what was there.  It  *)
(* ends install_script, with its set -e; rollback_script goes on, after    *)
(* the ";" that ends its chain of &&, and moves whatever lies there.       *)
CopyFails(s) ==
  /\ s.kind \in {"install", "restore"} /\ ~s.moved /\ Mishap
  /\ s.kind = "restore" => backup[s.op] # Nowhere
  /\ aside' \in {aside, Torn}
  /\ IF s.kind = "install" THEN EndScript(s, "failed") /\ UNCHANGED unchecked
     ELSE /\ scripts' = (scripts \ {s}) \cup {[s EXCEPT !.moved = TRUE]}
          /\ unchecked' = unchecked \cup {s.op}
          /\ UNCHANGED outcome
  /\ UNCHANGED <<target, backup, unbacked>> /\ AgentUnmoved

(* ... and move it to the target: a move of what is not there fails. *)
MoveToTarget(s) ==
  /\ s.kind \in {"install", "restore"} /\ s.moved
  /\ target' = IF aside = Nowhere THEN target ELSE aside
  /\ aside' = Nowhere
  /\ EndScript(s, IF aside = Nowhere THEN "failed" ELSE "ok")
  /\ UNCHANGED backup /\ StaysOnDisk

RemoveTarget(s) ==
  /\ s.kind = "remove"
  /\ target' = Nowhere
  /\ EndScript(s, "ok")
  /\ UNCHANGED <<aside, backup>> /\ StaysOnDisk

(* su refuses, or what fails ends the script before its sentinel. *)
ScriptFails(s) ==
  /\ Mishap /\ EndScript(s, "failed")
  /\ UNCHANGED <<libraryFiles, unnoticed>> /\ AgentUnmoved

-----------------------------------------------------------------------------
(* A failed backup is the end; a failed install is rolled back: the backup *)
(* is put back, or what was not there before is removed.                   *)
AfterBackup(r) ==
  /\ phase[r] = "backup" /\ outcome[r] # "none"
  /\ IF outcome[r] = "ok" THEN Await(r, "install") /\ UNCHANGED reply ELSE Answer(r, "failed")
  /\ UNCHANGED <<libraryFiles, existed, mishaps, before, overlapped, outlived, unnoticed>>

RemoveAlways(r) == "remove"
RollBackKind(r) == IF existed[r] THEN "restore" ELSE "remove"
AfterInstall(r) ==
  /\ phase[r] = "install" /\ outcome[r] # "none"
  /\ IF outcome[r] = "ok"
     THEN phase' = [phase EXCEPT ![r] = "verify"] /\ UNCHANGED <<scripts, outcome>>
     ELSE Await(r, RollBackKind(r))
  /\ UNCHANGED <<libraryFiles, existed, reply, mishaps, before, overlapped, outlived,
                 unnoticed>>

(* The target is read back and compared with what was staged; a digest     *)
(* that could not be read counts as different.                             *)
VerifyInstalled(r) ==
  /\ phase[r] = "verify"
  /\ \/ target = r /\ Answer(r, "verified") /\ UNCHANGED mishaps
     \/ target # r /\ Await(r, RollBackKind(r)) /\ UNCHANGED <<reply, mishaps>>
     \/ target = r /\ Mishap /\ Await(r, RollBackKind(r)) /\ UNCHANGED reply
  /\ UNCHANGED <<libraryFiles, existed, before, overlapped, outlived, unnoticed>>

AfterRollBack(r) ==
  /\ phase[r] \in {"restore", "remove"} /\ outcome[r] # "none"
  /\ Answer(r, IF outcome[r] = "ok" THEN "restored" ELSE "stuck")
  /\ UNCHANGED <<libraryFiles, existed, mishaps, before, overlapped, outlived, unnoticed>>

(* SU_TIMEOUT: the wait ends as a failure, the script does not end. *)
GiveUpWaiting(r) ==
  /\ Waits(r) /\ outcome[r] = "none" /\ Mishap
  /\ outcome' = [outcome EXCEPT ![r] = "failed"]
  /\ outlived' = outlived \cup {r}
  /\ UNCHANGED <<libraryFiles, phase, existed, scripts, reply, before, overlapped, unnoticed>>

(* The Agent dies, or its handlers are aborted: no answer, scripts run on. *)
AgentDies ==
  /\ Mishap /\ \E r \in Replacement : UnderWay(r)
  /\ phase' = [r \in Replacement |-> IF UnderWay(r) THEN "done" ELSE phase[r]]
  /\ UNCHANGED <<libraryFiles, existed, outcome, scripts, reply, before, overlapped, outlived,
                 unnoticed>>

RunsScript(s) ==
  BackUp(s) \/ BackUpFails(s) \/ CopyAside(s) \/ CopyFails(s) \/ MoveToTarget(s)
  \/ RemoveTarget(s) \/ RemoveFails(s) \/ ScriptFails(s)

LibraryNext ==
  \/ \E r \in Replacement :
       BeginReplace(r) \/ AfterBackup(r) \/ AfterInstall(r) \/ VerifyInstalled(r)
       \/ AfterRollBack(r) \/ GiveUpWaiting(r)
  \/ \E s \in scripts : RunsScript(s)
  \/ AgentDies

LibrarySpec == LibraryInit /\ [][LibraryNext]_libraryVars

-----------------------------------------------------------------------------
(* The library the app came with is never lost: it is in place or in the   *)
(* backup of an operation, whatever fails, dies, overlaps or runs late;    *)
(* except that no backup was made by an operation that did not see it, or  *)
(* whose copy to the backup failed with nobody asking.                     *)
OriginalIsKept ==
  unbacked = {} =>
    \A r \in Replacement : before[r] = Original =>
      target = Original \/ \E q \in Replacement : backup[q] = Original

(* What an operation is answered with is true of the disk: the staged      *)
(* library is in place, or what was there before is; unless operations     *)
(* overlapped or stopped waiting for a script, one did not see the library *)
(* it replaced, or the cp or rm of a backup or a roll back failed: the     *)
(* script says its sentinel all the same.                                  *)
AnswerIsTrue ==
  [][\A r \in Replacement :
       (reply'[r] # reply[r] /\ ~overlapped /\ outlived \cup unbacked \cup unchecked = {}) =>
         /\ reply'[r] = "verified" => target = r
         /\ reply'[r] \in {"failed", "restored"} => target = before[r]]_libraryVars
=============================================================================
