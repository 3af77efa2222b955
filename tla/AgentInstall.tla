---------------------------- MODULE AgentInstall ----------------------------
(***************************************************************************)
(* How connect_artifact puts an Agent binary on a device and takes it back *)
(* when the Agent does not come up: the files in /data/local/tmp, the      *)
(* round of connect_artifact_inner under the operation lock, and the       *)
(* second round that a version mismatch causes, with the lock free in      *)
(* between.  Each adb command may fail before or after it had its effect,  *)
(* the scripts that move the binaries between any two of their commands,   *)
(* and the desktop may crash and be started again at any point.            *)
(*                                                                         *)
(* A binary stands for its SHA-256: two equal hashes are the same bytes.   *)
(***************************************************************************)
EXTENDS Naturals, Sequences, FiniteSets

CONSTANTS
  Caller,        \* the watch loop, a click, ...
  Artifact,      \* the artifacts the desktop may resolve to
  Old,           \* what an earlier desktop installed and accepted
  Mislabelled,   \* artifacts that report another version than expected
  NoBinary,      \* no such file, nobody
  MaxAdbFailures, \* bound on adb commands, and commands of a script, that fail
  MaxDeaths      \* bound on crashes of the desktop

ASSUME InstallAssumption ==
  /\ IsFiniteSet(Caller)
  /\ Mislabelled \subseteq Artifact
  /\ NoBinary \notin Artifact \cup {Old} \cup Caller
  /\ MaxAdbFailures \in Nat
  /\ MaxDeaths \in Nat

VARIABLES
  (* the device *)
  binary,      \* AGENT_REMOTE_BINARY
  rollback,    \* AGENT_REMOTE_ROLLBACK
  running,     \* the binary the Agent that runs was started from
  (* the desktop *)
  lock,        \* the caller in connect_artifact_inner
  line,        \* the callers that wait for the lock, in order: the mutex is fair
  step,        \* where each caller is
  artifact,    \* the artifact each caller resolves: the same while the desktop is not updated
  retry,       \* allow_version_retry
  changed,     \* AgentInstallOutcome of the round
  available,   \* ... its rollback_available
  again,       \* the round ended with a version mismatch and may be repeated
  adbFailures, deaths,
  (* history *)
  good,        \* binaries that were accepted and not removed on purpose
  forsaken     \* a promote dropped the copy when no binary was there to replace it

deviceVars == <<binary, rollback, running>>
roundVars == <<artifact, retry, changed, available, again>>
installVars == <<deviceVars, lock, line, step, roundVars, adbFailures, deaths, good, forsaken>>

Binary == Artifact \cup {Old, NoBinary}

InstallTypeOK ==
  /\ binary \in Binary
  /\ rollback \in Binary
  /\ running \in Binary
  /\ lock \in Caller \cup {NoBinary}
  /\ line \in Seq(Caller)
  /\ step \in [Caller -> {"idle", "wait", "stop", "check", "stage", "promote", "start",
                        "hello", "commit", "recover", "rollback", "invalidate"}]
  /\ artifact \in [Caller -> Binary]
  /\ retry \in [Caller -> BOOLEAN]
  /\ changed \in [Caller -> BOOLEAN]
  /\ available \in [Caller -> BOOLEAN]
  /\ again \in [Caller -> BOOLEAN]
  /\ adbFailures \in 0..MaxAdbFailures
  /\ deaths \in 0..MaxDeaths
  /\ good \in SUBSET Binary
  /\ forsaken \in BOOLEAN

InstallInit ==
  /\ binary \in {Old, NoBinary}
  /\ rollback = NoBinary
  /\ running \in {binary, NoBinary}
  /\ lock = NoBinary /\ line = <<>>
  /\ step = [c \in Caller |-> "idle"]
  /\ \E a \in Artifact : artifact = [c \in Caller |-> a]
  /\ retry = [c \in Caller |-> FALSE]
  /\ changed = [c \in Caller |-> FALSE]
  /\ available = [c \in Caller |-> FALSE]
  /\ again = [c \in Caller |-> FALSE]
  /\ adbFailures = 0 /\ deaths = 0
  /\ good = {binary} \ {NoBinary}
  /\ forsaken = FALSE

-----------------------------------------------------------------------------
Proceed(c, from, to) == step[c] = from /\ step' = [step EXCEPT ![c] = to]

\* An adb command did what it should, or did not, but its answer is a failure.
Fails == adbFailures < MaxAdbFailures /\ adbFailures' = adbFailures + 1
Fine == UNCHANGED adbFailures

Connect(c) ==
  /\ Proceed(c, "idle", "wait")
  /\ line' = Append(line, c)
  /\ retry' = [retry EXCEPT ![c] = TRUE]
  /\ UNCHANGED <<deviceVars, lock, artifact, changed, available, again, adbFailures, deaths,
                 good, forsaken>>

\* The lock; the session is not one that can be used again.
BeginRound(c) ==
  /\ Proceed(c, "wait", "stop")
  /\ lock = NoBinary /\ line # <<>> /\ Head(line) = c
  /\ lock' = c /\ line' = Tail(line)
  /\ again' = [again EXCEPT ![c] = FALSE]
  /\ UNCHANGED <<deviceVars, artifact, retry, changed, available, adbFailures, deaths,
                 good, forsaken>>

\* A round that fails before the Agent was started undoes nothing.
Abandon(c) == step' = [step EXCEPT ![c] = "idle"] /\ lock' = NoBinary

Stop(c) ==
  /\ step[c] = "stop"
  /\ \/ Proceed(c, "stop", "check") /\ running' = NoBinary /\ Fine /\ UNCHANGED lock
     \/ Abandon(c) /\ running' \in {running, NoBinary} /\ Fails
  /\ UNCHANGED <<line, binary, rollback, roundVars, deaths, good, forsaken>>

\* A plausible bug: what is there already is pushed once more.
CheckNothing(c) ==
  /\ step[c] = "check"
  /\ \/ Proceed(c, "check", "stage") /\ Fine /\ UNCHANGED lock
     \/ Abandon(c) /\ Fails
  /\ UNCHANGED <<line, deviceVars, roundVars, deaths, good, forsaken>>

\* The hashes on the device decide whether there is anything to push.
Check(c) ==
  /\ step[c] = "check"
  /\ \/ /\ binary = artifact[c]
        /\ changed' = [changed EXCEPT ![c] = FALSE]
        /\ available' = [available EXCEPT ![c] = rollback # NoBinary]
        /\ Proceed(c, "check", "start") /\ Fine /\ UNCHANGED lock
     \/ binary # artifact[c] /\ Proceed(c, "check", "stage") /\ Fine
          /\ UNCHANGED <<lock, changed, available>>
     \/ Abandon(c) /\ Fails /\ UNCHANGED <<changed, available>>
  /\ UNCHANGED <<line, deviceVars, artifact, retry, again, deaths, good, forsaken>>

\* Push to a staging file, chmod, compare the hash.  What cannot be verified
\* is removed and never promoted.
StageCandidate(c) ==
  /\ step[c] = "stage"
  /\ \/ Proceed(c, "stage", "promote") /\ Fine /\ UNCHANGED lock
     \/ Abandon(c) /\ Fails
  /\ UNCHANGED <<line, deviceVars, roundVars, deaths, good, forsaken>>

Promoted(c) == rollback' = binary /\ binary' = artifact[c]

\* The script ends after the copy was dropped, or after the binary became the copy:
\* it is cut, or what undoes a failed move fails as well.
PromotedPartly ==
  \/ rollback' = NoBinary /\ UNCHANGED binary
  \/ rollback' = binary /\ binary' = NoBinary

\* One shell script: drop the rollback copy, keep the binary as the new one,
\* move the staging file in, undo it when that fails.
Promote(c) ==
  /\ step[c] = "promote"
  /\ \/ /\ Promoted(c)
        /\ changed' = [changed EXCEPT ![c] = TRUE]
        /\ available' = [available EXCEPT ![c] = binary # NoBinary]
        /\ Proceed(c, "promote", "start") /\ Fine /\ UNCHANGED lock
     \/ /\ Promoted(c) \/ PromotedPartly \/ UNCHANGED <<binary, rollback>>
        /\ Abandon(c) /\ Fails /\ UNCHANGED <<changed, available>>
  /\ forsaken' = (forsaken \/ (binary = NoBinary /\ rollback' # rollback))
  /\ UNCHANGED <<line, running, artifact, retry, again, deaths, good>>

\* The token, nohup, adb forward.
StartBinary(c) ==
  /\ step[c] = "start"
  /\ \/ Proceed(c, "start", "hello") /\ running' = binary /\ Fine
     \/ Proceed(c, "start", "recover") /\ running' \in {running, binary} /\ Fails
  /\ UNCHANGED <<line, binary, rollback, lock, roundVars, deaths, good, forsaken>>

Hello(c) ==
  /\ step[c] = "hello"
  /\ running = artifact[c] /\ running \notin Mislabelled
  /\ Proceed(c, "hello", "commit")
  /\ good' = good \cup {running}
  /\ UNCHANGED <<line, deviceVars, lock, roundVars, adbFailures, deaths, forsaken>>

\* The hello tells another version than expected.
HelloMismatch(c) ==
  /\ running = artifact[c] /\ running \in Mislabelled
  /\ again' = [again EXCEPT ![c] = retry[c]]
  /\ Fine

\* Nothing runs that could answer.
HelloUnanswered(c) == running # artifact[c] /\ Fine /\ UNCHANGED again

\* The last way to fail is a transport that breaks.
HelloFails(c) ==
  /\ step[c] = "hello"
  /\ Proceed(c, "hello", "recover")
  /\ HelloMismatch(c) \/ HelloUnanswered(c) \/ (Fails /\ UNCHANGED again)
  /\ UNCHANGED <<line, deviceVars, lock, artifact, retry, changed, available, deaths,
                 good, forsaken>>

Accept(c) ==
  /\ step' = [step EXCEPT ![c] = "idle"]
  /\ lock' = NoBinary

\* commit_install, when there may be a rollback copy.
CommitCandidate(c) ==
  /\ step[c] = "commit"
  /\ \/ /\ rollback' = IF changed[c] \/ available[c] THEN NoBinary ELSE rollback
        /\ Accept(c) /\ Fine
     \/ /\ changed[c] \/ available[c]
        /\ rollback' \in {rollback, NoBinary}
        /\ Proceed(c, "commit", "recover") /\ Fails /\ UNCHANGED lock
  /\ UNCHANGED <<line, binary, running, roundVars, deaths, good, forsaken>>

-----------------------------------------------------------------------------
(* recover_failed_start and the second round. *)

RecoverStop(c) ==
  /\ Proceed(c, "recover", "rollback")
  /\ \/ running' = NoBinary /\ Fine
     \/ Fails /\ UNCHANGED running
  /\ UNCHANGED <<line, binary, rollback, lock, roundVars, deaths, good, forsaken>>

\* A plausible bug: the retry is made by the one who holds the lock.
EndRoundLocked(c) ==
  /\ step' = [step EXCEPT ![c] = IF again[c] THEN "invalidate" ELSE "idle"]
  /\ lock' = IF again[c] THEN lock ELSE NoBinary

\* The lock is released also when there is a second round.
EndRound(c) ==
  /\ step' = [step EXCEPT ![c] = IF again[c] THEN "invalidate" ELSE "idle"]
  /\ lock' = NoBinary

\* The script removes the binary first; it says that it restored the copy whether
\* the move that follows succeeds or not.
PutBack == binary' = rollback /\ rollback' = NoBinary
PutBackFails == binary' = NoBinary /\ UNCHANGED rollback

\* What becomes of the previous binary; the error tells the user the same.
RollBack(c) ==
  /\ step[c] = "rollback"
  /\ EndRound(c)
  /\ \/ /\ available[c] /\ rollback # NoBinary
        /\ PutBack /\ Fine
     \/ /\ available[c] /\ Fails
        /\ \/ rollback # NoBinary /\ (PutBack \/ PutBackFails)
           \/ UNCHANGED <<binary, rollback>>
     \/ /\ available[c] => rollback = NoBinary
        /\ Fine /\ UNCHANGED <<binary, rollback>>
  /\ UNCHANGED <<line, running, artifact, retry, changed, available, again, deaths, good,
                 forsaken>>

\* invalidate_remote_artifact runs with the lock free.  When the rollback of the
\* round failed, or another caller has promoted its artifact meanwhile, the copy
\* is all that works, and the next promote drops it: it finds no binary to keep.
Invalidate(c) ==
  /\ \/ /\ Proceed(c, "invalidate", "wait") /\ line' = Append(line, c)
        /\ binary' = NoBinary /\ Fine
     \/ /\ Proceed(c, "invalidate", "idle") /\ UNCHANGED line
        /\ binary' \in {binary, NoBinary} /\ Fails
  /\ retry' = [retry EXCEPT ![c] = FALSE]
  /\ good' = good \ ({binary} \ {binary'})
  /\ UNCHANGED <<rollback, running, lock, artifact, changed, available, again, deaths,
                 forsaken>>

\* The desktop dies; the device keeps its files and its Agent.
DesktopDies ==
  /\ deaths < MaxDeaths
  /\ deaths' = deaths + 1
  /\ step' = [c \in Caller |-> "idle"]
  /\ lock' = NoBinary /\ line' = <<>>
  /\ UNCHANGED <<deviceVars, roundVars, adbFailures, good, forsaken>>

-----------------------------------------------------------------------------
Round(c) ==
  \/ BeginRound(c) \/ Stop(c) \/ Check(c) \/ StageCandidate(c) \/ Promote(c) \/ StartBinary(c)
  \/ Hello(c) \/ HelloFails(c) \/ CommitCandidate(c) \/ RecoverStop(c) \/ RollBack(c)
  \/ Invalidate(c)

InstallNext == (\E c \in Caller : Connect(c) \/ Round(c)) \/ DesktopDies

InstallSpec == InstallInit /\ [][InstallNext]_installVars

\* Every adb command has a timeout.
InstallFairSpec == InstallSpec /\ \A c \in Caller : WF_installVars(Round(c))

-----------------------------------------------------------------------------
(* Properties. *)

\* Wherever a command or a script fails and whenever the desktop crashes, a device
\* that had an Agent that worked has one: under its own name or as the copy to roll
\* back to.  Two things take it away.  invalidate_remote_artifact does on purpose.
\* And promote drops the copy first, also when no binary is left to become the next
\* copy: one script before it was cut between its moves, failed to put the copy
\* back, or invalidate_remote_artifact removed the other binary.
KnownGoodKept == good # {} /\ ~forsaken => binary \in good \/ rollback \in good

\* Every connect ends, the one with a second round too: nobody waits for a
\* lock that he holds himself.
ConnectEnds == \A c \in Caller : []<>(step[c] = "idle")
=============================================================================
