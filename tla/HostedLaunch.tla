----------------------------- MODULE HostedLaunch -----------------------------
(***************************************************************************)
(* The desktop's side of a hosted program: hosted_run of                   *)
(* services/device_service.rs with the commands of adapters/adb.rs.  One   *)
(* program, on one or two devices.  A run looks whether the program runs,  *)
(* moves the old log away and starts it: by the Agent, or as root by a     *)
(* command under su, whose arguments and input are files that are pushed   *)
(* first, under names that all runs share.                                 *)
(*                                                                         *)
(* Every run starts at most one process, named like the run; Outsider is   *)
(* one that was started by hand.  Pids that are used again, and the table  *)
(* of the Agent as such, are in HostedPrograms.                            *)
(***************************************************************************)
EXTENDS Naturals

CONSTANTS
  Call,          \* the calls of hosted_run
  Outsider,
  NoOne,
  Phone,
  MaxUpsets     \* bound on adb commands that fail, su that refuses, comings and goings

ASSUME LaunchAssumption ==
  Outsider \notin Call /\ NoOne \notin Call \cup {Outsider} /\ MaxUpsets \in Nat

Process == Call \cup {Outsider}
File == {"args", "stdin"}

VARIABLES
  on, asRoot, carries,   \* of a run: its device, its branch, the files it brings
  at, todo,              \* where it is, the files it still has to push
  sees,                  \* it saw the program outside the table
  local, remote,         \* whose content the files have: in the temporary directory, on a device
  log,                   \* on each device: the owner of the log, and who wrote its last lines
  program, ran, out,     \* each process: its state, what it was given, the log it writes to
  script,                \* the command under su of a run
  table,                 \* on each device: the pids on record, with the arguments noted
  agentUp,
  said, cause,           \* what a run answered, and whose lines it quotes for a failure
  upsets,
  (* history *)
  crossed,               \* runs that met another one on the files they share
  unretired              \* runs whose old log could not be moved

runVars == <<on, asRoot, carries>>
fileVars == <<local, remote>>
programVars == <<program, ran, out>>
launchHistory == <<crossed, unretired>>
launchVars == <<runVars, at, todo, sees, fileVars, log, programVars, script, table, agentUp,
                said, cause, upsets, launchHistory>>

Log == [owner : {"none", "shell", "root"}, last : Process \cup {NoOne}]
NoLog == [owner |-> "none", last |-> NoOne]

LaunchTypeOK ==
  /\ on \in [Process -> Phone] /\ asRoot \in [Call -> BOOLEAN] /\ carries \in [Call -> SUBSET File]
  /\ at \in [Call -> {"idle", "look", "table", "retire", "start", "settle", "carry", "push",
                     "launch", "shell", "clean", "check", "adopt", "autopsy", "done"}]
  /\ todo \in [Call -> SUBSET File] /\ sees \in [Call -> BOOLEAN]
  /\ local \in [File -> Call \cup {NoOne}] /\ remote \in [Phone -> [File -> Call \cup {NoOne}]]
  /\ log \in [Phone -> Log]
  /\ program \in [Process -> {"none", "forked", "running", "gone"}]
  /\ ran \in [Process -> [File -> Call \cup {NoOne}]] /\ out \in [Process -> {"log", "elsewhere"}]
  /\ script \in [Call -> {"none", "begun", "forked", "over", "refused", "mute"}]
  /\ table \in [Phone -> SUBSET [pid : Process, args : Call]] /\ agentUp \in BOOLEAN
  /\ said \in [Call -> {"nothing", "already", "failed", "started", "untracked"}]
  /\ cause \in [Call -> Process \cup {NoOne}]

LaunchInit ==
  /\ on \in [Process -> Phone]
  /\ asRoot = [r \in Call |-> FALSE] /\ carries = [r \in Call |-> {}]
  /\ at = [r \in Call |-> "idle"] /\ todo = carries /\ sees = [r \in Call |-> FALSE]
  /\ local = [f \in File |-> NoOne] /\ remote = [d \in Phone |-> local]
  /\ log = [d \in Phone |-> NoLog]
  /\ program = [p \in Process |-> "none"] /\ ran = [p \in Process |-> local]
  /\ out = [p \in Process |-> "elsewhere"]
  /\ script = [r \in Call |-> "none"] /\ table = [d \in Phone |-> {}] /\ agentUp = TRUE
  /\ said = [r \in Call |-> "nothing"] /\ cause = [r \in Call |-> NoOne] /\ upsets = 0
  /\ crossed = {} /\ unretired = {}

-----------------------------------------------------------------------------
Upset == upsets < MaxUpsets /\ upsets' = upsets + 1
Calm == UNCHANGED upsets
Moves(r, from, to) == at[r] = from /\ at' = [at EXCEPT ![r] = to]
Tell(r, word) == said' = [said EXCEPT ![r] = word]
Untold == UNCHANGED <<said, cause>>
OnDevice(r) == remote[on[r]]
Quiet(r) == at[r] \in {"idle", "done"} /\ script[r] = "none" /\ program[r] # "forked"
Share(r, s) == on[r] = on[s] \/ carries'[r] \cap carries'[s] # {}

(* A call of hosted_run; the Agent takes arguments and input in its request. *)
Begin(r, root, files) ==
  /\ Moves(r, "idle", "look")
  /\ root \/ files = {}
  /\ asRoot' = [asRoot EXCEPT ![r] = root]
  /\ carries' = [carries EXCEPT ![r] = files] /\ todo' = [todo EXCEPT ![r] = files]
  /\ crossed' = crossed \cup UNION {{r, s} : s \in {s \in Call \ {r} : ~Quiet(s) /\ Share(r, s)}}
  /\ Calm /\ Untold
  /\ UNCHANGED <<on, sees, fileVars, log, programVars, script, table, agentUp, unretired>>

(* hosted_already_running asks the Agent twice; what cannot be asked is    *)
(* taken as "not running".                                                 *)
OnRecord(p) == \E e \in table[on[p]] : e.pid = p
RunsOn(d) == {p \in Process : on[p] = d /\ program[p] = "running"}
LookOutside(r) ==
  /\ Moves(r, "look", "table")
  /\ sees' = [sees EXCEPT ![r] = agentUp /\ \E p \in RunsOn(on[r]) : ~OnRecord(p)]
  /\ Calm /\ Untold
  /\ UNCHANGED <<runVars, todo, fileVars, log, programVars, script, table, agentUp, launchHistory>>

LookInTable(r) ==
  /\ IF sees[r] \/ (agentUp /\ \E p \in RunsOn(on[r]) : OnRecord(p))
     THEN Moves(r, "table", "done") /\ Tell(r, "already")
     ELSE Moves(r, "table", "retire") /\ UNCHANGED said
  /\ Calm
  /\ UNCHANGED <<runVars, todo, sees, fileVars, log, programVars, script, table, agentUp, cause,
                 launchHistory>>

-----------------------------------------------------------------------------
AfterRetire(r) == IF ~asRoot[r] THEN "start" ELSE IF carries[r] = {} THEN "launch" ELSE "carry"
RetireNothing(r) ==
  /\ Moves(r, "retire", AfterRetire(r))
  /\ Calm /\ Untold
  /\ UNCHANGED <<runVars, todo, sees, fileVars, log, programVars, script, table, agentUp,
                 launchHistory>>

(* The log is renamed to .prev; who writes to it goes on there.  A run     *)
(* whose command failed goes on too.                                       *)
Retire(r) ==
  /\ Moves(r, "retire", AfterRetire(r))
  /\ log' = [log EXCEPT ![on[r]] = NoLog]
  /\ out' = [p \in Process |-> IF on[p] = on[r] THEN "elsewhere" ELSE out[p]]
  /\ Calm /\ Untold
  /\ UNCHANGED <<runVars, todo, sees, fileVars, program, ran, script, table, agentUp, launchHistory>>

RetireFails(r) ==
  /\ Moves(r, "retire", AfterRetire(r)) /\ Upset
  /\ unretired' = unretired \cup {r}
  /\ Untold
  /\ UNCHANGED <<runVars, todo, sees, fileVars, log, programVars, script, table, agentUp, crossed>>

(* hosted.start of the Agent: it appends to the log, which it cannot open  *)
(* when it is root's, and has the record at once.                          *)
CanStart(r) == agentUp /\ log[on[r]].owner # "root"
AgentStarts(r) ==
  /\ CanStart(r) /\ Moves(r, "start", "settle")
  /\ program' = [program EXCEPT ![r] = "running"]
  /\ ran' = [ran EXCEPT ![r] = [f \in File |-> r]]
  /\ out' = [out EXCEPT ![r] = "log"]
  /\ log' = [log EXCEPT ![on[r]].owner = "shell"]
  /\ table' = [table EXCEPT ![on[r]] = @ \cup {[pid |-> r, args |-> r]}]
  /\ Calm /\ Untold
  /\ UNCHANGED <<runVars, todo, sees, fileVars, script, agentUp, launchHistory>>

Gives(r, from) ==
  /\ Moves(r, from, "done") /\ Tell(r, "failed")
  /\ UNCHANGED <<runVars, todo, sees, fileVars, log, programVars, table, agentUp, cause,
                 launchHistory>>
AgentRefuses(r) == ~CanStart(r) /\ Gives(r, "start") /\ Calm /\ UNCHANGED script

(* hosted.status after 300 ms. *)
Settles(r) ==
  /\ agentUp
  /\ IF program[r] = "running" THEN Moves(r, "settle", "done") /\ Tell(r, "started")
     ELSE Moves(r, "settle", "autopsy") /\ UNCHANGED said
  /\ Calm
  /\ UNCHANGED <<runVars, todo, sees, fileVars, log, programVars, script, table, agentUp, cause,
                 launchHistory>>
LosesAgent(r) == ~agentUp /\ Gives(r, "settle") /\ Calm /\ UNCHANGED script

(* read_hosted_log: the tail of what is the log now, or nothing. *)
Autopsy(r) ==
  /\ Moves(r, "autopsy", "done") /\ Tell(r, "failed")
  /\ \E lines \in {log[on[r]].last, NoOne} : cause' = [cause EXCEPT ![r] = lines]
  /\ Calm
  /\ UNCHANGED <<runVars, todo, sees, fileVars, log, programVars, script, table, agentUp,
                 launchHistory>>

-----------------------------------------------------------------------------
(* push_carried_files: the arguments and then the input, each through a    *)
(* file of the temporary directory, which is named after the program.      *)
FirstTodo(r) == IF "args" \in todo[r] THEN "args" ELSE "stdin"
WriteLocal(r) ==
  /\ Moves(r, "carry", "push")
  /\ local' = [local EXCEPT ![FirstTodo(r)] = r]
  /\ Calm /\ Untold
  /\ UNCHANGED <<runVars, todo, sees, remote, log, programVars, script, table, agentUp,
                 launchHistory>>

(* The files it wrote are removed when it is done with them, or fails. *)
Tidied(r, written) == [f \in File |-> IF f \in written THEN NoOne ELSE local[f]]
Push(r) ==
  LET f == FirstTodo(r) rest == todo[r] \ {f} IN
  /\ local[f] # NoOne
  /\ Moves(r, "push", IF rest = {} THEN "launch" ELSE "carry")
  /\ remote' = [remote EXCEPT ![on[r]][f] = local[f]]
  /\ todo' = [todo EXCEPT ![r] = rest]
  /\ local' = IF rest = {} THEN Tidied(r, carries[r]) ELSE local
  /\ Calm /\ Untold
  /\ UNCHANGED <<runVars, sees, log, programVars, script, table, agentUp, launchHistory>>

(* A file that cannot be made, or not written to its end, is not among     *)
(* those that are removed.                                                 *)
WriteLocalFails(r) ==
  /\ Moves(r, "carry", "clean") /\ Upset
  /\ \E made \in SUBSET {FirstTodo(r)} :
       local' = [f \in File |-> IF f \in made THEN r ELSE Tidied(r, carries[r] \ todo[r])[f]]
  /\ Untold
  /\ UNCHANGED <<runVars, todo, sees, remote, log, programVars, script, table, agentUp,
                 launchHistory>>

PushFails(r) ==
  /\ Moves(r, "push", "clean")
  /\ IF local[FirstTodo(r)] = NoOne THEN Calm ELSE Upset
  /\ local' = Tidied(r, (carries[r] \ todo[r]) \cup {FirstTodo(r)})
  /\ Untold
  /\ UNCHANGED <<runVars, todo, sees, remote, log, programVars, script, table, agentUp,
                 launchHistory>>

(* rm_carried_files, after which the run fails; its own failure is ignored. *)
Emptied(r, files) == [remote EXCEPT ![on[r]] = [f \in File |-> IF f \in files THEN NoOne ELSE @[f]]]
Clean(r) ==
  /\ Moves(r, "clean", "done") /\ Tell(r, "failed")
  /\ remote' = Emptied(r, carries[r]) \/ UNCHANGED remote
  /\ Calm
  /\ UNCHANGED <<runVars, todo, sees, local, log, programVars, script, table, agentUp, cause,
                 launchHistory>>

-----------------------------------------------------------------------------
Launch(r) ==
  /\ Moves(r, "launch", "shell")
  /\ script' = [script EXCEPT ![r] = "begun"]
  /\ Calm /\ Untold
  /\ UNCHANGED <<runVars, todo, sees, fileVars, log, programVars, table, agentUp, launchHistory>>

Idle == UNCHANGED <<runVars, at, todo, sees, said, cause, table, agentUp>>

(* hosted_run_cmd: the arguments are read, the program goes to the         *)
(* background, its pid is printed, and the files are removed.              *)
ShellForks(r) ==
  /\ script[r] = "begun"
  /\ script' = [script EXCEPT ![r] = "forked"]
  /\ program' = [program EXCEPT ![r] = "forked"]
  /\ ran' = [ran EXCEPT ![r].args = IF "args" \in carries[r] THEN OnDevice(r).args ELSE r]
  /\ Calm /\ Idle
  /\ UNCHANGED <<fileVars, log, out, launchHistory>>

ShellRemoves(r) ==
  /\ script[r] = "forked"
  /\ script' = [script EXCEPT ![r] = IF at[r] = "shell" THEN "over" ELSE "none"]
  /\ remote' = IF carries[r] = {} THEN remote ELSE Emptied(r, File)
  /\ Calm /\ Idle
  /\ UNCHANGED <<local, log, programVars, launchHistory>>

(* su says no with its exit code, or only in words. *)
SuRefuses(r) ==
  /\ script[r] = "begun" /\ Upset
  /\ \E how \in {"refused", "mute"} :
       script' = [script EXCEPT ![r] = IF at[r] = "shell" THEN how ELSE "none"]
  /\ Idle
  /\ UNCHANGED <<fileVars, log, programVars, launchHistory>>

(* The process in the background opens its input and its log, in this      *)
(* order, and becomes the program.  Nothing makes it do so before the      *)
(* files are removed; without its input it ends.                           *)
Opens(r) ==
  LET input == IF "stdin" \in carries[r] THEN OnDevice(r).stdin ELSE r IN
  /\ program[r] = "forked"
  /\ IF input = NoOne
     THEN program' = [program EXCEPT ![r] = "gone"] /\ UNCHANGED <<ran, out, log>>
     ELSE /\ program' = [program EXCEPT ![r] = "running"]
          /\ ran' = [ran EXCEPT ![r].stdin = input]
          /\ out' = [out EXCEPT ![r] = "log"]
          /\ log' = [log EXCEPT ![on[r]] = [owner |-> IF @.owner = "none" THEN "root" ELSE @.owner,
                                            last |-> NoOne]]
  /\ Calm /\ Idle
  /\ UNCHANGED <<fileVars, script, launchHistory>>

(* adb shell returns: with the pid, with an exit code, or without either.  *)
(* Only the last of the failures removes what was pushed.                  *)
ShellReturns(r) ==
  /\ script[r] \in {"over", "mute"}
  /\ Moves(r, "shell", IF script[r] = "over" THEN "check" ELSE "clean")
  /\ script' = [script EXCEPT ![r] = "none"]
  /\ Calm /\ Untold
  /\ UNCHANGED <<runVars, todo, sees, fileVars, log, programVars, table, agentUp, launchHistory>>
ShellRefused(r) ==
  /\ script[r] = "refused" /\ Gives(r, "shell")
  /\ script' = [script EXCEPT ![r] = "none"] /\ Calm

(* adb breaks off while the command may go on. *)
ShellLost(r) ==
  /\ Moves(r, "shell", "clean") /\ Upset
  /\ script' = [script EXCEPT ![r] = IF @ \in {"over", "refused", "mute"} THEN "none" ELSE @]
  /\ Untold
  /\ UNCHANGED <<runVars, todo, sees, fileVars, log, programVars, table, agentUp, launchHistory>>

(* kill -0 as root, 0.3 s later. *)
Check(r) ==
  /\ Moves(r, "check", IF program[r] = "gone" THEN "autopsy" ELSE "adopt")
  /\ Calm /\ Untold
  /\ UNCHANGED <<runVars, todo, sees, fileVars, log, programVars, script, table, agentUp,
                 launchHistory>>
(* Whatever is not "alive" is taken for a death: also when su refuses the  *)
(* check of a program that runs.                                           *)
CheckRefused(r) ==
  /\ Moves(r, "check", "autopsy") /\ Upset
  /\ Untold
  /\ UNCHANGED <<runVars, todo, sees, fileVars, log, programVars, script, table, agentUp,
                 launchHistory>>
CheckFails(r) == Upset /\ Gives(r, "check") /\ UNCHANGED script

(* hosted_adopt; the Agent takes only what runs under that name. *)
Adopt(r) ==
  /\ Moves(r, "adopt", "done")
  /\ IF agentUp /\ program[r] = "running"
     THEN /\ table' = [table EXCEPT ![on[r]] = @ \cup {[pid |-> r, args |-> r]}]
          /\ Tell(r, "started")
     ELSE Tell(r, "untracked") /\ UNCHANGED table
  /\ Calm
  /\ UNCHANGED <<runVars, todo, sees, fileVars, log, programVars, script, agentUp, cause,
                 launchHistory>>

-----------------------------------------------------------------------------
(* Programs write and end; somebody starts one by hand; the Agent goes and *)
(* comes; the desktop quits.                                               *)
Writes(p) ==
  /\ program[p] = "running" /\ out[p] = "log"
  /\ log' = [log EXCEPT ![on[p]].last = p]
  /\ Calm /\ Idle
  /\ UNCHANGED <<fileVars, programVars, script, launchHistory>>
Exits(p) ==
  /\ program[p] = "running"
  /\ program' = [program EXCEPT ![p] = "gone"]
  /\ Calm /\ Idle
  /\ UNCHANGED <<fileVars, log, ran, out, script, launchHistory>>
ByHand ==
  /\ Upset /\ program[Outsider] = "none"
  /\ program' = [program EXCEPT ![Outsider] = "running"]
  /\ Idle
  /\ UNCHANGED <<fileVars, log, ran, out, script, launchHistory>>
AgentGoesOrComes ==
  /\ Upset /\ agentUp' = ~agentUp
  /\ Untold
  /\ UNCHANGED <<runVars, at, todo, sees, fileVars, log, programVars, script, table, launchHistory>>
DesktopQuits ==
  /\ Upset
  /\ at' = [r \in Call |-> IF at[r] = "idle" THEN "idle" ELSE "done"]
  /\ script' = [r \in Call |-> IF script[r] \in {"begun", "forked"} THEN script[r] ELSE "none"]
  /\ Untold
  /\ UNCHANGED <<runVars, todo, sees, fileVars, log, programVars, table, agentUp, launchHistory>>

Goes(r) ==
  \/ LookOutside(r) \/ LookInTable(r) \/ Retire(r) \/ RetireFails(r)
  \/ AgentStarts(r) \/ AgentRefuses(r) \/ Settles(r) \/ LosesAgent(r) \/ Autopsy(r)
  \/ WriteLocal(r) \/ WriteLocalFails(r) \/ Push(r) \/ PushFails(r) \/ Clean(r)
  \/ Launch(r) \/ ShellReturns(r) \/ ShellRefused(r) \/ ShellLost(r)
  \/ Check(r) \/ CheckRefused(r) \/ CheckFails(r) \/ Adopt(r)
OnTheDevice(r) == ShellForks(r) \/ ShellRemoves(r) \/ SuRefuses(r) \/ Opens(r)

LaunchNext ==
  \/ \E r \in Call : \/ \E root \in BOOLEAN, files \in SUBSET File : Begin(r, root, files)
                    \/ Goes(r) \/ OnTheDevice(r)
  \/ \E p \in Process : Writes(p) \/ Exits(p)
  \/ ByHand \/ AgentGoesOrComes \/ DesktopQuits
LaunchSpec == LaunchInit /\ [][LaunchNext]_launchVars

-----------------------------------------------------------------------------
(* What the table and the answers say is true of the process that the run  *)
(* started: it was given the arguments on record and the input that was    *)
(* typed, and the lines quoted for its death are its own.  Files that      *)
(* earlier runs left, logs of another owner and failures in between do not *)
(* change that.  A run that was answered "failed" since adb broke off may  *)
(* have started a program without arguments.  Excepted are runs that share *)
(* files with another one at the same time, and logs that could not be     *)
(* moved.                                                                  *)
ReportIsItsOwn ==
  \A r \in Call \ crossed :
    /\ OnRecord(r) \/ said[r] \in {"started", "untracked"} => ran[r].args = r
    /\ program[r] = "running" => ran[r].stdin = r
    /\ r \notin unretired => cause[r] \in {r, NoOne}
===============================================================================
