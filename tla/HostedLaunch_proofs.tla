------------------------- MODULE HostedLaunch_proofs -------------------------
(***************************************************************************)
(* What the desktop reports of a hosted program is its own, for any number *)
(* of runs, devices and failures.  That is not inductive: the arguments,   *)
(* the input and the log pass through files that all runs share.  The      *)
(* invariant follows them: a run that shares with no other one at the same *)
(* time finds in them what it put there, or nothing.                       *)
(***************************************************************************)
EXTENDS HostedLaunch, TLAPS

\* Nothing of the call runs on the device yet.
Before == {"idle", "look", "table", "retire", "start", "carry", "push", "launch"}
\* It has moved the old log away, or tried to.
Retired ==
  {"start", "settle", "carry", "push", "launch", "shell", "clean", "check", "adopt", "autopsy"}
\* The table, or the answer, says that the program of the call runs.
Told(r) == OnRecord(r) \/ said[r] \in {"started", "untracked"}
\* The files it has pushed so far.
Brought(r) == carries[r] \ todo[r]

Meets(r, s) == on[r] = on[s] \/ carries[r] \cap carries[s] # {}
\* Whoever meets an uncrossed call is quiet while that one is not.
Apart(r) == \A s \in Call \ {r} : ~Quiet(r) /\ ~Quiet(s) => ~Meets(r, s)

\* Of one call by itself: what its place says of its script, its program and its files.
StepInv(r) ==
  /\ at[r] \in Before => script[r] = "none" /\ program[r] = "none" /\ ~OnRecord(r)
  /\ at[r] \in {"settle", "check", "adopt", "autopsy"} => script[r] = "none"
  /\ at[r] # "done" => said[r] = "nothing"
  /\ Told(r) => script[r] = "none" /\ at[r] \in {"settle", "autopsy", "done"}
  /\ todo[r] \subseteq carries[r]
  /\ at[r] = "idle" => carries[r] = {}
  /\ at[r] \in {"look", "table", "retire"} => todo[r] = carries[r]
  /\ at[r] \in {"carry", "push"} => todo[r] # {}
  /\ at[r] = "launch" \/ script[r] # "none" \/ program[r] = "forked" => todo[r] = {}

\* What it pushed is its own or gone, and until the shell has read it, its own.
FileInv(r) ==
  /\ ~Quiet(r) => \A f \in Brought(r) : OnDevice(r)[f] \in {r, NoOne}
  /\ at[r] \in {"carry", "push", "launch"} \/ (at[r] = "shell" /\ script[r] = "begun") =>
       \A f \in Brought(r) : OnDevice(r)[f] = r
  /\ at[r] = "push" => local[FirstTodo(r)] = r

\* What its process was given.
ProcessInv(r) ==
  /\ at[r] = "shell" /\ script[r] \in {"forked", "over"} => ran[r].args = r
  /\ at[r] \in {"settle", "check", "adopt"} \/ Told(r) => ran[r].args = r
  /\ program[r] = "running" => ran[r].stdin = r

\* Once the old log is moved away nobody else writes to the log on that device.
LogInv(r) ==
  /\ cause[r] \in {r, NoOne}
  /\ at[r] \in Retired =>
       /\ log[on[r]].last \in {r, NoOne}
       /\ \A p \in Process \ {r} : on[p] = on[r] => out[p] = "elsewhere"

LaunchInv ==
  /\ LaunchTypeOK
  /\ \A r \in Call : StepInv(r)
  /\ \A r \in Call \ crossed : Apart(r) /\ FileInv(r) /\ ProcessInv(r)
  /\ \A r \in Call \ (crossed \cup unretired) : LogInv(r)

\* Changes of one field keep to the type, and to the other field.
LEMMA LastSet ==
  ASSUME NEW l \in Log, NEW p \in Process \cup {NoOne}
  PROVE  [l EXCEPT !.last = p] \in Log /\ [l EXCEPT !.last = p].last = p
BY DEF Log

LEMMA OwnerSet ==
  ASSUME NEW l \in Log, NEW w \in {"none", "shell", "root"}
  PROVE  [l EXCEPT !.owner = w] \in Log /\ [l EXCEPT !.owner = w].last = l.last
BY DEF Log

LEMMA GivenSet ==
  ASSUME NEW X, NEW g \in [File -> X], NEW x \in X
  PROVE  [g EXCEPT !.args = x] \in [File -> X] /\ [g EXCEPT !.stdin = x] \in [File -> X]
BY DEF File

\* WriteLocal, Push and PushFails work on a file that is still to be pushed.
LEMMA FirstTodoIsThere ==
  ASSUME LaunchTypeOK, NEW r \in Call, todo[r] # {}
  PROVE  FirstTodo(r) \in todo[r] /\ FirstTodo(r) \in File
BY DEF LaunchTypeOK, FirstTodo, File

\* What the steps that write to the log make of it.
LEMMA AgentOwnsTheLog ==
  ASSUME LaunchTypeOK, NEW r \in Call, AgentStarts(r)
  PROVE  log' \in [Phone -> Log] /\ \A e \in Phone : log'[e].last = log[e].last
<1> DEFINE l == [log[on[r]] EXCEPT !.owner = "shell"]
<1>1. on[r] \in Phone /\ log[on[r]] \in Log
  BY DEF LaunchTypeOK, Process
<1>2. l \in Log /\ l.last = log[on[r]].last
  BY <1>1, OwnerSet
<1>3. log' = [log EXCEPT ![on[r]] = l]
  BY DEF AgentStarts
<1> HIDE DEF l
<1> QED
  BY <1>1, <1>2, <1>3 DEF LaunchTypeOK

LEMMA ProgramWrites ==
  ASSUME LaunchTypeOK, NEW p \in Process, Writes(p)
  PROVE  /\ log' \in [Phone -> Log] /\ log'[on[p]].last = p
         /\ \A e \in Phone \ {on[p]} : log'[e] = log[e]
<1> DEFINE l == [log[on[p]] EXCEPT !.last = p]
<1>1. on[p] \in Phone /\ log[on[p]] \in Log
  BY DEF LaunchTypeOK
<1>2. l \in Log /\ l.last = p
  BY <1>1, LastSet
<1>3. log' = [log EXCEPT ![on[p]] = l]
  BY DEF Writes
<1> HIDE DEF l
<1> QED
  BY <1>1, <1>2, <1>3 DEF LaunchTypeOK

LEMMA ProgramOpensTheLog ==
  ASSUME LaunchTypeOK, NEW r \in Call, Opens(r)
  PROVE  /\ log' \in [Phone -> Log] /\ log'[on[r]].last \in {NoOne, log[on[r]].last}
         /\ \A e \in Phone \ {on[r]} : log'[e] = log[e]
<1> DEFINE l == [owner |-> IF log[on[r]].owner = "none" THEN "root" ELSE log[on[r]].owner,
                 last |-> NoOne]
<1>1. on[r] \in Phone /\ log[on[r]] \in Log
  BY DEF LaunchTypeOK, Process
<1>2. l \in Log /\ l.last = NoOne
  BY <1>1 DEF Log
<1>3. log' = [log EXCEPT ![on[r]] = l] \/ log' = log
  BY DEF Opens
<1> HIDE DEF l
<1> QED
  BY <1>1, <1>2, <1>3 DEF LaunchTypeOK

\* What a process is given is a call's, or nothing.
LEMMA ProgramIsGiven ==
  ASSUME LaunchTypeOK, NEW r \in Call, ShellForks(r) \/ Opens(r)
  PROVE  ran' \in [Process -> [File -> Call \cup {NoOne}]]
<1> USE DEF Process
<1>1. ran[r] \in [File -> Call \cup {NoOne}] /\ OnDevice(r) \in [File -> Call \cup {NoOne}]
  BY DEF LaunchTypeOK, OnDevice
<1>2. CASE ShellForks(r)
  <2> DEFINE x == IF "args" \in carries[r] THEN OnDevice(r).args ELSE r
             g == [ran[r] EXCEPT !.args = x]
  <2>1. x \in Call \cup {NoOne}
    BY <1>1 DEF File
  <2>2. ran' = [ran EXCEPT ![r] = g]
    BY <1>2 DEF ShellForks
  <2> HIDE DEF x
  <2>3. g \in [File -> Call \cup {NoOne}]
    BY <1>1, <2>1, GivenSet
  <2> HIDE DEF g
  <2> QED
    BY <2>2, <2>3 DEF LaunchTypeOK
<1>3. CASE Opens(r)
  <2> DEFINE x == IF "stdin" \in carries[r] THEN OnDevice(r).stdin ELSE r
             g == [ran[r] EXCEPT !.stdin = x]
  <2>1. x \in Call \cup {NoOne}
    BY <1>1 DEF File
  <2>2. ran' = [ran EXCEPT ![r] = g] \/ ran' = ran
    BY <1>3 DEF Opens
  <2> HIDE DEF x
  <2>3. g \in [File -> Call \cup {NoOne}]
    BY <1>1, <2>1, GivenSet
  <2> HIDE DEF g
  <2> QED
    BY <2>2, <2>3 DEF LaunchTypeOK
<1> QED
  BY <1>2, <1>3

\* What a call has on the device and in the temporary directory stays, unless somebody who
\* shares it writes there.
LEMMA FilesStay ==
  ASSUME LaunchInv, NEW d \in Call \ crossed, UNCHANGED <<on, carries>>,
         todo'[d] = todo[d], at'[d] = at[d], script'[d] = script[d], program'[d] = program[d],
         ~Quiet(d) => OnDevice(d)' = OnDevice(d),
         at[d] = "push" => local'[FirstTodo(d)] = local[FirstTodo(d)]
  PROVE  FileInv(d)'
<1>1. Brought(d)' = Brought(d) /\ FirstTodo(d)' = FirstTodo(d) /\ (Quiet(d)' <=> Quiet(d))
  BY DEF Brought, FirstTodo, Quiet
<1>2. FileInv(d)
  BY DEF LaunchInv
<1>3. CASE Quiet(d)
  BY <1>1, <1>3 DEF FileInv, Quiet
<1>4. CASE ~Quiet(d)
  BY <1>1, <1>2, <1>4 DEF FileInv
<1> QED
  BY <1>3, <1>4

\* A call that shares nothing with another one does not meet its files.
LEMMA CallsKeepApart ==
  ASSUME LaunchInv, NEW d \in Call \ crossed, NEW r \in Call \ {d}, ~Quiet(d), ~Quiet(r)
  PROVE  /\ on[d] # on[r] /\ carries[d] \cap carries[r] = {}
         /\ at[d] = "push" => FirstTodo(d) \in File \ carries[r]
<1>1. on[d] # on[r] /\ carries[d] \cap carries[r] = {}
  BY DEF LaunchInv, Apart, Meets
<1>2. at[d] = "push" => FirstTodo(d) \in todo[d] /\ FirstTodo(d) \in File
  BY FirstTodoIsThere DEF LaunchInv, StepInv
<1>3. todo[d] \subseteq carries[d]
  BY DEF LaunchInv, StepInv
<1> QED
  BY <1>1, <1>2, <1>3

\* Every step keeps to the types.
LEMMA LaunchNextType ==
  ASSUME LaunchInv, LaunchNext
  PROVE  LaunchTypeOK'
<1> USE LaunchAssumption DEF Process, File
<1>1. ASSUME NEW r \in Call, NEW root \in BOOLEAN, NEW files \in SUBSET File, Begin(r, root,
     files) PROVE LaunchTypeOK'
  BY <1>1 DEF LaunchInv, LaunchTypeOK, Begin, Moves, Untold, Calm, fileVars, programVars
<1>2. ASSUME NEW r \in Call, LookOutside(r) PROVE LaunchTypeOK'
  BY <1>2 DEF LaunchInv, LaunchTypeOK, LookOutside, Moves, Untold, Calm, runVars, fileVars,
     programVars, launchHistory
<1>3. ASSUME NEW r \in Call, LookInTable(r) PROVE LaunchTypeOK'
  BY <1>3 DEF LaunchInv, LaunchTypeOK, LookInTable, Moves, Calm, Tell, runVars, fileVars,
     programVars, launchHistory
<1>4. ASSUME NEW r \in Call, Retire(r) PROVE LaunchTypeOK'
  <2>1. log' \in [Phone -> Log]
    BY <1>4 DEF LaunchInv, LaunchTypeOK, Retire, Moves, Untold, Calm, AfterRetire, runVars,
       fileVars, launchHistory, Log, NoLog
  <2> QED
    BY <1>4, <2>1 DEF LaunchInv, LaunchTypeOK, Retire, Moves, Untold, Calm, AfterRetire,
       runVars, fileVars, launchHistory
<1>5. ASSUME NEW r \in Call, RetireFails(r) PROVE LaunchTypeOK'
  BY <1>5 DEF LaunchInv, LaunchTypeOK, RetireFails, Moves, Untold, Upset, AfterRetire, runVars,
     fileVars, programVars
<1>6. ASSUME NEW r \in Call, AgentStarts(r) PROVE LaunchTypeOK'
  <2>1. /\ on[r] \in Phone /\ table[on[r]] \in SUBSET [pid : Process, args : Call]
        /\ [pid |-> r, args |-> r] \in [pid : Process, args : Call]
    BY DEF LaunchInv, LaunchTypeOK
  <2>2. \/ table' = table
        \/ table' = [table EXCEPT ![on[r]] = table[on[r]] \cup {[pid |-> r, args |-> r]}]
    BY <1>6 DEF AgentStarts
  <2>3. table' \in [Phone -> SUBSET [pid : Process, args : Call]]
    BY <2>1, <2>2 DEF LaunchInv, LaunchTypeOK
  <2>4. log' \in [Phone -> Log]
    BY <1>6, AgentOwnsTheLog DEF LaunchInv
  <2>5. /\ ran' \in [Process -> [File -> Call \cup {NoOne}]]
        /\ out' \in [Process -> {"log", "elsewhere"}]
    BY <1>6 DEF LaunchInv, LaunchTypeOK, AgentStarts
  <2> QED
    BY <1>6, <2>3, <2>4, <2>5 DEF LaunchInv, LaunchTypeOK, AgentStarts, Moves, Untold, Calm,
       runVars, fileVars, launchHistory
<1>7. ASSUME NEW r \in Call, AgentRefuses(r) PROVE LaunchTypeOK'
  BY <1>7 DEF LaunchInv, LaunchTypeOK, AgentRefuses, Moves, Calm, Tell, Gives, runVars,
     fileVars, programVars, launchHistory
<1>8. ASSUME NEW r \in Call, Settles(r) PROVE LaunchTypeOK'
  BY <1>8 DEF LaunchInv, LaunchTypeOK, Settles, Moves, Calm, Tell, runVars, fileVars,
     programVars, launchHistory
<1>9. ASSUME NEW r \in Call, LosesAgent(r) PROVE LaunchTypeOK'
  BY <1>9 DEF LaunchInv, LaunchTypeOK, LosesAgent, Moves, Calm, Tell, Gives, runVars, fileVars,
     programVars, launchHistory
<1>10. ASSUME NEW r \in Call, Autopsy(r) PROVE LaunchTypeOK'
  <2>1. log[on[r]].last \in Process \cup {NoOne}
    BY DEF LaunchInv, LaunchTypeOK, Log
  <2> QED
    BY <1>10, <2>1 DEF LaunchInv, LaunchTypeOK, Autopsy, Moves, Calm, Tell, runVars, fileVars,
       programVars, launchHistory
<1>11. ASSUME NEW r \in Call, WriteLocal(r) PROVE LaunchTypeOK'
  BY <1>11 DEF LaunchInv, LaunchTypeOK, WriteLocal, Moves, Untold, Calm, runVars, programVars,
     launchHistory
<1>11a. ASSUME NEW r \in Call, WriteLocalFails(r) PROVE LaunchTypeOK'
  BY <1>11a DEF LaunchInv, LaunchTypeOK, WriteLocalFails, Moves, Untold, Upset, Tidied,
     FirstTodo, runVars, programVars, launchHistory
<1>12. ASSUME NEW r \in Call, Push(r) PROVE LaunchTypeOK'
  <2>1. remote' \in [Phone -> [File -> Call \cup {NoOne}]]
    BY <1>12 DEF LaunchInv, LaunchTypeOK, Push, Moves, Untold, Calm, Tidied, runVars,
       programVars, launchHistory, FirstTodo
  <2> QED
    BY <1>12, <2>1 DEF LaunchInv, LaunchTypeOK, Push, Moves, Untold, Calm, Tidied, runVars,
       programVars, launchHistory, FirstTodo
<1>13. ASSUME NEW r \in Call, PushFails(r) PROVE LaunchTypeOK'
  BY <1>13 DEF LaunchInv, LaunchTypeOK, PushFails, Moves, Untold, Calm, Upset, Tidied, runVars,
     programVars, launchHistory
<1>14. ASSUME NEW r \in Call, Clean(r) PROVE LaunchTypeOK'
  <2> DEFINE g == [f \in File |-> IF f \in carries[r] THEN NoOne ELSE remote[on[r]][f]]
  <2>1. remote' = remote \/ remote' = [remote EXCEPT ![on[r]] = g]
    BY <1>14 DEF Clean, Emptied
  <2>2. on[r] \in Phone /\ g \in [File -> Call \cup {NoOne}]
    BY DEF LaunchInv, LaunchTypeOK
  <2> HIDE DEF g
  <2>3. remote' \in [Phone -> [File -> Call \cup {NoOne}]]
    BY <2>1, <2>2 DEF LaunchInv, LaunchTypeOK
  <2> QED
    BY <1>14, <2>3 DEF LaunchInv, LaunchTypeOK, Clean, Moves, Calm, Tell, Emptied, runVars,
       programVars, launchHistory
<1>15. ASSUME NEW r \in Call, Launch(r) PROVE LaunchTypeOK'
  BY <1>15 DEF LaunchInv, LaunchTypeOK, Launch, Moves, Untold, Calm, runVars, fileVars,
     programVars, launchHistory
<1>16. ASSUME NEW r \in Call, ShellReturns(r) PROVE LaunchTypeOK'
  BY <1>16 DEF LaunchInv, LaunchTypeOK, ShellReturns, Moves, Untold, Calm, runVars, fileVars,
     programVars, launchHistory
<1>17. ASSUME NEW r \in Call, ShellRefused(r) PROVE LaunchTypeOK'
  BY <1>17 DEF LaunchInv, LaunchTypeOK, ShellRefused, Moves, Calm, Tell, Gives, runVars,
     fileVars, programVars, launchHistory
<1>18. ASSUME NEW r \in Call, ShellLost(r) PROVE LaunchTypeOK'
  BY <1>18 DEF LaunchInv, LaunchTypeOK, ShellLost, Moves, Untold, Upset, runVars, fileVars,
     programVars, launchHistory
<1>19. ASSUME NEW r \in Call, Check(r) PROVE LaunchTypeOK'
  BY <1>19 DEF LaunchInv, LaunchTypeOK, Check, Moves, Untold, Calm, runVars, fileVars,
     programVars, launchHistory
<1>19a. ASSUME NEW r \in Call, CheckRefused(r) PROVE LaunchTypeOK'
  BY <1>19a DEF LaunchInv, LaunchTypeOK, CheckRefused, Moves, Untold, Upset, runVars, fileVars,
     programVars, launchHistory
<1>20. ASSUME NEW r \in Call, CheckFails(r) PROVE LaunchTypeOK'
  BY <1>20 DEF LaunchInv, LaunchTypeOK, CheckFails, Moves, Upset, Tell, Gives, runVars,
     fileVars, programVars, launchHistory
<1>21. ASSUME NEW r \in Call, Adopt(r) PROVE LaunchTypeOK'
  <2>1. /\ on[r] \in Phone /\ table[on[r]] \in SUBSET [pid : Process, args : Call]
        /\ [pid |-> r, args |-> r] \in [pid : Process, args : Call]
    BY DEF LaunchInv, LaunchTypeOK
  <2>2. \/ table' = table
        \/ table' = [table EXCEPT ![on[r]] = table[on[r]] \cup {[pid |-> r, args |-> r]}]
    BY <1>21 DEF Adopt
  <2>3. table' \in [Phone -> SUBSET [pid : Process, args : Call]]
    BY <2>1, <2>2 DEF LaunchInv, LaunchTypeOK
  <2> QED
    BY <1>21, <2>3 DEF LaunchInv, LaunchTypeOK, Adopt, Moves, Calm, Tell, runVars, fileVars,
       programVars, launchHistory
<1>22. ASSUME NEW r \in Call, ShellForks(r) PROVE LaunchTypeOK'
  <2>1. ran' \in [Process -> [File -> Call \cup {NoOne}]]
    BY <1>22, ProgramIsGiven DEF LaunchInv
  <2> QED
    BY <1>22, <2>1 DEF LaunchInv, LaunchTypeOK, ShellForks, Calm, Idle, OnDevice, runVars,
       fileVars, launchHistory
<1>23. ASSUME NEW r \in Call, ShellRemoves(r) PROVE LaunchTypeOK'
  BY <1>23 DEF LaunchInv, LaunchTypeOK, ShellRemoves, Calm, Idle, Emptied, runVars, programVars,
     launchHistory
<1>24. ASSUME NEW r \in Call, SuRefuses(r) PROVE LaunchTypeOK'
  BY <1>24 DEF LaunchInv, LaunchTypeOK, SuRefuses, Upset, Idle, runVars, fileVars, programVars,
     launchHistory
<1>25. ASSUME NEW r \in Call, Opens(r) PROVE LaunchTypeOK'
  <2>1. log' \in [Phone -> Log]
    BY <1>25, ProgramOpensTheLog DEF LaunchInv
  <2>2. ran' \in [Process -> [File -> Call \cup {NoOne}]]
    BY <1>25, ProgramIsGiven DEF LaunchInv
  <2>3. /\ program' \in [Process -> {"none", "forked", "running", "gone"}]
        /\ out' \in [Process -> {"log", "elsewhere"}]
    BY <1>25 DEF LaunchInv, LaunchTypeOK, Opens, programVars
  <2>4. /\ UNCHANGED <<runVars, at, todo, sees, said, cause, table, agentUp, fileVars, script>>
    BY <1>25 DEF Opens, Idle
  <2> QED
    BY <2>1, <2>2, <2>3, <2>4 DEF LaunchInv, LaunchTypeOK, runVars, fileVars
<1>26. ASSUME NEW p \in Process, Writes(p) PROVE LaunchTypeOK'
  <2>1. log' \in [Phone -> Log]
    BY <1>26, ProgramWrites DEF LaunchInv
  <2> QED
    BY <1>26, <2>1 DEF LaunchInv, LaunchTypeOK, Writes, Calm, Idle, runVars, fileVars,
       programVars, launchHistory
<1>27. ASSUME NEW p \in Process, Exits(p) PROVE LaunchTypeOK'
  BY <1>27 DEF LaunchInv, LaunchTypeOK, Exits, Calm, Idle, runVars, fileVars, launchHistory
<1>28. ASSUME ByHand PROVE LaunchTypeOK'
  BY <1>28 DEF LaunchInv, LaunchTypeOK, ByHand, Upset, Idle, runVars, fileVars, launchHistory
<1>29. ASSUME AgentGoesOrComes PROVE LaunchTypeOK'
  BY <1>29 DEF LaunchInv, LaunchTypeOK, AgentGoesOrComes, Untold, Upset, runVars, fileVars,
     programVars, launchHistory
<1>30. ASSUME DesktopQuits PROVE LaunchTypeOK'
  BY <1>30 DEF LaunchInv, LaunchTypeOK, DesktopQuits, Untold, Upset, runVars, fileVars,
     programVars, launchHistory
<1> QED
  BY <1>1, <1>2, <1>3, <1>4, <1>5, <1>6, <1>7, <1>8, <1>9, <1>10, <1>11, <1>11a, <1>12, <1>13,
     <1>14, <1>15, <1>16, <1>17, <1>18, <1>19, <1>19a, <1>20, <1>21, <1>22, <1>23, <1>24, <1>25,
     <1>26, <1>27, <1>28, <1>29, <1>30 DEF LaunchNext, Goes, OnTheDevice

\* What a step does to the place, the script and the record of one call.
LEMMA LaunchNextStep ==
  ASSUME LaunchInv, LaunchNext, NEW d \in Call
  PROVE  StepInv(d)'
<1> USE LaunchAssumption DEF Process, File
<1>1. ASSUME NEW r \in Call, NEW root \in BOOLEAN, NEW files \in SUBSET File, Begin(r, root,
     files) PROVE StepInv(d)'
  <2>1. OnRecord(d)' <=> OnRecord(d)
    BY <1>1 DEF OnRecord, Begin, Moves, Untold, Calm, fileVars, programVars
  <2> QED
    BY <1>1, <2>1 DEF LaunchInv, LaunchTypeOK, StepInv, Told, Before, Begin, Moves, Untold,
       Calm, fileVars, programVars
<1>2. ASSUME NEW r \in Call, LookOutside(r) PROVE StepInv(d)'
  <2>1. OnRecord(d)' <=> OnRecord(d)
    BY <1>2 DEF OnRecord, LookOutside, Moves, Untold, Calm, runVars, fileVars, programVars,
       launchHistory
  <2> QED
    BY <1>2, <2>1 DEF LaunchInv, LaunchTypeOK, StepInv, Told, Before, LookOutside, Moves,
       Untold, Calm, runVars, fileVars, programVars, launchHistory
<1>3. ASSUME NEW r \in Call, LookInTable(r) PROVE StepInv(d)'
  <2>1. OnRecord(d)' <=> OnRecord(d)
    BY <1>3 DEF OnRecord, LookInTable, Moves, Calm, Tell, runVars, fileVars, programVars,
       launchHistory
  <2> QED
    BY <1>3, <2>1 DEF LaunchInv, LaunchTypeOK, StepInv, Told, Before, LookInTable, Moves, Calm,
       Tell, runVars, fileVars, programVars, launchHistory
<1>4. ASSUME NEW r \in Call, Retire(r) PROVE StepInv(d)'
  <2>1. OnRecord(d)' <=> OnRecord(d)
    BY <1>4 DEF OnRecord, Retire, Moves, Untold, Calm, AfterRetire, runVars, fileVars,
       launchHistory
  <2> QED
    BY <1>4, <2>1 DEF LaunchInv, LaunchTypeOK, StepInv, Told, Before, Retire, Moves, Untold,
       Calm, AfterRetire, runVars, fileVars, launchHistory
<1>5. ASSUME NEW r \in Call, RetireFails(r) PROVE StepInv(d)'
  <2>1. OnRecord(d)' <=> OnRecord(d)
    BY <1>5 DEF OnRecord, RetireFails, Moves, Untold, Upset, AfterRetire, runVars, fileVars,
       programVars
  <2> QED
    BY <1>5, <2>1 DEF LaunchInv, LaunchTypeOK, StepInv, Told, Before, RetireFails, Moves,
       Untold, Upset, AfterRetire, runVars, fileVars, programVars
<1>6. ASSUME NEW r \in Call, AgentStarts(r) PROVE StepInv(d)'
  <2>1. r # d => (OnRecord(d)' <=> OnRecord(d))
    <3>1. on[d] = on[r] =>
            table'[on[d]] \in {table[on[d]], table[on[d]] \cup {[pid |-> r, args |-> r]}}
      BY <1>6 DEF LaunchInv, LaunchTypeOK, AgentStarts, Moves, Untold, Calm, runVars, fileVars,
         launchHistory
    <3>2. on[d] # on[r] => table'[on[d]] = table[on[d]]
      BY <1>6 DEF LaunchInv, LaunchTypeOK, AgentStarts, Moves, Untold, Calm, runVars, fileVars,
         launchHistory
    <3>3. on' = on
      BY <1>6 DEF AgentStarts, Moves, Untold, Calm, runVars, fileVars, launchHistory
    <3> QED
      BY <3>1, <3>2, <3>3 DEF OnRecord
  <2>2. /\ UNCHANGED <<script, todo, carries>> /\ at' = [at EXCEPT ![r] = at'[r]]
        /\ at[r] \in {"start", "adopt"} /\ at'[r] \in {"settle", "done"} /\ script[r] = "none"
    BY <1>6 DEF LaunchInv, LaunchTypeOK, StepInv, Before, AgentStarts, Moves, Untold, Calm,
       runVars, fileVars, launchHistory
  <2>3. /\ said' = [said EXCEPT ![r] = said'[r]] /\ (at[r] = "start" => said' = said)
        /\ at'[r] = "settle" => at[r] = "start"
        /\ program' = [program EXCEPT ![r] = program'[r]]
        /\ program'[r] # "forked" \/ program'[r] = program[r]
    BY <1>6 DEF LaunchInv, LaunchTypeOK, AgentStarts, Moves, Untold, Calm, runVars, fileVars,
       launchHistory
  <2> QED
    BY <2>1, <2>2, <2>3 DEF LaunchInv, LaunchTypeOK, StepInv, Told, Before
<1>7. ASSUME NEW r \in Call, AgentRefuses(r) PROVE StepInv(d)'
  <2>1. OnRecord(d)' <=> OnRecord(d)
    BY <1>7 DEF OnRecord, AgentRefuses, Moves, Calm, Tell, Gives, runVars, fileVars,
       programVars, launchHistory
  <2> QED
    BY <1>7, <2>1 DEF LaunchInv, LaunchTypeOK, StepInv, Told, Before, AgentRefuses, Moves, Calm,
       Tell, Gives, runVars, fileVars, programVars, launchHistory
<1>8. ASSUME NEW r \in Call, Settles(r) PROVE StepInv(d)'
  <2>1. OnRecord(d)' <=> OnRecord(d)
    BY <1>8 DEF OnRecord, Settles, Moves, Calm, Tell, runVars, fileVars, programVars,
       launchHistory
  <2> QED
    BY <1>8, <2>1 DEF LaunchInv, LaunchTypeOK, StepInv, Told, Before, Settles, Moves, Calm,
       Tell, runVars, fileVars, programVars, launchHistory
<1>9. ASSUME NEW r \in Call, LosesAgent(r) PROVE StepInv(d)'
  <2>1. OnRecord(d)' <=> OnRecord(d)
    BY <1>9 DEF OnRecord, LosesAgent, Moves, Calm, Tell, Gives, runVars, fileVars, programVars,
       launchHistory
  <2> QED
    BY <1>9, <2>1 DEF LaunchInv, LaunchTypeOK, StepInv, Told, Before, LosesAgent, Moves, Calm,
       Tell, Gives, runVars, fileVars, programVars, launchHistory
<1>10. ASSUME NEW r \in Call, Autopsy(r) PROVE StepInv(d)'
  <2>1. OnRecord(d)' <=> OnRecord(d)
    BY <1>10 DEF OnRecord, Autopsy, Moves, Calm, Tell, runVars, fileVars, programVars,
       launchHistory
  <2> QED
    BY <1>10, <2>1 DEF LaunchInv, LaunchTypeOK, StepInv, Told, Before, Autopsy, Moves, Calm,
       Tell, runVars, fileVars, programVars, launchHistory
<1>11. ASSUME NEW r \in Call, WriteLocal(r) PROVE StepInv(d)'
  <2>1. OnRecord(d)' <=> OnRecord(d)
    BY <1>11 DEF OnRecord, WriteLocal, Moves, Untold, Calm, runVars, programVars, launchHistory
  <2> QED
    BY <1>11, <2>1 DEF LaunchInv, LaunchTypeOK, StepInv, Told, Before, WriteLocal, Moves,
       Untold, Calm, runVars, programVars, launchHistory
<1>11a. ASSUME NEW r \in Call, WriteLocalFails(r) PROVE StepInv(d)'
  <2>1. OnRecord(d)' <=> OnRecord(d)
    BY <1>11a DEF OnRecord, WriteLocalFails, Moves, Untold, Upset, Tidied, FirstTodo, runVars,
       programVars, launchHistory
  <2> QED
    BY <1>11a, <2>1 DEF LaunchInv, LaunchTypeOK, StepInv, Told, Before, WriteLocalFails, Moves,
       Untold, Upset, Tidied, FirstTodo, runVars, programVars, launchHistory
<1>12. ASSUME NEW r \in Call, Push(r) PROVE StepInv(d)'
  <2>1. OnRecord(d)' <=> OnRecord(d)
    BY <1>12 DEF OnRecord, Push, Moves, Untold, Calm, Tidied, runVars, programVars, launchHistory
  <2> QED
    BY <1>12, <2>1 DEF LaunchInv, LaunchTypeOK, StepInv, Told, Before, Push, Moves, Untold,
       Calm, Tidied, runVars, programVars, launchHistory
<1>13. ASSUME NEW r \in Call, PushFails(r) PROVE StepInv(d)'
  <2>1. OnRecord(d)' <=> OnRecord(d)
    BY <1>13 DEF OnRecord, PushFails, Moves, Untold, Calm, Upset, Tidied, runVars, programVars,
       launchHistory
  <2> QED
    BY <1>13, <2>1 DEF LaunchInv, LaunchTypeOK, StepInv, Told, Before, PushFails, Moves, Untold,
       Calm, Upset, Tidied, runVars, programVars, launchHistory
<1>14. ASSUME NEW r \in Call, Clean(r) PROVE StepInv(d)'
  <2>1. OnRecord(d)' <=> OnRecord(d)
    BY <1>14 DEF OnRecord, Clean, Moves, Calm, Tell, Emptied, runVars, programVars, launchHistory
  <2> QED
    BY <1>14, <2>1 DEF LaunchInv, LaunchTypeOK, StepInv, Told, Before, Clean, Moves, Calm, Tell,
       Emptied, runVars, programVars, launchHistory
<1>15. ASSUME NEW r \in Call, Launch(r) PROVE StepInv(d)'
  <2>1. OnRecord(d)' <=> OnRecord(d)
    BY <1>15 DEF OnRecord, Launch, Moves, Untold, Calm, runVars, fileVars, programVars,
       launchHistory
  <2> QED
    BY <1>15, <2>1 DEF LaunchInv, LaunchTypeOK, StepInv, Told, Before, Launch, Moves, Untold,
       Calm, runVars, fileVars, programVars, launchHistory
<1>16. ASSUME NEW r \in Call, ShellReturns(r) PROVE StepInv(d)'
  <2>1. OnRecord(d)' <=> OnRecord(d)
    BY <1>16 DEF OnRecord, ShellReturns, Moves, Untold, Calm, runVars, fileVars, programVars,
       launchHistory
  <2> QED
    BY <1>16, <2>1 DEF LaunchInv, LaunchTypeOK, StepInv, Told, Before, ShellReturns, Moves,
       Untold, Calm, runVars, fileVars, programVars, launchHistory
<1>17. ASSUME NEW r \in Call, ShellRefused(r) PROVE StepInv(d)'
  <2>1. OnRecord(d)' <=> OnRecord(d)
    BY <1>17 DEF OnRecord, ShellRefused, Moves, Calm, Tell, Gives, runVars, fileVars,
       programVars, launchHistory
  <2> QED
    BY <1>17, <2>1 DEF LaunchInv, LaunchTypeOK, StepInv, Told, Before, ShellRefused, Moves,
       Calm, Tell, Gives, runVars, fileVars, programVars, launchHistory
<1>18. ASSUME NEW r \in Call, ShellLost(r) PROVE StepInv(d)'
  <2>1. OnRecord(d)' <=> OnRecord(d)
    BY <1>18 DEF OnRecord, ShellLost, Moves, Untold, Upset, runVars, fileVars, programVars,
       launchHistory
  <2> QED
    BY <1>18, <2>1 DEF LaunchInv, LaunchTypeOK, StepInv, Told, Before, ShellLost, Moves, Untold,
       Upset, runVars, fileVars, programVars, launchHistory
<1>19. ASSUME NEW r \in Call, Check(r) PROVE StepInv(d)'
  <2>1. OnRecord(d)' <=> OnRecord(d)
    BY <1>19 DEF OnRecord, Check, Moves, Untold, Calm, runVars, fileVars, programVars,
       launchHistory
  <2> QED
    BY <1>19, <2>1 DEF LaunchInv, LaunchTypeOK, StepInv, Told, Before, Check, Moves, Untold,
       Calm, runVars, fileVars, programVars, launchHistory
<1>19a. ASSUME NEW r \in Call, CheckRefused(r) PROVE StepInv(d)'
  <2>1. OnRecord(d)' <=> OnRecord(d)
    BY <1>19a DEF OnRecord, CheckRefused, Moves, Untold, Upset, runVars, fileVars, programVars,
       launchHistory
  <2> QED
    BY <1>19a, <2>1 DEF LaunchInv, LaunchTypeOK, StepInv, Told, Before, CheckRefused, Moves,
       Untold, Upset, runVars, fileVars, programVars, launchHistory
<1>20. ASSUME NEW r \in Call, CheckFails(r) PROVE StepInv(d)'
  <2>1. OnRecord(d)' <=> OnRecord(d)
    BY <1>20 DEF OnRecord, CheckFails, Moves, Upset, Tell, Gives, runVars, fileVars,
       programVars, launchHistory
  <2> QED
    BY <1>20, <2>1 DEF LaunchInv, LaunchTypeOK, StepInv, Told, Before, CheckFails, Moves, Upset,
       Tell, Gives, runVars, fileVars, programVars, launchHistory
<1>21. ASSUME NEW r \in Call, Adopt(r) PROVE StepInv(d)'
  <2>1. r # d => (OnRecord(d)' <=> OnRecord(d))
    <3>1. on[d] = on[r] =>
            table'[on[d]] \in {table[on[d]], table[on[d]] \cup {[pid |-> r, args |-> r]}}
      BY <1>21 DEF LaunchInv, LaunchTypeOK, Adopt, Moves, Calm, Tell, runVars, fileVars,
         programVars, launchHistory
    <3>2. on[d] # on[r] => table'[on[d]] = table[on[d]]
      BY <1>21 DEF LaunchInv, LaunchTypeOK, Adopt, Moves, Calm, Tell, runVars, fileVars,
         programVars, launchHistory
    <3>3. on' = on
      BY <1>21 DEF Adopt, Moves, Calm, Tell, runVars, fileVars, programVars, launchHistory
    <3> QED
      BY <3>1, <3>2, <3>3 DEF OnRecord
  <2>2. /\ UNCHANGED <<script, todo, carries>> /\ at' = [at EXCEPT ![r] = at'[r]]
        /\ at[r] \in {"start", "adopt"} /\ at'[r] \in {"settle", "done"} /\ script[r] = "none"
    BY <1>21 DEF LaunchInv, LaunchTypeOK, StepInv, Before, Adopt, Moves, Calm, Tell, runVars,
       fileVars, programVars, launchHistory
  <2>3. /\ said' = [said EXCEPT ![r] = said'[r]] /\ (at[r] = "start" => said' = said)
        /\ at'[r] = "settle" => at[r] = "start"
        /\ program' = [program EXCEPT ![r] = program'[r]]
        /\ program'[r] # "forked" \/ program'[r] = program[r]
    BY <1>21 DEF LaunchInv, LaunchTypeOK, Adopt, Moves, Calm, Tell, runVars, fileVars,
       programVars, launchHistory
  <2> QED
    BY <2>1, <2>2, <2>3 DEF LaunchInv, LaunchTypeOK, StepInv, Told, Before
<1>22. ASSUME NEW r \in Call, ShellForks(r) PROVE StepInv(d)'
  <2>1. OnRecord(d)' <=> OnRecord(d)
    BY <1>22 DEF OnRecord, ShellForks, Calm, Idle, OnDevice, runVars, fileVars, launchHistory
  <2> QED
    BY <1>22, <2>1 DEF LaunchInv, LaunchTypeOK, StepInv, Told, Before, ShellForks, Calm, Idle,
       OnDevice, runVars, fileVars, launchHistory
<1>23. ASSUME NEW r \in Call, ShellRemoves(r) PROVE StepInv(d)'
  <2>1. OnRecord(d)' <=> OnRecord(d)
    BY <1>23 DEF OnRecord, ShellRemoves, Calm, Idle, Emptied, runVars, programVars, launchHistory
  <2> QED
    BY <1>23, <2>1 DEF LaunchInv, LaunchTypeOK, StepInv, Told, Before, ShellRemoves, Calm, Idle,
       Emptied, runVars, programVars, launchHistory
<1>24. ASSUME NEW r \in Call, SuRefuses(r) PROVE StepInv(d)'
  <2>1. OnRecord(d)' <=> OnRecord(d)
    BY <1>24 DEF OnRecord, SuRefuses, Upset, Idle, runVars, fileVars, programVars, launchHistory
  <2> QED
    BY <1>24, <2>1 DEF LaunchInv, LaunchTypeOK, StepInv, Told, Before, SuRefuses, Upset, Idle,
       runVars, fileVars, programVars, launchHistory
<1>25. ASSUME NEW r \in Call, Opens(r) PROVE StepInv(d)'
  <2>1. OnRecord(d)' <=> OnRecord(d)
    BY <1>25 DEF OnRecord, Opens, Calm, Idle, OnDevice, runVars, fileVars, launchHistory
  <2> QED
    BY <1>25, <2>1 DEF LaunchInv, LaunchTypeOK, StepInv, Told, Before, Opens, Calm, Idle,
       OnDevice, runVars, fileVars, launchHistory
<1>26. ASSUME NEW p \in Process, Writes(p) PROVE StepInv(d)'
  <2>1. OnRecord(d)' <=> OnRecord(d)
    BY <1>26 DEF OnRecord, Writes, Calm, Idle, runVars, fileVars, programVars, launchHistory
  <2> QED
    BY <1>26, <2>1 DEF LaunchInv, LaunchTypeOK, StepInv, Told, Before, Writes, Calm, Idle,
       runVars, fileVars, programVars, launchHistory
<1>27. ASSUME NEW p \in Process, Exits(p) PROVE StepInv(d)'
  <2>1. OnRecord(d)' <=> OnRecord(d)
    BY <1>27 DEF OnRecord, Exits, Calm, Idle, runVars, fileVars, launchHistory
  <2> QED
    BY <1>27, <2>1 DEF LaunchInv, LaunchTypeOK, StepInv, Told, Before, Exits, Calm, Idle,
       runVars, fileVars, launchHistory
<1>28. ASSUME ByHand PROVE StepInv(d)'
  <2>1. OnRecord(d)' <=> OnRecord(d)
    BY <1>28 DEF OnRecord, ByHand, Upset, Idle, runVars, fileVars, launchHistory
  <2> QED
    BY <1>28, <2>1 DEF LaunchInv, LaunchTypeOK, StepInv, Told, Before, ByHand, Upset, Idle,
       runVars, fileVars, launchHistory
<1>29. ASSUME AgentGoesOrComes PROVE StepInv(d)'
  <2>1. OnRecord(d)' <=> OnRecord(d)
    BY <1>29 DEF OnRecord, AgentGoesOrComes, Untold, Upset, runVars, fileVars, programVars,
       launchHistory
  <2> QED
    BY <1>29, <2>1 DEF LaunchInv, LaunchTypeOK, StepInv, Told, Before, AgentGoesOrComes, Untold,
       Upset, runVars, fileVars, programVars, launchHistory
<1>30. ASSUME DesktopQuits PROVE StepInv(d)'
  <2>1. OnRecord(d)' <=> OnRecord(d)
    BY <1>30 DEF OnRecord, DesktopQuits, Untold, Upset, runVars, fileVars, programVars,
       launchHistory
  <2> QED
    BY <1>30, <2>1 DEF LaunchInv, LaunchTypeOK, StepInv, Told, Before, DesktopQuits, Untold,
       Upset, runVars, fileVars, programVars, launchHistory
<1> QED
  BY <1>1, <1>2, <1>3, <1>4, <1>5, <1>6, <1>7, <1>8, <1>9, <1>10, <1>11, <1>11a, <1>12, <1>13,
     <1>14, <1>15, <1>16, <1>17, <1>18, <1>19, <1>19a, <1>20, <1>21, <1>22, <1>23, <1>24, <1>25,
     <1>26, <1>27, <1>28, <1>29, <1>30 DEF LaunchNext, Goes, OnTheDevice

\* Only the beginning of a call makes one that was quiet busy.
LEMMA NobodyElseGetsBusy ==
  ASSUME LaunchInv, LaunchNext, ~\E r \in Call, root \in BOOLEAN,
  files \in SUBSET File : Begin(r, root, files), NEW d \in Call
  PROVE  UNCHANGED <<on, carries, crossed>> /\ (~Quiet(d)' => ~Quiet(d))
<1> USE LaunchAssumption DEF Process, File
<1>1. ASSUME NEW r \in Call, LookOutside(r) PROVE UNCHANGED <<on, carries,
     crossed>> /\ (~Quiet(d)' => ~Quiet(d))
  BY <1>1 DEF LaunchInv, LaunchTypeOK, StepInv, Quiet, Before, LookOutside, Moves, Untold, Calm,
     runVars, fileVars, programVars, launchHistory
<1>2. ASSUME NEW r \in Call, LookInTable(r) PROVE UNCHANGED <<on, carries,
     crossed>> /\ (~Quiet(d)' => ~Quiet(d))
  BY <1>2 DEF LaunchInv, LaunchTypeOK, StepInv, Quiet, Before, LookInTable, Moves, Calm, Tell,
     runVars, fileVars, programVars, launchHistory
<1>3. ASSUME NEW r \in Call, Retire(r) PROVE UNCHANGED <<on, carries,
     crossed>> /\ (~Quiet(d)' => ~Quiet(d))
  BY <1>3 DEF LaunchInv, LaunchTypeOK, StepInv, Quiet, Before, Retire, Moves, Untold, Calm,
     AfterRetire, runVars, fileVars, launchHistory
<1>4. ASSUME NEW r \in Call, RetireFails(r) PROVE UNCHANGED <<on, carries,
     crossed>> /\ (~Quiet(d)' => ~Quiet(d))
  BY <1>4 DEF LaunchInv, LaunchTypeOK, StepInv, Quiet, Before, RetireFails, Moves, Untold,
     Upset, AfterRetire, runVars, fileVars, programVars
<1>5. ASSUME NEW r \in Call, AgentStarts(r) PROVE UNCHANGED <<on, carries,
     crossed>> /\ (~Quiet(d)' => ~Quiet(d))
  BY <1>5 DEF LaunchInv, LaunchTypeOK, StepInv, Quiet, Before, AgentStarts, Moves, Untold, Calm,
     runVars, fileVars, launchHistory
<1>6. ASSUME NEW r \in Call, AgentRefuses(r) PROVE UNCHANGED <<on, carries,
     crossed>> /\ (~Quiet(d)' => ~Quiet(d))
  BY <1>6 DEF LaunchInv, LaunchTypeOK, StepInv, Quiet, Before, AgentRefuses, Moves, Calm, Tell,
     Gives, runVars, fileVars, programVars, launchHistory
<1>7. ASSUME NEW r \in Call, Settles(r) PROVE UNCHANGED <<on, carries,
     crossed>> /\ (~Quiet(d)' => ~Quiet(d))
  BY <1>7 DEF LaunchInv, LaunchTypeOK, StepInv, Quiet, Before, Settles, Moves, Calm, Tell,
     runVars, fileVars, programVars, launchHistory
<1>8. ASSUME NEW r \in Call, LosesAgent(r) PROVE UNCHANGED <<on, carries,
     crossed>> /\ (~Quiet(d)' => ~Quiet(d))
  BY <1>8 DEF LaunchInv, LaunchTypeOK, StepInv, Quiet, Before, LosesAgent, Moves, Calm, Tell,
     Gives, runVars, fileVars, programVars, launchHistory
<1>9. ASSUME NEW r \in Call, Autopsy(r) PROVE UNCHANGED <<on, carries,
     crossed>> /\ (~Quiet(d)' => ~Quiet(d))
  BY <1>9 DEF LaunchInv, LaunchTypeOK, StepInv, Quiet, Before, Autopsy, Moves, Calm, Tell,
     runVars, fileVars, programVars, launchHistory
<1>10. ASSUME NEW r \in Call, WriteLocal(r) PROVE UNCHANGED <<on, carries,
     crossed>> /\ (~Quiet(d)' => ~Quiet(d))
  BY <1>10 DEF LaunchInv, LaunchTypeOK, StepInv, Quiet, Before, WriteLocal, Moves, Untold, Calm,
     runVars, programVars, launchHistory
<1>10a. ASSUME NEW r \in Call, WriteLocalFails(r) PROVE UNCHANGED <<on, carries,
     crossed>> /\ (~Quiet(d)' => ~Quiet(d))
  BY <1>10a DEF LaunchInv, LaunchTypeOK, StepInv, Quiet, Before, WriteLocalFails, Moves, Untold,
     Upset, Tidied, FirstTodo, runVars, programVars, launchHistory
<1>11. ASSUME NEW r \in Call, Push(r) PROVE UNCHANGED <<on, carries,
     crossed>> /\ (~Quiet(d)' => ~Quiet(d))
  BY <1>11 DEF LaunchInv, LaunchTypeOK, StepInv, Quiet, Before, Push, Moves, Untold, Calm,
     Tidied, runVars, programVars, launchHistory
<1>12. ASSUME NEW r \in Call, PushFails(r) PROVE UNCHANGED <<on, carries,
     crossed>> /\ (~Quiet(d)' => ~Quiet(d))
  BY <1>12 DEF LaunchInv, LaunchTypeOK, StepInv, Quiet, Before, PushFails, Moves, Untold, Calm,
     Upset, Tidied, runVars, programVars, launchHistory
<1>13. ASSUME NEW r \in Call, Clean(r) PROVE UNCHANGED <<on, carries,
     crossed>> /\ (~Quiet(d)' => ~Quiet(d))
  BY <1>13 DEF LaunchInv, LaunchTypeOK, StepInv, Quiet, Before, Clean, Moves, Calm, Tell,
     Emptied, runVars, programVars, launchHistory
<1>14. ASSUME NEW r \in Call, Launch(r) PROVE UNCHANGED <<on, carries,
     crossed>> /\ (~Quiet(d)' => ~Quiet(d))
  BY <1>14 DEF LaunchInv, LaunchTypeOK, StepInv, Quiet, Before, Launch, Moves, Untold, Calm,
     runVars, fileVars, programVars, launchHistory
<1>15. ASSUME NEW r \in Call, ShellReturns(r) PROVE UNCHANGED <<on, carries,
     crossed>> /\ (~Quiet(d)' => ~Quiet(d))
  BY <1>15 DEF LaunchInv, LaunchTypeOK, StepInv, Quiet, Before, ShellReturns, Moves, Untold,
     Calm, runVars, fileVars, programVars, launchHistory
<1>16. ASSUME NEW r \in Call, ShellRefused(r) PROVE UNCHANGED <<on, carries,
     crossed>> /\ (~Quiet(d)' => ~Quiet(d))
  BY <1>16 DEF LaunchInv, LaunchTypeOK, StepInv, Quiet, Before, ShellRefused, Moves, Calm, Tell,
     Gives, runVars, fileVars, programVars, launchHistory
<1>17. ASSUME NEW r \in Call, ShellLost(r) PROVE UNCHANGED <<on, carries,
     crossed>> /\ (~Quiet(d)' => ~Quiet(d))
  BY <1>17 DEF LaunchInv, LaunchTypeOK, StepInv, Quiet, Before, ShellLost, Moves, Untold, Upset,
     runVars, fileVars, programVars, launchHistory
<1>18. ASSUME NEW r \in Call, Check(r) PROVE UNCHANGED <<on, carries,
     crossed>> /\ (~Quiet(d)' => ~Quiet(d))
  BY <1>18 DEF LaunchInv, LaunchTypeOK, StepInv, Quiet, Before, Check, Moves, Untold, Calm,
     runVars, fileVars, programVars, launchHistory
<1>18a. ASSUME NEW r \in Call, CheckRefused(r) PROVE UNCHANGED <<on, carries,
     crossed>> /\ (~Quiet(d)' => ~Quiet(d))
  BY <1>18a DEF LaunchInv, LaunchTypeOK, StepInv, Quiet, Before, CheckRefused, Moves, Untold,
     Upset, runVars, fileVars, programVars, launchHistory
<1>19. ASSUME NEW r \in Call, CheckFails(r) PROVE UNCHANGED <<on, carries,
     crossed>> /\ (~Quiet(d)' => ~Quiet(d))
  BY <1>19 DEF LaunchInv, LaunchTypeOK, StepInv, Quiet, Before, CheckFails, Moves, Upset, Tell,
     Gives, runVars, fileVars, programVars, launchHistory
<1>20. ASSUME NEW r \in Call, Adopt(r) PROVE UNCHANGED <<on, carries,
     crossed>> /\ (~Quiet(d)' => ~Quiet(d))
  BY <1>20 DEF LaunchInv, LaunchTypeOK, StepInv, Quiet, Before, Adopt, Moves, Calm, Tell,
     runVars, fileVars, programVars, launchHistory
<1>21. ASSUME NEW r \in Call, ShellForks(r) PROVE UNCHANGED <<on, carries,
     crossed>> /\ (~Quiet(d)' => ~Quiet(d))
  BY <1>21 DEF LaunchInv, LaunchTypeOK, StepInv, Quiet, Before, ShellForks, Calm, Idle,
     OnDevice, runVars, fileVars, launchHistory
<1>22. ASSUME NEW r \in Call, ShellRemoves(r) PROVE UNCHANGED <<on, carries,
     crossed>> /\ (~Quiet(d)' => ~Quiet(d))
  BY <1>22 DEF LaunchInv, LaunchTypeOK, StepInv, Quiet, Before, ShellRemoves, Calm, Idle,
     Emptied, runVars, programVars, launchHistory
<1>23. ASSUME NEW r \in Call, SuRefuses(r) PROVE UNCHANGED <<on, carries,
     crossed>> /\ (~Quiet(d)' => ~Quiet(d))
  BY <1>23 DEF LaunchInv, LaunchTypeOK, StepInv, Quiet, Before, SuRefuses, Upset, Idle, runVars,
     fileVars, programVars, launchHistory
<1>24. ASSUME NEW r \in Call, Opens(r) PROVE UNCHANGED <<on, carries,
     crossed>> /\ (~Quiet(d)' => ~Quiet(d))
  BY <1>24 DEF LaunchInv, LaunchTypeOK, StepInv, Quiet, Before, Opens, Calm, Idle, OnDevice,
     runVars, fileVars, launchHistory
<1>25. ASSUME NEW p \in Process, Writes(p) PROVE UNCHANGED <<on, carries,
     crossed>> /\ (~Quiet(d)' => ~Quiet(d))
  BY <1>25 DEF LaunchInv, LaunchTypeOK, StepInv, Quiet, Before, Writes, Calm, Idle, runVars,
     fileVars, programVars, launchHistory
<1>26. ASSUME NEW p \in Process, Exits(p) PROVE UNCHANGED <<on, carries,
     crossed>> /\ (~Quiet(d)' => ~Quiet(d))
  BY <1>26 DEF LaunchInv, LaunchTypeOK, StepInv, Quiet, Before, Exits, Calm, Idle, runVars,
     fileVars, launchHistory
<1>27. ASSUME ByHand PROVE UNCHANGED <<on, carries, crossed>> /\ (~Quiet(d)' => ~Quiet(d))
  BY <1>27 DEF LaunchInv, LaunchTypeOK, StepInv, Quiet, Before, ByHand, Upset, Idle, runVars,
     fileVars, launchHistory
<1>28. ASSUME AgentGoesOrComes PROVE UNCHANGED <<on, carries,
     crossed>> /\ (~Quiet(d)' => ~Quiet(d))
  BY <1>28 DEF LaunchInv, LaunchTypeOK, StepInv, Quiet, Before, AgentGoesOrComes, Untold, Upset,
     runVars, fileVars, programVars, launchHistory
<1>29. ASSUME DesktopQuits PROVE UNCHANGED <<on, carries, crossed>> /\ (~Quiet(d)' => ~Quiet(d))
  BY <1>29 DEF LaunchInv, LaunchTypeOK, StepInv, Quiet, Before, DesktopQuits, Untold, Upset,
     runVars, fileVars, programVars, launchHistory
<1> QED
  BY <1>1, <1>2, <1>3, <1>4, <1>5, <1>6, <1>7, <1>8, <1>9, <1>10, <1>10a, <1>11, <1>12, <1>13,
     <1>14, <1>15, <1>16, <1>17, <1>18, <1>18a, <1>19, <1>20, <1>21, <1>22, <1>23, <1>24, <1>25,
     <1>26, <1>27, <1>28, <1>29 DEF LaunchNext, Goes, OnTheDevice

\* The files of an uncrossed call: whoever writes to them meets it, so it is the call itself.
LEMMA LaunchNextFile ==
  ASSUME LaunchInv, LaunchNext, NEW d \in Call \ crossed'
  PROVE  FileInv(d)'
<1> USE LaunchAssumption DEF Process, File
<1>1. ASSUME NEW r \in Call, NEW root \in BOOLEAN, NEW files \in SUBSET File, Begin(r, root,
     files) PROVE FileInv(d)'
  BY <1>1 DEF LaunchInv, LaunchTypeOK, FileInv, StepInv, Before, Apart, Meets, Quiet, Brought,
     OnDevice, FirstTodo, Begin, Moves, Untold, Calm, fileVars, programVars
<1>2. ASSUME NEW r \in Call, LookOutside(r) PROVE FileInv(d)'
  BY <1>2 DEF LaunchInv, LaunchTypeOK, FileInv, StepInv, Before, Apart, Meets, Quiet, Brought,
     OnDevice, FirstTodo, LookOutside, Moves, Untold, Calm, runVars, fileVars, programVars,
     launchHistory
<1>3. ASSUME NEW r \in Call, LookInTable(r) PROVE FileInv(d)'
  BY <1>3 DEF LaunchInv, LaunchTypeOK, FileInv, StepInv, Before, Apart, Meets, Quiet, Brought,
     OnDevice, FirstTodo, LookInTable, Moves, Calm, Tell, runVars, fileVars, programVars,
     launchHistory
<1>4. ASSUME NEW r \in Call, Retire(r) PROVE FileInv(d)'
  BY <1>4 DEF LaunchInv, LaunchTypeOK, FileInv, StepInv, Before, Apart, Meets, Quiet, Brought,
     OnDevice, FirstTodo, Retire, Moves, Untold, Calm, AfterRetire, runVars, fileVars,
     launchHistory
<1>5. ASSUME NEW r \in Call, RetireFails(r) PROVE FileInv(d)'
  BY <1>5 DEF LaunchInv, LaunchTypeOK, FileInv, StepInv, Before, Apart, Meets, Quiet, Brought,
     OnDevice, FirstTodo, RetireFails, Moves, Untold, Upset, AfterRetire, runVars, fileVars,
     programVars
<1>6. ASSUME NEW r \in Call, AgentStarts(r) PROVE FileInv(d)'
  BY <1>6 DEF LaunchInv, LaunchTypeOK, FileInv, StepInv, Before, Apart, Meets, Quiet, Brought,
     OnDevice, FirstTodo, AgentStarts, Moves, Untold, Calm, runVars, fileVars, launchHistory
<1>7. ASSUME NEW r \in Call, AgentRefuses(r) PROVE FileInv(d)'
  BY <1>7 DEF LaunchInv, LaunchTypeOK, FileInv, StepInv, Before, Apart, Meets, Quiet, Brought,
     OnDevice, FirstTodo, AgentRefuses, Moves, Calm, Tell, Gives, runVars, fileVars,
     programVars, launchHistory
<1>8. ASSUME NEW r \in Call, Settles(r) PROVE FileInv(d)'
  BY <1>8 DEF LaunchInv, LaunchTypeOK, FileInv, StepInv, Before, Apart, Meets, Quiet, Brought,
     OnDevice, FirstTodo, Settles, Moves, Calm, Tell, runVars, fileVars, programVars,
     launchHistory
<1>9. ASSUME NEW r \in Call, LosesAgent(r) PROVE FileInv(d)'
  BY <1>9 DEF LaunchInv, LaunchTypeOK, FileInv, StepInv, Before, Apart, Meets, Quiet, Brought,
     OnDevice, FirstTodo, LosesAgent, Moves, Calm, Tell, Gives, runVars, fileVars, programVars,
     launchHistory
<1>10. ASSUME NEW r \in Call, Autopsy(r) PROVE FileInv(d)'
  BY <1>10 DEF LaunchInv, LaunchTypeOK, FileInv, StepInv, Before, Apart, Meets, Quiet, Brought,
     OnDevice, FirstTodo, Autopsy, Moves, Calm, Tell, runVars, fileVars, programVars,
     launchHistory
<1>11. ASSUME NEW r \in Call, WriteLocal(r) PROVE FileInv(d)'
  <2>1. ~Quiet(r) /\ d \notin crossed
    BY <1>11 DEF Quiet, WriteLocal, Moves, Untold, Calm, runVars, programVars, launchHistory
  <2>2. CASE d # r
    <3>1. ~Quiet(d) => /\ on[d] # on[r] /\ carries[d] \cap carries[r] = {}
                       /\ at[d] = "push" => FirstTodo(d) \in File \ carries[r]
      BY <2>1, <2>2, CallsKeepApart
    <3>2. /\ UNCHANGED <<on, carries>> /\ todo'[d] = todo[d] /\ at'[d] = at[d]
          /\ script'[d] = script[d] /\ program'[d] = program[d]
      BY <1>11, <2>2 DEF LaunchInv, LaunchTypeOK, WriteLocal, Moves, Untold, Calm, runVars,
         programVars, launchHistory
    <3>3. ~Quiet(d) => OnDevice(d)' = OnDevice(d)
      BY <1>11, <3>1 DEF LaunchInv, LaunchTypeOK, OnDevice, WriteLocal, Moves, Untold, Calm,
         runVars, programVars, launchHistory
    <3>4. at[d] = "push" => local'[FirstTodo(d)] = local[FirstTodo(d)]
      <4>1. at[d] = "push" => ~Quiet(d)
        BY DEF Quiet
      <4>2. FirstTodo(r) \in todo[r] /\ todo[r] \subseteq carries[r]
        BY <1>11, FirstTodoIsThere DEF LaunchInv, StepInv, WriteLocal, Moves, Untold, Calm,
           runVars, programVars, launchHistory
      <4>3. \A f \in File \ carries[r] : local'[f] = local[f]
        BY <1>11, <4>2 DEF LaunchInv, LaunchTypeOK, WriteLocal, Moves, Untold, Calm, runVars,
           programVars, launchHistory
      <4> QED
        BY <3>1, <4>1, <4>3
    <3> QED
      BY <2>1, <3>2, <3>3, <3>4, FilesStay
  <2>3. CASE d = r
    <3>1. /\ UNCHANGED <<on, carries, todo, remote>> /\ at[d] = "carry" /\ at'[d] = "push"
          /\ local' = [local EXCEPT ![FirstTodo(d)] = d]
      BY <1>11, <2>3 DEF LaunchInv, LaunchTypeOK, WriteLocal, Moves, Untold, Calm, runVars,
         programVars, launchHistory
    <3>2. FirstTodo(d) \in File
      BY <3>1, FirstTodoIsThere DEF LaunchInv, StepInv
    <3>3. OnDevice(d)' = OnDevice(d) /\ Brought(d)' = Brought(d) /\ FirstTodo(d)' = FirstTodo(d)
      BY <3>1 DEF OnDevice, Brought, FirstTodo
    <3>4. local'[FirstTodo(d)] = d
      BY <3>1, <3>2 DEF LaunchInv, LaunchTypeOK
    <3>5. \A f \in Brought(d) : OnDevice(d)[f] = d
      BY <3>1, <2>1 DEF LaunchInv, FileInv
    <3> QED
      BY <3>1, <3>3, <3>4, <3>5 DEF FileInv
  <2> QED
    BY <2>2, <2>3
<1>11a. ASSUME NEW r \in Call, WriteLocalFails(r) PROVE FileInv(d)'
  <2>1. ~Quiet(r) /\ d \notin crossed
    BY <1>11a DEF Quiet, WriteLocalFails, Moves, Untold, Upset, Tidied, runVars,
       programVars, launchHistory
  <2>2. CASE d # r
    <3>1. ~Quiet(d) => /\ on[d] # on[r] /\ carries[d] \cap carries[r] = {}
                       /\ at[d] = "push" => FirstTodo(d) \in File \ carries[r]
      BY <2>1, <2>2, CallsKeepApart
    <3>2. /\ UNCHANGED <<on, carries>> /\ todo'[d] = todo[d] /\ at'[d] = at[d]
          /\ script'[d] = script[d] /\ program'[d] = program[d]
      BY <1>11a, <2>2 DEF LaunchInv, LaunchTypeOK, WriteLocalFails, Moves, Untold, Upset,
         Tidied, runVars, programVars, launchHistory
    <3>3. ~Quiet(d) => OnDevice(d)' = OnDevice(d)
      BY <1>11a, <3>1 DEF LaunchInv, LaunchTypeOK, OnDevice, WriteLocalFails, Moves, Untold,
         Upset, Tidied, runVars, programVars, launchHistory
    <3>4. at[d] = "push" => local'[FirstTodo(d)] = local[FirstTodo(d)]
      <4>1. at[d] = "push" => ~Quiet(d)
        BY DEF Quiet
      <4>2. FirstTodo(r) \in todo[r] /\ todo[r] \subseteq carries[r]
        BY <1>11a, FirstTodoIsThere DEF LaunchInv, StepInv, WriteLocalFails, Moves, Untold,
           Upset, Tidied, runVars, programVars, launchHistory
      <4>3. \A f \in File \ carries[r] : local'[f] = local[f]
        BY <1>11a, <4>2 DEF LaunchInv, LaunchTypeOK, WriteLocalFails, Moves, Untold, Upset,
           Tidied, runVars, programVars, launchHistory
      <4> QED
        BY <3>1, <4>1, <4>3
    <3> QED
      BY <2>1, <3>2, <3>3, <3>4, FilesStay
  <2>3. CASE d = r
    <3>1. /\ UNCHANGED <<on, carries, todo, remote>> /\ at[d] = "carry" /\ at'[d] = "clean"
      BY <1>11a, <2>3 DEF LaunchInv, LaunchTypeOK, WriteLocalFails, Moves, Untold, Upset,
         Tidied, runVars, programVars, launchHistory
    <3>2. OnDevice(d)' = OnDevice(d) /\ Brought(d)' = Brought(d)
      BY <3>1 DEF OnDevice, Brought
    <3>3. \A f \in Brought(d) : OnDevice(d)[f] = d
      BY <3>1, <2>1 DEF LaunchInv, FileInv
    <3> QED
      BY <3>1, <3>2, <3>3 DEF FileInv
  <2> QED
    BY <2>2, <2>3
<1>12. ASSUME NEW r \in Call, Push(r) PROVE FileInv(d)'
  <2>1. ~Quiet(r) /\ d \notin crossed
    BY <1>12 DEF Quiet, Push, Moves, Untold, Calm, Tidied, runVars, programVars, launchHistory
  <2>2. CASE d # r
    <3>1. ~Quiet(d) => /\ on[d] # on[r] /\ carries[d] \cap carries[r] = {}
                       /\ at[d] = "push" => FirstTodo(d) \in File \ carries[r]
      BY <2>1, <2>2, CallsKeepApart
    <3>2. /\ UNCHANGED <<on, carries>> /\ todo'[d] = todo[d] /\ at'[d] = at[d]
          /\ script'[d] = script[d] /\ program'[d] = program[d]
      BY <1>12, <2>2 DEF LaunchInv, LaunchTypeOK, Push, Moves, Untold, Calm, Tidied, runVars,
         programVars, launchHistory
    <3>3. ~Quiet(d) => OnDevice(d)' = OnDevice(d)
      BY <1>12, <3>1 DEF LaunchInv, LaunchTypeOK, OnDevice, Push, Moves, Untold, Calm, Tidied,
         runVars, programVars, launchHistory
    <3>4. at[d] = "push" => local'[FirstTodo(d)] = local[FirstTodo(d)]
      <4>1. at[d] = "push" => ~Quiet(d)
        BY DEF Quiet
      <4>2. FirstTodo(r) \in todo[r] /\ todo[r] \subseteq carries[r]
        BY <1>12, FirstTodoIsThere DEF LaunchInv, StepInv, Push, Moves, Untold, Calm, Tidied,
           runVars, programVars, launchHistory
      <4>3. \A f \in File \ carries[r] : local'[f] = local[f]
        BY <1>12, <4>2 DEF LaunchInv, LaunchTypeOK, Push, Moves, Untold, Calm, Tidied, runVars,
           programVars, launchHistory
      <4> QED
        BY <3>1, <4>1, <4>3
    <3> QED
      BY <2>1, <3>2, <3>3, <3>4, FilesStay
  <2>3. CASE d = r
    <3>1. /\ UNCHANGED <<on, carries>> /\ at[d] = "push" /\ at'[d] \in {"carry", "launch"}
          /\ todo' = [todo EXCEPT ![d] = todo[d] \ {FirstTodo(d)}]
          /\ remote' = [remote EXCEPT ![on[d]][FirstTodo(d)] = local[FirstTodo(d)]]
      BY <1>12, <2>3 DEF LaunchInv, LaunchTypeOK, Push, Moves, Untold, Calm, Tidied, runVars,
         programVars, launchHistory
    <3>2. FirstTodo(d) \in File /\ on[d] \in Phone /\ remote[on[d]] \in [File -> Call \cup {NoOne}]
      BY <3>1, FirstTodoIsThere DEF LaunchInv, StepInv, LaunchTypeOK
    <3>3. local[FirstTodo(d)] = d /\ \A f \in Brought(d) : OnDevice(d)[f] = d
      BY <3>1, <2>1 DEF LaunchInv, FileInv
    <3>4. /\ OnDevice(d)'[FirstTodo(d)] = d
          /\ \A f \in File \ {FirstTodo(d)} : OnDevice(d)'[f] = OnDevice(d)[f]
      BY <3>1, <3>2, <3>3 DEF LaunchInv, LaunchTypeOK, OnDevice
    <3>5. \A f \in Brought(d)' : f \in File /\ f \in Brought(d) \cup {FirstTodo(d)}
      BY <3>1 DEF Brought, LaunchInv, LaunchTypeOK
    <3>6. \A f \in Brought(d)' : OnDevice(d)'[f] = d
      BY <3>3, <3>4, <3>5
    <3> QED
      BY <3>1, <3>6 DEF FileInv
  <2> QED
    BY <2>2, <2>3
<1>13. ASSUME NEW r \in Call, PushFails(r) PROVE FileInv(d)'
  <2>1. ~Quiet(r) /\ d \notin crossed
    BY <1>13 DEF Quiet, PushFails, Moves, Untold, Calm, Upset, Tidied, runVars, programVars,
       launchHistory
  <2>2. CASE d # r
    <3>1. ~Quiet(d) => /\ on[d] # on[r] /\ carries[d] \cap carries[r] = {}
                       /\ at[d] = "push" => FirstTodo(d) \in File \ carries[r]
      BY <2>1, <2>2, CallsKeepApart
    <3>2. /\ UNCHANGED <<on, carries>> /\ todo'[d] = todo[d] /\ at'[d] = at[d]
          /\ script'[d] = script[d] /\ program'[d] = program[d]
      BY <1>13, <2>2 DEF LaunchInv, LaunchTypeOK, PushFails, Moves, Untold, Calm, Upset, Tidied,
         runVars, programVars, launchHistory
    <3>3. ~Quiet(d) => OnDevice(d)' = OnDevice(d)
      BY <1>13, <3>1 DEF LaunchInv, LaunchTypeOK, OnDevice, PushFails, Moves, Untold, Calm,
         Upset, Tidied, runVars, programVars, launchHistory
    <3>4. at[d] = "push" => local'[FirstTodo(d)] = local[FirstTodo(d)]
      <4>1. at[d] = "push" => ~Quiet(d)
        BY DEF Quiet
      <4>2. FirstTodo(r) \in todo[r] /\ todo[r] \subseteq carries[r]
        BY <1>13, FirstTodoIsThere DEF LaunchInv, StepInv, PushFails, Moves, Untold, Calm,
           Upset, Tidied, runVars, programVars, launchHistory
      <4>3. \A f \in File \ carries[r] : local'[f] = local[f]
        BY <1>13, <4>2 DEF LaunchInv, LaunchTypeOK, PushFails, Moves, Untold, Calm, Upset,
           Tidied, runVars, programVars, launchHistory
      <4> QED
        BY <3>1, <4>1, <4>3
    <3> QED
      BY <2>1, <3>2, <3>3, <3>4, FilesStay
  <2>3. CASE d = r
    <3>1. /\ UNCHANGED <<on, carries, todo, remote>> /\ at[d] = "push" /\ at'[d] = "clean"
      BY <1>13, <2>3 DEF LaunchInv, LaunchTypeOK, PushFails, Moves, Untold, Calm, Upset, Tidied,
         runVars, programVars, launchHistory
    <3>2. OnDevice(d)' = OnDevice(d) /\ Brought(d)' = Brought(d)
      BY <3>1 DEF OnDevice, Brought
    <3>3. \A f \in Brought(d) : OnDevice(d)[f] = d
      BY <3>1, <2>1 DEF LaunchInv, FileInv
    <3> QED
      BY <3>1, <3>2, <3>3 DEF FileInv
  <2> QED
    BY <2>2, <2>3
<1>14. ASSUME NEW r \in Call, Clean(r) PROVE FileInv(d)'
  <2>1. ~Quiet(r) /\ d \notin crossed
    BY <1>14 DEF Quiet, Clean, Moves, Calm, Tell, Emptied, runVars, programVars, launchHistory
  <2>2. CASE d # r
    <3>1. ~Quiet(d) => /\ on[d] # on[r] /\ carries[d] \cap carries[r] = {}
                       /\ at[d] = "push" => FirstTodo(d) \in File \ carries[r]
      BY <2>1, <2>2, CallsKeepApart
    <3>2. /\ UNCHANGED <<on, carries>> /\ todo'[d] = todo[d] /\ at'[d] = at[d]
          /\ script'[d] = script[d] /\ program'[d] = program[d]
      BY <1>14, <2>2 DEF LaunchInv, LaunchTypeOK, Clean, Moves, Calm, Tell, Emptied, runVars,
         programVars, launchHistory
    <3>3. ~Quiet(d) => OnDevice(d)' = OnDevice(d)
      BY <1>14, <3>1 DEF LaunchInv, LaunchTypeOK, OnDevice, Clean, Moves, Calm, Tell, Emptied,
         runVars, programVars, launchHistory
    <3>4. at[d] = "push" => local'[FirstTodo(d)] = local[FirstTodo(d)]
      BY <1>14 DEF Clean, Moves, Calm, Tell, Emptied, runVars, programVars, launchHistory
    <3> QED
      BY <2>1, <3>2, <3>3, <3>4, FilesStay
  <2>3. CASE d = r
    <3>1. /\ UNCHANGED <<on, carries, todo>> /\ at'[d] = "done"
      BY <1>14, <2>3 DEF LaunchInv, LaunchTypeOK, Clean, Moves, Calm, Tell, Emptied, runVars,
         programVars, launchHistory
    <3>2. on[d] \in Phone /\ remote[on[d]] \in [File -> Call \cup {NoOne}]
      BY DEF LaunchInv, LaunchTypeOK
    <3>3. \A f \in File : OnDevice(d)'[f] \in {OnDevice(d)[f], NoOne}
      BY <1>14, <2>3, <3>2 DEF LaunchInv, LaunchTypeOK, OnDevice, Clean, Moves, Calm, Tell,
         Emptied, runVars, programVars, launchHistory
    <3>4. Brought(d)' = Brought(d) /\ Brought(d) \subseteq File
      BY <3>1 DEF Brought, LaunchInv, LaunchTypeOK
    <3>5. \A f \in Brought(d) : OnDevice(d)[f] \in {d, NoOne}
      BY <2>1, <2>3 DEF LaunchInv, FileInv
    <3>6. \A f \in Brought(d)' : OnDevice(d)'[f] \in {d, NoOne}
      BY <3>3, <3>4, <3>5
    <3> QED
      BY <3>1, <3>6 DEF FileInv
  <2> QED
    BY <2>2, <2>3
<1>15. ASSUME NEW r \in Call, Launch(r) PROVE FileInv(d)'
  BY <1>15 DEF LaunchInv, LaunchTypeOK, FileInv, StepInv, Before, Apart, Meets, Quiet, Brought,
     OnDevice, FirstTodo, Launch, Moves, Untold, Calm, runVars, fileVars, programVars,
     launchHistory
<1>16. ASSUME NEW r \in Call, ShellReturns(r) PROVE FileInv(d)'
  BY <1>16 DEF LaunchInv, LaunchTypeOK, FileInv, StepInv, Before, Apart, Meets, Quiet, Brought,
     OnDevice, FirstTodo, ShellReturns, Moves, Untold, Calm, runVars, fileVars, programVars,
     launchHistory
<1>17. ASSUME NEW r \in Call, ShellRefused(r) PROVE FileInv(d)'
  BY <1>17 DEF LaunchInv, LaunchTypeOK, FileInv, StepInv, Before, Apart, Meets, Quiet, Brought,
     OnDevice, FirstTodo, ShellRefused, Moves, Calm, Tell, Gives, runVars, fileVars,
     programVars, launchHistory
<1>18. ASSUME NEW r \in Call, ShellLost(r) PROVE FileInv(d)'
  BY <1>18 DEF LaunchInv, LaunchTypeOK, FileInv, StepInv, Before, Apart, Meets, Quiet, Brought,
     OnDevice, FirstTodo, ShellLost, Moves, Untold, Upset, runVars, fileVars, programVars,
     launchHistory
<1>19. ASSUME NEW r \in Call, Check(r) PROVE FileInv(d)'
  BY <1>19 DEF LaunchInv, LaunchTypeOK, FileInv, StepInv, Before, Apart, Meets, Quiet, Brought,
     OnDevice, FirstTodo, Check, Moves, Untold, Calm, runVars, fileVars, programVars,
     launchHistory
<1>19a. ASSUME NEW r \in Call, CheckRefused(r) PROVE FileInv(d)'
  BY <1>19a DEF LaunchInv, LaunchTypeOK, FileInv, StepInv, Before, Apart, Meets, Quiet, Brought,
     OnDevice, FirstTodo, CheckRefused, Moves, Untold, Upset, runVars, fileVars, programVars,
     launchHistory
<1>20. ASSUME NEW r \in Call, CheckFails(r) PROVE FileInv(d)'
  BY <1>20 DEF LaunchInv, LaunchTypeOK, FileInv, StepInv, Before, Apart, Meets, Quiet, Brought,
     OnDevice, FirstTodo, CheckFails, Moves, Upset, Tell, Gives, runVars, fileVars, programVars,
     launchHistory
<1>21. ASSUME NEW r \in Call, Adopt(r) PROVE FileInv(d)'
  BY <1>21 DEF LaunchInv, LaunchTypeOK, FileInv, StepInv, Before, Apart, Meets, Quiet, Brought,
     OnDevice, FirstTodo, Adopt, Moves, Calm, Tell, runVars, fileVars, programVars, launchHistory
<1>22. ASSUME NEW r \in Call, ShellForks(r) PROVE FileInv(d)'
  BY <1>22 DEF LaunchInv, LaunchTypeOK, FileInv, StepInv, Before, Apart, Meets, Quiet, Brought,
     OnDevice, FirstTodo, ShellForks, Calm, Idle, OnDevice, runVars, fileVars, launchHistory
<1>23. ASSUME NEW r \in Call, ShellRemoves(r) PROVE FileInv(d)'
  <2>1. ~Quiet(r) /\ d \notin crossed
    BY <1>23 DEF Quiet, ShellRemoves, Calm, Idle, Emptied, runVars, programVars, launchHistory
  <2>2. CASE d # r
    <3>1. ~Quiet(d) => /\ on[d] # on[r] /\ carries[d] \cap carries[r] = {}
                       /\ at[d] = "push" => FirstTodo(d) \in File \ carries[r]
      BY <2>1, <2>2, CallsKeepApart
    <3>2. /\ UNCHANGED <<on, carries>> /\ todo'[d] = todo[d] /\ at'[d] = at[d]
          /\ script'[d] = script[d] /\ program'[d] = program[d]
      BY <1>23, <2>2 DEF LaunchInv, LaunchTypeOK, ShellRemoves, Calm, Idle, Emptied, runVars,
         programVars, launchHistory
    <3>3. ~Quiet(d) => OnDevice(d)' = OnDevice(d)
      BY <1>23, <3>1 DEF LaunchInv, LaunchTypeOK, OnDevice, ShellRemoves, Calm, Idle, Emptied,
         runVars, programVars, launchHistory
    <3>4. at[d] = "push" => local'[FirstTodo(d)] = local[FirstTodo(d)]
      BY <1>23 DEF ShellRemoves, Calm, Idle, Emptied, runVars, programVars, launchHistory
    <3> QED
      BY <2>1, <3>2, <3>3, <3>4, FilesStay
  <2>3. CASE d = r
    <3>1. /\ UNCHANGED <<on, carries, todo>>
          /\ at'[d] \notin {"carry", "push", "launch"}
          /\ script'[d] # "begun"
      BY <1>23, <2>3 DEF LaunchInv, LaunchTypeOK, StepInv, Before, ShellRemoves, Calm, Idle,
         Emptied, runVars, programVars, launchHistory
    <3>2. on[d] \in Phone /\ remote[on[d]] \in [File -> Call \cup {NoOne}]
      BY DEF LaunchInv, LaunchTypeOK
    <3>3. \A f \in File : OnDevice(d)'[f] \in {OnDevice(d)[f], NoOne}
      BY <1>23, <2>3, <3>2 DEF LaunchInv, LaunchTypeOK, OnDevice, ShellRemoves, Calm, Idle,
         Emptied, runVars, programVars, launchHistory
    <3>4. Brought(d)' = Brought(d) /\ Brought(d) \subseteq File
      BY <3>1 DEF Brought, LaunchInv, LaunchTypeOK
    <3>5. \A f \in Brought(d) : OnDevice(d)[f] \in {d, NoOne}
      BY <2>1, <2>3 DEF LaunchInv, FileInv
    <3>6. \A f \in Brought(d)' : OnDevice(d)'[f] \in {d, NoOne}
      BY <3>3, <3>4, <3>5
    <3> QED
      BY <3>1, <3>6 DEF FileInv
  <2> QED
    BY <2>2, <2>3
<1>24. ASSUME NEW r \in Call, SuRefuses(r) PROVE FileInv(d)'
  BY <1>24 DEF LaunchInv, LaunchTypeOK, FileInv, StepInv, Before, Apart, Meets, Quiet, Brought,
     OnDevice, FirstTodo, SuRefuses, Upset, Idle, runVars, fileVars, programVars, launchHistory
<1>25. ASSUME NEW r \in Call, Opens(r) PROVE FileInv(d)'
  BY <1>25 DEF LaunchInv, LaunchTypeOK, FileInv, StepInv, Before, Apart, Meets, Quiet, Brought,
     OnDevice, FirstTodo, Opens, Calm, Idle, OnDevice, runVars, fileVars, launchHistory
<1>26. ASSUME NEW p \in Process, Writes(p) PROVE FileInv(d)'
  BY <1>26 DEF LaunchInv, LaunchTypeOK, FileInv, StepInv, Before, Apart, Meets, Quiet, Brought,
     OnDevice, FirstTodo, Writes, Calm, Idle, runVars, fileVars, programVars, launchHistory
<1>27. ASSUME NEW p \in Process, Exits(p) PROVE FileInv(d)'
  BY <1>27 DEF LaunchInv, LaunchTypeOK, FileInv, StepInv, Before, Apart, Meets, Quiet, Brought,
     OnDevice, FirstTodo, Exits, Calm, Idle, runVars, fileVars, launchHistory
<1>28. ASSUME ByHand PROVE FileInv(d)'
  BY <1>28 DEF LaunchInv, LaunchTypeOK, FileInv, StepInv, Before, Apart, Meets, Quiet, Brought,
     OnDevice, FirstTodo, ByHand, Upset, Idle, runVars, fileVars, launchHistory
<1>29. ASSUME AgentGoesOrComes PROVE FileInv(d)'
  BY <1>29 DEF LaunchInv, LaunchTypeOK, FileInv, StepInv, Before, Apart, Meets, Quiet, Brought,
     OnDevice, FirstTodo, AgentGoesOrComes, Untold, Upset, runVars, fileVars, programVars,
     launchHistory
<1>30. ASSUME DesktopQuits PROVE FileInv(d)'
  BY <1>30 DEF LaunchInv, LaunchTypeOK, FileInv, StepInv, Before, Apart, Meets, Quiet, Brought,
     OnDevice, FirstTodo, DesktopQuits, Untold, Upset, runVars, fileVars, programVars,
     launchHistory
<1> QED
  BY <1>1, <1>2, <1>3, <1>4, <1>5, <1>6, <1>7, <1>8, <1>9, <1>10, <1>11, <1>11a, <1>12, <1>13,
     <1>14, <1>15, <1>16, <1>17, <1>18, <1>19, <1>19a, <1>20, <1>21, <1>22, <1>23, <1>24, <1>25,
     <1>26, <1>27, <1>28, <1>29, <1>30 DEF LaunchNext, Goes, OnTheDevice

\* What an uncrossed call was given, and that its record and its answer wait for it.
LEMMA LaunchNextProcess ==
  ASSUME LaunchInv, LaunchNext, NEW d \in Call \ crossed'
  PROVE  ProcessInv(d)'
<1> USE LaunchAssumption DEF Process, File
<1>1. ASSUME NEW r \in Call, NEW root \in BOOLEAN, NEW files \in SUBSET File, Begin(r, root,
     files) PROVE ProcessInv(d)'
  BY <1>1 DEF LaunchInv, LaunchTypeOK, FileInv, ProcessInv, StepInv, Before, Brought, OnDevice,
     Told, OnRecord, Quiet, Begin, Moves, Untold, Calm, fileVars, programVars
<1>2. ASSUME NEW r \in Call, LookOutside(r) PROVE ProcessInv(d)'
  BY <1>2 DEF LaunchInv, LaunchTypeOK, FileInv, ProcessInv, StepInv, Before, Brought, OnDevice,
     Told, OnRecord, Quiet, LookOutside, Moves, Untold, Calm, runVars, fileVars, programVars,
     launchHistory
<1>3. ASSUME NEW r \in Call, LookInTable(r) PROVE ProcessInv(d)'
  BY <1>3 DEF LaunchInv, LaunchTypeOK, FileInv, ProcessInv, StepInv, Before, Brought, OnDevice,
     Told, OnRecord, Quiet, LookInTable, Moves, Calm, Tell, runVars, fileVars, programVars,
     launchHistory
<1>4. ASSUME NEW r \in Call, Retire(r) PROVE ProcessInv(d)'
  BY <1>4 DEF LaunchInv, LaunchTypeOK, FileInv, ProcessInv, StepInv, Before, Brought, OnDevice,
     Told, OnRecord, Quiet, Retire, Moves, Untold, Calm, AfterRetire, runVars, fileVars,
     launchHistory
<1>5. ASSUME NEW r \in Call, RetireFails(r) PROVE ProcessInv(d)'
  BY <1>5 DEF LaunchInv, LaunchTypeOK, FileInv, ProcessInv, StepInv, Before, Brought, OnDevice,
     Told, OnRecord, Quiet, RetireFails, Moves, Untold, Upset, AfterRetire, runVars, fileVars,
     programVars
<1>6. ASSUME NEW r \in Call, AgentStarts(r) PROVE ProcessInv(d)'
  BY <1>6 DEF LaunchInv, LaunchTypeOK, FileInv, ProcessInv, StepInv, Before, Brought, OnDevice,
     Told, OnRecord, Quiet, AgentStarts, Moves, Untold, Calm, runVars, fileVars, launchHistory
<1>7. ASSUME NEW r \in Call, AgentRefuses(r) PROVE ProcessInv(d)'
  BY <1>7 DEF LaunchInv, LaunchTypeOK, FileInv, ProcessInv, StepInv, Before, Brought, OnDevice,
     Told, OnRecord, Quiet, AgentRefuses, Moves, Calm, Tell, Gives, runVars, fileVars,
     programVars, launchHistory
<1>8. ASSUME NEW r \in Call, Settles(r) PROVE ProcessInv(d)'
  <2>1. (OnRecord(d)' <=> OnRecord(d)) /\ (Told(r) => ran[r].args = r \/ r \in crossed)
    BY <1>8 DEF OnRecord, LaunchInv, ProcessInv, Settles, Moves, Calm, Tell, runVars, fileVars,
       programVars, launchHistory
  <2>2. /\ UNCHANGED <<script, program, ran, crossed>> /\ at' = [at EXCEPT ![r] = at'[r]]
        /\ at[r] = "settle" /\ at'[r] \in {"done", "autopsy"}
        /\ said' = [said EXCEPT ![r] = said'[r]]
    BY <1>8 DEF LaunchInv, LaunchTypeOK, Settles, Moves, Calm, Tell, runVars, fileVars,
       programVars, launchHistory
  <2> QED
    BY <2>1, <2>2 DEF LaunchInv, LaunchTypeOK, ProcessInv, Told
<1>9. ASSUME NEW r \in Call, LosesAgent(r) PROVE ProcessInv(d)'
  BY <1>9 DEF LaunchInv, LaunchTypeOK, FileInv, ProcessInv, StepInv, Before, Brought, OnDevice,
     Told, OnRecord, Quiet, LosesAgent, Moves, Calm, Tell, Gives, runVars, fileVars,
     programVars, launchHistory
<1>10. ASSUME NEW r \in Call, Autopsy(r) PROVE ProcessInv(d)'
  BY <1>10 DEF LaunchInv, LaunchTypeOK, FileInv, ProcessInv, StepInv, Before, Brought, OnDevice,
     Told, OnRecord, Quiet, Autopsy, Moves, Calm, Tell, runVars, fileVars, programVars,
     launchHistory
<1>11. ASSUME NEW r \in Call, WriteLocal(r) PROVE ProcessInv(d)'
  BY <1>11 DEF LaunchInv, LaunchTypeOK, FileInv, ProcessInv, StepInv, Before, Brought, OnDevice,
     Told, OnRecord, Quiet, WriteLocal, Moves, Untold, Calm, runVars, programVars, launchHistory
<1>11a. ASSUME NEW r \in Call, WriteLocalFails(r) PROVE ProcessInv(d)'
  BY <1>11a DEF LaunchInv, LaunchTypeOK, FileInv, ProcessInv, StepInv, Before, Brought,
     OnDevice, Told, OnRecord, Quiet, WriteLocalFails, Moves, Untold, Upset, Tidied, FirstTodo,
     runVars, programVars, launchHistory
<1>12. ASSUME NEW r \in Call, Push(r) PROVE ProcessInv(d)'
  BY <1>12 DEF LaunchInv, LaunchTypeOK, FileInv, ProcessInv, StepInv, Before, Brought, OnDevice,
     Told, OnRecord, Quiet, Push, Moves, Untold, Calm, Tidied, runVars, programVars, launchHistory
<1>13. ASSUME NEW r \in Call, PushFails(r) PROVE ProcessInv(d)'
  BY <1>13 DEF LaunchInv, LaunchTypeOK, FileInv, ProcessInv, StepInv, Before, Brought, OnDevice,
     Told, OnRecord, Quiet, PushFails, Moves, Untold, Calm, Upset, Tidied, runVars, programVars,
     launchHistory
<1>14. ASSUME NEW r \in Call, Clean(r) PROVE ProcessInv(d)'
  BY <1>14 DEF LaunchInv, LaunchTypeOK, FileInv, ProcessInv, StepInv, Before, Brought, OnDevice,
     Told, OnRecord, Quiet, Clean, Moves, Calm, Tell, Emptied, runVars, programVars, launchHistory
<1>15. ASSUME NEW r \in Call, Launch(r) PROVE ProcessInv(d)'
  BY <1>15 DEF LaunchInv, LaunchTypeOK, FileInv, ProcessInv, StepInv, Before, Brought, OnDevice,
     Told, OnRecord, Quiet, Launch, Moves, Untold, Calm, runVars, fileVars, programVars,
     launchHistory
<1>16. ASSUME NEW r \in Call, ShellReturns(r) PROVE ProcessInv(d)'
  BY <1>16 DEF LaunchInv, LaunchTypeOK, FileInv, ProcessInv, StepInv, Before, Brought, OnDevice,
     Told, OnRecord, Quiet, ShellReturns, Moves, Untold, Calm, runVars, fileVars, programVars,
     launchHistory
<1>17. ASSUME NEW r \in Call, ShellRefused(r) PROVE ProcessInv(d)'
  BY <1>17 DEF LaunchInv, LaunchTypeOK, FileInv, ProcessInv, StepInv, Before, Brought, OnDevice,
     Told, OnRecord, Quiet, ShellRefused, Moves, Calm, Tell, Gives, runVars, fileVars,
     programVars, launchHistory
<1>18. ASSUME NEW r \in Call, ShellLost(r) PROVE ProcessInv(d)'
  BY <1>18 DEF LaunchInv, LaunchTypeOK, FileInv, ProcessInv, StepInv, Before, Brought, OnDevice,
     Told, OnRecord, Quiet, ShellLost, Moves, Untold, Upset, runVars, fileVars, programVars,
     launchHistory
<1>19. ASSUME NEW r \in Call, Check(r) PROVE ProcessInv(d)'
  BY <1>19 DEF LaunchInv, LaunchTypeOK, FileInv, ProcessInv, StepInv, Before, Brought, OnDevice,
     Told, OnRecord, Quiet, Check, Moves, Untold, Calm, runVars, fileVars, programVars,
     launchHistory
<1>19a. ASSUME NEW r \in Call, CheckRefused(r) PROVE ProcessInv(d)'
  BY <1>19a DEF LaunchInv, LaunchTypeOK, FileInv, ProcessInv, StepInv, Before, Brought,
     OnDevice, Told, OnRecord, Quiet, CheckRefused, Moves, Untold, Upset, runVars, fileVars,
     programVars, launchHistory
<1>20. ASSUME NEW r \in Call, CheckFails(r) PROVE ProcessInv(d)'
  BY <1>20 DEF LaunchInv, LaunchTypeOK, FileInv, ProcessInv, StepInv, Before, Brought, OnDevice,
     Told, OnRecord, Quiet, CheckFails, Moves, Upset, Tell, Gives, runVars, fileVars,
     programVars, launchHistory
<1>21. ASSUME NEW r \in Call, Adopt(r) PROVE ProcessInv(d)'
  <2>1. r # d => (OnRecord(d)' <=> OnRecord(d))
    <3>1. on[d] = on[r] =>
            table'[on[d]] \in {table[on[d]], table[on[d]] \cup {[pid |-> r, args |-> r]}}
      BY <1>21 DEF LaunchInv, LaunchTypeOK, Adopt, Moves, Calm, Tell, runVars, fileVars,
         programVars, launchHistory
    <3>2. on[d] # on[r] => table'[on[d]] = table[on[d]]
      BY <1>21 DEF LaunchInv, LaunchTypeOK, Adopt, Moves, Calm, Tell, runVars, fileVars,
         programVars, launchHistory
    <3>3. on' = on
      BY <1>21 DEF Adopt, Moves, Calm, Tell, runVars, fileVars, programVars, launchHistory
    <3> QED
      BY <3>1, <3>2, <3>3 DEF OnRecord
  <2>2. /\ UNCHANGED <<script, program, ran, crossed>> /\ at' = [at EXCEPT ![r] = "done"]
        /\ at[r] = "adopt" /\ said' = [said EXCEPT ![r] = said'[r]]
    BY <1>21 DEF LaunchInv, LaunchTypeOK, Adopt, Moves, Calm, Tell, runVars, fileVars,
       programVars, launchHistory
  <2> QED
    BY <2>1, <2>2 DEF LaunchInv, LaunchTypeOK, ProcessInv, Told
<1>22. ASSUME NEW r \in Call, ShellForks(r) PROVE ProcessInv(d)'
  BY <1>22 DEF LaunchInv, LaunchTypeOK, FileInv, ProcessInv, StepInv, Before, Brought, OnDevice,
     Told, OnRecord, Quiet, ShellForks, Calm, Idle, OnDevice, runVars, fileVars, launchHistory
<1>23. ASSUME NEW r \in Call, ShellRemoves(r) PROVE ProcessInv(d)'
  BY <1>23 DEF LaunchInv, LaunchTypeOK, FileInv, ProcessInv, StepInv, Before, Brought, OnDevice,
     Told, OnRecord, Quiet, ShellRemoves, Calm, Idle, Emptied, runVars, programVars, launchHistory
<1>24. ASSUME NEW r \in Call, SuRefuses(r) PROVE ProcessInv(d)'
  BY <1>24 DEF LaunchInv, LaunchTypeOK, FileInv, ProcessInv, StepInv, Before, Brought, OnDevice,
     Told, OnRecord, Quiet, SuRefuses, Upset, Idle, runVars, fileVars, programVars, launchHistory
<1>25. ASSUME NEW r \in Call, Opens(r) PROVE ProcessInv(d)'
  <2>1. (OnRecord(d)' <=> OnRecord(d)) /\ UNCHANGED <<at, script, said, crossed, carries, on>>
    BY <1>25 DEF OnRecord, Opens, Calm, Idle, OnDevice, runVars, fileVars, launchHistory
  <2>2. r # d => ran'[d] = ran[d] /\ program'[d] = program[d]
    BY <1>25 DEF LaunchInv, LaunchTypeOK, Opens, Calm, Idle, OnDevice, runVars, fileVars,
       launchHistory
  <2>3. ran'[r].args = ran[r].args
    BY <1>25 DEF LaunchInv, LaunchTypeOK, Opens, Calm, Idle, OnDevice, runVars, fileVars,
       launchHistory
  <2>4. CASE d = r
    <3>1. program[d] = "forked" /\ todo[d] = {} /\ ~Quiet(d)
      BY <1>25, <2>4 DEF LaunchInv, StepInv, Quiet, Opens, Calm, Idle, OnDevice, runVars,
         fileVars, launchHistory
    <3>2. "stdin" \in carries[d] => OnDevice(d).stdin \in {d, NoOne}
      BY <1>25, <3>1 DEF LaunchInv, FileInv, Brought, Opens, Calm, Idle, OnDevice, runVars,
         fileVars, launchHistory
    <3>3. program'[d] = "running" => ran'[d].stdin = d
      BY <1>25, <2>4, <3>2 DEF LaunchInv, LaunchTypeOK, Opens
    <3> QED
      BY <1>25, <2>1, <2>3, <2>4, <3>3 DEF LaunchInv, ProcessInv, Told, Opens, Calm, Idle,
         OnDevice, runVars, fileVars, launchHistory
  <2> QED
    BY <1>25, <2>1, <2>2, <2>4 DEF LaunchInv, ProcessInv, Told, Opens, Calm, Idle, OnDevice,
       runVars, fileVars, launchHistory
<1>26. ASSUME NEW p \in Process, Writes(p) PROVE ProcessInv(d)'
  BY <1>26 DEF LaunchInv, LaunchTypeOK, FileInv, ProcessInv, StepInv, Before, Brought, OnDevice,
     Told, OnRecord, Quiet, Writes, Calm, Idle, runVars, fileVars, programVars, launchHistory
<1>27. ASSUME NEW p \in Process, Exits(p) PROVE ProcessInv(d)'
  BY <1>27 DEF LaunchInv, LaunchTypeOK, FileInv, ProcessInv, StepInv, Before, Brought, OnDevice,
     Told, OnRecord, Quiet, Exits, Calm, Idle, runVars, fileVars, launchHistory
<1>28. ASSUME ByHand PROVE ProcessInv(d)'
  BY <1>28 DEF LaunchInv, LaunchTypeOK, FileInv, ProcessInv, StepInv, Before, Brought, OnDevice,
     Told, OnRecord, Quiet, ByHand, Upset, Idle, runVars, fileVars, launchHistory
<1>29. ASSUME AgentGoesOrComes PROVE ProcessInv(d)'
  BY <1>29 DEF LaunchInv, LaunchTypeOK, FileInv, ProcessInv, StepInv, Before, Brought, OnDevice,
     Told, OnRecord, Quiet, AgentGoesOrComes, Untold, Upset, runVars, fileVars, programVars,
     launchHistory
<1>30. ASSUME DesktopQuits PROVE ProcessInv(d)'
  BY <1>30 DEF LaunchInv, LaunchTypeOK, FileInv, ProcessInv, StepInv, Before, Brought, OnDevice,
     Told, OnRecord, Quiet, DesktopQuits, Untold, Upset, runVars, fileVars, programVars,
     launchHistory
<1> QED
  BY <1>1, <1>2, <1>3, <1>4, <1>5, <1>6, <1>7, <1>8, <1>9, <1>10, <1>11, <1>11a, <1>12, <1>13,
     <1>14, <1>15, <1>16, <1>17, <1>18, <1>19, <1>19a, <1>20, <1>21, <1>22, <1>23, <1>24, <1>25,
     <1>26, <1>27, <1>28, <1>29, <1>30 DEF LaunchNext, Goes, OnTheDevice

\* Lines of the log of an uncrossed call that could move the old one away.
LEMMA LaunchNextLog ==
  ASSUME LaunchInv, LaunchNext, NEW d \in Call \ (crossed' \cup unretired')
  PROVE  LogInv(d)'
<1> USE LaunchAssumption DEF Process, File
<1>1. ASSUME NEW r \in Call, NEW root \in BOOLEAN, NEW files \in SUBSET File, Begin(r, root,
     files) PROVE LogInv(d)'
  BY <1>1 DEF LaunchInv, LaunchTypeOK, LogInv, StepInv, Before, Apart, Meets, Quiet, Retired,
     NoLog, Begin, Moves, Untold, Calm, fileVars, programVars
<1>2. ASSUME NEW r \in Call, LookOutside(r) PROVE LogInv(d)'
  BY <1>2 DEF LaunchInv, LaunchTypeOK, LogInv, StepInv, Before, Apart, Meets, Quiet, Retired,
     NoLog, LookOutside, Moves, Untold, Calm, runVars, fileVars, programVars, launchHistory
<1>3. ASSUME NEW r \in Call, LookInTable(r) PROVE LogInv(d)'
  BY <1>3 DEF LaunchInv, LaunchTypeOK, LogInv, StepInv, Before, Apart, Meets, Quiet, Retired,
     NoLog, LookInTable, Moves, Calm, Tell, runVars, fileVars, programVars, launchHistory
<1>4. ASSUME NEW r \in Call, Retire(r) PROVE LogInv(d)'
  BY <1>4 DEF LaunchInv, LaunchTypeOK, LogInv, StepInv, Before, Apart, Meets, Quiet, Retired,
     NoLog, Retire, Moves, Untold, Calm, AfterRetire, runVars, fileVars, launchHistory
<1>5. ASSUME NEW r \in Call, RetireFails(r) PROVE LogInv(d)'
  BY <1>5 DEF LaunchInv, LaunchTypeOK, LogInv, StepInv, Before, Apart, Meets, Quiet, Retired,
     NoLog, RetireFails, Moves, Untold, Upset, AfterRetire, runVars, fileVars, programVars
<1>6. ASSUME NEW r \in Call, AgentStarts(r) PROVE LogInv(d)'
  <2>1. ~Quiet(r) /\ d \notin crossed /\ at[r] = "start"
    BY <1>6 DEF Quiet, AgentStarts, Moves, Untold, Calm, runVars, fileVars, launchHistory
  <2>2. at'[d] \in Retired => at[d] \in Retired /\ ~Quiet(d)
    BY <1>6 DEF LaunchInv, LaunchTypeOK, Retired, Quiet, AgentStarts, Moves, Untold, Calm,
       runVars, fileVars, launchHistory
  <2>3. UNCHANGED <<on, cause>> /\ out' = [out EXCEPT ![r] = "log"]
    BY <1>6 DEF AgentStarts, Moves, Untold, Calm, runVars, fileVars, launchHistory
  <2>4. log'[on[d]].last = log[on[d]].last
    BY <1>6, AgentOwnsTheLog DEF LaunchInv, LaunchTypeOK
  <2>5. at'[d] \in Retired => d = r \/ on[d] # on[r]
    BY <2>1, <2>2, CallsKeepApart
  <2>6. LogInv(d)
    BY <1>6 DEF LaunchInv, AgentStarts, Moves, Untold, Calm, runVars, fileVars, launchHistory
  <2> QED
    BY <2>2, <2>3, <2>4, <2>5, <2>6 DEF LogInv, LaunchInv, LaunchTypeOK
<1>7. ASSUME NEW r \in Call, AgentRefuses(r) PROVE LogInv(d)'
  BY <1>7 DEF LaunchInv, LaunchTypeOK, LogInv, StepInv, Before, Apart, Meets, Quiet, Retired,
     NoLog, AgentRefuses, Moves, Calm, Tell, Gives, runVars, fileVars, programVars, launchHistory
<1>8. ASSUME NEW r \in Call, Settles(r) PROVE LogInv(d)'
  BY <1>8 DEF LaunchInv, LaunchTypeOK, LogInv, StepInv, Before, Apart, Meets, Quiet, Retired,
     NoLog, Settles, Moves, Calm, Tell, runVars, fileVars, programVars, launchHistory
<1>9. ASSUME NEW r \in Call, LosesAgent(r) PROVE LogInv(d)'
  BY <1>9 DEF LaunchInv, LaunchTypeOK, LogInv, StepInv, Before, Apart, Meets, Quiet, Retired,
     NoLog, LosesAgent, Moves, Calm, Tell, Gives, runVars, fileVars, programVars, launchHistory
<1>10. ASSUME NEW r \in Call, Autopsy(r) PROVE LogInv(d)'
  BY <1>10 DEF LaunchInv, LaunchTypeOK, LogInv, StepInv, Before, Apart, Meets, Quiet, Retired,
     NoLog, Autopsy, Moves, Calm, Tell, runVars, fileVars, programVars, launchHistory
<1>11. ASSUME NEW r \in Call, WriteLocal(r) PROVE LogInv(d)'
  BY <1>11 DEF LaunchInv, LaunchTypeOK, LogInv, StepInv, Before, Apart, Meets, Quiet, Retired,
     NoLog, WriteLocal, Moves, Untold, Calm, runVars, programVars, launchHistory
<1>11a. ASSUME NEW r \in Call, WriteLocalFails(r) PROVE LogInv(d)'
  BY <1>11a DEF LaunchInv, LaunchTypeOK, LogInv, StepInv, Before, Apart, Meets, Quiet, Retired,
     NoLog, WriteLocalFails, Moves, Untold, Upset, Tidied, FirstTodo, runVars, programVars,
     launchHistory
<1>12. ASSUME NEW r \in Call, Push(r) PROVE LogInv(d)'
  BY <1>12 DEF LaunchInv, LaunchTypeOK, LogInv, StepInv, Before, Apart, Meets, Quiet, Retired,
     NoLog, Push, Moves, Untold, Calm, Tidied, runVars, programVars, launchHistory
<1>13. ASSUME NEW r \in Call, PushFails(r) PROVE LogInv(d)'
  BY <1>13 DEF LaunchInv, LaunchTypeOK, LogInv, StepInv, Before, Apart, Meets, Quiet, Retired,
     NoLog, PushFails, Moves, Untold, Calm, Upset, Tidied, runVars, programVars, launchHistory
<1>14. ASSUME NEW r \in Call, Clean(r) PROVE LogInv(d)'
  BY <1>14 DEF LaunchInv, LaunchTypeOK, LogInv, StepInv, Before, Apart, Meets, Quiet, Retired,
     NoLog, Clean, Moves, Calm, Tell, Emptied, runVars, programVars, launchHistory
<1>15. ASSUME NEW r \in Call, Launch(r) PROVE LogInv(d)'
  BY <1>15 DEF LaunchInv, LaunchTypeOK, LogInv, StepInv, Before, Apart, Meets, Quiet, Retired,
     NoLog, Launch, Moves, Untold, Calm, runVars, fileVars, programVars, launchHistory
<1>16. ASSUME NEW r \in Call, ShellReturns(r) PROVE LogInv(d)'
  BY <1>16 DEF LaunchInv, LaunchTypeOK, LogInv, StepInv, Before, Apart, Meets, Quiet, Retired,
     NoLog, ShellReturns, Moves, Untold, Calm, runVars, fileVars, programVars, launchHistory
<1>17. ASSUME NEW r \in Call, ShellRefused(r) PROVE LogInv(d)'
  BY <1>17 DEF LaunchInv, LaunchTypeOK, LogInv, StepInv, Before, Apart, Meets, Quiet, Retired,
     NoLog, ShellRefused, Moves, Calm, Tell, Gives, runVars, fileVars, programVars, launchHistory
<1>18. ASSUME NEW r \in Call, ShellLost(r) PROVE LogInv(d)'
  BY <1>18 DEF LaunchInv, LaunchTypeOK, LogInv, StepInv, Before, Apart, Meets, Quiet, Retired,
     NoLog, ShellLost, Moves, Untold, Upset, runVars, fileVars, programVars, launchHistory
<1>19. ASSUME NEW r \in Call, Check(r) PROVE LogInv(d)'
  BY <1>19 DEF LaunchInv, LaunchTypeOK, LogInv, StepInv, Before, Apart, Meets, Quiet, Retired,
     NoLog, Check, Moves, Untold, Calm, runVars, fileVars, programVars, launchHistory
<1>19a. ASSUME NEW r \in Call, CheckRefused(r) PROVE LogInv(d)'
  BY <1>19a DEF LaunchInv, LaunchTypeOK, LogInv, StepInv, Before, Apart, Meets, Quiet, Retired,
     NoLog, CheckRefused, Moves, Untold, Upset, runVars, fileVars, programVars, launchHistory
<1>20. ASSUME NEW r \in Call, CheckFails(r) PROVE LogInv(d)'
  BY <1>20 DEF LaunchInv, LaunchTypeOK, LogInv, StepInv, Before, Apart, Meets, Quiet, Retired,
     NoLog, CheckFails, Moves, Upset, Tell, Gives, runVars, fileVars, programVars, launchHistory
<1>21. ASSUME NEW r \in Call, Adopt(r) PROVE LogInv(d)'
  BY <1>21 DEF LaunchInv, LaunchTypeOK, LogInv, StepInv, Before, Apart, Meets, Quiet, Retired,
     NoLog, Adopt, Moves, Calm, Tell, runVars, fileVars, programVars, launchHistory
<1>22. ASSUME NEW r \in Call, ShellForks(r) PROVE LogInv(d)'
  BY <1>22 DEF LaunchInv, LaunchTypeOK, LogInv, StepInv, Before, Apart, Meets, Quiet, Retired,
     NoLog, ShellForks, Calm, Idle, OnDevice, runVars, fileVars, launchHistory
<1>23. ASSUME NEW r \in Call, ShellRemoves(r) PROVE LogInv(d)'
  BY <1>23 DEF LaunchInv, LaunchTypeOK, LogInv, StepInv, Before, Apart, Meets, Quiet, Retired,
     NoLog, ShellRemoves, Calm, Idle, Emptied, runVars, programVars, launchHistory
<1>24. ASSUME NEW r \in Call, SuRefuses(r) PROVE LogInv(d)'
  BY <1>24 DEF LaunchInv, LaunchTypeOK, LogInv, StepInv, Before, Apart, Meets, Quiet, Retired,
     NoLog, SuRefuses, Upset, Idle, runVars, fileVars, programVars, launchHistory
<1>25. ASSUME NEW r \in Call, Opens(r) PROVE LogInv(d)'
  <2>1. ~Quiet(r) /\ d \notin crossed
    BY <1>25 DEF Quiet, Opens, Calm, Idle, OnDevice, runVars, fileVars, launchHistory
  <2>2. at' = at /\ (at[d] \in Retired => ~Quiet(d))
    BY <1>25 DEF Retired, Quiet, Opens, Calm, Idle, OnDevice, runVars, fileVars, launchHistory
  <2>3. UNCHANGED <<on, cause>> /\ (out' = out \/ out' = [out EXCEPT ![r] = "log"])
    BY <1>25 DEF Opens, Calm, Idle, OnDevice, runVars, fileVars, launchHistory
  <2>4. /\ log'[on[r]].last \in {NoOne, log[on[r]].last} /\ on[d] \in Phone
        /\ \A e \in Phone \ {on[r]} : log'[e] = log[e]
    BY <1>25, ProgramOpensTheLog DEF LaunchInv, LaunchTypeOK
  <2>5. at[d] \in Retired => d = r \/ on[d] # on[r]
    BY <2>1, <2>2, CallsKeepApart
  <2>6. LogInv(d)
    BY <1>25 DEF LaunchInv, Opens, Calm, Idle, OnDevice, runVars, fileVars, launchHistory
  <2> QED
    BY <2>2, <2>3, <2>4, <2>5, <2>6 DEF LogInv, LaunchInv, LaunchTypeOK
<1>26. ASSUME NEW p \in Process, Writes(p) PROVE LogInv(d)'
  BY <1>26 DEF LaunchInv, LaunchTypeOK, LogInv, StepInv, Before, Apart, Meets, Quiet, Retired,
     NoLog, Writes, Calm, Idle, runVars, fileVars, programVars, launchHistory
<1>27. ASSUME NEW p \in Process, Exits(p) PROVE LogInv(d)'
  BY <1>27 DEF LaunchInv, LaunchTypeOK, LogInv, StepInv, Before, Apart, Meets, Quiet, Retired,
     NoLog, Exits, Calm, Idle, runVars, fileVars, launchHistory
<1>28. ASSUME ByHand PROVE LogInv(d)'
  BY <1>28 DEF LaunchInv, LaunchTypeOK, LogInv, StepInv, Before, Apart, Meets, Quiet, Retired,
     NoLog, ByHand, Upset, Idle, runVars, fileVars, launchHistory
<1>29. ASSUME AgentGoesOrComes PROVE LogInv(d)'
  BY <1>29 DEF LaunchInv, LaunchTypeOK, LogInv, StepInv, Before, Apart, Meets, Quiet, Retired,
     NoLog, AgentGoesOrComes, Untold, Upset, runVars, fileVars, programVars, launchHistory
<1>30. ASSUME DesktopQuits PROVE LogInv(d)'
  BY <1>30 DEF LaunchInv, LaunchTypeOK, LogInv, StepInv, Before, Apart, Meets, Quiet, Retired,
     NoLog, DesktopQuits, Untold, Upset, runVars, fileVars, programVars, launchHistory
<1> QED
  BY <1>1, <1>2, <1>3, <1>4, <1>5, <1>6, <1>7, <1>8, <1>9, <1>10, <1>11, <1>11a, <1>12, <1>13,
     <1>14, <1>15, <1>16, <1>17, <1>18, <1>19, <1>19a, <1>20, <1>21, <1>22, <1>23, <1>24, <1>25,
     <1>26, <1>27, <1>28, <1>29, <1>30 DEF LaunchNext, Goes, OnTheDevice

\* A call that begins marks whoever is busy and shares with it.
LEMMA LaunchNextApart ==
  ASSUME LaunchInv, LaunchNext, NEW d \in Call \ crossed'
  PROVE  Apart(d)'
<1>1. ASSUME NEW r \in Call, NEW root \in BOOLEAN, NEW files \in SUBSET File,
             Begin(r, root, files)
      PROVE  Apart(d)'
  <2>1. /\ on' = on /\ carries' = [carries EXCEPT ![r] = files]
        /\ at' = [at EXCEPT ![r] = "look"] /\ UNCHANGED <<script, program>>
    BY <1>1 DEF Begin, Moves, runVars, programVars
  <2>2. \A s \in Call \ {r} : (Quiet(s)' <=> Quiet(s)) /\ carries'[s] = carries[s]
    BY <2>1 DEF Quiet, LaunchInv, LaunchTypeOK
  <2>3. /\ crossed \subseteq crossed'
        /\ \A s \in Call \ {r} : ~Quiet(s) /\ Share(r, s) => r \in crossed' /\ s \in crossed'
    BY <1>1 DEF Begin
  <2>4. \A s \in Call : Meets(r, s)' <=> Share(r, s)
    BY <2>1 DEF Meets, Share
  <2>5. \A s \in Call : Meets(s, r)' <=> Meets(r, s)'
    BY DEF Meets
  <2>6. CASE d = r
    BY <2>2, <2>3, <2>4, <2>6 DEF Apart
  <2>7. CASE d # r
    <3>1. ASSUME NEW s \in Call \ {d}, ~Quiet(d)', ~Quiet(s)' PROVE ~Meets(d, s)'
      <4>1. CASE s = r
        BY <2>2, <2>3, <2>4, <2>5, <2>7, <3>1, <4>1
      <4>2. CASE s # r
        <5>1. ~Meets(d, s)
          BY <2>2, <2>3, <2>7, <3>1, <4>2 DEF LaunchInv, Apart
        <5> QED
          BY <2>1, <2>2, <2>7, <4>2, <5>1 DEF Meets
      <4> QED
        BY <4>1, <4>2
    <3> QED
      BY <3>1 DEF Apart
  <2> QED
    BY <2>6, <2>7
<1>2. CASE ~\E r \in Call, root \in BOOLEAN, files \in SUBSET File : Begin(r, root, files)
  <2>1. \A s \in Call : ~Quiet(s)' => ~Quiet(s)
    BY <1>2, NobodyElseGetsBusy
  <2>2. UNCHANGED <<on, carries, crossed>>
    BY <1>2, NobodyElseGetsBusy
  <2> QED
    BY <2>1, <2>2 DEF LaunchInv, Apart, Meets
<1> QED
  BY <1>1, <1>2

LEMMA LaunchInvariance == LaunchSpec => []LaunchInv
<1>1. LaunchInit => LaunchInv
  <2> SUFFICES ASSUME LaunchInit PROVE LaunchInv
    OBVIOUS
  <2>1. LaunchTypeOK
    BY DEF LaunchInit, LaunchTypeOK, Process, File, Log, NoLog
  <2>2. \A r \in Call : Quiet(r) /\ at[r] = "idle" /\ carries[r] = {} /\ todo[r] = {}
    BY DEF LaunchInit, Quiet, Process
  <2>3. \A r \in Call : ~Told(r)
    BY DEF LaunchInit, Told, OnRecord, Process
  <2>4. \A r \in Call : StepInv(r)
    BY <2>2, <2>3 DEF StepInv, LaunchInit, Quiet, Told, Before, Process
  <2>5. \A r \in Call : Apart(r) /\ FileInv(r)
    BY <2>2 DEF Apart, FileInv, Quiet
  <2>6. \A r \in Call : ProcessInv(r)
    BY <2>2, <2>3 DEF ProcessInv, LaunchInit, Process
  <2>7. \A r \in Call : LogInv(r)
    BY <2>2 DEF LogInv, LaunchInit, Retired
  <2> QED
    BY <2>1, <2>4, <2>5, <2>6, <2>7 DEF LaunchInv
<1>2. LaunchInv /\ [LaunchNext]_launchVars => LaunchInv'
  <2> SUFFICES ASSUME LaunchInv, [LaunchNext]_launchVars PROVE LaunchInv'
    OBVIOUS
  <2>1. CASE UNCHANGED launchVars
    <3> USE <2>1 DEF launchVars, runVars, fileVars, programVars, launchHistory
    <3>1. LaunchTypeOK'
      BY DEF LaunchInv, LaunchTypeOK
    <3>2. \A r \in Call : (Quiet(r)' <=> Quiet(r)) /\ (OnRecord(r)' <=> OnRecord(r))
      BY DEF Quiet, OnRecord
    <3>3. \A r \in Call : StepInv(r) => StepInv(r)'
      BY <3>2 DEF StepInv, Told
    <3>4. \A r \in Call : Apart(r) => Apart(r)'
      BY <3>2 DEF Apart, Meets
    <3>5. \A r \in Call : FileInv(r) => FileInv(r)'
      BY <3>2 DEF FileInv, Brought, OnDevice, FirstTodo
    <3>6. \A r \in Call : ProcessInv(r) => ProcessInv(r)'
      BY <3>2 DEF ProcessInv, Told
    <3>7. \A r \in Call : LogInv(r) => LogInv(r)'
      BY DEF LogInv
    <3> QED
      BY <3>1, <3>3, <3>4, <3>5, <3>6, <3>7 DEF LaunchInv
  <2>2. CASE LaunchNext
    BY <2>2, LaunchNextType, LaunchNextStep, LaunchNextApart, LaunchNextFile, LaunchNextProcess,
       LaunchNextLog DEF LaunchInv
  <2> QED
    BY <2>1, <2>2
<1> QED
  BY <1>1, <1>2, PTL DEF LaunchSpec

\* Runs, files, logs, processes and tables keep to their types (hosted_run).
THEOREM LaunchTypeCorrect == LaunchSpec => []LaunchTypeOK
<1>1. LaunchInv => LaunchTypeOK
  BY DEF LaunchInv
<1> QED
  BY <1>1, LaunchInvariance, PTL

\* A record, an answer and the lines quoted for a death are the run's own, for any number of
\* runs and of devices: runs that share files or a device at the same time, and logs that could
\* not be moved, are excepted (hosted_run of device_service.rs, hosted_run_cmd and
\* push_carried_files of adb.rs).
THEOREM ReportIsAlwaysItsOwn == LaunchSpec => []ReportIsItsOwn
<1>1. LaunchInv => ReportIsItsOwn
  BY DEF LaunchInv, ProcessInv, LogInv, Told, ReportIsItsOwn
<1> QED
  BY <1>1, LaunchInvariance, PTL
===============================================================================
