------------------------ MODULE DeviceServices_proofs ------------------------
(***************************************************************************)
(* Proofs about what the Agent and the desktop do to the device: the       *)
(* replacement of a native library, the Frida server, the hosted programs  *)
(* and the writes of the Files page.  Each part is about one module and    *)
(* uses none of the others.                                                *)
(***************************************************************************)
EXTENDS LibraryReplacement, FridaServer, HostedPrograms, FileWrites, SequenceTheorems, TLAPS

-----------------------------------------------------------------------------
(* LibraryReplacement: for any number of operations, failures, timeouts    *)
(* and deaths of the Agent the library the app came with is kept, and,     *)
(* with no other operation in the way, the answer is true of the disk.     *)
(* Neither follows from the scripts alone: a script runs on after the      *)
(* Agent stopped waiting for it, and all share the target and the          *)
(* temporary name.                                                         *)

\* An operation that can still change the target, by a step of its own or by a
\* script that runs.
Harmful(r) ==
  \/ phase[r] \in {"install", "verify", "restore", "remove"}
  \/ phase[r] = "backup" /\ outcome[r] = "ok"
  \/ \E s \in scripts : s.op = r /\ s.kind # "backup"

\* A directory of an operation is written by one script, which runs once.
BackedUpOnce(r) ==
  /\ phase[r] = "idle" => \A s \in scripts : s.op # r
  /\ phase[r] = "idle" \/ (\E s \in scripts : s.op = r /\ s.kind = "backup") =>
       backup[r] = Nowhere
  /\ \A s \in scripts : s.op = r /\ s.kind = "backup" => ~s.moved

\* Where the original library is: in a backup; in place, and nobody is about to
\* change it; or it was never there to be replaced.
Secured == \E r \in Replacement : backup[r] = Original
Untouched == target = Original /\ \A r \in Replacement : ~Harmful(r)
Foreign ==
  /\ target # Original /\ aside # Original
  /\ \A r \in Replacement : before[r] # Original

KeptInv ==
  /\ LibraryTypeOK
  /\ \A r \in Replacement : BackedUpOnce(r)
  /\ unbacked = {} => Secured \/ Untouched \/ Foreign

-----------------------------------------------------------------------------
\* An app as it was installed, with or without the library.
LEMMA InitKeptInv == LibraryInit => KeptInv
<1> SUFFICES ASSUME LibraryInit PROVE KeptInv
  OBVIOUS
<1> USE DEF LibraryInit
<1>1. LibraryTypeOK
  BY DEF LibraryTypeOK, Library
<1>2. \A r \in Replacement : BackedUpOnce(r)
  BY DEF BackedUpOnce
<1>3. Untouched \/ Foreign
  BY LibraryAssumption DEF Untouched, Harmful, Foreign
<1> QED
  BY <1>1, <1>2, <1>3 DEF KeptInv

\* A script that runs belongs to an operation, and is of one of four kinds.
LEMMA ScriptType ==
  ASSUME LibraryTypeOK, NEW s \in scripts
  PROVE  s.op \in Replacement /\ s.kind \in Kind /\ s.moved \in BOOLEAN
BY DEF LibraryTypeOK

\* The steps of the operations: BeginReplace, and what follows a script that ended.
LEMMA OperationKeeps ==
  ASSUME KeptInv, NEW r \in Replacement,
         BeginReplace(r) \/ AfterBackup(r) \/ AfterInstall(r) \/ VerifyInstalled(r)
         \/ AfterRollBack(r) \/ GiveUpWaiting(r)
  PROVE  KeptInv'
<1> USE DEF KeptInv, BeginReplace, AfterBackup, AfterInstall, VerifyInstalled, AfterRollBack,
            GiveUpWaiting, Await, Answer, Finds, libraryFiles, unnoticed, RollBackKind
<1>1. LibraryTypeOK'
  <2> USE DEF LibraryTypeOK
  <2>1. /\ target' = target /\ aside' = aside /\ backup' = backup
        /\ phase' \in [Replacement -> Kind \cup {"idle", "verify", "done"}]
    BY DEF Kind
  <2>2. scripts' \subseteq [op : Replacement, kind : Kind, moved : BOOLEAN]
    <3> DEFINE Starts(k) == scripts' = scripts \cup {[op |-> r, kind |-> k, moved |-> FALSE]}
    <3>1. scripts' = scripts \/ \E k \in Kind : Starts(k)
      BY DEF Kind
    <3>2. \A k \in Kind : [op |-> r, kind |-> k, moved |-> FALSE]
                             \in [op : Replacement, kind : Kind, moved : BOOLEAN]
      OBVIOUS
    <3>3. scripts \subseteq [op : Replacement, kind : Kind, moved : BOOLEAN]
      OBVIOUS
    <3> QED
      <4> HIDE DEF KeptInv, BeginReplace, AfterBackup, AfterInstall, VerifyInstalled, AfterRollBack,
                   GiveUpWaiting
      <4> QED
        BY <3>1, <3>2, <3>3
  <2>3. existed' \in [Replacement -> BOOLEAN] /\ outcome' \in [Replacement -> {"none", "ok", "failed"}]
    OBVIOUS
  <2>4. /\ reply' \in [Replacement -> {"none", "failed", "verified", "restored", "stuck"}]
        /\ before' \in [Replacement -> Library]
    OBVIOUS
  <2>5. overlapped' \in BOOLEAN
    OBVIOUS
  <2> QED
    BY <2>1, <2>2, <2>3, <2>4, <2>5
<1>2. ASSUME NEW q \in Replacement PROVE BackedUpOnce(q)'
  BY DEF BackedUpOnce, LibraryTypeOK, Kind, Waits
<1>3. ASSUME unbacked' = {} PROVE (Secured \/ Untouched \/ Foreign)'
  <2>1. CASE Secured
    BY <2>1 DEF Secured
  <2>2. CASE Untouched
    <3>1. target' = Original
      BY <2>2 DEF Untouched
    <3>2. ASSUME NEW q \in Replacement PROVE ~Harmful(q)'
      BY <1>3, <2>2, LibraryAssumption DEF Untouched, Harmful, LibraryTypeOK, Kind, Waits
    <3> QED
      BY <3>1, <3>2 DEF Untouched
  <2>3. CASE Foreign
    BY <2>3 DEF Foreign, LibraryTypeOK
  <2> QED
    BY <1>3, <2>1, <2>2, <2>3
<1> QED
  BY <1>1, <1>2, <1>3

\* The steps of the scripts.
LEMMA ScriptKeeps == ASSUME KeptInv, NEW s \in scripts, RunsScript(s) PROVE KeptInv'
<1> USE DEF KeptInv, StaysOnDisk, AgentUnmoved, libraryFiles, unnoticed, EndScript
<1>1. s.op \in Replacement /\ s.kind \in Kind /\ s.moved \in BOOLEAN
  BY ScriptType
<1>2. CASE BackUp(s)
  <2> USE <1>2 DEF BackUp
  <2>1. LibraryTypeOK'
    BY <1>1 DEF LibraryTypeOK
  <2>2. ASSUME NEW q \in Replacement PROVE BackedUpOnce(q)'
    <3>1. CASE q # s.op
      BY <1>1, <3>1 DEF BackedUpOnce, LibraryTypeOK
    <3>2. CASE q = s.op
      <4>1. BackedUpOnce(q) /\ phase[q] # "idle" /\ phase'[q] = phase[q]
        BY <3>2 DEF BackedUpOnce
      <4>2. \A t \in scripts : t.op = q /\ t.kind = "backup" => t = s
        BY <3>2, <4>1 DEF BackedUpOnce, LibraryTypeOK
      <4> QED
        BY <4>1, <4>2 DEF BackedUpOnce
    <3> QED
      BY <3>1, <3>2
  <2>3. ASSUME unbacked' = {} PROVE (Secured \/ Untouched \/ Foreign)'
    <3>1. CASE Secured
      <4>1. PICK q \in Replacement : backup[q] = Original
        BY <3>1 DEF Secured
      <4>2. backup'[q] = Original
        BY <1>1, <4>1, LibraryAssumption DEF BackedUpOnce, LibraryTypeOK
      <4> QED
        BY <4>2 DEF Secured
    <3>2. CASE Untouched
      BY <1>1, <3>2, LibraryAssumption DEF Untouched, Secured, LibraryTypeOK
    <3>3. CASE Foreign
      BY <3>3 DEF Foreign
    <3> QED
      BY <2>3, <3>1, <3>2, <3>3
  <2> QED
    BY <2>1, <2>2, <2>3
<1>3. CASE BackUpFails(s)
  <2> USE <1>3 DEF BackUpFails, Mishap
  <2>1. LibraryTypeOK'
    BY <1>1 DEF LibraryTypeOK, Library
  <2>2. ASSUME NEW q \in Replacement PROVE BackedUpOnce(q)'
    <3>1. CASE q # s.op
      BY <1>1, <3>1 DEF BackedUpOnce, LibraryTypeOK
    <3>2. CASE q = s.op
      <4>1. BackedUpOnce(q) /\ phase[q] # "idle" /\ phase'[q] = phase[q]
        BY <3>2 DEF BackedUpOnce
      <4>2. \A t \in scripts : t.op = q /\ t.kind = "backup" => t = s
        BY <3>2, <4>1 DEF BackedUpOnce, LibraryTypeOK
      <4> QED
        BY <4>1, <4>2 DEF BackedUpOnce
    <3> QED
      BY <3>1, <3>2
  <2>3. unbacked' # {}
    OBVIOUS
  <2> QED
    BY <2>1, <2>2, <2>3
<1>4. CASE CopyAside(s)
  <2> USE <1>4 DEF CopyAside
  <2>1. LibraryTypeOK'
    <3>1. aside' \in Library /\ outcome' \in [Replacement -> {"none", "ok", "failed"}]
      BY <1>1 DEF LibraryTypeOK, Library
    <3>2. [s EXCEPT !.moved = TRUE] \in [op : Replacement, kind : Kind, moved : BOOLEAN]
      BY <1>1 DEF LibraryTypeOK
    <3>3. scripts' = scripts \/ scripts' = scripts \ {s}
          \/ scripts' = (scripts \ {s}) \cup {[s EXCEPT !.moved = TRUE]}
      OBVIOUS
    <3>4. scripts \subseteq [op : Replacement, kind : Kind, moved : BOOLEAN]
      BY DEF LibraryTypeOK
    <3>5. scripts' \subseteq [op : Replacement, kind : Kind, moved : BOOLEAN]
      <4> HIDE DEF CopyAside, KeptInv, EndScript
      <4> QED
        BY <3>2, <3>3, <3>4
    <3> QED
      BY <3>1, <3>5 DEF LibraryTypeOK
  <2>2. \A t \in scripts' : \E u \in scripts : u.op = t.op /\ u.kind = t.kind
    BY <1>1 DEF LibraryTypeOK
  <2>3. ASSUME NEW q \in Replacement PROVE BackedUpOnce(q)'
    BY <1>1, <2>2 DEF BackedUpOnce, LibraryTypeOK
  <2>4. ASSUME unbacked' = {} PROVE (Secured \/ Untouched \/ Foreign)'
    <3>1. CASE Secured
      BY <3>1 DEF Secured
    <3>2. CASE Untouched
      BY <1>1, <3>2 DEF Untouched, Harmful
    <3>3. CASE Foreign
      BY <1>1, <3>3, LibraryAssumption DEF Foreign, Secured
    <3> QED
      BY <2>4, <3>1, <3>2, <3>3
  <2> QED
    BY <2>1, <2>3, <2>4
<1>7. CASE CopyFails(s)
  <2> USE <1>7 DEF CopyFails, Mishap
  <2>1. LibraryTypeOK'
    <3>1. aside' \in Library /\ outcome' \in [Replacement -> {"none", "ok", "failed"}]
      BY <1>1 DEF LibraryTypeOK, Library
    <3>2. [s EXCEPT !.moved = TRUE] \in [op : Replacement, kind : Kind, moved : BOOLEAN]
      BY <1>1 DEF LibraryTypeOK
    <3>3. scripts' = scripts \/ scripts' = scripts \ {s}
          \/ scripts' = (scripts \ {s}) \cup {[s EXCEPT !.moved = TRUE]}
      OBVIOUS
    <3>4. scripts \subseteq [op : Replacement, kind : Kind, moved : BOOLEAN]
      BY DEF LibraryTypeOK
    <3>5. scripts' \subseteq [op : Replacement, kind : Kind, moved : BOOLEAN]
      <4> HIDE DEF CopyFails, KeptInv, EndScript
      <4> QED
        BY <3>2, <3>3, <3>4
    <3> QED
      BY <3>1, <3>5 DEF LibraryTypeOK
  <2>2. \A t \in scripts' : \E u \in scripts : u.op = t.op /\ u.kind = t.kind
    BY <1>1 DEF LibraryTypeOK
  <2>3. ASSUME NEW q \in Replacement PROVE BackedUpOnce(q)'
    BY <1>1, <2>2 DEF BackedUpOnce, LibraryTypeOK
  <2>4. ASSUME unbacked' = {} PROVE (Secured \/ Untouched \/ Foreign)'
    <3>1. CASE Secured
      BY <3>1 DEF Secured
    <3>2. CASE Untouched
      BY <1>1, <3>2 DEF Untouched, Harmful
    <3>3. CASE Foreign
      BY <1>1, <3>3, LibraryAssumption DEF Foreign
    <3> QED
      BY <2>4, <3>1, <3>2, <3>3
  <2> QED
    BY <2>1, <2>3, <2>4
<1>5. CASE MoveToTarget(s) \/ RemoveTarget(s)
  <2> USE <1>5 DEF MoveToTarget, RemoveTarget
  <2>1. LibraryTypeOK'
    BY <1>1 DEF LibraryTypeOK, Library
  <2>2. ASSUME NEW q \in Replacement PROVE BackedUpOnce(q)'
    BY <1>1 DEF BackedUpOnce, LibraryTypeOK
  <2>3. ASSUME unbacked' = {} PROVE (Secured \/ Untouched \/ Foreign)'
    <3>1. CASE Secured
      BY <3>1 DEF Secured
    <3>2. CASE Untouched
      BY <1>1, <3>2 DEF Untouched, Harmful
    <3>3. CASE Foreign
      BY <3>3, LibraryAssumption DEF Foreign
    <3> QED
      BY <2>3, <3>1, <3>2, <3>3
  <2> QED
    BY <2>1, <2>2, <2>3
<1>6. CASE ScriptFails(s) \/ RemoveFails(s)
  <2> USE <1>6 DEF ScriptFails, RemoveFails, Mishap
  <2>1. LibraryTypeOK'
    BY <1>1 DEF LibraryTypeOK
  <2>2. ASSUME NEW q \in Replacement PROVE BackedUpOnce(q)'
    BY <1>1 DEF BackedUpOnce, LibraryTypeOK
  <2>3. ASSUME unbacked' = {} PROVE (Secured \/ Untouched \/ Foreign)'
    BY <1>1, <2>3 DEF Secured, Untouched, Harmful, Foreign, LibraryTypeOK
  <2> QED
    BY <2>1, <2>2, <2>3
<1> QED
  BY <1>2, <1>3, <1>4, <1>5, <1>6, <1>7 DEF RunsScript

\* Every step keeps the library.
LEMMA NextKeptInv == KeptInv /\ [LibraryNext]_libraryVars => KeptInv'
<1> SUFFICES ASSUME KeptInv, [LibraryNext]_libraryVars PROVE KeptInv'
  OBVIOUS
<1>1. CASE UNCHANGED libraryVars
  BY <1>1 DEF libraryVars, KeptInv, LibraryTypeOK, BackedUpOnce, Secured, Untouched, Harmful, Foreign
<1>2. CASE AgentDies
  <2> USE <1>2 DEF AgentDies, KeptInv, libraryFiles, unnoticed, UnderWay
  <2>1. LibraryTypeOK'
    BY DEF LibraryTypeOK
  <2>2. \A q \in Replacement : phase'[q] \in {phase[q], "done"}
    OBVIOUS
  <2>3. \A q \in Replacement : BackedUpOnce(q)'
    BY <2>2 DEF BackedUpOnce
  <2>4. ASSUME unbacked' = {} PROVE (Secured \/ Untouched \/ Foreign)'
    BY <2>2, <2>4 DEF Secured, Untouched, Harmful, Foreign
  <2> QED
    BY <2>1, <2>3, <2>4
<1> QED
  BY <1>1, <1>2, OperationKeeps, ScriptKeeps DEF LibraryNext

\* The library the app came with is never lost: it is in place or in a backup,
\* whatever fails, dies, overlaps or runs late, unless an operation did not see it or
\* the copy to its backup failed unseen (replace_native_library, backup_script).
THEOREM OriginalIsAlwaysKept == LibrarySpec => []OriginalIsKept
<1>1. KeptInv => OriginalIsKept
  BY DEF KeptInv, OriginalIsKept, Secured, Untouched, Foreign
<1>2. LibrarySpec => []KeptInv
  BY InitKeptInv, NextKeptInv, PTL DEF LibrarySpec
<1> QED
  BY <1>1, <1>2, PTL

-----------------------------------------------------------------------------
(* What an operation was answered with. *)

\* Operations did not overlap, none stopped waiting for a script, and nothing
\* failed unnoticed.
Undisturbed == ~overlapped /\ outlived \cup unbacked \cup unchecked = {}

\* The operation under way is the only one, and so is the script it waits for.
Alone(r) ==
  /\ \A q \in Replacement : UnderWay(q) => q = r
  /\ \A s \in scripts : s.op = r /\ s.kind = phase[r] /\ outcome[r] = "none"
  /\ \A s, t \in scripts : s = t

\* What is true of the disk while the operation is at a step: of the target until
\* it is installed, of the backup from then on, of the target again at the end.
Faithful(r) ==
  /\ existed[r] <=> before[r] # Nowhere
  /\ phase[r] = "backup" =>
       existed[r] /\ target = before[r] /\ (outcome[r] = "ok" => backup[r] = before[r])
  /\ phase[r] \in {"install", "verify", "restore"} /\ existed[r] => backup[r] = before[r]
  /\ phase[r] = "restore" => /\ existed[r]
                             /\ outcome[r] = "ok" => target = before[r]
                             /\ \A s \in scripts : s.moved => aside = before[r]
  /\ phase[r] = "remove" => ~existed[r] /\ (outcome[r] = "ok" => target = Nowhere)

AnswerInv == Undisturbed => \A r \in Replacement : UnderWay(r) => Alone(r) /\ Faithful(r)

\* An operation begins: with nobody under way and no script running, or it is
\* counted as an overlap.
LEMMA BeginAnswers ==
  ASSUME LibraryTypeOK, AnswerInv, NEW r \in Replacement, BeginReplace(r) PROVE AnswerInv'
<1> SUFFICES ASSUME Undisturbed', NEW q \in Replacement, UnderWay(q)' PROVE (Alone(q) /\ Faithful(q))'
  BY DEF AnswerInv
<1> USE DEF BeginReplace, Finds, Await, libraryFiles
<1>1. scripts = {} /\ \A p \in Replacement : ~UnderWay(p)
  BY DEF Undisturbed, LibraryTypeOK
<1>2. \A p \in Replacement : UnderWay(p)' => p = r
  BY <1>1 DEF UnderWay, LibraryTypeOK
<1>3. q = r
  BY <1>2
<1>7. unbacked' = {} /\ Finds(r, target # Nowhere)
  BY DEF Undisturbed
<1>4. PICK k \in {"backup", "install"} :
        /\ k = "backup" <=> target # Nowhere
        /\ phase'[r] = k /\ outcome'[r] = "none" /\ before'[r] = target
        /\ existed'[r] <=> target # Nowhere
        /\ scripts' = {[op |-> r, kind |-> k, moved |-> FALSE]}
  BY <1>1, <1>7 DEF LibraryTypeOK
<1>5. Alone(r)'
  <2>1. \A s \in scripts' : s.op = r /\ s.kind = phase'[r] /\ outcome'[r] = "none"
    BY <1>4
  <2>2. \A s, t \in scripts' : s = t
    BY <1>4
  <2> QED
    BY <1>2, <2>1, <2>2 DEF Alone
<1>6. Faithful(r)'
  BY <1>4 DEF Faithful
<1> QED
  BY <1>3, <1>5, <1>6

\* The steps of an operation under way.
LEMMA GoOnAnswers ==
  ASSUME LibraryTypeOK, AnswerInv, NEW r \in Replacement,
         AfterBackup(r) \/ AfterInstall(r) \/ VerifyInstalled(r) \/ AfterRollBack(r)
         \/ GiveUpWaiting(r)
  PROVE  AnswerInv'
<1> SUFFICES ASSUME Undisturbed', NEW q \in Replacement, UnderWay(q)' PROVE (Alone(q) /\ Faithful(q))'
  BY DEF AnswerInv
<1>1. Undisturbed /\ ~GiveUpWaiting(r)
  BY DEF Undisturbed, AfterBackup, AfterInstall, VerifyInstalled, AfterRollBack, GiveUpWaiting,
         unnoticed
<1>2. UnderWay(r)
  BY <1>1 DEF UnderWay, AfterBackup, AfterInstall, VerifyInstalled, AfterRollBack
<1>3. Alone(r) /\ Faithful(r)
  BY <1>1, <1>2 DEF AnswerInv
<1>4. scripts = {}
  BY <1>1, <1>3 DEF Alone, AfterBackup, AfterInstall, VerifyInstalled, AfterRollBack, Kind, LibraryTypeOK
<1>5. \A p \in Replacement : UnderWay(p)' => p = r
  BY <1>1, <1>3 DEF Alone, UnderWay, AfterBackup, AfterInstall, VerifyInstalled, AfterRollBack,
                    Await, Answer, LibraryTypeOK
<1>6. q = r /\ phase'[r] \notin {"idle", "done"}
  BY <1>5 DEF UnderWay
<1> USE DEF LibraryTypeOK, libraryFiles, unnoticed, RollBackKind
<1>7. CASE AfterBackup(r)
  <2>1. /\ phase[r] = "backup" /\ outcome[r] = "ok" /\ phase'[r] = "install" /\ outcome'[r] = "none"
        /\ scripts' = {[op |-> r, kind |-> "install", moved |-> FALSE]}
    BY <1>4, <1>6, <1>7 DEF AfterBackup, Await, Answer
  <2>2. Alone(r)'
    BY <1>5, <2>1 DEF Alone
  <2>3. Faithful(r)'
    BY <1>3, <1>7, <2>1 DEF Faithful, AfterBackup
  <2> QED
    BY <1>6, <2>2, <2>3
<1>8. CASE AfterInstall(r) /\ outcome[r] = "ok"
  <2>1. phase[r] = "install" /\ phase'[r] = "verify" /\ scripts' = {}
    BY <1>4, <1>8 DEF AfterInstall
  <2>2. Alone(r)'
    BY <1>5, <2>1 DEF Alone
  <2>3. Faithful(r)'
    BY <1>3, <1>8, <2>1 DEF Faithful, AfterInstall
  <2> QED
    BY <1>6, <2>2, <2>3
<1>9. CASE (AfterInstall(r) /\ outcome[r] # "ok") \/ VerifyInstalled(r)
  <2>1. PICK k \in {"restore", "remove"} :
          /\ k = "restore" <=> existed[r]
          /\ phase[r] \in {"install", "verify"} /\ phase'[r] = k /\ outcome'[r] = "none"
          /\ scripts' = {[op |-> r, kind |-> k, moved |-> FALSE]}
    BY <1>4, <1>6, <1>9 DEF AfterInstall, VerifyInstalled, Await, Answer
  <2>2. UNCHANGED <<target, aside, backup, existed, before>>
    BY <1>9 DEF AfterInstall, VerifyInstalled
  <2>3. Alone(r)'
    BY <1>5, <2>1 DEF Alone
  <2>4. Faithful(r)'
    BY <1>3, <2>1, <2>2 DEF Faithful
  <2> QED
    BY <1>6, <2>3, <2>4
<1>10. CASE AfterRollBack(r)
  BY <1>6, <1>10 DEF AfterRollBack, Answer
<1> QED
  BY <1>1, <1>7, <1>8, <1>9, <1>10

\* The steps of a script: of the one that runs for the operation under way.
LEMMA ScriptAnswers ==
  ASSUME LibraryTypeOK, AnswerInv, NEW s \in scripts, RunsScript(s) PROVE AnswerInv'
<1> SUFFICES ASSUME Undisturbed', NEW r \in Replacement, UnderWay(r)' PROVE (Alone(r) /\ Faithful(r))'
  BY DEF AnswerInv
<1> USE DEF StaysOnDisk, AgentUnmoved, libraryFiles, unnoticed, EndScript
<1>1. /\ UNCHANGED <<phase, existed, before, overlapped, outlived>>
      /\ unbacked \subseteq unbacked' /\ unchecked \subseteq unchecked'
  BY DEF RunsScript, BackUp, BackUpFails, CopyAside, CopyFails, MoveToTarget, RemoveTarget,
     RemoveFails, ScriptFails
<1>2. Undisturbed /\ UnderWay(r) /\ unbacked' = {} /\ unchecked' = {}
  BY <1>1 DEF Undisturbed, UnderWay
<1>3. Alone(r) /\ Faithful(r)
  BY <1>2 DEF AnswerInv
<1>4. /\ s.op = r /\ s.kind = phase[r] /\ outcome[r] = "none" /\ scripts = {s}
      /\ s.kind \in Kind /\ s.moved \in BOOLEAN
  BY <1>3, ScriptType DEF Alone
<1>5. ~BackUpFails(s) /\ ~RemoveFails(s) /\ (CopyFails(s) => s.kind = "install")
  BY <1>2 DEF BackUpFails, RemoveFails, CopyFails
<1>6. \A p \in Replacement : UnderWay(p)' => p = r
  BY <1>1, <1>3 DEF Alone, UnderWay
<1>7. CASE CopyAside(s) /\ ~(s.kind = "restore" /\ backup[s.op] = Nowhere)
  <2>1. /\ scripts' = {[s EXCEPT !.moved = TRUE]} /\ outcome' = outcome /\ UNCHANGED <<target, backup>>
        /\ s.kind = "restore" => aside' = backup[r]
    BY <1>4, <1>7 DEF CopyAside
  <2>2. [s EXCEPT !.moved = TRUE].op = r /\ [s EXCEPT !.moved = TRUE].kind = phase[r]
    BY <1>4 DEF LibraryTypeOK
  <2>3. Alone(r)'
    BY <1>1, <1>4, <1>6, <2>1, <2>2 DEF Alone
  <2>4. Faithful(r)'
    BY <1>1, <1>3, <1>4, <2>1 DEF Faithful
  <2> QED
    BY <2>3, <2>4
<1>8. CASE scripts' = {}
  <2>1. Alone(r)'
    BY <1>6, <1>8 DEF Alone
  <2>2. Faithful(r)'
    <3>1. CASE BackUp(s)
      BY <1>1, <1>3, <1>4, <1>8, <3>1 DEF BackUp, Faithful, LibraryTypeOK
    <3>2. CASE CopyAside(s)
      BY <1>1, <1>3, <1>4, <1>8, <3>2 DEF CopyAside, Faithful, LibraryTypeOK
    <3>3. CASE MoveToTarget(s)
      BY <1>1, <1>3, <1>4, <1>8, <3>3 DEF MoveToTarget, Faithful, LibraryTypeOK
    <3>4. CASE RemoveTarget(s)
      BY <1>1, <1>3, <1>4, <1>8, <3>4 DEF RemoveTarget, Faithful, LibraryTypeOK
    <3>5. CASE ScriptFails(s)
      BY <1>1, <1>3, <1>4, <1>8, <3>5 DEF ScriptFails, Faithful, LibraryTypeOK
    <3>6. CASE CopyFails(s)
      BY <1>1, <1>3, <1>4, <1>5, <1>8, <3>6 DEF CopyFails, Faithful, LibraryTypeOK
    <3> QED
      BY <1>5, <3>1, <3>2, <3>3, <3>4, <3>5, <3>6 DEF RunsScript
  <2> QED
    BY <2>1, <2>2
<1>9. scripts' = {} \/ (CopyAside(s) /\ ~(s.kind = "restore" /\ backup[s.op] = Nowhere))
  BY <1>4, <1>5 DEF RunsScript, BackUp, CopyAside, CopyFails, MoveToTarget, RemoveTarget,
     ScriptFails
<1> QED
  BY <1>7, <1>8, <1>9

\* Every step keeps what an operation under way can rely on.
LEMMA NextAnswerInv == LibraryTypeOK /\ AnswerInv /\ [LibraryNext]_libraryVars => AnswerInv'
<1> SUFFICES ASSUME LibraryTypeOK, AnswerInv, [LibraryNext]_libraryVars PROVE AnswerInv'
  OBVIOUS
<1>1. CASE UNCHANGED libraryVars
  BY <1>1 DEF libraryVars, AnswerInv, Undisturbed, Alone, Faithful, UnderWay
<1>2. CASE AgentDies
  <2>1. \A r \in Replacement : phase'[r] \in {"idle", "done"}
    BY <1>2 DEF AgentDies, UnderWay
  <2> QED
    BY <2>1 DEF AnswerInv, UnderWay
<1> QED
  BY <1>1, <1>2, BeginAnswers, GoOnAnswers, ScriptAnswers DEF LibraryNext

\* The answer is true of the disk: "verified" of the staged library, a failure of
\* what was there before; unless operations overlapped, stopped waiting for a script, did
\* not see the library they replaced, or a cp or rm of a script failed unseen
\* (replace_native_library, backup_script, rollback_script).
THEOREM AnswerIsAlwaysTrue == LibrarySpec => AnswerIsTrue
<1> DEFINE True ==
      \A r \in Replacement :
        (reply'[r] # reply[r] /\ ~overlapped /\ outlived \cup unbacked \cup unchecked = {}) =>
          /\ reply'[r] = "verified" => target = r
          /\ reply'[r] \in {"failed", "restored"} => target = before[r]
<1>1. LibraryTypeOK /\ AnswerInv /\ [LibraryNext]_libraryVars => [True]_libraryVars
  <2> SUFFICES ASSUME LibraryTypeOK, AnswerInv, LibraryNext, NEW r \in Replacement,
                      reply'[r] # reply[r], Undisturbed
               PROVE  /\ reply'[r] = "verified" => target = r
                      /\ reply'[r] \in {"failed", "restored"} => target = before[r]
    BY DEF Undisturbed
  <2>1. ASSUME NEW s \in scripts, RunsScript(s) PROVE FALSE
    BY <2>1 DEF RunsScript, BackUp, BackUpFails, CopyAside, CopyFails, MoveToTarget, RemoveTarget,
                RemoveFails, ScriptFails, StaysOnDisk, AgentUnmoved
  <2>2. PICK q \in Replacement : \/ AfterBackup(q) \/ VerifyInstalled(q) \/ AfterRollBack(q)
    BY <2>1 DEF LibraryNext, BeginReplace, AfterInstall, GiveUpWaiting, AgentDies
  <2>3. q = r
    BY <2>2 DEF AfterBackup, VerifyInstalled, AfterRollBack, Answer, LibraryTypeOK
  <2>4. Faithful(r)
    BY <2>2, <2>3 DEF AnswerInv, UnderWay, AfterBackup, VerifyInstalled, AfterRollBack
  <2> QED
    BY <2>2, <2>3, <2>4 DEF Faithful, AfterBackup, VerifyInstalled, AfterRollBack, Answer, LibraryTypeOK
<1>2. LibraryInit => AnswerInv
  BY DEF LibraryInit, AnswerInv, UnderWay
<1>3. KeptInv => LibraryTypeOK
  BY DEF KeptInv
<1>4. LibrarySpec => [][True]_libraryVars
  BY <1>1, <1>2, <1>3, InitKeptInv, NextKeptInv, NextAnswerInv, PTL DEF LibrarySpec
<1> QED
  BY <1>4 DEF AnswerIsTrue

-----------------------------------------------------------------------------
(* FridaServer: a start that failed leaves nothing half up. *)

\* No script is left that could start the server of this operation.
Settled(o) == \A s \in suScripts : s.op = o => s.does # "start"
OneStart(o) ==
  \A s, t \in suScripts : s.op = o /\ s.does = "start" /\ t.op = o /\ t.does = "start" => s = t
NotUp(o) == server[o] \notin {"up", "bound"}

FridaShape ==
  /\ server \in [Server -> {"none", "up", "bound", "ending", "gone"}]
  /\ request \in [FridaOp -> {"none", "start", "stop"}]
  /\ at \in [FridaOp -> {"idle", "scan", "script", "check", "listen", "undo", "confirm", "done"}]
  /\ suScripts \subseteq [op : FridaOp, does : {"start", "stop"}, begun : BOOLEAN]
  /\ ended \in [FridaOp -> {"none", "ok", "failed"}]
  /\ said \in [FridaOp -> {"nothing", "failed", "no_op", "verified", "stopped", "late"}]
  /\ unsure \subseteq FridaOp

\* A start that is sure of its scripts has none left when it goes on from one, and after
\* the script that stops what is of no use its server is not up.
StartInv(o) ==
  /\ request[o] = "none" <=> at[o] = "idle"
  /\ at[o] = "idle" => said[o] = "nothing"
  /\ at[o] = "confirm" => request[o] = "stop"
  /\ at[o] \in {"idle", "scan"} => server[o] = "none" /\ Settled(o)
  /\ OneStart(o)
  /\ request[o] = "start" /\ said[o] = "failed" => at[o] = "done"
  /\ request[o] = "start" /\ o \notin unsure =>
       /\ at[o] = "script" => ended[o] # "failed" /\ (ended[o] = "ok" => Settled(o))
       /\ at[o] \in {"check", "listen", "undo"} => Settled(o)
       /\ at[o] = "undo" /\ ended[o] # "none" => NotUp(o)
       /\ said[o] = "failed" => NotUp(o) /\ Settled(o)

FridaInv == FridaShape /\ \A o \in FridaOp : StartInv(o)

\* The call of a script is begun, whatever it is for.
LEMMA ScriptRuns ==
  ASSUME FridaShape, NEW o \in FridaOp, NEW kind \in {"start", "stop"},
         NEW step \in {"script", "undo"}, RunScript(o, kind, step)
  PROVE  /\ suScripts' \subseteq [op : FridaOp, does : {"start", "stop"}, begun : BOOLEAN]
         /\ ended' \in [FridaOp -> {"none", "ok", "failed"}]
         /\ at' \in [FridaOp -> {"idle", "scan", "script", "check", "listen", "undo", "confirm",
                                 "done"}]
<1>1. [op |-> o, does |-> kind, begun |-> FALSE]
        \in [op : FridaOp, does : {"start", "stop"}, begun : BOOLEAN]
  OBVIOUS
<1> QED
  BY <1>1 DEF FridaShape, RunScript, Move

\* The shape of the state: servers, requests and scripts are what they should be.
LEMMA FridaNextShape ==
  ASSUME FridaInv, FridaNext
  PROVE  FridaShape'
<1> USE FridaAssumption DEF Server
<1>1. ASSUME NEW o \in FridaOp, NEW what \in {"start", "stop"}, NEW q, Ask(o, what,
     q) PROVE FridaShape'
  BY <1>1 DEF FridaInv, FridaShape, Ask, Move, serverVars
<1>2. ASSUME NEW o \in FridaOp, StartScans(o) PROVE FridaShape'
  <2>1. FridaShape
    BY DEF FridaInv
  <2>2. CASE RunScript(o, "start", "script") /\ UNCHANGED said
    BY <1>2, <2>1, <2>2, ScriptRuns DEF FridaShape, StartScans, serverVars
  <2>3. CASE (Tell(o, "failed") \/ Tell(o, "no_op")) /\ NoScript
    BY <1>2, <2>1, <2>3 DEF FridaShape, StartScans, Tell, Move, NoScript, serverVars
  <2> QED
    BY <1>2, <2>2, <2>3 DEF StartScans
<1>3. ASSUME NEW o \in FridaOp, StopScans(o) PROVE FridaShape'
  <2>1. FridaShape
    BY DEF FridaInv
  <2>2. CASE RunScript(o, "stop", "script") /\ UNCHANGED <<said, server>>
    BY <1>3, <2>1, <2>2, ScriptRuns DEF FridaShape, StopScans
  <2>3. CASE (Tell(o, "failed") \/ Tell(o, "no_op")) /\ NoScript /\ UNCHANGED server
    BY <1>3, <2>1, <2>3 DEF FridaShape, StopScans, Tell, Move, NoScript
  <2>4. CASE /\ server' = [server EXCEPT ![First] = "ending"]
             /\ Move(o, "confirm") /\ NoScript /\ UNCHANGED said
    BY <1>3, <2>1, <2>4 DEF FridaShape, StopScans, Move, NoScript
  <2> QED
    BY <1>3, <2>2, <2>3, <2>4 DEF StopScans
<1>4. ASSUME NEW o \in FridaOp, AfterScript(o) PROVE FridaShape'
  BY <1>4 DEF FridaInv, FridaShape, AfterScript, Tell, Move, serverVars
<1>5. ASSUME NEW o \in FridaOp, CheckServer(o) PROVE FridaShape'
  BY <1>5 DEF FridaInv, FridaShape, CheckServer, Move, serverVars
<1>6. ASSUME NEW o \in FridaOp, Verifies(o) PROVE FridaShape'
  BY <1>6 DEF FridaInv, FridaShape, Verifies, Tell, Move, serverVars
<1>7. ASSUME NEW o \in FridaOp, Reject(o) PROVE FridaShape'
  <2>1. FridaShape
    BY DEF FridaInv
  <2> QED
    BY <1>7, <2>1, ScriptRuns DEF FridaShape, Reject, serverVars
<1>8. ASSUME NEW o \in FridaOp, AfterUndo(o) PROVE FridaShape'
  BY <1>8 DEF FridaInv, FridaShape, AfterUndo, Tell, Move, serverVars
<1>9. ASSUME NEW o \in FridaOp, Confirms(o) PROVE FridaShape'
  BY <1>9 DEF FridaInv, FridaShape, Confirms, Tell, Move, serverVars
<1>10. ASSUME NEW o \in FridaOp, StopWaiting(o) PROVE FridaShape'
  BY <1>10 DEF FridaInv, FridaShape, StopWaiting, Upset, serverVars
<1>11. ASSUME NEW o \in FridaOp, FridaAborted(o) PROVE FridaShape'
  BY <1>11 DEF FridaInv, FridaShape, FridaAborted, Upset, Move, serverVars
<1>12. ASSUME NEW s \in suScripts, Launch(s) PROVE FridaShape'
  BY <1>12 DEF FridaInv, FridaShape, Launch, serverVars
<1>13. ASSUME NEW s \in suScripts, SayStarted(s) PROVE FridaShape'
  BY <1>13 DEF FridaInv, FridaShape, SayStarted, ScriptEnds, Awaits, serverVars
<1>14. ASSUME NEW s \in suScripts, StopAll(s) PROVE FridaShape'
  <2>1. /\ server' = [p \in Server |-> IF p \in Running THEN "ending" ELSE server[p]]
        /\ suScripts' = suScripts \ {s}
        /\ UNCHANGED <<request, at, said, unsure>>
    BY <1>14 DEF StopAll, ScriptEnds
  <2>2. ended' = [ended EXCEPT ![s.op] = ended'[s.op]] /\ ended'[s.op] \in {"none", "ok",
  "failed"}
    BY <1>14 DEF FridaInv, FridaShape, StopAll, ScriptEnds, Awaits, serverVars, Running
  <2> QED
    BY <2>1, <2>2 DEF FridaInv, FridaShape
<1>15. ASSUME NEW s \in suScripts, SuRefuses(s) PROVE FridaShape'
  BY <1>15 DEF FridaInv, FridaShape, SuRefuses, Upset, ScriptEnds, Awaits, serverVars
<1>16. ASSUME NEW p \in Server, Binds(p) PROVE FridaShape'
  BY <1>16 DEF FridaInv, FridaShape, Binds, serverVars
<1>17. ASSUME NEW p \in Server, Ends(p) PROVE FridaShape'
  BY <1>17 DEF FridaInv, FridaShape, Ends, serverVars
<1>18. ASSUME ByHand PROVE FridaShape'
  BY <1>18 DEF FridaInv, FridaShape, ByHand, Upset, serverVars
<1> QED
  BY <1>1, <1>2, <1>3, <1>4, <1>5, <1>6, <1>7, <1>8, <1>9, <1>10, <1>11, <1>12, <1>13, <1>14,
     <1>15, <1>16, <1>17, <1>18 DEF FridaNext, Handles

\* What a start knows of its scripts and of its server, step by step.
LEMMA FridaNextStart ==
  ASSUME FridaInv, FridaNext, NEW d \in FridaOp
  PROVE  StartInv(d)'
<1> USE FridaAssumption DEF Server
<1>1. ASSUME NEW o \in FridaOp, NEW what \in {"start", "stop"}, NEW q, Ask(o, what,
     q) PROVE StartInv(d)'
  BY <1>1 DEF FridaInv, FridaShape, StartInv, Settled, OneStart, NotUp, Ask, Move, serverVars
<1>2. ASSUME NEW o \in FridaOp, StartScans(o) PROVE StartInv(d)'
  <2>1. UNCHANGED <<request, unsure, server>> /\ request[o] = "start" /\ at[o] = "scan"
    BY <1>2 DEF StartScans, serverVars
  <2>2. CASE RunScript(o, "start", "script") /\ UNCHANGED said
    <3>1. /\ at' = [at EXCEPT ![o] = "script"] /\ ended' = [ended EXCEPT ![o] = "none"]
          /\ suScripts' = suScripts \cup {[op |-> o, does |-> "start", begun |-> FALSE]}
      BY <2>2 DEF RunScript, Move
    <3>2. d # o => (Settled(d) => Settled(d)')
      BY <3>1 DEF Settled
    <3>3. d = o => \A s \in suScripts' : s.op = d /\ s.does = "start" =>
                     s = [op |-> o, does |-> "start", begun |-> FALSE]
      BY <2>1, <3>1 DEF FridaInv, StartInv, Settled
    <3>4. d # o => \A s \in suScripts' : s.op = d => s \in suScripts
      BY <3>1
    <3>5. OneStart(d)'
      BY <3>3, <3>4 DEF FridaInv, StartInv, OneStart
    <3> QED
      BY <2>1, <2>2, <3>1, <3>2, <3>5 DEF FridaInv, FridaShape, StartInv, NotUp
  <2>3. CASE (Tell(o, "failed") \/ Tell(o, "no_op")) /\ NoScript
    BY <1>2, <2>1, <2>3
       DEF FridaInv, FridaShape, StartInv, NotUp, Settled, OneStart, Tell, Move, NoScript
  <2> QED
    BY <1>2, <2>2, <2>3 DEF StartScans
<1>3. ASSUME NEW o \in FridaOp, StopScans(o) PROVE StartInv(d)'
  <2>1. UNCHANGED <<request, unsure>> /\ request[o] = "stop" /\ at[o] = "scan"
    BY <1>3 DEF StopScans
  <2>2. /\ at' = [at EXCEPT ![o] = at'[o]] /\ at'[o] \in {"script", "confirm", "done"}
        /\ said' = [said EXCEPT ![o] = said'[o]] /\ ended' = [ended EXCEPT ![o] = ended'[o]]
    BY <1>3 DEF StopScans, Tell, RunScript, Move, NoScript, FridaInv, FridaShape
  <2>3. suScripts' = suScripts
          \/ suScripts' = suScripts \cup {[op |-> o, does |-> "stop", begun |-> FALSE]}
    BY <1>3 DEF StopScans, RunScript, NoScript
  <2>4. server' = server \/ server' = [server EXCEPT ![Outsider] = "ending"]
    BY <1>3 DEF StopScans, AsRoot
  <2>5. server'[d] = server[d]
    BY <2>4 DEF FridaInv, FridaShape
  <2>6. OneStart(d)' /\ (Settled(d) => Settled(d)')
    BY <2>3 DEF FridaInv, StartInv, OneStart, Settled
  <2> QED
    BY <2>1, <2>2, <2>5, <2>6 DEF FridaInv, FridaShape, StartInv, NotUp
<1>4. ASSUME NEW o \in FridaOp, AfterScript(o) PROVE StartInv(d)'
  BY <1>4 DEF FridaInv, FridaShape, StartInv, Settled, OneStart, NotUp, AfterScript, Tell, Move,
     serverVars
<1>5. ASSUME NEW o \in FridaOp, CheckServer(o) PROVE StartInv(d)'
  BY <1>5 DEF FridaInv, FridaShape, StartInv, Settled, OneStart, NotUp, CheckServer, Move,
     serverVars
<1>6. ASSUME NEW o \in FridaOp, Verifies(o) PROVE StartInv(d)'
  BY <1>6 DEF FridaInv, FridaShape, StartInv, Settled, OneStart, NotUp, Verifies, Tell, Move,
     serverVars
<1>7. ASSUME NEW o \in FridaOp, Reject(o) PROVE StartInv(d)'
  BY <1>7 DEF FridaInv, FridaShape, StartInv, Settled, OneStart, NotUp, Reject, RunScript, Move,
     serverVars
<1>8. ASSUME NEW o \in FridaOp, AfterUndo(o) PROVE StartInv(d)'
  BY <1>8 DEF FridaInv, FridaShape, StartInv, Settled, OneStart, NotUp, AfterUndo, Tell, Move,
     serverVars
<1>9. ASSUME NEW o \in FridaOp, Confirms(o) PROVE StartInv(d)'
  BY <1>9 DEF FridaInv, FridaShape, StartInv, Settled, OneStart, NotUp, Confirms, Tell, Move,
     serverVars
<1>10. ASSUME NEW o \in FridaOp, StopWaiting(o) PROVE StartInv(d)'
  BY <1>10 DEF FridaInv, FridaShape, StartInv, Settled, OneStart, NotUp, StopWaiting, Upset,
     serverVars
<1>11. ASSUME NEW o \in FridaOp, FridaAborted(o) PROVE StartInv(d)'
  BY <1>11 DEF FridaInv, FridaShape, StartInv, Settled, OneStart, NotUp, FridaAborted, Upset,
     Move, serverVars
<1>12. ASSUME NEW s \in suScripts, Launch(s) PROVE StartInv(d)'
  <2> DEFINE b == [s EXCEPT !.begun = TRUE]
  <2>1. /\ UNCHANGED <<request, at, ended, said, unsure>>
        /\ suScripts' = (suScripts \ {s}) \cup {b} /\ s.does = "start"
    BY <1>12 DEF Launch
  <2>2. s.op \in FridaOp /\ b.op = s.op /\ b.does = "start"
    BY <2>1 DEF FridaInv, FridaShape
  <2>3. Settled(d) => d # s.op
    BY <2>1 DEF Settled
  <2>4. d # s.op => server'[d] = server[d] /\ (Settled(d) => Settled(d)')
    BY <1>12, <2>1, <2>2 DEF Launch, FridaInv, FridaShape, Settled
  <2>5. OneStart(d)'
    <3>1. ASSUME NEW t \in suScripts', t.op = d, t.does = "start", d = s.op PROVE t = b
      BY <2>1, <3>1 DEF FridaInv, StartInv, OneStart
    <3>2. d # s.op => \A t \in suScripts' : t.op = d => t \in suScripts
      BY <2>1, <2>2
    <3> QED
      BY <3>1, <3>2 DEF FridaInv, StartInv, OneStart
  <2>6. StartInv(d)
    BY DEF FridaInv
  <2>7. CASE d # s.op
    BY <2>1, <2>4, <2>5, <2>6, <2>7 DEF StartInv, NotUp
  <2>8. CASE d = s.op
    BY <2>1, <2>3, <2>5, <2>6, <2>8 DEF StartInv
  <2> QED
    BY <2>7, <2>8
<1>13. ASSUME NEW s \in suScripts, SayStarted(s) PROVE StartInv(d)'
  BY <1>13 DEF FridaInv, FridaShape, StartInv, Settled, OneStart, NotUp, SayStarted, ScriptEnds,
     Awaits, serverVars
<1>14. ASSUME NEW s \in suScripts, StopAll(s) PROVE StartInv(d)'
  <2>1. /\ UNCHANGED <<request, at, said, unsure>> /\ s.does = "stop"
        /\ server' = [p \in Server |-> IF p \in Running THEN "ending" ELSE server[p]]
        /\ suScripts' = suScripts \ {s}
    BY <1>14 DEF StopAll, ScriptEnds
  <2>2. NotUp(d)' /\ (server[d] = "none" => server'[d] = "none")
    BY <2>1 DEF NotUp, Running, FridaInv, FridaShape
  <2>3. (Settled(d) => Settled(d)') /\ (OneStart(d) => OneStart(d)')
    BY <2>1 DEF Settled, OneStart
  <2>4. ended' = [ended EXCEPT ![s.op] = ended'[s.op]]
    BY <1>14 DEF StopAll, ScriptEnds, FridaInv, FridaShape
  <2>5. s.op \in FridaOp /\ (request[s.op] = "start" /\ at[s.op] # "undo" => ended'[s.op] = ended[s.op])
    BY <1>14, <2>1 DEF StopAll, ScriptEnds, Awaits, FridaInv, FridaShape
  <2>6. request[d] = "start" /\ at[d] # "undo" => ended'[d] = ended[d]
    BY <2>4, <2>5 DEF FridaInv, FridaShape
  <2>7. StartInv(d)
    BY DEF FridaInv
  <2> QED
    BY <2>1, <2>2, <2>3, <2>6, <2>7 DEF StartInv, NotUp
<1>15. ASSUME NEW s \in suScripts, SuRefuses(s) PROVE StartInv(d)'
  BY <1>15 DEF FridaInv, FridaShape, StartInv, Settled, OneStart, NotUp, SuRefuses, Upset,
     ScriptEnds, Awaits, serverVars
<1>16. ASSUME NEW p \in Server, Binds(p) PROVE StartInv(d)'
  BY <1>16 DEF FridaInv, FridaShape, StartInv, Settled, OneStart, NotUp, Binds, serverVars
<1>17. ASSUME NEW p \in Server, Ends(p) PROVE StartInv(d)'
  BY <1>17 DEF FridaInv, FridaShape, StartInv, Settled, OneStart, NotUp, Ends, serverVars
<1>18. ASSUME ByHand PROVE StartInv(d)'
  BY <1>18 DEF FridaInv, FridaShape, StartInv, Settled, OneStart, NotUp, ByHand, Upset, serverVars
<1> QED
  BY <1>1, <1>2, <1>3, <1>4, <1>5, <1>6, <1>7, <1>8, <1>9, <1>10, <1>11, <1>12, <1>13, <1>14,
     <1>15, <1>16, <1>17, <1>18 DEF FridaNext, Handles

\* The invariant of the starts and stops of frida-server.
LEMMA FridaInvariance == FridaSpec => []FridaInv
<1>1. FridaInit => FridaInv
  BY FridaAssumption DEF FridaInit, FridaInv, FridaShape, StartInv, Settled, OneStart, NotUp, Server
<1>2. FridaInv /\ [FridaNext]_fridaVars => FridaInv'
  <2>1. CASE UNCHANGED fridaVars
    BY <2>1 DEF fridaVars, serverVars, FridaInv, FridaShape, StartInv, Settled, OneStart, NotUp
  <2> QED
    BY <2>1, FridaNextShape, FridaNextStart DEF FridaInv
<1> QED
  BY <1>1, <1>2, PTL DEF FridaSpec

\* A start that failed leaves no server of its own behind that is up, whichever servers and
\* operations there are beside it, unless su refused or was not waited for (start of
\* provider/frida.rs, frida_start_script, frida_stop_script).
THEOREM NothingIsLeftHalfUp == FridaSpec => []LeavesNothingHalfUp
<1>1. FridaInv => LeavesNothingHalfUp
  BY DEF FridaInv, StartInv, NotUp, LeavesNothingHalfUp
<1> QED
  BY <1>1, FridaInvariance, PTL

-----------------------------------------------------------------------------
(* HostedPrograms: the table, the record files and the processes agree. *)

Files == {runFiles[i] : i \in 1..Len(runFiles)}

FilesShape ==
  /\ runFiles \in Seq(RunFile)
  /\ \A i, j \in 1..Len(runFiles) : runFiles[i].handle = runFiles[j].handle => i = j

\* A pid is that of one process at a time.
OnePerPid == \A p, q \in Proc : Exists(p) /\ Exists(q) /\ PidOf[p] = PidOf[q] => p = q

NoneUnborn ==
  /\ \A h \in Known : life[runs[h].proc] # "unborn"
  /\ \A f \in Files : life[f.proc] # "unborn"
  /\ \A p \in told : life[p] # "unborn"

\* Whose Child somebody holds has not been reaped, and one holds it.
ChildInv ==
  /\ \A h \in Known : runs[h].child => Exists(runs[h].proc)
  /\ \A g, h \in Known : runs[g].child /\ runs[h].child /\ runs[g].proc = runs[h].proc => g = h
  /\ starting # NoRun =>
       /\ Exists(starting.proc)
       /\ \A h \in Known : runs[h].child => runs[h].proc # starting.proc
  /\ probing # NoRun =>
       /\ life[probing] # "unborn"
       /\ starting # NoRun => starting.proc # probing
       /\ \A h \in Known : runs[h].child => runs[h].proc # probing

CallInv ==
  /\ ~runsLoaded => starting = NoRun /\ stopping = NoRun /\ writing = {} /\ Known = {}
  /\ stopping # NoRun =>
       stopping.handle \in Known /\ runs[stopping.handle].proc = stopping.seen
  /\ writing \subseteq Known

\* A file is of the process its handle stands for, in the table or in a start.
FileInv ==
  /\ \A f \in Files : f.handle \in Known => f.proc = runs[f.handle].proc
  /\ starting # NoRun /\ starting.handle # NoRun =>
       /\ starting.handle \notin Known
       /\ \A f \in Files : f.handle = starting.handle => f.proc = starting.proc
       /\ \/ starting.proc \in unsaved
          \/ \E f \in Files : f.handle = starting.handle /\ f.proc = starting.proc

ToldInv ==
  \A p \in told : life[p] = "running" => p \in unsaved \/ \E f \in Files : f.proc = p

HostedInv ==
  /\ HostedTypeOK /\ FilesShape /\ OnePerPid /\ NoneUnborn /\ ChildInv /\ CallInv
  /\ FileInv /\ ToldInv /\ TableTellsTruth

\* The file of h, if there was one, goes or is of p now; others go only if that is known.
FilesMove(h, p) ==
  /\ unsaved \subseteq unsaved' /\ unsaved' \subseteq Proc
  /\ \A f \in Files' : f.handle = h => f.proc = p \/ f \in Files
  /\ \A f \in Files' : f.handle # h => f \in Files
  /\ \A f \in Files : f.handle # h => f \in Files' \/ f.proc \in unsaved'
  /\ p \in unsaved' \/ \E f \in Files' : f.handle = h /\ f.proc = p

-----------------------------------------------------------------------------
\* Without removes the file of a handle and keeps the others, in their order.
LEMMA WithoutRemoves ==
  ASSUME FilesShape, NEW h \in Handle
  PROVE  LET left == Without(runFiles, h)
         IN /\ left \in Seq(RunFile)
            /\ \A i, j \in 1..Len(left) : left[i].handle = left[j].handle => i = j
            /\ {left[i] : i \in 1..Len(left)} = {f \in Files : f.handle # h}
<1> DEFINE mine == {i \in 1..Len(runFiles) : runFiles[i].handle = h}
           place == CHOOSE j \in mine : TRUE
           left == Without(runFiles, h)
<1>0. runFiles \in Seq(RunFile) /\ Len(runFiles) \in Nat
  BY DEF FilesShape
<1>1. CASE mine = {}
  <2>1. left = runFiles
    BY <1>1 DEF Without
  <2> QED
    BY <1>0, <1>1, <2>1 DEF FilesShape, Files
<1>2. CASE mine # {}
  <2>1. place \in 1..Len(runFiles) /\ runFiles[place].handle = h
    BY <1>2
  <2> HIDE DEF place
  <2>2. left = SubSeq(runFiles, 1, place - 1) \o SubSeq(runFiles, place + 1, Len(runFiles))
    BY <1>2 DEF Without, place
  <2> HIDE DEF left
  <2>3. /\ SubSeq(runFiles, 1, place - 1) \in Seq(RunFile)
        /\ SubSeq(runFiles, place + 1, Len(runFiles)) \in Seq(RunFile)
        /\ Len(SubSeq(runFiles, 1, place - 1)) = place - 1
        /\ Len(SubSeq(runFiles, place + 1, Len(runFiles))) = Len(runFiles) - place
    BY <1>0, <2>1, SubSeqProperties
  <2>4. /\ left \in Seq(RunFile)
        /\ Len(left) = Len(runFiles) - 1
        /\ \A i \in 1..Len(left) : left[i] = IF i < place THEN runFiles[i] ELSE runFiles[i + 1]
    <3> DEFINE a == SubSeq(runFiles, 1, place - 1)
               b == SubSeq(runFiles, place + 1, Len(runFiles))
    <3>1. /\ \A i \in 1..place - 1 : a[i] = runFiles[i]
          /\ \A i \in 1..Len(runFiles) - place : b[i] = runFiles[place + i]
      BY <1>0, <2>1, SubSeqProperties
    <3>2. /\ a \in Seq(RunFile) /\ Len(a) = place - 1
          /\ b \in Seq(RunFile) /\ Len(b) = Len(runFiles) - place
          /\ left = a \o b
      BY <2>2, <2>3
    <3> HIDE DEF a, b
    <3>3. /\ left \in Seq(RunFile)
          /\ Len(left) = Len(a) + Len(b)
          /\ \A i \in 1..Len(left) : left[i] = IF i <= Len(a) THEN a[i] ELSE b[i - Len(a)]
      <4>1. /\ a \o b \in Seq(RunFile)
            /\ Len(a \o b) = Len(a) + Len(b)
            /\ \A i \in 1..Len(a) + Len(b) : (a \o b)[i] = IF i <= Len(a) THEN a[i] ELSE b[i - Len(a)]
        BY <3>2, ConcatProperties
      <4> QED
        BY <3>2, <4>1
    <3>4. Len(left) = Len(runFiles) - 1
      BY <1>0, <2>1, <3>2, <3>3
    <3>5. ASSUME NEW i \in 1..Len(left)
          PROVE  left[i] = IF i < place THEN runFiles[i] ELSE runFiles[i + 1]
      <4>1. CASE i < place
        BY <1>0, <2>1, <3>1, <3>2, <3>3, <3>4, <4>1
      <4>2. CASE i >= place
        <5>1. i - (place - 1) \in 1..Len(runFiles) - place /\ place + (i - (place - 1)) = i + 1
          BY <1>0, <2>1, <3>4, <4>2
        <5> QED
          BY <1>0, <2>1, <3>1, <3>2, <3>3, <4>2, <5>1
      <4> QED
        BY <1>0, <2>1, <3>4, <4>1, <4>2
    <3> QED
      BY <3>3, <3>4, <3>5
  <2>5. ASSUME NEW i \in 1..Len(left), NEW j \in 1..Len(left), left[i].handle = left[j].handle
        PROVE  i = j
    <3> DEFINE From(k) == IF k < place THEN k ELSE k + 1
    <3>1. From(i) \in 1..Len(runFiles) /\ From(j) \in 1..Len(runFiles)
      BY <1>0, <2>1, <2>4
    <3>2. left[i] = runFiles[From(i)] /\ left[j] = runFiles[From(j)]
      BY <2>4
    <3>3. From(i) = From(j) => i = j
      BY <1>0, <2>1, <2>4
    <3> HIDE DEF From
    <3>4. From(i) = From(j)
      BY <2>5, <3>1, <3>2 DEF FilesShape
    <3> QED
      BY <3>3, <3>4
  <2>6. ASSUME NEW i \in 1..Len(left) PROVE left[i] \in Files /\ left[i].handle # h
    BY <1>0, <2>1, <2>4 DEF FilesShape, Files
  <2>7. ASSUME NEW k \in 1..Len(runFiles), runFiles[k].handle # h
        PROVE  \E i \in 1..Len(left) : left[i] = runFiles[k]
    <3>1. CASE k < place
      BY <1>0, <2>1, <2>4, <3>1
    <3>2. CASE k > place
      <4>1. k - 1 \in 1..Len(left) /\ left[k - 1] = runFiles[k]
        BY <1>0, <2>1, <2>4, <3>2
      <4> QED
        BY <4>1
    <3>3. k # place
      BY <2>1, <2>7
    <3> QED
      BY <1>0, <2>1, <3>1, <3>2, <3>3
  <2>8. {left[i] : i \in 1..Len(left)} = {f \in Files : f.handle # h}
    BY <2>6, <2>7 DEF Files
  <2> QED
    BY <2>4, <2>5, <2>8 DEF left
<1> QED
  BY <1>1, <1>2

\* drop_persisted takes one file away.
LEMMA FilesDropped ==
  ASSUME FilesShape, NEW h \in Handle, DropPersisted(h)
  PROVE  FilesShape' /\ Files' = {f \in Files : f.handle # h}
<1> DEFINE left == Without(runFiles, h)
<1>1. /\ left \in Seq(RunFile)
      /\ \A i, j \in 1..Len(left) : left[i].handle = left[j].handle => i = j
      /\ {left[i] : i \in 1..Len(left)} = {f \in Files : f.handle # h}
  BY WithoutRemoves
<1>2. runFiles' = left
  BY DEF DropPersisted
<1> HIDE DEF left
<1>3. FilesShape'
  BY <1>1, <1>2 DEF FilesShape
<1>4. Files' = {left[i] : i \in 1..Len(left)}
  BY <1>2 DEF Files
<1> QED
  BY <1>1, <1>3, <1>4

\* persist, with the pruning after it: a file that goes is known to be gone.
LEMMA FilesPersist ==
  ASSUME FilesShape, unsaved \subseteq Proc, NEW h \in Handle, NEW p \in Proc,
         NEW stdin \in {"none", "once", "open", "lost"}, Persist(h, p, stdin)
  PROVE  FilesShape' /\ FilesMove(h, p)
<1> DEFINE left == Without(runFiles, h)
           new == [handle |-> h, proc |-> p, stdin |-> stdin]
           all == Append(left, new)
           cut == IF Len(all) > MaxRecords THEN Len(all) - MaxRecords ELSE 0
<1>1. /\ left \in Seq(RunFile) /\ Len(left) \in Nat
      /\ \A i, j \in 1..Len(left) : left[i].handle = left[j].handle => i = j
      /\ \A i \in 1..Len(left) : left[i] \in Files /\ left[i].handle # h
      /\ \A f \in Files : f.handle # h => \E i \in 1..Len(left) : left[i] = f
  BY WithoutRemoves
<1>2. /\ runFiles' = SubSeq(all, cut + 1, Len(all))
      /\ unsaved' = unsaved \cup {all[i].proc : i \in 1..cut}
  BY DEF Persist
<1>3. new \in RunFile /\ new.handle = h /\ new.proc = p
  BY DEF RunFile
<1> HIDE DEF left, new
<1>4. /\ all \in Seq(RunFile) /\ Len(all) = Len(left) + 1 /\ Len(all) \in Nat
      /\ \A i \in 1..Len(left) : all[i] = left[i]
      /\ all[Len(all)] = new
  BY <1>1, <1>3
<1>5. cut \in Nat /\ cut < Len(all)
  BY <1>1, <1>4, HostedAssumption
<1> HIDE DEF all, cut
<1>6. /\ runFiles' \in Seq(RunFile) /\ Len(runFiles') = Len(all) - cut
      /\ \A i \in 1..Len(runFiles') : runFiles'[i] = all[cut + i]
  BY <1>2, <1>4, <1>5, SubSeqProperties
<1>7. ASSUME NEW i \in 1..Len(all), NEW j \in 1..Len(all), all[i].handle = all[j].handle
      PROVE  i = j
  <2>1. \A k \in 1..Len(all) : k = Len(all) \/ (k \in 1..Len(left) /\ all[k] = left[k])
    BY <1>1, <1>4
  <2>2. CASE i = Len(all) \/ j = Len(all)
    <3>1. all[i].handle = h /\ all[j].handle = h
      BY <1>3, <1>4, <1>7, <2>2
    <3> QED
      BY <1>1, <2>1, <2>2, <3>1
  <2> QED
    BY <1>1, <1>7, <2>1, <2>2
<1>8. \A i \in 1..Len(all) : all[i] \in RunFile /\ (all[i].handle = h => all[i] = new)
                              /\ (all[i].handle # h => all[i] \in Files)
  BY <1>1, <1>3, <1>4
<1>9. FilesShape'
  <2>1. \A i \in 1..Len(runFiles') : cut + i \in 1..Len(all) /\ runFiles'[i] = all[cut + i]
    BY <1>4, <1>5, <1>6
  <2>2. ASSUME NEW i \in 1..Len(runFiles'), NEW j \in 1..Len(runFiles'),
               runFiles'[i].handle = runFiles'[j].handle
        PROVE  i = j
    <3>1. cut + i = cut + j
      BY <1>7, <2>1, <2>2
    <3> QED
      BY <1>4, <1>5, <1>6, <3>1
  <2> QED
    BY <1>6, <2>2 DEF FilesShape
<1>10. \A f \in Files' : \E i \in 1..Len(all) : f = all[i]
  BY <1>4, <1>5, <1>6 DEF Files
<1>11. ASSUME NEW i \in 1..Len(all) PROVE all[i] \in Files' \/ all[i].proc \in unsaved'
  <2>1. CASE i \in 1..cut
    BY <1>2, <2>1
  <2>2. CASE i > cut
    <3>1. i - cut \in 1..Len(runFiles') /\ runFiles'[i - cut] = all[i]
      BY <1>4, <1>5, <1>6, <2>2
    <3> QED
      BY <3>1 DEF Files
  <2> QED
    BY <1>4, <1>5, <2>1, <2>2
<1>12. new \in Files'
  <2>1. Len(runFiles') \in 1..Len(runFiles') /\ runFiles'[Len(runFiles')] = new
    BY <1>4, <1>5, <1>6
  <2> QED
    BY <2>1 DEF Files
<1>13. unsaved \subseteq unsaved' /\ unsaved' \subseteq Proc
  BY <1>2, <1>4, <1>5, <1>8 DEF RunFile
<1>14. \A f \in Files : f.handle # h => \E i \in 1..Len(all) : all[i] = f
  BY <1>1, <1>4
<1>15. \A f \in Files' : /\ f.handle = h => f.proc = p
                         /\ f.handle # h => f \in Files
  BY <1>3, <1>8, <1>10
<1> QED
  BY <1>3, <1>9, <1>11, <1>12, <1>13, <1>14, <1>15 DEF FilesMove

\* A persist that failed is known to have.
LEMMA FilesPersistFails ==
  ASSUME FilesShape, unsaved \subseteq Proc, NEW h \in Handle, NEW p \in Proc,
         PersistFails(h, p)
  PROVE  FilesShape' /\ FilesMove(h, p)
<1>1. CASE runFiles' = runFiles
  BY <1>1 DEF PersistFails, FilesShape, Files, FilesMove
<1>2. CASE runFiles' = Without(runFiles, h)
  <2>1. FilesShape' /\ Files' = {f \in Files : f.handle # h}
    BY <1>2, FilesDropped DEF DropPersisted
  <2> QED
    BY <2>1 DEF PersistFails, FilesMove
<1> QED
  BY <1>1, <1>2 DEF PersistFails

\* A handle that is fresh has no record and no file.
LEMMA FreshHandle ==
  ASSUME NEW h \in Handle, Fresh(h)
  PROVE  h \notin Known /\ \A f \in Files : f.handle # h
BY DEF Fresh, Files

\* A file names a handle and a process.
LEMMA FileType == ASSUME FilesShape PROVE Files \subseteq RunFile
BY DEF FilesShape, Files

-----------------------------------------------------------------------------
\* The record of h, and no other, changes, and is still of its process.
RunChanges(h) ==
  /\ runs' \in [Handle -> RunRecord \cup {NoRun}]
  /\ Known' = Known
  /\ runs'[h].proc = runs[h].proc
  /\ \A g \in Handle : g # h => runs'[g] = runs[g]

\* A record is one.
LEMMA KnownRun ==
  ASSUME HostedTypeOK
  PROVE  \A h \in Known : h \in Handle /\ runs[h] \in RunRecord /\ runs[h] # NoRun
                          /\ runs[h].proc \in Proc /\ runs[h].child \in BOOLEAN
BY DEF HostedTypeOK, Known, RunRecord

\* runs.insert, and get_mut of a record.
LEMMA RunPut ==
  ASSUME HostedTypeOK, NEW h \in Handle, NEW r \in RunRecord, runs' = [runs EXCEPT ![h] = r]
  PROVE  /\ runs' \in [Handle -> RunRecord \cup {NoRun}]
         /\ Known' = Known \cup {h}
         /\ runs'[h] = r
         /\ \A g \in Handle : g # h => runs'[g] = runs[g]
BY HostedAssumption DEF HostedTypeOK, Known

LEMMA RunExits ==
  ASSUME HostedTypeOK, NEW h \in Known, SaysExited(h)
  PROVE  /\ RunChanges(h)
         /\ runs'[h].state = "exited" /\ ~runs'[h].child
         /\ runs'[h].pipe = runs[h].pipe /\ runs'[h].stdin = runs[h].stdin
<1> DEFINE r == [[runs[h] EXCEPT !.state = "exited"] EXCEPT !.child = FALSE]
<1>1. h \in Handle /\ runs[h] \in RunRecord
  BY KnownRun
<1>2. /\ r \in RunRecord /\ r.proc = runs[h].proc /\ r.state = "exited" /\ ~r.child
      /\ r.pipe = runs[h].pipe /\ r.stdin = runs[h].stdin
  BY <1>1 DEF RunRecord
<1>3. runs' = [runs EXCEPT ![h] = r]
  BY <1>1 DEF SaysExited, HostedTypeOK
<1> HIDE DEF r
<1>4. /\ runs' \in [Handle -> RunRecord \cup {NoRun}]
      /\ Known' = Known \cup {h}
      /\ runs'[h] = r
      /\ \A g \in Handle : g # h => runs'[g] = runs[g]
  BY <1>1, <1>2, <1>3, RunPut
<1> QED
  BY <1>2, <1>4 DEF RunChanges

LEMMA RunLosesChild ==
  ASSUME HostedTypeOK, NEW h \in Known, runs' = [runs EXCEPT ![h].child = FALSE]
  PROVE  /\ RunChanges(h)
         /\ runs'[h].state = runs[h].state /\ ~runs'[h].child
         /\ runs'[h].pipe = runs[h].pipe /\ runs'[h].stdin = runs[h].stdin
<1> DEFINE r == [runs[h] EXCEPT !.child = FALSE]
<1>1. h \in Handle /\ runs[h] \in RunRecord
  BY KnownRun
<1>2. /\ r \in RunRecord /\ r.proc = runs[h].proc /\ r.state = runs[h].state /\ ~r.child
      /\ r.pipe = runs[h].pipe /\ r.stdin = runs[h].stdin
  BY <1>1 DEF RunRecord
<1>3. runs' = [runs EXCEPT ![h] = r]
  BY <1>1 DEF HostedTypeOK
<1> HIDE DEF r
<1>4. /\ runs' \in [Handle -> RunRecord \cup {NoRun}]
      /\ Known' = Known \cup {h}
      /\ runs'[h] = r
      /\ \A g \in Handle : g # h => runs'[g] = runs[g]
  BY <1>1, <1>2, <1>3, RunPut
<1> QED
  BY <1>2, <1>4 DEF RunChanges

LEMMA RunChannel ==
  ASSUME HostedTypeOK, NEW h \in Known, NEW end \in {"open", "once", "lost"},
         runs' = [runs EXCEPT ![h] = Channel(h, end)]
  PROVE  /\ RunChanges(h)
         /\ runs'[h].state = runs[h].state /\ runs'[h].child = runs[h].child
         /\ \/ runs'[h] = runs[h]
            \/ runs'[h].stdin # "open"
         /\ Channel(h, end).stdin \in {"none", "once", "open", "lost"}
<1> DEFINE r == Channel(h, end)
<1>1. h \in Handle /\ runs[h] \in RunRecord
  BY KnownRun
<1>2. /\ r \in RunRecord /\ r.proc = runs[h].proc /\ r.state = runs[h].state
      /\ r.child = runs[h].child /\ (r = runs[h] \/ r.stdin # "open")
  BY <1>1 DEF RunRecord, Channel
<1>3. r.stdin \in {"none", "once", "open", "lost"}
  BY <1>2 DEF RunRecord
<1>5. runs' = [runs EXCEPT ![h] = r]
  OBVIOUS
<1> HIDE DEF r
<1>4. /\ runs' \in [Handle -> RunRecord \cup {NoRun}]
      /\ Known' = Known \cup {h}
      /\ runs'[h] = r
      /\ \A g \in Handle : g # h => runs'[g] = runs[g]
  BY <1>1, <1>2, <1>5, RunPut
<1> QED
  BY <1>2, <1>4, <1>3 DEF RunChanges

\* refresh looks at the processes, and keeps whose record it is.
LEMMA RunsRefreshed ==
  ASSUME HostedTypeOK, NEW unread, runs' = [h \in Handle |-> Refreshed(h, runs[h], unread)]
  PROVE  /\ runs' \in [Handle -> RunRecord \cup {NoRun}]
         /\ Known' = Known
         /\ \A h \in Known :
              /\ runs'[h].proc = runs[h].proc
              /\ runs'[h].pipe = runs[h].pipe /\ runs'[h].stdin = runs[h].stdin
              /\ runs'[h].child => runs[h].child /\ life[runs[h].proc] # "zombie"
              /\ runs'[h].state = "exited" => life[runs[h].proc] # "running" \/ h \in untimed
<1>1. ASSUME NEW h \in Handle, runs[h] = NoRun PROVE runs'[h] = NoRun
  BY <1>1 DEF Refreshed
<1>2. ASSUME NEW h \in Known
      PROVE  /\ runs'[h] \in RunRecord
             /\ runs'[h].proc = runs[h].proc
             /\ runs'[h].pipe = runs[h].pipe /\ runs'[h].stdin = runs[h].stdin
             /\ runs'[h].child => runs[h].child /\ life[runs[h].proc] # "zombie"
             /\ runs'[h].state = "exited" => life[runs[h].proc] # "running" \/ h \in untimed
  <2> DEFINE r == runs[h]
  <2>1. r \in RunRecord /\ r # NoRun /\ h \in Handle /\ runs'[h] = Refreshed(h, r, unread)
    BY KnownRun
  <2> HIDE DEF r
  <2>2. CASE r.child /\ life[r.proc] = "zombie"
    <3>1. runs'[h] = [r EXCEPT !.state = "exited", !.child = FALSE]
      BY <2>1, <2>2 DEF Refreshed
    <3>2. /\ runs'[h] \in RunRecord /\ runs'[h].proc = r.proc /\ ~runs'[h].child
          /\ runs'[h].pipe = r.pipe /\ runs'[h].stdin = r.stdin
      BY <2>1, <3>1 DEF RunRecord
    <3> QED
      BY <2>2, <3>2 DEF r
  <2>3. CASE r.child /\ life[r.proc] # "zombie"
    <3>1. runs'[h] = [r EXCEPT !.state = "running"]
      BY <2>1, <2>3 DEF Refreshed
    <3> QED
      BY <2>1, <2>3, <3>1 DEF RunRecord, r
  <2>4. CASE ~r.child
    <3>1. runs'[h] = [r EXCEPT !.state = Reconciled(h, r.proc, unread)]
      BY <2>1, <2>4 DEF Refreshed
    <3>2. /\ Reconciled(h, r.proc, unread) \in {"running", "exited", "unknown"}
          /\ Reconciled(h, r.proc, unread) = "exited" =>
               life[r.proc] # "running" \/ h \in untimed
      BY DEF Reconciled, Exists
    <3> QED
      BY <2>1, <2>4, <3>1, <3>2 DEF RunRecord, r
  <2> QED
    BY <2>2, <2>3, <2>4
<1>3. runs' \in [Handle -> RunRecord \cup {NoRun}]
  BY <1>1, <1>2 DEF Known
<1>4. Known' = Known
  BY <1>1, <1>2, HostedAssumption DEF Known
<1> QED
  BY <1>2, <1>3, <1>4

\* load_records: a record for each file, with neither the Child nor the pipe.
LEMMA RunsRestored ==
  ASSUME HostedInv, EnsureLoaded
  PROVE  /\ runs' \in [Handle -> RunRecord \cup {NoRun}]
         /\ \A h \in Known' :
              /\ \E f \in Files : f.handle = h /\ f.proc = runs'[h].proc
              /\ ~runs'[h].child /\ runs'[h].stdin # "open"
              /\ runs'[h].state = "exited" => life[runs'[h].proc] # "running" \/ h \in untimed
         /\ \A f \in Files : f.handle \in Known' => f.proc = runs'[f.handle].proc
<1> DEFINE mine(h) == {i \in 1..Len(runFiles) : runFiles[i].handle = h}
           file(h) == runFiles[CHOOSE i \in mine(h) : TRUE]
<1>0. FilesShape
  BY DEF HostedInv
<1>1. ASSUME NEW h \in Handle, mine(h) # {}
      PROVE  file(h) \in Files /\ file(h) \in RunFile /\ file(h).handle = h
  <2>1. (CHOOSE i \in mine(h) : TRUE) \in mine(h)
    BY <1>1
  <2> DEFINE i == CHOOSE i \in mine(h) : TRUE
  <2>2. i \in 1..Len(runFiles) /\ runFiles[i].handle = h /\ file(h) = runFiles[i]
    BY <2>1
  <2> HIDE DEF i, file
  <2>3. file(h) \in Files
    BY <2>2 DEF Files
  <2> QED
    BY <1>0, <2>2, <2>3, FileType
<1>2. PICK unread \in SUBSET Dim :
        runs' = [h \in Handle |-> IF mine(h) = {} THEN NoRun ELSE RestoredRun(file(h), unread)]
  BY DEF EnsureLoaded
<1>3. ASSUME NEW f \in Files PROVE f.handle \in Handle /\ mine(f.handle) # {} /\ f = file(f.handle)
  <2>1. PICK i \in 1..Len(runFiles) : f = runFiles[i]
    BY DEF Files
  <2>2. f.handle \in Handle
    BY <1>0, FileType DEF RunFile
  <2>3. i \in mine(f.handle)
    BY <2>1
  <2>4. (CHOOSE j \in mine(f.handle) : TRUE) \in mine(f.handle)
    BY <2>3
  <2>5. (CHOOSE j \in mine(f.handle) : TRUE) = i
    BY <1>0, <2>1, <2>4 DEF FilesShape
  <2> QED
    BY <2>1, <2>2, <2>3, <2>5
<1> HIDE DEF mine, file
<1>4. ASSUME NEW f \in RunFile
      PROVE  /\ RestoredRun(f, unread) \in RunRecord
             /\ RestoredRun(f, unread).proc = f.proc /\ ~RestoredRun(f, unread).child
             /\ RestoredRun(f, unread).stdin # "open"
             /\ RestoredRun(f, unread).state = "exited" =>
                  life[f.proc] # "running" \/ f.handle \in untimed
  BY DEF RestoredRun, RunRecord, RunFile, Reconciled, Exists
<1>5. DOMAIN runs' = Handle /\ runs' = [h \in Handle |-> runs'[h]]
  BY <1>2
<1>6. \A h \in Known' : h \in Handle /\ mine(h) # {} /\ runs'[h] = RestoredRun(file(h), unread)
  BY <1>2 DEF Known
<1>7. \A h \in Handle : runs'[h] \in RunRecord \cup {NoRun}
  BY <1>1, <1>2, <1>4
<1>8. runs' \in [Handle -> RunRecord \cup {NoRun}]
  BY <1>5, <1>7
<1>9. \A f \in Files : f.handle \in Known' => f.proc = runs'[f.handle].proc
  BY <1>1, <1>3, <1>4, <1>6
<1> QED
  BY <1>1, <1>4, <1>6, <1>8, <1>9

\* The device: a program starts, and a program ends.
LEMMA KeepsBornOutside ==
  ASSUME HostedInv, NEW p \in Proc, BornOutside(p)
  PROVE  HostedInv'
<1>0. /\ HostedTypeOK /\ FilesShape /\ OnePerPid /\ NoneUnborn /\ ChildInv /\ CallInv
      /\ FileInv /\ ToldInv /\ TableTellsTruth
      /\ \A h \in Known : h \in Handle /\ runs[h] \in RunRecord /\ runs[h].proc \in Proc
      /\ \A f \in Files : f.handle \in Handle /\ f.proc \in Proc
  BY KnownRun, FileType DEF HostedInv, RunFile
<1>1. /\ FilesShape' /\ Files' = Files /\ Known' = Known
  BY <1>0 DEF BornOutside, tableVars, FilesShape, Files, Known
<1>2. HostedTypeOK'
  BY <1>0 DEF HostedTypeOK, BornOutside, tableVars, callVars, historyVars, Born, FilesShape
<1>3. OnePerPid'
  BY <1>0 DEF OnePerPid, BornOutside, Born, Occupants, Exists
<1>4. NoneUnborn'
  BY <1>0, <1>1 DEF NoneUnborn, BornOutside, tableVars, historyVars, Born
<1>5. ChildInv'
  BY <1>0, <1>1 DEF ChildInv, BornOutside, tableVars, callVars, Born, Exists
<1>6. CallInv'
  BY <1>0, <1>1 DEF CallInv, BornOutside, tableVars, callVars
<1>7. FileInv'
  BY <1>0, <1>1 DEF FileInv, BornOutside, tableVars, callVars, historyVars
<1>8. ToldInv'
  BY <1>0, <1>1 DEF ToldInv, BornOutside, historyVars, Born, NoneUnborn
<1>9. TableTellsTruth'
  BY <1>0, <1>1 DEF TableTellsTruth, BornOutside, tableVars, Born, NoneUnborn
<1> QED
  BY <1>0, <1>1, <1>2, <1>3, <1>4, <1>5, <1>6, <1>7, <1>8, <1>9 DEF HostedInv

LEMMA KeepsDies ==
  ASSUME HostedInv, NEW p \in Proc, Dies(p)
  PROVE  HostedInv'
<1>0. /\ HostedTypeOK /\ FilesShape /\ OnePerPid /\ NoneUnborn /\ ChildInv /\ CallInv
      /\ FileInv /\ ToldInv /\ TableTellsTruth
      /\ \A h \in Known : h \in Handle /\ runs[h] \in RunRecord /\ runs[h].proc \in Proc
      /\ \A f \in Files : f.handle \in Handle /\ f.proc \in Proc
  BY KnownRun, FileType DEF HostedInv, RunFile
<1>1. /\ FilesShape' /\ Files' = Files /\ Known' = Known
  BY <1>0 DEF Dies, tableVars, FilesShape, Files, Known
<1>2. HostedTypeOK'
  BY <1>0 DEF HostedTypeOK, Dies, tableVars, callVars, historyVars, FilesShape
<1>3. OnePerPid'
  BY <1>0 DEF OnePerPid, Dies, Exists
<1>4. NoneUnborn'
  BY <1>0, <1>1 DEF NoneUnborn, Dies, tableVars, historyVars
<1>5. ChildInv'
  BY <1>0, <1>1 DEF ChildInv, Dies, tableVars, callVars, Held, Exists
<1>6. CallInv'
  BY <1>0, <1>1 DEF CallInv, Dies, tableVars, callVars
<1>7. FileInv'
  BY <1>0, <1>1 DEF FileInv, Dies, tableVars, callVars, historyVars
<1>8. ToldInv'
  BY <1>0, <1>1 DEF ToldInv, Dies, historyVars
<1>9. TableTellsTruth'
  BY <1>0, <1>1 DEF TableTellsTruth, Dies, tableVars
<1> QED
  BY <1>0, <1>1, <1>2, <1>3, <1>4, <1>5, <1>6, <1>7, <1>8, <1>9 DEF HostedInv

\* The Agent starts again, with an empty table.
LEMMA KeepsAgentRestarted ==
  ASSUME HostedInv, AgentRestarted
  PROVE  HostedInv'
<1>0. /\ HostedTypeOK /\ FilesShape /\ OnePerPid /\ NoneUnborn /\ ChildInv /\ CallInv
      /\ FileInv /\ ToldInv /\ TableTellsTruth
      /\ \A h \in Known : h \in Handle /\ runs[h] \in RunRecord /\ runs[h].proc \in Proc
      /\ \A f \in Files : f.handle \in Handle /\ f.proc \in Proc
  BY KnownRun, FileType DEF HostedInv, RunFile
<1>1. /\ FilesShape' /\ Files' = Files /\ Known' = Known
  BY <1>0 DEF AgentRestarted, tableVars, FilesShape, Files, Known
<1>2. HostedTypeOK'
  BY <1>0 DEF HostedTypeOK, AgentRestarted, tableVars, callVars, historyVars, FilesShape
<1>3. OnePerPid'
  BY <1>0 DEF OnePerPid, AgentRestarted, Exists
<1>4. NoneUnborn'
  BY <1>0, <1>1 DEF NoneUnborn, AgentRestarted, tableVars, historyVars
<1>5. ChildInv'
  BY <1>0, <1>1 DEF ChildInv, AgentRestarted, tableVars, callVars, Exists
<1>6. CallInv'
  BY <1>0, <1>1 DEF CallInv, AgentRestarted, tableVars, callVars
<1>7. FileInv'
  BY <1>0, <1>1 DEF FileInv, AgentRestarted, tableVars, callVars, historyVars
<1>8. ToldInv'
  BY <1>0, <1>1 DEF ToldInv, AgentRestarted, historyVars
<1>9. TableTellsTruth'
  BY <1>0, <1>1 DEF TableTellsTruth, AgentRestarted, tableVars
<1> QED
  BY <1>0, <1>1, <1>2, <1>3, <1>4, <1>5, <1>6, <1>7, <1>8, <1>9 DEF HostedInv

\* start has its child, and keeps it away from every record.
LEMMA KeepsStartSpawns ==
  ASSUME HostedInv, NEW p \in Proc, NEW m \in {"once", "open"}, StartSpawns(p, m)
  PROVE  HostedInv'
<1>0. /\ HostedTypeOK /\ FilesShape /\ OnePerPid /\ NoneUnborn /\ ChildInv /\ CallInv
      /\ FileInv /\ ToldInv /\ TableTellsTruth
      /\ \A h \in Known : h \in Handle /\ runs[h] \in RunRecord /\ runs[h].proc \in Proc
      /\ \A f \in Files : f.handle \in Handle /\ f.proc \in Proc
  BY KnownRun, FileType DEF HostedInv, RunFile
<1>1. /\ FilesShape' /\ Files' = Files /\ Known' = Known
  BY <1>0 DEF StartSpawns, tableVars, FilesShape, Files, Known
<1>2. HostedTypeOK'
  BY <1>0 DEF HostedTypeOK, StartSpawns, tableVars, historyVars, Born, Start, FilesShape
<1>3. OnePerPid'
  BY <1>0 DEF OnePerPid, StartSpawns, Born, Occupants, Exists
<1>4. NoneUnborn'
  BY <1>0, <1>1 DEF NoneUnborn, StartSpawns, tableVars, historyVars, Born
<1>5. ChildInv'
  BY <1>0, <1>1 DEF HostedTypeOK, ChildInv, StartSpawns, tableVars, Born, Exists
<1>6. CallInv'
  BY <1>0, <1>1 DEF CallInv, StartSpawns, tableVars
<1>7. FileInv'
  BY <1>0, <1>1 DEF FileInv, StartSpawns, tableVars
<1>8. ToldInv'
  BY <1>0, <1>1 DEF ToldInv, StartSpawns, historyVars, Born, NoneUnborn
<1>9. TableTellsTruth'
  BY <1>0, <1>1 DEF TableTellsTruth, StartSpawns, tableVars, Born, NoneUnborn
<1> QED
  BY <1>0, <1>1, <1>2, <1>3, <1>4, <1>5, <1>6, <1>7, <1>8, <1>9 DEF HostedInv

LEMMA KeepsStartLosesIt ==
  ASSUME HostedInv, StartLosesIt
  PROVE  HostedInv'
<1>0. /\ HostedTypeOK /\ FilesShape /\ OnePerPid /\ NoneUnborn /\ ChildInv /\ CallInv
      /\ FileInv /\ ToldInv /\ TableTellsTruth
      /\ \A h \in Known : h \in Handle /\ runs[h] \in RunRecord /\ runs[h].proc \in Proc
      /\ \A f \in Files : f.handle \in Handle /\ f.proc \in Proc
  BY KnownRun, FileType DEF HostedInv, RunFile
<1>1. /\ FilesShape' /\ Files' = Files /\ Known' = Known
  BY <1>0 DEF StartLosesIt, tableVars, FilesShape, Files, Known
<1>2. HostedTypeOK'
  BY <1>0 DEF HostedTypeOK, StartLosesIt, tableVars, historyVars, FilesShape
<1>3. OnePerPid'
  BY <1>0 DEF OnePerPid, StartLosesIt, Exists
<1>4. NoneUnborn'
  BY <1>0, <1>1 DEF NoneUnborn, StartLosesIt, tableVars, historyVars
<1>5. ChildInv'
  BY <1>0, <1>1 DEF ChildInv, StartLosesIt, tableVars, Exists
<1>6. CallInv'
  BY <1>0, <1>1 DEF CallInv, StartLosesIt, tableVars
<1>7. FileInv'
  BY <1>0, <1>1 DEF FileInv, StartLosesIt, tableVars
<1>8. ToldInv'
  BY <1>0, <1>1 DEF ToldInv, StartLosesIt, historyVars
<1>9. TableTellsTruth'
  BY <1>0, <1>1 DEF TableTellsTruth, StartLosesIt, tableVars
<1> QED
  BY <1>0, <1>1, <1>2, <1>3, <1>4, <1>5, <1>6, <1>7, <1>8, <1>9 DEF HostedInv

\* probe, which has no record.
LEMMA KeepsProbeSpawns ==
  ASSUME HostedInv, NEW p \in Proc, ProbeSpawns(p)
  PROVE  HostedInv'
<1>0. /\ HostedTypeOK /\ FilesShape /\ OnePerPid /\ NoneUnborn /\ ChildInv /\ CallInv
      /\ FileInv /\ ToldInv /\ TableTellsTruth
      /\ \A h \in Known : h \in Handle /\ runs[h] \in RunRecord /\ runs[h].proc \in Proc
      /\ \A f \in Files : f.handle \in Handle /\ f.proc \in Proc
  BY KnownRun, FileType DEF HostedInv, RunFile
<1>1. /\ FilesShape' /\ Files' = Files /\ Known' = Known
  BY <1>0 DEF ProbeSpawns, tableVars, FilesShape, Files, Known
<1>2. HostedTypeOK'
  BY <1>0 DEF HostedTypeOK, ProbeSpawns, tableVars, historyVars, Born, FilesShape
<1>3. OnePerPid'
  BY <1>0 DEF OnePerPid, ProbeSpawns, Born, Occupants, Exists
<1>4. NoneUnborn'
  BY <1>0, <1>1 DEF NoneUnborn, ProbeSpawns, tableVars, historyVars, Born
<1>5. ChildInv'
  BY <1>0, <1>1 DEF HostedTypeOK, ChildInv, ProbeSpawns, tableVars, Born, Exists
<1>6. CallInv'
  BY <1>0, <1>1 DEF CallInv, ProbeSpawns, tableVars
<1>7. FileInv'
  BY <1>0, <1>1 DEF FileInv, ProbeSpawns, tableVars, historyVars
<1>8. ToldInv'
  BY <1>0, <1>1 DEF ToldInv, ProbeSpawns, historyVars, Born, NoneUnborn
<1>9. TableTellsTruth'
  BY <1>0, <1>1 DEF TableTellsTruth, ProbeSpawns, tableVars, Born, NoneUnborn
<1> QED
  BY <1>0, <1>1, <1>2, <1>3, <1>4, <1>5, <1>6, <1>7, <1>8, <1>9 DEF HostedInv

LEMMA KeepsProbeEnds ==
  ASSUME HostedInv, ProbeEnds
  PROVE  HostedInv'
<1>0. /\ HostedTypeOK /\ FilesShape /\ OnePerPid /\ NoneUnborn /\ ChildInv /\ CallInv
      /\ FileInv /\ ToldInv /\ TableTellsTruth
      /\ \A h \in Known : h \in Handle /\ runs[h] \in RunRecord /\ runs[h].proc \in Proc
      /\ \A f \in Files : f.handle \in Handle /\ f.proc \in Proc
  BY KnownRun, FileType DEF HostedInv, RunFile
<1>1. /\ FilesShape' /\ Files' = Files /\ Known' = Known
  BY <1>0 DEF ProbeEnds, tableVars, FilesShape, Files, Known
<1>2. HostedTypeOK'
  BY <1>0 DEF HostedTypeOK, ProbeEnds, tableVars, historyVars, FilesShape
<1>3. OnePerPid'
  BY <1>0 DEF OnePerPid, ProbeEnds, Exists
<1>4. NoneUnborn'
  BY <1>0, <1>1 DEF NoneUnborn, ProbeEnds, tableVars, historyVars
<1>5. ChildInv'
  BY <1>0, <1>1 DEF ChildInv, ProbeEnds, tableVars, Exists
<1>6. CallInv'
  BY <1>0, <1>1 DEF CallInv, ProbeEnds, tableVars
<1>7. FileInv'
  BY <1>0, <1>1 DEF FileInv, ProbeEnds, tableVars, historyVars
<1>8. ToldInv'
  BY <1>0, <1>1 DEF ToldInv, ProbeEnds, historyVars
<1>9. TableTellsTruth'
  BY <1>0, <1>1 DEF TableTellsTruth, ProbeEnds, tableVars
<1> QED
  BY <1>0, <1>1, <1>2, <1>3, <1>4, <1>5, <1>6, <1>7, <1>8, <1>9 DEF HostedInv

\* A caller hangs up in a write.
LEMMA KeepsWriteAborted ==
  ASSUME HostedInv, NEW h \in Handle, WriteAborted(h)
  PROVE  HostedInv'
<1>0. /\ HostedTypeOK /\ FilesShape /\ OnePerPid /\ NoneUnborn /\ ChildInv /\ CallInv
      /\ FileInv /\ ToldInv /\ TableTellsTruth
      /\ \A k \in Known : k \in Handle /\ runs[k] \in RunRecord /\ runs[k].proc \in Proc
      /\ \A f \in Files : f.handle \in Handle /\ f.proc \in Proc
  BY KnownRun, FileType DEF HostedInv, RunFile
<1>1. /\ FilesShape' /\ Files' = Files /\ Known' = Known
  BY <1>0 DEF WriteAborted, tableVars, FilesShape, Files, Known
<1>2. HostedTypeOK'
  BY <1>0 DEF HostedTypeOK, WriteAborted, procVars, tableVars, historyVars, FilesShape
<1>3. OnePerPid'
  BY <1>0 DEF OnePerPid, WriteAborted, procVars, Exists
<1>4. NoneUnborn'
  BY <1>0, <1>1 DEF NoneUnborn, WriteAborted, procVars, tableVars, historyVars
<1>5. ChildInv'
  BY <1>0, <1>1 DEF ChildInv, WriteAborted, procVars, tableVars, Exists
<1>6. CallInv'
  BY <1>0, <1>1 DEF CallInv, WriteAborted, tableVars
<1>7. FileInv'
  BY <1>0, <1>1 DEF FileInv, WriteAborted, tableVars, historyVars
<1>8. ToldInv'
  BY <1>0, <1>1 DEF ToldInv, WriteAborted, procVars, historyVars
<1>9. TableTellsTruth'
  BY <1>0, <1>1 DEF TableTellsTruth, WriteAborted, procVars, tableVars
<1> QED
  BY <1>0, <1>1, <1>2, <1>3, <1>4, <1>5, <1>6, <1>7, <1>8, <1>9 DEF HostedInv

\* The table goes with the Agent, the files stay.
LEMMA KeepsAgentKilled ==
  ASSUME HostedInv, AgentKilled
  PROVE  HostedInv'
<1>0. /\ HostedTypeOK /\ FilesShape /\ OnePerPid /\ NoneUnborn /\ ChildInv /\ CallInv
      /\ FileInv /\ ToldInv /\ TableTellsTruth
      /\ \A h \in Known : h \in Handle /\ runs[h] \in RunRecord /\ runs[h].proc \in Proc
      /\ \A f \in Files : f.handle \in Handle /\ f.proc \in Proc
  BY KnownRun, FileType DEF HostedInv, RunFile
<1>1. FilesShape' /\ Files' = Files /\ Known' = {}
  BY <1>0 DEF AgentKilled, FilesShape, Files, Known
<1>2. HostedTypeOK'
  BY <1>0 DEF HostedTypeOK, AgentKilled, historyVars, FilesShape
<1>3. OnePerPid'
  BY <1>0 DEF OnePerPid, AgentKilled, Exists
<1>4. NoneUnborn'
  BY <1>0, <1>1 DEF HostedTypeOK, NoneUnborn, AgentKilled, historyVars
<1>5. ChildInv'
  BY <1>0, <1>1 DEF ChildInv, AgentKilled
<1>6. CallInv'
  BY <1>0, <1>1 DEF CallInv, AgentKilled
<1>7. FileInv'
  BY <1>0, <1>1 DEF FileInv, AgentKilled
<1>8. ToldInv'
  BY <1>0, <1>1 DEF HostedTypeOK, ToldInv, AgentKilled, historyVars
<1>9. TableTellsTruth'
  BY <1>0, <1>1 DEF TableTellsTruth, AgentKilled
<1> QED
  BY <1>0, <1>1, <1>2, <1>3, <1>4, <1>5, <1>6, <1>7, <1>8, <1>9 DEF HostedInv

\* The next Agent reads the files: the table is what they say.
LEMMA KeepsEnsureLoaded ==
  ASSUME HostedInv, EnsureLoaded
  PROVE  HostedInv'
<1>0. /\ HostedTypeOK /\ FilesShape /\ OnePerPid /\ NoneUnborn /\ ChildInv /\ CallInv
      /\ FileInv /\ ToldInv /\ TableTellsTruth
      /\ \A h \in Known : h \in Handle /\ runs[h] \in RunRecord /\ runs[h].proc \in Proc
      /\ \A f \in Files : f.handle \in Handle /\ f.proc \in Proc
  BY KnownRun, FileType DEF HostedInv, RunFile
<1>1. FilesShape' /\ Files' = Files
  BY <1>0 DEF EnsureLoaded, FilesShape, Files
<1>2. /\ runs' \in [Handle -> RunRecord \cup {NoRun}]
      /\ \A h \in Known' :
           /\ \E f \in Files : f.handle = h /\ f.proc = runs'[h].proc
           /\ ~runs'[h].child /\ runs'[h].stdin # "open"
           /\ runs'[h].state = "exited" => life[runs'[h].proc] # "running" \/ h \in untimed
      /\ \A f \in Files : f.handle \in Known' => f.proc = runs'[f.handle].proc
  BY RunsRestored
<1>3. starting = NoRun /\ stopping = NoRun /\ writing = {}
  BY <1>0 DEF CallInv, EnsureLoaded
<1>4. runsLoaded' = TRUE /\ runFiles' = runFiles /\ untimed' = untimed
      /\ UNCHANGED <<life, agentUp, kills, starting, stopping, writing, probing>>
      /\ UNCHANGED <<told, unsaved, struck>>
  BY DEF EnsureLoaded, LockFree, procVars, tableVars, callVars, historyVars
<1>5. HostedTypeOK'
  BY <1>0, <1>2, <1>4 DEF HostedTypeOK, FilesShape
<1>6. OnePerPid'
  BY <1>0, <1>4 DEF OnePerPid, Exists
<1>7. NoneUnborn'
  BY <1>0, <1>1, <1>2, <1>4 DEF NoneUnborn
<1>8. ChildInv'
  BY <1>0, <1>2, <1>3, <1>4 DEF ChildInv
<1>9. CallInv'
  BY <1>0, <1>3, <1>4 DEF CallInv
<1>10. FileInv'
  BY <1>0, <1>1, <1>2, <1>3, <1>4 DEF FileInv
<1>11. ToldInv'
  BY <1>0, <1>1, <1>4 DEF ToldInv
<1>12. TableTellsTruth'
  BY <1>0, <1>2, <1>4 DEF TableTellsTruth
<1> QED
  BY <1>0, <1>1, <1>2, <1>3, <1>4, <1>5, <1>6, <1>7, <1>8, <1>9, <1>10, <1>11, <1>12
  DEF HostedInv

\* start writes the file before the record.
LEMMA KeepsStartPersists ==
  ASSUME HostedInv, NEW h \in Handle, StartPersists(h)
  PROVE  HostedInv'
<1>0. /\ HostedTypeOK /\ FilesShape /\ OnePerPid /\ NoneUnborn /\ ChildInv /\ CallInv
      /\ FileInv /\ ToldInv /\ TableTellsTruth
      /\ \A k \in Known : k \in Handle /\ runs[k] \in RunRecord /\ runs[k].proc \in Proc
      /\ \A f \in Files : f.handle \in Handle /\ f.proc \in Proc
  BY KnownRun, FileType DEF HostedInv, RunFile
<1>1. /\ starting.proc \in Proc /\ starting.stdin \in {"none", "once", "open", "lost"}
      /\ starting' \in Start /\ starting' # NoRun /\ starting # NoRun
      /\ starting'.proc = starting.proc /\ starting'.handle = h
  BY <1>0, HostedAssumption DEF StartPersists, HostedTypeOK, Start
<1>2. h \notin Known /\ \A f \in Files : f.handle # h
  BY FreshHandle DEF StartPersists
<1>3. FilesShape' /\ FilesMove(h, starting.proc)
  BY <1>0, <1>1, FilesPersist, FilesPersistFails DEF StartPersists, HostedTypeOK
<1>4. Known' = Known /\ runs' = runs
  BY DEF StartPersists, Known
<1>5. UNCHANGED <<life, agentUp, kills, runsLoaded, stopping, writing, probing, told, struck>>
  BY DEF StartPersists, LockFree, procVars, tableVars, callVars, historyVars
<1>14. untimed' \subseteq Handle /\ \A g \in Handle : g # h => (g \in untimed' <=> g \in untimed)
  BY <1>0 DEF StartPersists, HostedTypeOK
<1>6. HostedTypeOK'
  BY <1>0, <1>1, <1>3, <1>4, <1>5, <1>14 DEF HostedTypeOK, FilesMove, FilesShape
<1>7. OnePerPid'
  BY <1>0, <1>5 DEF OnePerPid, Exists
<1>8. NoneUnborn'
  BY <1>0, <1>1, <1>3, <1>4, <1>5 DEF NoneUnborn, Exists, FilesMove, ChildInv
<1>9. ChildInv'
  BY <1>0, <1>1, <1>4, <1>5 DEF ChildInv, Exists
<1>10. CallInv'
  BY <1>0, <1>1, <1>4, <1>5 DEF CallInv
<1>11. FileInv'
  BY <1>0, <1>1, <1>2, <1>3, <1>4 DEF FileInv, FilesMove
<1>12. ToldInv'
  BY <1>0, <1>2, <1>3, <1>5 DEF ToldInv, FilesMove
<1>13. TableTellsTruth'
  BY <1>0, <1>2, <1>4, <1>5, <1>14 DEF TableTellsTruth
<1> QED
  BY <1>0, <1>1, <1>2, <1>3, <1>4, <1>5, <1>6, <1>7, <1>8, <1>9, <1>10, <1>11, <1>12, <1>13
  DEF HostedInv

\* The record of a start, whose file was written or is known not to be.
LEMMA KeepsStartInserts ==
  ASSUME HostedInv, StartInserts
  PROVE  HostedInv'
<1>0. /\ HostedTypeOK /\ FilesShape /\ OnePerPid /\ NoneUnborn /\ ChildInv /\ CallInv
      /\ FileInv /\ ToldInv /\ TableTellsTruth
      /\ \A h \in Known : h \in Handle /\ runs[h] \in RunRecord /\ runs[h].proc \in Proc
      /\ \A f \in Files : f.handle \in Handle /\ f.proc \in Proc
  BY KnownRun, FileType DEF HostedInv, RunFile
<1>1. FilesShape' /\ Files' = Files
  BY <1>0 DEF StartInserts, FilesShape, Files
<1>2. /\ starting.proc \in Proc /\ starting.handle \in Handle /\ starting # NoRun
      /\ starting.stdin \in {"none", "once", "open"}
  BY <1>0, HostedAssumption DEF StartInserts, HostedTypeOK, Start
<1>3. /\ runs' \in [Handle -> RunRecord \cup {NoRun}]
      /\ Known' = Known \cup {starting.handle}
      /\ runs'[starting.handle].proc = starting.proc /\ runs'[starting.handle].child
      /\ runs'[starting.handle].state = "running"
      /\ runs'[starting.handle].stdin = "open" => runs'[starting.handle].pipe
      /\ \A g \in Handle : g # starting.handle => runs'[g] = runs[g]
  <2> DEFINE r == [proc |-> starting.proc, state |-> "running", child |-> TRUE,
                   pipe |-> starting.stdin = "open", stdin |-> starting.stdin]
  <2>1. r \in RunRecord /\ r.proc = starting.proc /\ r.child /\ r.state = "running"
        /\ (r.stdin = "open" => r.pipe)
    BY <1>2 DEF RunRecord
  <2>2. runs' = [runs EXCEPT ![starting.handle] = r]
    BY DEF StartInserts
  <2> HIDE DEF r
  <2> QED
    BY <1>0, <1>2, <2>1, <2>2, RunPut
<1>4. /\ told' = told \cup {starting.proc} /\ starting' = NoRun /\ runFiles' = runFiles
      /\ untimed' = untimed
      /\ runsLoaded /\ stopping = NoRun
      /\ UNCHANGED <<life, agentUp, kills, runsLoaded, stopping, writing, probing, unsaved, struck>>
  BY DEF StartInserts, LockFree, procVars, tableVars, callVars, historyVars
<1>5. HostedTypeOK'
  BY <1>0, <1>2, <1>3, <1>4 DEF HostedTypeOK, FilesShape
<1>6. OnePerPid'
  BY <1>0, <1>4 DEF OnePerPid, Exists
<1>7. NoneUnborn'
  BY <1>0, <1>1, <1>2, <1>3, <1>4 DEF NoneUnborn, Exists, ChildInv
<1>8. ChildInv'
  BY <1>0, <1>2, <1>3, <1>4 DEF ChildInv, Exists
<1>9. CallInv'
  BY <1>0, <1>3, <1>4 DEF CallInv
<1>10. FileInv'
  BY <1>0, <1>1, <1>2, <1>3, <1>4, HostedAssumption DEF FileInv
<1>11. ToldInv'
  BY <1>0, <1>1, <1>2, <1>4, HostedAssumption DEF ToldInv, FileInv
<1>12. TableTellsTruth'
  BY <1>0, <1>3, <1>4 DEF TableTellsTruth
<1> QED
  BY <1>0, <1>1, <1>2, <1>3, <1>4, <1>5, <1>6, <1>7, <1>8, <1>9, <1>10, <1>11, <1>12
  DEF HostedInv

\* status: records and processes are brought together.
LEMMA KeepsStatus ==
  ASSUME HostedInv, Status
  PROVE  HostedInv'
<1>0. /\ HostedTypeOK /\ FilesShape /\ OnePerPid /\ NoneUnborn /\ ChildInv /\ CallInv
      /\ FileInv /\ ToldInv /\ TableTellsTruth
      /\ \A h \in Known : h \in Handle /\ runs[h] \in RunRecord /\ runs[h].proc \in Proc
      /\ \A f \in Files : f.handle \in Handle /\ f.proc \in Proc
  BY KnownRun, FileType DEF HostedInv, RunFile
<1>1. FilesShape' /\ Files' = Files
  BY <1>0 DEF Status, FilesShape, Files
<1>2. /\ runs' \in [Handle -> RunRecord \cup {NoRun}]
      /\ Known' = Known
      /\ \A h \in Known :
           /\ runs'[h].proc = runs[h].proc
           /\ runs'[h].pipe = runs[h].pipe /\ runs'[h].stdin = runs[h].stdin
           /\ runs'[h].child => runs[h].child /\ life[runs[h].proc] # "zombie"
           /\ runs'[h].state = "exited" => life[runs[h].proc] # "running" \/ h \in untimed
  <2>1. PICK unread \in SUBSET Dim : runs' = [h \in Handle |-> Refreshed(h, runs[h], unread)]
    BY DEF Status
  <2> QED
    BY <1>0, <2>1, RunsRefreshed
<1>3. /\ life' \in [Proc -> {"unborn", "running", "zombie", "gone"}]
      /\ \A p \in Proc : life'[p] = IF p \in Reaped THEN "gone" ELSE life[p]
      /\ \A p \in Reaped : life[p] = "zombie"
      /\ \A p \in Reaped : \E h \in Known : runs[h].child /\ runs[h].proc = p
  BY <1>0 DEF Status, Reaped, HostedTypeOK
<1>4. UNCHANGED <<agentUp, kills, runsLoaded, runFiles, starting, stopping, writing, probing>>
      /\ UNCHANGED <<told, unsaved, struck, untimed>> /\ runsLoaded /\ agentUp
  BY DEF Status, LockFree, procVars, tableVars, callVars, historyVars
<1>5. HostedTypeOK'
  BY <1>0, <1>2, <1>3, <1>4 DEF HostedTypeOK, FilesShape
<1>6. OnePerPid'
  BY <1>0, <1>3 DEF OnePerPid, Exists
<1>7. NoneUnborn'
  BY <1>0, <1>1, <1>2, <1>3, <1>4 DEF HostedTypeOK, NoneUnborn
<1>8. ChildInv'
  <2>1. \A h \in Known' : runs'[h].child => life'[runs'[h].proc] \in {"running", "zombie"}
    BY <1>0, <1>2, <1>3, <1>4 DEF ChildInv, Exists
  <2>2. \A g, h \in Known' :
          runs'[g].child /\ runs'[h].child /\ runs'[g].proc = runs'[h].proc => g = h
    BY <1>0, <1>2 DEF ChildInv
  <2>3. starting # NoRun =>
          /\ life'[starting.proc] \in {"running", "zombie"}
          /\ \A h \in Known' : runs'[h].child => runs'[h].proc # starting.proc
    <3>1. starting # NoRun => starting.proc \in Proc /\ starting.proc \notin Reaped
      BY <1>0, <1>3, HostedAssumption DEF ChildInv, HostedTypeOK, Start
    <3> QED
      BY <1>0, <1>2, <1>3, <1>4, <3>1 DEF ChildInv, Exists
  <2>4. probing # NoRun =>
          /\ life'[probing] # "unborn"
          /\ starting # NoRun => starting.proc # probing
          /\ \A h \in Known' : runs'[h].child => runs'[h].proc # probing
    BY <1>0, <1>2, <1>3, <1>4 DEF ChildInv, HostedTypeOK
  <2> QED
    BY <1>4, <2>1, <2>2, <2>3, <2>4 DEF ChildInv, Exists
<1>9. CallInv'
  BY <1>0, <1>2, <1>4 DEF CallInv
<1>10. FileInv'
  BY <1>0, <1>1, <1>2, <1>4 DEF FileInv
<1>11. ToldInv'
  BY <1>0, <1>1, <1>3, <1>4 DEF HostedTypeOK, ToldInv
<1>12. TableTellsTruth'
  BY <1>0, <1>2, <1>3, <1>4 DEF TableTellsTruth
<1> QED
  BY <1>0, <1>1, <1>2, <1>3, <1>4, <1>5, <1>6, <1>7, <1>8, <1>9, <1>10, <1>11, <1>12
  DEF HostedInv

\* The record says exited and its file is gone.
Ended(h) ==
  /\ RunChanges(h) /\ runs'[h].state = "exited" /\ ~runs'[h].child
  /\ runs'[h].pipe = runs[h].pipe /\ runs'[h].stdin = runs[h].stdin
  /\ FilesShape' /\ Files' = {f \in Files : f.handle # h}

\* A stop that found the process dead, or takes it for that: its record has no start time.
LEMMA KeepsEnded ==
  ASSUME HostedInv, NEW h \in Known, SaysExited(h), DropPersisted(h),
         life[runs[h].proc] # "running" \/ (h \in untimed /\ runs[h].proc \in unsaved'),
         unsaved' \in {unsaved, unsaved \cup {runs[h].proc}},
         life' \in [Proc -> {"unborn", "running", "zombie", "gone"}],
         \A q \in Proc : \/ life'[q] = life[q]
                         \/ /\ q = runs[h].proc /\ runs[h].child
                            /\ life[q] = "zombie" /\ life'[q] = "gone",
         stopping' = NoRun,
         UNCHANGED <<agentUp, kills, runsLoaded, untimed, starting, writing, probing, told, struck>>
  PROVE  HostedInv'
<1>0. /\ HostedTypeOK /\ FilesShape /\ OnePerPid /\ NoneUnborn /\ ChildInv /\ CallInv
      /\ FileInv /\ ToldInv /\ TableTellsTruth
      /\ \A k \in Known : k \in Handle /\ runs[k] \in RunRecord /\ runs[k].proc \in Proc
      /\ \A f \in Files : f.handle \in Handle /\ f.proc \in Proc
  BY KnownRun, FileType DEF HostedInv, RunFile
<1>1. Ended(h) /\ FilesShape'
  BY <1>0, RunExits, FilesDropped DEF Ended
<1>2. h \in Known /\ h \in Handle /\ runs[h].proc \in Proc
  BY <1>0
<1>3. HostedTypeOK'
  BY <1>0, <1>1 DEF HostedTypeOK, Ended, RunChanges, FilesShape
<1>4. OnePerPid'
  BY <1>0 DEF OnePerPid, Exists
<1>5. NoneUnborn'
  BY <1>0, <1>1 DEF HostedTypeOK, NoneUnborn, Ended, RunChanges
<1>6. ChildInv'
  <2>0. UNCHANGED <<starting, probing>> /\ Known' = Known
    BY <1>1 DEF Ended, RunChanges
  <2>1. \A g \in Known : /\ runs'[g].child => g # h /\ runs[g].child
                         /\ runs'[g].proc = runs[g].proc
    BY <1>0, <1>1 DEF Ended, RunChanges
  <2>2. \A g \in Known' : runs'[g].child => life'[runs'[g].proc] \in {"running", "zombie"}
    BY <1>0, <1>2, <2>0, <2>1 DEF ChildInv, Exists
  <2>3. \A f, g \in Known' :
          runs'[f].child /\ runs'[g].child /\ runs'[f].proc = runs'[g].proc => f = g
    BY <2>0, <2>1, <1>0 DEF ChildInv
  <2>4. starting # NoRun =>
          /\ life'[starting.proc] \in {"running", "zombie"}
          /\ \A g \in Known' : runs'[g].child => runs'[g].proc # starting.proc
    <3>1. starting # NoRun => starting.proc \in Proc
      BY <1>0, HostedAssumption DEF HostedTypeOK, Start
    <3> QED
      BY <1>0, <1>2, <2>0, <2>1, <3>1 DEF ChildInv, Exists
  <2>5. probing # NoRun =>
          /\ life'[probing] # "unborn"
          /\ starting # NoRun => starting.proc # probing
          /\ \A g \in Known' : runs'[g].child => runs'[g].proc # probing
    BY <1>0, <2>0, <2>1 DEF ChildInv, HostedTypeOK
  <2> QED
    BY <2>0, <2>2, <2>3, <2>4, <2>5 DEF ChildInv, Exists
<1>7. CallInv'
  BY <1>0, <1>1 DEF CallInv, Ended, RunChanges
<1>8. FileInv'
  BY <1>0, <1>1 DEF FileInv, Ended, RunChanges
<1>9. ToldInv'
  BY <1>0, <1>1 DEF HostedTypeOK, ToldInv, Ended, FileInv
<1>10. TableTellsTruth'
  BY <1>0, <1>1 DEF TableTellsTruth, Ended, RunChanges
<1> QED
  BY <1>0, <1>1, <1>2, <1>3, <1>4, <1>5, <1>6, <1>7, <1>8, <1>9, <1>10 DEF HostedInv

\* A stop that goes on, or gives up without a word about the process.
LEMMA KeepsStopping ==
  ASSUME HostedInv, UNCHANGED <<procVars, tableVars, starting, writing, probing, told, unsaved>>,
         struck' \subseteq Proc,
         stopping' # NoRun =>
           /\ runsLoaded
           /\ stopping' \in Stop /\ stopping'.handle \in Known
           /\ stopping'.seen = runs[stopping'.handle].proc,
         stopping' \in Stop \cup {NoRun}
  PROVE  HostedInv'
<1>0. /\ HostedTypeOK /\ FilesShape /\ OnePerPid /\ NoneUnborn /\ ChildInv /\ CallInv
      /\ FileInv /\ ToldInv /\ TableTellsTruth
      /\ \A h \in Known : h \in Handle /\ runs[h] \in RunRecord /\ runs[h].proc \in Proc
      /\ \A f \in Files : f.handle \in Handle /\ f.proc \in Proc
  BY KnownRun, FileType DEF HostedInv, RunFile
<1>1. FilesShape' /\ Files' = Files /\ Known' = Known
  BY <1>0 DEF tableVars, FilesShape, Files, Known
<1>2. HostedTypeOK'
  BY <1>0 DEF HostedTypeOK, procVars, tableVars, FilesShape
<1>3. OnePerPid'
  BY <1>0 DEF OnePerPid, procVars, Exists
<1>4. NoneUnborn'
  BY <1>0, <1>1 DEF NoneUnborn, procVars, tableVars
<1>5. ChildInv'
  BY <1>0, <1>1 DEF ChildInv, procVars, tableVars, Exists
<1>6. CallInv'
  BY <1>0, <1>1 DEF CallInv, tableVars
<1>7. FileInv'
  BY <1>0, <1>1 DEF FileInv, tableVars
<1>8. ToldInv'
  BY <1>0, <1>1 DEF ToldInv, procVars
<1>9. TableTellsTruth'
  BY <1>0, <1>1 DEF TableTellsTruth, procVars, tableVars
<1> QED
  BY <1>0, <1>1, <1>2, <1>3, <1>4, <1>5, <1>6, <1>7, <1>8, <1>9 DEF HostedInv

\* The three steps of stop.
LEMMA KeepsStopChecks ==
  ASSUME HostedInv, NEW h \in Handle, StopChecks(h)
  PROVE  HostedInv'
<1>0. HostedTypeOK /\ runsLoaded /\ stopping = NoRun /\ h \in Known /\ runs[h].proc \in Proc
  BY KnownRun DEF HostedInv, StopChecks, LockFree
<1>1. CASE /\ \E p \in Verified(h) : stopping' = [handle |-> h, seen |-> p, sent |-> FALSE]
           /\ UNCHANGED <<life, runs, runFiles, unsaved>>
  <2>1. PICK p \in Verified(h) : stopping' = [handle |-> h, seen |-> p, sent |-> FALSE]
    BY <1>1
  <2>2. p = runs[h].proc
    BY DEF Verified
  <2> QED
    BY <1>0, <1>1, <2>1, <2>2, KeepsStopping
    DEF Stop, HostedTypeOK, StopChecks, procVars, tableVars
<1>2. CASE /\ Verified(h) = {} \/ h \in untimed
           /\ SaysExited(h)
           /\ life' = [life EXCEPT ![runs[h].proc] =
                         IF @ = "zombie" /\ runs[h].child THEN "gone" ELSE @]
           /\ DropPersisted(h)
           /\ unsaved' = IF h \in untimed THEN unsaved \cup {runs[h].proc} ELSE unsaved
           /\ UNCHANGED stopping
  <2>1. life[runs[h].proc] # "running" \/ (h \in untimed /\ runs[h].proc \in unsaved')
    BY <1>0, <1>2 DEF Verified, Occupants, Exists
  <2>2. /\ life' \in [Proc -> {"unborn", "running", "zombie", "gone"}]
        /\ \A q \in Proc : \/ life'[q] = life[q]
                          \/ /\ q = runs[h].proc /\ runs[h].child
                             /\ life[q] = "zombie" /\ life'[q] = "gone"
    BY <1>0, <1>2 DEF HostedTypeOK
  <2>3. unsaved' \in {unsaved, unsaved \cup {runs[h].proc}}
    BY <1>2
  <2> QED
    BY <1>0, <1>2, <2>1, <2>2, <2>3, KeepsEnded DEF StopChecks
<1> QED
  BY <1>1, <1>2 DEF StopChecks

LEMMA KeepsStopSignals ==
  ASSUME HostedInv, StopSignals
  PROVE  HostedInv'
<1> DEFINE h == stopping.handle
           here == Occupants(PidOf[stopping.seen])
<1>0. /\ HostedTypeOK /\ stopping # NoRun /\ stopping \in Stop /\ h \in Known /\ runsLoaded
      /\ stopping.seen = runs[h].proc /\ runs[h].proc \in Proc
  BY KnownRun DEF HostedInv, CallInv, StopSignals, HostedTypeOK
<1>1. CASE here = {} /\ SaysExited(h) /\ DropPersisted(h) /\ stopping' = NoRun /\ UNCHANGED struck
  <2>1. life[runs[h].proc] # "running"
    BY <1>0, <1>1 DEF Occupants, Exists
  <2> QED
    BY <1>0, <1>1, <2>1, KeepsEnded DEF StopSignals, procVars, historyVars, HostedTypeOK
<1>2. CASE stopping' = NoRun /\ UNCHANGED <<runs, runFiles, struck>>
  BY <1>0, <1>2, KeepsStopping DEF StopSignals, tableVars, HostedTypeOK
<1>3. CASE /\ struck' = struck \cup here /\ stopping' = [stopping EXCEPT !.sent = TRUE]
           /\ UNCHANGED <<runs, runFiles>>
  <2>1. /\ stopping' \in Stop /\ stopping'.handle = h /\ stopping'.seen = stopping.seen
        /\ struck' \subseteq Proc
    BY <1>0, <1>3 DEF Stop, Occupants, HostedTypeOK
  <2> QED
    BY <1>0, <1>3, <2>1, KeepsStopping DEF StopSignals, tableVars
<1> QED
  BY <1>1, <1>2, <1>3 DEF StopSignals

LEMMA KeepsStopConfirms ==
  ASSUME HostedInv, StopConfirms
  PROVE  HostedInv'
<1> DEFINE h == stopping.handle
           p == runs[h].proc
<1>0. /\ HostedTypeOK /\ stopping # NoRun /\ stopping \in Stop /\ h \in Known /\ runsLoaded
      /\ stopping.seen = p /\ p \in Proc
  BY KnownRun DEF HostedInv, CallInv, StopConfirms, HostedTypeOK
<1>1. CASE /\ \A q \in Occupants(PidOf[stopping.seen]) : life[q] = "zombie"
           /\ SaysExited(h) /\ DropPersisted(h)
           /\ life' = [life EXCEPT ![p] = IF @ = "zombie" /\ runs[h].child THEN "gone" ELSE @]
  <2>1. life[p] # "running"
    BY <1>0, <1>1 DEF Occupants, Exists
  <2> QED
    <3>1. /\ life' \in [Proc -> {"unborn", "running", "zombie", "gone"}]
          /\ \A q \in Proc : \/ life'[q] = life[q]
                            \/ /\ q = runs[h].proc /\ runs[h].child
                               /\ life[q] = "zombie" /\ life'[q] = "gone"
      BY <1>0, <1>1 DEF HostedTypeOK
    <3> QED
      BY <1>0, <1>1, <2>1, <3>1, KeepsEnded DEF StopConfirms, historyVars
<1>2. CASE Unconfirmed(h) /\ UNCHANGED <<runs, life>>
  BY <1>0, <1>2, KeepsStopping
  DEF StopConfirms, Unconfirmed, procVars, tableVars, historyVars, HostedTypeOK
<1> QED
  BY <1>1, <1>2 DEF StopConfirms

\* write finds the child dead and reaps it.
LEMMA KeepsReaped ==
  ASSUME HostedInv, NEW h \in Known, runs[h].child,
         life[runs[h].proc] = "zombie",
         runs' = [runs EXCEPT ![h].child = FALSE],
         life' = [life EXCEPT ![runs[h].proc] = "gone"],
         UNCHANGED <<agentUp, kills, runsLoaded, runFiles, untimed, callVars, historyVars>>
  PROVE  HostedInv'
<1>0. /\ HostedTypeOK /\ FilesShape /\ OnePerPid /\ NoneUnborn /\ ChildInv /\ CallInv
      /\ FileInv /\ ToldInv /\ TableTellsTruth
      /\ \A k \in Known : k \in Handle /\ runs[k] \in RunRecord /\ runs[k].proc \in Proc
      /\ \A f \in Files : f.handle \in Handle /\ f.proc \in Proc
  BY KnownRun, FileType DEF HostedInv, RunFile
<1>1. /\ RunChanges(h)
      /\ runs'[h].state = runs[h].state /\ ~runs'[h].child
      /\ runs'[h].pipe = runs[h].pipe /\ runs'[h].stdin = runs[h].stdin
  BY <1>0, RunLosesChild
<1>2. h \in Handle /\ runs[h].proc \in Proc
  BY <1>0
<1>3. FilesShape' /\ Files' = Files
  BY <1>0 DEF FilesShape, Files
<1>4. HostedTypeOK'
  BY <1>0, <1>1 DEF HostedTypeOK, callVars, historyVars, RunChanges, FilesShape
<1>5. OnePerPid'
  BY <1>0 DEF OnePerPid, Exists
<1>6. NoneUnborn'
  BY <1>0, <1>1, <1>3 DEF NoneUnborn, historyVars, RunChanges
<1>7. ChildInv'
  BY <1>0, <1>1 DEF ChildInv, callVars, RunChanges, Exists
<1>8. CallInv'
  BY <1>0, <1>1 DEF CallInv, callVars, RunChanges
<1>9. FileInv'
  BY <1>0, <1>1, <1>3 DEF FileInv, callVars, historyVars, RunChanges
<1>10. ToldInv'
  BY <1>0, <1>3 DEF ToldInv, historyVars
<1>11. TableTellsTruth'
  BY <1>0, <1>1 DEF TableTellsTruth, RunChanges
<1> QED
  BY <1>0, <1>1, <1>2, <1>3, <1>4, <1>5, <1>6, <1>7, <1>8, <1>9, <1>10, <1>11 DEF HostedInv

\* The two ends of write.
LEMMA KeepsWriteTakes ==
  ASSUME HostedInv, NEW h \in Handle, WriteTakes(h)
  PROVE  HostedInv'
<1>1. CASE /\ runs[h].child /\ life[runs[h].proc] = "zombie"
           /\ runs' = [runs EXCEPT ![h].child = FALSE]
           /\ life' = [life EXCEPT ![runs[h].proc] = "gone"]
           /\ UNCHANGED writing
  BY <1>1, KeepsReaped DEF WriteTakes, callVars
<1>2. CASE writing' = writing \cup {h} /\ UNCHANGED <<runs, life>>
  <2>1. HostedTypeOK'
    BY <1>2 DEF WriteTakes, HostedInv, HostedTypeOK, historyVars
  <2>2. FilesShape' /\ Files' = Files /\ Known' = Known
    BY <1>2 DEF WriteTakes, HostedInv, FilesShape, Files, Known
  <2>3. OnePerPid' /\ NoneUnborn' /\ ChildInv' /\ FileInv' /\ ToldInv' /\ TableTellsTruth'
    BY <1>2, <2>2 DEF WriteTakes, HostedInv, OnePerPid, NoneUnborn, ChildInv, FileInv, ToldInv,
                      TableTellsTruth, Exists, historyVars
  <2>4. CallInv'
    BY <1>2, <2>2 DEF WriteTakes, LockFree, HostedInv, CallInv
  <2> QED
    BY <2>1, <2>2, <2>3, <2>4 DEF HostedInv
<1> QED
  BY <1>1, <1>2 DEF WriteTakes

LEMMA KeepsWriteEnds ==
  ASSUME HostedInv, NEW h \in Handle, WriteEnds(h)
  PROVE  HostedInv'
<1>0. /\ HostedTypeOK /\ FilesShape /\ OnePerPid /\ NoneUnborn /\ ChildInv /\ CallInv
      /\ FileInv /\ ToldInv /\ TableTellsTruth
      /\ \A k \in Known : k \in Handle /\ runs[k] \in RunRecord /\ runs[k].proc \in Proc
      /\ \A f \in Files : f.handle \in Handle /\ f.proc \in Proc
  BY KnownRun, FileType DEF HostedInv, RunFile
<1>1. h \in Known /\ runs[h].proc \in Proc
  BY <1>0 DEF WriteEnds, CallInv
<1>2. PICK end \in {"open", "once", "lost"} :
        /\ runs' = [runs EXCEPT ![h] = Channel(h, end)]
        /\ \/ Persist(h, runs[h].proc, Channel(h, end).stdin)
           \/ PersistFails(h, runs[h].proc)
  BY DEF WriteEnds
<1>3. /\ RunChanges(h)
      /\ runs'[h].state = runs[h].state /\ runs'[h].child = runs[h].child
      /\ runs'[h] = runs[h] \/ runs'[h].stdin # "open"
      /\ Channel(h, end).stdin \in {"none", "once", "open", "lost"}
  BY <1>0, <1>1, <1>2, RunChannel
<1>4. FilesShape' /\ FilesMove(h, runs[h].proc)
  BY <1>0, <1>1, <1>2, <1>3, FilesPersist, FilesPersistFails DEF HostedTypeOK
<1>5. /\ writing' = writing \ {h} /\ runsLoaded /\ h \in writing /\ untimed' = untimed
      /\ UNCHANGED <<life, agentUp, kills, runsLoaded, starting, stopping, probing, told, struck>>
  BY DEF WriteEnds, LockFree, procVars, tableVars, callVars, historyVars
<1>6. HostedTypeOK'
  BY <1>0, <1>3, <1>4, <1>5 DEF HostedTypeOK, RunChanges, FilesMove, FilesShape
<1>7. OnePerPid'
  BY <1>0, <1>5 DEF OnePerPid, Exists
<1>8. NoneUnborn'
  BY <1>0, <1>1, <1>3, <1>4, <1>5 DEF NoneUnborn, RunChanges, FilesMove
<1>9. ChildInv'
  BY <1>0, <1>3, <1>5 DEF ChildInv, RunChanges, Exists
<1>10. CallInv'
  BY <1>0, <1>3, <1>5 DEF CallInv, RunChanges
<1>11. FileInv'
  BY <1>0, <1>1, <1>3, <1>4, <1>5 DEF FileInv, RunChanges, FilesMove
<1>12. ToldInv'
  BY <1>0, <1>1, <1>4, <1>5 DEF ToldInv, FilesMove, FileInv
<1>13. TableTellsTruth'
  BY <1>0, <1>3, <1>5 DEF TableTellsTruth, RunChanges
<1> QED
  BY <1>0, <1>1, <1>2, <1>3, <1>4, <1>5, <1>6, <1>7, <1>8, <1>9, <1>10, <1>11, <1>12, <1>13
  DEF HostedInv

\* adopt answers with the record of the pid, or makes one.
LEMMA KeepsAdopt ==
  ASSUME HostedInv, NEW p \in Proc, Adopt(p)
  PROVE  HostedInv'
<1>0. /\ HostedTypeOK /\ FilesShape /\ OnePerPid /\ NoneUnborn /\ ChildInv /\ CallInv
      /\ FileInv /\ ToldInv /\ TableTellsTruth
      /\ life[p] = "running" /\ runsLoaded /\ stopping = NoRun
      /\ UNCHANGED <<procVars, runsLoaded, callVars, struck>>
  BY DEF HostedInv, Adopt, LockFree
<1>1. CASE /\ told' = told \cup {p}
           /\ unsaved' = (IF p \in told THEN unsaved ELSE unsaved \cup {p})
           /\ UNCHANGED <<runs, runFiles, untimed>>
  <2>1. HostedTypeOK'
    BY <1>0, <1>1 DEF HostedTypeOK, procVars, callVars
  <2>2. FilesShape' /\ Files' = Files /\ Known' = Known
    BY <1>0, <1>1 DEF FilesShape, Files, Known
  <2>3. OnePerPid' /\ NoneUnborn' /\ ChildInv' /\ CallInv' /\ FileInv' /\ TableTellsTruth'
    BY <1>0, <1>1, <2>2
    DEF procVars, callVars, OnePerPid, NoneUnborn, ChildInv, CallInv, FileInv,
                            TableTellsTruth, Exists
  <2>4. ToldInv'
    BY <1>0, <1>1, <2>2 DEF ToldInv, procVars
  <2> QED
    BY <2>1, <2>2, <2>3, <2>4 DEF HostedInv
<1>2. ASSUME NEW h \in Handle,
             Fresh(h),
             starting # NoRun => starting.handle # h,
             Persist(h, p, "none") \/ PersistFails(h, p),
             untimed' = untimed \ {h},
             runs' = [runs EXCEPT ![h] = [proc |-> p, state |-> "running", child |-> FALSE,
                                          pipe |-> FALSE, stdin |-> "none"]],
             told' = told \cup {p}
      PROVE  HostedInv'
  <2>1. h \notin Known /\ \A f \in Files : f.handle # h
    BY <1>2, FreshHandle
  <2>2. FilesShape' /\ FilesMove(h, p)
    BY <1>0, <1>2, FilesPersist, FilesPersistFails DEF HostedTypeOK
  <2>3. /\ runs' \in [Handle -> RunRecord \cup {NoRun}]
        /\ Known' = Known \cup {h}
        /\ runs'[h].proc = p /\ ~runs'[h].child
        /\ runs'[h].state = "running" /\ runs'[h].stdin = "none"
        /\ \A g \in Handle : g # h => runs'[g] = runs[g]
    <3> DEFINE r == [proc |-> p, state |-> "running", child |-> FALSE,
                     pipe |-> FALSE, stdin |-> "none"]
    <3>1. /\ r \in RunRecord /\ r.proc = p /\ ~r.child
          /\ r.state = "running" /\ r.stdin = "none"
      BY DEF RunRecord
    <3>2. runs' = [runs EXCEPT ![h] = r]
      BY <1>2
    <3> HIDE DEF r
    <3> QED
      BY <1>0, <3>1, <3>2, RunPut
  <2>4. \A g \in Known : g \in Handle /\ g # h
    BY <2>1 DEF Known
  <2>5. HostedTypeOK'
    BY <1>0, <1>2, <2>2, <2>3 DEF HostedTypeOK, FilesShape, FilesMove, procVars, callVars
  <2>6. OnePerPid' /\ NoneUnborn'
    BY <1>0, <1>2, <2>2, <2>3, <2>4 DEF OnePerPid, NoneUnborn, Exists, FilesMove, procVars
  <2>7. ChildInv'
    BY <1>0, <1>2, <2>3, <2>4 DEF ChildInv, Exists, procVars, callVars
  <2>8. CallInv'
    BY <1>0, <2>3, <2>4 DEF CallInv, callVars
  <2>9. FileInv'
    BY <1>0, <1>2, <2>1, <2>2, <2>3, <2>4, FileType DEF FileInv, FilesMove, callVars, RunFile
  <2>10. ToldInv'
    BY <1>0, <1>2, <2>1, <2>2 DEF ToldInv, FilesMove, procVars
  <2>11. TableTellsTruth'
    BY <1>0, <1>2, <2>3, <2>4 DEF TableTellsTruth, procVars
  <2> QED
    BY <2>2, <2>5, <2>6, <2>7, <2>8, <2>9, <2>10, <2>11 DEF HostedInv
<1> QED
  BY <1>1, <1>2 DEF Adopt

\* The invariant of the table, the files and the processes holds for any number of
\* programs, handles and kills of the Agent.
THEOREM HostedInvariance == HostedSpec => []HostedInv
<1>1. HostedInit => HostedInv
  <2> SUFFICES ASSUME HostedInit PROVE HostedInv
    OBVIOUS
  <2>1. runFiles = <<>> /\ Known = {} /\ Files = {}
    BY DEF HostedInit, Known, Files
  <2>2. FilesShape
    BY <2>1 DEF FilesShape
  <2>3. HostedTypeOK
    BY <2>2 DEF HostedInit, HostedTypeOK, FilesShape
  <2> QED
    BY <2>1, <2>2, <2>3
    DEF HostedInit, HostedInv, OnePerPid, Exists, NoneUnborn, ChildInv, CallInv, FileInv,
                 ToldInv, TableTellsTruth
<1>2. HostedInv /\ [HostedNext]_hostedVars => HostedInv'
  <2> SUFFICES ASSUME HostedInv, [HostedNext]_hostedVars PROVE HostedInv'
    OBVIOUS
  <2>1. CASE HostedNext
    BY <2>1, KeepsBornOutside, KeepsDies, KeepsAgentRestarted, KeepsStartSpawns,
       KeepsStartLosesIt, KeepsProbeSpawns, KeepsProbeEnds, KeepsWriteAborted, KeepsAgentKilled,
       KeepsEnsureLoaded, KeepsStartPersists, KeepsStartInserts, KeepsStatus, KeepsStopChecks,
       KeepsStopSignals, KeepsStopConfirms, KeepsWriteTakes, KeepsWriteEnds, KeepsAdopt
    DEF HostedNext
  <2>2. CASE UNCHANGED hostedVars
    <3>1. FilesShape' /\ Files' = Files /\ Known' = Known
      BY <2>2 DEF hostedVars, tableVars, HostedInv, FilesShape, Files, Known
    <3> QED
      BY <2>2, <3>1
      DEF hostedVars, procVars, tableVars, callVars, historyVars, HostedInv, HostedTypeOK, OnePerPid,
          Exists, NoneUnborn, ChildInv, CallInv, FileInv, ToldInv, TableTellsTruth
  <2> QED
    BY <2>1, <2>2
<1> QED
  BY <1>1, <1>2, PTL DEF HostedSpec

\* A record that says exited has no process that runs, unless it was written without a
\* start time, and one that says its input is open has the pipe: refresh, stop, write and
\* ensure_loaded see to it, also where a start time cannot be read later on.
THEOREM TableAlwaysTellsTruth == HostedSpec => []TableTellsTruth
BY HostedInvariance, PTL DEF HostedInv

\* A program a caller was told of is found again, whenever the Agent is killed: its
\* file is there, or it is known that it could not be kept, or that a stop dropped it
\* for want of a start time.
THEOREM ToldIsAlwaysOnRecord == HostedSpec => []ToldIsOnRecord
<1>1. HostedInv => ToldIsOnRecord
  BY DEF HostedInv, ToldInv, ToldIsOnRecord, Files
<1> QED
  BY <1>1, HostedInvariance, PTL

\* stop compares the start ticks under the lock: it strikes its own process, or one
\* that took the pid of a process nobody kept a Child of.
THEOREM AStopAlwaysStrikesItsOwn == HostedSpec => StopStrikesItsOwn
<1> DEFINE Own ==
      \A q \in struck' \ struck :
        LET run == runs[stopping.handle]
        IN \/ q = run.proc
           \/ ~run.child /\ stopping.seen = run.proc /\ life[run.proc] = "gone"
<1>1. HostedInv /\ [HostedNext]_hostedVars => [Own]_hostedVars
  <2> SUFFICES ASSUME HostedInv, HostedNext PROVE Own
    BY DEF hostedVars, historyVars
  <2>1. CASE StopSignals
    <3> SUFFICES ASSUME NEW q \in struck' \ struck, q # runs[stopping.handle].proc
                 PROVE  /\ ~runs[stopping.handle].child
                        /\ stopping.seen = runs[stopping.handle].proc
                        /\ life[runs[stopping.handle].proc] = "gone"
      OBVIOUS
    <3>1. /\ stopping.seen = runs[stopping.handle].proc /\ stopping.handle \in Known
          /\ stopping.seen \in Proc
      BY <2>1, KnownRun DEF StopSignals, HostedInv, CallInv
    <3>2. q \in Occupants(PidOf[stopping.seen])
      BY <2>1 DEF StopSignals
    <3>3. ~Exists(stopping.seen)
      BY <3>1, <3>2 DEF Occupants, HostedInv, OnePerPid
    <3> QED
      BY <3>1, <3>3 DEF HostedInv, ChildInv, NoneUnborn, Exists, HostedTypeOK
  <2>2. CASE ~StopSignals
    <3>1. struck' = struck
      BY <2>2 DEF HostedNext, BornOutside, Dies, Adopt, ProbeSpawns, StartSpawns, AgentKilled,
                  AgentRestarted, EnsureLoaded, Status, StartLosesIt, StartInserts, StartPersists,
                  StopChecks, WriteTakes, WriteEnds, WriteAborted, StopConfirms, ProbeEnds, historyVars
    <3> QED
      BY <3>1
  <2> QED
    BY <2>1, <2>2
<1> QED
  BY <1>1, HostedInvariance, PTL DEF HostedSpec, StopStrikesItsOwn

-----------------------------------------------------------------------------
(* FileWrites: content goes only with a removal that was asked to be recursive. *)

Edit ==
  [step : {"idle", "look", "lookAtTarget", "count", "act", "rmdir", "check"},
   leg : {"none", "agent", "root"}, op : {"none", "mkdir", "rename", "remove"},
   from : Path \cup {NoThing}, to : Path \cup {NoThing}, deep : BOOLEAN, folder : BOOLEAN,
   answer : {"none", "ok", "failed"}]

\* A write that is under way has its paths, and a rename that acts has two.
EditInv(w) ==
  /\ w.step # "idle" => w.from \in Path /\ w.to \in Path
  /\ w.op = "rename" /\ w.step \notin {"idle", "look"} => w.from # w.to

WritesInv ==
  /\ lies \in [Path -> Thing \cup {NoThing}]
  /\ inside \in [Folder -> SUBSET (Thing \ Folder)]
  /\ edit \in [FileCall -> Edit]
  /\ \A c \in FileCall : EditInv(edit[c])

\* The call goes on, or ends; what it was asked for stays.
LEMMA GoesTo ==
  ASSUME edit \in [FileCall -> Edit], NEW c \in FileCall,
         NEW s \in {"idle", "look", "lookAtTarget", "count", "act", "rmdir", "check"},
         GoTo(c, s)
  PROVE  /\ edit' \in [FileCall -> Edit]
         /\ edit'[c].step = s
         /\ \A x \in FileCall : /\ edit'[x].op = edit[x].op
                                /\ edit'[x].from = edit[x].from /\ edit'[x].to = edit[x].to
         /\ \A x \in FileCall : x # c => edit'[x] = edit[x]
<1> DEFINE w == [edit[c] EXCEPT !.step = s]
<1>1. w \in Edit /\ w.step = s /\ w.op = edit[c].op /\ w.from = edit[c].from /\ w.to = edit[c].to
  BY DEF Edit
<1>2. edit' = [edit EXCEPT ![c] = w]
  BY DEF GoTo
<1> HIDE DEF w
<1> QED
  BY <1>1, <1>2

\* The call ends with its answer.
LEMMA EndsWith ==
  ASSUME edit \in [FileCall -> Edit], NEW c \in FileCall, NEW answer \in {"ok", "failed"},
         EndWith(c, answer)
  PROVE  /\ edit' \in [FileCall -> Edit]
         /\ edit'[c].step = "idle"
         /\ \A x \in FileCall : x # c => edit'[x] = edit[x]
<1> DEFINE w == [Idle EXCEPT !.answer = answer]
<1>1. w \in Edit /\ w.step = "idle"
  BY DEF Edit, Idle
<1>2. edit' = [edit EXCEPT ![c] = w]
  BY DEF EndWith
<1> HIDE DEF w
<1> QED
  BY <1>1, <1>2

\* A step that goes on keeps the invariant of the calls, if a rename has two paths.
LEMMA KeepsEdits ==
  ASSUME WritesInv, NEW c \in FileCall,
         NEW s \in {"lookAtTarget", "count", "act", "rmdir", "check"},
         \/ GoTo(c, s) /\ edit[c].step # "idle" /\ (edit[c].op = "rename" => edit[c].from # edit[c].to)
         \/ \E answer \in {"ok", "failed"} : EndWith(c, answer)
  PROVE  edit' \in [FileCall -> Edit] /\ \A x \in FileCall : EditInv(edit'[x])
<1>1. CASE GoTo(c, s) /\ edit[c].step # "idle" /\ (edit[c].op = "rename" => edit[c].from # edit[c].to)
  BY <1>1, GoesTo DEF WritesInv, EditInv
<1>2. CASE \E answer \in {"ok", "failed"} : EndWith(c, answer)
  BY <1>2, EndsWith DEF WritesInv, EditInv
<1> QED
  BY <1>1, <1>2

\* unlink and rmdir: what is removed had nothing in it.
LEMMA UnlinkKeepsContent ==
  ASSUME WritesInv, NEW p \in Path, ~Filled(p), Unlinks(p)
  PROVE  Content \subseteq Content'
BY DEF WritesInv, Filled, FolderAt, Unlinks, Content

\* rename(2) replaces nothing but a file or a directory with nothing in it.
LEMMA RenameKeepsContent ==
  ASSUME WritesInv, NEW p \in Path, NEW q \in Path, p # q,
         Replaces(lies[p], lies[q]),
         lies' = [lies EXCEPT ![q] = lies[p], ![p] = NoThing],
         inside' = inside
  PROVE  Content \subseteq Content'
<1> SUFFICES ASSUME NEW x \in Content PROVE x \in Content'
  OBVIOUS
<1>1. PICK r \in Path : lies[r] \in Folder /\ x \in inside[lies[r]]
  BY DEF Content
<1>2. lies[r] # NoThing /\ NoThing \notin Folder
  BY <1>1, FilesAssumption
<1>3. r # q
  BY <1>1, <1>2 DEF Replaces
<1>4. lies' \in [Path -> Thing \cup {NoThing}] /\ lies'[q] = lies[p]
  BY DEF WritesInv
<1>5. \E s \in Path : lies'[s] = lies[r]
  BY <1>3, <1>4 DEF WritesInv
<1> QED
  BY <1>1, <1>5 DEF Content

\* Of the Agent's acts only a removal that was asked to be recursive takes content away.
LEMMA AgentActsKeepContent ==
  ASSUME WritesInv, NEW c \in FileCall,
         edit[c].leg = "agent", ~(edit[c].op = "remove" /\ edit[c].deep),
         ActMkdir(c) \/ ActRename(c) \/ ActRemove(c) \/ RemoveFolder(c)
  PROVE  Content \subseteq Content'
<1> DEFINE w == edit[c]
<1>0. w \in Edit /\ w.from \in Path /\ w.to \in Path /\ EditInv(w)
  BY DEF WritesInv, EditInv, ActMkdir, ActRename, ActRemove, RemoveFolder
<1>1. CASE lies' = lies /\ inside' = inside
  BY <1>1 DEF Content
<1>2. CASE ActMkdir(c)
  <2>0. SUFFICES ASSUME ~There(w.from) PROVE Content \subseteq Content'
    BY <1>1, <1>2 DEF ActMkdir
  <2>1. PICK d \in Folder \ Present : /\ lies' = [lies EXCEPT ![w.from] = d]
                                      /\ inside' = [inside EXCEPT ![d] = {}]
    BY <1>2, <2>0 DEF ActMkdir
  <2>2. d \notin {lies[p] : p \in Path}
    BY <2>1, FilesAssumption DEF Present
  <2> QED
    BY <1>0, <2>0, <2>1, <2>2, FilesAssumption DEF WritesInv, There, Content
<1>3. CASE ActRename(c)
  <2>1. CASE /\ Replaces(lies[w.from], lies[w.to])
             /\ lies' = [lies EXCEPT ![w.to] = lies[w.from], ![w.from] = NoThing]
    <3>1. inside' = inside /\ w.from # w.to
      BY <1>0, <1>3 DEF ActRename, EditInv
    <3> QED
      BY <1>0, <2>1, <3>1, RenameKeepsContent
  <2> QED
    BY <1>1, <1>3, <2>1 DEF ActRename
<1>4. CASE ActRemove(c)
  <2>1. CASE Unlinks(w.from) /\ ~Filled(w.from)
    BY <1>0, <2>1, UnlinkKeepsContent
  <2>2. w.op = "remove" /\ ~w.deep
    BY <1>0, <1>4 DEF ActRemove
  <2> QED
    BY <1>1, <1>4, <2>1, <2>2 DEF ActRemove
<1>5. CASE RemoveFolder(c)
  BY <1>0, <1>1, <1>5, UnlinkKeepsContent DEF RemoveFolder
<1> QED
  BY <1>2, <1>3, <1>4, <1>5

\* A write under way has its paths, whatever the other writes and the apps do.
THEOREM WritesInvariance == FilesSpec => []WritesInv
<1>1. FilesInit => WritesInv
  <2> SUFFICES ASSUME FilesInit PROVE WritesInv
    OBVIOUS
  <2>1. Idle \in Edit /\ EditInv(Idle)
    BY DEF Idle, Edit, EditInv
  <2> QED
    BY <2>1 DEF FilesInit, WritesInv
<1>2. WritesInv /\ [FilesNext]_filesVars => WritesInv'
  <2> SUFFICES ASSUME WritesInv, [FilesNext]_filesVars PROVE WritesInv'
    OBVIOUS
  <2>1. ASSUME NEW c \in FileCall,
               \/ LookMkdir(c) \/ LookRename(c) \/ LookAtTarget(c) \/ Count(c)
               \/ MeasureRefuses(c) \/ ActMkdir(c) \/ ActRename(c) \/ ActRemove(c)
               \/ RemoveFolder(c) \/ ForceRemove(c) \/ CheckWrite(c) \/ Cut(c)
        PROVE  edit' \in [FileCall -> Edit] /\ \A x \in FileCall : EditInv(edit'[x])
    <3>1. \/ \E s \in {"lookAtTarget", "count", "act", "rmdir", "check"} :
               /\ GoTo(c, s) /\ edit[c].step # "idle"
               /\ edit[c].op = "rename" => edit[c].from # edit[c].to
          \/ \E answer \in {"ok", "failed"} : EndWith(c, answer)
      <4>1. CASE LookMkdir(c)
        BY <4>1 DEF LookMkdir
      <4>2. CASE LookRename(c)
        BY <4>2 DEF LookRename
      <4>3. CASE LookAtTarget(c) \/ Count(c) \/ MeasureRefuses(c) \/ ActMkdir(c) \/ ActRename(c)
                 \/ RemoveFolder(c) \/ ForceRemove(c)
        BY <4>3 DEF WritesInv, EditInv, LookAtTarget, Count, MeasureRefuses, ActMkdir, ActRename,
                    RemoveFolder, ForceRemove
      <4>4. CASE ActRemove(c)
        BY <4>4 DEF WritesInv, EditInv, ActRemove
      <4>5. CASE CheckWrite(c) \/ Cut(c)
        BY <4>5 DEF CheckWrite, Cut
      <4> QED
        BY <2>1, <4>1, <4>2, <4>3, <4>4, <4>5
    <3> QED
      BY <3>1, KeepsEdits
  <2>2. ASSUME NEW c \in FileCall, AskWrite(c)
        PROVE  edit' \in [FileCall -> Edit] /\ \A x \in FileCall : EditInv(edit'[x])
    <3>1. PICK leg \in {"agent", "root"}, op \in {"mkdir", "rename", "remove"},
               from \in Path, to \in Path, deep \in BOOLEAN :
            /\ op # "rename" => to = from
            /\ op # "remove" => ~deep
            /\ edit' = [edit EXCEPT ![c] = [Idle EXCEPT !.step = "look", !.leg = leg, !.op = op,
                                              !.from = from, !.to = to, !.deep = deep]]
      BY <2>2, Zenon DEF AskWrite
    <3> DEFINE w == [Idle EXCEPT !.step = "look", !.leg = leg, !.op = op,
                                 !.from = from, !.to = to, !.deep = deep]
    <3>2. w \in Edit /\ EditInv(w)
      BY DEF Idle, Edit, EditInv
    <3>3. edit' = [edit EXCEPT ![c] = w]
      BY <3>1
    <3> HIDE DEF w
    <3> QED
      BY <3>2, <3>3 DEF WritesInv
  <2>3. ASSUME NEW c \in FileCall, LookRemove(c)
        PROVE  edit' \in [FileCall -> Edit] /\ \A x \in FileCall : EditInv(edit'[x])
    <3>1. CASE \E answer \in {"ok", "failed"} : EndWith(c, answer)
      BY <3>1, KeepsEdits
    <3>2. CASE edit' = [edit EXCEPT
            ![c].folder = FolderAt(edit[c].from),
            ![c].step = IF FolderAt(edit[c].from) /\ ~edit[c].deep THEN "count" ELSE "act"]
      <4> DEFINE step == IF FolderAt(edit[c].from) /\ ~edit[c].deep THEN "count" ELSE "act"
                 w == [edit[c] EXCEPT !.folder = FolderAt(edit[c].from), !.step = step]
      <4>1. edit[c] \in Edit /\ edit[c].op = "remove" /\ edit[c].from \in Path /\ edit[c].to \in Path
        BY <2>3 DEF WritesInv, EditInv, LookRemove
      <4>2. step \in {"count", "act"} /\ FolderAt(edit[c].from) \in BOOLEAN
        BY DEF FolderAt
      <4>3. edit' = [edit EXCEPT ![c] = w]
        BY <3>2 DEF WritesInv
      <4> HIDE DEF step
      <4>4. w \in Edit /\ w.op = "remove" /\ w.from \in Path /\ w.to \in Path
        BY <4>1, <4>2 DEF Edit
      <4> HIDE DEF w
      <4> QED
        BY <4>3, <4>4 DEF WritesInv, EditInv
    <3> QED
      BY <2>3, <3>1, <3>2 DEF LookRemove
  <2>4. edit' \in [FileCall -> Edit] /\ \A x \in FileCall : EditInv(edit'[x])
    <3>1. CASE Meddle \/ UNCHANGED filesVars
      BY <3>1 DEF Meddle, filesVars, WritesInv
    <3> QED
      BY <2>1, <2>2, <2>3, <3>1 DEF FilesNext
  <2>5. /\ lies' \in [Path -> Thing \cup {NoThing}]
        /\ inside' \in [Folder -> SUBSET (Thing \ Folder)]
    <3> USE FilesAssumption DEF WritesInv
    <3>1. CASE Meddle
      BY <3>1 DEF Meddle, Unlinks, FolderAt
    <3>2. CASE UNCHANGED <<lies, inside>>
      BY <3>2
    <3>3. ASSUME NEW c \in FileCall, ActMkdir(c) \/ ActRename(c) \/ ActRemove(c) \/ RemoveFolder(c)
                                     \/ ForceRemove(c) \/ Cut(c)
          PROVE  /\ lies' \in [Path -> Thing \cup {NoThing}]
                 /\ inside' \in [Folder -> SUBSET (Thing \ Folder)]
      <4>1. CASE ActMkdir(c)
        <5>1. \/ UNCHANGED <<lies, inside>>
              \/ \E d \in Folder \ Present : /\ lies' = [lies EXCEPT ![edit[c].from] = d]
                                             /\ inside' = [inside EXCEPT ![d] = {}]
          BY <4>1 DEF ActMkdir
        <5> QED
          BY <3>2, <5>1
      <4>2. CASE ActRename(c)
        <5>1. edit[c].from \in Path
          BY <4>2 DEF ActRename, EditInv
        <5>2. \/ UNCHANGED <<lies, inside>>
              \/ /\ lies' = [lies EXCEPT ![edit[c].to] = lies[edit[c].from], ![edit[c].from] = NoThing]
                 /\ inside' = inside
          BY <4>2 DEF ActRename
        <5> QED
          BY <3>2, <5>1, <5>2
      <4>3. ASSUME NEW p, Unlinks(p) \/ (Empties(p) /\ UNCHANGED lies)
            PROVE  /\ lies' \in [Path -> Thing \cup {NoThing}]
                   /\ inside' \in [Folder -> SUBSET (Thing \ Folder)]
        BY <4>3 DEF Unlinks, Empties
      <4>4. CASE ActRemove(c) \/ RemoveFolder(c) \/ ForceRemove(c) \/ Cut(c)
        <5>1. \/ Unlinks(edit[c].from)
              \/ Empties(edit[c].from) /\ UNCHANGED lies
              \/ UNCHANGED <<lies, inside>>
          BY <4>4 DEF ActRemove, RemoveFolder, ForceRemove, Cut
        <5> QED
          BY <3>2, <4>3, <5>1
      <4> QED
        BY <3>3, <4>1, <4>2, <4>4
    <3> QED
      BY <3>1, <3>2, <3>3 DEF FilesNext, filesVars, Rests, AskWrite, LookMkdir, LookRename,
           LookAtTarget, LookRemove, Count, MeasureRefuses, CheckWrite
  <2> QED
    BY <2>4, <2>5 DEF WritesInv
<1> QED
  BY <1>1, <1>2, PTL DEF FilesSpec

\* The Agent's writes take the content of a directory away only when the removal was
\* asked to be recursive: between its look and its act a directory may be filled,
\* emptied, renamed or replaced, and the kernel refuses what does not fit any more.
THEOREM ContentAlwaysGoesOnlyIfAsked == FilesSpec => ContentGoesOnlyIfAsked
<1> DEFINE Asked ==
      \A c \in FileCall :
        edit[c] # edit'[c] /\ edit[c].leg = "agent" /\ ~(Content \subseteq Present') =>
          edit[c].op = "remove" /\ edit[c].deep
<1>1. WritesInv /\ [FilesNext]_filesVars => [Asked]_filesVars
  <2> SUFFICES ASSUME WritesInv, FilesNext, NEW c \in FileCall, edit[c] # edit'[c],
                      edit[c].leg = "agent", ~(edit[c].op = "remove" /\ edit[c].deep)
               PROVE  Content \subseteq Present'
    OBVIOUS
  <2>1. SUFFICES Content \subseteq Content'
    BY DEF Present
  <2>2. CASE UNCHANGED <<lies, inside>>
    BY <2>2 DEF Content
  <2>3. PICK x \in FileCall :
           \/ AskWrite(x)
           \/ LookMkdir(x) \/ LookRename(x) \/ LookAtTarget(x) \/ LookRemove(x) \/ Count(x)
           \/ MeasureRefuses(x) \/ ActMkdir(x) \/ ActRename(x) \/ ActRemove(x) \/ RemoveFolder(x)
           \/ ForceRemove(x) \/ CheckWrite(x) \/ Cut(x)
    BY DEF FilesNext, Meddle
  <2>4. CASE \/ AskWrite(x)
             \/ LookMkdir(x) \/ LookRename(x) \/ LookAtTarget(x) \/ LookRemove(x) \/ Count(x)
             \/ MeasureRefuses(x) \/ CheckWrite(x)
    BY <2>2, <2>4 DEF Rests, AskWrite, LookMkdir, LookRename, LookAtTarget, LookRemove, Count,
                      MeasureRefuses, CheckWrite
  <2>5. CASE \/ ActMkdir(x) \/ ActRename(x) \/ ActRemove(x) \/ RemoveFolder(x)
             \/ ForceRemove(x) \/ Cut(x)
    <3>1. x = c
      BY <2>5 DEF ActMkdir, ActRename, ActRemove, RemoveFolder, ForceRemove, Cut, GoTo, EndWith,
                  WritesInv
    <3> QED
      BY <2>5, <3>1, AgentActsKeepContent DEF ForceRemove, Cut
  <2> QED
    BY <2>3, <2>4, <2>5
<1> QED
  BY <1>1, WritesInvariance, PTL DEF FilesSpec, ContentGoesOnlyIfAsked
==============================================================================
