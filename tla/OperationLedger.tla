--------------------------- MODULE OperationLedger ---------------------------
(***************************************************************************)
(* The write operations of the Agent (launch, force stop, uninstall,       *)
(* frida-server start) and the ledger that is to make their repetition     *)
(* harmless.  An operation is one intent of the user with one              *)
(* operation_id; each request that carries the id is an attempt at it: the *)
(* first, a retry after a lost answer, a double click.  Every await of a   *)
(* handler is a point where other handlers run, and where its own deadline *)
(* or the end of its connection drops it.                                  *)
(***************************************************************************)
EXTENDS Naturals, FiniteSets

CONSTANTS
  Op,        \* operation ids, numbered as they are first used
  Attempt,   \* requests, numbered as they arrive
  Never,     \* Rust's None
  Ttl,       \* LEDGER_TTL in ticks of the clock
  Cap        \* LEDGER_CAP

ASSUME LedgerAssumption ==
  /\ IsFiniteSet(Op) /\ Op \subseteq Nat
  /\ Attempt \subseteq Nat
  /\ Ttl \in Nat
  /\ Cap \in Nat \ {0}
  /\ Never \notin Nat

VARIABLES
  age,       \* the age of the entry of each operation, Never without an entry
  pc,        \* where each attempt is in its handler
  opOf,      \* the operation each attempt carries
  answer,    \* what each attempt was answered
  effects,   \* how often each operation has acted, in this life of the Agent
  (* history *)
  done,      \* how long ago each operation was last remembered in this life
  late       \* the attempts that came after their operation was remembered,
             \* in time and before Cap newer ones

ledgerVars == <<age, pc, opOf, answer, effects, done, late>>

\* Only ages up to the TTL matter: older ones are all the same.
Ages == 0..(Ttl + 1) \cup {Never}
Answers == {"executed", "no_op", "replayed", "error", "dropped"}
InProgress == {"guard", "ready", "acted"}

LedgerTypeOK ==
  /\ age \in [Op -> Ages]
  /\ pc \in [Attempt -> {"idle", "over"} \cup InProgress]
  /\ opOf \in [Attempt -> Op \cup {Never}]
  /\ answer \in [Attempt -> Answers \cup {"none"}]
  /\ effects \in [Op -> Nat]
  /\ done \in [Op -> Ages]
  /\ late \in SUBSET Attempt

LedgerInit ==
  /\ age = [o \in Op |-> Never]
  /\ pc = [a \in Attempt |-> "idle"]
  /\ opOf = [a \in Attempt |-> Never]
  /\ answer = [a \in Attempt |-> "none"]
  /\ effects = [o \in Op |-> 0]
  /\ done = [o \in Op |-> Never]
  /\ late = {}

-----------------------------------------------------------------------------
(* The ledger. *)

Fresh(ticks) == ticks # Never /\ ticks <= Ttl

\* A plausible bug: off by one at the age that is still accepted.
HitStrictly(o) == age[o] # Never /\ age[o] < Ttl

Hit(o) == Fresh(age[o])

\* prune: first by age, then the newest Cap entries.  Between entries of the
\* same instant the order of the hash map decides.
Prune(ledger) ==
  LET live == {o \in Op : Fresh(ledger[o])}
      Size(n) == {k \in SUBSET live : Cardinality(k) = n}
      kept == IF Cardinality(live) <= Cap THEN {live}
              ELSE {k \in Size(Cap) : \A o \in k, d \in live \ k : ledger[o] <= ledger[d]}
  IN  {[o \in Op |-> IF o \in k THEN ledger[o] ELSE Never] : k \in kept}

-----------------------------------------------------------------------------
(* The handler of one attempt. *)

Answer(a, what) ==
  /\ pc' = [pc EXCEPT ![a] = "over"]
  /\ answer' = [answer EXCEPT ![a] = what]

\* The operation was remembered not too long ago, and fewer than Cap others since.
StillKnown(o) ==
  /\ Fresh(done[o])
  /\ Cardinality({d \in Op \ {o} : done[d] # Never /\ done[d] <= done[o]}) < Cap

\* The numbers are names only: what comes first has the smaller one.
InOrder(a, o) ==
  /\ \A b \in Attempt : b < a => pc[b] # "idle"
  /\ \A p \in Op : p < o => \E b \in Attempt : opOf[b] = p

\* begin_write and lookup: a known result is answered as "replayed".
Receive(a, o) ==
  /\ pc[a] = "idle" /\ InOrder(a, o)
  /\ opOf' = [opOf EXCEPT ![a] = o]
  /\ late' = IF StillKnown(o) THEN late \cup {a} ELSE late
  /\ IF Hit(o)
       THEN Answer(a, "replayed")
       ELSE pc' = [pc EXCEPT ![a] = "guard"] /\ UNCHANGED answer
  /\ age' \in Prune(age)
  /\ UNCHANGED <<effects, done>>

\* guard_writable_package, binary_ready.
Guard(a) ==
  /\ pc[a] = "guard"
  /\ \/ pc' = [pc EXCEPT ![a] = "ready"] /\ UNCHANGED answer
     \/ Answer(a, "error")
  /\ UNCHANGED <<age, opOf, effects, done, late>>

\* The command runs and acts on the device.
Act(a) ==
  /\ pc[a] = "ready"
  /\ pc' = [pc EXCEPT ![a] = "acted"]
  /\ effects' = [effects EXCEPT ![opOf[a]] = @ + 1]
  /\ UNCHANGED <<age, opOf, answer, done, late>>

\* The command is refused (no launcher activity, pm_rejected) and nothing is
\* remembered: the next attempt tries again.
Refused(a) ==
  /\ pc[a] = "ready"
  /\ Answer(a, "error")
  /\ UNCHANGED <<age, opOf, effects, done, late>>

\* finish_write and the return that follows it without an await.
Remember(a, what) ==
  /\ age' \in Prune([age EXCEPT ![opOf[a]] = 0])
  /\ done' = [done EXCEPT ![opOf[a]] = 0]
  /\ Answer(a, what)
  /\ UNCHANGED <<opOf, effects, late>>

\* The target is in the wanted state already (not running, already running).
NothingToDo(a) == pc[a] = "ready" /\ Remember(a, "no_op")

\* The handler has verified its work.
Finish(a) == pc[a] = "acted" /\ Remember(a, "executed")

\* uninstall remembers its result and then reports that it could not verify it.
FinishUnverified(a) == pc[a] = "acted" /\ Remember(a, "error")

\* The deadline of a request or the end of its connection drops handlers.
Drop(A) ==
  LET dropped == {a \in A : pc[a] \in InProgress}
  IN  /\ pc' = [a \in Attempt |-> IF a \in dropped THEN "over" ELSE pc[a]]
      /\ answer' = [a \in Attempt |-> IF a \in dropped THEN "dropped" ELSE answer[a]]
      /\ UNCHANGED <<age, opOf, effects, done, late>>

-----------------------------------------------------------------------------
Older(ticks) == IF ticks \in 0..Ttl THEN ticks + 1 ELSE ticks

Age ==
  /\ age' = [o \in Op |-> Older(age[o])]
  /\ done' = [o \in Op |-> Older(done[o])]
  /\ UNCHANGED <<pc, opOf, answer, effects, late>>

\* The Agent ends: its ledger is gone, by design.  What was done in one life is
\* not held against the next.
Forget ==
  /\ age' = [o \in Op |-> Never]
  /\ pc' = [a \in Attempt |-> IF pc[a] = "idle" THEN "idle" ELSE "over"]
  /\ answer' = [a \in Attempt |-> IF pc[a] \in InProgress THEN "dropped" ELSE answer[a]]
  /\ effects' = [o \in Op |-> 0]
  /\ done' = [o \in Op |-> Never]
  /\ late' = {}
  /\ UNCHANGED opOf

Work(a) ==
  Guard(a) \/ Act(a) \/ Refused(a) \/ NothingToDo(a) \/ Finish(a) \/ FinishUnverified(a)

LedgerNext ==
  \/ \E a \in Attempt : (\E o \in Op : Receive(a, o)) \/ Work(a)
  \/ \E A \in SUBSET Attempt : Drop(A)
  \/ Age \/ Forget

LedgerSpec == LedgerInit /\ [][LedgerNext]_ledgerVars

-----------------------------------------------------------------------------
(* Properties. *)

\* A retry that comes after the operation was remembered, within the TTL and
\* before Cap newer operations, is answered from the ledger and does not get
\* as far as the device.
RetryIsReplayed == \A a \in late : answer[a] = "replayed"

\* The promise of operations.rs: a network retry or a double click only gets
\* the result of what was done before, it cannot act on the device again.
ActsOnce == \A o \in Op : effects[o] <= 1
=============================================================================
