-------------------------- MODULE AgentSession_proofs --------------------------
(***************************************************************************)
(* What a session keeps to, for any number of calls and of ports.  The     *)
(* invariant says who holds the operation lock, and what the holder has    *)
(* taken apart or put together so far: between its steps the status, the   *)
(* client, the plan and the forward need not agree, and sweeps, the way    *)
(* out of the desktop and the world outside do not wait for it.            *)
(***************************************************************************)
EXTENDS AgentSession, FiniteSetTheorems, SequenceTheorems, TLAPS

\* A call that has got the lock and not given it back.
Holds(o) == kind[o] \in Locked /\ pc[o] \notin {"idle", "lock", "over"}

\* The queue is a fair mutex: a call under way is in it once, its head alone
\* has gone on.
LockInv ==
  /\ \A o \in Op : (kind[o] \in Locked /\ pc[o] # "over")
                      <=> \E i \in 1..Len(queue) : queue[i] = o
  /\ \A i, j \in 1..Len(queue) : queue[i] = queue[j] => i = j
  /\ \A i \in 1..Len(queue) : i # 1 => pc[queue[i]] = "lock"

\* Where a call of each kind can be.
LabelInv(o) ==
  /\ kind[o] = None <=> pc[o] = "idle"
  /\ kind[o] = "connect" => pc[o] \in {"lock", "online", "start", "forward", "record",
                                       "hello", "commit", "recover", "over"}
  /\ kind[o] = "reconnect" => pc[o] \in {"lock", "online", "forward", "record", "hello",
                                         "over"}
  /\ kind[o] \in {"disconnect", "gone", "diagnose"} => pc[o] \in {"lock", "over"}
  /\ kind[o] = "sweep" => pc[o] \in {"start", "list", "over"}
  /\ kind[o] = "release" => pc[o] \in {"start", "over"}

\* What a call has in hand: a port it has not recorded, an Agent it has started.
HandInv(o) ==
  /\ held[o] # None <=> pc[o] = "record"
  /\ pc[o] \in {"idle", "lock", "online", "start"} => launched[o] = None
  /\ kind[o] = "connect" /\ pc[o] \in {"forward", "record", "hello", "commit"} =>
       launched[o] # None

\* connect_artifact_inner has taken the session apart, and reopened it.
ConnectInv(o) == kind[o] = "connect" /\ Holds(o) =>
  /\ ~closed /\ plan = None
  /\ pc[o] = "online" => status = "disconnected"
  /\ pc[o] \in {"online", "start", "forward", "record", "hello"} => client = None
  /\ pc[o] = "commit" => status = "ready" /\ client = launched[o]

\* reconnect_after_transport_loss has dropped the client, and has a plan.
ReconnectInv(o) == kind[o] = "reconnect" /\ Holds(o) => client = None /\ plan # None

\* Nothing is on record where the port of a new rule will be written.
ForwardInv(o) ==
  \/ kind[o] = "connect" /\ pc[o] \in {"start", "forward", "record"}
  \/ kind[o] = "reconnect" /\ pc[o] \in {"online", "forward", "record"}
  => forward = None

CallInv(o) ==
  LabelInv(o) /\ HandInv(o) /\ ConnectInv(o) /\ ReconnectInv(o) /\ ForwardInv(o)

\* Each call starts at most one Agent.
Counted == instances = Cardinality({o \in Op : launched[o] # None})

\* The plan of a session that was closed is of no use: the Agent that knows its
\* token does not run and will not run again.
ClosedIsFinal == closed => client = None /\ (plan = None \/ agent # plan)

SessionInv ==
  /\ TypeOK /\ Counted /\ LockInv
  /\ \A o \in Op : CallInv(o)
  /\ ConsistentWhenSettled /\ RulesAreAccounted /\ ClosedIsFinal

-----------------------------------------------------------------------------
\* Lemmas about the lock.

\* Whoever is past the lock is the head of the queue, and alone there.
LEMMA HolderIsHead ==
  ASSUME SessionInv, NEW o \in Op, Holds(o)
  PROVE  queue # <<>> /\ Head(queue) = o /\ \A q \in Op \ {o} : ~Holds(q)
<1> USE DEF SessionInv, TypeOK
<1>1. Len(queue) \in Nat
  BY LenProperties
<1>2. ASSUME NEW q \in Op, Holds(q) PROVE Len(queue) > 0 /\ queue[1] = q
  <2>1. PICK i \in 1..Len(queue) : queue[i] = q
    BY <1>2 DEF LockInv, Holds
  <2>2. i = 1
    BY <1>2, <2>1 DEF LockInv, Holds
  <2> QED
    BY <1>1, <2>1, <2>2
<1>3. queue # <<>>
  BY <1>1, <1>2, EmptySeq
<1>4. Head(queue) = queue[1]
  BY <1>3
<1> QED
  BY <1>2, <1>3, <1>4

\* A call that has come to a step of its operation has the lock, or needs none.
LEMMA AtHead ==
  ASSUME SessionInv, NEW o \in Op, NEW k \in Locked, NEW label, At(o, k, label),
         label \notin {"idle", "over"}
  PROVE  /\ queue # <<>> /\ Head(queue) = o /\ queue[1] = o
         /\ \A q \in Op \ {o} : ~Holds(q)
<1> USE DEF SessionInv, TypeOK
<1>1. Len(queue) \in Nat
  BY LenProperties
<1>2. PICK i \in 1..Len(queue) : queue[i] = o
  BY DEF LockInv, At
<1>3. queue # <<>> /\ Len(queue) > 0
  BY <1>1, <1>2, EmptySeq
<1>4. Head(queue) = queue[1] /\ Head(queue) = o
  BY <1>3 DEF At
<1>5. ASSUME NEW q \in Op \ {o}, Holds(q) PROVE FALSE
  BY <1>4, <1>5, HolderIsHead
<1> QED
  BY <1>3, <1>4, <1>5

\* The head of the queue goes on.
LEMMA GotoKeepsLock ==
  ASSUME SessionInv, NEW o \in Op, NEW k \in Locked, NEW here, NEW label, At(o, k, here),
         here \notin {"idle", "over"}, label \notin {"idle", "over"},
         Goto(o, label), UNCHANGED kind
  PROVE  LockInv' /\ (label # "lock" => ~Settled')
<1> USE DEF SessionInv, TypeOK, Goto
<1>1. queue # <<>> /\ queue[1] = o /\ Head(queue) = o
  BY AtHead
<1>2. Len(queue) \in Nat
  BY LenProperties
<1>3. pc' = [pc EXCEPT ![o] = label] /\ queue' = queue /\ kind' = kind
  OBVIOUS
<1>4. \A q \in Op : (kind'[q] \in Locked /\ pc'[q] # "over")
                      <=> \E i \in 1..Len(queue') : queue'[i] = q
  BY <1>3 DEF LockInv, At
<1>5. \A i \in 1..Len(queue') : i # 1 => pc'[queue'[i]] = "lock"
  <2> SUFFICES ASSUME NEW i \in 1..Len(queue), i # 1 PROVE pc'[queue[i]] = "lock"
    BY <1>3
  <2>1. 1 \in 1..Len(queue)
    BY <1>2
  <2>2. queue[i] # o /\ pc[queue[i]] = "lock"
    BY <1>1, <2>1 DEF LockInv
  <2>3. queue[i] \in Op
    BY ElementOfSeq
  <2> QED
    BY <1>3, <2>2, <2>3
<1>6. LockInv'
  BY <1>3, <1>4, <1>5 DEF LockInv
<1>7. pc'[Head(queue')] = label /\ queue' # <<>>
  BY <1>1, <1>3
<1> QED
  BY <1>6, <1>7 DEF Settled

\* The guard of the lock goes out of scope: the next in turn can go on.
LEMMA ReturnKeepsLock ==
  ASSUME SessionInv, NEW o \in Op, NEW k \in Locked, NEW here, NEW what, At(o, k, here),
         here \notin {"idle", "over"}, Return(o, what), UNCHANGED kind
  PROVE  LockInv' /\ queue' \in Seq(Op)
<1> USE DEF SessionInv, TypeOK, Return
<1>1. queue # <<>> /\ queue[1] = o
  BY AtHead
<1>2. /\ Len(queue) \in Nat \ {0} /\ Len(queue') = Len(queue) - 1
      /\ queue' = Tail(queue) /\ queue' \in Seq(Op)
      /\ \A i \in 1..Len(queue') : queue'[i] = queue[i + 1]
  <2>1. queue' = Tail(queue)
    BY DEF At
  <2> QED
    BY <1>1, <2>1, HeadTailProperties, EmptySeq
<1>3. pc' = [pc EXCEPT ![o] = "over"] /\ kind' = kind
  OBVIOUS
<1>4. ASSUME NEW i \in 1..Len(queue')
      PROVE  i + 1 \in 1..Len(queue) /\ i + 1 # 1 /\ queue'[i] = queue[i + 1] /\ queue'[i] \in Op \ {o}
  <2>1. i + 1 \in 1..Len(queue) /\ i + 1 # 1 /\ 1 \in 1..Len(queue)
    BY <1>2, <1>4
  <2>2. queue'[i] = queue[i + 1]
    BY <1>2, <1>4
  <2>3. queue[i + 1] # o
    BY <1>1, <2>1 DEF LockInv
  <2>4. queue[i + 1] \in Op
    BY <2>1, ElementOfSeq
  <2> QED
    BY <2>1, <2>2, <2>3, <2>4
<1>5. ASSUME NEW q \in Op
      PROVE (kind'[q] \in Locked /\ pc'[q] # "over") <=> \E i \in 1..Len(queue') : queue'[i] = q
  <2>1. CASE q = o
    <3>1. pc'[q] = "over"
      BY <1>3, <2>1
    <3>2. ~ \E i \in 1..Len(queue') : queue'[i] = q
      BY <1>4, <2>1
    <3> QED
      BY <3>1, <3>2
  <2>2. CASE q # o
    <3>1. pc'[q] = pc[q] /\ kind'[q] = kind[q]
      BY <1>3, <2>2
    <3>2. ASSUME NEW i \in 1..Len(queue), queue[i] = q PROVE \E j \in 1..Len(queue') : queue'[j] = q
      <4>1. i # 1
        BY <1>1, <2>2, <3>2
      <4>2. i - 1 \in 1..Len(queue') /\ (i - 1) + 1 = i
        BY <1>2, <4>1
      <4> QED
        BY <1>2, <3>2, <4>2
    <3>3. ASSUME NEW i \in 1..Len(queue'), queue'[i] = q PROVE \E j \in 1..Len(queue) : queue[j] = q
      BY <1>4, <3>3
    <3> QED
      BY <3>1, <3>2, <3>3 DEF LockInv
  <2> QED
    BY <2>1, <2>2
<1>6. \A i, j \in 1..Len(queue') : queue'[i] = queue'[j] => i = j
  <2> SUFFICES ASSUME NEW i \in 1..Len(queue'), NEW j \in 1..Len(queue'), queue'[i] = queue'[j]
               PROVE  i = j
    OBVIOUS
  <2>1. i + 1 = j + 1
    BY <1>4 DEF LockInv
  <2> QED
    BY <2>1, <1>2
<1>7. \A i \in 1..Len(queue') : i # 1 => pc'[queue'[i]] = "lock"
  <2> SUFFICES ASSUME NEW i \in 1..Len(queue') PROVE pc'[queue'[i]] = "lock"
    OBVIOUS
  <2>1. pc[queue[i + 1]] = "lock"
    BY <1>4 DEF LockInv
  <2> QED
    BY <1>3, <1>4, <2>1
<1> QED
  BY <1>2, <1>5, <1>6, <1>7 DEF LockInv

\* Another call comes to wait for the lock.
LEMMA CallKeepsLock ==
  ASSUME SessionInv, NEW o \in Op, NEW k \in Kinds, Call(o, k)
  PROVE  LockInv' /\ queue' \in Seq(Op) /\ (Settled' => Settled)
<1> USE DEF SessionInv, TypeOK, Call
<1>1. kind[o] = None /\ kind[o] \notin Locked
  BY SessionAssumption DEF CallInv, LabelInv, Locked, Kinds
<1>2. /\ kind' = [kind EXCEPT ![o] = k]
      /\ \A q \in Op \ {o} : pc'[q] = pc[q] /\ kind'[q] = kind[q]
      /\ kind'[o] = k
  OBVIOUS
<1>3. \A i \in 1..Len(queue) : queue[i] \in Op \ {o}
  BY <1>1, ElementOfSeq DEF LockInv
<1>4. CASE k \notin Locked
  <2>1. queue' = queue
    BY <1>4
  <2>2. LockInv'
    BY <1>1, <1>2, <1>3, <1>4, <2>1 DEF LockInv
  <2>3. Settled' => Settled
    <3> SUFFICES ASSUME queue # <<>> PROVE pc'[Head(queue)] = pc[Head(queue)]
      BY <2>1 DEF Settled
    <3>1. Head(queue) = queue[1] /\ 1 \in 1..Len(queue)
      BY EmptySeq
    <3> QED
      BY <1>2, <1>3, <3>1
  <2> QED
    BY <2>1, <2>2, <2>3
<1>5. CASE k \in Locked
  <2>1. queue' = Append(queue, o) /\ pc'[o] = "lock"
    BY <1>5
  <2>2. /\ queue' \in Seq(Op) /\ Len(queue) \in Nat /\ Len(queue') = Len(queue) + 1
        /\ \A i \in 1..Len(queue) : queue'[i] = queue[i]
        /\ queue'[Len(queue) + 1] = o
    BY <2>1, AppendProperties, LenProperties
  <2>3. ASSUME NEW q \in Op
        PROVE (kind'[q] \in Locked /\ pc'[q] # "over") <=> \E i \in 1..Len(queue') : queue'[i] = q
    <3>1. CASE q = o
      <4>1. Len(queue) + 1 \in 1..Len(queue')
        BY <2>2
      <4> QED
        BY <1>2, <1>5, <2>1, <2>2, <3>1, <4>1
    <3>2. CASE q # o
      <4>1. (\E i \in 1..Len(queue') : queue'[i] = q) <=> \E i \in 1..Len(queue) : queue[i] = q
        <5>1. ASSUME NEW i \in 1..Len(queue'), queue'[i] = q PROVE i \in 1..Len(queue) /\ queue[i] = q
          BY <2>2, <3>2, <5>1
        <5>2. ASSUME NEW i \in 1..Len(queue), queue[i] = q PROVE i \in 1..Len(queue') /\ queue'[i] = q
          BY <2>2, <5>2
        <5> QED
          BY <5>1, <5>2
      <4> QED
        BY <1>2, <3>2, <4>1 DEF LockInv
    <3> QED
      BY <3>1, <3>2
  <2>4. \A i, j \in 1..Len(queue') : queue'[i] = queue'[j] => i = j
    <3> SUFFICES ASSUME NEW i \in 1..Len(queue'), NEW j \in 1..Len(queue'),
                        queue'[i] = queue'[j]
                 PROVE  i = j
      OBVIOUS
    <3>1. \A m \in 1..Len(queue') : m \in 1..Len(queue) \/ m = Len(queue) + 1
      BY <2>2
    <3> QED
      BY <1>3, <2>2, <3>1 DEF LockInv
  <2>5. \A i \in 1..Len(queue') : i # 1 => pc'[queue'[i]] = "lock"
    <3> SUFFICES ASSUME NEW i \in 1..Len(queue'), i # 1 PROVE pc'[queue'[i]] = "lock"
      OBVIOUS
    <3>1. CASE i = Len(queue) + 1
      BY <2>1, <2>2, <3>1
    <3>2. CASE i # Len(queue) + 1
      <4>1. i \in 1..Len(queue)
        BY <2>2, <3>2
      <4> QED
        BY <1>2, <1>3, <2>2, <4>1 DEF LockInv
    <3> QED
      BY <3>1, <3>2
  <2>6. LockInv'
    BY <2>3, <2>4, <2>5 DEF LockInv
  <2>7. Settled' => Settled
    <3> SUFFICES ASSUME queue # <<>> PROVE queue' # <<>> /\ pc'[Head(queue')] = pc[Head(queue)]
      BY DEF Settled
    <3>1. Head(queue) = queue[1] /\ 1 \in 1..Len(queue)
      BY EmptySeq
    <3>2. Head(queue') = Head(queue) /\ queue' # <<>>
      BY <2>1, HeadTailAppend, AppendProperties
    <3> QED
      BY <1>2, <1>3, <3>1, <3>2
  <2> QED
    BY <2>2, <2>6, <2>7
<1> QED
  BY <1>4, <1>5

-----------------------------------------------------------------------------
\* Lemmas about a step of a call.

\* Whoever does not move, and does not hold the lock, promises nothing new.
LEMMA OthersKeep ==
  ASSUME SessionInv, NEW q \in Op, ~Holds(q), pc'[q] = pc[q], kind'[q] = kind[q],
         held'[q] = held[q], launched'[q] = launched[q]
  PROVE  CallInv(q)'
<1>1. CallInv(q)
  BY DEF SessionInv
<1>2. LabelInv(q)' /\ HandInv(q)'
  BY <1>1 DEF CallInv, LabelInv, HandInv
<1>3. ~Holds(q)'
  BY DEF Holds
<1>4. ConnectInv(q)' /\ ReconnectInv(q)'
  BY <1>3 DEF ConnectInv, ReconnectInv
<1>5. ForwardInv(q)'
  BY <1>3 DEF ForwardInv, Holds, Locked, Kinds
<1> QED
  BY <1>2, <1>4, <1>5 DEF CallInv

\* The step of a call under the lock: the others wait, so that what the call
\* promises of itself is all there is to show.
LEMMA StepUnderLock ==
  ASSUME SessionInv, NEW o \in Op, NEW k \in Locked, NEW here, At(o, k, here),
         here \notin {"idle", "over"}, UNCHANGED kind,
         \/ \E label : label \notin {"idle", "over"} /\ Goto(o, label)
         \/ \E what : Return(o, what),
         \A q \in Op \ {o} : held'[q] = held[q] /\ launched'[q] = launched[q],
         CallInv(o)'
  PROVE  /\ LockInv' /\ queue' \in Seq(Op)
         /\ \A q \in Op : CallInv(q)'
         /\ \A label : label \notin {"idle", "over", "lock"} /\ Goto(o, label) => ~Settled'
<1>1. LockInv' /\ queue' \in Seq(Op)
  <2>1. ASSUME NEW label, label \notin {"idle", "over"}, Goto(o, label) PROVE LockInv' /\ queue' \in Seq(Op)
    <3>1. LockInv'
      BY <2>1, GotoKeepsLock
    <3> QED
      BY <2>1, <3>1 DEF Goto, SessionInv, TypeOK
  <2>2. ASSUME NEW what, Return(o, what) PROVE LockInv' /\ queue' \in Seq(Op)
    BY <2>2, ReturnKeepsLock
  <2> QED
    BY <2>1, <2>2
<1>2. ASSUME NEW q \in Op PROVE CallInv(q)'
  <2>1. CASE q = o
    BY <2>1
  <2>2. CASE q # o
    <3>1. ~Holds(q)
      BY <2>2, AtHead
    <3>2. pc'[q] = pc[q]
      BY <2>2 DEF Goto, Return, SessionInv, TypeOK
    <3> QED
      BY <2>2, <3>1, <3>2, OthersKeep
  <2> QED
    BY <2>1, <2>2
<1>3. ASSUME NEW label, label \notin {"idle", "over", "lock"}, Goto(o, label) PROVE ~Settled'
  BY <1>3, GotoKeepsLock
<1> QED
  BY <1>1, <1>2, <1>3

\* forward.take() with remove_forward: the rule goes, or is a stray from then on.
LEMMA TakeForwardAccounts ==
  ASSUME TypeOK, RulesAreAccounted, TakeForward, UNCHANGED <<held, dropped>>
  PROVE  /\ RulesAreAccounted' /\ forward' = None
         /\ rules' \in SUBSET Port /\ stray' \in SUBSET Port
BY DEF TypeOK, RulesAreAccounted, TakeForward, RemoveRule

\* A desktop that has just been started (Session::default).
LEMMA InitSessionInv == Init => SessionInv
<1> SUFFICES ASSUME Init PROVE SessionInv
  OBVIOUS
<1> USE DEF Init
<1>1. Cardinality(Op) \in Nat
  BY SessionAssumption, FS_CardinalityType
<1>2. TypeOK
  <2>1. queue \in Seq(Op) /\ 0 \in Instance
    BY <1>1, EmptySeq DEF Instance
  <2>2. rules \in SUBSET Port /\ 0 \in 0..MaxEvents
    BY SessionAssumption
  <2> QED
    BY <2>1, <2>2 DEF TypeOK
<1>3. Counted
  <2>1. {o \in Op : launched[o] # None} = {}
    OBVIOUS
  <2> QED
    BY <2>1, FS_EmptySet DEF Counted
<1>4. LockInv
  <2>1. ~ \E i : i \in 1..Len(queue)
    <3>1. Len(queue) = 0
      BY EmptySeq
    <3> QED
      BY <3>1
  <2>2. \A o \in Op : kind[o] \notin Locked
    BY SessionAssumption DEF Locked
  <2> QED
    BY <2>1, <2>2 DEF LockInv
<1>5. ASSUME NEW o \in Op PROVE CallInv(o)
  BY SessionAssumption DEF CallInv, LabelInv, HandInv, ConnectInv, ReconnectInv, ForwardInv,
                           Holds, Locked, Kinds
<1>6. ConsistentWhenSettled /\ RulesAreAccounted /\ ClosedIsFinal
  BY DEF ConsistentWhenSettled, RulesAreAccounted, ClosedIsFinal
<1> QED
  BY <1>2, <1>3, <1>4, <1>5, <1>6 DEF SessionInv

-----------------------------------------------------------------------------
\* connect.  A session that answers is left as it is, any other is taken apart.
LEMMA BeginConnectInv == ASSUME SessionInv, NEW o \in Op, BeginConnect(o) PROVE SessionInv'
<1> USE DEF SessionInv, BeginConnect, sessionVars, outsideVars
<1>1. At(o, "connect", "lock") /\ "connect" \in Locked
  BY DEF Locked, Kinds
<1>2. CallInv(o)'
  BY <1>1 DEF TypeOK, CallInv, LabelInv, HandInv, ConnectInv, ReconnectInv, ForwardInv, Holds,
              Locked, Kinds, At, Goto, Return
<1>3. /\ LockInv' /\ queue' \in Seq(Op) /\ (\A q \in Op : CallInv(q)')
      /\ Goto(o, "online") => ~Settled'
  BY <1>1, <1>2, StepUnderLock
<1>4. TypeOK'
  BY <1>3 DEF TypeOK, Goto, Return
<1>5. Counted' /\ RulesAreAccounted'
  BY DEF Counted, RulesAreAccounted
<1>6. ConsistentWhenSettled'
  <2>1. Settled
    BY <1>1 DEF Settled, At
  <2> QED
    BY <1>3, <2>1 DEF ConsistentWhenSettled
<1>7. ClosedIsFinal'
  BY DEF ClosedIsFinal
<1> QED
  BY <1>3, <1>4, <1>5, <1>6, <1>7

\* The forward of before is removed, and nothing is on record in its place.
LEMMA EnsureOnlineInv == ASSUME SessionInv, NEW o \in Op, EnsureOnline(o) PROVE SessionInv'
<1> USE DEF SessionInv, EnsureOnline, sessionVars, outsideVars
<1>1. At(o, "connect", "online") /\ "connect" \in Locked /\ CallInv(o) /\ Holds(o)
  BY DEF Locked, Kinds, At, Holds
<1>2. RulesAreAccounted' /\ rules' \in SUBSET Port /\ stray' \in SUBSET Port /\ forward' \in Port \cup {None}
      /\ (Goto(o, "start") => forward' = None)
  <2>1. CASE TakeForward
    BY <2>1, TakeForwardAccounts
  <2>2. CASE ~TakeForward
    BY <2>2 DEF RulesAreAccounted, TypeOK, Goto, Return
  <2> QED
    BY <2>1, <2>2 DEF Goto, Return, At, TypeOK
<1>3. CallInv(o)'
  BY <1>1, <1>2 DEF TypeOK, CallInv, LabelInv, HandInv, ConnectInv, ReconnectInv, ForwardInv, Holds,
                    Locked, Kinds, At, Goto, Return
<1>4. /\ LockInv' /\ queue' \in Seq(Op) /\ (\A q \in Op : CallInv(q)')
      /\ Goto(o, "start") => ~Settled'
  BY <1>1, <1>3, StepUnderLock
<1>5. TypeOK'
  BY <1>2, <1>4 DEF TypeOK, Goto, Return
<1>6. ConsistentWhenSettled'
  BY <1>1, <1>4 DEF CallInv, ConnectInv, At, ConsistentWhenSettled
<1>7. Counted' /\ ClosedIsFinal'
  BY DEF Counted, ClosedIsFinal
<1> QED
  BY <1>2, <1>4, <1>5, <1>6, <1>7

\* A new Agent, with a token of its own: the one instance this call starts.
LEMMA StartAgentInv == ASSUME SessionInv, NEW o \in Op, StartAgent(o) PROVE SessionInv'
<1> USE DEF SessionInv, StartAgent, sessionVars, outsideVars
<1>1. At(o, "connect", "start") /\ "connect" \in Locked /\ CallInv(o) /\ Holds(o)
  BY DEF Locked, Kinds, At, Holds
<1>2. Counted' /\ instances' \in Instance /\ instances' # None
  <2> DEFINE Before == {q \in Op : launched[q] # None}
             After  == {q \in Op : launched'[q] # None}
  <2>1. Cardinality(Op) \in Nat /\ instances \in Nat
    BY SessionAssumption, FS_CardinalityType DEF TypeOK, Instance
  <2>2. instances' \in Nat /\ instances' # None
    BY <2>1, SessionAssumption
  <2>3. o \notin Before /\ After = Before \cup {o}
    BY <1>1, <2>2 DEF TypeOK, CallInv, HandInv, At
  <2>4. IsFiniteSet(Before) /\ IsFiniteSet(After)
    BY SessionAssumption, FS_Subset
  <2>5. Cardinality(After) = Cardinality(Before) + 1
    BY <2>3, <2>4, FS_AddElement
  <2>6. Cardinality(After) <= Cardinality(Op)
    BY SessionAssumption, FS_Subset
  <2>7. instances' = Cardinality(After)
    BY <2>5 DEF Counted
  <2> QED
    BY <2>1, <2>2, <2>6, <2>7 DEF Counted, Instance
<1>3. CallInv(o)'
  BY <1>1, <1>2 DEF TypeOK, CallInv, LabelInv, HandInv, ConnectInv, ReconnectInv, ForwardInv, Holds,
                    Locked, Kinds, At, Goto
<1>4. LockInv' /\ queue' \in Seq(Op) /\ (\A q \in Op : CallInv(q)') /\ ~Settled'
  <2>1. \A q \in Op \ {o} : held'[q] = held[q] /\ launched'[q] = launched[q]
    BY DEF TypeOK
  <2>2. LockInv' /\ queue' \in Seq(Op) /\ (\A q \in Op : CallInv(q)') /\ (Goto(o, "forward") => ~Settled')
    BY <1>1, <1>3, <2>1, StepUnderLock
  <2> QED
    BY <2>2
<1>5. TypeOK'
  BY <1>2, <1>4 DEF TypeOK, Goto
<1>6. ConsistentWhenSettled' /\ RulesAreAccounted'
  BY <1>4 DEF ConsistentWhenSettled, RulesAreAccounted
<1>7. ClosedIsFinal'
  BY <1>1 DEF CallInv, ConnectInv, At, ClosedIsFinal
<1> QED
  BY <1>2, <1>4, <1>5, <1>6, <1>7

\* The start fails: the session has no client, and says so.
LEMMA StartFailsInv == ASSUME SessionInv, NEW o \in Op, StartFails(o) PROVE SessionInv'
<1> USE DEF SessionInv, StartFails, StopAgent, historyVars
<1>1. At(o, "connect", "start") /\ "connect" \in Locked /\ CallInv(o) /\ Holds(o)
  BY DEF Locked, Kinds, At, Holds
<1>2. CallInv(o)'
  BY <1>1 DEF TypeOK, CallInv, LabelInv, HandInv, ConnectInv, ReconnectInv, ForwardInv, Holds,
              Locked, Kinds, At, Return
<1>3. LockInv' /\ queue' \in Seq(Op) /\ (\A q \in Op : CallInv(q)')
  BY <1>1, <1>2, StepUnderLock
<1>4. TypeOK'
  BY <1>3 DEF TypeOK, Return
<1>5. ConsistentWhenSettled'
  BY <1>1 DEF CallInv, ConnectInv, At, ConsistentWhenSettled
<1>6. Counted' /\ RulesAreAccounted' /\ ClosedIsFinal'
  BY <1>1 DEF Counted, RulesAreAccounted, ClosedIsFinal, CallInv, ConnectInv, At
<1> QED
  BY <1>3, <1>4, <1>5, <1>6

\* The rule exists before the session knows of it: the call has its port in hand.
LEMMA ForwardStepInv == ASSUME SessionInv, NEW o \in Op, Forward(o) PROVE SessionInv'
<1> USE DEF SessionInv, Forward, sessionVars
<1>1. PICK k \in {"connect", "reconnect"} : At(o, k, "forward")
  OBVIOUS
<1>2. k \in Locked /\ CallInv(o) /\ Holds(o)
  BY <1>1 DEF Locked, Kinds, At, Holds
<1>3. PICK p \in Port \ rules : /\ rules' = rules \cup {p} /\ held' = [held EXCEPT ![o] = p]
                                /\ stray' = stray \ {p} /\ dropped' = dropped \ {p}
  OBVIOUS
<1>4. held'[o] = p /\ held'[o] # None /\ \A q \in Op \ {o} : held'[q] = held[q]
  BY <1>3, SessionAssumption DEF TypeOK
<1>5. CallInv(o)'
  BY <1>1, <1>2, <1>4 DEF TypeOK, CallInv, LabelInv, HandInv, ConnectInv, ReconnectInv, ForwardInv,
                          Holds, Locked, Kinds, At, Goto
<1>6. LockInv' /\ queue' \in Seq(Op) /\ (\A q \in Op : CallInv(q)') /\ (Goto(o, "record") => ~Settled')
  BY <1>1, <1>2, <1>4, <1>5, StepUnderLock
<1>7. TypeOK'
  BY <1>3, <1>6 DEF TypeOK, Goto
<1>8. RulesAreAccounted'
  <2> SUFFICES ASSUME NEW r \in rules'
               PROVE  r \in {forward'} \cup {held'[q] : q \in Op} \cup stray' \cup dropped'
    BY DEF RulesAreAccounted
  <2>1. CASE r = p
    BY <1>4, <2>1
  <2>2. CASE r # p
    <3>1. r \in {forward} \cup {held[q] : q \in Op} \cup stray \cup dropped
      BY <1>3, <2>2 DEF RulesAreAccounted
    <3>2. ASSUME NEW q \in Op, r = held[q] PROVE q # o
      BY <1>1, <1>2, <3>2, SessionAssumption DEF CallInv, HandInv, At, TypeOK
    <3> QED
      BY <1>3, <1>4, <2>2, <3>1, <3>2
  <2> QED
    BY <2>1, <2>2
<1>9. Counted' /\ ConsistentWhenSettled' /\ ClosedIsFinal'
  BY <1>6 DEF Counted, ConsistentWhenSettled, ClosedIsFinal
<1> QED
  BY <1>6, <1>7, <1>8, <1>9

\* The forward fails, with or without a rule: connect cleans up, a reconnect is over.
LEMMA ForwardFailsInv == ASSUME SessionInv, NEW o \in Op, ForwardFails(o) PROVE SessionInv'
<1> USE DEF SessionInv, ForwardFails, outsideVars, historyVars
<1>1. PICK k \in {"connect", "reconnect"} : At(o, k, "forward")
  OBVIOUS
<1>2. k \in Locked /\ CallInv(o) /\ Holds(o)
  BY <1>1 DEF Locked, Kinds, At, Holds
<1>3. CallInv(o)'
  BY <1>1, <1>2 DEF TypeOK, CallInv, LabelInv, HandInv, ConnectInv, ReconnectInv, ForwardInv,
                    Holds, Locked, Kinds, At, Goto, Return
<1>4. /\ LockInv' /\ queue' \in Seq(Op) /\ (\A q \in Op : CallInv(q)')
      /\ Goto(o, "recover") => ~Settled'
  BY <1>1, <1>2, <1>3, StepUnderLock
<1>8. /\ rules' \in SUBSET Port /\ stray' \in SUBSET Port
      /\ stray \subseteq stray' /\ rules' \subseteq rules \cup stray'
  BY DEF TypeOK
<1>5. TypeOK'
  BY <1>4, <1>8 DEF TypeOK, Goto, Return
<1>6. ConsistentWhenSettled'
  BY <1>2, <1>4 DEF CallInv, ReconnectInv, At, ConsistentWhenSettled
<1>9. RulesAreAccounted'
  BY <1>8 DEF RulesAreAccounted
<1>7. Counted' /\ RulesAreAccounted' /\ ClosedIsFinal'
  BY <1>9 DEF Counted, ClosedIsFinal
<1> QED
  BY <1>4, <1>5, <1>6, <1>7

\* The port goes on record, where nothing was.
LEMMA RecordInv == ASSUME SessionInv, NEW o \in Op, Record(o) PROVE SessionInv'
<1> USE DEF SessionInv, Record, outsideVars, historyVars
<1>1. PICK k \in {"connect", "reconnect"} : At(o, k, "record")
  OBVIOUS
<1>2. k \in Locked /\ CallInv(o) /\ Holds(o) /\ forward = None /\ held[o] \in Port
  BY <1>1 DEF Locked, Kinds, At, Holds, CallInv, ForwardInv, HandInv, TypeOK
<1>3. held'[o] = None /\ \A q \in Op \ {o} : held'[q] = held[q]
  BY DEF TypeOK
<1>4. CallInv(o)'
  BY <1>1, <1>2, <1>3 DEF TypeOK, CallInv, LabelInv, HandInv, ConnectInv, ReconnectInv, ForwardInv,
                          Holds, Locked, Kinds, At, Goto
<1>5. LockInv' /\ queue' \in Seq(Op) /\ (\A q \in Op : CallInv(q)') /\ (Goto(o, "hello") => ~Settled')
  BY <1>1, <1>2, <1>3, <1>4, StepUnderLock
<1>6. TypeOK'
  BY <1>2, <1>5 DEF TypeOK, Goto
<1>7. RulesAreAccounted'
  <2> SUFFICES ASSUME NEW r \in rules
               PROVE  r \in {held[o]} \cup {held'[q] : q \in Op} \cup stray \cup dropped
    BY DEF RulesAreAccounted
  <2>1. r \in {held[q] : q \in Op} \cup stray \cup dropped
    BY <1>2, SessionAssumption DEF RulesAreAccounted, TypeOK
  <2> QED
    BY <1>3, <2>1
<1>8. Counted' /\ ConsistentWhenSettled' /\ ClosedIsFinal'
  BY <1>5 DEF Counted, ConsistentWhenSettled, ClosedIsFinal
<1> QED
  BY <1>5, <1>6, <1>7, <1>8

\* The handshake of connect: the client is the Agent it has started.
LEMMA HandshakeConnectInv == ASSUME SessionInv, NEW o \in Op, HandshakeConnect(o) PROVE SessionInv'
<1> USE DEF SessionInv, HandshakeConnect, Accepted
<1>1. At(o, "connect", "hello") /\ "connect" \in Locked /\ CallInv(o) /\ Holds(o)
  BY DEF Locked, Kinds, At, Holds
<1>2. CallInv(o)'
  BY <1>1 DEF TypeOK, CallInv, LabelInv, HandInv, ConnectInv, ReconnectInv, ForwardInv,
              Holds, Locked, Kinds, At, Goto
<1>3. LockInv' /\ queue' \in Seq(Op) /\ (\A q \in Op : CallInv(q)') /\ (Goto(o, "commit") => ~Settled')
  BY <1>1, <1>2, StepUnderLock
<1>4. TypeOK'
  BY <1>3 DEF TypeOK, Goto
<1>5. Counted' /\ RulesAreAccounted' /\ ConsistentWhenSettled'
  BY <1>3 DEF Counted, RulesAreAccounted, ConsistentWhenSettled
<1>6. ClosedIsFinal'
  BY <1>1 DEF CallInv, ConnectInv, At, ClosedIsFinal
<1> QED
  BY <1>3, <1>4, <1>5, <1>6

\* The plan is the one of the client's Agent.
LEMMA CommitInv == ASSUME SessionInv, NEW o \in Op, Commit(o) PROVE SessionInv'
<1> USE DEF SessionInv, Commit, outsideVars, historyVars
<1>1. At(o, "connect", "commit") /\ "connect" \in Locked /\ CallInv(o) /\ Holds(o)
  BY DEF Locked, Kinds, At, Holds
<1>2. CallInv(o)'
  BY <1>1 DEF TypeOK, CallInv, LabelInv, HandInv, ConnectInv, ReconnectInv, ForwardInv,
              Holds, Locked, Kinds, At, Return
<1>3. LockInv' /\ queue' \in Seq(Op) /\ (\A q \in Op : CallInv(q)')
  BY <1>1, <1>2, StepUnderLock
<1>4. TypeOK'
  BY <1>3 DEF TypeOK, Return
<1>5. ConsistentWhenSettled'
  BY <1>1 DEF CallInv, ConnectInv, HandInv, At, ConsistentWhenSettled
<1>6. Counted' /\ RulesAreAccounted' /\ ClosedIsFinal'
  BY <1>1 DEF Counted, RulesAreAccounted, ClosedIsFinal, CallInv, ConnectInv, At
<1> QED
  BY <1>3, <1>4, <1>5, <1>6

\* A handshake or a commit that failed leaves all to recover_failed_start.
LEMMA ConnectFailsInv == ASSUME SessionInv, NEW o \in Op, ConnectFails(o) PROVE SessionInv'
<1> USE DEF SessionInv, ConnectFails, outsideVars, historyVars
<1>1. PICK here \in {"hello", "commit"} : At(o, "connect", here)
  OBVIOUS
<1>2. "connect" \in Locked /\ CallInv(o) /\ Holds(o)
  BY <1>1 DEF Locked, Kinds, At, Holds
<1>3. CallInv(o)'
  BY <1>1, <1>2 DEF TypeOK, CallInv, LabelInv, HandInv, ConnectInv, ReconnectInv, ForwardInv,
                    Holds, Locked, Kinds, At, Goto
<1>4. LockInv' /\ queue' \in Seq(Op) /\ (\A q \in Op : CallInv(q)') /\ (Goto(o, "recover") => ~Settled')
  BY <1>1, <1>2, <1>3, StepUnderLock
<1>5. TypeOK'
  BY <1>4 DEF TypeOK, Goto
<1>6. Counted' /\ RulesAreAccounted' /\ ConsistentWhenSettled' /\ ClosedIsFinal'
  BY <1>4 DEF Counted, RulesAreAccounted, ConsistentWhenSettled, ClosedIsFinal
<1> QED
  BY <1>4, <1>5, <1>6

\* recover_failed_start takes everything apart.
LEMMA RecoverInv == ASSUME SessionInv, NEW o \in Op, Recover(o) PROVE SessionInv'
<1> USE DEF SessionInv, Recover, StopAgent
<1>1. At(o, "connect", "recover") /\ "connect" \in Locked /\ CallInv(o) /\ Holds(o)
  BY DEF Locked, Kinds, At, Holds
<1>2. RulesAreAccounted' /\ forward' = None /\ rules' \in SUBSET Port /\ stray' \in SUBSET Port
  BY TakeForwardAccounts
<1>3. CallInv(o)'
  BY <1>1 DEF TypeOK, CallInv, LabelInv, HandInv, ConnectInv, ReconnectInv, ForwardInv,
              Holds, Locked, Kinds, At, Return
<1>4. LockInv' /\ queue' \in Seq(Op) /\ (\A q \in Op : CallInv(q)')
  BY <1>1, <1>3, StepUnderLock
<1>5. TypeOK'
  BY <1>2, <1>4 DEF TypeOK, Return
<1>6. ConsistentWhenSettled' /\ Counted' /\ ClosedIsFinal'
  BY <1>1 DEF ConsistentWhenSettled, Counted, ClosedIsFinal, CallInv, ConnectInv, At
<1> QED
  BY <1>2, <1>4, <1>5, <1>6

-----------------------------------------------------------------------------
\* reconnect.  Only a client that does not answer is dropped.
LEMMA BeginReconnectInv == ASSUME SessionInv, NEW o \in Op, BeginReconnect(o) PROVE SessionInv'
<1> USE DEF SessionInv, BeginReconnect
<1>1. At(o, "reconnect", "lock") /\ "reconnect" \in Locked /\ CallInv(o) /\ Settled
  BY DEF Locked, Kinds, At, Settled
<1>2. /\ RulesAreAccounted' /\ rules' \in SUBSET Port /\ stray' \in SUBSET Port
      /\ forward' \in Port \cup {None} /\ (Goto(o, "online") => forward' = None)
  <2>1. CASE TakeForward
    BY <2>1, TakeForwardAccounts
  <2>2. CASE ~TakeForward
    BY <1>1, <2>2 DEF RulesAreAccounted, TypeOK, Goto, Return, At
  <2> QED
    BY <2>1, <2>2
<1>3. CallInv(o)'
  BY <1>1, <1>2 DEF TypeOK, CallInv, LabelInv, HandInv, ConnectInv, ReconnectInv, ForwardInv,
                    Holds, Locked, Kinds, At, Goto, Return
<1>4. /\ LockInv' /\ queue' \in Seq(Op) /\ (\A q \in Op : CallInv(q)')
      /\ Goto(o, "online") => ~Settled'
  BY <1>1, <1>3, StepUnderLock
<1>5. TypeOK'
  BY <1>2, <1>4 DEF TypeOK, Goto, Return
<1>6. ConsistentWhenSettled'
  BY <1>1, <1>4 DEF ConsistentWhenSettled
<1>7. Counted' /\ ClosedIsFinal'
  BY DEF Counted, ClosedIsFinal
<1> QED
  BY <1>2, <1>4, <1>5, <1>6, <1>7

\* The device is back, or was waited for in vain.
LEMMA WaitOnlineInv == ASSUME SessionInv, NEW o \in Op, WaitOnline(o) PROVE SessionInv'
<1> USE DEF SessionInv, WaitOnline, outsideVars, historyVars
<1>1. At(o, "reconnect", "online") /\ "reconnect" \in Locked /\ CallInv(o) /\ Holds(o)
  BY DEF Locked, Kinds, At, Holds
<1>2. CallInv(o)'
  BY <1>1 DEF TypeOK, CallInv, LabelInv, HandInv, ConnectInv, ReconnectInv, ForwardInv,
              Holds, Locked, Kinds, At, Goto, Return
<1>3. /\ LockInv' /\ queue' \in Seq(Op) /\ (\A q \in Op : CallInv(q)')
      /\ Goto(o, "forward") => ~Settled'
  BY <1>1, <1>2, StepUnderLock
<1>4. TypeOK'
  BY <1>3 DEF TypeOK, Goto, Return
<1>5. ConsistentWhenSettled'
  BY <1>1, <1>3 DEF CallInv, ReconnectInv, At, ConsistentWhenSettled
<1>6. Counted' /\ RulesAreAccounted' /\ ClosedIsFinal'
  BY DEF Counted, RulesAreAccounted, ClosedIsFinal
<1> QED
  BY <1>3, <1>4, <1>5, <1>6

\* The Agent of the plan is there: then the session was not closed meanwhile.
LEMMA HandshakeReconnectInv ==
  ASSUME SessionInv, NEW o \in Op, HandshakeReconnect(o) PROVE SessionInv' /\ ~closed
<1> USE DEF SessionInv, HandshakeReconnect, Accepted
<1>1. At(o, "reconnect", "hello") /\ "reconnect" \in Locked /\ CallInv(o) /\ Holds(o)
  BY DEF Locked, Kinds, At, Holds
<1>2. CallInv(o)'
  BY <1>1 DEF TypeOK, CallInv, LabelInv, HandInv, ConnectInv, ReconnectInv, ForwardInv,
              Holds, Locked, Kinds, At, Return
<1>3. LockInv' /\ queue' \in Seq(Op) /\ (\A q \in Op : CallInv(q)')
  BY <1>1, <1>2, StepUnderLock
<1>4. TypeOK'
  BY <1>3 DEF TypeOK, Return
<1>5. plan # None /\ agent = plan
  BY <1>1 DEF CallInv, ReconnectInv, At, Reaches
<1>6. ConsistentWhenSettled' /\ ~closed /\ ClosedIsFinal'
  BY <1>5 DEF ConsistentWhenSettled, ClosedIsFinal
<1>7. Counted' /\ RulesAreAccounted'
  BY DEF Counted, RulesAreAccounted
<1> QED
  BY <1>3, <1>4, <1>6, <1>7

\* The rule of a reconnect that fails is forgotten, and counted as dropped.
LEMMA ReconnectFailsInv == ASSUME SessionInv, NEW o \in Op, ReconnectFails(o) PROVE SessionInv'
<1> USE DEF SessionInv, ReconnectFails, outsideVars
<1>1. At(o, "reconnect", "hello") /\ "reconnect" \in Locked /\ CallInv(o) /\ Holds(o)
  BY DEF Locked, Kinds, At, Holds
<1>2. CallInv(o)'
  BY <1>1 DEF TypeOK, CallInv, LabelInv, HandInv, ConnectInv, ReconnectInv, ForwardInv,
              Holds, Locked, Kinds, At, Return
<1>3. LockInv' /\ queue' \in Seq(Op) /\ (\A q \in Op : CallInv(q)')
  BY <1>1, <1>2, StepUnderLock
<1>4. TypeOK'
  BY <1>3 DEF TypeOK, Return
<1>5. RulesAreAccounted'
  BY DEF RulesAreAccounted
<1>6. ConsistentWhenSettled' /\ Counted' /\ ClosedIsFinal'
  BY <1>1 DEF ConsistentWhenSettled, Counted, ClosedIsFinal, CallInv, ReconnectInv, At
<1> QED
  BY <1>3, <1>4, <1>5, <1>6

-----------------------------------------------------------------------------
\* The operations of one step under the lock: disconnect keeps the plan of an
\* Agent it has stopped, a device that is gone takes the plan with it.
LEMMA CloseInv ==
  ASSUME SessionInv, NEW o \in Op, Disconnect(o) \/ DeviceGone(o) PROVE SessionInv'
<1> USE DEF SessionInv, Disconnect, DeviceGone, StopAgent
<1>1. PICK k \in {"disconnect", "gone"} : At(o, k, "lock")
  OBVIOUS
<1>2. k \in Locked /\ CallInv(o)
  BY <1>1 DEF Locked, Kinds
<1>3. RulesAreAccounted' /\ forward' = None /\ rules' \in SUBSET Port /\ stray' \in SUBSET Port
  BY TakeForwardAccounts
<1>4. CallInv(o)'
  BY <1>1, <1>2 DEF TypeOK, CallInv, LabelInv, HandInv, ConnectInv, ReconnectInv, ForwardInv,
                    Holds, Locked, Kinds, At, Return
<1>5. LockInv' /\ queue' \in Seq(Op) /\ (\A q \in Op : CallInv(q)')
  BY <1>1, <1>2, <1>4, StepUnderLock
<1>6. TypeOK'
  BY <1>3, <1>5 DEF TypeOK, Return
<1>7. ConsistentWhenSettled' /\ Counted' /\ ClosedIsFinal'
  BY DEF ConsistentWhenSettled, Counted, ClosedIsFinal
<1> QED
  BY <1>3, <1>5, <1>6, <1>7

\* Diagnostics drop a client that does not answer, and say so.
LEMMA DiagnoseInv == ASSUME SessionInv, NEW o \in Op, Diagnose(o) PROVE SessionInv'
<1> USE DEF SessionInv, Diagnose, outsideVars, historyVars
<1>1. At(o, "diagnose", "lock") /\ "diagnose" \in Locked /\ CallInv(o) /\ Settled
  BY DEF Locked, Kinds, At, Settled
<1>2. CallInv(o)'
  BY <1>1 DEF TypeOK, CallInv, LabelInv, HandInv, ConnectInv, ReconnectInv, ForwardInv,
              Holds, Locked, Kinds, At, Return
<1>3. LockInv' /\ queue' \in Seq(Op) /\ (\A q \in Op : CallInv(q)')
  BY <1>1, <1>2, StepUnderLock
<1>4. TypeOK'
  BY <1>3 DEF TypeOK, Return
<1>5. ConsistentWhenSettled' /\ RulesAreAccounted' /\ Counted' /\ ClosedIsFinal'
  BY <1>1 DEF ConsistentWhenSettled, RulesAreAccounted, Counted, ClosedIsFinal
<1> QED
  BY <1>3, <1>4, <1>5

-----------------------------------------------------------------------------
\* The steps that do not wait for the lock.

\* A sweep, and the way out of the desktop, leave those in the queue where they are.
LEMMA StepWithoutLock ==
  ASSUME SessionInv, NEW o \in Op, kind[o] \in Kinds \ Locked,
         pc' = [pc EXCEPT ![o] = pc'[o]], UNCHANGED <<kind, queue, held, launched>>,
         pc[o] \in {"start", "list"}, kind[o] = "release" => pc[o] = "start",
         pc'[o] \in {"list", "over"}, kind[o] = "release" => pc'[o] = "over",
         forward' \in {forward, None},
         UNCHANGED <<status, client, plan, closed>>
  PROVE  LockInv' /\ (\A q \in Op : CallInv(q)') /\ (Settled' <=> Settled)
<1> USE DEF SessionInv
<1>1. \A q \in Op \ {o} : pc'[q] = pc[q]
  BY DEF TypeOK
<1>2. \A i \in 1..Len(queue) : queue[i] \in Op \ {o}
  BY ElementOfSeq DEF LockInv, TypeOK
<1>3. LockInv'
  BY <1>1, <1>2 DEF LockInv
<1>4. Settled' <=> Settled
  <2> SUFFICES ASSUME queue # <<>> PROVE pc'[Head(queue)] = pc[Head(queue)]
    BY DEF Settled
  <2>1. Head(queue) = queue[1] /\ 1 \in 1..Len(queue)
    BY EmptySeq DEF TypeOK
  <2> QED
    BY <1>1, <1>2, <2>1
<1>5. ASSUME NEW q \in Op PROVE CallInv(q)'
  <2>1. CallInv(q)
    OBVIOUS
  <2>2. CASE q = o
    BY <2>1, <2>2 DEF CallInv, LabelInv, HandInv, ConnectInv, ReconnectInv, ForwardInv, Holds,
                      Kinds, Locked
  <2>3. CASE q # o
    BY <1>1, <2>1, <2>3 DEF CallInv, LabelInv, HandInv, ConnectInv, ReconnectInv, ForwardInv, Holds
  <2> QED
    BY <2>2, <2>3
<1> QED
  BY <1>3, <1>4, <1>5

\* A sweep removes rules only, and the way out takes the forward off the record.
LEMMA UnlockedInv ==
  ASSUME SessionInv, NEW o \in Op, ReadOwned(o) \/ Sweep(o) \/ ReleaseForward(o)
  PROVE  SessionInv'
<1> USE DEF SessionInv
<1>1. kind[o] \in Kinds \ Locked /\ pc[o] \in {"start", "list"}
      /\ (kind[o] = "release" => pc[o] = "start")
  BY DEF ReadOwned, Sweep, ReleaseForward, At, Kinds, Locked
<1>2. /\ pc' = [pc EXCEPT ![o] = pc'[o]] /\ pc'[o] \in {"list", "over"}
      /\ kind[o] = "release" => pc'[o] = "over"
      /\ UNCHANGED <<kind, queue, held, launched, status, client, plan, closed, agent, instances>>
  BY <1>1 DEF ReadOwned, Sweep, ReleaseForward, At, Goto, Return, Locked, Kinds, TypeOK, sessionVars,
              outsideVars, historyVars
<1>3. RulesAreAccounted' /\ forward' \in {forward, None}
      /\ rules' \in SUBSET Port /\ stray' \in SUBSET Port
  <2>1. CASE ReadOwned(o)
    BY <2>1 DEF ReadOwned, sessionVars, outsideVars, historyVars, RulesAreAccounted, TypeOK
  <2>2. CASE Sweep(o)
    BY <1>2, <2>2 DEF Sweep, sessionVars, historyVars, RulesAreAccounted, TypeOK
  <2>3. CASE ReleaseForward(o)
    BY <2>3, TakeForwardAccounts DEF ReleaseForward
  <2> QED
    BY <2>1, <2>2, <2>3
<1>4. LockInv' /\ (\A q \in Op : CallInv(q)') /\ (Settled' <=> Settled)
  BY <1>1, <1>2, <1>3, StepWithoutLock
<1>5. TypeOK'
  <2>1. CASE ReadOwned(o)
    BY <2>1, <1>2, <1>3 DEF ReadOwned, Goto, sessionVars, outsideVars, historyVars, TypeOK
  <2>2. CASE Sweep(o)
    BY <2>2, <1>2, <1>3 DEF Sweep, Return, sessionVars, historyVars, TypeOK
  <2>3. CASE ReleaseForward(o)
    BY <2>3, <1>2, <1>3 DEF ReleaseForward, Return, TypeOK
  <2> QED
    BY <2>1, <2>2, <2>3
<1>6. ConsistentWhenSettled' /\ Counted' /\ ClosedIsFinal'
  BY <1>2, <1>4 DEF ConsistentWhenSettled, Counted, ClosedIsFinal
<1> QED
  BY <1>3, <1>4, <1>5, <1>6

\* A call begins: it waits for the lock, or does not need it.
LEMMA CallStepInv == ASSUME SessionInv, NEW o \in Op, NEW k \in Kinds, Call(o, k) PROVE SessionInv'
<1> USE DEF SessionInv
<1>1. LockInv' /\ queue' \in Seq(Op) /\ (Settled' => Settled)
  BY CallKeepsLock
<1>2. CallInv(o)' /\ k # None
  <2>1. CallInv(o) /\ k # None
    BY SessionAssumption
  <2> QED
    BY <2>1 DEF Call, TypeOK, CallInv, LabelInv, HandInv, ConnectInv, ReconnectInv, ForwardInv, Holds,
                Locked, Kinds
<1>3. ASSUME NEW q \in Op PROVE CallInv(q)'
  <2>1. CASE q = o
    BY <1>2, <2>1
  <2>2. CASE q # o
    <3>1. /\ pc'[q] = pc[q] /\ kind'[q] = kind[q] /\ held'[q] = held[q]
          /\ launched'[q] = launched[q] /\ CallInv(q)
      BY <2>2 DEF Call, TypeOK
    <3> QED
      BY <3>1 DEF Call, CallInv, LabelInv, HandInv, ConnectInv, ReconnectInv, ForwardInv, Holds,
                  sessionVars, historyVars
  <2> QED
    BY <2>1, <2>2
<1>4. TypeOK'
  BY <1>1 DEF Call, TypeOK, sessionVars, outsideVars, historyVars
<1>5. ConsistentWhenSettled' /\ RulesAreAccounted' /\ Counted' /\ ClosedIsFinal'
  BY <1>1 DEF Call, ConsistentWhenSettled, RulesAreAccounted, Counted, ClosedIsFinal,
              sessionVars, outsideVars, historyVars
<1> QED
  BY <1>1, <1>3, <1>4, <1>5

\* The world outside: rules vanish, the Agent dies, never another way round.
LEMMA OutsideInv == ASSUME SessionInv, Outside PROVE SessionInv'
<1> USE DEF SessionInv, Outside, LinkLost, AdbdRestarts, AgentDies, Unplug, Replug, Event, StopAgent
<1>1. UNCHANGED <<sessionVars, queue, kind, pc, held, launched, keep, result, historyVars>>
  BY DEF historyVars
<1>2. rules' \subseteq rules /\ agent' \in {agent, None}
  OBVIOUS
<1>3. TypeOK'
  <2>1. events' \in 0..MaxEvents
    BY SessionAssumption DEF TypeOK
  <2>2. online' \in BOOLEAN /\ alive' \in BOOLEAN
    BY DEF TypeOK
  <2> QED
    BY <1>1, <1>2, <2>1, <2>2 DEF TypeOK, sessionVars, historyVars
<1>4. LockInv' /\ ConsistentWhenSettled' /\ RulesAreAccounted' /\ Counted'
  BY <1>1, <1>2 DEF LockInv, ConsistentWhenSettled, Settled, RulesAreAccounted, Counted, sessionVars,
                    historyVars
<1>5. ASSUME NEW q \in Op PROVE CallInv(q)'
  <2>1. CallInv(q)
    OBVIOUS
  <2> QED
    BY <1>1, <2>1 DEF CallInv, LabelInv, HandInv, ConnectInv, ReconnectInv, ForwardInv, Holds,
                      sessionVars, historyVars
<1>6. ClosedIsFinal'
  BY <1>1, <1>2 DEF ClosedIsFinal, sessionVars, historyVars
<1> QED
  BY <1>3, <1>4, <1>5, <1>6

\* Every step of the session keeps the invariant.
LEMMA NextSessionInv == SessionInv /\ [Next]_vars => SessionInv'
<1> SUFFICES ASSUME SessionInv, [Next]_vars PROVE SessionInv'
  OBVIOUS
<1>1. CASE UNCHANGED vars
  <2> USE <1>1 DEF SessionInv, vars, sessionVars, outsideVars, historyVars
  <2>1. TypeOK' /\ Counted' /\ LockInv'
    BY DEF TypeOK, Counted, LockInv
  <2>2. \A q \in Op : CallInv(q)'
    BY DEF CallInv, LabelInv, HandInv, ConnectInv, ReconnectInv, ForwardInv, Holds
  <2>3. ConsistentWhenSettled' /\ RulesAreAccounted' /\ ClosedIsFinal'
    BY DEF ConsistentWhenSettled, Settled, RulesAreAccounted, ClosedIsFinal
  <2> QED
    BY <2>1, <2>2, <2>3
<1>2. ASSUME NEW o \in Op, NEW k \in Kinds, Call(o, k) PROVE SessionInv'
  BY <1>2, CallStepInv
<1>3. ASSUME NEW o \in Op, Connecting(o) PROVE SessionInv'
  BY <1>3, BeginConnectInv, EnsureOnlineInv, StartAgentInv, StartFailsInv, HandshakeConnectInv,
     CommitInv, ConnectFailsInv, RecoverInv DEF Connecting
<1>4. ASSUME NEW o \in Op, Reconnecting(o) PROVE SessionInv'
  BY <1>4, BeginReconnectInv, WaitOnlineInv, HandshakeReconnectInv, ReconnectFailsInv
  DEF Reconnecting
<1>5. ASSUME NEW o \in Op, Running(o) PROVE SessionInv'
  BY <1>3, <1>4, <1>5, ForwardStepInv, ForwardFailsInv, RecordInv, CloseInv, DiagnoseInv, UnlockedInv
  DEF Running
<1>6. CASE Outside
  BY <1>6, OutsideInv
<1> QED
  BY <1>1, <1>2, <1>5, <1>6 DEF Next

-----------------------------------------------------------------------------
\* The inductive invariant holds in every state of the session.
THEOREM SessionInvariance == Spec => []SessionInv
BY InitSessionInv, NextSessionInv, PTL DEF Spec

\* Type correctness: in particular no more Agents are started than connects run.
THEOREM SessionTypeCorrect == Spec => []TypeOK
<1>1. SessionInv => TypeOK
  BY DEF SessionInv
<1> QED
  BY <1>1, SessionInvariance, PTL

\* No two calls are past the operation lock (the tokio Mutex of agent_manager.rs).
OneHolder == \A o, q \in Op : Holds(o) /\ Holds(q) => o = q

THEOREM OneHolderAtATime == Spec => []OneHolder
<1>1. SessionInv => OneHolder
  BY HolderIsHead DEF OneHolder
<1> QED
  BY <1>1, SessionInvariance, PTL

\* Between the operations the status, the client and the plan agree, whichever
\* of them failed halfway (agent_manager.rs).
THEOREM AlwaysConsistentWhenSettled == Spec => []ConsistentWhenSettled
<1>1. SessionInv => ConsistentWhenSettled
  BY DEF SessionInv
<1> QED
  BY <1>1, SessionInvariance, PTL

\* No rule of adb is lost sight of but by a kill of the desktop, a removal or a forward
\* that adb answered with an error and a reconnect that failed, though sweeps and the
\* way out do not wait for the lock.
THEOREM RulesAreAlwaysAccounted == Spec => []RulesAreAccounted
<1>1. SessionInv => RulesAreAccounted
  BY DEF SessionInv
<1> QED
  BY <1>1, SessionInvariance, PTL

\* A reconnect that waited for the lock does not revive a session that was
\* closed meanwhile: the Agent of the plan it holds is gone for good.
THEOREM NeverRevived == Spec => []NoRevival
<1>1. SessionInv => NoRevival
  BY DEF SessionInv, ClosedIsFinal, NoRevival
<1> QED
  BY <1>1, SessionInvariance, PTL

\* Of many calls that fail together only the first touches the session: a
\* reconnect never takes away a client that answers.
THEOREM ReconnectAlwaysSparesHealthy == Spec => ReconnectSparesHealthy
<1> DEFINE Spares == \A o \in Op : kind[o] = "reconnect" /\ pc[o] # pc'[o] /\ Healthy => client' = client
<1>1. SessionInv /\ [Next]_vars => [Spares]_vars
  <2> SUFFICES ASSUME SessionInv, Next, NEW o \in Op, kind[o] = "reconnect", pc[o] # pc'[o],
                      client # None, alive
               PROVE  client' = client
    BY DEF Healthy
  <2>1. CallInv(o) /\ TypeOK
    BY DEF SessionInv
  <2>2. ~Holds(o)
    BY <2>1 DEF CallInv, ReconnectInv
  <2>3. kind[o] # None /\ pc[o] # "idle"
    BY <2>1, SessionAssumption DEF CallInv, LabelInv, Kinds
  <2>4. ASSUME NEW q \in Op, NEW k \in Kinds, Call(q, k) PROVE client' = client
    BY <2>4 DEF Call, sessionVars
  <2>5. ASSUME NEW q \in Op, Running(q) PROVE q = o
    <3>1. \A r \in Op \ {q} : pc'[r] = pc[r]
      BY <2>1, <2>5 DEF TypeOK, Goto, Return, Running, Connecting, Reconnecting, BeginConnect,
         EnsureOnline, StartAgent, StartFails, HandshakeConnect, Commit, ConnectFails, Recover,
         BeginReconnect, WaitOnline, HandshakeReconnect, ReconnectFails, Forward, ForwardFails,
         Record, Disconnect, DeviceGone, Diagnose, ReadOwned, Sweep, ReleaseForward
    <3> QED
      BY <3>1
  <2>6. ASSUME Running(o) PROVE BeginReconnect(o)
    <3>1. pc[o] = "lock"
      BY <2>1, <2>2, <2>3, <2>6, SessionAssumption DEF Holds, Locked, Kinds, Running, Connecting, Reconnecting,
         BeginConnect, EnsureOnline, StartAgent, StartFails, HandshakeConnect, Commit, ConnectFails,
         Recover, BeginReconnect, WaitOnline, HandshakeReconnect, ReconnectFails, Forward,
         ForwardFails, Record, Disconnect, DeviceGone, Diagnose, ReadOwned, Sweep, ReleaseForward, At
    <3> QED
      BY <3>1, <2>6 DEF Running, Connecting, Reconnecting,
         BeginConnect, EnsureOnline, StartAgent, StartFails, HandshakeConnect, Commit, ConnectFails,
         Recover, WaitOnline, HandshakeReconnect, ReconnectFails, Forward,
         ForwardFails, Record, Disconnect, DeviceGone, Diagnose, ReadOwned, Sweep, ReleaseForward, At
  <2>7. ASSUME BeginReconnect(o) PROVE client' = client
    BY <2>7 DEF BeginReconnect, Healthy
  <2>8. CASE Outside
    BY <2>8 DEF Outside, LinkLost, AdbdRestarts, AgentDies, Unplug, Replug, Event, sessionVars
  <2> QED
    BY <2>4, <2>5, <2>6, <2>7, <2>8 DEF Next
<1>2. Spec => [][Spares]_vars
  BY <1>1, SessionInvariance, PTL DEF Spec
<1> QED
  BY <1>2 DEF ReconnectSparesHealthy
================================================================================
