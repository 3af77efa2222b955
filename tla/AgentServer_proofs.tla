-------------------------- MODULE AgentServer_proofs --------------------------
(***************************************************************************)
(* What the ledger of the Agent (OperationLedger) and the Agent process    *)
(* around it (AgentServer) promise for any number of connections, attempts *)
(* and starts and for every grace period.  That the Agent decides to leave *)
(* only after a whole grace period without a client is not inductive: the  *)
(* invariant relates zero_since, by which the watchdog decides, to the     *)
(* time that really passed since a poll saw a client.                      *)
(***************************************************************************)
EXTENDS AgentServer, FiniteSetTheorems, TLAPS

-----------------------------------------------------------------------------
(* OperationLedger: why a retry that comes in time is answered from the    *)
(* ledger, for any number of operations and attempts and for every cap and *)
(* TTL.  The heart is the eviction: prune gives an entry up before its     *)
(* time only for Cap entries that are not older, and then the retry was    *)
(* not in time.                                                            *)

\* An entry is as old as its operation was remembered long ago.
EntryIsTrue == \A o \in Op : age[o] # Never => age[o] = done[o]

\* What is still to be known is in the ledger.
KnownIsThere == \A o \in Op : StillKnown(o) => age[o] # Never

LateIsOver == \A a \in late : pc[a] = "over" /\ answer[a] = "replayed"

LedgerInv ==
  /\ age \in [Op -> Ages] /\ done \in [Op -> Ages]
  /\ pc \in [Attempt -> {"idle", "over"} \cup InProgress]
  /\ answer \in [Attempt -> Answers \cup {"none"}]
  /\ opOf \in [Attempt -> Op \cup {Never}]
  /\ late \in SUBSET Attempt
  /\ \A a \in Attempt : pc[a] \in InProgress => opOf[a] \in Op
  /\ EntryIsTrue
  /\ KnownIsThere
  /\ LateIsOver

\* The operations remembered no longer ago than o, in a history h.
Newer(h, o) == {d \in Op \ {o} : h[d] # Never /\ h[d] <= h[o]}

-----------------------------------------------------------------------------
\* prune changes nothing in what it keeps (OperationLedger::prune).
LEMMA PruneKeepsAges ==
  ASSUME NEW ledger \in [Op -> Ages], NEW left \in Prune(ledger)
  PROVE  /\ left \in [Op -> Ages]
         /\ \A o \in Op : left[o] \in {ledger[o], Never}
BY DEF Prune, Ages

\* prune gives up an entry that is young enough only for Cap others that are
\* not older (the sort by age and the truncation in prune).
LEMMA PruneEvictsTheOldest ==
  ASSUME NEW ledger \in [Op -> Ages], NEW left \in Prune(ledger),
         NEW o \in Op, Fresh(ledger[o]), left[o] = Never
  PROVE  Cardinality(Newer(ledger, o)) >= Cap
<1> DEFINE young == {d \in Op : Fresh(ledger[d])}
           Size(n) == {k \in SUBSET young : Cardinality(k) = n}
           kept == IF Cardinality(young) <= Cap THEN {young}
                   ELSE {k \in Size(Cap) : \A p \in k, d \in young \ k : ledger[p] <= ledger[d]}
<1>1. PICK k \in kept : left = [d \in Op |-> IF d \in k THEN ledger[d] ELSE Never]
  BY DEF Prune
<1>2. o \in young /\ ledger[o] # Never
  BY DEF Fresh
<1>3. o \notin k
  BY <1>1, <1>2
<1>4. k \in Size(Cap) /\ \A p \in k, d \in young \ k : ledger[p] <= ledger[d]
  BY <1>2, <1>3
<1>5. k \subseteq Newer(ledger, o)
  BY <1>2, <1>3, <1>4 DEF Newer, Fresh
<1>6. IsFiniteSet(Newer(ledger, o))
  BY LedgerAssumption, FS_Subset DEF Newer
<1>7. Cardinality(k) <= Cardinality(Newer(ledger, o)) /\ Cardinality(k) = Cap
  BY <1>4, <1>5, <1>6, FS_Subset
<1>8. Cardinality(Newer(ledger, o)) \in Nat
  BY <1>6, FS_CardinalityType
<1> QED
  BY <1>7, <1>8, LedgerAssumption

\* When nobody was remembered again, more is not still known than before.
LEMMA NewerGrows ==
  ASSUME NEW h, NEW g, NEW o \in Op,
         \A d \in Op \ {o} : h[d] # Never /\ h[d] <= h[o] => g[d] # Never /\ g[d] <= g[o]
  PROVE  /\ Cardinality(Newer(h, o)) <= Cardinality(Newer(g, o))
         /\ Cardinality(Newer(h, o)) \in Nat /\ Cardinality(Newer(g, o)) \in Nat
<1>1. Newer(h, o) \subseteq Newer(g, o)
  BY DEF Newer
<1>2. IsFiniteSet(Newer(g, o)) /\ IsFiniteSet(Newer(h, o))
  BY LedgerAssumption, FS_Subset DEF Newer
<1> QED
  BY <1>1, <1>2, FS_Subset, FS_CardinalityType

-----------------------------------------------------------------------------
\* The ledger is empty at first.
LEMMA LedgerInitInv == LedgerInit => LedgerInv
<1> SUFFICES ASSUME LedgerInit PROVE LedgerInv
  OBVIOUS
<1>1. \A o \in Op : ~StillKnown(o)
  BY DEF LedgerInit, StillKnown, Fresh
<1> QED
  BY <1>1 DEF LedgerInit, LedgerInv, EntryIsTrue, KnownIsThere, LateIsOver, Ages, Answers, InProgress

\* Pruning after nothing or after the operation p was remembered anew: what is
\* still known stays in the ledger (lookup and remember both prune).
LEMMA PruneKeepsKnown ==
  ASSUME LedgerInv, NEW ledger \in [Op -> Ages], NEW h \in [Op -> Ages],
         \A o \in Op : ledger[o] # Never => ledger[o] = h[o],
         \A o \in Op : Fresh(h[o]) /\ Cardinality(Newer(h, o)) < Cap => ledger[o] # Never,
         age' \in Prune(ledger), done' = h
  PROVE  age' \in [Op -> Ages] /\ EntryIsTrue' /\ KnownIsThere'
<1>1. age' \in [Op -> Ages] /\ \A o \in Op : age'[o] \in {ledger[o], Never}
  BY PruneKeepsAges
<1>2. EntryIsTrue'
  BY <1>1 DEF EntryIsTrue
<1>3. KnownIsThere'
  <2> SUFFICES ASSUME NEW o \in Op, Fresh(h[o]), Cardinality(Newer(h, o)) < Cap, age'[o] = Never
               PROVE  FALSE
    BY DEF KnownIsThere, StillKnown, Newer
  <2>1. ledger[o] = h[o] /\ Fresh(ledger[o])
    OBVIOUS
  <2>2. Cardinality(Newer(ledger, o)) >= Cap
    BY <2>1, PruneEvictsTheOldest
  <2>3. \A d \in Op \ {o} : ledger[d] # Never /\ ledger[d] <= ledger[o] => h[d] # Never /\ h[d] <= h[o]
    BY <2>1
  <2>4. /\ Cardinality(Newer(ledger, o)) <= Cardinality(Newer(h, o))
        /\ Cardinality(Newer(ledger, o)) \in Nat /\ Cardinality(Newer(h, o)) \in Nat
    BY <2>3, NewerGrows
  <2> QED
    BY <2>2, <2>4, LedgerAssumption
<1> QED
  BY <1>1, <1>2, <1>3

\* The step that makes an attempt late finds the entry.
LEMMA ReceiveInv ==
  ASSUME LedgerInv, NEW a \in Attempt, NEW o \in Op, Receive(a, o)
  PROVE  LedgerInv'
<1> USE DEF LedgerInv
<1>1. age' \in [Op -> Ages] /\ EntryIsTrue' /\ KnownIsThere'
  <2>1. \A p \in Op : Fresh(done[p]) /\ Cardinality(Newer(done, p)) < Cap => age[p] # Never
    BY DEF KnownIsThere, StillKnown, Newer
  <2> QED
    BY <2>1, PruneKeepsKnown DEF Receive, EntryIsTrue
<1>2. StillKnown(o) => Hit(o)
  BY DEF KnownIsThere, EntryIsTrue, StillKnown, Hit
<1>3. a \notin late
  BY DEF Receive, LateIsOver
<1>4. LateIsOver'
  BY <1>2, <1>3 DEF Receive, Answer, LateIsOver
<1>5. /\ pc' \in [Attempt -> {"idle", "over"} \cup InProgress]
      /\ answer' \in [Attempt -> Answers \cup {"none"}]
      /\ opOf' \in [Attempt -> Op \cup {Never}]
      /\ late' \in SUBSET Attempt
      /\ \A b \in Attempt : pc'[b] \in InProgress => opOf'[b] \in Op
  BY DEF Receive, Answer, Answers, InProgress
<1> QED
  BY <1>1, <1>4, <1>5 DEF Receive

\* Remembering an operation makes it the newest one; for the others there is one
\* more that is newer.
LEMMA RememberInv ==
  ASSUME LedgerInv, NEW a \in Attempt, pc[a] \in InProgress,
         NEW what \in Answers, Remember(a, what)
  PROVE  LedgerInv'
<1> DEFINE o == opOf[a]
           ledger == [age EXCEPT ![o] = 0]
           h == [done EXCEPT ![o] = 0]
<1> USE DEF LedgerInv
<1>1. o \in Op
  OBVIOUS
<1>2. 0 \in Ages /\ 0 # Never
  BY LedgerAssumption DEF Ages
<1>3. ledger \in [Op -> Ages] /\ h \in [Op -> Ages]
  BY <1>1, <1>2
<1>4. \A p \in Op : ledger[p] # Never => ledger[p] = h[p]
  BY <1>1 DEF EntryIsTrue
<1>5. ASSUME NEW p \in Op, Fresh(h[p]), Cardinality(Newer(h, p)) < Cap
      PROVE  ledger[p] # Never
  <2>1. CASE p = o
    BY <1>1, <1>2, <2>1
  <2>2. CASE p # o
    <3>1. \A d \in Op \ {p} : done[d] # Never /\ done[d] <= done[p] => h[d] # Never /\ h[d] <= h[p]
      BY <1>1, <1>2, <1>5, <2>2, LedgerAssumption DEF Fresh, Ages
    <3>2. Cardinality(Newer(done, p)) < Cap
      <4> HIDE DEF h
      <4>1. /\ Cardinality(Newer(done, p)) <= Cardinality(Newer(h, p))
            /\ Cardinality(Newer(done, p)) \in Nat /\ Cardinality(Newer(h, p)) \in Nat
        BY <3>1, NewerGrows
      <4> QED
        BY <1>5, <4>1, LedgerAssumption
    <3>3. StillKnown(p)
      BY <1>1, <1>5, <2>2, <3>2 DEF StillKnown, Newer
    <3> QED
      BY <1>1, <2>2, <3>3 DEF KnownIsThere
  <2> QED
    BY <2>1, <2>2
<1>6. age' \in [Op -> Ages] /\ EntryIsTrue' /\ KnownIsThere'
  BY <1>3, <1>4, <1>5, PruneKeepsKnown DEF Remember
<1>7. a \notin late
  BY DEF LateIsOver, InProgress
<1>8. LateIsOver'
  BY <1>7 DEF Remember, Answer, LateIsOver
<1>9. /\ pc' \in [Attempt -> {"idle", "over"} \cup InProgress]
      /\ answer' \in [Attempt -> Answers \cup {"none"}]
      /\ \A b \in Attempt : pc'[b] \in InProgress => opOf'[b] \in Op
  BY DEF Remember, Answer, InProgress
<1> QED
  BY <1>3, <1>6, <1>8, <1>9 DEF Remember

\* Time ages entries and history alike.
LEMMA AgeInv == ASSUME LedgerInv, Age PROVE LedgerInv'
<1> USE DEF LedgerInv, Age
<1>1. \A t \in Ages : Older(t) \in Ages /\ (Older(t) = Never <=> t = Never)
  BY LedgerAssumption DEF Older, Ages
<1>2. age' \in [Op -> Ages] /\ done' \in [Op -> Ages]
  BY <1>1
<1>3. EntryIsTrue'
  BY <1>1 DEF EntryIsTrue
<1>4. KnownIsThere'
  <2> SUFFICES ASSUME NEW o \in Op, Fresh(done'[o]), Cardinality(Newer(done', o)) < Cap
               PROVE  age'[o] # Never
    BY DEF KnownIsThere, StillKnown, Newer
  <2>1. Fresh(done[o]) /\ done[o] \in 0..Ttl
    BY LedgerAssumption DEF Fresh, Older, Ages
  <2>2. \A d \in Op \ {o} : done[d] # Never /\ done[d] <= done[o] => done'[d] # Never /\ done'[d] <= done'[o]
    BY <2>1, LedgerAssumption DEF Older, Ages
  <2>3. Cardinality(Newer(done, o)) < Cap
    BY <2>2, NewerGrows, LedgerAssumption
  <2>4. StillKnown(o)
    BY <2>1, <2>3 DEF StillKnown, Newer
  <2> QED
    BY <1>1, <2>4 DEF KnownIsThere
<1>5. LateIsOver'
  BY DEF LateIsOver
<1> QED
  BY <1>2, <1>3, <1>4, <1>5

\* The handlers of the end: nobody who was late is still in progress.
LEMMA DropInv == ASSUME LedgerInv, NEW A \in SUBSET Attempt, Drop(A) PROVE LedgerInv'
<1> USE DEF LedgerInv, Drop
<1>1. age' \in [Op -> Ages] /\ done' \in [Op -> Ages] /\ EntryIsTrue' /\ KnownIsThere'
  BY DEF EntryIsTrue, KnownIsThere, StillKnown
<1>2. LateIsOver'
  BY DEF LateIsOver, InProgress
<1>3. /\ pc' \in [Attempt -> {"idle", "over"} \cup InProgress]
      /\ answer' \in [Attempt -> Answers \cup {"none"}]
      /\ \A b \in Attempt : pc'[b] \in InProgress => opOf'[b] \in Op
  BY DEF Answers, InProgress
<1> QED
  BY <1>1, <1>2, <1>3

\* A restart of the Agent forgets the ledger and its attempts.
LEMMA ForgetInv == ASSUME LedgerInv, Forget PROVE LedgerInv'
<1> USE DEF LedgerInv, Forget
<1>1. \A o \in Op : age'[o] = Never /\ ~StillKnown(o)'
  BY DEF StillKnown, Fresh
<1>2. EntryIsTrue' /\ KnownIsThere' /\ LateIsOver'
  BY <1>1 DEF EntryIsTrue, KnownIsThere, LateIsOver
<1>3. /\ age' \in [Op -> Ages] /\ done' \in [Op -> Ages]
      /\ pc' \in [Attempt -> {"idle", "over"} \cup InProgress]
      /\ answer' \in [Attempt -> Answers \cup {"none"}]
      /\ \A b \in Attempt : pc'[b] \in InProgress => opOf'[b] \in Op
  BY DEF Ages, Answers, InProgress
<1> QED
  BY <1>2, <1>3

-----------------------------------------------------------------------------
\* No step of anybody breaks the invariant.
LEMMA LedgerNextInv == LedgerInv /\ [LedgerNext]_ledgerVars => LedgerInv'
<1> SUFFICES ASSUME LedgerInv, [LedgerNext]_ledgerVars PROVE LedgerInv'
  OBVIOUS
<1>1. CASE \E a \in Attempt, o \in Op : Receive(a, o)
  BY <1>1, ReceiveInv
<1>2. ASSUME NEW a \in Attempt, NothingToDo(a) \/ Finish(a) \/ FinishUnverified(a)
      PROVE  LedgerInv'
  <2>1. pc[a] \in InProgress
    BY <1>2 DEF NothingToDo, Finish, FinishUnverified, InProgress
  <2> QED
    BY <1>2, <2>1, RememberInv DEF NothingToDo, Finish, FinishUnverified, Answers
<1>3. ASSUME NEW a \in Attempt, Guard(a) \/ Act(a) \/ Refused(a)
      PROVE  LedgerInv'
  <2> USE <1>3 DEF LedgerInv, Guard, Act, Refused, Answer
  <2>1. age' = age /\ done' = done /\ late' = late /\ opOf' = opOf
    OBVIOUS
  <2>2. EntryIsTrue' /\ KnownIsThere'
    BY <2>1 DEF EntryIsTrue, KnownIsThere, StillKnown
  <2>3. a \notin late
    BY DEF LateIsOver
  <2>4. LateIsOver'
    BY <2>1, <2>3 DEF LateIsOver
  <2>5. /\ pc' \in [Attempt -> {"idle", "over"} \cup InProgress]
        /\ answer' \in [Attempt -> Answers \cup {"none"}]
        /\ \A b \in Attempt : pc'[b] \in InProgress => opOf'[b] \in Op
    BY DEF Answers, InProgress
  <2> QED
    BY <2>1, <2>2, <2>4, <2>5
<1>4. CASE \E A \in SUBSET Attempt : Drop(A)
  BY <1>4, DropInv
<1>5. CASE Age
  BY <1>5, AgeInv
<1>6. CASE Forget
  BY <1>6, ForgetInv
<1>7. CASE UNCHANGED ledgerVars
  BY <1>7 DEF ledgerVars, LedgerInv, EntryIsTrue, KnownIsThere, StillKnown, LateIsOver
<1> QED
  BY <1>1, <1>2, <1>3, <1>4, <1>5, <1>6, <1>7 DEF LedgerNext, Work

\* The invariant of the ledger holds in every reachable state.
THEOREM LedgerInvariance == LedgerSpec => []LedgerInv
BY LedgerInitInv, LedgerNextInv, PTL DEF LedgerSpec

\* A retry within the TTL and before Cap newer operations is answered as
\* "replayed" and does not act (operations.rs).
THEOREM RetryIsAlwaysReplayed == LedgerSpec => []RetryIsReplayed
<1>1. LedgerInv => RetryIsReplayed
  BY DEF LedgerInv, LateIsOver, RetryIsReplayed
<1> QED
  BY <1>1, LedgerInvariance, PTL

-----------------------------------------------------------------------------
(* AgentServer: the clients that are counted, and the decision to leave. *)

Attending == {c \in Conn : conn[c] = "attending"}

\* The count of clients is the number of connections that attend, whichever way
\* a connection ends (Attendance in presence.rs gives its place back on drop).
LiveIsExact == live = Cardinality(Attending)

\* zero_since never lies further back than the last poll that saw a client.
ZeroIsRecent == zeroFor # NotEmpty => zeroFor <= sinceSeen

ServerTypes ==
  /\ agent \in {"running", "gone"}
  /\ conn \in [Conn -> {"none", "open", "greeted", "attending"}]
  /\ watchdog \in {"due", "sleep", "decided", "cleaned"}
  /\ zeroFor \in 0..Grace \cup {NotEmpty}
  /\ sinceSeen \in 0..Grace
  /\ starts \in 0..MaxStarts

IInv ==
  /\ ServerTypes
  /\ LiveIsExact
  /\ ZeroIsRecent
  /\ DecidesAfterWholeGrace

-----------------------------------------------------------------------------
\* Nothing but the connections matters to the count.
LEMMA AttendingIsFinite == IsFiniteSet(Attending) /\ Cardinality(Attending) \in 0..Cardinality(Conn)
<1>1. Attending \subseteq Conn
  BY DEF Attending
<1>2. IsFiniteSet(Conn)
  BY PresenceAssumption
<1>3. IsFiniteSet(Attending) /\ Cardinality(Attending) <= Cardinality(Conn)
  BY <1>1, <1>2, FS_Subset
<1>4. Cardinality(Attending) \in Nat /\ Cardinality(Conn) \in Nat
  BY <1>2, <1>3, FS_CardinalityType
<1> QED
  BY <1>3, <1>4

\* main starts with no client and no decision (ClientPresence::new).
LEMMA InitIInv == Init => IInv
<1> SUFFICES ASSUME Init PROVE IInv
  OBVIOUS
<1> USE DEF Init, PresenceInit
<1>1. ServerTypes
  BY PresenceAssumption DEF ServerTypes
<1>2. LiveIsExact
  <2>1. Attending = {}
    BY DEF Attending
  <2> QED
    BY <2>1, FS_EmptySet DEF LiveIsExact
<1>3. ZeroIsRecent /\ DecidesAfterWholeGrace
  BY DEF ZeroIsRecent, DecidesAfterWholeGrace
<1> QED
  BY <1>1, <1>2, <1>3 DEF IInv

-----------------------------------------------------------------------------
\* A connection that moves between two states that do not attend leaves the
\* count alone (serve_connection before its guard exists).
LEMMA StepKeepsCount ==
  ASSUME IInv, NEW c \in Conn, NEW from \in {"none", "open", "greeted"},
         NEW to \in {"none", "open", "greeted"}, Step(c, from, to), UNCHANGED live
  PROVE  IInv'
<1> USE DEF IInv
<1>1. ServerTypes'
  BY DEF ServerTypes, Step
<1>2. Attending' = Attending
  BY DEF ServerTypes, Step, Attending
<1>3. LiveIsExact'
  BY <1>2 DEF LiveIsExact
<1>4. ZeroIsRecent' /\ DecidesAfterWholeGrace'
  BY DEF ZeroIsRecent, DecidesAfterWholeGrace, Step
<1> QED
  BY <1>1, <1>3, <1>4

\* A greeted client is counted once (presence.attend).
LEMMA AttendIInv == ASSUME IInv, NEW c \in Conn, Attend(c) PROVE IInv'
<1> USE DEF IInv, Attend
<1>1. ServerTypes'
  BY DEF ServerTypes, Step
<1>2. c \notin Attending /\ Attending' = Attending \cup {c}
  BY DEF ServerTypes, Step, Attending
<1>3. Cardinality(Attending') = Cardinality(Attending) + 1
  BY <1>2, AttendingIsFinite, FS_AddElement
<1>4. LiveIsExact'
  BY <1>3 DEF LiveIsExact
<1>5. ZeroIsRecent' /\ DecidesAfterWholeGrace'
  BY DEF ZeroIsRecent, DecidesAfterWholeGrace, Step
<1> QED
  BY <1>1, <1>4, <1>5

\* One that attended gives its place back once (drop of Attendance).
LEMMA LeaveIInv == ASSUME IInv, NEW c \in Conn, Leave(c) PROVE IInv'
<1> USE DEF IInv, Leave
<1>1. ServerTypes'
  BY DEF ServerTypes, Step
<1>2. c \in Attending /\ Attending' = Attending \ {c}
  BY DEF ServerTypes, Step, Attending
<1>3. Cardinality(Attending') = Cardinality(Attending) - 1
  BY <1>2, AttendingIsFinite, FS_RemoveElement
<1>4. LiveIsExact'
  BY <1>3 DEF LiveIsExact
<1>5. ZeroIsRecent' /\ DecidesAfterWholeGrace'
  BY DEF ZeroIsRecent, DecidesAfterWholeGrace, Step
<1> QED
  BY <1>1, <1>4, <1>5

\* The poll: the one step that decides, and the one that starts the period anew.
LEMMA PollIInv == ASSUME IInv, Poll PROVE IInv'
<1> USE DEF IInv, Poll
<1>1. live \in Nat
  BY AttendingIsFinite DEF LiveIsExact
<1>2. ServerTypes'
  BY PresenceAssumption DEF ServerTypes, ObservedZero
<1>3. Attending' = Attending
  BY DEF Attending
<1>4. LiveIsExact'
  BY <1>3 DEF LiveIsExact
<1>5. ZeroIsRecent'
  BY PresenceAssumption DEF ServerTypes, ZeroIsRecent, ObservedZero
<1>6. DecidesAfterWholeGrace'
  <2> SUFFICES ASSUME watchdog' \in {"decided", "cleaned"} PROVE sinceSeen' = Grace
    BY DEF DecidesAfterWholeGrace
  <2>1. live = 0 /\ zeroFor' = Grace
    OBVIOUS
  <2>2. sinceSeen' = sinceSeen
    BY <2>1
  <2>3. zeroFor' # NotEmpty
    BY <2>1, PresenceAssumption
  <2>4. zeroFor' <= sinceSeen'
    BY <1>5, <2>3 DEF ZeroIsRecent
  <2> QED
    BY <2>1, <2>2, <2>4, PresenceAssumption DEF ServerTypes
<1> QED
  BY <1>2, <1>4, <1>5, <1>6

\* The process ends, however: nobody is left to be counted.
LEMMA GoneIInv == ASSUME IInv, Gone PROVE IInv'
<1> USE DEF IInv, Gone
<1>1. ServerTypes'
  BY DEF ServerTypes
<1>2. Attending' = {}
  BY DEF Attending
<1>3. LiveIsExact'
  BY <1>2, FS_EmptySet DEF LiveIsExact
<1>4. ZeroIsRecent' /\ DecidesAfterWholeGrace'
  BY DEF ZeroIsRecent, DecidesAfterWholeGrace
<1> QED
  BY <1>1, <1>3, <1>4

-----------------------------------------------------------------------------
\* Every step of the Agent keeps the invariant.
LEMMA NextIInv == IInv /\ [Next]_vars => IInv'
<1> SUFFICES ASSUME IInv, [Next]_vars PROVE IInv'
  OBVIOUS
<1>1. CASE UNCHANGED presenceVars
  BY <1>1 DEF IInv, ServerTypes, LiveIsExact, Attending, ZeroIsRecent, DecidesAfterWholeGrace, presenceVars
<1>2. CASE \E c \in Conn : Connect(c)
  <2> PICK c \in Conn : Greet(c)
    BY <1>2 DEF Connect
  <2>1. CASE Attend(c)
    BY <2>1, AttendIInv
  <2>2. CASE Accept(c) \/ HelloSucceeds(c) \/ HelloFails(c) \/ GreetingLost(c)
    BY <2>2, StepKeepsCount DEF Accept, HelloSucceeds, HelloFails, GreetingLost
  <2> QED
    BY <2>1, <2>2 DEF Greet
<1>3. CASE \E c \in Conn : HangUp(c)
  BY <1>3, LeaveIInv DEF HangUp
<1>4. CASE TimePasses
  <2> USE <1>4 DEF IInv, TimePasses, Tick
  <2>1. ServerTypes'
    BY PresenceAssumption DEF ServerTypes
  <2>2. LiveIsExact'
    BY DEF LiveIsExact, Attending
  <2>3. ZeroIsRecent' /\ DecidesAfterWholeGrace'
    BY PresenceAssumption DEF ServerTypes, ZeroIsRecent, DecidesAfterWholeGrace
  <2> QED
    BY <2>1, <2>2, <2>3
<1>5. CASE Poll
  BY <1>5, PollIInv
<1>6. CASE RemoveSessionDir
  BY <1>6 DEF RemoveSessionDir, IInv, ServerTypes, LiveIsExact, Attending, ZeroIsRecent, DecidesAfterWholeGrace
<1>7. CASE Exit \/ Kill
  BY <1>7, GoneIInv DEF Exit, Kill, ExitProcess, Killed
<1>8. CASE StartAgent
  BY <1>8, PresenceAssumption
  DEF StartAgent, Start, IInv, ServerTypes, LiveIsExact, Attending, ZeroIsRecent, DecidesAfterWholeGrace
<1>9. CASE \E a \in Attempt : (\E o \in Op : Request(a, o)) \/ Handle(a) \/ Deadline(a)
  BY <1>1, <1>9 DEF Request, Handle, Deadline
<1> QED
  BY <1>1, <1>2, <1>3, <1>4, <1>5, <1>6, <1>7, <1>8, <1>9 DEF Next, Watchdog, Decide, vars

-----------------------------------------------------------------------------
\* The inductive invariant holds in every state of the Agent.
THEOREM Invariance == Spec => []IInv
BY InitIInv, NextIInv, PTL DEF Spec

\* Every variable of the presence has its type; live is bounded by the connections.
THEOREM PresenceTypeCorrect == Spec => []PresenceTypeOK
<1>1. IInv => PresenceTypeOK
  BY AttendingIsFinite DEF IInv, ServerTypes, LiveIsExact, PresenceTypeOK
<1> QED
  BY <1>1, Invariance, PTL

\* The count of clients is exact however connections begin and end, hang up in
\* their hello or go down with the process (presence.rs).
THEOREM LiveIsAlwaysExact == Spec => []LiveIsExact
<1>1. IInv => LiveIsExact
  BY DEF IInv
<1> QED
  BY <1>1, Invariance, PTL

\* The watchdog decides only after a whole grace period in which every poll saw
\* nobody (wait_until_should_exit).
THEOREM AlwaysDecidesAfterWholeGrace == Spec => []DecidesAfterWholeGrace
<1>1. IInv => DecidesAfterWholeGrace
  BY DEF IInv, DecidesAfterWholeGrace
<1> QED
  BY <1>1, Invariance, PTL

-----------------------------------------------------------------------------
\* The Agent as a whole is a ledger of operations: connections, the watchdog and
\* the end of the process do to it only what LedgerSpec says (router.rs, server.rs).
THEOREM ServerImplementsLedger == Spec => LedgerSpec
<1>1. Init => LedgerInit
  BY DEF Init
<1>2. [Next]_vars => [LedgerNext]_ledgerVars
  <2> SUFFICES ASSUME [Next]_vars PROVE [LedgerNext]_ledgerVars
    OBVIOUS
  <2>1. ASSUME NEW a \in Attempt, NEW o \in Op, Request(a, o) PROVE LedgerNext
    BY <2>1 DEF Request, LedgerNext
  <2>2. ASSUME NEW a \in Attempt, Handle(a) PROVE LedgerNext
    BY <2>2 DEF Handle, LedgerNext
  <2>3. ASSUME NEW a \in Attempt, Deadline(a) PROVE LedgerNext
    <3>1. {a} \in SUBSET Attempt /\ Drop({a})
      BY <2>3 DEF Deadline
    <3> QED
      BY <3>1 DEF LedgerNext
  <2>4. ASSUME NEW c \in Conn, HangUp(c) PROVE LedgerNext
    <3>1. {a \in Attempt : Carrier[a] = c} \in SUBSET Attempt
      OBVIOUS
    <3> QED
      BY <2>4, <3>1 DEF HangUp, LedgerNext
  <2>5. CASE TimePasses \/ Exit \/ Kill
    BY <2>5 DEF TimePasses, Exit, Kill, LedgerNext
  <2>6. CASE (\E c \in Conn : Connect(c)) \/ Decide \/ StartAgent
    BY <2>6 DEF Connect, Decide, StartAgent
  <2>7. CASE UNCHANGED vars
    BY <2>7 DEF vars
  <2> QED
    BY <2>1, <2>2, <2>3, <2>4, <2>5, <2>6, <2>7 DEF Next, Watchdog
<1> QED
  BY <1>1, <1>2, PTL DEF Spec, LedgerSpec

\* In the Agent, too, a retry in time is answered from the ledger, though hang-ups
\* drop handlers at any await and the process may be started anew.
THEOREM AgentReplaysRetries == Spec => []RetryIsReplayed
BY ServerImplementsLedger, RetryIsAlwaysReplayed, PTL
===============================================================================
