--------------------------- MODULE AgentRpc_proofs ---------------------------
(***************************************************************************)
(* That a call to the Agent keeps the promise of DeviceCall, for any       *)
(* number of calls that share the connection: whatever breaks, a call acts *)
(* at most once, and what it returned is true of that.  The invariant says *)
(* of one call at a time where its one effect can still come from.         *)
(***************************************************************************)
EXTENDS AgentRpc, TLAPS

\* Nothing on the side of the Agent can still act for the call.
Settled(r) == handler[r] \in {"none", "over"} /\ r \notin uplink

\* Before it is sent a call has left no trace but, perhaps, the loss it is told of.
UnsentIsFresh(r) == pc[r] \in {"idle", "agent", "sending"} =>
  /\ handler[r] = "none" /\ r \notin uplink /\ effects[r] = 0
  /\ channel[r] \in {"empty", "lost"}
  /\ \A v \in Verdict : <<r, v>> \notin downlink

\* Of the fallback to adb: it starts only when the Agent did not act and will not.
LegacyIsAlone(r) ==
  /\ pc[r] = "legacy" => Settled(r) /\ effects[r] = 0
  /\ pc[r] = "adb" => Settled(r) /\ effects[r] = 1

\* The request and its handler: the effect comes between running and acted.
HandlerActsOnce(r) ==
  /\ r \in uplink => handler[r] = "none" /\ effects[r] = 0
  /\ handler[r] = "running" => effects[r] = 0
  /\ handler[r] = "acted" => effects[r] = 1

\* A response on its way is the only one, and says what happened.
ResponseIsTrue(r) == \A v \in Verdict : <<r, v>> \in downlink =>
  /\ handler[r] = "over"
  /\ v = "ok" => effects[r] = 1
  /\ v = "unsupported" => effects[r] = 0 /\ pc[r] \in {"waiting", "returned"}
  /\ \A w \in Verdict : <<r, w>> \in downlink => w = v

\* The same of a response that was delivered.
ChannelIsTrue(r) ==
  /\ channel[r] \in Verdict =>
       handler[r] = "over" /\ \A v \in Verdict : <<r, v>> \notin downlink
  /\ channel[r] = "ok" => effects[r] = 1
  /\ channel[r] = "unsupported" /\ pc[r] = "waiting" => effects[r] = 0

\* What a call returned is true, and stays so.
ResultIsTrue(r) ==
  /\ pc[r] # "returned" => result[r] = "none"
  /\ result[r] \in Refusals => Settled(r) /\ effects[r] = 0
  /\ result[r] \in {"ok", "legacy"} => effects[r] = 1

CallInv(r) ==
  /\ UnsentIsFresh(r) /\ LegacyIsAlone(r) /\ HandlerActsOnce(r)
  /\ ResponseIsTrue(r) /\ ChannelIsTrue(r) /\ ResultIsTrue(r)

RpcInv == TypeOK /\ \A r \in Req : CallInv(r)

-----------------------------------------------------------------------------
\* A fresh session: nothing was sent.
LEMMA InitRpcInv == Init => RpcInv
<1> SUFFICES ASSUME Init PROVE RpcInv
  OBVIOUS
<1>1. TypeOK
  BY DEF Init, TypeOK
<1>2. ASSUME NEW r \in Req PROVE CallInv(r)
  <2>1. /\ pc[r] = "idle" /\ result[r] = "none" /\ channel[r] = "empty"
        /\ handler[r] = "none" /\ effects[r] = 0 /\ uplink = {} /\ downlink = {}
    BY DEF Init
  <2> QED
    BY <2>1 DEF CallInv, UnsentIsFresh, LegacyIsAlone, HandlerActsOnce, ResponseIsTrue,
                ChannelIsTrue, ResultIsTrue, Settled, Verdict, Refusals
<1> QED
  BY <1>1, <1>2 DEF RpcInv

\* The steps of the caller before its request is sent, and of the Legacy leg.
LEMMA RoutingInv ==
  ASSUME RpcInv, NEW q \in Req,
         Route(q) \/ NoClient(q) \/ RunLegacy(q) \/ FinishLegacy(q) \/ Register(q)
  PROVE  RpcInv'
<1> USE DEF RpcInv, Return, SelectLegacy, Route, NoClient, RunLegacy, FinishLegacy, Register,
            Results, Refusals, desktopVars, agentVars
<1>1. TypeOK'
  BY DEF TypeOK, Verdict
<1>2. ASSUME NEW r \in Req PROVE CallInv(r)'
  <2> USE DEF TypeOK
  <2>1. UnsentIsFresh(r)' /\ LegacyIsAlone(r)'
    BY DEF CallInv, UnsentIsFresh, LegacyIsAlone, Settled
  <2>2. HandlerActsOnce(r)'
    BY DEF CallInv, UnsentIsFresh, LegacyIsAlone, HandlerActsOnce, Settled
  <2>3. ResponseIsTrue(r)' /\ ChannelIsTrue(r)'
    BY DEF CallInv, UnsentIsFresh, LegacyIsAlone, ResponseIsTrue, ChannelIsTrue, Settled
  <2>4. ResultIsTrue(r)'
    BY DEF CallInv, UnsentIsFresh, LegacyIsAlone, ResultIsTrue, Settled
  <2> QED
    BY <2>1, <2>2, <2>3, <2>4 DEF CallInv
<1> QED
  BY <1>1, <1>2

\* The steps of the request: sent, refused by the socket, answered, given up.
LEMMA RequestInv ==
  ASSUME RpcInv, NEW q \in Req, Send(q) \/ SendFails(q) \/ Resolve(q) \/ GiveUp(q)
  PROVE  RpcInv'
<1> USE DEF RpcInv, Return, SelectLegacy, Send, SendFails, Resolve, GiveUp, FailAll,
            Results, Refusals, Verdict, desktopVars, agentVars
<1>1. TypeOK'
  <2>1. CASE Send(q)
    BY <2>1 DEF TypeOK
  <2>2. CASE SendFails(q)
    <3>1. channel' \in [Req -> Verdict \cup {"empty", "lost"}] /\ pending' = {}
      BY <2>2 DEF TypeOK
    <3>2. /\ pc' \in [Req -> {"idle", "agent", "sending", "waiting", "legacy", "adb", "returned"}]
          /\ result' \in [Req -> Results \cup {"none"}] /\ terminal' = TRUE
      BY <2>2 DEF TypeOK
    <3> QED
      BY <2>2, <3>1, <3>2 DEF TypeOK
  <2>3. CASE Resolve(q)
    <3>1. channel[q] \in {"ok", "remote", "unsupported", "lost"}
      BY <2>3 DEF TypeOK
    <3> QED
      BY <2>3, <3>1 DEF TypeOK
  <2>4. CASE GiveUp(q)
    BY <2>4 DEF TypeOK
  <2> QED
    BY <2>1, <2>2, <2>3, <2>4
<1>2. ASSUME NEW r \in Req PROVE CallInv(r)'
  <2> USE DEF TypeOK
  <2>1. UnsentIsFresh(r)' /\ LegacyIsAlone(r)'
    BY DEF CallInv, UnsentIsFresh, LegacyIsAlone, HandlerActsOnce, ChannelIsTrue, Settled
  <2>2. HandlerActsOnce(r)'
    BY DEF CallInv, UnsentIsFresh, HandlerActsOnce
  <2>3. ResponseIsTrue(r)'
    BY DEF CallInv, UnsentIsFresh, ResponseIsTrue, ChannelIsTrue
  <2>4. ChannelIsTrue(r)'
    BY DEF CallInv, UnsentIsFresh, ChannelIsTrue
  <2>5. ResultIsTrue(r)'
    <3>1. CASE Send(q) \/ SendFails(q)
      BY <3>1 DEF CallInv, ResultIsTrue, Settled
    <3>2. CASE Resolve(q)
      <4>1. channel[q] \in {"ok", "remote", "unsupported", "lost"}
        BY <3>2
      <4>2. CASE r = q
        <5>1. channel[q] \in Verdict => Settled(q) /\ (channel[q] = "ok" => effects[q] = 1)
          BY DEF CallInv, HandlerActsOnce, ChannelIsTrue, Settled
        <5>2. CASE channel[q] = "unsupported"
          <6>1. effects[q] = 0
            BY <3>2, <5>2 DEF CallInv, ChannelIsTrue
          <6> QED
            BY <3>2, <4>2, <5>1, <5>2, <6>1 DEF CallInv, ResultIsTrue, Settled
        <5>3. CASE channel[q] # "unsupported"
          <6>1. result'[q] = channel[q] /\ pc'[q] = "returned" /\ UNCHANGED effects
            BY <3>2, <5>3
          <6> QED
            BY <4>1, <4>2, <5>1, <5>3, <6>1 DEF ResultIsTrue
        <5> QED
          BY <5>2, <5>3
      <4>3. CASE r # q
        BY <3>2, <4>3 DEF CallInv, ResultIsTrue, Settled
      <4> QED
        BY <4>2, <4>3
    <3>3. CASE GiveUp(q)
      BY <3>3 DEF CallInv, ResultIsTrue, Settled
    <3> QED
      BY <3>1, <3>2, <3>3
  <2> QED
    BY <2>1, <2>2, <2>3, <2>4, <2>5 DEF CallInv
<1> QED
  BY <1>1, <1>2

\* The reader and the ends of the connection.
LEMMA ConnectionInv ==
  ASSUME RpcInv, Reading \/ Disconnect \/ BreakLink \/ CloseConnection
  PROVE  RpcInv'
<1> USE DEF RpcInv, Reading, Deliver, ReaderFails, Disconnect, BreakLink, CloseConnection, FailAll,
            Verdict, desktopVars, agentVars
<1>1. TypeOK'
  BY DEF TypeOK
<1>2. ASSUME NEW r \in Req PROVE CallInv(r)'
  <2> USE DEF TypeOK
  <2>1. UnsentIsFresh(r)' /\ LegacyIsAlone(r)' /\ HandlerActsOnce(r)'
    BY DEF CallInv, UnsentIsFresh, LegacyIsAlone, HandlerActsOnce, Settled
  <2>2. ResponseIsTrue(r)'
    BY DEF CallInv, ResponseIsTrue
  <2>3. ChannelIsTrue(r)'
    BY DEF CallInv, ResponseIsTrue, ChannelIsTrue
  <2>4. ResultIsTrue(r)'
    BY DEF CallInv, ResultIsTrue, Settled
  <2> QED
    BY <2>1, <2>2, <2>3, <2>4 DEF CallInv
<1> QED
  BY <1>1, <1>2

\* The steps of a handler on the Agent.
LEMMA AgentInv == ASSUME RpcInv, NEW q \in Req, Agent(q) PROVE RpcInv'
<1> USE DEF RpcInv, Agent, Accept, Execute, Respond, RespondUnsupported, RespondError,
            WriteResponse, Verdict, desktopVars, agentVars
<1>1. TypeOK'
  BY DEF TypeOK
<1>2. ASSUME NEW r \in Req PROVE CallInv(r)'
  <2> USE DEF TypeOK
  <2>1. UnsentIsFresh(r)' /\ LegacyIsAlone(r)' /\ HandlerActsOnce(r)'
    BY DEF CallInv, UnsentIsFresh, LegacyIsAlone, HandlerActsOnce, Settled
  <2>2. ResponseIsTrue(r)'
    BY DEF CallInv, UnsentIsFresh, LegacyIsAlone, HandlerActsOnce, ResponseIsTrue, Settled
  <2>3. ChannelIsTrue(r)'
    BY DEF CallInv, HandlerActsOnce, ChannelIsTrue
  <2>4. ResultIsTrue(r)'
    BY DEF CallInv, HandlerActsOnce, ResultIsTrue, Settled
  <2> QED
    BY <2>1, <2>2, <2>3, <2>4 DEF CallInv
<1> QED
  BY <1>1, <1>2

\* No step of anybody breaks the invariant.
LEMMA NextRpcInv == RpcInv /\ [Next]_vars => RpcInv'
<1> SUFFICES ASSUME RpcInv, [Next]_vars PROVE RpcInv'
  OBVIOUS
<1>1. CASE \E r \in Req : Caller(r)
  BY <1>1, RoutingInv, RequestInv DEF Caller
<1>2. CASE \E r \in Req : Agent(r)
  BY <1>2, AgentInv
<1>3. CASE Reading \/ Disconnect \/ BreakLink \/ CloseConnection
  BY <1>3, ConnectionInv
<1>4. CASE UNCHANGED vars
  BY <1>4 DEF vars, desktopVars, agentVars, RpcInv, TypeOK, CallInv, UnsentIsFresh, LegacyIsAlone,
              HandlerActsOnce, ResponseIsTrue, ChannelIsTrue, ResultIsTrue, Settled
<1> QED
  BY <1>1, <1>2, <1>3, <1>4 DEF Next

\* The invariant holds in every reachable state.
THEOREM RpcInvariance == Spec => []RpcInv
BY InitRpcInv, NextRpcInv, PTL DEF Spec

-----------------------------------------------------------------------------
\* A step that returns nothing shows its caller nothing.
LEMMA SameReplies == ASSUME UNCHANGED result PROVE UNCHANGED [r \in Req |-> Reply(r)]
BY DEF Reply

\* A call that returns replies once, and what its effect allows.
LEMMA ReturnIsReply ==
  ASSUME RpcInv, NEW q \in Req, NEW what \in Results, pc[q] # "returned",
         Return(q, what), UNCHANGED effects,
         what \in Refusals => effects[q] = 0,
         what \in {"ok", "legacy"} => effects[q] = 1
  PROVE  Call!Reply(q)
<1> DEFINE reply == [r \in Req |-> Reply(r)]
<1>1. result[q] = "none" /\ result \in [Req -> Results \cup {"none"}]
  BY DEF RpcInv, TypeOK, CallInv, ResultIsTrue
<1>2. reply[q] = "none"
  <2>1. Reply(q) = "none"
    BY <1>1 DEF Reply, Refusals
  <2> QED
    BY <2>1
<1>3. result' = [result EXCEPT ![q] = what]
  BY DEF Return
<1>4. \A r \in Req : Reply(r)' = IF r = q THEN Reply(q)' ELSE Reply(r)
  BY <1>1, <1>3 DEF Reply
<1>5. reply' = [reply EXCEPT ![q] = Reply(q)']
  BY <1>4
<1>6. result'[q] = what
  BY <1>1, <1>3
<1>7. \/ what \in {"ok", "legacy"} /\ Reply(q)' = "ok"
      \/ what \in Refusals /\ Reply(q)' = "refused"
      \/ Reply(q)' = "unknown"
  BY <1>6 DEF Reply, Results, Refusals
<1> QED
  BY <1>2, <1>5, <1>7 DEF Call!Reply

\* A call acts when it never did, and before a reply could deny it.
LEMMA EffectIsAct ==
  ASSUME RpcInv, NEW q \in Req, effects[q] = 0, result[q] \notin Refusals,
         effects' = [effects EXCEPT ![q] = @ + 1], UNCHANGED result
  PROVE  Call!Act(q)
<1>1. Reply(q) \in {"none", "unknown"}
  BY DEF RpcInv, CallInv, ResultIsTrue, Reply
<1>2. effects' = [effects EXCEPT ![q] = 1]
  BY DEF RpcInv, TypeOK
<1> QED
  BY <1>1, <1>2, SameReplies DEF Call!Act

\* Routing a call: it is refused before anything was sent, or runs the fallback.
LEMMA RoutingSteps ==
  ASSUME RpcInv, NEW q \in Req,
         Route(q) \/ NoClient(q) \/ RunLegacy(q) \/ FinishLegacy(q) \/ Register(q)
  PROVE  [Call!Next]_Call!vars
<1>1. CASE Route(q) \/ NoClient(q) \/ Register(q)
  <2>1. pc[q] \in {"idle", "agent"} /\ UNCHANGED effects
    BY <1>1 DEF Route, NoClient, Register, agentVars
  <2>2. effects[q] = 0
    BY <2>1 DEF RpcInv, CallInv, UnsentIsFresh
  <2>3. UNCHANGED result \/ \E what \in Refusals : Return(q, what)
    BY <1>1 DEF Route, NoClient, Register, SelectLegacy, Refusals
  <2>4. ASSUME NEW what \in Refusals, Return(q, what) PROVE Call!Reply(q)
    BY <2>1, <2>2, <2>4, ReturnIsReply DEF Results, Refusals
  <2> QED
    BY <2>1, <2>3, <2>4, SameReplies DEF Call!Next, Call!vars
<1>2. CASE RunLegacy(q)
  <2>1. effects[q] = 0 /\ result[q] = "none"
    BY <1>2 DEF RunLegacy, RpcInv, CallInv, LegacyIsAlone, ResultIsTrue
  <2> QED
    BY <1>2, <2>1, EffectIsAct DEF RunLegacy, Refusals, Call!Next
<1>3. CASE FinishLegacy(q)
  <2>1. pc[q] = "adb" /\ effects[q] = 1 /\ UNCHANGED effects
    BY <1>3 DEF FinishLegacy, agentVars, RpcInv, CallInv, LegacyIsAlone
  <2>2. Return(q, "legacy") \/ Return(q, "adbfailed")
    BY <1>3 DEF FinishLegacy
  <2>3. Call!Reply(q)
    BY <2>1, <2>2, ReturnIsReply DEF Results, Refusals
  <2> QED
    BY <2>3 DEF Call!Next
<1> QED
  BY <1>1, <1>2, <1>3

\* The request: its answer, its loss or the end of the caller's patience.
LEMMA RequestSteps ==
  ASSUME RpcInv, NEW q \in Req, Send(q) \/ SendFails(q) \/ Resolve(q) \/ GiveUp(q)
  PROVE  [Call!Next]_Call!vars
<1>1. pc[q] \in {"sending", "waiting"} /\ UNCHANGED effects
  BY DEF Send, SendFails, Resolve, GiveUp, agentVars
<1>2. CASE Send(q)
  BY <1>1, <1>2, SameReplies DEF Send, Call!vars
<1>3. CASE SendFails(q) \/ GiveUp(q)
  <2>1. \E what \in {"lost", "deadline", "cancelled"} : Return(q, what)
    BY <1>3 DEF SendFails, GiveUp
  <2>2. Call!Reply(q)
    BY <1>1, <2>1, ReturnIsReply DEF Results, Refusals
  <2> QED
    BY <2>2 DEF Call!Next
<1>4. CASE Resolve(q) /\ channel[q] = "unsupported"
  <2>1. effects[q] = 0
    BY <1>4 DEF Resolve, RpcInv, CallInv, ChannelIsTrue
  <2>2. UNCHANGED result \/ \E what \in Refusals : Return(q, what)
    BY <1>4 DEF Resolve, SelectLegacy, Refusals
  <2>3. ASSUME NEW what \in Refusals, Return(q, what) PROVE Call!Reply(q)
    BY <1>1, <2>1, <2>3, ReturnIsReply DEF Results, Refusals
  <2> QED
    BY <1>1, <2>2, <2>3, SameReplies DEF Call!Next, Call!vars
<1>5. CASE Resolve(q) /\ channel[q] # "unsupported"
  <2>1. channel[q] \in {"ok", "remote", "lost"} /\ Return(q, channel[q])
    BY <1>5 DEF Resolve, RpcInv, TypeOK, Verdict
  <2>2. channel[q] = "ok" => effects[q] = 1
    BY DEF RpcInv, CallInv, ChannelIsTrue
  <2>3. Call!Reply(q)
    BY <1>1, <2>1, <2>2, ReturnIsReply DEF Results, Refusals
  <2> QED
    BY <2>3 DEF Call!Next
<1> QED
  BY <1>2, <1>3, <1>4, <1>5

\* The Agent: only Execute acts, and no caller was told yet that it would not.
LEMMA AgentSteps ==
  ASSUME RpcInv, NEW q \in Req, Agent(q) PROVE [Call!Next]_Call!vars
<1>1. UNCHANGED result
  BY DEF Agent, Accept, Execute, Respond, RespondUnsupported, RespondError, WriteResponse,
         desktopVars
<1>2. CASE Execute(q)
  <2>1. effects[q] = 0 /\ result[q] \notin Refusals
    BY <1>2 DEF Execute, RpcInv, CallInv, HandlerActsOnce, ResultIsTrue, Settled
  <2> QED
    BY <1>1, <1>2, <2>1, EffectIsAct DEF Execute, Call!Next
<1>3. CASE ~Execute(q)
  BY <1>1, <1>3, SameReplies
  DEF Agent, Accept, Respond, RespondUnsupported, RespondError, WriteResponse, Call!vars
<1> QED
  BY <1>2, <1>3

\* The calls keep the promise of DeviceCall: they act at most once, and a reply
\* is true of that, however the connection breaks and whoever gives up.
THEOREM CallsKeepTheirPromise == Spec => CallSpec
<1>1. Init => Call!Init
  <2> SUFFICES ASSUME Init PROVE Call!Init
    OBVIOUS
  <2>1. ASSUME NEW r \in Req PROVE Reply(r) = "none"
    <3>1. result[r] = "none"
      BY DEF Init
    <3> QED
      BY <3>1 DEF Reply, Refusals
  <2> QED
    BY <2>1 DEF Init, Call!Init
<1>2. RpcInv /\ [Next]_vars => [Call!Next]_Call!vars
  <2> SUFFICES ASSUME RpcInv, [Next]_vars PROVE [Call!Next]_Call!vars
    OBVIOUS
  <2>1. CASE \E r \in Req : Caller(r)
    BY <2>1, RoutingSteps, RequestSteps DEF Caller
  <2>2. CASE \E r \in Req : Agent(r)
    BY <2>2, AgentSteps
  <2>3. CASE Reading \/ Disconnect \/ BreakLink \/ CloseConnection \/ UNCHANGED vars
    <3>1. UNCHANGED result /\ UNCHANGED effects
      BY <2>3 DEF Reading, Deliver, ReaderFails, Disconnect, BreakLink, CloseConnection,
                  vars, desktopVars, agentVars
    <3> QED
      BY <3>1, SameReplies DEF Call!vars
  <2> QED
    BY <2>1, <2>2, <2>3 DEF Next
<1> QED
  BY <1>1, <1>2, RpcInvariance, PTL DEF Spec, CallSpec, Call!Spec
==============================================================================
