------------------------------ MODULE AgentRpc ------------------------------
(***************************************************************************)
(* Calls from the desktop to the Agent over one connection: the routing in *)
(* CapabilityRouter, the multiplexing in AgentClient, the connection loop  *)
(* of the Agent's serve_connection after the hello, and the device that    *)
(* the handlers act on.                                                    *)
(*                                                                         *)
(* Many calls share the connection; the Agent answers them in any order.   *)
(* The connection may break at any moment, in both directions at once;     *)
(* what was already buffered may still be read.                            *)
(***************************************************************************)
EXTENDS Naturals, FiniteSets

CONSTANTS
  Req,        \* the calls
  Mutating,   \* those that change the device: OperationKind::Mutating
  Legacy,     \* those whose method has a registered Legacy ADB fallback
  TooLarge    \* those whose request does not fit into a frame

ASSUME RpcAssumption ==
  /\ Mutating \subseteq Req
  /\ Legacy \subseteq Req \ Mutating
  /\ TooLarge \subseteq Req

VARIABLES
  (* the desktop *)
  pc,         \* where each call is
  result,     \* what each call returned
  pending,    \* ClientState.pending: the calls with a waiter
  terminal,   \* ClientState.terminal_error is set
  channel,    \* the oneshot channel of each call
  reader,     \* reader_loop runs
  (* the connection *)
  linkUp,
  uplink,     \* requests on their way
  downlink,   \* responses on their way, <<call, verdict>>
  (* the Agent and the device *)
  serving,    \* serve_connection is in its loop
  handler,    \* the task that serves each call
  effects     \* how often each call has acted on the device

desktopVars == <<pc, result, pending, terminal, channel, reader>>
agentVars == <<serving, handler, effects>>
vars == <<desktopVars, linkUp, uplink, downlink, agentVars>>

Verdict == {"ok", "remote", "unsupported"}
Refusals == {"unavailable", "forbidden", "notsent"}
Results == {"ok", "remote"} \cup Refusals
             \cup {"lost", "deadline", "cancelled", "legacy", "adbfailed"}

TypeOK ==
  /\ pc \in [Req -> {"idle", "agent", "sending", "waiting", "legacy", "adb",
                 "returned"}]
  /\ result \in [Req -> Results \cup {"none"}]
  /\ pending \in SUBSET Req
  /\ terminal \in BOOLEAN
  /\ channel \in [Req -> Verdict \cup {"empty", "lost"}]
  /\ reader \in BOOLEAN
  /\ linkUp \in BOOLEAN
  /\ uplink \in SUBSET Req
  /\ downlink \in SUBSET (Req \X Verdict)
  /\ serving \in BOOLEAN
  /\ handler \in [Req -> {"none", "running", "acted", "over"}]
  /\ effects \in [Req -> Nat]

\* A fresh session: connect_client and the hello have succeeded.
Init ==
  /\ pc = [r \in Req |-> "idle"]
  /\ result = [r \in Req |-> "none"]
  /\ pending = {}
  /\ terminal = FALSE
  /\ channel = [r \in Req |-> "empty"]
  /\ reader = TRUE
  /\ linkUp = TRUE
  /\ uplink = {}
  /\ downlink = {}
  /\ serving = TRUE
  /\ handler = [r \in Req |-> "none"]
  /\ effects = [r \in Req |-> 0]

-----------------------------------------------------------------------------
(* CapabilityRouter and AgentBackend. *)

Return(r, what) ==
  /\ pc' = [pc EXCEPT ![r] = "returned"]
  /\ result' = [result EXCEPT ![r] = what]

\* select_legacy: never for a mutating call, and only with a registered leg.
SelectLegacy(r) ==
  IF r \in Mutating THEN Return(r, "forbidden")
  ELSE IF r \notin Legacy THEN Return(r, "unavailable")
  ELSE pc' = [pc EXCEPT ![r] = "legacy"] /\ UNCHANGED result

\* select: what the session status says may be out of date in both directions.
Route(r) ==
  /\ pc[r] = "idle"
  /\ \/ pc' = [pc EXCEPT ![r] = "agent"] /\ UNCHANGED result   \* Available
     \/ SelectLegacy(r)              \* AgentUnavailable, UnsupportedMethod
     \/ Return(r, "unavailable")     \* ProviderUnavailable, Incompatible
  /\ UNCHANGED <<pending, terminal, channel, reader, linkUp, uplink, downlink, agentVars>>

\* The session is gone between select and request: AgentBackendError::Unavailable,
\* and fallback_after_agent_error.
NoClient(r) ==
  /\ pc[r] = "agent"
  /\ SelectLegacy(r)
  /\ UNCHANGED <<pending, terminal, channel, reader, linkUp, uplink, downlink, agentVars>>

\* The Legacy leg is an adb command of its own.
RunLegacy(r) ==
  /\ pc[r] = "legacy"
  /\ pc' = [pc EXCEPT ![r] = "adb"]
  /\ effects' = [effects EXCEPT ![r] = @ + 1]
  /\ UNCHANGED <<result, pending, terminal, channel, reader, linkUp, uplink,
                 downlink, serving, handler>>

FinishLegacy(r) ==
  /\ pc[r] = "adb"
  /\ \/ Return(r, "legacy")
     \/ Return(r, "adbfailed")
  /\ UNCHANGED <<pending, terminal, channel, reader, linkUp, uplink, downlink, agentVars>>

-----------------------------------------------------------------------------
(* AgentClient::request_value_cancellable. *)

\* A plausible bug: the waiter is inserted without looking at terminal_error.
RegisterBlindly(r) ==
  /\ pc[r] = "agent"
  /\ pending' = pending \cup {r}
  /\ pc' = [pc EXCEPT ![r] = "sending"]
  /\ UNCHANGED <<result, terminal, channel, reader, linkUp, uplink, downlink, agentVars>>

\* One critical section: look at terminal_error, insert the waiter.
Register(r) ==
  /\ pc[r] = "agent"
  /\ IF terminal
       THEN Return(r, "notsent") /\ UNCHANGED pending
       ELSE /\ pending' = pending \cup {r}
            /\ pc' = [pc EXCEPT ![r] = "sending"]
            /\ UNCHANGED result
  /\ UNCHANGED <<terminal, channel, reader, linkUp, uplink, downlink, agentVars>>

\* fail_all: the error becomes terminal and every waiter gets it.
FailAll ==
  /\ terminal' = TRUE
  /\ pending' = {}
  /\ channel' = [r \in Req |-> IF r \in pending THEN "lost" ELSE channel[r]]

\* The socket takes the bytes of a connection that the peer has closed, too.
Send(r) ==
  /\ pc[r] = "sending"
  /\ r \notin TooLarge
  /\ pc' = [pc EXCEPT ![r] = "waiting"]
  /\ uplink' = IF linkUp THEN uplink \cup {r} ELSE uplink
  /\ UNCHANGED <<result, pending, terminal, channel, reader, linkUp, downlink, agentVars>>

\* The socket is closed, or the request does not fit into a frame.  Either way
\* the client gives up on the whole connection.
SendFails(r) ==
  /\ pc[r] = "sending"
  /\ ~linkUp \/ r \in TooLarge
  /\ Return(r, "lost")
  /\ FailAll
  /\ UNCHANGED <<reader, linkUp, uplink, downlink, agentVars>>

\* The receiver's arm of the select.  UnsupportedMethod is the one answer of
\* the Agent that fallback_after_agent_error lets through.
Resolve(r) ==
  /\ pc[r] = "waiting"
  /\ channel[r] # "empty"
  /\ IF channel[r] = "unsupported" THEN SelectLegacy(r) ELSE Return(r, channel[r])
  /\ UNCHANGED <<pending, terminal, channel, reader, linkUp, uplink, downlink, agentVars>>

\* A plausible bug: a request that timed out is sent once more.
GiveUpAndRetry(r) ==
  /\ pc[r] = "waiting"
  /\ pc' = [pc EXCEPT ![r] = "agent"]
  /\ pending' = pending \ {r}
  /\ UNCHANGED <<result, terminal, channel, reader, linkUp, uplink, downlink, agentVars>>

\* The other arms: the timeout, or the caller cancels.  PendingGuard is dropped.
GiveUp(r) ==
  /\ pc[r] = "waiting"
  /\ \/ Return(r, "deadline")
     \/ Return(r, "cancelled")
  /\ pending' = pending \ {r}
  /\ UNCHANGED <<terminal, channel, reader, linkUp, uplink, downlink, agentVars>>

-----------------------------------------------------------------------------
(* reader_loop and disconnect. *)

\* A response goes to the waiter of its request id; without one it is dropped.
Deliver(m) ==
  /\ reader
  /\ downlink' = downlink \ {m}
  /\ pending' = pending \ {m[1]}
  /\ channel' = IF m[1] \in pending THEN [channel EXCEPT ![m[1]] = m[2]] ELSE channel
  /\ UNCHANGED <<pc, result, terminal, reader, linkUp, uplink, agentVars>>

ReaderFails ==
  /\ reader
  /\ ~linkUp
  /\ reader' = FALSE
  /\ FailAll
  /\ UNCHANGED <<pc, result, linkUp, uplink, downlink, agentVars>>

\* AgentClient::disconnect.  The connection goes with the last reference to the
\* transport, which a caller that is about to send holds, too (BreakLink).
Disconnect ==
  /\ FailAll
  /\ reader' = FALSE
  /\ UNCHANGED <<pc, result, linkUp, uplink, downlink, agentVars>>

-----------------------------------------------------------------------------
(* The connection, and serve_connection on the Agent. *)

BreakLink ==
  /\ linkUp
  /\ linkUp' = FALSE
  /\ UNCHANGED <<desktopVars, uplink, downlink, agentVars>>

Accept(r) ==
  /\ serving
  /\ r \in uplink
  /\ uplink' = uplink \ {r}
  /\ handler' = [handler EXCEPT ![r] = "running"]
  /\ UNCHANGED <<desktopVars, linkUp, downlink, serving, effects>>

\* The handler acts on the device; it still has to verify and to answer.
Execute(r) ==
  /\ handler[r] = "running"
  /\ handler' = [handler EXCEPT ![r] = "acted"]
  /\ effects' = [effects EXCEPT ![r] = @ + 1]
  /\ UNCHANGED <<desktopVars, linkUp, uplink, downlink, serving>>

\* write_response: on a broken connection the answer goes nowhere.
WriteResponse(r, verdict) ==
  /\ handler' = [handler EXCEPT ![r] = "over"]
  /\ downlink' = IF linkUp THEN downlink \cup {<<r, verdict>>} ELSE downlink
  /\ UNCHANGED <<desktopVars, linkUp, uplink, serving, effects>>

Respond(r) == handler[r] = "acted" /\ WriteResponse(r, "ok")

\* The router of the Agent knows no provider for the method.
RespondUnsupported(r) == handler[r] = "running" /\ WriteResponse(r, "unsupported")

\* The provider refuses, or tokio::time::timeout drops the handler, which may
\* be between its effect and its answer.
RespondError(r) == handler[r] \in {"running", "acted"} /\ WriteResponse(r, "remote")

\* EOF or a read error: active.abort_all().
CloseConnection ==
  /\ serving
  /\ ~linkUp
  /\ serving' = FALSE
  /\ handler' = [r \in Req |-> IF handler[r] = "none" THEN "none" ELSE "over"]
  /\ UNCHANGED <<desktopVars, linkUp, uplink, downlink, effects>>

-----------------------------------------------------------------------------
Caller(r) ==
  \/ Route(r) \/ NoClient(r) \/ RunLegacy(r) \/ FinishLegacy(r)
  \/ Register(r) \/ Send(r) \/ SendFails(r) \/ Resolve(r) \/ GiveUp(r)

Reading == (\E m \in downlink : Deliver(m)) \/ ReaderFails

Agent(r) == Accept(r) \/ Execute(r) \/ Respond(r) \/ RespondUnsupported(r) \/ RespondError(r)

Next ==
  \/ \E r \in Req : Caller(r) \/ Agent(r)
  \/ Reading
  \/ Disconnect
  \/ BreakLink
  \/ CloseConnection

Spec == Init /\ [][Next]_vars

\* The reader task and the tasks of the callers are scheduled, and an adb
\* command ends.  Nothing is assumed of the Agent, and nothing of the timeouts:
\* a caller that is told of the loss of the connection is told without them.
PatientSpec ==
  /\ Spec
  /\ \A r \in Req : WF_vars(Resolve(r)) /\ WF_vars(RunLegacy(r)) /\ WF_vars(FinishLegacy(r))
  /\ WF_vars(Reading)

-----------------------------------------------------------------------------
(* Properties. *)

\* When the connection is lost, every caller that waits is told, without having
\* to wait for its timeout, also one that registers or sends at that moment: the
\* look at terminal_error and the insert share a critical section for this.
LossIsReported ==
  []<>(linkUp \/ \A r \in Req : pc[r] # "waiting")

\* The calls as their callers see them.
Reply(r) ==
  CASE result[r] = "none" -> "none"
    [] result[r] \in {"ok", "legacy"} -> "ok"
    [] result[r] \in Refusals -> "refused"
    [] OTHER -> "unknown"

Call == INSTANCE DeviceCall WITH reply <- [r \in Req |-> Reply(r)]
CallSpec == Call!Spec
=============================================================================
