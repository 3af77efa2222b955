----------------------------- MODULE DeviceCall -----------------------------
(***************************************************************************)
(* What a call to the device promises, whatever happens to the connection: *)
(* it returns at most once, it acts on the device at most once, "ok" means *)
(* that it did act, "refused" that it never did and never will, and        *)
(* "unknown" leaves that open, so that a caller must not repeat a write    *)
(* blindly.                                                                *)
(***************************************************************************)
EXTENDS Naturals

CONSTANT Req

VARIABLES
  effects,   \* how often each call has acted on the device
  reply      \* what each call returned, "none" until it has

vars == <<effects, reply>>

Init ==
  /\ effects = [r \in Req |-> 0]
  /\ reply = [r \in Req |-> "none"]

\* Also after the reply: a request may be on its way when its caller gives up.
Act(r) ==
  /\ effects[r] = 0
  /\ reply[r] \in {"none", "unknown"}
  /\ effects' = [effects EXCEPT ![r] = 1]
  /\ UNCHANGED reply

Reply(r) ==
  /\ reply[r] = "none"
  /\ \/ effects[r] = 1 /\ reply' = [reply EXCEPT ![r] = "ok"]
     \/ effects[r] = 0 /\ reply' = [reply EXCEPT ![r] = "refused"]
     \/ reply' = [reply EXCEPT ![r] = "unknown"]
  /\ UNCHANGED effects

Next == \E r \in Req : Act(r) \/ Reply(r)

Spec == Init /\ [][Next]_vars
=============================================================================
