----------------------------- MODULE ZygiskBridge -----------------------------
(***************************************************************************)
(* provider/zygisk.rs: the Agent between its callers and two modules of    *)
(* system_server, applistpro (v2, with a token) and applist (v1).  What is *)
(* reachable is probed by one request at a time and remembered for         *)
(* PROBE_TTL, the token for PRO_TOKEN_TTL; requests act on both, while the *)
(* modules come and go and the token changes.                              *)
(***************************************************************************)
EXTENDS Naturals

CONSTANTS
  Lists,           \* requests for package.list_localized
  Exports,         \* requests for package.export_apk
  Nothing,         \* Rust's None
  ProbeTtl,        \* PROBE_TTL in ticks of the clock
  TokenTtl,        \* PRO_TOKEN_TTL
  MaxDisturbances  \* bound on changes of the device, timeouts and aborts

Request == Lists \cup Exports

ASSUME BridgeAssumption ==
  /\ Lists \cap Exports = {}
  /\ ProbeTtl \in Nat \ {0}
  /\ TokenTtl \in Nat \ {0}
  /\ MaxDisturbances \in Nat

VARIABLES
  (* the device *)
  pro,           \* the v2 port: "dead", "listening" or "other" (protocol)
  demo,          \* the v1 port is listened on
  rootGranted,   \* su works for the Agent
  token,         \* the token of the v2 module, in its file and in its memory
  disturbances,  \* how much has happened
  (* the provider *)
  probe,         \* ZygiskProvider.probe
  proToken,      \* ZygiskProvider.pro_token
  flight,        \* the request that holds probe_flight
  proState,      \* ProState, as the probe in flight has found it
  (* the requests *)
  step,          \* where each is
  via,           \* the variant each has been told
  key,           \* the token each has taken
  staging        \* the staging directory: "none", "filling", "ready", "left"

deviceVars == <<pro, demo, rootGranted, token, disturbances>>
bridgeVars == <<deviceVars, probe, proToken, flight, proState, step, via, key, staging>>

Variant == {"pro", "locked", "demo", "absent"}
Tokens == 0..MaxDisturbances

BridgeTypeOK ==
  /\ pro \in {"dead", "listening", "other"}
  /\ demo \in BOOLEAN /\ rootGranted \in BOOLEAN
  /\ token \in Tokens /\ disturbances \in 0..MaxDisturbances
  /\ probe \in [variant : Variant, faulted : BOOLEAN, age : 0..ProbeTtl] \cup {Nothing}
  /\ proToken \in [token : Tokens, age : 0..TokenTtl] \cup {Nothing}
  /\ flight \in Request \cup {Nothing}
  /\ proState \in {"ready", "needsToken", "failed", "dead", Nothing}
  /\ step \in [Request -> {"idle", "waiting", "probing", "storing", "told", "sending", "served"}]
  /\ via \in [Request -> Variant \cup {Nothing}]
  /\ key \in [Request -> Tokens \cup {Nothing}]
  /\ staging \in [Exports -> {"none", "filling", "ready", "left"}]

BridgeInit ==
  /\ pro = "dead" /\ demo = TRUE /\ rootGranted = TRUE
  /\ token = 0 /\ disturbances = 0
  /\ probe = Nothing /\ proToken = Nothing
  /\ flight = Nothing /\ proState = Nothing
  /\ step = [r \in Request |-> "idle"]
  /\ via = [r \in Request |-> Nothing]
  /\ key = [r \in Request |-> Nothing]
  /\ staging = [r \in Exports |-> "none"]

-----------------------------------------------------------------------------
ProbeIsFresh == probe # Nothing /\ probe.age < ProbeTtl

\* What pro_token and read_pro_token answer: cached, or by su.
TokenIsFresh == proToken # Nothing /\ proToken.age < TokenTtl
OnDisk == IF rootGranted THEN token ELSE Nothing
TokenNow == IF TokenIsFresh THEN proToken.token ELSE OnDisk

\* cache_pro_token, when the token was read.
CachesToken == proToken' = IF TokenIsFresh \/ OnDisk = Nothing THEN proToken
                           ELSE [token |-> OnDisk, age |-> 0]

\* handshake_pro: the port, the version of the protocol, the token.
Accepts(t) == pro = "listening" /\ t = token

\* A plausible bug: the token that was tried is cached, not read again.
HandshakeUnrefreshed(t) ==
  /\ proToken' = [token |-> t, age |-> 0]
  /\ proState' = IF Accepts(t) THEN "ready" ELSE "failed"

\* handshake_with_refresh_retry, and what it leaves in the cache.
Handshake(t) ==
  IF Accepts(t) \/ OnDisk = Nothing \/ ~Accepts(OnDisk)
  THEN /\ CachesToken
       /\ proState' = IF Accepts(t) THEN "ready" ELSE "failed"
  ELSE /\ proToken' = [token |-> OnDisk, age |-> 0]
       /\ proState' = "ready"

\* select_variant.
Selected(p) ==
  IF p = "ready" THEN "pro"
  ELSE IF demo THEN "demo"
  ELSE IF p = "dead" THEN "absent"
  ELSE "locked"

RequireBridge(v) == v \in {"pro", "demo"}

Goes(r, s) == step' = [step EXCEPT ![r] = s]

\* The caller learns the outcome, and what it held is forgotten.
Answered(r, s) ==
  /\ Goes(r, s)
  /\ via' = [via EXCEPT ![r] = Nothing]
  /\ key' = [key EXCEPT ![r] = Nothing]

Told(r, v) ==
  IF RequireBridge(v)
  THEN Goes(r, "told") /\ via' = [via EXCEPT ![r] = v] /\ UNCHANGED key
  ELSE Answered(r, "idle")

\* mark_faulted: the variant stays, the result is young again.
MarkFaulted == probe' = IF probe = Nothing THEN Nothing
                        ELSE [probe EXCEPT !.faulted = TRUE, !.age = 0]

\* What becomes of the staging directory of a request that fails or ends.
Staged(r, s) == staging' = IF r \in Exports THEN [staging EXCEPT ![r] = s] ELSE staging

-----------------------------------------------------------------------------
(* the device *)

Disturb ==
  /\ disturbances < MaxDisturbances
  /\ disturbances' = disturbances + 1

providerVars == <<probe, proToken, flight, proState, step, via, key, staging>>

ModuleChanges ==
  /\ Disturb
  /\ \/ /\ pro' \in {"dead", "listening", "other"} \ {pro}
        /\ UNCHANGED <<demo, rootGranted, token>>
     \/ /\ demo' = ~demo
        /\ UNCHANGED <<pro, rootGranted, token>>
     \/ /\ rootGranted' = ~rootGranted
        /\ UNCHANGED <<pro, demo, token>>
     \/ /\ token' = token + 1          \* ksud module install
        /\ UNCHANGED <<pro, demo, rootGranted>>
  /\ UNCHANGED providerVars

Older(c, ttl) == IF c = Nothing \/ c.age = ttl THEN c ELSE [c EXCEPT !.age = @ + 1]

BridgeTick ==
  /\ probe' = Older(probe, ProbeTtl)
  /\ proToken' = Older(proToken, TokenTtl)
  /\ <<probe, proToken>>' # <<probe, proToken>>
  /\ UNCHANGED <<deviceVars, flight, proState, step, via, key, staging>>

-----------------------------------------------------------------------------
(* the requests *)

\* probe(), up to the lock.
Asks(r) ==
  /\ step[r] \in {"idle", "served"}
  /\ r \in Exports => staging[r] = "none"
  /\ IF ProbeIsFresh THEN Told(r, probe.variant) ELSE Goes(r, "waiting") /\ UNCHANGED <<via, key>>
  /\ UNCHANGED <<deviceVars, probe, proToken, flight, proState, staging>>

\* The lock of the flight, and the second look at the cache.
TakesOff(r) ==
  /\ step[r] = "waiting" /\ flight = Nothing
  /\ IF ProbeIsFresh
     THEN Told(r, probe.variant) /\ UNCHANGED flight
     ELSE Goes(r, "probing") /\ flight' = r /\ UNCHANGED <<via, key>>
  /\ UNCHANGED <<deviceVars, probe, proToken, proState, staging>>

\* probe_now: the v2 port, the token, the handshake.
ProbesPro(r) ==
  /\ step[r] = "probing"
  /\ IF pro = "dead"
     THEN proState' = "dead" /\ UNCHANGED proToken
     ELSE IF TokenNow = Nothing
     THEN proState' = "needsToken" /\ UNCHANGED proToken
     ELSE Handshake(TokenNow)
  /\ Goes(r, "storing")
  /\ UNCHANGED <<deviceVars, probe, flight, via, key, staging>>

\* probe_now: the v1 port, then the result is stored and the lock released.
StoresProbe(r) ==
  /\ step[r] = "storing"
  /\ probe' = [variant |-> Selected(proState), faulted |-> FALSE, age |-> 0]
  /\ Told(r, Selected(proState))
  /\ flight' = Nothing /\ proState' = Nothing
  /\ UNCHANGED <<deviceVars, proToken, staging>>

\* PROBE_BUDGET: the result before, or none.
ProbeTimesOut(r) ==
  /\ step[r] \in {"probing", "storing"}
  /\ Disturb
  /\ Told(r, IF probe = Nothing THEN "absent" ELSE probe.variant)
  /\ flight' = Nothing /\ proState' = Nothing
  /\ UNCHANGED <<pro, demo, rootGranted, token, probe, proToken, staging>>

\* An export makes its directory first; v2 asks for the token once more.
TakesToken(r) ==
  /\ step[r] = "told"
  /\ IF via[r] = "pro" /\ TokenNow = Nothing
     THEN /\ Answered(r, "idle")              \* `?`: the directory stays
          /\ Staged(r, "left")
          /\ UNCHANGED proToken
     ELSE /\ Goes(r, "sending")
          /\ key' = [key EXCEPT ![r] = IF via[r] = "pro" THEN TokenNow ELSE Nothing]
          /\ IF via[r] = "pro" THEN CachesToken ELSE UNCHANGED proToken
          /\ Staged(r, "filling")
          /\ UNCHANGED via
  /\ UNCHANGED <<deviceVars, probe, flight, proState>>

Works(r) == IF via[r] = "pro" THEN Accepts(key[r]) ELSE demo

\* A command and its whole answer.
Serves(r) ==
  /\ step[r] = "sending"
  /\ Works(r)
  /\ Answered(r, "served")
  /\ Staged(r, "ready")
  /\ UNCHANGED <<deviceVars, probe, proToken, flight, proState>>

\* The module does not answer, refuses, or answers nonsense.
Fails(r) ==
  /\ step[r] = "sending"
  /\ ~Works(r)
  /\ Answered(r, "idle")
  /\ \/ /\ Staged(r, "none")
     \/ /\ r \in Exports /\ via[r] = "demo"   \* `?` of connect_bridge_stream
        /\ Staged(r, "left")
  /\ IF r \in Lists THEN MarkFaulted ELSE UNCHANGED probe
  /\ UNCHANGED <<deviceVars, proToken, flight, proState>>

\* A deadline, or the end of the connection, drops the future where it is.
RequestAborted(r) ==
  /\ step[r] \notin {"idle", "served"}
  /\ Disturb
  /\ Answered(r, "idle")
  /\ flight' = IF flight = r THEN Nothing ELSE flight
  /\ proState' = IF flight = r THEN Nothing ELSE proState
  /\ IF step[r] = "sending" THEN Staged(r, "left") ELSE UNCHANGED staging
  /\ UNCHANGED <<pro, demo, rootGranted, token, probe, proToken>>

\* package.export_clean of the session the caller was given.
ExportClean(r) ==
  /\ step[r] = "served" /\ staging[r] = "ready"
  /\ Staged(r, "none")
  /\ Goes(r, "idle")
  /\ UNCHANGED <<deviceVars, probe, proToken, flight, proState, via, key>>

-----------------------------------------------------------------------------
Proceeds(r) ==
  \/ TakesOff(r) \/ ProbesPro(r) \/ StoresProbe(r)
  \/ TakesToken(r) \/ Serves(r) \/ Fails(r)

BridgeNext ==
  \/ ModuleChanges \/ BridgeTick
  \/ \E r \in Request :
       \/ Asks(r) \/ Proceeds(r)
       \/ ProbeTimesOut(r) \/ RequestAborted(r)
  \/ \E r \in Exports : ExportClean(r)

\* Every await has a timeout; time passes; the callers call again; the lock of
\* tokio is handed over in the order it is asked for.
BridgeSpec ==
  /\ BridgeInit /\ [][BridgeNext]_bridgeVars
  /\ WF_bridgeVars(BridgeTick)
  /\ \A r \in Request : WF_bridgeVars(Proceeds(r))
  /\ \A r \in Lists : WF_bridgeVars(Asks(r)) /\ SF_bridgeVars(TakesOff(r))

-----------------------------------------------------------------------------
(***************************************************************************)
(* A healthy v2 module is used again, whatever token or variant was cached *)
(* before, by callers that pause for PROBE_TTL now and then: the refresh   *)
(* of handshake_with_refresh_retry and the age of the cached token bring   *)
(* the new token in.  Without the pauses mark_faulted keeps an old variant *)
(* young forever.                                                          *)
(***************************************************************************)
HealthyModuleIsUsed ==
  (  /\ <>[](pro = "listening" /\ rootGranted)
     /\ \A r \in Lists : []<>(step[r] = "idle" /\ ~ProbeIsFresh))
    => []<>(\E r \in Lists : step[r] = "served")
===============================================================================
