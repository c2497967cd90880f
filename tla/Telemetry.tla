----------------------------- MODULE Telemetry -----------------------------
(***************************************************************************)
(* The two ends of the telemetry path: a bot-worker's client, seen up to   *)
(* what the ingester receives, and the ingester, fed by any clients.  Each *)
(* is checked against every behaviour of the other end, so a behaviour is  *)
(* one of either.                                                          *)
(***************************************************************************)
EXTENDS TelemetryIngester, TelemetryClient

VARIABLE end    \* the end of the path that is looked at

telemetryVars == <<end, vars, clientVars>>

TelemetryInit ==
    /\ end \in {"client", "ingester"}
    /\ Init
    /\ ClientInit

TelemetryNext ==
    \/ end = "ingester" /\ Next /\ UNCHANGED <<end, clientVars>>
    \/ end = "client" /\ ClientNext /\ UNCHANGED <<end, vars>>

\* No step of the end that is not looked at is enabled in its initial state
\* before a client acts, so its fairness asks for nothing.
TelemetrySpec == TelemetryInit /\ [][TelemetryNext]_telemetryVars /\ Fairness /\ ClientFairness
=============================================================================
