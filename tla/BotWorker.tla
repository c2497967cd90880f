----------------------------- MODULE BotWorker -----------------------------
(***************************************************************************)
(* The bots of a worker (services/bot-worker/main.go): when they send, and *)
(* the order client that PROTOCOL names (makeWorkerFactory): one FIX       *)
(* session that all of them share, or a WebSocket for each.  With a socket *)
(* of its own a bot shares nothing with the others, so one of them stands  *)
(* for all.  The three parts share no state, so a behaviour is one of      *)
(* either.                                                                 *)
(***************************************************************************)
EXTENDS FixClient, WsClient, Arrivals

VARIABLE part    \* the part that is looked at

workerVars == <<part, vars, wsVars, arrivalVars>>

WorkerInit ==
    /\ part \in {"fix", "ws", "arrivals"}
    /\ Init
    /\ WsInit
    /\ ArrivalsInit
    /\ part # "arrivals" => mode = "uniform" /\ \A w \in Workers : wake[w] = interval

WorkerNext ==
    \/ part = "fix" /\ Next /\ UNCHANGED <<part, wsVars, arrivalVars>>
    \/ part = "ws" /\ WsNext /\ UNCHANGED <<part, vars, arrivalVars>>
    \/ part = "arrivals" /\ ArrivalsNext /\ UNCHANGED <<part, vars, wsVars>>

WorkerSpec == WorkerInit /\ [][WorkerNext]_workerVars
=============================================================================
