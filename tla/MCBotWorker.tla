---------------------------- MODULE MCBotWorker ----------------------------
(* The order clients on small instances.                                   *)
EXTENDS BotWorker, MCFixClient
=============================================================================
