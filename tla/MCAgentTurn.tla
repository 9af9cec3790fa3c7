----------------------------- MODULE MCAgentTurn -----------------------------
(* Instances of AgentTurn for TLC.                                         *)
EXTENDS AgentTurn, TLC

CONSTANTS t1, t2

(* Two tenants in one request, the second of them named twice; the first   *)
(* has no spending limit.                                                  *)
MCTenants == <<t1, t2, t2>>
MCBudget == t1 :> 0 @@ t2 :> 3
=============================================================================
