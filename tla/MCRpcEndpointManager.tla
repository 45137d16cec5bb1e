------------------------- MODULE MCRpcEndpointManager -------------------------
(* Two endpoints, and one call of execute that may retry once.               *)
EXTENDS RpcEndpointManager

CONSTANTS e1, e2

EntriesMC == <<e1, e2>>
PriorityMC == (e1 :> 1) @@ (e2 :> 0)
===============================================================================
