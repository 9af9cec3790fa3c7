--------------------------- MODULE MCGatewaySessions ---------------------------
(* Values of the constants of GatewaySessions for TLC.                     *)
EXTENDS GatewaySessions, TLC

CONSTANTS a, b

(* One tenant, or two.                                                     *)
MCTenantLists == {<<a>>, <<b, a>>}

=============================================================================
