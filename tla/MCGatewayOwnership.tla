------------------------- MODULE MCGatewayOwnership -------------------------
(* Three process incarnations on one port: two launchers and a third that  *)
(* is a launcher or the resident service.                                  *)
EXTENDS GatewayOwnership, TLC

CONSTANTS p1, p2, p3
=============================================================================
