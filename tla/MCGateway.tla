------------------------------ MODULE MCGateway ------------------------------
(***************************************************************************)
(* Instances of GatewayRun for TLC.                                        *)
(***************************************************************************)
EXTENDS GatewaySafety

ApproveOrCancel == {"approve", "cancel"}
=============================================================================
