-------------------------- MODULE MCMasterRegistry --------------------------
(* Two game servers for TLC: one knows its external address and is seen under *)
(* its router's, the other is seen under the address it registers.            *)
EXTENDS MasterRegistry, TLC

CONSTANTS s1, s2

MCRegisterKey == (s1 :> "external1") @@ (s2 :> "address2")
MCHeartbeatKey == (s1 :> "router1") @@ (s2 :> "address2")
=============================================================================
