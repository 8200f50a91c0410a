-------------------------- MODULE MCBridgeSession ---------------------------
(***************************************************************************)
(* TLC instances of BridgeSession.                                          *)
(***************************************************************************)
EXTENDS BridgeSession

=============================================================================
