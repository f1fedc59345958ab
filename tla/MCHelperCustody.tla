--------------------------- MODULE MCHelperCustody ---------------------------
(***************************************************************************)
(* HelperCustody for TLC: a Client context that can be extended and a      *)
(* Relay context.                                                          *)
(***************************************************************************)
EXTENDS HelperCustody

Two == {"client", "relay"}
OneRelay == {"relay"}
SeveralPaths == {"client"}
=============================================================================
