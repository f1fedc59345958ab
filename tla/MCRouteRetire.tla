---------------------------- MODULE MCRouteRetire ----------------------------
(***************************************************************************)
(* Instances of RouteRetire.                                               *)
(***************************************************************************)
EXTENDS RouteRetire

CONSTANTS c, a, b, e
===============================================================================
