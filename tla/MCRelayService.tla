---------------------------- MODULE MCRelayService ----------------------------
(***************************************************************************)
(* RelayService on two reservations: two paths of one bundle, a second     *)
(* bundle for the same reservation, and two authorizations for one native  *)
(* probe Start.                                                            *)
(***************************************************************************)
EXTENDS RelayService, TLC

CONSTANTS r1, r2, k1, k2, k3, k4, h1, h2, h3, h4

Path(fin, path, exp) ==
  [r |-> r1, fin |-> fin, path |-> path, native |-> FALSE, up |-> 1, down |-> 1,
   created |-> 0, exp |-> exp, clientKey |-> k1, exitKey |-> k2]

Probe(fin, path, up, exp) ==
  [r |-> r2, fin |-> fin, path |-> path, native |-> TRUE, up |-> up, down |-> 1,
   created |-> 0, exp |-> exp, clientKey |-> k3, exitKey |-> k4]

MCAuthorizations ==
  {Path(1, 1, 5), Path(1, 2, 5), Path(2, 1, 4), Probe(3, 1, 1, 5), Probe(3, 2, 2, 4)}

HelperSymmetry == Permutations(RelayKeys)
===============================================================================
