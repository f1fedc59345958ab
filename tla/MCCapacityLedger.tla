--------------------------- MODULE MCCapacityLedger ---------------------------
(***************************************************************************)
(* CapacityLedger on three identifiers: requests of different sizes and    *)
(* lifetimes, two of which together overflow the downstream limit.         *)
(***************************************************************************)
EXTENDS CapacityLedger

CONSTANTS r1, r2, r3

Request(id, up, down, created, expires, scoped) ==
  [id |-> id, up |-> up, down |-> down, created |-> created, expires |-> expires,
   scoped |-> scoped]

MCSubmitted ==
  {Request(r1, 1, 2, 0, 4, TRUE), Request(r1, 1, 1, 1, 3, TRUE),
   Request(r2, 1, 1, 0, 5, TRUE), Request(r2, 2, 2, 2, 6, TRUE),
   Request(r3, 1, 1, 1, 5, TRUE), Request(r3, 3, 1, 0, 2, TRUE),
   Request(r3, 1, 1, 0, 6, TRUE), Request(r3, 1, 1, 3, 5, FALSE),
   Request(r2, 0, 1, 0, 4, TRUE)}

===============================================================================
