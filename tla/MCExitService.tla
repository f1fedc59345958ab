---------------------------- MODULE MCExitService ----------------------------
(***************************************************************************)
(* Instances of ExitService.                                               *)
(***************************************************************************)
EXTENDS ExitService, TLC

CONSTANTS r1, r2, c1, d1, d2, d3, k1, k2, k3, k4, k5, k6, e1, e2

Hold(nonce, r, up, exp, rexp, paths, transports) ==
  [kind |-> "hold", nonce |-> nonce, r |-> r, ctrl |-> c1, up |-> up, down |-> 1,
   created |-> 0, exp |-> exp, rexp |-> rexp, maxPaths |-> paths, permitLimit |-> paths,
   scoped |-> TRUE, transports |-> transports]

First   == Hold(1, r1, 1, 2, 3, 1, {"udp"})
Again   == Hold(2, r1, 2, 1, 4, 1, {"udp"})
Other   == Hold(3, r2, 1, 2, 4, 1, {"udp"})
Growing == Hold(4, r1, 1, 1, 3, 3, {"tcp"})

(***************************************************************************)
(* One run looks at four situations, and one behaviour at one of them: two *)
(* reservations compete for capacity, keys and cache room; one id is held  *)
(* by two requests; the exit restarts between or amid the requests for one *)
(* reservation; a route is extended up to a third path by two attempts.    *)
(***************************************************************************)
Situations == {First, Again, Other, Growing}

OneSituation ==
  LET asked == {a.req : a \in Signed("hold")}
  IN  \/ asked \subseteq {First}
      \/ boot = 0 /\ \E q \in {First, Again, Other} : asked \subseteq {First, Again, Other} \ {q}
      \/ boot = 0 /\ asked \subseteq {Growing} /\ now <= Growing.rexp

\* A reservation that is held again later.
Repeated == {Hold(1, r1, 1, 3, 5, 1, {"udp"}), Hold(2, r1, 1, 4, 6, 1, {"udp"})}

\* The client's relays: one candidate per path.
OneRelay == [p \in Paths |-> IF p = 1 THEN {d1} ELSE IF p = 2 THEN {d2} ELSE {d3}]

IdSymmetry == Permutations(Keys) \cup Permutations(ClientKeys) \cup Permutations(ExtensionIds)
===============================================================================
