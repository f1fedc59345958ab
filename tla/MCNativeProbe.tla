---------------------------- MODULE MCNativeProbe ----------------------------
(***************************************************************************)
(* Two probes competing for capacity, and a client that asks for a second  *)
(* permit under the probe id of its first.                                 *)
(***************************************************************************)
EXTENDS NativeProbe

CONSTANTS b1, b2, c1, c2

Probe(b, nonce, up, exp) ==
  [probe |-> b, nonce |-> nonce, control |-> c1, relay |-> c2, up |-> up, down |-> 1, exp |-> exp]

TwoProbes == {Probe(b1, 1, 1, 4), Probe(b2, 2, 2, 4)}
Reused    == {Probe(b1, 1, 1, 4), Probe(b1, 2, 2, 4)}

\* Without a restart all three requests are looked at together, with one two at a time.
MCRequests == TwoProbes \cup Reused

TwoAcrossRestart ==
  LET asked == {p.req : p \in permits} \cup {r.permit.req : r \in readied}
  IN  boot = 0 \/ asked \subseteq TwoProbes \/ asked \subseteq Reused
===============================================================================
