--------------------------- MODULE MCOrderedStore ---------------------------
(* A small ordered store: two accounts, a log of four operations, three    *)
(* heights with competing blocks.                                          *)
EXTENDS OrderedStore

command(id, payer, nonce, kind, target, units, until) ==
  [id |-> id, payer |-> payer, nonce |-> nonce, kind |-> kind, target |-> target,
   units |-> units, valid_from |-> 0, expires |-> until, seal |-> "Ok"]

MCSupply == [a \in {"ann", "bob"} |-> IF a = "ann" THEN 2 ELSE 0]

reserve1  == command("r1", "ann", "n1", "Reserve", "bob", 1, 2)
reserve1b == command("r1", "ann", "n2", "Reserve", "bob", 2, 2)
reserve2  == command("r2", "ann", "n3", "Reserve", "bob", 1, 3)
sameNonce == command("r3", "ann", "n1", "Reserve", "bob", 1, 3)
commit1   == command("c1", "ann", "n4", "Commit", "r1", 0, 3)
cancel1   == command("x1", "ann", "n5", "Cancel", "r1", 0, 3)
spend     == command("r4", "bob", "n1", "Reserve", "ann", 1, 3)
foreign   == command("c2", "bob", "n2", "Commit", "r2", 0, 3)
forged    == [reserve2 EXCEPT !.seal = "Unauthorized"]

block(id, height, time, commands) ==
  [height |-> height, id |-> id, time |-> time, commands |-> commands]

MCBlocks ==
  {block("a1", 1, 0, <<reserve1, reserve1b>>),
   block("b1", 1, 1, <<reserve1b, reserve2>>),
   block("c1", 1, 0, <<forged, spend>>),
   block("d1", 1, 0, << >>),
   block("a2", 2, 1, <<commit1, cancel1>>),
   block("b2", 2, 1, <<reserve2, reserve1>>),
   block("c2", 2, 0, <<reserve1, sameNonce>>),
   block("a3", 3, 2, <<reserve1, spend>>),
   block("b3", 3, 2, <<cancel1, foreign>>),
   block("c3", 3, 1, <<reserve2, commit1>>)}
=============================================================================
