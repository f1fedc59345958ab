-------------------------- MODULE MCTransactionAbci --------------------------
(* One validator, three heights with competing proposals.                  *)
EXTENDS TransactionAbci

command(id, payer, nonce, kind, target, units, until) ==
  [id |-> id, payer |-> payer, nonce |-> nonce, kind |-> kind, target |-> target,
   units |-> units, valid_from |-> 0, expires |-> until, seal |-> "Ok"]

MCSupply == [a \in {"ann", "bob"} |-> IF a = "ann" THEN 2 ELSE 0]

reserve1 == command("r1", "ann", "n1", "Reserve", "bob", 1, 2)
reserve2 == command("r1", "ann", "n2", "Reserve", "bob", 2, 3)
commit1  == command("c1", "ann", "n4", "Commit", "r1", 0, 3)
spend    == command("r4", "bob", "n1", "Reserve", "ann", 1, 3)

block(id, h, time, commands) ==
  [height |-> h, id |-> id, time |-> time, commands |-> commands]

MCBlocks ==
  {block("a1", 1, 0, <<reserve1, reserve2>>),
   block("b1", 1, 1, << >>),
   block("a2", 2, 1, <<commit1, reserve1>>),
   block("b2", 2, 0, <<reserve2>>),
   block("a3", 3, 2, <<reserve1, spend>>)}
=============================================================================
