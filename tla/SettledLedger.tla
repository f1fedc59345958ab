---------------------------- MODULE SettledLedger ----------------------------
(***************************************************************************)
(* What the ordered transaction store promises, with no staging, no second *)
(* writer and no crash: the ledger is a single value that only ever moves  *)
(* by a whole block at the next height, every command of the block applied *)
(* in order at the block's agreed time to the value the previous block     *)
(* left (docs/services/TRANSACTION_LAYER.md, "Ordered application          *)
(* foundation").  It is written from the promise and not from the code, so *)
(* that the store can be shown to keep it.                                 *)
(***************************************************************************)
EXTENDS Naturals

CONSTANTS
  Blocks,             \* the blocks that may be proposed
  genesis_db,         \* the ledger every validator starts from
  ApplyBlock(_, _)    \* the ledger after a whole block

VARIABLES
  ledger,    \* the settled accounts, reservations and operations
  tip        \* the last settled block

GenesisBlock == [height |-> 0, id |-> "genesis", time |-> 0, commands |-> << >>]

Init ==
  /\ ledger = genesis_db
  /\ tip = GenesisBlock

Next ==
  \E b \in Blocks :
    /\ b.height = tip.height + 1
    /\ b.time >= tip.time
    /\ tip' = b
    /\ ledger' = ApplyBlock(ledger, b)

Spec == Init /\ [][Next]_<<ledger, tip>>
=============================================================================
