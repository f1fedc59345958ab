----------------------------- MODULE OrderedStore -----------------------------
(***************************************************************************)
(* volparossa-transaction/src/ordered.rs: a durable ledger that executes   *)
(* blocks in an externally agreed order.  A handle (an OrderedStore value  *)
(* on the same directory) first stages a block, executing it on a copy of  *)
(* the database in memory, and then commits it: it takes SQLite's write    *)
(* lock, checks that the database is still the one it staged on, executes  *)
(* the block again inside the transaction, compares, and makes tables and  *)
(* checkpoint durable in one step.                                         *)
(*                                                                         *)
(* Executions advance one command per step so that other handles, database *)
(* errors and process deaths fall between any two of them.  A call that is *)
(* refused, or answered without a change, is a stuttering step.            *)
(***************************************************************************)
EXTENDS AccountOps, SequencesExt

CONSTANTS
  Blocks,              \* the blocks that may be given to stage
  Handles,             \* the open handles on one store directory
  MAX_BLOCK_COMMANDS

\* Blocks and commands are decoded to these types before they reach a store.
ASSUME BlocksAssumption == \A b \in Blocks : IsBlock(b)

VARIABLES
  db,        \* durable: the tables
  record,    \* durable: the ordered_checkpoint row
  staged,    \* per handle, volatile: the staged block or None
  work       \* per handle, volatile: the execution in progress or None

storeVars == <<db, record, staged, work>>

None == [none |-> TRUE]

GenesisBlock == [height |-> 0, id |-> "genesis", time |-> 0, commands |-> << >>]

\* app_hash commits to the tables; the model keeps the value it commits to.
create_record == [block |-> GenesisBlock, outcomes |-> << >>, app_hash |-> genesis_db]

Init ==
  /\ db = genesis_db
  /\ record = create_record
  /\ staged = [h \in Handles |-> None]
  /\ work = [h \in Handles |-> None]

validate_block(b) ==
  /\ b.height \in 1 .. MAX_UNITS
  /\ b.id # GenesisBlock.id
  /\ Len(b.commands) <= MAX_BLOCK_COMMANDS

\* load refuses a checkpoint whose hash is not that of the tables.
load_ok == record.app_hash = db

-----------------------------------------------------------------------------
(* execute: the commands of one block on a working copy of the tables.     *)

begin(kind, b) ==
  [kind |-> kind, block |-> b, base |-> record, db |-> db, outcomes |-> << >>]

executed(w) == Len(w.outcomes) = Len(w.block.commands)

next_result(w) ==
  apply_command(w.db, w.block.commands[Len(w.outcomes) + 1], w.block.time)

\* One command in its savepoint: applied, or rolled back with its code.
execute(h) ==
  /\ work[h] # None
  /\ ~executed(work[h])
  /\ next_result(work[h]).code # "Store"
  /\ LET r == next_result(work[h])
     IN  work' = [work EXCEPT ![h] =
           [kind     |-> work[h].kind,
            block    |-> work[h].block,
            base     |-> work[h].base,
            db       |-> r.db,
            outcomes |-> Append(work[h].outcomes, [code |-> r.code, receipt |-> r.receipt])]]
  /\ UNCHANGED <<db, record, staged>>

-----------------------------------------------------------------------------
(* stage *)

\* Mutant: the block already staged is not recognised.
OnlyCommittedKnown(h, b) ==
  /\ validate_block(b)
  /\ work[h] = None
  /\ staged[h] = None
  /\ load_ok
  /\ record.block = b

\* The answers stage gives without executing: the block already staged, or
\* the block already committed at this height.
stage_known(h, b) ==
  /\ validate_block(b)
  /\ work[h] = None
  /\ \/ staged[h] # None /\ staged[h].record.block = b
     \/ staged[h] = None /\ load_ok /\ record.block = b

\* Mutant: any later height is admitted.
AdmitsGaps(h, b) ==
  /\ validate_block(b)
  /\ staged[h] = None
  /\ load_ok
  /\ b.height > record.block.height
  /\ record.block.time <= b.time

\* Mutant: a block must be strictly later than the committed one.
AdmitsLaterOnly(h, b) ==
  /\ validate_block(b)
  /\ staged[h] = None
  /\ load_ok
  /\ b.height = record.block.height + 1
  /\ record.block.time < b.time

\* A new block: nothing staged, the next height, no time travel, a new id.
stage_admits(h, b) ==
  /\ validate_block(b)
  /\ staged[h] = None
  /\ load_ok
  /\ b.height = record.block.height + 1
  /\ record.block.time <= b.time
  /\ record.block.id # b.id

\* Copy the tables to memory; the read transaction ends before executing.
stage(h, b) ==
  /\ work[h] = None
  /\ stage_admits(h, b)
  /\ work' = [work EXCEPT ![h] = begin("stage", b)]
  /\ UNCHANGED <<db, record, staged>>

stage_done(h) ==
  /\ work[h] # None
  /\ work[h].kind = "stage"
  /\ executed(work[h])
  /\ staged' = [staged EXCEPT ![h] =
       [base   |-> work[h].base,
        record |-> [block    |-> work[h].block,
                    outcomes |-> work[h].outcomes,
                    app_hash |-> work[h].db]]]
  /\ work' = [work EXCEPT ![h] = None]
  /\ UNCHANGED <<db, record>>

discard_staged(h) ==
  /\ work[h] = None
  /\ staged[h] # None
  /\ staged' = [staged EXCEPT ![h] = None]
  /\ UNCHANGED <<db, record, work>>

-----------------------------------------------------------------------------
(* commit *)

\* SQLite's write lock; busy_timeout is zero, so the others are refused.
locked == \E h \in Handles : work[h] # None /\ work[h].kind = "commit"

\* The latest block again: its durable receipt, and the stage is forgotten.
commit_known(h, id) ==
  /\ work[h] = None
  /\ ~locked
  /\ load_ok
  /\ record.block.height > 0
  /\ record.block.id = id
  /\ staged[h] # None => staged[h].record = record
  /\ staged' = [staged EXCEPT ![h] = None]
  /\ UNCHANGED <<db, record, work>>

\* Mutant: the base the block was staged on is not compared.
CommitsOnAnyBase(h, id) ==
  /\ work[h] = None
  /\ ~locked
  /\ ~(record.block.height > 0 /\ record.block.id = id)
  /\ staged[h] # None
  /\ staged[h].record.block.id = id
  /\ work' = [work EXCEPT ![h] = begin("commit", staged[h].record.block)]
  /\ UNCHANGED <<db, record, staged>>

\* The staged block on an unchanged base: execute again under the lock.
commit(h, id) ==
  /\ work[h] = None
  /\ ~locked
  /\ load_ok
  /\ ~(record.block.height > 0 /\ record.block.id = id)
  /\ staged[h] # None
  /\ staged[h].record.block.id = id
  /\ staged[h].base = record
  /\ work' = [work EXCEPT ![h] = begin("commit", staged[h].record.block)]
  /\ UNCHANGED <<db, record, staged>>

\* The second execution gave what was staged: tables and checkpoint at once.
agrees(h) ==
  /\ work[h].outcomes = staged[h].record.outcomes
  /\ work[h].db = staged[h].record.app_hash

\* Mutant: only the checkpoint row is written.
CommitsCheckpointOnly(h) ==
  /\ work[h] # None
  /\ work[h].kind = "commit"
  /\ executed(work[h])
  /\ agrees(h)
  /\ record' = staged[h].record
  /\ staged' = [staged EXCEPT ![h] = None]
  /\ work' = [work EXCEPT ![h] = None]
  /\ UNCHANGED db

commit_done(h) ==
  /\ work[h] # None
  /\ work[h].kind = "commit"
  /\ executed(work[h])
  /\ agrees(h)
  /\ db' = work[h].db
  /\ record' = staged[h].record
  /\ staged' = [staged EXCEPT ![h] = None]
  /\ work' = [work EXCEPT ![h] = None]

\* Mutant: the tables executed so far stay in the file.
AbortKeepsTables(h) ==
  /\ work[h] # None
  /\ db' = IF work[h].kind = "commit" THEN work[h].db ELSE db
  /\ work' = [work EXCEPT ![h] = None]
  /\ UNCHANGED <<record, staged>>

\* A database error, a fatal "Store" code or a disagreement: the call ends
\* with an error and the transaction (or the memory copy) is dropped.
abort(h) ==
  /\ work[h] # None
  /\ work' = [work EXCEPT ![h] = None]
  /\ UNCHANGED <<db, record, staged>>

\* The process dies and the directory is opened again.
reopen(h) ==
  /\ load_ok
  /\ validate_accounting(db)
  /\ staged' = [staged EXCEPT ![h] = None]
  /\ work' = [work EXCEPT ![h] = None]
  /\ UNCHANGED <<db, record>>

HandleStep(h) ==
  \/ \E b \in Blocks : stage(h, b)
  \/ execute(h)
  \/ stage_done(h)
  \/ discard_staged(h)
  \/ \E b \in Blocks : commit_known(h, b.id)
  \/ \E b \in Blocks : commit(h, b.id)
  \/ commit_done(h)
  \/ abort(h)
  \/ reopen(h)

Next == \E h \in Handles : HandleStep(h)

Spec == Init /\ [][Next]_storeVars

-----------------------------------------------------------------------------
(* Properties *)

Commands == UNION {ToSet(b.commands) : b \in Blocks}
Times == {b.time : b \in Blocks}

\* The completions CompletionAlwaysAdmitted asks for are new ones.
ASSUME FreshAssumption == \A c \in Commands : c.id # "fresh" /\ c.nonce # "fresh"

\* The tables some call is about to execute a command on.
Tables == {db} \cup {work[h].db : h \in {g \in Handles : work[g] # None}}

IsTables(d) ==
  /\ d.available \in [Accounts -> 0 .. MAX_UNITS]
  /\ d.reserved \in [Accounts -> 0 .. MAX_UNITS]
  /\ \A r \in DOMAIN d.reservations :
       /\ d.reservations[r].payer \in Accounts
       /\ d.reservations[r].recipient \in Accounts
       /\ d.reservations[r].state \in {"Reserved", "Committed", "Cancelled"}
  /\ ToSet(d.operations) \subseteq
       [signed : Commands, state : {"Reserved", "Committed", "Cancelled"}]

\* The shape of the state: balances within the column checks of the schema,
\* a staged or executing block one of those proposed.
TypeOK ==
  /\ \A d \in Tables : IsTables(d)
  /\ record.block \in Blocks \cup {GenesisBlock}
  /\ \A h \in Handles : staged[h] # None => staged[h].record.block \in Blocks
  /\ \A h \in Handles : work[h] # None =>
       work[h].block \in Blocks /\ work[h].kind \in {"stage", "commit"}

\* The durable tables and checkpoint change only by one whole block on top of
\* the previous one, as if no block were ever staged, no other handle wrote
\* and no process died (ordered.rs: "no partial block is committed"; "A
\* concurrent writer invalidates the staged base").
Settled == INSTANCE SettledLedger WITH ledger <- db, tip <- record.block
WholeBlocksInOrder == Settled!Spec

\* No command, whatever its time and however often it is sent, makes the
\* accounting check after the transition fail: a command gets a verdict, the
\* fatal error that would stop every validator is unreachable.
NoFatalVerdict ==
  \A d \in Tables, c \in Commands, t \in Times : apply_command(d, c, t).code # "Store"

\* The execution under the write lock gives exactly the outcomes and tables
\* that were staged and already announced, whoever wrote in between: commit
\* never has to refuse a block it has started to execute.
AnnouncedIsCommitted ==
  \A h \in Handles :
    (work[h] # None /\ work[h].kind = "commit" /\ executed(work[h])) => agrees(h)

\* A process may die anywhere and still open what it left: the checkpoint is
\* that of the tables and the accounting holds (load, open_mode).
AlwaysReopens == load_ok /\ validate_accounting(db)

\* An admitted reservation can always be completed: its payer's commit or
\* cancel, with an unused id and nonce and a live window, is accepted however
\* full the log is ("Each admitted reserve also keeps one slot").
CompletionAlwaysAdmitted ==
  \A d \in Tables : \A r \in Pending(d), k \in {"Commit", "Cancel"} :
    LET c == [id |-> "fresh", payer |-> d.reservations[r].payer, nonce |-> "fresh",
              kind |-> k, target |-> r, units |-> 0, valid_from |-> 0, expires |-> 1,
              seal |-> "Ok"]
    IN  apply_command(d, c, 0).code = "Ok"

\* Sending an accepted command again, at any time and after its expiry too,
\* returns the receipt it got and debits nothing (lib.rs: "Exact accepted
\* replay returns the historical receipt even after expiry").
RetryIsHarmless ==
  \A d \in Tables : \A i \in DOMAIN d.operations, t \in Times :
    apply_command(d, d.operations[i].signed, t)
      = [code |-> "Ok", receipt |-> receipt(d, i), db |-> d]

\* The log explains the reservations: each was opened by one operation and
\* completed by at most one, the last, whose receipt is its current state; so
\* reserved units are paid out once.
CompletedOnce ==
  \A d \in Tables : \A r \in DOMAIN d.reservations :
    LET about == {i \in DOMAIN d.operations : subject(d.operations[i].signed) = r}
    IN  /\ Cardinality(about) = IF r \in Pending(d) THEN 1 ELSE 2
        /\ d.operations[Max(about)].state = d.reservations[r].state
=============================================================================
