------------------------------ MODULE AccountOps ------------------------------
(***************************************************************************)
(* The accounting rules of volparossa-transaction as pure operators on the *)
(* value of the SQLite database: accounts, reservations and the permanent  *)
(* operation log.  A database value db is a record with                    *)
(*   available, reserved : units per enrolled account,                     *)
(*   reservations        : reservation id -> payer, recipient, units, state*)
(*   operations          : the accepted commands in sequence order.        *)
(* A signed command is a record; two commands with the same bytes are the  *)
(* same record.  Its field "seal" is the verdict of the cryptographic and  *)
(* domain checks ("Ok", or the code they refuse it with).  The code "Store"*)
(* is the fatal one: it is no verdict on a command but aborts the whole    *)
(* block and stops the application.                                        *)
(***************************************************************************)
EXTENDS Totals, Sequences

CONSTANTS
  Supply,          \* the initial units of every account, [account -> Nat]
  MAX_OPERATIONS,  \* hard bound of the operation log
  MAX_UNITS        \* hard bound of every unit count

Accounts == DOMAIN Supply

\* create_mode refuses accounts whose total supply is above MAX_UNITS.
ASSUME AccountAssumption ==
  /\ MAX_OPERATIONS \in Nat
  /\ MAX_UNITS \in Nat
  /\ IsFiniteSet(Accounts)
  /\ Supply \in [Accounts -> Nat]
  /\ Total(Supply, Accounts) <= MAX_UNITS

\* The tables a new store is created with.
genesis_db ==
  [available    |-> Supply,
   reserved     |-> [a \in Accounts |-> 0],
   reservations |-> [r \in {} |-> {}],
   operations   |-> << >>]

Pending(db) == {r \in DOMAIN db.reservations : db.reservations[r].state = "Reserved"}

Logged(db, id) == {i \in DOMAIN db.operations : db.operations[i].signed.id = id}

\* What the store checks after every accepted command and on every open: no
\* unit appears or vanishes, each account's reserved units are those of its
\* pending reservations, and the log keeps a slot for each of them.
validate_accounting(db) ==
  /\ Total(db.available, Accounts) + Total(db.reserved, Accounts)
       = Total(Supply, Accounts)
  /\ \A a \in Accounts :
       LET owed == {r \in Pending(db) : db.reservations[r].payer = a}
       IN  db.reserved[a] = Total([r \in owed |-> db.reservations[r].units], owed)
  /\ Len(db.operations) + Cardinality(Pending(db)) <= MAX_OPERATIONS

\* The shape checks that follow the signature and domain checks.
verify_mode(c) ==
  LET wellformed == IF c.kind = "Reserve"
                    THEN c.units \in 1 .. MAX_UNITS /\ c.target # c.payer
                    ELSE c.units = 0
  IN  IF c.seal = "Ok" /\ ~wellformed THEN "Invalid" ELSE c.seal

-----------------------------------------------------------------------------
(* transition: the change of accounts and reservations a command asks for. *)

\* Mutant: the payer's available units are not compared.
ReservesUnfunded(db, c) ==
  IF c.target \notin Accounts THEN "NotFound"
  ELSE IF db.reserved[c.payer] + c.units > MAX_UNITS THEN "Capacity"
  ELSE "Ok"

reserve_refusal(db, c) ==
  IF c.target \notin Accounts THEN "NotFound"
  ELSE IF db.available[c.payer] < c.units THEN "Insufficient"
  ELSE IF db.reserved[c.payer] + c.units > MAX_UNITS THEN "Capacity"
  ELSE IF c.id \in DOMAIN db.reservations THEN "Store"   \* primary key
  ELSE "Ok"

\* Who is credited: the recipient by a commit, the payer by a cancel.
beneficiary(db, c) ==
  IF c.kind = "Commit" THEN db.reservations[c.target].recipient ELSE c.payer

completion_refusal(db, c) ==
  IF c.target \notin DOMAIN db.reservations THEN "NotFound"
  ELSE IF db.reservations[c.target].payer # c.payer THEN "Unauthorized"
  ELSE IF db.reservations[c.target].state # "Reserved" THEN "State"
  ELSE IF db.reserved[c.payer] < db.reservations[c.target].units THEN "Store"
  ELSE IF db.available[beneficiary(db, c)] + db.reservations[c.target].units > MAX_UNITS
       THEN "Capacity"
  ELSE "Ok"

transition_refusal(db, c) ==
  IF c.kind = "Reserve" THEN reserve_refusal(db, c) ELSE completion_refusal(db, c)

\* The reservation a command is about and the state it leaves it in.
subject(c) == IF c.kind = "Reserve" THEN c.id ELSE c.target
outcome_state(c) ==
  CASE c.kind = "Reserve" -> "Reserved"
    [] c.kind = "Commit"  -> "Committed"
    [] c.kind = "Cancel"  -> "Cancelled"

\* Mutant: the reserved units of the payer are not raised.
ReserveVanishes(db, c) ==
  [available    |-> [db.available EXCEPT ![c.payer] = @ - c.units],
   reserved     |-> db.reserved,
   reservations |-> [r \in DOMAIN db.reservations \cup {c.id} |->
                       IF r = c.id
                       THEN [payer |-> c.payer, recipient |-> c.target,
                             units |-> c.units, state |-> "Reserved"]
                       ELSE db.reservations[r]]]

reserve_effect(db, c) ==
  [available    |-> [db.available EXCEPT ![c.payer] = @ - c.units],
   reserved     |-> [db.reserved EXCEPT ![c.payer] = @ + c.units],
   reservations |-> [r \in DOMAIN db.reservations \cup {c.id} |->
                       IF r = c.id
                       THEN [payer |-> c.payer, recipient |-> c.target,
                             units |-> c.units, state |-> "Reserved"]
                       ELSE db.reservations[r]]]

\* Mutant: a cancelled reservation is stored as committed.
CancelStoredAsCommit(db, c) ==
  LET units == db.reservations[c.target].units
  IN  [available    |-> [db.available EXCEPT ![beneficiary(db, c)] = @ + units],
       reserved     |-> [db.reserved EXCEPT ![c.payer] = @ - units],
       reservations |-> [db.reservations EXCEPT ![c.target].state = "Committed"]]

completion_effect(db, c) ==
  LET units == db.reservations[c.target].units
  IN  [available    |-> [db.available EXCEPT ![beneficiary(db, c)] = @ + units],
       reserved     |-> [db.reserved EXCEPT ![c.payer] = @ - units],
       reservations |-> [db.reservations EXCEPT ![c.target].state = outcome_state(c)]]

transition(db, c) ==
  IF c.kind = "Reserve" THEN reserve_effect(db, c) ELSE completion_effect(db, c)

-----------------------------------------------------------------------------
(* apply_command *)

\* An accepted command consumes its signer's nonce for ever.
nonce_used(db, c) ==
  \E i \in DOMAIN db.operations :
    /\ db.operations[i].signed.payer = c.payer
    /\ db.operations[i].signed.nonce = c.nonce

\* Mutant: the room asked of a reserve is asked of a completion too.
BudgetForAll(db, c) == Len(db.operations) + Cardinality(Pending(db)) + 2 > MAX_OPERATIONS

\* The budget: a free slot, and for a reserve a second one for its completion
\* besides those of the completions already owed.
over_budget(db, c) ==
  \/ Len(db.operations) >= MAX_OPERATIONS
  \/ /\ c.kind = "Reserve"
     /\ Len(db.operations) + Cardinality(Pending(db)) + 2 > MAX_OPERATIONS

\* Why a command that is not yet in the log is refused, in the order tested.
new_refusal(db, c, now) ==
  IF now < c.valid_from \/ now >= c.expires THEN "NotLive"
  ELSE IF nonce_used(db, c) THEN "Replay"
  ELSE IF over_budget(db, c) THEN "Capacity"
  ELSE transition_refusal(db, c)

receipt(db, i) ==
  [sequence |-> i, signed |-> db.operations[i].signed, state |-> db.operations[i].state]

refused(db, code) == [code |-> code, receipt |-> {}, db |-> db]

\* An operation id already in the log: the same bytes get the historical
\* receipt back whatever the time, other bytes are a conflict.
apply_known(db, c) ==
  LET i == CHOOSE j \in Logged(db, c.id) : TRUE
  IN  IF db.operations[i].signed = c
      THEN [code |-> "Ok", receipt |-> receipt(db, i), db |-> db]
      ELSE refused(db, "Conflict")

apply_new(db, c, now) ==
  IF new_refusal(db, c, now) # "Ok" THEN refused(db, new_refusal(db, c, now))
  ELSE LET moved == transition(db, c)
           next  == [available    |-> moved.available,
                     reserved     |-> moved.reserved,
                     reservations |-> moved.reservations,
                     operations   |-> Append(db.operations,
                                        [signed |-> c, state |-> outcome_state(c)])]
       IN  IF validate_accounting(next)
           THEN [code |-> "Ok", receipt |-> receipt(next, Len(next.operations)), db |-> next]
           ELSE refused(db, "Store")

\* Mutant: the validity window is tested before the log is searched.
ExpiryFirst(db, c, now) ==
  IF verify_mode(c) # "Ok" THEN refused(db, verify_mode(c))
  ELSE IF c.payer \notin Accounts THEN refused(db, "NotFound")
  ELSE IF now < c.valid_from \/ now >= c.expires THEN refused(db, "NotLive")
  ELSE IF Logged(db, c.id) # {} THEN apply_known(db, c)
  ELSE apply_new(db, c, now)

apply_command(db, c, now) ==
  IF verify_mode(c) # "Ok" THEN refused(db, verify_mode(c))
  ELSE IF c.payer \notin Accounts THEN refused(db, "NotFound")
  ELSE IF Logged(db, c.id) # {} THEN apply_known(db, c)
  ELSE apply_new(db, c, now)

-----------------------------------------------------------------------------
(* The types of the decoded wire records (wire.rs), and the reference      *)
(* against which the execution of a block is checked.                      *)

\* The checks before the tables are touched never give the fatal code.
IsCommand(c) ==
  /\ c.kind \in {"Reserve", "Commit", "Cancel"}
  /\ c.units \in Nat /\ c.valid_from \in Nat /\ c.expires \in Nat
  /\ c.seal # "Store"

IsBlock(b) ==
  /\ b.height \in Nat /\ b.time \in Nat
  /\ b.commands \in Seq({b.commands[i] : i \in DOMAIN b.commands})
  /\ \A i \in DOMAIN b.commands : IsCommand(b.commands[i])

\* The tables after a whole block: every command in order at the block's time,
\* a refused one leaving the tables alone.
ApplyBlock(db, b) ==
  LET run[n \in 0 .. Len(b.commands)] ==
        IF n = 0 THEN db ELSE apply_command(run[n - 1], b.commands[n], b.time).db
  IN  run[Len(b.commands)]
=============================================================================
