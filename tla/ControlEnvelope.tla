---------------------------- MODULE ControlEnvelope ----------------------------
(***************************************************************************)
(* Signed control messages and the bounded replay detector behind          *)
(* verify_control_message (crates/volparossa-protocol/src/envelope.rs).    *)
(*                                                                         *)
(* A ReplayCache is a function from (sender, nonce) keys to the expiry of  *)
(* the message that used them.  check_and_insert drops expired entries     *)
(* before it reads, so an expired entry that is still stored cannot be     *)
(* observed; here it disappears when the next key is recorded at the       *)
(* latest.                                                                 *)
(***************************************************************************)
EXTENDS Integers, FiniteSets

CONSTANT
  MaxReplay        \* ReplayCache::maximum_entries

ASSUME ReplayAssumption == MaxReplay \in Nat \ {0}

\* Mutant: an entry is dropped while its message is still valid.
LiveEarly(c, t) == [k \in {k \in DOMAIN c : c[k] > t + 1} |-> c[k]]

Live(c, t) == [k \in {k \in DOMAIN c : c[k] > t} |-> c[k]]

\* The verdict of check_and_insert for the keys one transaction records.
Unseen(c, keys, t) ==
  /\ keys \cap DOMAIN Live(c, t) = {}
  /\ Cardinality(DOMAIN Live(c, t)) + Cardinality(keys) <= MaxReplay

\* expiry maps the keys the transaction records to the expiry of their message.
Record(c, expiry, t) ==
  [k \in DOMAIN Live(c, t) \cup DOMAIN expiry |->
     IF k \in DOMAIN expiry THEN expiry[k] ELSE c[k]]

\* Mutant: the entries of a refused request stay.
KeepsEntries(c, keys) == c

\* rollback, for every entry the failed transaction made.
Rollback(c, keys) == [k \in DOMAIN c \ keys |-> c[k]]

\* TimePolicy::validate_at: a message is dead from its expiry on.
InWindow(expiry, t) == t < expiry

===============================================================================
