--------------------------- MODULE CustodyContract ---------------------------
(***************************************************************************)
(* What the helper's durable ownership promises, whatever process runs:    *)
(* nothing that outlives a handler (a worker process, a stored descriptor  *)
(* pair, a network link) exists for a context before the context is        *)
(* claimed on disk, and a claim is settled only when nothing of it is      *)
(* left.  A settled context never comes back.                              *)
(***************************************************************************)
CONSTANT Contexts

VARIABLES
  claim,   \* per context: "free", "claimed" or "settled"
  held     \* the contexts of which something exists

vars == <<claim, held>>

Init ==
  /\ claim = [c \in Contexts |-> "free"]
  /\ held = {}

Claim(c) ==
  /\ claim[c] = "free"
  /\ claim' = [claim EXCEPT ![c] = "claimed"]
  /\ UNCHANGED held

Take(c) ==
  /\ claim[c] = "claimed"
  /\ held' = held \cup {c}
  /\ UNCHANGED claim

\* Cleanup, or the death of a process: any number of contexts at once.
Drop ==
  /\ held' \in SUBSET held
  /\ UNCHANGED claim

Settle(c) ==
  /\ claim[c] = "claimed"
  /\ c \notin held
  /\ claim' = [claim EXCEPT ![c] = "settled"]
  /\ UNCHANGED held

Next ==
  \/ \E c \in Contexts : Claim(c) \/ Take(c) \/ Settle(c)
  \/ Drop

Spec == Init /\ [][Next]_vars
=============================================================================
