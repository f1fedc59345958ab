--------------------------- MODULE OwnershipJournal ---------------------------
(***************************************************************************)
(* volparossa-helper: the durable ownership journal and its single actor   *)
(* thread.  One record per route context moves                             *)
(*                                                                         *)
(*   Intent -> MayOwnCustody -> MayOwnPrepare -> CleanupConfirmed -> Absent*)
(*                                                                         *)
(* (MayOwnCustody may also go to CleanupConfirmed, Intent to Absent), and  *)
(* a record is never deleted.  Every move replaces the whole file: write a *)
(* temporary file, rename it over the journal, sync the directory.  A      *)
(* failure before the rename changes nothing; a failure at or after it     *)
(* leaves the outcome unknown and poisons the journal for good.            *)
(*                                                                         *)
(* Revisions, generations, ids and digests only tell one snapshot from     *)
(* another: phases never go back, so the snapshot itself does that here.   *)
(***************************************************************************)
EXTENDS Integers, FiniteSets

CONSTANTS
  Contexts,      \* route contexts an agent may ask for
  Relays,        \* the contexts whose plan has the Relay role
  MAX_RECORDS,   \* records one journal may hold, tombstones included
  MaxErrors      \* bound: failed file operations and lost manager messages

ASSUME JournalAssumption ==
  /\ Relays \subseteq Contexts
  /\ MAX_RECORDS \in Nat
  /\ MaxErrors \in Nat

VARIABLES
  durable,    \* the journal file
  stale,      \* the temporary file exists
  mem,        \* the actor's snapshot
  poisoned,   \* the journal's poison flag
  life,       \* the actor's Lifecycle, "down" while no process runs
  op,         \* the operation the actor thread is executing
  errors      \* how many errors so far

journalVars == <<durable, stale, mem, poisoned, life, op, errors>>

Phases ==
  {"None", "Intent", "MayOwnCustody", "MayOwnPrepare", "CleanupConfirmed", "Absent"}
MayOwn == {"MayOwnCustody", "MayOwnPrepare"}
Origins == {"none", "NeverDispatched", "RecoveredMayOwn"}
OwnershipRecord == [phase : Phases, origin : Origins, extended : BOOLEAN]
Moves == Phases \cup {"Extend"}

NoRecord == [phase |-> "None", origin |-> "none", extended |-> FALSE]
NoOperation == [ctx |-> "none", to |-> "None", step |-> "idle", by |-> "none", late |-> FALSE]
idle == op.step = "idle"

JournalInit ==
  /\ durable = [c \in Contexts |-> NoRecord]
  /\ stale = FALSE
  /\ mem = [c \in Contexts |-> NoRecord]
  /\ poisoned = FALSE
  /\ life = "down"
  /\ op = NoOperation
  /\ errors = 0

-----------------------------------------------------------------------------
(* The record lattice.                                                     *)

\* The phase changes OwnershipRecord::advance accepts.
Advances ==
  { <<"Intent", "MayOwnCustody">>, <<"MayOwnCustody", "MayOwnPrepare">>,
    <<"MayOwnCustody", "CleanupConfirmed">>, <<"MayOwnPrepare", "CleanupConfirmed">>,
    <<"CleanupConfirmed", "Absent">>, <<"Intent", "Absent">> }

\* A tombstone remembers whether anything was ever dispatched.
advance(rec, to) ==
  [ phase    |-> IF to = "Extend" THEN rec.phase ELSE to,
    origin   |-> IF to # "Absent" THEN "none"
                 ELSE IF rec.phase = "Intent" THEN "NeverDispatched" ELSE "RecoveredMayOwn",
    extended |-> rec.extended \/ to = "Extend" ]

Registered(s) == {c \in Contexts : s[c].phase # "None"}

\* What the journal accepts: an Intent only for a context no record names and
\* only below the record limit, an extension once and only of an active Client
\* or Exit context, any other move along the lattice.
admits(s, c, to) ==
  \/ /\ to = "Intent"
     /\ s[c].phase = "None"
     /\ Cardinality(Registered(s)) < MAX_RECORDS
  \/ /\ to = "Extend"
     /\ s[c].phase = "MayOwnPrepare"
     /\ c \notin Relays
     /\ ~s[c].extended
  \/ <<s[c].phase, to>> \in Advances

-----------------------------------------------------------------------------
(* compare_and_swap, as the steps of persist_atomic.                       *)

\* The actor takes the operation, compares the file with its snapshot, and
\* writes the temporary file.
compare_and_swap(c, to, by) ==
  /\ idle
  /\ ~poisoned
  /\ mem = durable
  /\ ~stale
  /\ admits(mem, c, to)
  /\ stale' = TRUE
  /\ op' = [ctx |-> c, to |-> to, step |-> "written", by |-> by, late |-> FALSE]
  /\ UNCHANGED <<durable, mem, poisoned, life, errors>>

\* The rename makes the new snapshot the journal.
rename ==
  /\ op.step = "written"
  /\ durable' = [durable EXCEPT ![op.ctx] = advance(mem[op.ctx], op.to)]
  /\ stale' = FALSE
  /\ op' = [op EXCEPT !.step = "renamed"]
  /\ UNCHANGED <<mem, poisoned, life, errors>>

\* The directory is synced: the snapshot in memory follows and the actor replies.
persisted ==
  /\ op.step = "renamed"
  /\ mem' = [mem EXCEPT ![op.ctx] = advance(@, op.to)]
  /\ op' = NoOperation
  /\ UNCHANGED <<durable, stale, poisoned, life, errors>>

\* A failure before the rename, the temporary file removed again.  The actor
\* re-verifies the whole boundary and goes on; a startup that fails ends.
persist_failed ==
  /\ op.step = "written"
  /\ errors < MaxErrors
  /\ errors' = errors + 1
  /\ stale' = FALSE
  /\ op' = NoOperation
  /\ life' = IF op.by = "startup" THEN "unavailable" ELSE life
  /\ UNCHANGED <<durable, mem, poisoned>>

\* Mutant: an unknown outcome is treated like a definite failure.
GoesOnUncertain ==
  /\ op.step \in {"written", "renamed"}
  /\ errors < MaxErrors
  /\ errors' = errors + 1
  /\ op' = NoOperation
  /\ UNCHANGED <<durable, stale, mem, poisoned, life>>

\* The temporary file cannot be removed, the rename reports an error, or
\* anything fails after it: the journal is poisoned and the actor fenced.
persist_uncertain ==
  /\ op.step \in {"written", "renamed"}
  /\ errors < MaxErrors
  /\ errors' = errors + 1
  /\ stale' \in {FALSE, op.step = "written"}
  /\ poisoned' = TRUE
  /\ life' = "ambiguous"
  /\ op' = NoOperation
  /\ UNCHANGED <<durable, mem>>

\* The caller's deadline passes first: the operation still runs to its end,
\* but nobody learns its result and the actor is fenced.
late_reply ==
  /\ ~idle
  /\ op.by = "owner"
  /\ ~op.late
  /\ op' = [op EXCEPT !.late = TRUE]
  /\ life' = "ambiguous"
  /\ UNCHANGED <<durable, stale, mem, poisoned, errors>>

-----------------------------------------------------------------------------
(* The process opens the journal, and ends.                                *)

\* The lock is taken, a temporary file of an earlier run removed, the journal
\* loaded.
open ==
  /\ life = "down"
  /\ stale' = FALSE
  /\ mem' = durable
  /\ life' = "starting"
  /\ UNCHANGED <<durable, poisoned, op, errors>>

\* Only the files survive the process.
JournalEnds ==
  /\ life # "down"
  /\ mem' = [c \in Contexts |-> NoRecord]
  /\ poisoned' = FALSE
  /\ life' = "down"
  /\ op' = NoOperation
  /\ UNCHANGED <<durable, stale, errors>>

JournalTypeOK ==
  /\ durable \in [Contexts -> OwnershipRecord]
  /\ mem \in [Contexts -> OwnershipRecord]
  /\ stale \in BOOLEAN
  /\ poisoned \in BOOLEAN
  /\ life \in {"down", "starting", "running", "stopped", "unavailable", "ambiguous"}
  /\ op \in [ ctx : Contexts \cup {"none"}, to : Moves, step : {"idle", "written", "renamed"},
              by : {"none", "owner", "startup"}, late : BOOLEAN ]
  /\ errors \in 0..MaxErrors
=============================================================================
