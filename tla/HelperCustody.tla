---------------------------- MODULE HelperCustody ----------------------------
(***************************************************************************)
(* volparossa-helper: the life of a privileged route context, from the     *)
(* durable Intent to the tombstone, around the ownership journal.          *)
(*                                                                         *)
(* A handler (the owner of a context) registers an Intent, spawns the      *)
(* worker process with its own network namespace, marks custody in the     *)
(* journal, stores the pair (pidfd, namespace) with systemd, arms, and     *)
(* only then creates network links: each in the helper's own namespace     *)
(* first (its birth), then moved into the worker's.  Settlement runs the   *)
(* other way.  When the process ends, what is left is the journal, the     *)
(* stored pairs (a stored namespace keeps its links) and links not yet     *)
(* moved; systemd kills the workers with the service.  The next start      *)
(* joins journal and store and settles the shapes it can prove.            *)
(*                                                                         *)
(* systemd, the kernel and the agent that asks for contexts are external.  *)
(***************************************************************************)
EXTENDS OwnershipJournal

CONSTANTS
  MultiPath,     \* the contexts whose plan has more than one path
  MaxCrashes     \* bound: ends of the process

ASSUME CustodyAssumption ==
  /\ MultiPath \subseteq Contexts
  /\ MaxCrashes \in Nat

VARIABLES
  own,        \* per context: where its owner in this process stands
  attested,   \* contexts whose pair this process has seen stored
  gate,       \* the ManagerMutationGate: open, or the mutation in doubt
  msg,        \* the message on its way to systemd
  start,      \* the stage of the startup
  reaped,     \* contexts the restart reaper has handled in this startup
  clean,      \* the shutdown confirmed a quiescent journal
  workers,    \* contexts with a live worker process
  stored,     \* contexts whose pair systemd stores
  birth,      \* links in the helper's own namespace
  inside,     \* links in the workers' namespaces
  crashes     \* how many ends of the process so far

processVars == <<own, attested, gate, msg, start, reaped, clean>>
worldVars == <<workers, stored, birth, inside>>
vars == <<journalVars, processVars, worldVars, crashes>>

Link == Contexts \X {"base", "extension"}
of(links, c) == {l \in links : l[1] = c}

Owner ==
  { "idle", "registered", "spawned", "refused", "withdrawn", "custody", "publishing",
    "attested", "armed", "birthing", "active", "extending", "extension_birthing",
    "ending", "reaped", "confirmed", "removing", "unsure", "retry", "removed", "gone",
    "held" }
Quiet == [kind |-> "none", ctx |-> "none"]
Mutation(kind, c) == [kind |-> kind, ctx |-> c]

Init ==
  /\ JournalInit
  /\ own = [c \in Contexts |-> "idle"]
  /\ attested = {}
  /\ gate = Quiet
  /\ msg = Quiet
  /\ start = "none"
  /\ reaped = {}
  /\ clean = FALSE
  /\ workers = {}
  /\ stored = {}
  /\ birth = {}
  /\ inside = {}
  /\ crashes = 0

-----------------------------------------------------------------------------
(* Journal operations of an owner: it waits for the actor's reply.         *)

waiting(c) == op.by = "owner" /\ op.ctx = c /\ ~op.late
at(c, places) == own[c] \in places /\ ~waiting(c)
become(c, place) == own' = [own EXCEPT ![c] = place]

\* Where the owner stands after each confirmed move.
After(to) ==
  CASE to = "Intent" -> "registered"
    [] to = "MayOwnCustody" -> "custody"
    [] to = "MayOwnPrepare" -> "armed"
    [] to = "Extend" -> "extending"
    [] to = "CleanupConfirmed" -> "confirmed"
    [] to = "Absent" -> "gone"

\* After a definite failure an owner without custody withdraws, one that could
\* not arm settles, and every other one keeps its place and may try again.
AfterFailure(place) ==
  CASE place = "spawned" -> "refused"
    [] place = "attested" -> "ending"
    [] OTHER -> place

submit(c, place, to) ==
  /\ life = "running"
  /\ at(c, {place})
  /\ compare_and_swap(c, to, "owner")
  /\ UNCHANGED <<processVars, worldVars, crashes>>

register(c) == submit(c, "idle", "Intent")
mark_custody(c) == submit(c, "spawned", "MayOwnCustody")
\* Mutant: the context is armed before its pair is stored.
ArmsUnpublished(c) == submit(c, "custody", "MayOwnPrepare")
arm_custody(c) == submit(c, "attested", "MayOwnPrepare")
extend_path(c) == submit(c, "active", "Extend")
retire_never_dispatched(c) == submit(c, "withdrawn", "Absent")
confirm_cleanup(c) == submit(c, "reaped", "CleanupConfirmed")
confirm_manager_absent(c) == submit(c, "removed", "Absent")

Rename ==
  /\ rename
  /\ UNCHANGED <<processVars, worldVars, crashes>>

\* The reply reaches an owner that still waits for it.
Persisted ==
  /\ persisted
  /\ IF op.by = "owner" /\ ~op.late
     THEN become(op.ctx, After(op.to))
     ELSE UNCHANGED own
  /\ UNCHANGED <<attested, gate, msg, start, reaped, clean, worldVars, crashes>>

PersistFailed ==
  /\ persist_failed
  /\ IF op.by = "owner" /\ ~op.late
     THEN become(op.ctx, AfterFailure(own[op.ctx]))
     ELSE UNCHANGED own
  /\ UNCHANGED <<attested, gate, msg, start, reaped, clean, worldVars, crashes>>

\* An ambiguous outcome is retained: the owner does nothing more.
PersistUncertain ==
  /\ persist_uncertain
  /\ IF op.by = "owner" THEN become(op.ctx, "held") ELSE UNCHANGED own
  /\ UNCHANGED <<attested, gate, msg, start, reaped, clean, worldVars, crashes>>

LateReply ==
  /\ late_reply
  /\ become(op.ctx, "held")
  /\ UNCHANGED <<attested, gate, msg, start, reaped, clean, worldVars, crashes>>

\* A caller's deadline can also pass while its operation is still queued: the
\* operation never starts, but the actor is fenced all the same.
QueuedTooLong(c) ==
  /\ life = "running"
  /\ ~idle
  /\ at(c, {"idle", "spawned", "attested", "active", "withdrawn", "reaped", "removed"})
  /\ life' = "ambiguous"
  /\ become(c, "held")
  /\ UNCHANGED <<durable, stale, mem, poisoned, op, errors>>
  /\ UNCHANGED <<attested, gate, msg, start, reaped, clean, worldVars, crashes>>

-----------------------------------------------------------------------------
(* Workers and network links.                                              *)

\* A worker exists only after the durable Intent; its admission may be refused.
spawn(c) ==
  /\ at(c, {"registered"})
  /\ \/ workers' = workers \cup {c} /\ become(c, "spawned")
     \/ become(c, "withdrawn") /\ UNCHANGED workers
  /\ UNCHANGED <<journalVars, attested, gate, msg, start, reaped, clean>>
  /\ UNCHANGED <<stored, birth, inside, crashes>>

\* Mutant: the Intent is given up without waiting for the worker to die.
WithdrawsLiveWorker(c) ==
  /\ at(c, {"spawned", "refused"})
  /\ become(c, "withdrawn")
  /\ UNCHANGED <<journalVars, attested, gate, msg, start, reaped, clean>>
  /\ UNCHANGED <<worldVars, crashes>>

\* No custody was marked: the worker is terminated and reaped, then the Intent
\* may be retired.
settle_never_dispatched(c) ==
  /\ at(c, {"spawned", "refused"})
  /\ workers' = workers \ {c}
  /\ become(c, "withdrawn")
  /\ UNCHANGED <<journalVars, attested, gate, msg, start, reaped, clean>>
  /\ UNCHANGED <<stored, birth, inside, crashes>>

\* A link is created in the helper's namespace, marked, ...
create_wireguard(c) ==
  /\ at(c, {"armed", "extending"})
  /\ birth' = birth \cup {<<c, IF own[c] = "armed" THEN "base" ELSE "extension">>}
  /\ become(c, IF own[c] = "armed" THEN "birthing" ELSE "extension_birthing")
  /\ UNCHANGED <<journalVars, attested, gate, msg, start, reaped, clean>>
  /\ UNCHANGED <<workers, stored, inside, crashes>>

\* ... and moved into the worker's.
move_wireguard(c) ==
  /\ at(c, {"birthing", "extension_birthing"})
  /\ birth' = birth \ of(birth, c)
  /\ inside' = inside \cup of(birth, c)
  /\ become(c, "active")
  /\ UNCHANGED <<journalVars, attested, gate, msg, start, reaped, clean>>
  /\ UNCHANGED <<workers, stored, crashes>>

\* Destroy, expiry, cancellation, or a failure anywhere after custody was
\* marked: from here the owner only settles.
end_context(c) ==
  /\ at(c, { "custody", "attested", "armed", "birthing", "active", "extending",
             "extension_birthing" })
  /\ become(c, "ending")
  /\ UNCHANGED <<journalVars, attested, gate, msg, start, reaped, clean, worldVars, crashes>>

\* The child destroys its links, the worker is reaped, and the helper deletes
\* the births it knows of: the proof confirm_cleanup needs.
cleanup_exact(c) ==
  /\ at(c, {"ending"})
  /\ workers' = workers \ {c}
  /\ birth' = birth \ of(birth, c)
  /\ inside' = inside \ of(inside, c)
  /\ become(c, "reaped")
  /\ UNCHANGED <<journalVars, attested, gate, msg, start, reaped, clean, stored, crashes>>

-----------------------------------------------------------------------------
(* The descriptor store: one mutation at a time, in doubt until attested.  *)

\* systemd applies the message (external).
applied(m) ==
  CASE m.kind = "publish" -> stored \cup {m.ctx}
    [] m.kind = "remove" -> stored \ {m.ctx}
    [] OTHER -> stored

Deliver ==
  /\ msg # Quiet
  /\ stored' = applied(msg)
  /\ msg' = Quiet
  /\ UNCHANGED <<journalVars, own, attested, gate, start, reaped, clean>>
  /\ UNCHANGED <<workers, birth, inside, crashes>>

\* The gate is marked immediately before the send; the send may be lost.
send(kind, c) ==
  /\ gate' = Mutation(kind, c)
  /\ \/ msg' = Mutation(kind, c) /\ UNCHANGED errors
     \/ errors < MaxErrors /\ errors' = errors + 1 /\ UNCHANGED msg
  /\ UNCHANGED <<durable, stale, mem, poisoned, life, op>>
  /\ UNCHANGED <<attested, start, reaped, clean, worldVars, crashes>>

publish(c) ==
  /\ at(c, {"custody"})
  /\ gate = Quiet
  /\ send("publish", c)
  /\ become(c, "publishing")

\* A barrier and two equal inventories show the pair stored.
attest_publication(c) ==
  /\ at(c, {"publishing"})
  /\ msg = Quiet
  /\ c \in stored
  /\ gate' = Quiet
  /\ attested' = attested \cup {c}
  /\ become(c, "attested")
  /\ UNCHANGED <<journalVars, msg, start, reaped, clean, worldVars, crashes>>

\* Mutant: an abandoned publication opens the gate.
OpensAbandoned(c) ==
  /\ at(c, {"publishing", "removing"})
  /\ become(c, IF own[c] = "publishing" THEN "ending" ELSE "unsure")
  /\ gate' = Quiet
  /\ UNCHANGED <<journalVars, attested, msg, start, reaped, clean, worldVars, crashes>>

\* The attempt is cancelled, late or inexact: the gate stays closed on it.
abandon_mutation(c) ==
  /\ at(c, {"publishing", "removing"})
  /\ become(c, IF own[c] = "publishing" THEN "ending" ELSE "unsure")
  /\ UNCHANGED <<journalVars, attested, gate, msg, start, reaped, clean, worldVars, crashes>>

\* After cleanup, the publication in doubt is compared with the exact inventory.
reconcile_publication(c) ==
  /\ at(c, {"confirmed"})
  /\ gate = Mutation("publish", c)
  /\ msg = Quiet
  /\ gate' = Quiet
  /\ \/ c \in stored /\ attested' = attested \cup {c} /\ UNCHANGED own
     \/ c \notin stored /\ become(c, "removed") /\ UNCHANGED attested
  /\ UNCHANGED <<journalVars, msg, start, reaped, clean, worldVars, crashes>>

\* Nothing was ever sent: one observation through the open gate shows absence.
observe_publication_absence(c) ==
  /\ at(c, {"confirmed"})
  /\ c \notin attested
  /\ gate = Quiet
  /\ c \notin stored
  /\ become(c, "removed")
  /\ UNCHANGED <<journalVars, attested, gate, msg, start, reaped, clean, worldVars, crashes>>

\* Removal of an attested pair; a retry goes through the gate its own doubt
\* keeps closed.
remove(c) ==
  /\ \/ at(c, {"confirmed"}) /\ c \in attested /\ gate = Quiet
     \/ at(c, {"retry"}) /\ gate = Mutation("remove", c)
  /\ send("remove", c)
  /\ become(c, "removing")

\* Mutant: a removal that left the pair stored is never sent again.
NeverRetries(c) ==
  /\ at(c, {"removing", "unsure"})
  /\ gate = Mutation("remove", c)
  /\ msg = Quiet
  /\ c \notin stored
  /\ gate' = Quiet
  /\ attested' = attested \ {c}
  /\ become(c, "removed")
  /\ UNCHANGED <<journalVars, msg, start, reaped, clean, worldVars, crashes>>

\* The exact inventory without the pair opens the gate; with it, a removal in
\* doubt may be sent once more.
attest_removal(c) ==
  /\ at(c, {"removing", "unsure"})
  /\ gate = Mutation("remove", c)
  /\ msg = Quiet
  /\ \/ /\ c \notin stored
        /\ gate' = Quiet
        /\ attested' = attested \ {c}
        /\ become(c, "removed")
     \/ /\ c \in stored
        /\ own[c] = "unsure"
        /\ become(c, "retry")
        /\ UNCHANGED <<gate, attested>>
  /\ UNCHANGED <<journalVars, msg, start, reaped, clean, worldVars, crashes>>

-----------------------------------------------------------------------------
(* Startup: the locked journal is joined with the inherited store.         *)

Pending(s) == {c \in Contexts : s[c].phase \in MayOwn}
Targets(s) == {c \in Contexts : s[c].phase \in MayOwn \cup {"CleanupConfirmed"}}

\* The reaper knows no plan for several paths before dispatch, nor for a relay
\* with several paths.
restart_plan(s, c) ==
  c \in MultiPath => s[c].phase = "MayOwnPrepare" /\ c \notin Relays

\* A set of cleaned-up records is settled whether its pairs are still stored or
\* not; a set with pending records only when every pair is stored; anything
\* else is refused.
startup_class ==
  CASE Targets(mem) = {} /\ stored = {} -> "sweeping"
    [] Pending(mem) = {} /\ Targets(mem) # {} /\ stored = {} -> "sweeping"
    [] Pending(mem) = {} /\ stored # {} /\ stored \subseteq Targets(mem) -> "removing"
    [] /\ Pending(mem) # {}
       /\ stored = Targets(mem)
       /\ \A c \in Pending(mem) : restart_plan(mem, c) -> "reaping"
    [] OTHER -> "refused"

Open ==
  /\ open
  /\ start' = "opened"
  /\ UNCHANGED <<own, attested, gate, msg, reaped, clean, worldVars, crashes>>

classify ==
  /\ life = "starting"
  /\ start = "opened"
  /\ start' = startup_class
  /\ life' = IF startup_class = "refused" THEN "unavailable" ELSE life
  /\ UNCHANGED <<durable, stale, mem, poisoned, op, errors>>
  /\ UNCHANGED <<own, attested, gate, msg, reaped, clean, worldVars, crashes>>

\* The old worker's exit is observed, recorded extension births are deleted,
\* and the reaper visits the namespace: before dispatch it must hold no link.
restart_reap(c) ==
  /\ life = "starting"
  /\ start = "reaping"
  /\ c \in Pending(mem) \ reaped
  /\ c \notin workers
  /\ mem[c].phase = "MayOwnCustody" => of(inside, c) = {}
  /\ birth' = IF mem[c].extended THEN birth \ {<<c, "extension">>} ELSE birth
  /\ reaped' = reaped \cup {c}
  /\ UNCHANGED <<journalVars, own, attested, gate, msg, start, clean>>
  /\ UNCHANGED <<workers, stored, inside, crashes>>

\* With the evidence of the whole set, each pending record is confirmed.
confirm_restart_cleanup(c) ==
  /\ life = "starting"
  /\ start = "reaping"
  /\ c \in Pending(mem)
  /\ Pending(mem) \subseteq reaped
  /\ compare_and_swap(c, "CleanupConfirmed", "startup")
  /\ UNCHANGED <<processVars, worldVars, crashes>>

restart_confirmed ==
  /\ life = "starting"
  /\ start = "reaping"
  /\ idle
  /\ Pending(mem) = {}
  /\ start' = "removing"
  /\ UNCHANGED <<journalVars, own, attested, gate, msg, reaped, clean, worldVars, crashes>>

\* One exact removal after the other; a failed one ends the startup, and may
\* have been applied.
restart_remove(c) ==
  /\ life = "starting"
  /\ start = "removing"
  /\ c \in stored
  /\ \/ stored' = stored \ {c} /\ UNCHANGED <<life, errors>>
     \/ /\ errors < MaxErrors
        /\ errors' = errors + 1
        /\ stored' \in {stored, stored \ {c}}
        /\ life' = "unavailable"
  /\ UNCHANGED <<durable, stale, mem, poisoned, op, processVars, workers, birth, inside, crashes>>

\* The store is observed empty; the inherited descriptors are dropped, and with
\* the last of them the namespaces and all they contain.
restart_removed ==
  /\ life = "starting"
  /\ start = "removing"
  /\ stored = {}
  /\ start' = "sweeping"
  /\ inside' = {}
  /\ UNCHANGED <<journalVars, own, attested, gate, msg, reaped, clean>>
  /\ UNCHANGED <<workers, stored, birth, crashes>>

\* Custody records are retired first, then the Intents.
startup_sweep(c) ==
  /\ life = "starting"
  /\ start = "sweeping"
  /\ \/ c \in Targets(mem)
     \/ Targets(mem) = {} /\ mem[c].phase = "Intent"
  /\ compare_and_swap(c, "Absent", "startup")
  /\ UNCHANGED <<processVars, worldVars, crashes>>

\* Only an all-Absent journal serves.
serve ==
  /\ life = "starting"
  /\ start = "sweeping"
  /\ idle
  /\ \A c \in Contexts : mem[c].phase \in {"None", "Absent"}
  /\ life' = "running"
  /\ start' = "none"
  /\ reaped' = {}
  /\ UNCHANGED <<durable, stale, mem, poisoned, op, errors>>
  /\ UNCHANGED <<own, attested, gate, msg, clean, worldVars, crashes>>

-----------------------------------------------------------------------------
(* The end of a process.                                                   *)

\* Mutant: the shutdown looks at custody records only.
CountsTargetsOnly ==
  /\ life = "running"
  /\ idle
  /\ crashes < MaxCrashes
  /\ crashes' = crashes + 1
  /\ life' = "stopped"
  /\ clean' = (Targets(mem) = {})
  /\ UNCHANGED <<durable, stale, mem, poisoned, op, errors>>
  /\ UNCHANGED <<own, attested, gate, msg, start, reaped, worldVars>>

\* The shutdown fences the actor and reports whether every record is Absent.
shutdown ==
  /\ life = "running"
  /\ idle
  /\ crashes < MaxCrashes
  /\ crashes' = crashes + 1
  /\ life' = "stopped"
  /\ clean' = \A c \in Contexts : mem[c].phase \in {"None", "Absent"}
  /\ UNCHANGED <<durable, stale, mem, poisoned, op, errors>>
  /\ UNCHANGED <<own, attested, gate, msg, start, reaped, worldVars>>

\* systemd kills the workers with the service and keeps the stored pairs; a
\* message on its way may still be applied; a namespace nobody stores is gone.
ProcessEnds ==
  /\ JournalEnds
  /\ own' = [c \in Contexts |-> "idle"]
  /\ attested' = {}
  /\ gate' = Quiet
  /\ msg' = Quiet
  /\ start' = "none"
  /\ reaped' = {}
  /\ clean' = FALSE
  /\ workers' = {}
  /\ stored' \in {stored, applied(msg)}
  /\ inside' = {l \in inside : l[1] \in stored'}
  /\ UNCHANGED birth

Exit ==
  /\ \/ life \in {"unavailable", "stopped"}
     \/ life = "ambiguous" /\ start # "none"
  /\ ProcessEnds
  /\ UNCHANGED crashes

Crash ==
  /\ crashes < MaxCrashes
  /\ crashes' = crashes + 1
  /\ ProcessEnds

-----------------------------------------------------------------------------
JournalStep == Rename \/ Persisted
Settlement(c) ==
  \/ settle_never_dispatched(c) \/ retire_never_dispatched(c)
  \/ end_context(c) \/ cleanup_exact(c) \/ confirm_cleanup(c)
  \/ reconcile_publication(c) \/ observe_publication_absence(c)
  \/ remove(c) \/ attest_removal(c) \/ abandon_mutation(c)
  \/ confirm_manager_absent(c)
Setup(c) ==
  \/ register(c) \/ spawn(c) \/ mark_custody(c) \/ publish(c) \/ attest_publication(c)
  \/ arm_custody(c) \/ create_wireguard(c) \/ move_wireguard(c) \/ extend_path(c)
Startup ==
  \/ classify \/ restart_confirmed \/ restart_removed \/ serve
  \/ \E c \in Contexts :
       restart_reap(c) \/ confirm_restart_cleanup(c) \/ restart_remove(c) \/ startup_sweep(c)

Next ==
  \/ \E c \in Contexts : Setup(c) \/ Settlement(c) \/ QueuedTooLong(c)
  \/ JournalStep \/ PersistFailed \/ PersistUncertain \/ LateReply
  \/ Deliver
  \/ Open \/ Startup
  \/ shutdown \/ Exit \/ Crash

Spec == Init /\ [][Next]_vars

(***************************************************************************)
(* Fairness: the actor thread and the manager keep working, a failed       *)
(* startup is retried (systemd restarts the service), and every context    *)
(* that was started ends, because it expires, and is then settled.         *)
(***************************************************************************)
FairSpec ==
  /\ Spec
  /\ WF_vars(JournalStep)
  /\ WF_vars(Deliver)
  /\ WF_vars(Open)
  /\ WF_vars(Exit)
  /\ WF_vars(Startup)
  /\ \A c \in Contexts : WF_vars(Settlement(c) \/ spawn(c))

-----------------------------------------------------------------------------
(* Properties.                                                             *)

Shapes ==
  /\ JournalTypeOK
  /\ own \in [Contexts -> Owner]
  /\ attested \subseteq Contexts
  /\ gate \in [kind : {"none", "publish", "remove"}, ctx : Contexts \cup {"none"}]
  /\ msg \in [kind : {"none", "publish", "remove"}, ctx : Contexts \cup {"none"}]
  /\ start \in {"none", "opened", "reaping", "removing", "sweeping", "refused"}
  /\ reaped \subseteq Contexts
  /\ clean \in BOOLEAN
  /\ workers \subseteq Contexts
  /\ stored \subseteq Contexts
  /\ birth \subseteq Link
  /\ inside \subseteq Link
  /\ crashes \in 0..MaxCrashes

\* Where an owner has not seen its pair stored, or has seen it removed.
Unattested ==
  { "idle", "registered", "spawned", "refused", "withdrawn", "custody", "publishing",
    "removed", "gone" }

\* Type invariant.  A pair is believed stored only while its owner stands between
\* its attestation and its attested removal (publication and removal of
\* systemd_fdstore.rs).
TypeOK == Shapes /\ attested \subseteq {c \in Contexts : own[c] \notin Unattested}

\* What exists of a context outside its handler, a pair on its way to the store
\* included.  A base link whose birth a crash interrupted belongs to no owner
\* any more: NoBirthLeft is about it.
HeldContexts ==
  workers \cup stored \cup {l[1] : l \in inside}
    \cup {c \in Contexts : msg = Mutation("publish", c)}
    \cup {c \in Contexts : <<c, "extension">> \in birth}
    \cup {c \in Contexts : <<c, "base">> \in birth /\ own[c] \in {"birthing", "ending"}}

Contract == INSTANCE CustodyContract WITH
  claim <- [c \in Contexts |->
              CASE durable[c].phase = "None" -> "free"
                [] durable[c].phase = "Absent" -> "settled"
                [] OTHER -> "claimed"],
  held <- HeldContexts

\* Refinement: with crashes, failed writes and lost messages at any point, no
\* worker, stored pair or link exists for a context without its durable claim,
\* and no tombstone is written while one does (the order of register, spawn,
\* mark_custody, publication, arming, birth, and of the settlement).
ClaimedWhileHeld == Contract!Spec

\* Between operations the actor's snapshot is the file and no temporary file is
\* left, unless the journal is poisoned: an outcome nobody knows is never taken
\* for the old or the new snapshot (persist_atomic, compare_and_swap).
MemoryIsDurable ==
  (life \in {"starting", "running"} /\ idle) => (~poisoned /\ mem = durable /\ ~stale)

\* A message on its way is always the one the gate names, and while the gate is
\* open the owners know the store: a pair is stored exactly if it was attested
\* and not yet removed (ManagerMutationGate, publication and removal).
OpenGateIsCertain ==
  /\ msg # Quiet => gate = msg
  /\ (life \in {"running", "ambiguous"} /\ start = "none" /\ gate = Quiet) =>
       stored = attested

\* A start is refused only in three shapes: custody marked but never stored, a
\* plan the reaper does not know, or a cleaned-up context already removed from
\* the store beside a pending one.  A stored pair without a record, and an
\* armed context without its pair, are never met (classify_journal_targets).
RefusalExplained ==
  start = "refused" =>
    \E c \in Pending(durable) :
      \/ durable[c].phase = "MayOwnCustody" /\ c \notin stored
      \/ ~restart_plan(durable, c)
      \/ \E d \in Contexts : durable[d].phase = "CleanupConfirmed" /\ d \notin stored

\* A shutdown that reports a quiescent journal left nothing behind: no worker,
\* no stored pair, no link in a worker's namespace, no extension link.
CleanStop ==
  (life = "stopped" /\ clean) =>
    /\ workers = {}
    /\ stored = {}
    /\ inside = {}
    /\ \A c \in Contexts : <<c, "extension">> \notin birth

\* Every claimed context is settled in the end, whatever crashed on the way,
\* unless the process was fenced by an unknown outcome or a start was refused.
SettledOrFenced ==
  \A c \in Contexts :
    durable[c].phase # "None" ~>
      (durable[c].phase = "Absent" \/ start = "refused" \/ life = "ambiguous")

\* "A trusted executor may call this only after both trusted-worker teardown and
\* exact kernel cleanup have completed" (ownership_journal.rs, confirmed_cleanup,
\* which the restart path calls too): a context whose cleanup is confirmed has no
\* link left in the helper's own namespace.
NoBirthLeft ==
  \A c \in Contexts :
    durable[c].phase \in {"CleanupConfirmed", "Absent"} => of(birth, c) = {}
=============================================================================
