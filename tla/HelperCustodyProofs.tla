-------------------------- MODULE HelperCustodyProofs --------------------------
(***************************************************************************)
(* What the helper's custody keeps for every set of contexts, every number *)
(* of errors and every number of crashes: the actor's memory is the file,  *)
(* an open gate is certain, a refused start is explained, a clean stop is  *)
(* clean, and every step is a step or a stutter of CustodyContract.        *)
(***************************************************************************)
EXTENDS HelperCustody, TLAPS

\* The process serves: its owners and beliefs mean something.
Serving == start = "none" /\ life \in {"running", "stopped", "ambiguous"}

\* The life of the process and the stage of its startup belong together.
LifeInv ==
  /\ life \in {"running", "stopped"} => start = "none"
  /\ life = "starting" => start \in {"opened", "reaping", "removing", "sweeping"}
  /\ life = "unavailable" => start # "none"
  /\ life = "down" => start = "none"
  /\ start = "refused" => life = "unavailable"
  /\ start \in {"opened", "removing", "refused"} => idle
  /\ life \in {"down", "stopped", "unavailable"} => idle
  /\ clean => life = "stopped" /\ \A c \in Contexts : mem[c].phase \in {"None", "Absent"}

\* The operation in progress is one the journal admits and somebody submitted.
OpInv ==
  /\ idle => op = NoOperation
  /\ ~idle =>
       /\ op.ctx \in Contexts
       /\ admits(mem, op.ctx, op.to)
       /\ ~poisoned
       /\ \/ op.by = "owner" /\ life \in {"running", "ambiguous"} /\ start = "none"
          \/ op.by = "startup" /\ life = "starting" /\ ~op.late
  /\ ~idle /\ start = "reaping" => op.to = "CleanupConfirmed"
  /\ ~idle /\ start = "sweeping" => op.to = "Absent"

\* Memory and file differ only between rename and sync, or once the journal is poisoned.
FileInv ==
  /\ poisoned => life = "ambiguous" /\ idle
  /\ op.step = "written" => mem = durable
  /\ op.step = "renamed" =>
       durable = [mem EXCEPT ![op.ctx] = advance(mem[op.ctx], op.to)] /\ ~stale
  /\ (idle /\ life # "down" /\ ~poisoned) => mem = durable /\ ~stale
  /\ (Serving /\ poisoned) => \A c \in Contexts : durable[c] = mem[c] \/ own[c] = "held"

\* The place of an owner tells the record it has in the actor's memory ...
PlaceInv ==
  Serving => \A c \in Contexts :
    /\ own[c] = "idle" => mem[c].phase \in {"None", "Absent"}
    /\ own[c] \in {"registered", "spawned", "refused", "withdrawn"} => mem[c].phase = "Intent"
    /\ own[c] \in {"custody", "publishing", "attested"} => mem[c].phase = "MayOwnCustody"
    /\ own[c] \in {"armed", "birthing", "active", "extending", "extension_birthing"} =>
         mem[c].phase = "MayOwnPrepare"
    /\ own[c] \in {"extending", "extension_birthing"} => mem[c].extended
    /\ own[c] \in {"ending", "reaped"} => mem[c].phase \in MayOwn
    /\ own[c] \in {"confirmed", "removing", "unsure", "retry", "removed"} =>
         mem[c].phase = "CleanupConfirmed"
    /\ own[c] = "gone" => mem[c].phase = "Absent"

\* ... and the place an operation in progress was submitted from.
SubmitPlaces(to) ==
  CASE to = "Intent" -> {"idle"}
    [] to = "MayOwnCustody" -> {"spawned"}
    [] to = "MayOwnPrepare" -> {"attested"}
    [] to = "Extend" -> {"active"}
    [] to = "CleanupConfirmed" -> {"reaped"}
    [] OTHER -> {"withdrawn", "removed"}

SubmitInv ==
  op.by = "owner" =>
    own[op.ctx] \in IF op.late THEN {"held"} ELSE SubmitPlaces(op.to)

\* Without a serving process there are no owners, beliefs, messages or workers.
DormantInv ==
  ~Serving =>
    /\ own = [c \in Contexts |-> "idle"]
    /\ attested = {} /\ workers = {}
    /\ gate = Quiet /\ msg = Quiet

\* The gate: what is stored is what was attested, up to the one mutation in doubt.
Publishers == {"publishing", "ending", "reaped", "confirmed", "held"}
Removers == {"removing", "unsure", "retry"}
GateInv ==
  /\ msg \in {Quiet, gate}
  /\ gate.kind = "none" => gate = Quiet /\ (Serving => stored = attested)
  /\ gate.kind = "publish" =>
       /\ gate.ctx \in Contexts \ attested
       /\ stored \in {attested, attested \cup {gate.ctx}}
       /\ msg = gate => stored = attested
       /\ own[gate.ctx] \in Publishers
  /\ gate.kind = "remove" =>
       /\ gate.ctx \in attested
       /\ stored \in {attested, attested \ {gate.ctx}}
       /\ own[gate.ctx] \in Removers
  /\ \A c \in Contexts : own[c] = "publishing" => gate = Mutation("publish", c)
  /\ \A c \in Contexts : own[c] \in Removers => gate = Mutation("remove", c)
  /\ \A c \in Contexts : own[c] = "attested" => c \in attested

\* c is one of HeldContexts.
Holds(c) ==
  \/ c \in workers \cup stored
  \/ \E l \in inside : l[1] = c
  \/ msg = Mutation("publish", c)
  \/ <<c, "extension">> \in birth
  \/ <<c, "base">> \in birth /\ own[c] \in {"birthing", "ending"}

\* Where an owner stands when something of its context exists.
AttestedAt(c) ==
  c \in attested => own[c] \in
    { "attested", "armed", "birthing", "active", "extending", "extension_birthing",
      "ending", "reaped", "confirmed", "held" } \cup Removers
WorkerAt(c) ==
  c \in workers => own[c] \in
    { "spawned", "refused", "custody", "publishing", "attested", "armed", "birthing",
      "active", "extending", "extension_birthing", "ending", "held" }
InsideAt(c) ==
  Serving /\ (\E l \in inside : l[1] = c) =>
    own[c] \in {"active", "extending", "extension_birthing", "ending", "held"}
ExtensionAt(c) ==
  Serving /\ <<c, "extension">> \in birth => own[c] \in {"extension_birthing", "ending"}
BaseAt(c) ==
  <<c, "base">> \in birth => own[c] \in {"idle", "birthing", "ending", "held"}

ResourceInv ==
  \A c \in Contexts :
    AttestedAt(c) /\ WorkerAt(c) /\ InsideAt(c) /\ ExtensionAt(c) /\ BaseAt(c)

\* What exists is explained by the journal file, whoever serves it.
HeldClaimed(c) == Holds(c) => durable[c].phase \notin {"None", "Absent"}
StoredMarked(c) ==
  (c \in stored \/ msg = Mutation("publish", c)) =>
    durable[c].phase \in MayOwn \cup {"CleanupConfirmed"}
ArmedStored(c) == durable[c].phase = "MayOwnPrepare" => c \in stored
ExtensionArmed(c) ==
  <<c, "extension">> \in birth => durable[c].phase = "MayOwnPrepare" /\ durable[c].extended
BaseArmed(c) ==
  <<c, "base">> \in birth => durable[c].phase \notin {"None", "Intent", "MayOwnCustody"}

DurableInv ==
  \A c \in Contexts :
    HeldClaimed(c) /\ StoredMarked(c) /\ ArmedStored(c) /\ ExtensionArmed(c) /\ BaseArmed(c)

\* What an operation in progress will make durable is true already.
EvidenceInv ==
  ~idle =>
    /\ op.to = "MayOwnPrepare" => op.ctx \in attested
    /\ op.to = "CleanupConfirmed" => <<op.ctx, "extension">> \notin birth
    /\ op.to = "Absent" => ~Holds(op.ctx)

\* The stages of a startup.
StartupInv ==
  /\ (life = "down" \/ start \in {"opened", "reaping"}) => \A l \in inside : l[1] \in stored
  /\ \A c \in reaped : <<c, "extension">> \notin birth
  /\ reaped # {} => start # "none"
  /\ start = "removing" => Pending(durable) = {}
  /\ start = "sweeping" => Pending(mem) = {} /\ stored = {} /\ inside = {}

HelperInv ==
  /\ Shapes /\ LifeInv /\ OpInv /\ FileInv /\ PlaceInv /\ SubmitInv /\ DormantInv /\ GateInv
  /\ ResourceInv /\ DurableInv /\ EvidenceInv /\ StartupInv /\ RefusalExplained
-----------------------------------------------------------------------------
(* The journal's operators. *)

\* A journal operation turns a record into a record.
LEMMA AdvanceType ==
  ASSUME NEW rec \in OwnershipRecord, NEW to \in Moves
  PROVE  advance(rec, to) \in OwnershipRecord
BY DEF advance, OwnershipRecord, Moves, Phases, Origins

\* What an accepted operation makes of a record.
LEMMA AdmittedMoves ==
  ASSUME NEW s, NEW c, NEW to, admits(s, c, to)
  PROVE  \/ to = "Intent" /\ s[c].phase = "None"
         \/ to = "Extend" /\ s[c].phase = "MayOwnPrepare"
         \/ to = "MayOwnCustody" /\ s[c].phase = "Intent"
         \/ to = "MayOwnPrepare" /\ s[c].phase = "MayOwnCustody"
         \/ to = "CleanupConfirmed" /\ s[c].phase \in MayOwn
         \/ to = "Absent" /\ s[c].phase \in {"Intent", "CleanupConfirmed"}
BY DEF admits, Advances, MayOwn

\* Where a confirmed move leaves the owner and its record.
LEMMA MoveReached ==
  ASSUME NEW rec \in OwnershipRecord,
         NEW to \in { "Intent", "Extend", "MayOwnCustody", "MayOwnPrepare", "CleanupConfirmed",
                      "Absent" },
         to = "Extend" => rec.phase = "MayOwnPrepare"
  PROVE  \/ After(to) = "registered" /\ advance(rec, to).phase = "Intent"
         \/ After(to) = "custody" /\ advance(rec, to).phase = "MayOwnCustody"
         \/ After(to) = "armed" /\ advance(rec, to).phase = "MayOwnPrepare"
         \/ /\ After(to) = "extending"
            /\ advance(rec, to).phase = "MayOwnPrepare"
            /\ advance(rec, to).extended
         \/ After(to) = "confirmed" /\ advance(rec, to).phase = "CleanupConfirmed"
         \/ After(to) = "gone" /\ advance(rec, to).phase = "Absent"
<1>1. CASE to = "Intent"
  BY <1>1 DEF After, advance
<1>2. CASE to = "MayOwnCustody"
  BY <1>2 DEF After, advance
<1>3. CASE to = "MayOwnPrepare"
  BY <1>3 DEF After, advance
<1>4. CASE to = "Extend"
  <2>1. After(to) = "extending" /\ advance(rec, to).phase = "MayOwnPrepare"
    BY <1>4 DEF After, advance
  <2>2. advance(rec, to).extended
    BY <1>4 DEF advance
  <2> QED BY <2>1, <2>2
<1>5. CASE to = "CleanupConfirmed"
  BY <1>5 DEF After, advance
<1>6. CASE to = "Absent"
  BY <1>6 DEF After, advance
<1> QED BY <1>1, <1>2, <1>3, <1>4, <1>5, <1>6

-----------------------------------------------------------------------------
(* What the invariant says about one context. *)

\* An owner that has no operation in progress knows the record in the file.
LEMMA OwnerRecord ==
  ASSUME HelperInv, Serving, NEW c \in Contexts,
         own[c] \notin { "held", "idle", "spawned", "attested", "active", "reaped", "withdrawn",
                        "removed" }
  PROVE  durable[c] = mem[c]
<1> USE DEF HelperInv, idle
<1>1. CASE op.step = "renamed"
  <2>1. op.by = "owner" /\ op.ctx \in Contexts
    BY <1>1 DEF OpInv, Serving
  <2>2. op.ctx # c
    BY <2>1 DEF SubmitInv, SubmitPlaces
  <2> QED BY <1>1, <2>1, <2>2 DEF FileInv, Shapes, JournalTypeOK
<1>2. CASE op.step = "written"
  BY <1>2 DEF FileInv
<1>3. CASE idle
  BY <1>3 DEF FileInv, Serving
<1> QED BY <1>1, <1>2, <1>3 DEF Shapes, JournalTypeOK

\* A context whose pair is being removed has its cleanup confirmed.
LEMMA RemoverConfirmed ==
  ASSUME HelperInv, gate.kind = "remove"
  PROVE  gate.ctx \in Contexts /\ durable[gate.ctx].phase = "CleanupConfirmed"
<1>1. gate.ctx \in Contexts /\ own[gate.ctx] \in Removers
  BY DEF HelperInv, GateInv, Shapes
<1>2. Serving
  BY DEF HelperInv, DormantInv, Quiet
<1>3. durable[gate.ctx] = mem[gate.ctx]
  BY <1>1, <1>2, OwnerRecord DEF Removers
<1> QED BY <1>1, <1>2, <1>3 DEF HelperInv, PlaceInv, Removers


\* Register: HelperInv is kept.
LEMMA RegisterStep ==
  ASSUME HelperInv, NEW c \in Contexts, register(c)
  PROVE  HelperInv'
<1> USE JournalAssumption, CustodyAssumption DEF HelperInv, vars, journalVars, processVars,
                                                 worldVars, at, waiting, become, idle,
                                                 register, submit, compare_and_swap
<1>1. Shapes'
  BY DEF Shapes, JournalTypeOK, Moves, Phases
<1>2. LifeInv'
  BY DEF LifeInv
<1>3. OpInv'
  BY DEF OpInv, LifeInv, NoOperation
<1>4. FileInv'
  BY DEF FileInv, LifeInv, OpInv, Serving
<1>5. PlaceInv'
  BY DEF PlaceInv, Shapes, Serving, MayOwn
<1>6. SubmitInv'
  BY DEF SubmitInv, SubmitPlaces, Shapes
<1>7. DormantInv'
  BY DEF DormantInv, Serving
<1>8. GateInv'
  BY DEF GateInv, Publishers, Removers, Mutation, Quiet, Serving, Shapes
<1>9. ResourceInv'
  <2> SUFFICES ASSUME NEW x \in Contexts
               PROVE  (AttestedAt(x) /\ WorkerAt(x) /\ InsideAt(x) /\ ExtensionAt(x) /\ BaseAt(x))'
    BY DEF ResourceInv
  <2>1. AttestedAt(x)'
    BY DEF ResourceInv, AttestedAt, Removers, Shapes
  <2>2. WorkerAt(x)'
    BY DEF ResourceInv, WorkerAt, Shapes
  <2>3. InsideAt(x)'
    BY DEF ResourceInv, InsideAt, Serving, Shapes
  <2>4. ExtensionAt(x)'
    BY DEF ResourceInv, ExtensionAt, Serving, Shapes
  <2>5. BaseAt(x)'
    BY DEF ResourceInv, BaseAt, Shapes
  <2> QED BY <2>1, <2>2, <2>3, <2>4, <2>5
<1>10. DurableInv'
  <2> SUFFICES ASSUME NEW x \in Contexts
               PROVE  (/\ HeldClaimed(x) /\ StoredMarked(x) /\ ArmedStored(x)
                       /\ ExtensionArmed(x) /\ BaseArmed(x))'
    BY DEF DurableInv
  <2>1. HeldClaimed(x)'
    BY DEF DurableInv, HeldClaimed, Holds, Mutation, Shapes
  <2>2. StoredMarked(x)'
    BY DEF DurableInv, StoredMarked, Mutation, MayOwn
  <2>3. ArmedStored(x)'
    BY DEF DurableInv, ArmedStored
  <2>4. ExtensionArmed(x)'
    BY DEF DurableInv, ExtensionArmed
  <2>5. BaseArmed(x)'
    BY DEF DurableInv, BaseArmed
  <2> QED BY <2>1, <2>2, <2>3, <2>4, <2>5
<1>11. EvidenceInv'
  BY DEF EvidenceInv, Holds
<1>12. StartupInv'
  BY DEF StartupInv, Pending
<1>13. RefusalExplained'
  BY DEF RefusalExplained, Pending, restart_plan
<1> QED BY <1>1, <1>2, <1>3, <1>4, <1>5, <1>6, <1>7, <1>8, <1>9, <1>10, <1>11, <1>12, <1>13

\* Mark_custody: HelperInv is kept.
LEMMA Mark_custodyStep ==
  ASSUME HelperInv, NEW c \in Contexts, mark_custody(c)
  PROVE  HelperInv'
<1> USE JournalAssumption, CustodyAssumption DEF HelperInv, vars, journalVars, processVars,
                                                 worldVars, at, waiting, become, idle,
                                                 mark_custody, submit, compare_and_swap
<1>1. Shapes'
  BY DEF Shapes, JournalTypeOK, Moves, Phases
<1>2. LifeInv'
  BY DEF LifeInv
<1>3. OpInv'
  BY DEF OpInv, LifeInv, NoOperation
<1>4. FileInv'
  BY DEF FileInv, LifeInv, OpInv, Serving
<1>5. PlaceInv'
  BY DEF PlaceInv, Shapes, Serving, MayOwn
<1>6. SubmitInv'
  BY DEF SubmitInv, SubmitPlaces, Shapes
<1>7. DormantInv'
  BY DEF DormantInv, Serving
<1>8. GateInv'
  BY DEF GateInv, Publishers, Removers, Mutation, Quiet, Serving, Shapes
<1>9. ResourceInv'
  <2> SUFFICES ASSUME NEW x \in Contexts
               PROVE  (AttestedAt(x) /\ WorkerAt(x) /\ InsideAt(x) /\ ExtensionAt(x) /\ BaseAt(x))'
    BY DEF ResourceInv
  <2>1. AttestedAt(x)'
    BY DEF ResourceInv, AttestedAt, Removers, Shapes
  <2>2. WorkerAt(x)'
    BY DEF ResourceInv, WorkerAt, Shapes
  <2>3. InsideAt(x)'
    BY DEF ResourceInv, InsideAt, Serving, Shapes
  <2>4. ExtensionAt(x)'
    BY DEF ResourceInv, ExtensionAt, Serving, Shapes
  <2>5. BaseAt(x)'
    BY DEF ResourceInv, BaseAt, Shapes
  <2> QED BY <2>1, <2>2, <2>3, <2>4, <2>5
<1>10. DurableInv'
  <2> SUFFICES ASSUME NEW x \in Contexts
               PROVE  (/\ HeldClaimed(x) /\ StoredMarked(x) /\ ArmedStored(x)
                       /\ ExtensionArmed(x) /\ BaseArmed(x))'
    BY DEF DurableInv
  <2>1. HeldClaimed(x)'
    BY DEF DurableInv, HeldClaimed, Holds, Mutation, Shapes
  <2>2. StoredMarked(x)'
    BY DEF DurableInv, StoredMarked, Mutation, MayOwn
  <2>3. ArmedStored(x)'
    BY DEF DurableInv, ArmedStored
  <2>4. ExtensionArmed(x)'
    BY DEF DurableInv, ExtensionArmed
  <2>5. BaseArmed(x)'
    BY DEF DurableInv, BaseArmed
  <2> QED BY <2>1, <2>2, <2>3, <2>4, <2>5
<1>11. EvidenceInv'
  BY DEF EvidenceInv, Holds
<1>12. StartupInv'
  BY DEF StartupInv, Pending
<1>13. RefusalExplained'
  BY DEF RefusalExplained, Pending, restart_plan
<1> QED BY <1>1, <1>2, <1>3, <1>4, <1>5, <1>6, <1>7, <1>8, <1>9, <1>10, <1>11, <1>12, <1>13

\* Arm_custody: HelperInv is kept.
LEMMA Arm_custodyStep ==
  ASSUME HelperInv, NEW c \in Contexts, arm_custody(c)
  PROVE  HelperInv'
<1> USE JournalAssumption, CustodyAssumption DEF HelperInv, vars, journalVars, processVars,
                                                 worldVars, at, waiting, become, idle,
                                                 arm_custody, submit, compare_and_swap
<1>1. Shapes'
  BY DEF Shapes, JournalTypeOK, Moves, Phases
<1>2. LifeInv'
  BY DEF LifeInv
<1>3. OpInv'
  BY DEF OpInv, LifeInv, NoOperation
<1>4. FileInv'
  BY DEF FileInv, LifeInv, OpInv, Serving
<1>5. PlaceInv'
  BY DEF PlaceInv, Shapes, Serving, MayOwn
<1>6. SubmitInv'
  BY DEF SubmitInv, SubmitPlaces, Shapes
<1>7. DormantInv'
  BY DEF DormantInv, Serving
<1>8. GateInv'
  BY DEF GateInv, Publishers, Removers, Mutation, Quiet, Serving, Shapes
<1>9. ResourceInv'
  <2> SUFFICES ASSUME NEW x \in Contexts
               PROVE  (AttestedAt(x) /\ WorkerAt(x) /\ InsideAt(x) /\ ExtensionAt(x) /\ BaseAt(x))'
    BY DEF ResourceInv
  <2>1. AttestedAt(x)'
    BY DEF ResourceInv, AttestedAt, Removers, Shapes
  <2>2. WorkerAt(x)'
    BY DEF ResourceInv, WorkerAt, Shapes
  <2>3. InsideAt(x)'
    BY DEF ResourceInv, InsideAt, Serving, Shapes
  <2>4. ExtensionAt(x)'
    BY DEF ResourceInv, ExtensionAt, Serving, Shapes
  <2>5. BaseAt(x)'
    BY DEF ResourceInv, BaseAt, Shapes
  <2> QED BY <2>1, <2>2, <2>3, <2>4, <2>5
<1>10. DurableInv'
  <2> SUFFICES ASSUME NEW x \in Contexts
               PROVE  (/\ HeldClaimed(x) /\ StoredMarked(x) /\ ArmedStored(x)
                       /\ ExtensionArmed(x) /\ BaseArmed(x))'
    BY DEF DurableInv
  <2>1. HeldClaimed(x)'
    BY DEF DurableInv, HeldClaimed, Holds, Mutation, Shapes
  <2>2. StoredMarked(x)'
    BY DEF DurableInv, StoredMarked, Mutation, MayOwn
  <2>3. ArmedStored(x)'
    BY DEF DurableInv, ArmedStored
  <2>4. ExtensionArmed(x)'
    BY DEF DurableInv, ExtensionArmed
  <2>5. BaseArmed(x)'
    BY DEF DurableInv, BaseArmed
  <2> QED BY <2>1, <2>2, <2>3, <2>4, <2>5
<1>11. EvidenceInv'
  BY DEF EvidenceInv, GateInv
<1>12. StartupInv'
  BY DEF StartupInv, Pending
<1>13. RefusalExplained'
  BY DEF RefusalExplained, Pending, restart_plan
<1> QED BY <1>1, <1>2, <1>3, <1>4, <1>5, <1>6, <1>7, <1>8, <1>9, <1>10, <1>11, <1>12, <1>13

\* Extend_path: HelperInv is kept.
LEMMA Extend_pathStep ==
  ASSUME HelperInv, NEW c \in Contexts, extend_path(c)
  PROVE  HelperInv'
<1> USE JournalAssumption, CustodyAssumption DEF HelperInv, vars, journalVars, processVars,
                                                 worldVars, at, waiting, become, idle,
                                                 extend_path, submit, compare_and_swap
<1>1. Shapes'
  BY DEF Shapes, JournalTypeOK, Moves, Phases
<1>2. LifeInv'
  BY DEF LifeInv
<1>3. OpInv'
  BY DEF OpInv, LifeInv, NoOperation
<1>4. FileInv'
  BY DEF FileInv, LifeInv, OpInv, Serving
<1>5. PlaceInv'
  BY DEF PlaceInv, Shapes, Serving, MayOwn
<1>6. SubmitInv'
  BY DEF SubmitInv, SubmitPlaces, Shapes
<1>7. DormantInv'
  BY DEF DormantInv, Serving
<1>8. GateInv'
  BY DEF GateInv, Publishers, Removers, Mutation, Quiet, Serving, Shapes
<1>9. ResourceInv'
  <2> SUFFICES ASSUME NEW x \in Contexts
               PROVE  (AttestedAt(x) /\ WorkerAt(x) /\ InsideAt(x) /\ ExtensionAt(x) /\ BaseAt(x))'
    BY DEF ResourceInv
  <2>1. AttestedAt(x)'
    BY DEF ResourceInv, AttestedAt, Removers, Shapes
  <2>2. WorkerAt(x)'
    BY DEF ResourceInv, WorkerAt, Shapes
  <2>3. InsideAt(x)'
    BY DEF ResourceInv, InsideAt, Serving, Shapes
  <2>4. ExtensionAt(x)'
    BY DEF ResourceInv, ExtensionAt, Serving, Shapes
  <2>5. BaseAt(x)'
    BY DEF ResourceInv, BaseAt, Shapes
  <2> QED BY <2>1, <2>2, <2>3, <2>4, <2>5
<1>10. DurableInv'
  <2> SUFFICES ASSUME NEW x \in Contexts
               PROVE  (/\ HeldClaimed(x) /\ StoredMarked(x) /\ ArmedStored(x)
                       /\ ExtensionArmed(x) /\ BaseArmed(x))'
    BY DEF DurableInv
  <2>1. HeldClaimed(x)'
    BY DEF DurableInv, HeldClaimed, Holds, Mutation, Shapes
  <2>2. StoredMarked(x)'
    BY DEF DurableInv, StoredMarked, Mutation, MayOwn
  <2>3. ArmedStored(x)'
    BY DEF DurableInv, ArmedStored
  <2>4. ExtensionArmed(x)'
    BY DEF DurableInv, ExtensionArmed
  <2>5. BaseArmed(x)'
    BY DEF DurableInv, BaseArmed
  <2> QED BY <2>1, <2>2, <2>3, <2>4, <2>5
<1>11. EvidenceInv'
  BY DEF EvidenceInv, Holds
<1>12. StartupInv'
  BY DEF StartupInv, Pending
<1>13. RefusalExplained'
  BY DEF RefusalExplained, Pending, restart_plan
<1> QED BY <1>1, <1>2, <1>3, <1>4, <1>5, <1>6, <1>7, <1>8, <1>9, <1>10, <1>11, <1>12, <1>13

\* Retire_never_dispatched: HelperInv is kept.
LEMMA Retire_never_dispatchedStep ==
  ASSUME HelperInv, NEW c \in Contexts, retire_never_dispatched(c)
  PROVE  HelperInv'
<1> USE JournalAssumption, CustodyAssumption DEF HelperInv, vars, journalVars, processVars,
                                                 worldVars, at, waiting, become, idle,
                                                 retire_never_dispatched, submit,
                                                 compare_and_swap
<1>1. Shapes'
  BY DEF Shapes, JournalTypeOK, Moves, Phases
<1>2. LifeInv'
  BY DEF LifeInv
<1>3. OpInv'
  BY DEF OpInv, LifeInv, NoOperation
<1>4. FileInv'
  BY DEF FileInv, LifeInv, OpInv, Serving
<1>5. PlaceInv'
  BY DEF PlaceInv, Shapes, Serving, MayOwn
<1>6. SubmitInv'
  BY DEF SubmitInv, SubmitPlaces, Shapes
<1>7. DormantInv'
  BY DEF DormantInv, Serving
<1>8. GateInv'
  BY DEF GateInv, Publishers, Removers, Mutation, Quiet, Serving, Shapes
<1>9. ResourceInv'
  <2> SUFFICES ASSUME NEW x \in Contexts
               PROVE  (AttestedAt(x) /\ WorkerAt(x) /\ InsideAt(x) /\ ExtensionAt(x) /\ BaseAt(x))'
    BY DEF ResourceInv
  <2>1. AttestedAt(x)'
    BY DEF ResourceInv, AttestedAt, Removers, Shapes
  <2>2. WorkerAt(x)'
    BY DEF ResourceInv, WorkerAt, Shapes
  <2>3. InsideAt(x)'
    BY DEF ResourceInv, InsideAt, Serving, Shapes
  <2>4. ExtensionAt(x)'
    BY DEF ResourceInv, ExtensionAt, Serving, Shapes
  <2>5. BaseAt(x)'
    BY DEF ResourceInv, BaseAt, Shapes
  <2> QED BY <2>1, <2>2, <2>3, <2>4, <2>5
<1>10. DurableInv'
  <2> SUFFICES ASSUME NEW x \in Contexts
               PROVE  (/\ HeldClaimed(x) /\ StoredMarked(x) /\ ArmedStored(x)
                       /\ ExtensionArmed(x) /\ BaseArmed(x))'
    BY DEF DurableInv
  <2>1. HeldClaimed(x)'
    BY DEF DurableInv, HeldClaimed, Holds, Mutation, Shapes
  <2>2. StoredMarked(x)'
    BY DEF DurableInv, StoredMarked, Mutation, MayOwn
  <2>3. ArmedStored(x)'
    BY DEF DurableInv, ArmedStored
  <2>4. ExtensionArmed(x)'
    BY DEF DurableInv, ExtensionArmed
  <2>5. BaseArmed(x)'
    BY DEF DurableInv, BaseArmed
  <2> QED BY <2>1, <2>2, <2>3, <2>4, <2>5
<1>11. EvidenceInv'
  <2>1. Serving /\ mem[c].phase = "Intent"
    BY DEF PlaceInv, LifeInv, Serving
  <2>2. ~Holds(c)
    BY <2>1 DEF Holds, DurableInv, StoredMarked, MayOwn, ResourceInv, WorkerAt, InsideAt,
                ExtensionAt
  <2> QED BY <2>2 DEF EvidenceInv, Holds
<1>12. StartupInv'
  BY DEF StartupInv, Pending
<1>13. RefusalExplained'
  BY DEF RefusalExplained, Pending, restart_plan
<1> QED BY <1>1, <1>2, <1>3, <1>4, <1>5, <1>6, <1>7, <1>8, <1>9, <1>10, <1>11, <1>12, <1>13

\* Confirm_cleanup: HelperInv is kept.
LEMMA Confirm_cleanupStep ==
  ASSUME HelperInv, NEW c \in Contexts, confirm_cleanup(c)
  PROVE  HelperInv'
<1> USE JournalAssumption, CustodyAssumption DEF HelperInv, vars, journalVars, processVars,
                                                 worldVars, at, waiting, become, idle,
                                                 confirm_cleanup, submit, compare_and_swap
<1>1. Shapes'
  BY DEF Shapes, JournalTypeOK, Moves, Phases
<1>2. LifeInv'
  BY DEF LifeInv
<1>3. OpInv'
  BY DEF OpInv, LifeInv, NoOperation
<1>4. FileInv'
  BY DEF FileInv, LifeInv, OpInv, Serving
<1>5. PlaceInv'
  BY DEF PlaceInv, Shapes, Serving, MayOwn
<1>6. SubmitInv'
  BY DEF SubmitInv, SubmitPlaces, Shapes
<1>7. DormantInv'
  BY DEF DormantInv, Serving
<1>8. GateInv'
  BY DEF GateInv, Publishers, Removers, Mutation, Quiet, Serving, Shapes
<1>9. ResourceInv'
  <2> SUFFICES ASSUME NEW x \in Contexts
               PROVE  (AttestedAt(x) /\ WorkerAt(x) /\ InsideAt(x) /\ ExtensionAt(x) /\ BaseAt(x))'
    BY DEF ResourceInv
  <2>1. AttestedAt(x)'
    BY DEF ResourceInv, AttestedAt, Removers, Shapes
  <2>2. WorkerAt(x)'
    BY DEF ResourceInv, WorkerAt, Shapes
  <2>3. InsideAt(x)'
    BY DEF ResourceInv, InsideAt, Serving, Shapes
  <2>4. ExtensionAt(x)'
    BY DEF ResourceInv, ExtensionAt, Serving, Shapes
  <2>5. BaseAt(x)'
    BY DEF ResourceInv, BaseAt, Shapes
  <2> QED BY <2>1, <2>2, <2>3, <2>4, <2>5
<1>10. DurableInv'
  <2> SUFFICES ASSUME NEW x \in Contexts
               PROVE  (/\ HeldClaimed(x) /\ StoredMarked(x) /\ ArmedStored(x)
                       /\ ExtensionArmed(x) /\ BaseArmed(x))'
    BY DEF DurableInv
  <2>1. HeldClaimed(x)'
    BY DEF DurableInv, HeldClaimed, Holds, Mutation, Shapes
  <2>2. StoredMarked(x)'
    BY DEF DurableInv, StoredMarked, Mutation, MayOwn
  <2>3. ArmedStored(x)'
    BY DEF DurableInv, ArmedStored
  <2>4. ExtensionArmed(x)'
    BY DEF DurableInv, ExtensionArmed
  <2>5. BaseArmed(x)'
    BY DEF DurableInv, BaseArmed
  <2> QED BY <2>1, <2>2, <2>3, <2>4, <2>5
<1>11. EvidenceInv'
  BY DEF EvidenceInv, ResourceInv, ExtensionAt, LifeInv, Serving
<1>12. StartupInv'
  BY DEF StartupInv, Pending
<1>13. RefusalExplained'
  BY DEF RefusalExplained, Pending, restart_plan
<1> QED BY <1>1, <1>2, <1>3, <1>4, <1>5, <1>6, <1>7, <1>8, <1>9, <1>10, <1>11, <1>12, <1>13

\* Confirm_manager_absent: HelperInv is kept.
LEMMA Confirm_manager_absentStep ==
  ASSUME HelperInv, NEW c \in Contexts, confirm_manager_absent(c)
  PROVE  HelperInv'
<1> USE JournalAssumption, CustodyAssumption DEF HelperInv, vars, journalVars, processVars,
                                                 worldVars, at, waiting, become, idle,
                                                 confirm_manager_absent, submit,
                                                 compare_and_swap
<1>1. Shapes'
  BY DEF Shapes, JournalTypeOK, Moves, Phases
<1>2. LifeInv'
  BY DEF LifeInv
<1>3. OpInv'
  BY DEF OpInv, LifeInv, NoOperation
<1>4. FileInv'
  BY DEF FileInv, LifeInv, OpInv, Serving
<1>5. PlaceInv'
  BY DEF PlaceInv, Shapes, Serving, MayOwn
<1>6. SubmitInv'
  BY DEF SubmitInv, SubmitPlaces, Shapes
<1>7. DormantInv'
  BY DEF DormantInv, Serving
<1>8. GateInv'
  BY DEF GateInv, Publishers, Removers, Mutation, Quiet, Serving, Shapes
<1>9. ResourceInv'
  <2> SUFFICES ASSUME NEW x \in Contexts
               PROVE  (AttestedAt(x) /\ WorkerAt(x) /\ InsideAt(x) /\ ExtensionAt(x) /\ BaseAt(x))'
    BY DEF ResourceInv
  <2>1. AttestedAt(x)'
    BY DEF ResourceInv, AttestedAt, Removers, Shapes
  <2>2. WorkerAt(x)'
    BY DEF ResourceInv, WorkerAt, Shapes
  <2>3. InsideAt(x)'
    BY DEF ResourceInv, InsideAt, Serving, Shapes
  <2>4. ExtensionAt(x)'
    BY DEF ResourceInv, ExtensionAt, Serving, Shapes
  <2>5. BaseAt(x)'
    BY DEF ResourceInv, BaseAt, Shapes
  <2> QED BY <2>1, <2>2, <2>3, <2>4, <2>5
<1>10. DurableInv'
  <2> SUFFICES ASSUME NEW x \in Contexts
               PROVE  (/\ HeldClaimed(x) /\ StoredMarked(x) /\ ArmedStored(x)
                       /\ ExtensionArmed(x) /\ BaseArmed(x))'
    BY DEF DurableInv
  <2>1. HeldClaimed(x)'
    BY DEF DurableInv, HeldClaimed, Holds, Mutation, Shapes
  <2>2. StoredMarked(x)'
    BY DEF DurableInv, StoredMarked, Mutation, MayOwn
  <2>3. ArmedStored(x)'
    BY DEF DurableInv, ArmedStored
  <2>4. ExtensionArmed(x)'
    BY DEF DurableInv, ExtensionArmed
  <2>5. BaseArmed(x)'
    BY DEF DurableInv, BaseArmed
  <2> QED BY <2>1, <2>2, <2>3, <2>4, <2>5
<1>11. EvidenceInv'
  <2>1. Serving
    BY DEF LifeInv, Serving
  <2>2. c \notin stored /\ msg # Mutation("publish", c)
    BY <2>1 DEF GateInv, Publishers, Removers, ResourceInv, AttestedAt, Mutation, Quiet, Shapes
  <2>3. ~Holds(c)
    BY <2>1, <2>2 DEF Holds, ResourceInv, WorkerAt, InsideAt, ExtensionAt
  <2> QED BY <2>3 DEF EvidenceInv, Holds
<1>12. StartupInv'
  BY DEF StartupInv, Pending
<1>13. RefusalExplained'
  BY DEF RefusalExplained, Pending, restart_plan
<1> QED BY <1>1, <1>2, <1>3, <1>4, <1>5, <1>6, <1>7, <1>8, <1>9, <1>10, <1>11, <1>12, <1>13

\* Rename: HelperInv is kept.
LEMMA RenameStep ==
  ASSUME HelperInv, Rename
  PROVE  HelperInv'
<1> USE JournalAssumption, CustodyAssumption DEF HelperInv, vars, journalVars, processVars,
                                                 worldVars, at, waiting, become, idle, Rename,
                                                 rename, advance, admits, Advances
<1>1. Shapes'
  <2>1. advance(mem[op.ctx], op.to) \in OwnershipRecord
    BY AdvanceType DEF Shapes, JournalTypeOK, OpInv
  <2> HIDE DEF advance
  <2>2. durable' \in [Contexts -> OwnershipRecord]
    BY <2>1 DEF Shapes, JournalTypeOK
  <2>3. JournalTypeOK'
    BY <2>2 DEF Shapes, JournalTypeOK
  <2> QED BY <2>3 DEF Shapes
<1>2. LifeInv'
  BY DEF LifeInv
<1>3. OpInv'
  BY DEF OpInv, LifeInv, NoOperation
<1>4. FileInv'
  BY DEF FileInv, LifeInv, OpInv, Serving
<1>5. PlaceInv'
  BY DEF PlaceInv, Shapes, Serving, MayOwn
<1>6. SubmitInv'
  BY DEF SubmitInv, SubmitPlaces, Shapes
<1>7. DormantInv'
  BY DEF DormantInv, Serving
<1>8. GateInv'
  BY DEF GateInv, Publishers, Removers, Mutation, Quiet, Serving, Shapes
<1>9. ResourceInv'
  <2> SUFFICES ASSUME NEW x \in Contexts
               PROVE  (AttestedAt(x) /\ WorkerAt(x) /\ InsideAt(x) /\ ExtensionAt(x) /\ BaseAt(x))'
    BY DEF ResourceInv
  <2>1. AttestedAt(x)'
    BY DEF ResourceInv, AttestedAt, Removers, Shapes
  <2>2. WorkerAt(x)'
    BY DEF ResourceInv, WorkerAt, Shapes
  <2>3. InsideAt(x)'
    BY DEF ResourceInv, InsideAt, Serving, Shapes
  <2>4. ExtensionAt(x)'
    BY DEF ResourceInv, ExtensionAt, Serving, Shapes
  <2>5. BaseAt(x)'
    BY DEF ResourceInv, BaseAt, Shapes
  <2> QED BY <2>1, <2>2, <2>3, <2>4, <2>5
<1>10. DurableInv'
  <2> SUFFICES ASSUME NEW x \in Contexts
               PROVE  (/\ HeldClaimed(x) /\ StoredMarked(x) /\ ArmedStored(x)
                       /\ ExtensionArmed(x) /\ BaseArmed(x))'
    BY DEF DurableInv
  <2>1. HeldClaimed(x)'
    <3>1. op.ctx \in Contexts /\ mem[op.ctx] = durable[op.ctx]
      BY DEF OpInv, FileInv
    <3>2. durable'[x] = IF x = op.ctx THEN advance(mem[op.ctx], op.to) ELSE durable[x]
      BY <3>1 DEF Shapes, JournalTypeOK
    <3>3. CASE x = op.ctx
      BY <3>1, <3>2, <3>3, AdmittedMoves DEF OpInv, EvidenceInv, DurableInv, HeldClaimed,
                                             Holds, MayOwn
    <3> QED BY <3>2, <3>3 DEF DurableInv, HeldClaimed, Holds
  <2>2. StoredMarked(x)'
    <3>1. op.ctx \in Contexts /\ mem[op.ctx] = durable[op.ctx]
      BY DEF OpInv, FileInv
    <3>2. durable'[x] = IF x = op.ctx THEN advance(mem[op.ctx], op.to) ELSE durable[x]
      BY <3>1 DEF Shapes, JournalTypeOK
    <3>3. CASE x = op.ctx
      BY <3>1, <3>2, <3>3, AdmittedMoves DEF OpInv, EvidenceInv, DurableInv, StoredMarked,
                                             Holds, MayOwn
    <3> QED BY <3>2, <3>3 DEF DurableInv, StoredMarked
  <2>3. ArmedStored(x)'
    <3>1. op.ctx \in Contexts /\ mem[op.ctx] = durable[op.ctx]
      BY DEF OpInv, FileInv
    <3>2. durable'[x] = IF x = op.ctx THEN advance(mem[op.ctx], op.to) ELSE durable[x]
      BY <3>1 DEF Shapes, JournalTypeOK
    <3>3. op.to = "MayOwnPrepare" => op.ctx \in stored
      <4> SUFFICES ASSUME op.to = "MayOwnPrepare" PROVE op.ctx \in stored
        OBVIOUS
      <4>1. op.ctx \in attested /\ Serving /\ own[op.ctx] \notin Removers
        BY DEF OpInv, EvidenceInv, SubmitInv, SubmitPlaces, Removers, LifeInv, Serving
      <4> QED BY <4>1 DEF GateInv, Shapes
    <3>4. CASE x = op.ctx
      BY <3>1, <3>2, <3>3, <3>4, AdmittedMoves DEF OpInv, DurableInv, ArmedStored, MayOwn
    <3> QED BY <3>2, <3>4 DEF DurableInv, ArmedStored
  <2>4. ExtensionArmed(x)'
    <3>1. op.ctx \in Contexts /\ mem[op.ctx] = durable[op.ctx]
      BY DEF OpInv, FileInv
    <3>2. durable'[x] = IF x = op.ctx THEN advance(mem[op.ctx], op.to) ELSE durable[x]
      BY <3>1 DEF Shapes, JournalTypeOK
    <3>3. CASE x = op.ctx
      BY <3>1, <3>2, <3>3, AdmittedMoves DEF OpInv, EvidenceInv, DurableInv, ExtensionArmed,
                                             Holds, MayOwn
    <3> QED BY <3>2, <3>3 DEF DurableInv, ExtensionArmed
  <2>5. BaseArmed(x)'
    <3>1. op.ctx \in Contexts /\ mem[op.ctx] = durable[op.ctx]
      BY DEF OpInv, FileInv
    <3>2. durable'[x] = IF x = op.ctx THEN advance(mem[op.ctx], op.to) ELSE durable[x]
      BY <3>1 DEF Shapes, JournalTypeOK
    <3>3. CASE x = op.ctx
      BY <3>1, <3>2, <3>3, AdmittedMoves DEF OpInv, DurableInv, BaseArmed, MayOwn
    <3> QED BY <3>2, <3>3 DEF DurableInv, BaseArmed
  <2> QED BY <2>1, <2>2, <2>3, <2>4, <2>5
<1>11. EvidenceInv'
  BY DEF EvidenceInv, Holds
<1>12. StartupInv'
  BY DEF StartupInv, LifeInv
<1>13. RefusalExplained'
  BY DEF RefusalExplained, LifeInv
<1> QED BY <1>1, <1>2, <1>3, <1>4, <1>5, <1>6, <1>7, <1>8, <1>9, <1>10, <1>11, <1>12, <1>13

\* Persisted: HelperInv is kept.
LEMMA PersistedStep ==
  ASSUME HelperInv, Persisted
  PROVE  HelperInv'
<1> USE JournalAssumption, CustodyAssumption DEF HelperInv, vars, journalVars, processVars,
                                                 worldVars, at, waiting, become, idle,
                                                 Persisted, persisted, advance, After, admits,
                                                 Advances
<1>1. Shapes'
  <2>1. advance(mem[op.ctx], op.to) \in OwnershipRecord /\ op.ctx \in Contexts
    BY AdvanceType DEF Shapes, JournalTypeOK, OpInv
  <2>2. op.to \in {"Intent", "Extend", "MayOwnCustody", "MayOwnPrepare", "CleanupConfirmed", "Absent"}
    BY AdmittedMoves DEF OpInv
  <2>3. After(op.to) \in Owner \ {"idle"}
    BY <2>2 DEF Owner
  <2> HIDE DEF advance, After
  <2>4. own' \in [Contexts -> Owner] /\ attested' \subseteq Contexts
    BY <2>1, <2>3 DEF Shapes
  <2>5. JournalTypeOK'
    BY <2>1 DEF Shapes, JournalTypeOK, NoOperation, Moves, Phases
  <2> QED BY <2>4, <2>5 DEF Shapes
<1>2. LifeInv'
  BY DEF LifeInv
<1>3. OpInv'
  BY DEF OpInv, LifeInv, NoOperation
<1>4. FileInv'
  BY DEF FileInv, NoOperation
<1>5. PlaceInv'
  <2>1. op.ctx \in Contexts /\ mem' = [mem EXCEPT ![op.ctx] = advance(mem[op.ctx], op.to)]
    BY DEF OpInv
  <2>2. CASE op.by = "owner" /\ ~op.late
    <3>1. own[op.ctx] \in SubmitPlaces(op.to)
      BY <2>2 DEF SubmitInv
    <3>2. \A x \in Contexts \ {op.ctx} : own'[x] = own[x] /\ mem'[x] = mem[x]
      BY <2>1, <2>2 DEF Shapes, JournalTypeOK
    <3>3. own'[op.ctx] = After(op.to) /\ mem'[op.ctx] = advance(mem[op.ctx], op.to)
      BY <2>1, <2>2 DEF Shapes, JournalTypeOK
    <3>4. \/ own'[op.ctx] = "registered" /\ mem'[op.ctx].phase = "Intent"
          \/ own'[op.ctx] = "custody" /\ mem'[op.ctx].phase = "MayOwnCustody"
          \/ own'[op.ctx] = "armed" /\ mem'[op.ctx].phase = "MayOwnPrepare"
          \/ own'[op.ctx] = "extending" /\ mem'[op.ctx].phase = "MayOwnPrepare" /\ mem'[op.ctx].extended
          \/ own'[op.ctx] = "confirmed" /\ mem'[op.ctx].phase = "CleanupConfirmed"
          \/ own'[op.ctx] = "gone" /\ mem'[op.ctx].phase = "Absent"
      <4>1. /\ op.to \in { "Intent", "Extend", "MayOwnCustody", "MayOwnPrepare",
                           "CleanupConfirmed", "Absent" }
            /\ op.to = "Extend" => mem[op.ctx].phase = "MayOwnPrepare"
        BY AdmittedMoves DEF OpInv
      <4>2. mem[op.ctx] \in OwnershipRecord
        BY <2>1 DEF Shapes, JournalTypeOK
      <4> HIDE DEF advance, After, admits, Advances
      <4> QED BY <3>3, <4>1, <4>2, MoveReached
    <3> QED BY <3>2, <3>4 DEF PlaceInv, Serving
  <2>3. CASE op.by = "owner" /\ op.late
    BY <2>1, <2>3 DEF PlaceInv, Serving, SubmitInv, Shapes, JournalTypeOK
  <2>4. CASE op.by = "startup"
    BY <2>4 DEF PlaceInv, Serving, OpInv
  <2> QED BY <2>2, <2>3, <2>4 DEF OpInv
<1>6. SubmitInv'
  BY DEF SubmitInv, NoOperation
<1>7. DormantInv'
  BY DEF DormantInv, Serving, OpInv
<1>8. GateInv'
  BY DEF GateInv, Publishers, Removers, Serving, Shapes, OpInv, SubmitInv, SubmitPlaces
<1>9. ResourceInv'
  <2> SUFFICES ASSUME NEW x \in Contexts
               PROVE  (AttestedAt(x) /\ WorkerAt(x) /\ InsideAt(x) /\ ExtensionAt(x) /\ BaseAt(x))'
    BY DEF ResourceInv
  <2>1. AttestedAt(x)'
    BY DEF ResourceInv, AttestedAt, Removers, Shapes, SubmitInv, SubmitPlaces
  <2>2. WorkerAt(x)'
    BY DEF ResourceInv, WorkerAt, Shapes, SubmitInv, SubmitPlaces
  <2>3. InsideAt(x)'
    BY DEF ResourceInv, InsideAt, Serving, Shapes, SubmitInv, SubmitPlaces
  <2>4. ExtensionAt(x)'
    BY DEF ResourceInv, ExtensionAt, Serving, Shapes, SubmitInv, SubmitPlaces
  <2>5. BaseAt(x)'
    <3>1. CASE x = op.ctx /\ op.by = "owner" /\ ~op.late
      <4>1. own[x] \in SubmitPlaces(op.to) /\ durable[x] = advance(mem[x], op.to)
        BY <3>1 DEF SubmitInv, FileInv, Shapes, JournalTypeOK
      <4> QED BY <3>1, <4>1 DEF DurableInv, BaseArmed, ResourceInv, BaseAt, SubmitPlaces
    <3>2. CASE ~(x = op.ctx /\ op.by = "owner" /\ ~op.late)
      BY <3>2 DEF ResourceInv, BaseAt, Shapes
    <3> QED BY <3>1, <3>2
  <2> QED BY <2>1, <2>2, <2>3, <2>4, <2>5
<1>10. DurableInv'
  <2> SUFFICES ASSUME NEW x \in Contexts
               PROVE  (/\ HeldClaimed(x) /\ StoredMarked(x) /\ ArmedStored(x)
                       /\ ExtensionArmed(x) /\ BaseArmed(x))'
    BY DEF DurableInv
  <2>1. HeldClaimed(x)'
    BY DEF DurableInv, HeldClaimed, Holds, Shapes, OpInv
  <2>2. StoredMarked(x)'
    BY DEF DurableInv, StoredMarked, Mutation, MayOwn
  <2>3. ArmedStored(x)'
    BY DEF DurableInv, ArmedStored
  <2>4. ExtensionArmed(x)'
    BY DEF DurableInv, ExtensionArmed
  <2>5. BaseArmed(x)'
    BY DEF DurableInv, BaseArmed
  <2> QED BY <2>1, <2>2, <2>3, <2>4, <2>5
<1>11. EvidenceInv'
  BY DEF EvidenceInv, NoOperation
<1>12. StartupInv'
  BY DEF StartupInv, Pending, OpInv, MayOwn
<1>13. RefusalExplained'
  BY DEF RefusalExplained, Pending, restart_plan
<1> QED BY <1>1, <1>2, <1>3, <1>4, <1>5, <1>6, <1>7, <1>8, <1>9, <1>10, <1>11, <1>12, <1>13

\* PersistFailed: HelperInv is kept.
LEMMA PersistFailedStep ==
  ASSUME HelperInv, PersistFailed
  PROVE  HelperInv'
<1> USE JournalAssumption, CustodyAssumption DEF HelperInv, vars, journalVars, processVars,
                                                 worldVars, at, waiting, become, idle,
                                                 PersistFailed, persist_failed, AfterFailure
<1>1. Shapes'
  <2>1. op.by = "owner" =>
          /\ AfterFailure(own[op.ctx]) \in Owner
          /\ AfterFailure(own[op.ctx]) = "idle" => own[op.ctx] = "idle"
    BY DEF Shapes, Owner, OpInv
  <2>2. own' \in [Contexts -> Owner] /\ attested' \subseteq Contexts
    BY <2>1 DEF Shapes, OpInv
  <2>3. JournalTypeOK'
    <3>1. errors' \in 0..MaxErrors
      BY DEF Shapes, JournalTypeOK
    <3> QED BY <3>1 DEF Shapes, JournalTypeOK, NoOperation, Moves, Phases
  <2> QED BY <2>2, <2>3 DEF Shapes
<1>2. LifeInv'
  BY DEF LifeInv, Shapes, OpInv, Serving, NoOperation, Mutation, Quiet
<1>3. OpInv'
  BY DEF OpInv, LifeInv, NoOperation
<1>4. FileInv'
  BY DEF FileInv, NoOperation
<1>5. PlaceInv'
  BY DEF PlaceInv, Shapes, Serving, MayOwn
<1>6. SubmitInv'
  BY DEF SubmitInv, NoOperation
<1>7. DormantInv'
  BY DEF DormantInv, Serving, OpInv
<1>8. GateInv'
  BY DEF GateInv, Publishers, Removers, Mutation, Quiet, Serving, Shapes
<1>9. ResourceInv'
  <2> SUFFICES ASSUME NEW x \in Contexts
               PROVE  (AttestedAt(x) /\ WorkerAt(x) /\ InsideAt(x) /\ ExtensionAt(x) /\ BaseAt(x))'
    BY DEF ResourceInv
  <2>1. AttestedAt(x)'
    BY DEF ResourceInv, AttestedAt, Removers, Shapes
  <2>2. WorkerAt(x)'
    BY DEF ResourceInv, WorkerAt, Shapes
  <2>3. InsideAt(x)'
    BY DEF ResourceInv, InsideAt, Serving, Shapes
  <2>4. ExtensionAt(x)'
    BY DEF ResourceInv, ExtensionAt, Serving, Shapes
  <2>5. BaseAt(x)'
    BY DEF ResourceInv, BaseAt, Shapes
  <2> QED BY <2>1, <2>2, <2>3, <2>4, <2>5
<1>10. DurableInv'
  <2> SUFFICES ASSUME NEW x \in Contexts
               PROVE  (/\ HeldClaimed(x) /\ StoredMarked(x) /\ ArmedStored(x)
                       /\ ExtensionArmed(x) /\ BaseArmed(x))'
    BY DEF DurableInv
  <2>1. HeldClaimed(x)'
    BY DEF DurableInv, HeldClaimed, Holds, Shapes, FileInv, PlaceInv, DormantInv
  <2>2. StoredMarked(x)'
    BY DEF DurableInv, StoredMarked, Mutation, MayOwn
  <2>3. ArmedStored(x)'
    BY DEF DurableInv, ArmedStored
  <2>4. ExtensionArmed(x)'
    BY DEF DurableInv, ExtensionArmed
  <2>5. BaseArmed(x)'
    BY DEF DurableInv, BaseArmed
  <2> QED BY <2>1, <2>2, <2>3, <2>4, <2>5
<1>11. EvidenceInv'
  BY DEF EvidenceInv, NoOperation
<1>12. StartupInv'
  BY DEF StartupInv, Pending
<1>13. RefusalExplained'
  BY DEF RefusalExplained, Pending, restart_plan
<1> QED BY <1>1, <1>2, <1>3, <1>4, <1>5, <1>6, <1>7, <1>8, <1>9, <1>10, <1>11, <1>12, <1>13

\* PersistUncertain: HelperInv is kept.
LEMMA PersistUncertainStep ==
  ASSUME HelperInv, PersistUncertain
  PROVE  HelperInv'
<1> USE JournalAssumption, CustodyAssumption DEF HelperInv, vars, journalVars, processVars,
                                                 worldVars, at, waiting, become, idle,
                                                 PersistUncertain, persist_uncertain
<1>1. Shapes'
  <2>1. op.by = "owner" => "held" \in Owner /\ ("held" = "idle" => own[op.ctx] = "idle")
    BY DEF Shapes, Owner, OpInv
  <2>2. own' \in [Contexts -> Owner] /\ attested' \subseteq Contexts
    BY <2>1 DEF Shapes, OpInv
  <2>3. JournalTypeOK'
    <3>1. errors' \in 0..MaxErrors
      BY DEF Shapes, JournalTypeOK
    <3> QED BY <3>1 DEF Shapes, JournalTypeOK, NoOperation, Moves, Phases
  <2> QED BY <2>2, <2>3 DEF Shapes
<1>2. LifeInv'
  BY DEF LifeInv
<1>3. OpInv'
  BY DEF OpInv, LifeInv, NoOperation
<1>4. FileInv'
  BY DEF FileInv, LifeInv, OpInv, Serving, Shapes, NoOperation, JournalTypeOK
<1>5. PlaceInv'
  BY DEF PlaceInv, Shapes, Serving, LifeInv, OpInv
<1>6. SubmitInv'
  BY DEF SubmitInv, NoOperation
<1>7. DormantInv'
  BY DEF DormantInv, Serving, OpInv
<1>8. GateInv'
  BY DEF GateInv, Publishers, Removers, Serving, Shapes, LifeInv, OpInv, SubmitInv, SubmitPlaces
<1>9. ResourceInv'
  <2> SUFFICES ASSUME NEW x \in Contexts
               PROVE  (AttestedAt(x) /\ WorkerAt(x) /\ InsideAt(x) /\ ExtensionAt(x) /\ BaseAt(x))'
    BY DEF ResourceInv
  <2>1. AttestedAt(x)'
    BY DEF ResourceInv, AttestedAt, Removers, Shapes
  <2>2. WorkerAt(x)'
    BY DEF ResourceInv, WorkerAt, Shapes
  <2>3. InsideAt(x)'
    BY DEF ResourceInv, InsideAt, Serving, Shapes, LifeInv, OpInv
  <2>4. ExtensionAt(x)'
    BY DEF ResourceInv, ExtensionAt, Serving, Shapes, LifeInv, OpInv, SubmitInv, SubmitPlaces
  <2>5. BaseAt(x)'
    BY DEF ResourceInv, BaseAt, Shapes
  <2> QED BY <2>1, <2>2, <2>3, <2>4, <2>5
<1>10. DurableInv'
  <2> SUFFICES ASSUME NEW x \in Contexts
               PROVE  (/\ HeldClaimed(x) /\ StoredMarked(x) /\ ArmedStored(x)
                       /\ ExtensionArmed(x) /\ BaseArmed(x))'
    BY DEF DurableInv
  <2>1. HeldClaimed(x)'
    BY DEF DurableInv, HeldClaimed, Holds, Mutation, Shapes
  <2>2. StoredMarked(x)'
    BY DEF DurableInv, StoredMarked, Mutation, MayOwn
  <2>3. ArmedStored(x)'
    BY DEF DurableInv, ArmedStored
  <2>4. ExtensionArmed(x)'
    BY DEF DurableInv, ExtensionArmed
  <2>5. BaseArmed(x)'
    BY DEF DurableInv, BaseArmed
  <2> QED BY <2>1, <2>2, <2>3, <2>4, <2>5
<1>11. EvidenceInv'
  BY DEF EvidenceInv, NoOperation
<1>12. StartupInv'
  BY DEF StartupInv, Pending
<1>13. RefusalExplained'
  BY DEF RefusalExplained, Pending, restart_plan
<1> QED BY <1>1, <1>2, <1>3, <1>4, <1>5, <1>6, <1>7, <1>8, <1>9, <1>10, <1>11, <1>12, <1>13

\* LateReply: HelperInv is kept.
LEMMA LateReplyStep ==
  ASSUME HelperInv, LateReply
  PROVE  HelperInv'
<1> USE JournalAssumption, CustodyAssumption DEF HelperInv, vars, journalVars, processVars,
                                                 worldVars, at, waiting, become, idle,
                                                 LateReply, late_reply
<1>1. Shapes'
  BY DEF Shapes, JournalTypeOK, Owner, LifeInv, OpInv, NoOperation
<1>2. LifeInv'
  BY DEF LifeInv
<1>3. OpInv'
  BY DEF OpInv, LifeInv, NoOperation
<1>4. FileInv'
  BY DEF FileInv, LifeInv, OpInv, Serving
<1>5. PlaceInv'
  BY DEF PlaceInv, Serving, OpInv
<1>6. SubmitInv'
  BY DEF SubmitInv, Shapes, OpInv
<1>7. DormantInv'
  BY DEF DormantInv, Serving, OpInv
<1>8. GateInv'
  BY DEF GateInv, Publishers, Removers, Serving, OpInv, SubmitInv, SubmitPlaces
<1>9. ResourceInv'
  <2> SUFFICES ASSUME NEW x \in Contexts
               PROVE  (AttestedAt(x) /\ WorkerAt(x) /\ InsideAt(x) /\ ExtensionAt(x) /\ BaseAt(x))'
    BY DEF ResourceInv
  <2>1. AttestedAt(x)'
    BY DEF ResourceInv, AttestedAt, Removers, Shapes
  <2>2. WorkerAt(x)'
    BY DEF ResourceInv, WorkerAt, Shapes
  <2>3. InsideAt(x)'
    BY DEF ResourceInv, InsideAt, Serving, OpInv
  <2>4. ExtensionAt(x)'
    BY DEF ResourceInv, ExtensionAt, Serving, OpInv, SubmitInv, SubmitPlaces
  <2>5. BaseAt(x)'
    BY DEF ResourceInv, BaseAt, Shapes
  <2> QED BY <2>1, <2>2, <2>3, <2>4, <2>5
<1>10. DurableInv'
  <2> SUFFICES ASSUME NEW x \in Contexts
               PROVE  (/\ HeldClaimed(x) /\ StoredMarked(x) /\ ArmedStored(x)
                       /\ ExtensionArmed(x) /\ BaseArmed(x))'
    BY DEF DurableInv
  <2>1. HeldClaimed(x)'
    BY DEF DurableInv, HeldClaimed, Holds, Mutation, Shapes
  <2>2. StoredMarked(x)'
    BY DEF DurableInv, StoredMarked, Mutation, MayOwn
  <2>3. ArmedStored(x)'
    BY DEF DurableInv, ArmedStored
  <2>4. ExtensionArmed(x)'
    BY DEF DurableInv, ExtensionArmed
  <2>5. BaseArmed(x)'
    BY DEF DurableInv, BaseArmed
  <2> QED BY <2>1, <2>2, <2>3, <2>4, <2>5
<1>11. EvidenceInv'
  BY DEF EvidenceInv, Holds
<1>12. StartupInv'
  BY DEF StartupInv, Pending
<1>13. RefusalExplained'
  BY DEF RefusalExplained, Pending, restart_plan
<1> QED BY <1>1, <1>2, <1>3, <1>4, <1>5, <1>6, <1>7, <1>8, <1>9, <1>10, <1>11, <1>12, <1>13

\* QueuedTooLong: HelperInv is kept.
LEMMA QueuedTooLongStep ==
  ASSUME HelperInv, NEW c \in Contexts, QueuedTooLong(c)
  PROVE  HelperInv'
<1> USE JournalAssumption, CustodyAssumption DEF HelperInv, vars, journalVars, processVars,
                                                 worldVars, at, waiting, become, idle,
                                                 QueuedTooLong
<1>1. Shapes'
  BY DEF Shapes, JournalTypeOK, Owner, Mutation, Quiet
<1>2. LifeInv'
  BY DEF LifeInv
<1>3. OpInv'
  BY DEF OpInv, LifeInv, NoOperation
<1>4. FileInv'
  BY DEF FileInv, LifeInv, OpInv, Serving
<1>5. PlaceInv'
  BY DEF PlaceInv, Shapes, Serving, MayOwn
<1>6. SubmitInv'
  BY DEF SubmitInv, SubmitPlaces, Shapes
<1>7. DormantInv'
  BY DEF DormantInv, Serving, LifeInv
<1>8. GateInv'
  BY DEF GateInv, Publishers, Removers, Mutation, Quiet, Serving, Shapes
<1>9. ResourceInv'
  <2> SUFFICES ASSUME NEW x \in Contexts
               PROVE  (AttestedAt(x) /\ WorkerAt(x) /\ InsideAt(x) /\ ExtensionAt(x) /\ BaseAt(x))'
    BY DEF ResourceInv
  <2>1. AttestedAt(x)'
    BY DEF ResourceInv, AttestedAt, Removers, Shapes
  <2>2. WorkerAt(x)'
    BY DEF ResourceInv, WorkerAt, Shapes
  <2>3. InsideAt(x)'
    BY DEF ResourceInv, InsideAt, Serving, Shapes
  <2>4. ExtensionAt(x)'
    BY DEF ResourceInv, ExtensionAt, Serving, Shapes
  <2>5. BaseAt(x)'
    BY DEF ResourceInv, BaseAt, Shapes
  <2> QED BY <2>1, <2>2, <2>3, <2>4, <2>5
<1>10. DurableInv'
  <2> SUFFICES ASSUME NEW x \in Contexts
               PROVE  (/\ HeldClaimed(x) /\ StoredMarked(x) /\ ArmedStored(x)
                       /\ ExtensionArmed(x) /\ BaseArmed(x))'
    BY DEF DurableInv
  <2>1. HeldClaimed(x)'
    BY DEF DurableInv, HeldClaimed, Holds, Mutation, Shapes
  <2>2. StoredMarked(x)'
    BY DEF DurableInv, StoredMarked, Mutation, MayOwn
  <2>3. ArmedStored(x)'
    BY DEF DurableInv, ArmedStored
  <2>4. ExtensionArmed(x)'
    BY DEF DurableInv, ExtensionArmed
  <2>5. BaseArmed(x)'
    BY DEF DurableInv, BaseArmed
  <2> QED BY <2>1, <2>2, <2>3, <2>4, <2>5
<1>11. EvidenceInv'
  BY DEF EvidenceInv, Holds
<1>12. StartupInv'
  BY DEF StartupInv, Pending
<1>13. RefusalExplained'
  BY DEF RefusalExplained, Pending, restart_plan
<1> QED BY <1>1, <1>2, <1>3, <1>4, <1>5, <1>6, <1>7, <1>8, <1>9, <1>10, <1>11, <1>12, <1>13

\* Spawn: HelperInv is kept.
LEMMA SpawnStep ==
  ASSUME HelperInv, NEW c \in Contexts, spawn(c)
  PROVE  HelperInv'
<1> USE JournalAssumption, CustodyAssumption DEF HelperInv, vars, journalVars, processVars,
                                                 worldVars, at, waiting, become, idle, spawn
<1>1. Shapes'
  BY DEF Shapes, JournalTypeOK, Owner, Mutation, Quiet
<1>2. LifeInv'
  BY DEF LifeInv
<1>3. OpInv'
  BY DEF OpInv, LifeInv, NoOperation
<1>4. FileInv'
  BY DEF FileInv, Serving, Shapes
<1>5. PlaceInv'
  BY DEF PlaceInv, Shapes, Serving, MayOwn
<1>6. SubmitInv'
  BY DEF SubmitInv, Shapes, OpInv, NoOperation
<1>7. DormantInv'
  BY DEF DormantInv, Serving
<1>8. GateInv'
  BY DEF GateInv, Publishers, Removers, Mutation, Quiet, Serving, Shapes
<1>9. ResourceInv'
  <2> SUFFICES ASSUME NEW x \in Contexts
               PROVE  (AttestedAt(x) /\ WorkerAt(x) /\ InsideAt(x) /\ ExtensionAt(x) /\ BaseAt(x))'
    BY DEF ResourceInv
  <2>1. AttestedAt(x)'
    BY DEF ResourceInv, AttestedAt, Removers, Shapes
  <2>2. WorkerAt(x)'
    BY DEF ResourceInv, WorkerAt, Shapes
  <2>3. InsideAt(x)'
    BY DEF ResourceInv, InsideAt, Serving, Shapes
  <2>4. ExtensionAt(x)'
    BY DEF ResourceInv, ExtensionAt, Serving, Shapes
  <2>5. BaseAt(x)'
    BY DEF ResourceInv, BaseAt, Shapes
  <2> QED BY <2>1, <2>2, <2>3, <2>4, <2>5
<1>10. DurableInv'
  <2> SUFFICES ASSUME NEW x \in Contexts
               PROVE  (/\ HeldClaimed(x) /\ StoredMarked(x) /\ ArmedStored(x)
                       /\ ExtensionArmed(x) /\ BaseArmed(x))'
    BY DEF DurableInv
  <2>1. HeldClaimed(x)'
    BY DEF DurableInv, HeldClaimed, Holds, Shapes, OpInv, Serving, JournalTypeOK, FileInv,
           PlaceInv, SubmitInv, DormantInv
  <2>2. StoredMarked(x)'
    BY DEF DurableInv, StoredMarked, Mutation, MayOwn
  <2>3. ArmedStored(x)'
    BY DEF DurableInv, ArmedStored
  <2>4. ExtensionArmed(x)'
    BY DEF DurableInv, ExtensionArmed
  <2>5. BaseArmed(x)'
    BY DEF DurableInv, BaseArmed
  <2> QED BY <2>1, <2>2, <2>3, <2>4, <2>5
<1>11. EvidenceInv'
  BY DEF EvidenceInv, Holds, Shapes, OpInv, Serving, SubmitInv, DormantInv
<1>12. StartupInv'
  BY DEF StartupInv, Pending
<1>13. RefusalExplained'
  BY DEF RefusalExplained, Pending, restart_plan
<1> QED BY <1>1, <1>2, <1>3, <1>4, <1>5, <1>6, <1>7, <1>8, <1>9, <1>10, <1>11, <1>12, <1>13

\* Settle_never_dispatched: HelperInv is kept.
LEMMA Settle_never_dispatchedStep ==
  ASSUME HelperInv, NEW c \in Contexts, settle_never_dispatched(c)
  PROVE  HelperInv'
<1> USE JournalAssumption, CustodyAssumption DEF HelperInv, vars, journalVars, processVars,
                                                 worldVars, at, waiting, become, idle,
                                                 settle_never_dispatched
<1>1. Shapes'
  BY DEF Shapes, JournalTypeOK, Owner, Mutation, Quiet
<1>2. LifeInv'
  BY DEF LifeInv
<1>3. OpInv'
  BY DEF OpInv, LifeInv, NoOperation
<1>4. FileInv'
  BY DEF FileInv, LifeInv, OpInv, Serving
<1>5. PlaceInv'
  BY DEF PlaceInv, Shapes, Serving, MayOwn
<1>6. SubmitInv'
  BY DEF SubmitInv, SubmitPlaces, Shapes
<1>7. DormantInv'
  BY DEF DormantInv, Serving
<1>8. GateInv'
  BY DEF GateInv, Publishers, Removers, Mutation, Quiet, Serving, Shapes
<1>9. ResourceInv'
  <2> SUFFICES ASSUME NEW x \in Contexts
               PROVE  (AttestedAt(x) /\ WorkerAt(x) /\ InsideAt(x) /\ ExtensionAt(x) /\ BaseAt(x))'
    BY DEF ResourceInv
  <2>1. AttestedAt(x)'
    BY DEF ResourceInv, AttestedAt, Removers, Shapes
  <2>2. WorkerAt(x)'
    BY DEF ResourceInv, WorkerAt, Shapes
  <2>3. InsideAt(x)'
    BY DEF ResourceInv, InsideAt, Serving, Shapes
  <2>4. ExtensionAt(x)'
    BY DEF ResourceInv, ExtensionAt, Serving, Shapes
  <2>5. BaseAt(x)'
    BY DEF ResourceInv, BaseAt, Shapes
  <2> QED BY <2>1, <2>2, <2>3, <2>4, <2>5
<1>10. DurableInv'
  <2> SUFFICES ASSUME NEW x \in Contexts
               PROVE  (/\ HeldClaimed(x) /\ StoredMarked(x) /\ ArmedStored(x)
                       /\ ExtensionArmed(x) /\ BaseArmed(x))'
    BY DEF DurableInv
  <2>1. HeldClaimed(x)'
    BY DEF DurableInv, HeldClaimed, Holds, Mutation, Shapes
  <2>2. StoredMarked(x)'
    BY DEF DurableInv, StoredMarked, Mutation, MayOwn
  <2>3. ArmedStored(x)'
    BY DEF DurableInv, ArmedStored
  <2>4. ExtensionArmed(x)'
    BY DEF DurableInv, ExtensionArmed
  <2>5. BaseArmed(x)'
    BY DEF DurableInv, BaseArmed
  <2> QED BY <2>1, <2>2, <2>3, <2>4, <2>5
<1>11. EvidenceInv'
  BY DEF EvidenceInv, Holds
<1>12. StartupInv'
  BY DEF StartupInv, Pending
<1>13. RefusalExplained'
  BY DEF RefusalExplained, Pending, restart_plan
<1> QED BY <1>1, <1>2, <1>3, <1>4, <1>5, <1>6, <1>7, <1>8, <1>9, <1>10, <1>11, <1>12, <1>13

\* Create_wireguard: HelperInv is kept.
LEMMA Create_wireguardStep ==
  ASSUME HelperInv, NEW c \in Contexts, create_wireguard(c)
  PROVE  HelperInv'
<1> USE JournalAssumption, CustodyAssumption DEF HelperInv, vars, journalVars, processVars,
                                                 worldVars, at, waiting, become, idle,
                                                 create_wireguard
<1>1. Shapes'
  BY DEF Shapes, JournalTypeOK, Owner, Link
<1>2. LifeInv'
  BY DEF LifeInv
<1>3. OpInv'
  BY DEF OpInv, LifeInv, NoOperation
<1>4. FileInv'
  BY DEF FileInv, LifeInv, OpInv, Serving
<1>5. PlaceInv'
  BY DEF PlaceInv, Shapes, Serving, MayOwn
<1>6. SubmitInv'
  BY DEF SubmitInv, SubmitPlaces, Shapes
<1>7. DormantInv'
  BY DEF DormantInv, Serving
<1>8. GateInv'
  BY DEF GateInv, Publishers, Removers, Mutation, Quiet, Serving, Shapes
<1>9. ResourceInv'
  <2> SUFFICES ASSUME NEW x \in Contexts
               PROVE  (AttestedAt(x) /\ WorkerAt(x) /\ InsideAt(x) /\ ExtensionAt(x) /\ BaseAt(x))'
    BY DEF ResourceInv
  <2>1. AttestedAt(x)'
    BY DEF ResourceInv, AttestedAt, Removers, Shapes
  <2>2. WorkerAt(x)'
    BY DEF ResourceInv, WorkerAt, Shapes
  <2>3. InsideAt(x)'
    BY DEF ResourceInv, InsideAt, Serving, Shapes
  <2>4. ExtensionAt(x)'
    BY DEF ResourceInv, ExtensionAt, Serving, Shapes
  <2>5. BaseAt(x)'
    BY DEF ResourceInv, BaseAt, Shapes
  <2> QED BY <2>1, <2>2, <2>3, <2>4, <2>5
<1>10. DurableInv'
  <2> SUFFICES ASSUME NEW x \in Contexts
               PROVE  (/\ HeldClaimed(x) /\ StoredMarked(x) /\ ArmedStored(x)
                       /\ ExtensionArmed(x) /\ BaseArmed(x))'
    BY DEF DurableInv
  <2>1. HeldClaimed(x)'
    BY DEF DurableInv, HeldClaimed, Holds, Shapes, OpInv, Serving, JournalTypeOK, FileInv,
           PlaceInv, SubmitInv, DormantInv
  <2>2. StoredMarked(x)'
    BY DEF DurableInv, StoredMarked, Mutation, MayOwn
  <2>3. ArmedStored(x)'
    BY DEF DurableInv, ArmedStored
  <2>4. ExtensionArmed(x)'
    BY DEF DurableInv, ExtensionArmed, Shapes, OpInv, Serving, JournalTypeOK, FileInv,
           PlaceInv, SubmitInv, DormantInv
  <2>5. BaseArmed(x)'
    BY DEF DurableInv, BaseArmed, Shapes, OpInv, Serving, JournalTypeOK, FileInv, PlaceInv,
           SubmitInv, DormantInv
  <2> QED BY <2>1, <2>2, <2>3, <2>4, <2>5
<1>11. EvidenceInv'
  BY DEF EvidenceInv, Holds, OpInv, Serving, SubmitInv, DormantInv
<1>12. StartupInv'
  BY DEF StartupInv, Serving, DormantInv
<1>13. RefusalExplained'
  BY DEF RefusalExplained, Pending, restart_plan
<1> QED BY <1>1, <1>2, <1>3, <1>4, <1>5, <1>6, <1>7, <1>8, <1>9, <1>10, <1>11, <1>12, <1>13

\* Move_wireguard: HelperInv is kept.
LEMMA Move_wireguardStep ==
  ASSUME HelperInv, NEW c \in Contexts, move_wireguard(c)
  PROVE  HelperInv'
<1> USE JournalAssumption, CustodyAssumption DEF HelperInv, vars, journalVars, processVars,
                                                 worldVars, at, waiting, become, idle,
                                                 move_wireguard
<1>1. Shapes'
  BY DEF Shapes, JournalTypeOK, Owner, of
<1>2. LifeInv'
  BY DEF LifeInv
<1>3. OpInv'
  BY DEF OpInv, LifeInv, NoOperation
<1>4. FileInv'
  BY DEF FileInv, LifeInv, OpInv, Serving
<1>5. PlaceInv'
  BY DEF PlaceInv, Shapes, Serving, MayOwn
<1>6. SubmitInv'
  BY DEF SubmitInv, SubmitPlaces, Shapes
<1>7. DormantInv'
  BY DEF DormantInv, Serving
<1>8. GateInv'
  BY DEF GateInv, Publishers, Removers, Mutation, Quiet, Serving, Shapes
<1>9. ResourceInv'
  <2> SUFFICES ASSUME NEW x \in Contexts
               PROVE  (AttestedAt(x) /\ WorkerAt(x) /\ InsideAt(x) /\ ExtensionAt(x) /\ BaseAt(x))'
    BY DEF ResourceInv
  <2>1. AttestedAt(x)'
    BY DEF ResourceInv, AttestedAt, Removers, Shapes
  <2>2. WorkerAt(x)'
    BY DEF ResourceInv, WorkerAt, Shapes
  <2>3. InsideAt(x)'
    <3>1. CASE x = c
      BY <3>1 DEF InsideAt, of, Shapes
    <3>2. CASE x # c
      BY <3>2 DEF ResourceInv, InsideAt, of, Shapes, Serving
    <3> QED BY <3>1, <3>2
  <2>4. ExtensionAt(x)'
    <3>1. CASE x = c
      BY <3>1 DEF ExtensionAt, of, Shapes
    <3>2. CASE x # c
      BY <3>2 DEF ResourceInv, ExtensionAt, of, Shapes, Serving
    <3> QED BY <3>1, <3>2
  <2>5. BaseAt(x)'
    <3>1. CASE x = c
      BY <3>1 DEF BaseAt, of, Shapes
    <3>2. CASE x # c
      BY <3>2 DEF ResourceInv, BaseAt, of, Shapes
    <3> QED BY <3>1, <3>2
  <2> QED BY <2>1, <2>2, <2>3, <2>4, <2>5
<1>10. DurableInv'
  <2> SUFFICES ASSUME NEW x \in Contexts
               PROVE  (/\ HeldClaimed(x) /\ StoredMarked(x) /\ ArmedStored(x)
                       /\ ExtensionArmed(x) /\ BaseArmed(x))'
    BY DEF DurableInv
  <2>1. HeldClaimed(x)'
    <3>1. Serving
      BY DEF DormantInv
    <3>2. durable[c] = mem[c]
      BY <3>1, OwnerRecord
    <3>3. CASE x = c
      BY <3>1, <3>2, <3>3 DEF HeldClaimed, PlaceInv
    <3>4. CASE x # c
      BY <3>4 DEF DurableInv, HeldClaimed, Holds, of, Shapes
    <3> QED BY <3>3, <3>4
  <2>2. StoredMarked(x)'
    BY DEF DurableInv, StoredMarked, Mutation, MayOwn
  <2>3. ArmedStored(x)'
    BY DEF DurableInv, ArmedStored
  <2>4. ExtensionArmed(x)'
    BY DEF DurableInv, ExtensionArmed
  <2>5. BaseArmed(x)'
    BY DEF DurableInv, BaseArmed
  <2> QED BY <2>1, <2>2, <2>3, <2>4, <2>5
<1>11. EvidenceInv'
  <2>1. op.ctx # c \/ idle
    BY DEF SubmitInv, SubmitPlaces, OpInv, DormantInv, Serving
  <2> QED BY <2>1 DEF EvidenceInv, Holds, of
<1>12. StartupInv'
  BY DEF StartupInv, Serving, DormantInv
<1>13. RefusalExplained'
  BY DEF RefusalExplained, Pending, restart_plan
<1> QED BY <1>1, <1>2, <1>3, <1>4, <1>5, <1>6, <1>7, <1>8, <1>9, <1>10, <1>11, <1>12, <1>13

\* End_context: HelperInv is kept.
LEMMA End_contextStep ==
  ASSUME HelperInv, NEW c \in Contexts, end_context(c)
  PROVE  HelperInv'
<1> USE JournalAssumption, CustodyAssumption DEF HelperInv, vars, journalVars, processVars,
                                                 worldVars, at, waiting, become, idle,
                                                 end_context
<1>1. Shapes'
  BY DEF Shapes, JournalTypeOK, Owner, Mutation, Quiet
<1>2. LifeInv'
  BY DEF LifeInv
<1>3. OpInv'
  BY DEF OpInv, LifeInv, NoOperation
<1>4. FileInv'
  BY DEF FileInv, LifeInv, OpInv, Serving
<1>5. PlaceInv'
  BY DEF PlaceInv, Shapes, Serving, MayOwn
<1>6. SubmitInv'
  BY DEF SubmitInv, SubmitPlaces, Shapes
<1>7. DormantInv'
  BY DEF DormantInv, Serving
<1>8. GateInv'
  BY DEF GateInv, Publishers, Removers, Mutation, Quiet, Serving, Shapes
<1>9. ResourceInv'
  <2> SUFFICES ASSUME NEW x \in Contexts
               PROVE  (AttestedAt(x) /\ WorkerAt(x) /\ InsideAt(x) /\ ExtensionAt(x) /\ BaseAt(x))'
    BY DEF ResourceInv
  <2>1. AttestedAt(x)'
    BY DEF ResourceInv, AttestedAt, Removers, Shapes
  <2>2. WorkerAt(x)'
    BY DEF ResourceInv, WorkerAt, Shapes
  <2>3. InsideAt(x)'
    BY DEF ResourceInv, InsideAt, Serving, Shapes
  <2>4. ExtensionAt(x)'
    BY DEF ResourceInv, ExtensionAt, Serving, Shapes
  <2>5. BaseAt(x)'
    BY DEF ResourceInv, BaseAt, Shapes
  <2> QED BY <2>1, <2>2, <2>3, <2>4, <2>5
<1>10. DurableInv'
  <2> SUFFICES ASSUME NEW x \in Contexts
               PROVE  (/\ HeldClaimed(x) /\ StoredMarked(x) /\ ArmedStored(x)
                       /\ ExtensionArmed(x) /\ BaseArmed(x))'
    BY DEF DurableInv
  <2>1. HeldClaimed(x)'
    BY DEF DurableInv, HeldClaimed, Holds, Shapes, OpInv, Serving, JournalTypeOK, FileInv,
           PlaceInv, SubmitInv, DormantInv
  <2>2. StoredMarked(x)'
    BY DEF DurableInv, StoredMarked, Mutation, MayOwn
  <2>3. ArmedStored(x)'
    BY DEF DurableInv, ArmedStored
  <2>4. ExtensionArmed(x)'
    BY DEF DurableInv, ExtensionArmed
  <2>5. BaseArmed(x)'
    BY DEF DurableInv, BaseArmed
  <2> QED BY <2>1, <2>2, <2>3, <2>4, <2>5
<1>11. EvidenceInv'
  BY DEF EvidenceInv, Holds, OpInv, Serving, SubmitInv, DormantInv
<1>12. StartupInv'
  BY DEF StartupInv, Pending
<1>13. RefusalExplained'
  BY DEF RefusalExplained, Pending, restart_plan
<1> QED BY <1>1, <1>2, <1>3, <1>4, <1>5, <1>6, <1>7, <1>8, <1>9, <1>10, <1>11, <1>12, <1>13

\* Cleanup_exact: HelperInv is kept.
LEMMA Cleanup_exactStep ==
  ASSUME HelperInv, NEW c \in Contexts, cleanup_exact(c)
  PROVE  HelperInv'
<1> USE JournalAssumption, CustodyAssumption DEF HelperInv, vars, journalVars, processVars,
                                                 worldVars, at, waiting, become, idle,
                                                 cleanup_exact
<1>1. Shapes'
  BY DEF Shapes, JournalTypeOK, Owner, Mutation, Quiet
<1>2. LifeInv'
  BY DEF LifeInv
<1>3. OpInv'
  BY DEF OpInv, LifeInv, NoOperation
<1>4. FileInv'
  BY DEF FileInv, LifeInv, OpInv, Serving
<1>5. PlaceInv'
  BY DEF PlaceInv, Shapes, Serving, MayOwn
<1>6. SubmitInv'
  BY DEF SubmitInv, SubmitPlaces, Shapes
<1>7. DormantInv'
  BY DEF DormantInv, Serving
<1>8. GateInv'
  BY DEF GateInv, Publishers, Removers, Mutation, Quiet, Serving, Shapes
<1>9. ResourceInv'
  <2> SUFFICES ASSUME NEW x \in Contexts
               PROVE  (AttestedAt(x) /\ WorkerAt(x) /\ InsideAt(x) /\ ExtensionAt(x) /\ BaseAt(x))'
    BY DEF ResourceInv
  <2>1. AttestedAt(x)'
    BY DEF ResourceInv, AttestedAt, Removers, Shapes
  <2>2. WorkerAt(x)'
    BY DEF ResourceInv, WorkerAt, Shapes
  <2>3. InsideAt(x)'
    <3>1. CASE x = c
      BY <3>1 DEF InsideAt, of, Shapes
    <3>2. CASE x # c
      BY <3>2 DEF ResourceInv, InsideAt, of, Shapes, Serving
    <3> QED BY <3>1, <3>2
  <2>4. ExtensionAt(x)'
    <3>1. CASE x = c
      BY <3>1 DEF ExtensionAt, of, Shapes
    <3>2. CASE x # c
      BY <3>2 DEF ResourceInv, ExtensionAt, of, Shapes, Serving
    <3> QED BY <3>1, <3>2
  <2>5. BaseAt(x)'
    <3>1. CASE x = c
      BY <3>1 DEF BaseAt, of, Shapes
    <3>2. CASE x # c
      BY <3>2 DEF ResourceInv, BaseAt, of, Shapes
    <3> QED BY <3>1, <3>2
  <2> QED BY <2>1, <2>2, <2>3, <2>4, <2>5
<1>10. DurableInv'
  <2> SUFFICES ASSUME NEW x \in Contexts
               PROVE  (/\ HeldClaimed(x) /\ StoredMarked(x) /\ ArmedStored(x)
                       /\ ExtensionArmed(x) /\ BaseArmed(x))'
    BY DEF DurableInv
  <2>1. HeldClaimed(x)'
    BY DEF DurableInv, HeldClaimed, Holds, Mutation, Shapes
  <2>2. StoredMarked(x)'
    BY DEF DurableInv, StoredMarked, Mutation, MayOwn
  <2>3. ArmedStored(x)'
    BY DEF DurableInv, ArmedStored
  <2>4. ExtensionArmed(x)'
    BY DEF DurableInv, ExtensionArmed
  <2>5. BaseArmed(x)'
    BY DEF DurableInv, BaseArmed
  <2> QED BY <2>1, <2>2, <2>3, <2>4, <2>5
<1>11. EvidenceInv'
  BY DEF EvidenceInv, Holds
<1>12. StartupInv'
  BY DEF StartupInv, Pending
<1>13. RefusalExplained'
  BY DEF RefusalExplained, Pending, restart_plan
<1> QED BY <1>1, <1>2, <1>3, <1>4, <1>5, <1>6, <1>7, <1>8, <1>9, <1>10, <1>11, <1>12, <1>13

\* Deliver: HelperInv is kept.
LEMMA DeliverStep ==
  ASSUME HelperInv, Deliver
  PROVE  HelperInv'
<1> USE JournalAssumption, CustodyAssumption DEF HelperInv, vars, journalVars, processVars,
                                                 worldVars, at, waiting, become, idle, Deliver,
                                                 applied
<1>1. Shapes'
  BY DEF Shapes, JournalTypeOK, Quiet, GateInv
<1>2. LifeInv'
  BY DEF LifeInv
<1>3. OpInv'
  BY DEF OpInv, LifeInv, NoOperation
<1>4. FileInv'
  BY DEF FileInv, LifeInv, OpInv, Serving
<1>5. PlaceInv'
  BY DEF PlaceInv, Shapes, Serving, MayOwn
<1>6. SubmitInv'
  BY DEF SubmitInv, SubmitPlaces, Shapes
<1>7. DormantInv'
  BY DEF DormantInv, Serving
<1>8. GateInv'
  BY DEF GateInv, Publishers, Removers, Mutation, Quiet, Serving, Shapes
<1>9. ResourceInv'
  <2> SUFFICES ASSUME NEW x \in Contexts
               PROVE  (AttestedAt(x) /\ WorkerAt(x) /\ InsideAt(x) /\ ExtensionAt(x) /\ BaseAt(x))'
    BY DEF ResourceInv
  <2>1. AttestedAt(x)'
    BY DEF ResourceInv, AttestedAt, Removers, Shapes
  <2>2. WorkerAt(x)'
    BY DEF ResourceInv, WorkerAt, Shapes
  <2>3. InsideAt(x)'
    BY DEF ResourceInv, InsideAt, Serving, Shapes
  <2>4. ExtensionAt(x)'
    BY DEF ResourceInv, ExtensionAt, Serving, Shapes
  <2>5. BaseAt(x)'
    BY DEF ResourceInv, BaseAt, Shapes
  <2> QED BY <2>1, <2>2, <2>3, <2>4, <2>5
<1>10. DurableInv'
  <2> SUFFICES ASSUME NEW x \in Contexts
               PROVE  (/\ HeldClaimed(x) /\ StoredMarked(x) /\ ArmedStored(x)
                       /\ ExtensionArmed(x) /\ BaseArmed(x))'
    BY DEF DurableInv
  <2>1. HeldClaimed(x)'
    BY DEF DurableInv, HeldClaimed, Holds, Mutation, Shapes, Quiet
  <2>2. StoredMarked(x)'
    BY DEF DurableInv, StoredMarked, Mutation, Shapes, Quiet
  <2>3. ArmedStored(x)'
    <3>1. msg.kind = "remove" => msg.ctx \in Contexts /\ durable[msg.ctx].phase = "CleanupConfirmed"
      BY RemoverConfirmed DEF GateInv, Quiet
    <3> QED BY <3>1 DEF DurableInv, ArmedStored
  <2>4. ExtensionArmed(x)'
    BY DEF DurableInv, ExtensionArmed
  <2>5. BaseArmed(x)'
    BY DEF DurableInv, BaseArmed
  <2> QED BY <2>1, <2>2, <2>3, <2>4, <2>5
<1>11. EvidenceInv'
  BY DEF EvidenceInv, Holds, Shapes, Mutation, Quiet
<1>12. StartupInv'
  BY DEF StartupInv, Serving, DormantInv
<1>13. RefusalExplained'
  BY DEF RefusalExplained, Serving, DormantInv
<1> QED BY <1>1, <1>2, <1>3, <1>4, <1>5, <1>6, <1>7, <1>8, <1>9, <1>10, <1>11, <1>12, <1>13

\* Publish: HelperInv is kept.
LEMMA PublishStep ==
  ASSUME HelperInv, NEW c \in Contexts, publish(c)
  PROVE  HelperInv'
<1> USE JournalAssumption, CustodyAssumption DEF HelperInv, vars, journalVars, processVars,
                                                 worldVars, at, waiting, become, idle, publish,
                                                 send
<1>1. Shapes'
  BY DEF Shapes, JournalTypeOK, Owner, Mutation, Quiet
<1>2. LifeInv'
  BY DEF LifeInv
<1>3. OpInv'
  BY DEF OpInv, LifeInv, NoOperation
<1>4. FileInv'
  BY DEF FileInv, LifeInv, OpInv, Serving
<1>5. PlaceInv'
  BY DEF PlaceInv, Shapes, Serving, MayOwn
<1>6. SubmitInv'
  BY DEF SubmitInv, SubmitPlaces, Shapes
<1>7. DormantInv'
  BY DEF DormantInv, Serving
<1>8. GateInv'
  <2>1. Serving /\ msg = Quiet /\ stored = attested /\ c \notin attested
    BY DEF DormantInv, GateInv, ResourceInv, AttestedAt, Removers, Quiet
  <2> QED BY <2>1 DEF GateInv, Mutation, Quiet, Publishers, Removers, Serving, Shapes
<1>9. ResourceInv'
  <2> SUFFICES ASSUME NEW x \in Contexts
               PROVE  (AttestedAt(x) /\ WorkerAt(x) /\ InsideAt(x) /\ ExtensionAt(x) /\ BaseAt(x))'
    BY DEF ResourceInv
  <2>1. AttestedAt(x)'
    BY DEF ResourceInv, AttestedAt, Removers, Shapes
  <2>2. WorkerAt(x)'
    BY DEF ResourceInv, WorkerAt, Shapes
  <2>3. InsideAt(x)'
    BY DEF ResourceInv, InsideAt, Serving, Shapes
  <2>4. ExtensionAt(x)'
    BY DEF ResourceInv, ExtensionAt, Serving, Shapes
  <2>5. BaseAt(x)'
    BY DEF ResourceInv, BaseAt, Shapes
  <2> QED BY <2>1, <2>2, <2>3, <2>4, <2>5
<1>10. DurableInv'
  <2> SUFFICES ASSUME NEW x \in Contexts
               PROVE  (/\ HeldClaimed(x) /\ StoredMarked(x) /\ ArmedStored(x)
                       /\ ExtensionArmed(x) /\ BaseArmed(x))'
    BY DEF DurableInv
  <2>1. HeldClaimed(x)'
    BY DEF DurableInv, HeldClaimed, Holds, Mutation, Shapes, OpInv, Serving, JournalTypeOK,
           FileInv, PlaceInv, SubmitInv, DormantInv
  <2>2. StoredMarked(x)'
    BY DEF DurableInv, StoredMarked, Mutation, MayOwn, Shapes, OpInv, Serving, JournalTypeOK,
           FileInv, PlaceInv, SubmitInv, DormantInv
  <2>3. ArmedStored(x)'
    BY DEF DurableInv, ArmedStored
  <2>4. ExtensionArmed(x)'
    BY DEF DurableInv, ExtensionArmed
  <2>5. BaseArmed(x)'
    BY DEF DurableInv, BaseArmed
  <2> QED BY <2>1, <2>2, <2>3, <2>4, <2>5
<1>11. EvidenceInv'
  BY DEF EvidenceInv, Holds, OpInv, Serving, Mutation, SubmitInv, DormantInv
<1>12. StartupInv'
  BY DEF StartupInv, Pending
<1>13. RefusalExplained'
  BY DEF RefusalExplained, Pending, restart_plan
<1> QED BY <1>1, <1>2, <1>3, <1>4, <1>5, <1>6, <1>7, <1>8, <1>9, <1>10, <1>11, <1>12, <1>13

\* Attest_publication: HelperInv is kept.
LEMMA Attest_publicationStep ==
  ASSUME HelperInv, NEW c \in Contexts, attest_publication(c)
  PROVE  HelperInv'
<1> USE JournalAssumption, CustodyAssumption DEF HelperInv, vars, journalVars, processVars,
                                                 worldVars, at, waiting, become, idle,
                                                 attest_publication
<1>1. Shapes'
  BY DEF Shapes, JournalTypeOK, Owner, Mutation, Quiet
<1>2. LifeInv'
  BY DEF LifeInv
<1>3. OpInv'
  BY DEF OpInv, LifeInv, NoOperation
<1>4. FileInv'
  BY DEF FileInv, LifeInv, OpInv, Serving
<1>5. PlaceInv'
  BY DEF PlaceInv, Shapes, Serving, MayOwn
<1>6. SubmitInv'
  BY DEF SubmitInv, SubmitPlaces, Shapes
<1>7. DormantInv'
  BY DEF DormantInv, Serving
<1>8. GateInv'
  BY DEF GateInv, Publishers, Removers, Mutation, Quiet, Serving, Shapes
<1>9. ResourceInv'
  <2> SUFFICES ASSUME NEW x \in Contexts
               PROVE  (AttestedAt(x) /\ WorkerAt(x) /\ InsideAt(x) /\ ExtensionAt(x) /\ BaseAt(x))'
    BY DEF ResourceInv
  <2>1. AttestedAt(x)'
    BY DEF ResourceInv, AttestedAt, Removers, Shapes
  <2>2. WorkerAt(x)'
    BY DEF ResourceInv, WorkerAt, Shapes
  <2>3. InsideAt(x)'
    BY DEF ResourceInv, InsideAt, Serving, Shapes
  <2>4. ExtensionAt(x)'
    BY DEF ResourceInv, ExtensionAt, Serving, Shapes
  <2>5. BaseAt(x)'
    BY DEF ResourceInv, BaseAt, Shapes
  <2> QED BY <2>1, <2>2, <2>3, <2>4, <2>5
<1>10. DurableInv'
  <2> SUFFICES ASSUME NEW x \in Contexts
               PROVE  (/\ HeldClaimed(x) /\ StoredMarked(x) /\ ArmedStored(x)
                       /\ ExtensionArmed(x) /\ BaseArmed(x))'
    BY DEF DurableInv
  <2>1. HeldClaimed(x)'
    BY DEF DurableInv, HeldClaimed, Holds, Mutation, Shapes
  <2>2. StoredMarked(x)'
    BY DEF DurableInv, StoredMarked, Mutation, MayOwn
  <2>3. ArmedStored(x)'
    BY DEF DurableInv, ArmedStored
  <2>4. ExtensionArmed(x)'
    BY DEF DurableInv, ExtensionArmed
  <2>5. BaseArmed(x)'
    BY DEF DurableInv, BaseArmed
  <2> QED BY <2>1, <2>2, <2>3, <2>4, <2>5
<1>11. EvidenceInv'
  BY DEF EvidenceInv, Holds
<1>12. StartupInv'
  BY DEF StartupInv, Pending
<1>13. RefusalExplained'
  BY DEF RefusalExplained, Pending, restart_plan
<1> QED BY <1>1, <1>2, <1>3, <1>4, <1>5, <1>6, <1>7, <1>8, <1>9, <1>10, <1>11, <1>12, <1>13

\* Abandon_mutation: HelperInv is kept.
LEMMA Abandon_mutationStep ==
  ASSUME HelperInv, NEW c \in Contexts, abandon_mutation(c)
  PROVE  HelperInv'
<1> USE JournalAssumption, CustodyAssumption DEF HelperInv, vars, journalVars, processVars,
                                                 worldVars, at, waiting, become, idle,
                                                 abandon_mutation
<1>1. Shapes'
  BY DEF Shapes, JournalTypeOK, Owner, Mutation, Quiet
<1>2. LifeInv'
  BY DEF LifeInv
<1>3. OpInv'
  BY DEF OpInv, LifeInv, NoOperation
<1>4. FileInv'
  BY DEF FileInv, LifeInv, OpInv, Serving
<1>5. PlaceInv'
  BY DEF PlaceInv, Shapes, Serving, MayOwn
<1>6. SubmitInv'
  BY DEF SubmitInv, SubmitPlaces, Shapes
<1>7. DormantInv'
  BY DEF DormantInv, Serving
<1>8. GateInv'
  BY DEF GateInv, Publishers, Removers, Mutation, Quiet, Serving, Shapes
<1>9. ResourceInv'
  <2> SUFFICES ASSUME NEW x \in Contexts
               PROVE  (AttestedAt(x) /\ WorkerAt(x) /\ InsideAt(x) /\ ExtensionAt(x) /\ BaseAt(x))'
    BY DEF ResourceInv
  <2>1. AttestedAt(x)'
    BY DEF ResourceInv, AttestedAt, Removers, Shapes
  <2>2. WorkerAt(x)'
    BY DEF ResourceInv, WorkerAt, Shapes
  <2>3. InsideAt(x)'
    BY DEF ResourceInv, InsideAt, Serving, Shapes
  <2>4. ExtensionAt(x)'
    BY DEF ResourceInv, ExtensionAt, Serving, Shapes
  <2>5. BaseAt(x)'
    BY DEF ResourceInv, BaseAt, Shapes
  <2> QED BY <2>1, <2>2, <2>3, <2>4, <2>5
<1>10. DurableInv'
  <2> SUFFICES ASSUME NEW x \in Contexts
               PROVE  (/\ HeldClaimed(x) /\ StoredMarked(x) /\ ArmedStored(x)
                       /\ ExtensionArmed(x) /\ BaseArmed(x))'
    BY DEF DurableInv
  <2>1. HeldClaimed(x)'
    BY DEF DurableInv, HeldClaimed, Holds, Shapes, OpInv, Serving, JournalTypeOK, FileInv,
           PlaceInv, SubmitInv, DormantInv
  <2>2. StoredMarked(x)'
    BY DEF DurableInv, StoredMarked, Mutation, MayOwn
  <2>3. ArmedStored(x)'
    BY DEF DurableInv, ArmedStored
  <2>4. ExtensionArmed(x)'
    BY DEF DurableInv, ExtensionArmed
  <2>5. BaseArmed(x)'
    BY DEF DurableInv, BaseArmed
  <2> QED BY <2>1, <2>2, <2>3, <2>4, <2>5
<1>11. EvidenceInv'
  BY DEF EvidenceInv, Holds, OpInv, Serving, SubmitInv, DormantInv
<1>12. StartupInv'
  BY DEF StartupInv, Pending
<1>13. RefusalExplained'
  BY DEF RefusalExplained, Pending, restart_plan
<1> QED BY <1>1, <1>2, <1>3, <1>4, <1>5, <1>6, <1>7, <1>8, <1>9, <1>10, <1>11, <1>12, <1>13

\* Reconcile_publication: HelperInv is kept.
LEMMA Reconcile_publicationStep ==
  ASSUME HelperInv, NEW c \in Contexts, reconcile_publication(c)
  PROVE  HelperInv'
<1> USE JournalAssumption, CustodyAssumption DEF HelperInv, vars, journalVars, processVars,
                                                 worldVars, at, waiting, become, idle,
                                                 reconcile_publication
<1>1. Shapes'
  BY DEF Shapes, JournalTypeOK, Owner, Mutation, Quiet
<1>2. LifeInv'
  BY DEF LifeInv
<1>3. OpInv'
  BY DEF OpInv, LifeInv, NoOperation
<1>4. FileInv'
  BY DEF FileInv, Serving, Shapes
<1>5. PlaceInv'
  BY DEF PlaceInv, Shapes, Serving, MayOwn
<1>6. SubmitInv'
  BY DEF SubmitInv, Shapes, OpInv, NoOperation
<1>7. DormantInv'
  BY DEF DormantInv, Serving
<1>8. GateInv'
  BY DEF GateInv, Publishers, Removers, Mutation, Quiet, Serving, Shapes
<1>9. ResourceInv'
  <2> SUFFICES ASSUME NEW x \in Contexts
               PROVE  (AttestedAt(x) /\ WorkerAt(x) /\ InsideAt(x) /\ ExtensionAt(x) /\ BaseAt(x))'
    BY DEF ResourceInv
  <2>1. AttestedAt(x)'
    BY DEF ResourceInv, AttestedAt, GateInv, Mutation, Publishers, Shapes
  <2>2. WorkerAt(x)'
    BY DEF ResourceInv, WorkerAt, Shapes
  <2>3. InsideAt(x)'
    BY DEF ResourceInv, InsideAt, Serving, Shapes
  <2>4. ExtensionAt(x)'
    BY DEF ResourceInv, ExtensionAt, Serving, Shapes
  <2>5. BaseAt(x)'
    BY DEF ResourceInv, BaseAt, Shapes
  <2> QED BY <2>1, <2>2, <2>3, <2>4, <2>5
<1>10. DurableInv'
  <2> SUFFICES ASSUME NEW x \in Contexts
               PROVE  (/\ HeldClaimed(x) /\ StoredMarked(x) /\ ArmedStored(x)
                       /\ ExtensionArmed(x) /\ BaseArmed(x))'
    BY DEF DurableInv
  <2>1. HeldClaimed(x)'
    BY DEF DurableInv, HeldClaimed, Holds, Mutation, Shapes
  <2>2. StoredMarked(x)'
    BY DEF DurableInv, StoredMarked, Mutation, MayOwn
  <2>3. ArmedStored(x)'
    BY DEF DurableInv, ArmedStored
  <2>4. ExtensionArmed(x)'
    BY DEF DurableInv, ExtensionArmed
  <2>5. BaseArmed(x)'
    BY DEF DurableInv, BaseArmed
  <2> QED BY <2>1, <2>2, <2>3, <2>4, <2>5
<1>11. EvidenceInv'
  BY DEF EvidenceInv, Holds, Shapes, OpInv
<1>12. StartupInv'
  BY DEF StartupInv, Pending
<1>13. RefusalExplained'
  BY DEF RefusalExplained, Pending, restart_plan
<1> QED BY <1>1, <1>2, <1>3, <1>4, <1>5, <1>6, <1>7, <1>8, <1>9, <1>10, <1>11, <1>12, <1>13

\* Observe_publication_absence: HelperInv is kept.
LEMMA Observe_publication_absenceStep ==
  ASSUME HelperInv, NEW c \in Contexts, observe_publication_absence(c)
  PROVE  HelperInv'
<1> USE JournalAssumption, CustodyAssumption DEF HelperInv, vars, journalVars, processVars,
                                                 worldVars, at, waiting, become, idle,
                                                 observe_publication_absence
<1>1. Shapes'
  BY DEF Shapes, JournalTypeOK, Owner, Mutation, Quiet
<1>2. LifeInv'
  BY DEF LifeInv
<1>3. OpInv'
  BY DEF OpInv, LifeInv, NoOperation
<1>4. FileInv'
  BY DEF FileInv, LifeInv, OpInv, Serving
<1>5. PlaceInv'
  BY DEF PlaceInv, Shapes, Serving, MayOwn
<1>6. SubmitInv'
  BY DEF SubmitInv, SubmitPlaces, Shapes
<1>7. DormantInv'
  BY DEF DormantInv, Serving
<1>8. GateInv'
  BY DEF GateInv, Publishers, Removers, Mutation, Quiet, Serving, Shapes
<1>9. ResourceInv'
  <2> SUFFICES ASSUME NEW x \in Contexts
               PROVE  (AttestedAt(x) /\ WorkerAt(x) /\ InsideAt(x) /\ ExtensionAt(x) /\ BaseAt(x))'
    BY DEF ResourceInv
  <2>1. AttestedAt(x)'
    BY DEF ResourceInv, AttestedAt, Removers, Shapes
  <2>2. WorkerAt(x)'
    BY DEF ResourceInv, WorkerAt, Shapes
  <2>3. InsideAt(x)'
    BY DEF ResourceInv, InsideAt, Serving, Shapes
  <2>4. ExtensionAt(x)'
    BY DEF ResourceInv, ExtensionAt, Serving, Shapes
  <2>5. BaseAt(x)'
    BY DEF ResourceInv, BaseAt, Shapes
  <2> QED BY <2>1, <2>2, <2>3, <2>4, <2>5
<1>10. DurableInv'
  <2> SUFFICES ASSUME NEW x \in Contexts
               PROVE  (/\ HeldClaimed(x) /\ StoredMarked(x) /\ ArmedStored(x)
                       /\ ExtensionArmed(x) /\ BaseArmed(x))'
    BY DEF DurableInv
  <2>1. HeldClaimed(x)'
    BY DEF DurableInv, HeldClaimed, Holds, Mutation, Shapes
  <2>2. StoredMarked(x)'
    BY DEF DurableInv, StoredMarked, Mutation, MayOwn
  <2>3. ArmedStored(x)'
    BY DEF DurableInv, ArmedStored
  <2>4. ExtensionArmed(x)'
    BY DEF DurableInv, ExtensionArmed
  <2>5. BaseArmed(x)'
    BY DEF DurableInv, BaseArmed
  <2> QED BY <2>1, <2>2, <2>3, <2>4, <2>5
<1>11. EvidenceInv'
  BY DEF EvidenceInv, Holds
<1>12. StartupInv'
  BY DEF StartupInv, Pending
<1>13. RefusalExplained'
  BY DEF RefusalExplained, Pending, restart_plan
<1> QED BY <1>1, <1>2, <1>3, <1>4, <1>5, <1>6, <1>7, <1>8, <1>9, <1>10, <1>11, <1>12, <1>13

\* Remove: HelperInv is kept.
LEMMA RemoveStep ==
  ASSUME HelperInv, NEW c \in Contexts, remove(c)
  PROVE  HelperInv'
<1> USE JournalAssumption, CustodyAssumption DEF HelperInv, vars, journalVars, processVars,
                                                 worldVars, at, waiting, become, idle, remove,
                                                 send
<1>1. Shapes'
  BY DEF Shapes, JournalTypeOK, Owner, Mutation, Quiet
<1>2. LifeInv'
  BY DEF LifeInv
<1>3. OpInv'
  BY DEF OpInv, LifeInv, NoOperation
<1>4. FileInv'
  BY DEF FileInv, LifeInv, OpInv, Serving
<1>5. PlaceInv'
  BY DEF PlaceInv, Shapes, Serving, MayOwn
<1>6. SubmitInv'
  BY DEF SubmitInv, SubmitPlaces, Shapes
<1>7. DormantInv'
  BY DEF DormantInv, Serving
<1>8. GateInv'
  BY DEF GateInv, Removers, Mutation, Quiet, Shapes, DormantInv
<1>9. ResourceInv'
  <2> SUFFICES ASSUME NEW x \in Contexts
               PROVE  (AttestedAt(x) /\ WorkerAt(x) /\ InsideAt(x) /\ ExtensionAt(x) /\ BaseAt(x))'
    BY DEF ResourceInv
  <2>1. AttestedAt(x)'
    BY DEF ResourceInv, AttestedAt, Removers, Shapes
  <2>2. WorkerAt(x)'
    BY DEF ResourceInv, WorkerAt, Shapes
  <2>3. InsideAt(x)'
    BY DEF ResourceInv, InsideAt, Serving, Shapes
  <2>4. ExtensionAt(x)'
    BY DEF ResourceInv, ExtensionAt, Serving, Shapes
  <2>5. BaseAt(x)'
    BY DEF ResourceInv, BaseAt, Shapes
  <2> QED BY <2>1, <2>2, <2>3, <2>4, <2>5
<1>10. DurableInv'
  <2> SUFFICES ASSUME NEW x \in Contexts
               PROVE  (/\ HeldClaimed(x) /\ StoredMarked(x) /\ ArmedStored(x)
                       /\ ExtensionArmed(x) /\ BaseArmed(x))'
    BY DEF DurableInv
  <2>1. HeldClaimed(x)'
    BY DEF DurableInv, HeldClaimed, Holds, Mutation, Shapes
  <2>2. StoredMarked(x)'
    BY DEF DurableInv, StoredMarked, Mutation, MayOwn
  <2>3. ArmedStored(x)'
    BY DEF DurableInv, ArmedStored
  <2>4. ExtensionArmed(x)'
    BY DEF DurableInv, ExtensionArmed
  <2>5. BaseArmed(x)'
    BY DEF DurableInv, BaseArmed
  <2> QED BY <2>1, <2>2, <2>3, <2>4, <2>5
<1>11. EvidenceInv'
  BY DEF EvidenceInv, Holds, Mutation
<1>12. StartupInv'
  BY DEF StartupInv, Pending
<1>13. RefusalExplained'
  BY DEF RefusalExplained, Pending, restart_plan
<1> QED BY <1>1, <1>2, <1>3, <1>4, <1>5, <1>6, <1>7, <1>8, <1>9, <1>10, <1>11, <1>12, <1>13

\* Attest_removal: HelperInv is kept.
LEMMA Attest_removalStep ==
  ASSUME HelperInv, NEW c \in Contexts, attest_removal(c)
  PROVE  HelperInv'
<1> USE JournalAssumption, CustodyAssumption DEF HelperInv, vars, journalVars, processVars,
                                                 worldVars, at, waiting, become, idle,
                                                 attest_removal
<1>1. Shapes'
  BY DEF Shapes, JournalTypeOK, Owner, Mutation, Quiet
<1>2. LifeInv'
  BY DEF LifeInv
<1>3. OpInv'
  BY DEF OpInv, LifeInv, NoOperation
<1>4. FileInv'
  BY DEF FileInv, Serving, Shapes
<1>5. PlaceInv'
  BY DEF PlaceInv, Shapes, Serving, MayOwn
<1>6. SubmitInv'
  BY DEF SubmitInv, Shapes, OpInv, NoOperation
<1>7. DormantInv'
  BY DEF DormantInv, Serving
<1>8. GateInv'
  BY DEF GateInv, Publishers, Removers, Mutation, Quiet, Serving, Shapes
<1>9. ResourceInv'
  <2> SUFFICES ASSUME NEW x \in Contexts
               PROVE  (AttestedAt(x) /\ WorkerAt(x) /\ InsideAt(x) /\ ExtensionAt(x) /\ BaseAt(x))'
    BY DEF ResourceInv
  <2>1. AttestedAt(x)'
    BY DEF ResourceInv, AttestedAt, Removers, Shapes
  <2>2. WorkerAt(x)'
    BY DEF ResourceInv, WorkerAt, Shapes
  <2>3. InsideAt(x)'
    BY DEF ResourceInv, InsideAt, Serving, Shapes
  <2>4. ExtensionAt(x)'
    BY DEF ResourceInv, ExtensionAt, Serving, Shapes
  <2>5. BaseAt(x)'
    BY DEF ResourceInv, BaseAt, Shapes
  <2> QED BY <2>1, <2>2, <2>3, <2>4, <2>5
<1>10. DurableInv'
  <2> SUFFICES ASSUME NEW x \in Contexts
               PROVE  (/\ HeldClaimed(x) /\ StoredMarked(x) /\ ArmedStored(x)
                       /\ ExtensionArmed(x) /\ BaseArmed(x))'
    BY DEF DurableInv
  <2>1. HeldClaimed(x)'
    BY DEF DurableInv, HeldClaimed, Holds, Mutation, Shapes
  <2>2. StoredMarked(x)'
    BY DEF DurableInv, StoredMarked, Mutation, MayOwn
  <2>3. ArmedStored(x)'
    BY DEF DurableInv, ArmedStored
  <2>4. ExtensionArmed(x)'
    BY DEF DurableInv, ExtensionArmed
  <2>5. BaseArmed(x)'
    BY DEF DurableInv, BaseArmed
  <2> QED BY <2>1, <2>2, <2>3, <2>4, <2>5
<1>11. EvidenceInv'
  BY DEF EvidenceInv, Holds, Shapes, LifeInv, OpInv, SubmitInv
<1>12. StartupInv'
  BY DEF StartupInv, Pending
<1>13. RefusalExplained'
  BY DEF RefusalExplained, Pending, restart_plan
<1> QED BY <1>1, <1>2, <1>3, <1>4, <1>5, <1>6, <1>7, <1>8, <1>9, <1>10, <1>11, <1>12, <1>13

\* Open: HelperInv is kept.
LEMMA OpenStep ==
  ASSUME HelperInv, Open
  PROVE  HelperInv'
<1> USE JournalAssumption, CustodyAssumption DEF HelperInv, vars, journalVars, processVars,
                                                 worldVars, at, waiting, become, idle, Open,
                                                 open
<1>1. Shapes'
  BY DEF Shapes, JournalTypeOK, Owner, LifeInv, OpInv, NoOperation
<1>2. LifeInv'
  BY DEF LifeInv
<1>3. OpInv'
  BY DEF OpInv, LifeInv, NoOperation
<1>4. FileInv'
  BY DEF FileInv, LifeInv, OpInv, Serving
<1>5. PlaceInv'
  BY DEF PlaceInv, Shapes, Serving, MayOwn
<1>6. SubmitInv'
  BY DEF SubmitInv, SubmitPlaces, Shapes
<1>7. DormantInv'
  BY DEF DormantInv, Serving
<1>8. GateInv'
  BY DEF GateInv, Publishers, Removers, Mutation, Quiet, Serving, Shapes
<1>9. ResourceInv'
  <2> SUFFICES ASSUME NEW x \in Contexts
               PROVE  (AttestedAt(x) /\ WorkerAt(x) /\ InsideAt(x) /\ ExtensionAt(x) /\ BaseAt(x))'
    BY DEF ResourceInv
  <2>1. AttestedAt(x)'
    BY DEF ResourceInv, AttestedAt, Removers, Shapes
  <2>2. WorkerAt(x)'
    BY DEF ResourceInv, WorkerAt, Shapes
  <2>3. InsideAt(x)'
    BY DEF ResourceInv, InsideAt, Serving, Shapes
  <2>4. ExtensionAt(x)'
    BY DEF ResourceInv, ExtensionAt, Serving, Shapes
  <2>5. BaseAt(x)'
    BY DEF ResourceInv, BaseAt, Shapes
  <2> QED BY <2>1, <2>2, <2>3, <2>4, <2>5
<1>10. DurableInv'
  <2> SUFFICES ASSUME NEW x \in Contexts
               PROVE  (/\ HeldClaimed(x) /\ StoredMarked(x) /\ ArmedStored(x)
                       /\ ExtensionArmed(x) /\ BaseArmed(x))'
    BY DEF DurableInv
  <2>1. HeldClaimed(x)'
    BY DEF DurableInv, HeldClaimed, Holds, Mutation, Shapes
  <2>2. StoredMarked(x)'
    BY DEF DurableInv, StoredMarked, Mutation, MayOwn
  <2>3. ArmedStored(x)'
    BY DEF DurableInv, ArmedStored
  <2>4. ExtensionArmed(x)'
    BY DEF DurableInv, ExtensionArmed
  <2>5. BaseArmed(x)'
    BY DEF DurableInv, BaseArmed
  <2> QED BY <2>1, <2>2, <2>3, <2>4, <2>5
<1>11. EvidenceInv'
  BY DEF EvidenceInv, Holds
<1>12. StartupInv'
  BY DEF StartupInv, Pending
<1>13. RefusalExplained'
  BY DEF RefusalExplained, Pending, restart_plan
<1> QED BY <1>1, <1>2, <1>3, <1>4, <1>5, <1>6, <1>7, <1>8, <1>9, <1>10, <1>11, <1>12, <1>13

\* Classify: HelperInv is kept.
LEMMA ClassifyStep ==
  ASSUME HelperInv, classify
  PROVE  HelperInv'
<1> USE JournalAssumption, CustodyAssumption DEF HelperInv, vars, journalVars, processVars,
                                                 worldVars, at, waiting, become, idle,
                                                 classify, startup_class, Pending, Targets,
                                                 restart_plan
<1>1. Shapes'
  BY DEF Shapes, JournalTypeOK, Owner, Mutation, Quiet
<1>2. LifeInv'
  BY DEF LifeInv
<1>3. OpInv'
  BY DEF OpInv, LifeInv, NoOperation
<1>4. FileInv'
  BY DEF FileInv, LifeInv, OpInv, Serving
<1>5. PlaceInv'
  BY DEF PlaceInv, Shapes, Serving, MayOwn
<1>6. SubmitInv'
  BY DEF SubmitInv, SubmitPlaces, Shapes
<1>7. DormantInv'
  BY DEF DormantInv, Serving
<1>8. GateInv'
  BY DEF GateInv, Publishers, Removers, Mutation, Quiet, Serving, Shapes
<1>9. ResourceInv'
  <2> SUFFICES ASSUME NEW x \in Contexts
               PROVE  (AttestedAt(x) /\ WorkerAt(x) /\ InsideAt(x) /\ ExtensionAt(x) /\ BaseAt(x))'
    BY DEF ResourceInv
  <2>1. AttestedAt(x)'
    BY DEF ResourceInv, AttestedAt, Removers, Shapes
  <2>2. WorkerAt(x)'
    BY DEF ResourceInv, WorkerAt, Shapes
  <2>3. InsideAt(x)'
    BY DEF ResourceInv, InsideAt, Serving, Shapes
  <2>4. ExtensionAt(x)'
    BY DEF ResourceInv, ExtensionAt, Serving, Shapes
  <2>5. BaseAt(x)'
    BY DEF ResourceInv, BaseAt, Shapes
  <2> QED BY <2>1, <2>2, <2>3, <2>4, <2>5
<1>10. DurableInv'
  <2> SUFFICES ASSUME NEW x \in Contexts
               PROVE  (/\ HeldClaimed(x) /\ StoredMarked(x) /\ ArmedStored(x)
                       /\ ExtensionArmed(x) /\ BaseArmed(x))'
    BY DEF DurableInv
  <2>1. HeldClaimed(x)'
    BY DEF DurableInv, HeldClaimed, Holds, Mutation, Shapes
  <2>2. StoredMarked(x)'
    BY DEF DurableInv, StoredMarked, Mutation, MayOwn
  <2>3. ArmedStored(x)'
    BY DEF DurableInv, ArmedStored
  <2>4. ExtensionArmed(x)'
    BY DEF DurableInv, ExtensionArmed
  <2>5. BaseArmed(x)'
    BY DEF DurableInv, BaseArmed
  <2> QED BY <2>1, <2>2, <2>3, <2>4, <2>5
<1>11. EvidenceInv'
  BY DEF EvidenceInv, Holds
<1>12. StartupInv'
  BY DEF StartupInv, LifeInv, FileInv
<1>13. RefusalExplained'
  <2>1. mem = durable /\ stored \subseteq Targets(mem)
    BY DEF FileInv, LifeInv, DurableInv, StoredMarked, Shapes
  <2>2. \A d \in Pending(durable) : d \in stored \/ durable[d].phase = "MayOwnCustody"
    BY DEF DurableInv, ArmedStored, MayOwn
  <2> QED BY <2>1, <2>2 DEF RefusalExplained, MayOwn
<1> QED BY <1>1, <1>2, <1>3, <1>4, <1>5, <1>6, <1>7, <1>8, <1>9, <1>10, <1>11, <1>12, <1>13

\* Restart_reap: HelperInv is kept.
LEMMA Restart_reapStep ==
  ASSUME HelperInv, NEW c \in Contexts, restart_reap(c)
  PROVE  HelperInv'
<1> USE JournalAssumption, CustodyAssumption DEF HelperInv, vars, journalVars, processVars,
                                                 worldVars, at, waiting, become, idle,
                                                 restart_reap, Pending
<1>1. Shapes'
  BY DEF Shapes, JournalTypeOK, Owner, Mutation, Quiet
<1>2. LifeInv'
  BY DEF LifeInv
<1>3. OpInv'
  BY DEF OpInv, LifeInv, NoOperation
<1>4. FileInv'
  BY DEF FileInv, LifeInv, OpInv, Serving
<1>5. PlaceInv'
  BY DEF PlaceInv, Shapes, Serving, MayOwn
<1>6. SubmitInv'
  BY DEF SubmitInv, SubmitPlaces, Shapes
<1>7. DormantInv'
  BY DEF DormantInv, Serving
<1>8. GateInv'
  BY DEF GateInv, Publishers, Removers, Mutation, Quiet, Serving, Shapes
<1>9. ResourceInv'
  <2> SUFFICES ASSUME NEW x \in Contexts
               PROVE  (AttestedAt(x) /\ WorkerAt(x) /\ InsideAt(x) /\ ExtensionAt(x) /\ BaseAt(x))'
    BY DEF ResourceInv
  <2>1. AttestedAt(x)'
    BY DEF ResourceInv, AttestedAt, Removers, Shapes
  <2>2. WorkerAt(x)'
    BY DEF ResourceInv, WorkerAt, Shapes
  <2>3. InsideAt(x)'
    BY DEF ResourceInv, InsideAt, Serving, Shapes
  <2>4. ExtensionAt(x)'
    BY DEF ResourceInv, ExtensionAt, Serving, Shapes
  <2>5. BaseAt(x)'
    BY DEF ResourceInv, BaseAt, Shapes
  <2> QED BY <2>1, <2>2, <2>3, <2>4, <2>5
<1>10. DurableInv'
  <2> SUFFICES ASSUME NEW x \in Contexts
               PROVE  (/\ HeldClaimed(x) /\ StoredMarked(x) /\ ArmedStored(x)
                       /\ ExtensionArmed(x) /\ BaseArmed(x))'
    BY DEF DurableInv
  <2>1. HeldClaimed(x)'
    BY DEF DurableInv, HeldClaimed, Holds, Mutation, Shapes
  <2>2. StoredMarked(x)'
    BY DEF DurableInv, StoredMarked, Mutation, MayOwn
  <2>3. ArmedStored(x)'
    BY DEF DurableInv, ArmedStored
  <2>4. ExtensionArmed(x)'
    BY DEF DurableInv, ExtensionArmed
  <2>5. BaseArmed(x)'
    BY DEF DurableInv, BaseArmed
  <2> QED BY <2>1, <2>2, <2>3, <2>4, <2>5
<1>11. EvidenceInv'
  BY DEF EvidenceInv, Holds
<1>12. StartupInv'
  <2>1. <<c, "extension">> \in birth => mem[c].extended
    <3> SUFFICES ASSUME <<c, "extension">> \in birth PROVE mem[c].extended
      OBVIOUS
    <3>1. durable[c].phase = "MayOwnPrepare" /\ durable[c].extended
      BY DEF DurableInv, ExtensionArmed
    <3>2. CASE op.step = "renamed"
      BY <3>1, <3>2 DEF FileInv, OpInv, advance, Shapes, JournalTypeOK
    <3>3. CASE op.step # "renamed"
      BY <3>1, <3>3 DEF FileInv, Shapes, JournalTypeOK
    <3> QED BY <3>2, <3>3
  <2>2. \A d \in Contexts : <<d, "extension">> \in birth' => <<d, "extension">> \in birth
    OBVIOUS
  <2>3. <<c, "extension">> \notin birth'
    BY <2>1
  <2> QED BY <2>2, <2>3 DEF StartupInv, Shapes
<1>13. RefusalExplained'
  BY DEF RefusalExplained, Pending, restart_plan
<1> QED BY <1>1, <1>2, <1>3, <1>4, <1>5, <1>6, <1>7, <1>8, <1>9, <1>10, <1>11, <1>12, <1>13

\* Confirm_restart_cleanup: HelperInv is kept.
LEMMA Confirm_restart_cleanupStep ==
  ASSUME HelperInv, NEW c \in Contexts, confirm_restart_cleanup(c)
  PROVE  HelperInv'
<1> USE JournalAssumption, CustodyAssumption DEF HelperInv, vars, journalVars, processVars,
                                                 worldVars, at, waiting, become, idle,
                                                 confirm_restart_cleanup, compare_and_swap,
                                                 Pending
<1>1. Shapes'
  BY DEF Shapes, JournalTypeOK, Moves, Phases
<1>2. LifeInv'
  BY DEF LifeInv
<1>3. OpInv'
  BY DEF OpInv, LifeInv, NoOperation
<1>4. FileInv'
  BY DEF FileInv, LifeInv, OpInv, Serving
<1>5. PlaceInv'
  BY DEF PlaceInv, Shapes, Serving, MayOwn
<1>6. SubmitInv'
  BY DEF SubmitInv, SubmitPlaces, Shapes
<1>7. DormantInv'
  BY DEF DormantInv, Serving
<1>8. GateInv'
  BY DEF GateInv, Publishers, Removers, Mutation, Quiet, Serving, Shapes
<1>9. ResourceInv'
  <2> SUFFICES ASSUME NEW x \in Contexts
               PROVE  (AttestedAt(x) /\ WorkerAt(x) /\ InsideAt(x) /\ ExtensionAt(x) /\ BaseAt(x))'
    BY DEF ResourceInv
  <2>1. AttestedAt(x)'
    BY DEF ResourceInv, AttestedAt, Removers, Shapes
  <2>2. WorkerAt(x)'
    BY DEF ResourceInv, WorkerAt, Shapes
  <2>3. InsideAt(x)'
    BY DEF ResourceInv, InsideAt, Serving, Shapes
  <2>4. ExtensionAt(x)'
    BY DEF ResourceInv, ExtensionAt, Serving, Shapes
  <2>5. BaseAt(x)'
    BY DEF ResourceInv, BaseAt, Shapes
  <2> QED BY <2>1, <2>2, <2>3, <2>4, <2>5
<1>10. DurableInv'
  <2> SUFFICES ASSUME NEW x \in Contexts
               PROVE  (/\ HeldClaimed(x) /\ StoredMarked(x) /\ ArmedStored(x)
                       /\ ExtensionArmed(x) /\ BaseArmed(x))'
    BY DEF DurableInv
  <2>1. HeldClaimed(x)'
    BY DEF DurableInv, HeldClaimed, Holds, Mutation, Shapes
  <2>2. StoredMarked(x)'
    BY DEF DurableInv, StoredMarked, Mutation, MayOwn
  <2>3. ArmedStored(x)'
    BY DEF DurableInv, ArmedStored
  <2>4. ExtensionArmed(x)'
    BY DEF DurableInv, ExtensionArmed
  <2>5. BaseArmed(x)'
    BY DEF DurableInv, BaseArmed
  <2> QED BY <2>1, <2>2, <2>3, <2>4, <2>5
<1>11. EvidenceInv'
  BY DEF EvidenceInv, StartupInv
<1>12. StartupInv'
  BY DEF StartupInv, Pending
<1>13. RefusalExplained'
  BY DEF RefusalExplained, Pending, restart_plan
<1> QED BY <1>1, <1>2, <1>3, <1>4, <1>5, <1>6, <1>7, <1>8, <1>9, <1>10, <1>11, <1>12, <1>13

\* Restart_confirmed: HelperInv is kept.
LEMMA Restart_confirmedStep ==
  ASSUME HelperInv, restart_confirmed
  PROVE  HelperInv'
<1> USE JournalAssumption, CustodyAssumption DEF HelperInv, vars, journalVars, processVars,
                                                 worldVars, at, waiting, become, idle,
                                                 restart_confirmed, Pending
<1>1. Shapes'
  BY DEF Shapes, JournalTypeOK, Owner, Mutation, Quiet
<1>2. LifeInv'
  BY DEF LifeInv
<1>3. OpInv'
  BY DEF OpInv, LifeInv, NoOperation
<1>4. FileInv'
  BY DEF FileInv, LifeInv, OpInv, Serving
<1>5. PlaceInv'
  BY DEF PlaceInv, Shapes, Serving, MayOwn
<1>6. SubmitInv'
  BY DEF SubmitInv, SubmitPlaces, Shapes
<1>7. DormantInv'
  BY DEF DormantInv, Serving
<1>8. GateInv'
  BY DEF GateInv, Publishers, Removers, Mutation, Quiet, Serving, Shapes
<1>9. ResourceInv'
  <2> SUFFICES ASSUME NEW x \in Contexts
               PROVE  (AttestedAt(x) /\ WorkerAt(x) /\ InsideAt(x) /\ ExtensionAt(x) /\ BaseAt(x))'
    BY DEF ResourceInv
  <2>1. AttestedAt(x)'
    BY DEF ResourceInv, AttestedAt, Removers, Shapes
  <2>2. WorkerAt(x)'
    BY DEF ResourceInv, WorkerAt, Shapes
  <2>3. InsideAt(x)'
    BY DEF ResourceInv, InsideAt, Serving, Shapes
  <2>4. ExtensionAt(x)'
    BY DEF ResourceInv, ExtensionAt, Serving, Shapes
  <2>5. BaseAt(x)'
    BY DEF ResourceInv, BaseAt, Shapes
  <2> QED BY <2>1, <2>2, <2>3, <2>4, <2>5
<1>10. DurableInv'
  <2> SUFFICES ASSUME NEW x \in Contexts
               PROVE  (/\ HeldClaimed(x) /\ StoredMarked(x) /\ ArmedStored(x)
                       /\ ExtensionArmed(x) /\ BaseArmed(x))'
    BY DEF DurableInv
  <2>1. HeldClaimed(x)'
    BY DEF DurableInv, HeldClaimed, Holds, Mutation, Shapes
  <2>2. StoredMarked(x)'
    BY DEF DurableInv, StoredMarked, Mutation, MayOwn
  <2>3. ArmedStored(x)'
    BY DEF DurableInv, ArmedStored
  <2>4. ExtensionArmed(x)'
    BY DEF DurableInv, ExtensionArmed
  <2>5. BaseArmed(x)'
    BY DEF DurableInv, BaseArmed
  <2> QED BY <2>1, <2>2, <2>3, <2>4, <2>5
<1>11. EvidenceInv'
  BY DEF EvidenceInv, Holds
<1>12. StartupInv'
  BY DEF StartupInv, FileInv
<1>13. RefusalExplained'
  BY DEF RefusalExplained, Pending, restart_plan
<1> QED BY <1>1, <1>2, <1>3, <1>4, <1>5, <1>6, <1>7, <1>8, <1>9, <1>10, <1>11, <1>12, <1>13

\* Restart_remove: HelperInv is kept.
LEMMA Restart_removeStep ==
  ASSUME HelperInv, NEW c \in Contexts, restart_remove(c)
  PROVE  HelperInv'
<1> USE JournalAssumption, CustodyAssumption DEF HelperInv, vars, journalVars, processVars,
                                                 worldVars, at, waiting, become, idle,
                                                 restart_remove, Pending
<1>1. Shapes'
  BY DEF Shapes, JournalTypeOK, Owner, Mutation, Quiet
<1>2. LifeInv'
  BY DEF LifeInv
<1>3. OpInv'
  BY DEF OpInv, LifeInv, NoOperation
<1>4. FileInv'
  BY DEF FileInv, LifeInv, OpInv, Serving
<1>5. PlaceInv'
  BY DEF PlaceInv, Shapes, Serving, MayOwn
<1>6. SubmitInv'
  BY DEF SubmitInv, SubmitPlaces, Shapes
<1>7. DormantInv'
  BY DEF DormantInv, Serving
<1>8. GateInv'
  BY DEF GateInv, Serving, DormantInv
<1>9. ResourceInv'
  <2> SUFFICES ASSUME NEW x \in Contexts
               PROVE  (AttestedAt(x) /\ WorkerAt(x) /\ InsideAt(x) /\ ExtensionAt(x) /\ BaseAt(x))'
    BY DEF ResourceInv
  <2>1. AttestedAt(x)'
    BY DEF ResourceInv, AttestedAt, Removers, Shapes
  <2>2. WorkerAt(x)'
    BY DEF ResourceInv, WorkerAt, Shapes
  <2>3. InsideAt(x)'
    BY DEF ResourceInv, InsideAt, Serving, Shapes
  <2>4. ExtensionAt(x)'
    BY DEF ResourceInv, ExtensionAt, Serving, Shapes
  <2>5. BaseAt(x)'
    BY DEF ResourceInv, BaseAt, Shapes
  <2> QED BY <2>1, <2>2, <2>3, <2>4, <2>5
<1>10. DurableInv'
  <2> SUFFICES ASSUME NEW x \in Contexts
               PROVE  (/\ HeldClaimed(x) /\ StoredMarked(x) /\ ArmedStored(x)
                       /\ ExtensionArmed(x) /\ BaseArmed(x))'
    BY DEF DurableInv
  <2>1. HeldClaimed(x)'
    BY DEF DurableInv, HeldClaimed, Holds, Mutation, Shapes
  <2>2. StoredMarked(x)'
    BY DEF DurableInv, StoredMarked, Mutation, MayOwn
  <2>3. ArmedStored(x)'
    BY DEF DurableInv, ArmedStored, StartupInv, MayOwn
  <2>4. ExtensionArmed(x)'
    BY DEF DurableInv, ExtensionArmed
  <2>5. BaseArmed(x)'
    BY DEF DurableInv, BaseArmed
  <2> QED BY <2>1, <2>2, <2>3, <2>4, <2>5
<1>11. EvidenceInv'
  BY DEF EvidenceInv, Holds
<1>12. StartupInv'
  BY DEF StartupInv, Pending
<1>13. RefusalExplained'
  BY DEF RefusalExplained, Pending, restart_plan
<1> QED BY <1>1, <1>2, <1>3, <1>4, <1>5, <1>6, <1>7, <1>8, <1>9, <1>10, <1>11, <1>12, <1>13

\* Restart_removed: HelperInv is kept.
LEMMA Restart_removedStep ==
  ASSUME HelperInv, restart_removed
  PROVE  HelperInv'
<1> USE JournalAssumption, CustodyAssumption DEF HelperInv, vars, journalVars, processVars,
                                                 worldVars, at, waiting, become, idle,
                                                 restart_removed, Pending
<1>1. Shapes'
  BY DEF Shapes, JournalTypeOK, Owner, Mutation, Quiet
<1>2. LifeInv'
  BY DEF LifeInv
<1>3. OpInv'
  BY DEF OpInv, LifeInv, NoOperation
<1>4. FileInv'
  BY DEF FileInv, LifeInv, OpInv, Serving
<1>5. PlaceInv'
  BY DEF PlaceInv, Shapes, Serving, MayOwn
<1>6. SubmitInv'
  BY DEF SubmitInv, SubmitPlaces, Shapes
<1>7. DormantInv'
  BY DEF DormantInv, Serving
<1>8. GateInv'
  BY DEF GateInv, Publishers, Removers, Mutation, Quiet, Serving, Shapes
<1>9. ResourceInv'
  <2> SUFFICES ASSUME NEW x \in Contexts
               PROVE  (AttestedAt(x) /\ WorkerAt(x) /\ InsideAt(x) /\ ExtensionAt(x) /\ BaseAt(x))'
    BY DEF ResourceInv
  <2>1. AttestedAt(x)'
    BY DEF ResourceInv, AttestedAt, Removers, Shapes
  <2>2. WorkerAt(x)'
    BY DEF ResourceInv, WorkerAt, Shapes
  <2>3. InsideAt(x)'
    BY DEF ResourceInv, InsideAt, Serving, Shapes
  <2>4. ExtensionAt(x)'
    BY DEF ResourceInv, ExtensionAt, Serving, Shapes
  <2>5. BaseAt(x)'
    BY DEF ResourceInv, BaseAt, Shapes
  <2> QED BY <2>1, <2>2, <2>3, <2>4, <2>5
<1>10. DurableInv'
  <2> SUFFICES ASSUME NEW x \in Contexts
               PROVE  (/\ HeldClaimed(x) /\ StoredMarked(x) /\ ArmedStored(x)
                       /\ ExtensionArmed(x) /\ BaseArmed(x))'
    BY DEF DurableInv
  <2>1. HeldClaimed(x)'
    BY DEF DurableInv, HeldClaimed, Holds, Mutation, Shapes
  <2>2. StoredMarked(x)'
    BY DEF DurableInv, StoredMarked, Mutation, MayOwn
  <2>3. ArmedStored(x)'
    BY DEF DurableInv, ArmedStored
  <2>4. ExtensionArmed(x)'
    BY DEF DurableInv, ExtensionArmed
  <2>5. BaseArmed(x)'
    BY DEF DurableInv, BaseArmed
  <2> QED BY <2>1, <2>2, <2>3, <2>4, <2>5
<1>11. EvidenceInv'
  BY DEF EvidenceInv, Holds
<1>12. StartupInv'
  BY DEF StartupInv, LifeInv, FileInv
<1>13. RefusalExplained'
  BY DEF RefusalExplained, Pending, restart_plan
<1> QED BY <1>1, <1>2, <1>3, <1>4, <1>5, <1>6, <1>7, <1>8, <1>9, <1>10, <1>11, <1>12, <1>13

\* Startup_sweep: HelperInv is kept.
LEMMA Startup_sweepStep ==
  ASSUME HelperInv, NEW c \in Contexts, startup_sweep(c)
  PROVE  HelperInv'
<1> USE JournalAssumption, CustodyAssumption DEF HelperInv, vars, journalVars, processVars,
                                                 worldVars, at, waiting, become, idle,
                                                 startup_sweep, compare_and_swap, Pending,
                                                 Targets
<1>1. Shapes'
  BY DEF Shapes, JournalTypeOK, Moves, Phases
<1>2. LifeInv'
  BY DEF LifeInv
<1>3. OpInv'
  BY DEF OpInv, LifeInv, NoOperation
<1>4. FileInv'
  BY DEF FileInv, LifeInv, OpInv, Serving
<1>5. PlaceInv'
  BY DEF PlaceInv, Shapes, Serving, MayOwn
<1>6. SubmitInv'
  BY DEF SubmitInv, SubmitPlaces, Shapes
<1>7. DormantInv'
  BY DEF DormantInv, Serving
<1>8. GateInv'
  BY DEF GateInv, Publishers, Removers, Mutation, Quiet, Serving, Shapes
<1>9. ResourceInv'
  <2> SUFFICES ASSUME NEW x \in Contexts
               PROVE  (AttestedAt(x) /\ WorkerAt(x) /\ InsideAt(x) /\ ExtensionAt(x) /\ BaseAt(x))'
    BY DEF ResourceInv
  <2>1. AttestedAt(x)'
    BY DEF ResourceInv, AttestedAt, Removers, Shapes
  <2>2. WorkerAt(x)'
    BY DEF ResourceInv, WorkerAt, Shapes
  <2>3. InsideAt(x)'
    BY DEF ResourceInv, InsideAt, Serving, Shapes
  <2>4. ExtensionAt(x)'
    BY DEF ResourceInv, ExtensionAt, Serving, Shapes
  <2>5. BaseAt(x)'
    BY DEF ResourceInv, BaseAt, Shapes
  <2> QED BY <2>1, <2>2, <2>3, <2>4, <2>5
<1>10. DurableInv'
  <2> SUFFICES ASSUME NEW x \in Contexts
               PROVE  (/\ HeldClaimed(x) /\ StoredMarked(x) /\ ArmedStored(x)
                       /\ ExtensionArmed(x) /\ BaseArmed(x))'
    BY DEF DurableInv
  <2>1. HeldClaimed(x)'
    BY DEF DurableInv, HeldClaimed, Holds, Mutation, Shapes
  <2>2. StoredMarked(x)'
    BY DEF DurableInv, StoredMarked, Mutation, MayOwn
  <2>3. ArmedStored(x)'
    BY DEF DurableInv, ArmedStored
  <2>4. ExtensionArmed(x)'
    BY DEF DurableInv, ExtensionArmed
  <2>5. BaseArmed(x)'
    BY DEF DurableInv, BaseArmed
  <2> QED BY <2>1, <2>2, <2>3, <2>4, <2>5
<1>11. EvidenceInv'
  <2>1. <<c, "extension">> \notin birth
    BY DEF DurableInv, ExtensionArmed, StartupInv, MayOwn
  <2>2. ~Holds(c)
    BY <2>1 DEF Holds, DormantInv, Serving, StartupInv, Mutation, Quiet
  <2> QED BY <2>2 DEF EvidenceInv, Holds
<1>12. StartupInv'
  BY DEF StartupInv, Pending
<1>13. RefusalExplained'
  BY DEF RefusalExplained, Pending, restart_plan
<1> QED BY <1>1, <1>2, <1>3, <1>4, <1>5, <1>6, <1>7, <1>8, <1>9, <1>10, <1>11, <1>12, <1>13

\* Serve: HelperInv is kept.
LEMMA ServeStep ==
  ASSUME HelperInv, serve
  PROVE  HelperInv'
<1> USE JournalAssumption, CustodyAssumption DEF HelperInv, vars, journalVars, processVars,
                                                 worldVars, at, waiting, become, idle, serve
<1>1. Shapes'
  BY DEF Shapes, JournalTypeOK, Owner, Mutation, Quiet
<1>2. LifeInv'
  BY DEF LifeInv
<1>3. OpInv'
  BY DEF OpInv, LifeInv, NoOperation
<1>4. FileInv'
  BY DEF FileInv, LifeInv, OpInv, Serving
<1>5. PlaceInv'
  BY DEF PlaceInv, DormantInv
<1>6. SubmitInv'
  BY DEF SubmitInv, SubmitPlaces, Shapes
<1>7. DormantInv'
  BY DEF DormantInv, Serving
<1>8. GateInv'
  BY DEF GateInv, StartupInv, DormantInv, Serving, Quiet, Removers
<1>9. ResourceInv'
  <2> SUFFICES ASSUME NEW x \in Contexts
               PROVE  (AttestedAt(x) /\ WorkerAt(x) /\ InsideAt(x) /\ ExtensionAt(x) /\ BaseAt(x))'
    BY DEF ResourceInv
  <2>1. AttestedAt(x)'
    BY DEF ResourceInv, AttestedAt, Removers, Shapes
  <2>2. WorkerAt(x)'
    BY DEF ResourceInv, WorkerAt, Shapes
  <2>3. InsideAt(x)'
    BY DEF InsideAt, StartupInv
  <2>4. ExtensionAt(x)'
    BY DEF ExtensionAt, DurableInv, ExtensionArmed, FileInv, LifeInv
  <2>5. BaseAt(x)'
    BY DEF ResourceInv, BaseAt, Shapes
  <2> QED BY <2>1, <2>2, <2>3, <2>4, <2>5
<1>10. DurableInv'
  <2> SUFFICES ASSUME NEW x \in Contexts
               PROVE  (/\ HeldClaimed(x) /\ StoredMarked(x) /\ ArmedStored(x)
                       /\ ExtensionArmed(x) /\ BaseArmed(x))'
    BY DEF DurableInv
  <2>1. HeldClaimed(x)'
    BY DEF DurableInv, HeldClaimed, Holds, Mutation, Shapes
  <2>2. StoredMarked(x)'
    BY DEF DurableInv, StoredMarked, Mutation, MayOwn
  <2>3. ArmedStored(x)'
    BY DEF DurableInv, ArmedStored
  <2>4. ExtensionArmed(x)'
    BY DEF DurableInv, ExtensionArmed
  <2>5. BaseArmed(x)'
    BY DEF DurableInv, BaseArmed
  <2> QED BY <2>1, <2>2, <2>3, <2>4, <2>5
<1>11. EvidenceInv'
  BY DEF EvidenceInv, Holds
<1>12. StartupInv'
  BY DEF StartupInv, Pending
<1>13. RefusalExplained'
  BY DEF RefusalExplained, Pending, restart_plan
<1> QED BY <1>1, <1>2, <1>3, <1>4, <1>5, <1>6, <1>7, <1>8, <1>9, <1>10, <1>11, <1>12, <1>13

\* Shutdown: HelperInv is kept.
LEMMA ShutdownStep ==
  ASSUME HelperInv, shutdown
  PROVE  HelperInv'
<1> USE JournalAssumption, CustodyAssumption DEF HelperInv, vars, journalVars, processVars,
                                                 worldVars, at, waiting, become, idle, shutdown
<1>1. Shapes'
  BY DEF Shapes, JournalTypeOK, Owner, Mutation, Quiet
<1>2. LifeInv'
  BY DEF LifeInv
<1>3. OpInv'
  BY DEF OpInv, LifeInv, NoOperation
<1>4. FileInv'
  BY DEF FileInv, LifeInv, OpInv, Serving
<1>5. PlaceInv'
  BY DEF PlaceInv, Shapes, Serving, MayOwn
<1>6. SubmitInv'
  BY DEF SubmitInv, SubmitPlaces, Shapes
<1>7. DormantInv'
  BY DEF DormantInv, Serving
<1>8. GateInv'
  BY DEF GateInv, Publishers, Removers, Mutation, Quiet, Serving, Shapes
<1>9. ResourceInv'
  <2> SUFFICES ASSUME NEW x \in Contexts
               PROVE  (AttestedAt(x) /\ WorkerAt(x) /\ InsideAt(x) /\ ExtensionAt(x) /\ BaseAt(x))'
    BY DEF ResourceInv
  <2>1. AttestedAt(x)'
    BY DEF ResourceInv, AttestedAt, Removers, Shapes
  <2>2. WorkerAt(x)'
    BY DEF ResourceInv, WorkerAt, Shapes
  <2>3. InsideAt(x)'
    BY DEF ResourceInv, InsideAt, Serving, Shapes
  <2>4. ExtensionAt(x)'
    BY DEF ResourceInv, ExtensionAt, Serving, Shapes
  <2>5. BaseAt(x)'
    BY DEF ResourceInv, BaseAt, Shapes
  <2> QED BY <2>1, <2>2, <2>3, <2>4, <2>5
<1>10. DurableInv'
  <2> SUFFICES ASSUME NEW x \in Contexts
               PROVE  (/\ HeldClaimed(x) /\ StoredMarked(x) /\ ArmedStored(x)
                       /\ ExtensionArmed(x) /\ BaseArmed(x))'
    BY DEF DurableInv
  <2>1. HeldClaimed(x)'
    BY DEF DurableInv, HeldClaimed, Holds, Mutation, Shapes
  <2>2. StoredMarked(x)'
    BY DEF DurableInv, StoredMarked, Mutation, MayOwn
  <2>3. ArmedStored(x)'
    BY DEF DurableInv, ArmedStored
  <2>4. ExtensionArmed(x)'
    BY DEF DurableInv, ExtensionArmed
  <2>5. BaseArmed(x)'
    BY DEF DurableInv, BaseArmed
  <2> QED BY <2>1, <2>2, <2>3, <2>4, <2>5
<1>11. EvidenceInv'
  BY DEF EvidenceInv, Holds
<1>12. StartupInv'
  BY DEF StartupInv, Pending
<1>13. RefusalExplained'
  BY DEF RefusalExplained, Pending, restart_plan
<1> QED BY <1>1, <1>2, <1>3, <1>4, <1>5, <1>6, <1>7, <1>8, <1>9, <1>10, <1>11, <1>12, <1>13

\* Exit: HelperInv is kept.
LEMMA ExitStep ==
  ASSUME HelperInv, Exit
  PROVE  HelperInv'
<1> USE JournalAssumption, CustodyAssumption DEF HelperInv, vars, journalVars, processVars,
                                                 worldVars, at, waiting, become, idle, Exit,
                                                 ProcessEnds, JournalEnds, applied
<1>1. Shapes'
  <2>1. JournalTypeOK'
    BY DEF Shapes, JournalTypeOK, NoOperation, NoRecord, OwnershipRecord, Moves, Phases, Origins
  <2>2. stored' \subseteq Contexts
    BY DEF Shapes, GateInv, Quiet
  <2> QED BY <2>1, <2>2 DEF Shapes, Owner, Quiet
<1>2. LifeInv'
  BY DEF LifeInv, Shapes, OpInv, Serving, NoOperation, Mutation, Quiet
<1>3. OpInv'
  BY DEF OpInv, LifeInv, NoOperation
<1>4. FileInv'
  BY DEF FileInv, LifeInv, OpInv, Serving
<1>5. PlaceInv'
  BY DEF PlaceInv, Shapes, Serving, MayOwn
<1>6. SubmitInv'
  BY DEF SubmitInv, NoOperation
<1>7. DormantInv'
  BY DEF DormantInv, Serving
<1>8. GateInv'
  BY DEF GateInv, Publishers, Removers, Mutation, Quiet, Serving, Shapes
<1>9. ResourceInv'
  <2> SUFFICES ASSUME NEW x \in Contexts
               PROVE  (AttestedAt(x) /\ WorkerAt(x) /\ InsideAt(x) /\ ExtensionAt(x) /\ BaseAt(x))'
    BY DEF ResourceInv
  <2>1. AttestedAt(x)'
    BY DEF ResourceInv, AttestedAt, Removers, Shapes
  <2>2. WorkerAt(x)'
    BY DEF ResourceInv, WorkerAt, Shapes
  <2>3. InsideAt(x)'
    BY DEF ResourceInv, InsideAt, Serving, Shapes
  <2>4. ExtensionAt(x)'
    BY DEF ResourceInv, ExtensionAt, Serving, Shapes
  <2>5. BaseAt(x)'
    BY DEF ResourceInv, BaseAt, Shapes
  <2> QED BY <2>1, <2>2, <2>3, <2>4, <2>5
<1>10. DurableInv'
  <2> SUFFICES ASSUME NEW x \in Contexts
               PROVE  (/\ HeldClaimed(x) /\ StoredMarked(x) /\ ArmedStored(x)
                       /\ ExtensionArmed(x) /\ BaseArmed(x))'
    BY DEF DurableInv
  <2>1. HeldClaimed(x)'
    BY DEF DurableInv, HeldClaimed, Holds, Mutation, Shapes, Quiet
  <2>2. StoredMarked(x)'
    BY DEF DurableInv, StoredMarked, Mutation, Shapes, Quiet
  <2>3. ArmedStored(x)'
    <3>1. msg.kind = "remove" => msg.ctx \in Contexts /\ durable[msg.ctx].phase = "CleanupConfirmed"
      BY RemoverConfirmed DEF GateInv, Quiet
    <3> QED BY <3>1 DEF DurableInv, ArmedStored
  <2>4. ExtensionArmed(x)'
    BY DEF DurableInv, ExtensionArmed
  <2>5. BaseArmed(x)'
    BY DEF DurableInv, BaseArmed
  <2> QED BY <2>1, <2>2, <2>3, <2>4, <2>5
<1>11. EvidenceInv'
  BY DEF EvidenceInv, OpInv
<1>12. StartupInv'
  BY DEF StartupInv, Pending
<1>13. RefusalExplained'
  BY DEF RefusalExplained, Pending, restart_plan
<1> QED BY <1>1, <1>2, <1>3, <1>4, <1>5, <1>6, <1>7, <1>8, <1>9, <1>10, <1>11, <1>12, <1>13

\* Crash: HelperInv is kept.
LEMMA CrashStep ==
  ASSUME HelperInv, Crash
  PROVE  HelperInv'
<1> USE JournalAssumption, CustodyAssumption DEF HelperInv, vars, journalVars, processVars,
                                                 worldVars, at, waiting, become, idle, Crash,
                                                 ProcessEnds, JournalEnds, applied
<1>1. Shapes'
  <2>1. JournalTypeOK'
    BY DEF Shapes, JournalTypeOK, NoOperation, NoRecord, OwnershipRecord, Moves, Phases, Origins
  <2>2. stored' \subseteq Contexts
    BY DEF Shapes, GateInv, Quiet
  <2>3. crashes' \in 0..MaxCrashes
    BY DEF Shapes
  <2> QED BY <2>1, <2>2, <2>3 DEF Shapes, Owner, Quiet
<1>2. LifeInv'
  BY DEF LifeInv, Shapes, OpInv, Serving, NoOperation, Mutation, Quiet
<1>3. OpInv'
  BY DEF OpInv, LifeInv, NoOperation
<1>4. FileInv'
  BY DEF FileInv, NoOperation
<1>5. PlaceInv'
  BY DEF PlaceInv, Shapes, Serving, MayOwn
<1>6. SubmitInv'
  BY DEF SubmitInv, NoOperation
<1>7. DormantInv'
  BY DEF DormantInv, Serving
<1>8. GateInv'
  BY DEF GateInv, Publishers, Removers, Mutation, Quiet, Serving, Shapes
<1>9. ResourceInv'
  <2> SUFFICES ASSUME NEW x \in Contexts
               PROVE  (AttestedAt(x) /\ WorkerAt(x) /\ InsideAt(x) /\ ExtensionAt(x) /\ BaseAt(x))'
    BY DEF ResourceInv
  <2>1. AttestedAt(x)'
    BY DEF ResourceInv, AttestedAt, Removers, Shapes
  <2>2. WorkerAt(x)'
    BY DEF ResourceInv, WorkerAt, Shapes
  <2>3. InsideAt(x)'
    BY DEF ResourceInv, InsideAt, Serving, Shapes
  <2>4. ExtensionAt(x)'
    BY DEF ResourceInv, ExtensionAt, Serving, Shapes
  <2>5. BaseAt(x)'
    BY DEF ResourceInv, BaseAt, Shapes
  <2> QED BY <2>1, <2>2, <2>3, <2>4, <2>5
<1>10. DurableInv'
  <2> SUFFICES ASSUME NEW x \in Contexts
               PROVE  (/\ HeldClaimed(x) /\ StoredMarked(x) /\ ArmedStored(x)
                       /\ ExtensionArmed(x) /\ BaseArmed(x))'
    BY DEF DurableInv
  <2>1. HeldClaimed(x)'
    BY DEF DurableInv, HeldClaimed, Holds, Mutation, Shapes, Quiet
  <2>2. StoredMarked(x)'
    BY DEF DurableInv, StoredMarked, Mutation, Shapes, Quiet
  <2>3. ArmedStored(x)'
    <3>1. msg.kind = "remove" => msg.ctx \in Contexts /\ durable[msg.ctx].phase = "CleanupConfirmed"
      BY RemoverConfirmed DEF GateInv, Quiet
    <3> QED BY <3>1 DEF DurableInv, ArmedStored
  <2>4. ExtensionArmed(x)'
    BY DEF DurableInv, ExtensionArmed
  <2>5. BaseArmed(x)'
    BY DEF DurableInv, BaseArmed
  <2> QED BY <2>1, <2>2, <2>3, <2>4, <2>5
<1>11. EvidenceInv'
  BY DEF EvidenceInv, NoOperation
<1>12. StartupInv'
  BY DEF StartupInv, Pending
<1>13. RefusalExplained'
  BY DEF RefusalExplained, Pending, restart_plan
<1> QED BY <1>1, <1>2, <1>3, <1>4, <1>5, <1>6, <1>7, <1>8, <1>9, <1>10, <1>11, <1>12, <1>13

-----------------------------------------------------------------------------
(* The invariant holds in every reachable state. *)

\* The invariant holds initially.
LEMMA HelperInvInit == Init => HelperInv
<1> SUFFICES ASSUME Init PROVE HelperInv
  OBVIOUS
<1> USE JournalAssumption, CustodyAssumption DEF Init, JournalInit, idle
<1>1. Shapes
  <2>1. NoRecord \in OwnershipRecord
    BY DEF NoRecord, OwnershipRecord, Phases, Origins
  <2>2. /\ durable \in [Contexts -> OwnershipRecord]
        /\ mem \in [Contexts -> OwnershipRecord]
    BY <2>1
  <2>3. op \in [ ctx : Contexts \cup {"none"}, to : Moves, step : {"idle", "written", "renamed"},
                 by : {"none", "owner", "startup"}, late : BOOLEAN ]
    BY DEF NoOperation, Moves, Phases
  <2>4. errors \in 0..MaxErrors /\ crashes \in 0..MaxCrashes
    OBVIOUS
  <2>5. JournalTypeOK
    BY <2>2, <2>3, <2>4 DEF JournalTypeOK
  <2>6. own \in [Contexts -> Owner]
    BY DEF Owner
  <2>7. Quiet \in [kind : {"none", "publish", "remove"}, ctx : Contexts \cup {"none"}]
    BY DEF Quiet
  <2> QED BY <2>4, <2>5, <2>6, <2>7 DEF Shapes
<1>2. LifeInv /\ OpInv /\ FileInv
  BY DEF LifeInv, OpInv, FileInv, NoOperation, Serving
<1>3. PlaceInv /\ SubmitInv /\ DormantInv
  BY DEF PlaceInv, SubmitInv, DormantInv, NoOperation, Serving
<1>4. GateInv /\ ResourceInv
  BY DEF GateInv, ResourceInv, AttestedAt, WorkerAt, InsideAt, ExtensionAt, BaseAt, Quiet,
         Removers,
         Serving
<1>5. DurableInv
  <2> SUFFICES ASSUME NEW x \in Contexts
               PROVE  /\ HeldClaimed(x) /\ StoredMarked(x) /\ ArmedStored(x)
                      /\ ExtensionArmed(x) /\ BaseArmed(x)
    BY DEF DurableInv
  <2> QED BY DEF HeldClaimed, StoredMarked, ArmedStored, ExtensionArmed, BaseArmed, Holds,
                 NoRecord,
                 Quiet, Mutation
<1>6. EvidenceInv /\ StartupInv /\ RefusalExplained
  BY DEF EvidenceInv, StartupInv, RefusalExplained, NoOperation
<1> QED BY <1>1, <1>2, <1>3, <1>4, <1>5, <1>6 DEF HelperInv

\* The steps that set a context up.
LEMMA SetupStep ==
  ASSUME HelperInv, NEW c \in Contexts, Setup(c)
  PROVE  HelperInv'
BY RegisterStep, SpawnStep, Mark_custodyStep, PublishStep, Attest_publicationStep,
   Arm_custodyStep, Create_wireguardStep, Move_wireguardStep, Extend_pathStep, Zenon DEF Setup

\* The steps that take a context down.
LEMMA SettlementStep ==
  ASSUME HelperInv, NEW c \in Contexts, Settlement(c)
  PROVE  HelperInv'
BY Settle_never_dispatchedStep, Retire_never_dispatchedStep, End_contextStep,
   Cleanup_exactStep, Confirm_cleanupStep, Reconcile_publicationStep,
   Observe_publication_absenceStep, RemoveStep, Attest_removalStep, Abandon_mutationStep,
   Confirm_manager_absentStep, Zenon DEF Settlement

\* The steps of a startup.
LEMMA StartupStep ==
  ASSUME HelperInv, Startup
  PROVE  HelperInv'
BY ClassifyStep, Restart_confirmedStep, Restart_removedStep, ServeStep, Restart_reapStep,
   Confirm_restart_cleanupStep, Restart_removeStep, Startup_sweepStep, Zenon DEF Startup

\* A step that changes nothing.
LEMMA StutterStep ==
  ASSUME HelperInv, UNCHANGED vars
  PROVE  HelperInv'
<1> USE DEF vars, journalVars, processVars, worldVars
<1>1. (Shapes /\ LifeInv /\ OpInv /\ FileInv /\ PlaceInv)'
  BY DEF HelperInv, Shapes, JournalTypeOK, LifeInv, OpInv, FileInv, PlaceInv, Serving, idle
<1>2. (SubmitInv /\ DormantInv /\ GateInv /\ ResourceInv)'
  BY DEF HelperInv, SubmitInv, DormantInv, GateInv, ResourceInv, AttestedAt, WorkerAt, InsideAt,
         ExtensionAt, BaseAt, Serving
<1>3. (DurableInv /\ EvidenceInv /\ StartupInv /\ RefusalExplained)'
  BY DEF HelperInv, DurableInv, EvidenceInv, StartupInv, RefusalExplained, HeldClaimed,
         StoredMarked, ArmedStored, ExtensionArmed, BaseArmed, Holds, idle, Pending
<1> QED BY <1>1, <1>2, <1>3 DEF HelperInv

\* The invariant holds in every reachable state.
LEMMA HelperInvHolds == Spec => []HelperInv
<1>1. HelperInv /\ [Next]_vars => HelperInv'
  <2> SUFFICES ASSUME HelperInv, [Next]_vars PROVE HelperInv'
    OBVIOUS
  <2>1. CASE \E c \in Contexts : Setup(c) \/ Settlement(c) \/ QueuedTooLong(c)
    BY <2>1, SetupStep, SettlementStep, QueuedTooLongStep
  <2>2. CASE JournalStep \/ PersistFailed \/ PersistUncertain \/ LateReply
    BY <2>2, RenameStep, PersistedStep, PersistFailedStep, PersistUncertainStep, LateReplyStep
       DEF JournalStep
  <2>3. CASE Deliver \/ Open \/ Startup
    BY <2>3, DeliverStep, OpenStep, StartupStep
  <2>4. CASE shutdown \/ Exit \/ Crash
    BY <2>4, ShutdownStep, ExitStep, CrashStep
  <2>5. CASE UNCHANGED vars
    BY <2>5, StutterStep
  <2> QED BY <2>1, <2>2, <2>3, <2>4, <2>5 DEF Next
<1> QED BY <1>1, HelperInvInit, PTL DEF Spec

-----------------------------------------------------------------------------
(* Types, and the properties the runs check. *)

\* Types, and that a pair is believed stored only between its attestation and
\* its attested removal.
THEOREM HelperTypeCorrect == Spec => []TypeOK
<1>1. HelperInv => TypeOK
  BY DEF HelperInv, Shapes, ResourceInv, AttestedAt, Removers, Unattested, TypeOK
<1> QED BY <1>1, HelperInvHolds, PTL

\* Between operations the actor's snapshot is the journal file: an unknown
\* outcome of persist_atomic is never taken for the old or the new snapshot.
THEOREM HelperMemoryIsDurable == Spec => []MemoryIsDurable
<1>1. HelperInv => MemoryIsDurable
  BY DEF HelperInv, FileInv, MemoryIsDurable
<1> QED BY <1>1, HelperInvHolds, PTL

\* While the ManagerMutationGate is open the store is what the owners attested,
\* and a message on its way is the mutation the gate names.
THEOREM HelperOpenGateIsCertain == Spec => []OpenGateIsCertain
<1>1. HelperInv => OpenGateIsCertain
  BY DEF HelperInv, GateInv, OpenGateIsCertain, Serving, Quiet
<1> QED BY <1>1, HelperInvHolds, PTL

\* classify_journal_targets refuses a start only in the three shapes a crash can
\* leave behind and the reaper cannot prove.
THEOREM HelperRefusalExplained == Spec => []RefusalExplained
<1>1. HelperInv => RefusalExplained
  BY DEF HelperInv
<1> QED BY <1>1, HelperInvHolds, PTL

\* A shutdown that reports a quiescent journal left no worker, no stored pair, no
\* link in a worker's namespace and no extension link.
THEOREM HelperCleanStop == Spec => []CleanStop
<1>1. HelperInv => CleanStop
  <2> SUFFICES ASSUME HelperInv, life = "stopped", clean PROVE CleanStop
    BY DEF CleanStop
  <2>1. mem = durable
    BY DEF HelperInv, LifeInv, FileInv
  <2>2. \A x \in Contexts : ~Holds(x)
    BY <2>1 DEF HelperInv, LifeInv, DurableInv, HeldClaimed
  <2>3. /\ workers = {} /\ stored = {} /\ inside = {}
        /\ \A x \in Contexts : <<x, "extension">> \notin birth
    BY <2>2 DEF HelperInv, Shapes, Holds, Link
  <2> QED BY <2>3 DEF CleanStop
<1> QED BY <1>1, HelperInvHolds, PTL

-----------------------------------------------------------------------------
(* The refinement of CustodyContract.                                      *)
(*                                                                         *)
(* A claim is read off the file, so only Rename changes one; only spawn,   *)
(* publish and create_wireguard bring something into being; every other    *)
(* step keeps or drops what exists.                                        *)

claimOf(d) ==
  [c \in Contexts |-> CASE d[c].phase = "None" -> "free"
                        [] d[c].phase = "Absent" -> "settled"
                        [] OTHER -> "claimed"]

\* HeldContexts, one context at a time.
LEMMA HeldIsHolds ==
  ASSUME Shapes
  PROVE  HeldContexts = {c \in Contexts : Holds(c)}
<1>1. HeldContexts \subseteq Contexts
  BY DEF HeldContexts, Shapes, Link
<1>2. \A c \in Contexts : c \in HeldContexts <=> Holds(c)
  BY DEF HeldContexts, Holds
<1> QED BY <1>1, <1>2

\* The same, after a step.
LEMMA HeldIsHoldsNext ==
  ASSUME Shapes'
  PROVE  HeldContexts' = {c \in Contexts : Holds(c)'}
<1>1. HeldContexts' \subseteq Contexts
  BY DEF HeldContexts, Shapes, Link
<1>2. \A c \in Contexts : c \in HeldContexts' <=> Holds(c)'
  BY DEF HeldContexts, Holds
<1> QED BY <1>1, <1>2

\* A step that writes nothing durable and brings nothing into being.
LEMMA DropStep ==
  ASSUME Shapes, Shapes', UNCHANGED durable, \A x \in Contexts : Holds(x)' => Holds(x)
  PROVE  Contract!Next
<1>1. HeldContexts' \in SUBSET HeldContexts
  BY HeldIsHolds, HeldIsHoldsNext
<1>2. claimOf(durable)' = claimOf(durable)
  BY DEF claimOf
<1> QED BY <1>1, <1>2 DEF Contract!Next, Contract!Drop, claimOf

\* A step that brings something of one claimed context into being.
LEMMA TakeStep ==
  ASSUME Shapes, Shapes', UNCHANGED durable, NEW c \in Contexts,
         durable[c].phase \notin {"None", "Absent"}, Holds(c)',
         \A x \in Contexts \ {c} : Holds(x)' <=> Holds(x)
  PROVE  Contract!Next
<1>1. HeldContexts' = HeldContexts \cup {c}
  BY HeldIsHolds, HeldIsHoldsNext
<1>2. claimOf(durable)' = claimOf(durable)
  BY DEF claimOf
<1>3. claimOf(durable)[c] = "claimed"
  BY DEF claimOf
<1>4. Contract!Take(c)
  BY <1>1, <1>2, <1>3 DEF Contract!Take, claimOf
<1> QED BY <1>4 DEF Contract!Next


\* A claim or a settlement is a step of the contract.
LEMMA ContractStep ==
  ASSUME NEW c \in Contexts, Contract!Claim(c) \/ Contract!Settle(c)
  PROVE  Contract!Next
BY DEF Contract!Next

\* The rename is where a claim is made or settled.
LEMMA RenameRefines ==
  ASSUME HelperInv, HelperInv', Rename
  PROVE  Contract!Next
<1> USE DEF HelperInv, Rename, rename, processVars, worldVars
<1>1. op.ctx \in Contexts /\ ~idle /\ mem = durable /\ admits(mem, op.ctx, op.to)
  BY DEF OpInv, FileInv, idle
<1>2. HeldContexts' = HeldContexts
  BY DEF HeldContexts
<1>3. /\ durable'[op.ctx].phase = IF op.to = "Extend" THEN durable[op.ctx].phase ELSE op.to
      /\ durable' = [durable EXCEPT ![op.ctx] = durable'[op.ctx]]
  BY <1>1 DEF Shapes, JournalTypeOK, advance
<1>4. claimOf(durable)' = [claimOf(durable) EXCEPT ![op.ctx] = claimOf(durable)'[op.ctx]]
  <2>1. \A x \in Contexts \ {op.ctx} : durable'[x] = durable[x]
    BY <1>3 DEF Shapes, JournalTypeOK
  <2> QED BY <1>1, <2>1 DEF claimOf
<1> PICK c \in Contexts : c = op.ctx
  BY <1>1
<1>5. CASE op.to = "Intent"
  <2>1. claimOf(durable)[op.ctx] = "free" /\ claimOf(durable)'[op.ctx] = "claimed"
    BY <1>1, <1>3, <1>5, AdmittedMoves DEF claimOf
  <2>2. Contract!Claim(c)
    BY <1>2, <1>4, <2>1 DEF Contract!Claim, claimOf
  <2> QED BY <2>2, ContractStep
<1>6. CASE op.to = "Absent"
  <2>1. claimOf(durable)[op.ctx] = "claimed" /\ claimOf(durable)'[op.ctx] = "settled"
    BY <1>1, <1>3, <1>6, AdmittedMoves DEF claimOf
  <2>2. op.ctx \notin HeldContexts
    BY <1>1, <1>6, HeldIsHolds DEF EvidenceInv
  <2>3. Contract!Settle(c)
    BY <1>2, <1>4, <2>1, <2>2 DEF Contract!Settle, claimOf
  <2> QED BY <2>3, ContractStep
<1>7. CASE op.to \notin {"Intent", "Absent"}
  <2>1. claimOf(durable)'[op.ctx] = claimOf(durable)[op.ctx]
    BY <1>1, <1>3, <1>7, AdmittedMoves DEF claimOf, MayOwn
  <2>2. claimOf(durable)' = claimOf(durable)
    BY <1>4, <2>1 DEF claimOf
  <2> QED BY <1>2, <2>2 DEF Contract!Next, Contract!Drop, claimOf
<1> QED BY <1>5, <1>6, <1>7

\* Spawn is a step of the contract or leaves claims and resources alone.
LEMMA SpawnRefines ==
  ASSUME HelperInv, HelperInv', NEW c \in Contexts, spawn(c)
  PROVE  Contract!Next
<1> USE DEF HelperInv, spawn, journalVars, become, at
<1>1. Serving /\ durable[c].phase = "Intent"
  <2>1. Serving
    BY DEF DormantInv
  <2> QED BY <2>1, OwnerRecord DEF PlaceInv
<1>2. <<c, "base">> \notin birth
  BY DEF ResourceInv, BaseAt
<1>3. CASE workers' = workers \cup {c}
  <2>1. Holds(c)' /\ \A x \in Contexts \ {c} : Holds(x)' <=> Holds(x)
    BY <1>3 DEF Holds, Shapes
  <2> QED BY <1>1, <2>1, TakeStep
<1>4. CASE workers' = workers
  <2>1. \A x \in Contexts : Holds(x)' => Holds(x)
    BY <1>2, <1>4 DEF Holds, Shapes
  <2> QED BY <2>1, DropStep
<1> QED BY <1>3, <1>4

\* Publish is a step of the contract or leaves claims and resources alone.
LEMMA PublishRefines ==
  ASSUME HelperInv, HelperInv', NEW c \in Contexts, publish(c)
  PROVE  Contract!Next
<1> USE DEF HelperInv, publish, send, worldVars, become, at
<1>1. Serving /\ durable[c].phase = "MayOwnCustody"
  <2>1. Serving
    BY DEF DormantInv
  <2> QED BY <2>1, OwnerRecord DEF PlaceInv
<1>2. msg = Quiet
  BY DEF GateInv
<1>3. <<c, "base">> \notin birth
  BY DEF ResourceInv, BaseAt
<1>4. CASE msg' = Mutation("publish", c)
  <2>1. Holds(c)' /\ \A x \in Contexts \ {c} : Holds(x)' <=> Holds(x)
    BY <1>2, <1>4 DEF Holds, Shapes, Mutation, Quiet
  <2> QED BY <1>1, <2>1, TakeStep
<1>5. CASE msg' = msg
  <2>1. \A x \in Contexts : Holds(x)' => Holds(x)
    BY <1>3, <1>5 DEF Holds, Shapes
  <2> QED BY <2>1, DropStep
<1> QED BY <1>4, <1>5

\* Create is a step of the contract or leaves claims and resources alone.
LEMMA CreateRefines ==
  ASSUME HelperInv, HelperInv', NEW c \in Contexts, create_wireguard(c)
  PROVE  Contract!Next
<1> USE DEF HelperInv, create_wireguard, journalVars, become, at
<1>1. Serving /\ durable[c].phase = "MayOwnPrepare"
  <2>1. Serving
    BY DEF DormantInv
  <2> QED BY <2>1, OwnerRecord DEF PlaceInv
<1>2. Holds(c)'
  BY DEF Holds, Shapes
<1>3. \A x \in Contexts \ {c} : Holds(x)' <=> Holds(x)
  BY DEF Holds, Shapes
<1> QED BY <1>1, <1>2, <1>3, TakeStep

\* register is a step of the contract or leaves claims and resources alone.
LEMMA RegisterRefines ==
  ASSUME HelperInv, HelperInv', NEW c \in Contexts, register(c)
  PROVE  Contract!Next
<1>1. \A x \in Contexts : Holds(x)' => Holds(x)
  BY DEF Holds, register, submit, processVars, worldVars
<1> QED BY <1>1, DropStep DEF HelperInv, register, submit, compare_and_swap, become, at

\* mark_custody is a step of the contract or leaves claims and resources alone.
LEMMA Mark_custodyRefines ==
  ASSUME HelperInv, HelperInv', NEW c \in Contexts, mark_custody(c)
  PROVE  Contract!Next
<1>1. \A x \in Contexts : Holds(x)' => Holds(x)
  BY DEF Holds, mark_custody, submit, processVars, worldVars
<1> QED BY <1>1, DropStep DEF HelperInv, mark_custody, submit, compare_and_swap, become, at

\* arm_custody is a step of the contract or leaves claims and resources alone.
LEMMA Arm_custodyRefines ==
  ASSUME HelperInv, HelperInv', NEW c \in Contexts, arm_custody(c)
  PROVE  Contract!Next
<1>1. \A x \in Contexts : Holds(x)' => Holds(x)
  BY DEF Holds, arm_custody, submit, processVars, worldVars
<1> QED BY <1>1, DropStep DEF HelperInv, arm_custody, submit, compare_and_swap, become, at

\* extend_path is a step of the contract or leaves claims and resources alone.
LEMMA Extend_pathRefines ==
  ASSUME HelperInv, HelperInv', NEW c \in Contexts, extend_path(c)
  PROVE  Contract!Next
<1>1. \A x \in Contexts : Holds(x)' => Holds(x)
  BY DEF Holds, extend_path, submit, processVars, worldVars
<1> QED BY <1>1, DropStep DEF HelperInv, extend_path, submit, compare_and_swap, become, at

\* retire_never_dispatched is a step of the contract or leaves claims and resources alone.
LEMMA Retire_never_dispatchedRefines ==
  ASSUME HelperInv, HelperInv', NEW c \in Contexts, retire_never_dispatched(c)
  PROVE  Contract!Next
<1>1. \A x \in Contexts : Holds(x)' => Holds(x)
  BY DEF Holds, retire_never_dispatched, submit, processVars, worldVars
<1> QED BY <1>1, DropStep DEF HelperInv, retire_never_dispatched, submit, compare_and_swap,
                              become, at

\* confirm_cleanup is a step of the contract or leaves claims and resources alone.
LEMMA Confirm_cleanupRefines ==
  ASSUME HelperInv, HelperInv', NEW c \in Contexts, confirm_cleanup(c)
  PROVE  Contract!Next
<1>1. \A x \in Contexts : Holds(x)' => Holds(x)
  BY DEF Holds, confirm_cleanup, submit, processVars, worldVars
<1> QED BY <1>1, DropStep DEF HelperInv, confirm_cleanup, submit, compare_and_swap, become, at

\* confirm_manager_absent is a step of the contract or leaves claims and resources alone.
LEMMA Confirm_manager_absentRefines ==
  ASSUME HelperInv, HelperInv', NEW c \in Contexts, confirm_manager_absent(c)
  PROVE  Contract!Next
<1>1. \A x \in Contexts : Holds(x)' => Holds(x)
  BY DEF Holds, confirm_manager_absent, submit, processVars, worldVars
<1> QED BY <1>1, DropStep DEF HelperInv, confirm_manager_absent, submit, compare_and_swap,
                              become, at

\* Persisted is a step of the contract or leaves claims and resources alone.
LEMMA PersistedRefines ==
  ASSUME HelperInv, HelperInv', Persisted
  PROVE  Contract!Next
<1>1. \A x \in Contexts : Holds(x)' => Holds(x)
  <2>1. op.ctx \in Contexts /\ op.to \in { "Intent", "Extend", "MayOwnCustody", "MayOwnPrepare",
                                          "CleanupConfirmed", "Absent" }
    BY AdmittedMoves DEF HelperInv, OpInv, Persisted, persisted, idle
  <2>2. After(op.to) \notin {"birthing", "ending"}
    BY <2>1 DEF After
  <2>3. \A x \in Contexts : own'[x] \in {"birthing", "ending"} => own'[x] = own[x]
    BY <2>1, <2>2 DEF HelperInv, Shapes, Persisted, become
  <2> QED BY <2>3 DEF Holds, Persisted, worldVars
<1> QED BY <1>1, DropStep DEF HelperInv, Persisted, persisted

\* PersistFailed is a step of the contract or leaves claims and resources alone.
LEMMA PersistFailedRefines ==
  ASSUME HelperInv, HelperInv', PersistFailed
  PROVE  Contract!Next
<1>1. \A x \in Contexts : Holds(x)' => Holds(x)
  BY DEF Holds, Shapes, ResourceInv, BaseAt, HelperInv, PersistFailed, AfterFailure, worldVars,
         become
<1> QED BY <1>1, DropStep DEF HelperInv, PersistFailed, persist_failed, AfterFailure,
                              journalVars, processVars, worldVars, become

\* PersistUncertain is a step of the contract or leaves claims and resources alone.
LEMMA PersistUncertainRefines ==
  ASSUME HelperInv, HelperInv', PersistUncertain
  PROVE  Contract!Next
<1>1. \A x \in Contexts : Holds(x)' => Holds(x)
  BY DEF Holds, Shapes, HelperInv, PersistUncertain, worldVars, become
<1> QED BY <1>1, DropStep DEF HelperInv, PersistUncertain, persist_uncertain, journalVars, at

\* LateReply is a step of the contract or leaves claims and resources alone.
LEMMA LateReplyRefines ==
  ASSUME HelperInv, HelperInv', LateReply
  PROVE  Contract!Next
<1>1. \A x \in Contexts : Holds(x)' => Holds(x)
  BY DEF Holds, LateReply, worldVars, become
<1> QED BY <1>1, DropStep DEF HelperInv, LateReply, late_reply, journalVars, at

\* QueuedTooLong is a step of the contract or leaves claims and resources alone.
LEMMA QueuedTooLongRefines ==
  ASSUME HelperInv, HelperInv', NEW c \in Contexts, QueuedTooLong(c)
  PROVE  Contract!Next
<1>1. \A x \in Contexts : Holds(x)' => Holds(x)
  BY DEF Holds, QueuedTooLong, worldVars, become
<1> QED BY <1>1, DropStep DEF HelperInv, QueuedTooLong, journalVars, processVars, worldVars,
                              become, at

\* settle_never_dispatched is a step of the contract or leaves claims and resources alone.
LEMMA Settle_never_dispatchedRefines ==
  ASSUME HelperInv, HelperInv', NEW c \in Contexts, settle_never_dispatched(c)
  PROVE  Contract!Next
<1>1. \A x \in Contexts : Holds(x)' => Holds(x)
  BY DEF Holds, settle_never_dispatched, become
<1> QED BY <1>1, DropStep DEF HelperInv, settle_never_dispatched, journalVars, processVars,
                              worldVars, become, at

\* move_wireguard is a step of the contract or leaves claims and resources alone.
LEMMA Move_wireguardRefines ==
  ASSUME HelperInv, HelperInv', NEW c \in Contexts, move_wireguard(c)
  PROVE  Contract!Next
<1>1. \A x \in Contexts : Holds(x)' => Holds(x)
  <2> USE DEF HelperInv, Shapes, move_wireguard, become, at
  <2> SUFFICES ASSUME NEW x \in Contexts, Holds(x)' PROVE Holds(x)
    OBVIOUS
  <2>1. CASE \E l \in of(birth, c) : l[1] = x
    <3>1. x = c /\ (<<c, "base">> \in birth \/ <<c, "extension">> \in birth)
      BY <2>1 DEF of, Link
    <3>2. <<c, "base">> \in birth => own[c] = "birthing"
      BY DEF ResourceInv, BaseAt
    <3> QED BY <3>1, <3>2 DEF Holds
  <2>2. CASE ~(\E l \in of(birth, c) : l[1] = x)
    BY <2>2 DEF Holds
  <2> QED BY <2>1, <2>2
<1> QED BY <1>1, DropStep DEF HelperInv, move_wireguard, journalVars, processVars, worldVars,
                              become, at

\* end_context is a step of the contract or leaves claims and resources alone.
LEMMA End_contextRefines ==
  ASSUME HelperInv, HelperInv', NEW c \in Contexts, end_context(c)
  PROVE  Contract!Next
<1>1. \A x \in Contexts : Holds(x)' => Holds(x)
  BY DEF Holds, ResourceInv, BaseAt, HelperInv, end_context, worldVars, become, at
<1> QED BY <1>1, DropStep DEF HelperInv, end_context, journalVars, processVars, worldVars,
                              become, at

\* cleanup_exact is a step of the contract or leaves claims and resources alone.
LEMMA Cleanup_exactRefines ==
  ASSUME HelperInv, HelperInv', NEW c \in Contexts, cleanup_exact(c)
  PROVE  Contract!Next
<1>1. \A x \in Contexts : Holds(x)' => Holds(x)
  BY DEF Holds, cleanup_exact, become
<1> QED BY <1>1, DropStep DEF HelperInv, cleanup_exact, journalVars, processVars, worldVars,
                              become, at

\* Deliver is a step of the contract or leaves claims and resources alone.
LEMMA DeliverRefines ==
  ASSUME HelperInv, HelperInv', Deliver
  PROVE  Contract!Next
<1>1. stored' \subseteq stored \cup {x \in Contexts : msg = Mutation("publish", x)}
  BY DEF HelperInv, Shapes, Mutation, Deliver, applied
<1>2. \A x \in Contexts : Holds(x)' => Holds(x)
  BY <1>1 DEF HelperInv, Shapes, Holds, Mutation, Quiet, Deliver
<1> QED BY <1>2, DropStep DEF HelperInv, Deliver, journalVars

\* attest_publication is a step of the contract or leaves claims and resources alone.
LEMMA Attest_publicationRefines ==
  ASSUME HelperInv, HelperInv', NEW c \in Contexts, attest_publication(c)
  PROVE  Contract!Next
<1>1. \A x \in Contexts : Holds(x)' => Holds(x)
  BY DEF Holds, attest_publication, worldVars, become
<1> QED BY <1>1, DropStep DEF HelperInv, attest_publication, journalVars, processVars,
                              worldVars, become, at

\* abandon_mutation is a step of the contract or leaves claims and resources alone.
LEMMA Abandon_mutationRefines ==
  ASSUME HelperInv, HelperInv', NEW c \in Contexts, abandon_mutation(c)
  PROVE  Contract!Next
<1>1. \A x \in Contexts : Holds(x)' => Holds(x)
  BY DEF Holds, ResourceInv, BaseAt, HelperInv, abandon_mutation, worldVars, become
<1> QED BY <1>1, DropStep DEF HelperInv, abandon_mutation, journalVars, processVars, worldVars,
                              become, at

\* reconcile_publication is a step of the contract or leaves claims and resources alone.
LEMMA Reconcile_publicationRefines ==
  ASSUME HelperInv, HelperInv', NEW c \in Contexts, reconcile_publication(c)
  PROVE  Contract!Next
<1>1. \A x \in Contexts : Holds(x)' => Holds(x)
  BY DEF Holds, Shapes, HelperInv, reconcile_publication, worldVars, become
<1> QED BY <1>1, DropStep DEF HelperInv, reconcile_publication, journalVars, processVars,
                              worldVars, become, at

\* observe_publication_absence is a step of the contract or leaves claims and resources alone.
LEMMA Observe_publication_absenceRefines ==
  ASSUME HelperInv, HelperInv', NEW c \in Contexts, observe_publication_absence(c)
  PROVE  Contract!Next
<1>1. \A x \in Contexts : Holds(x)' => Holds(x)
  BY DEF Holds, observe_publication_absence, worldVars, become
<1> QED BY <1>1, DropStep DEF HelperInv, observe_publication_absence, journalVars, processVars,
                              worldVars, become, at

\* remove is a step of the contract or leaves claims and resources alone.
LEMMA RemoveRefines ==
  ASSUME HelperInv, HelperInv', NEW c \in Contexts, remove(c)
  PROVE  Contract!Next
<1>1. \A x \in Contexts : Holds(x)' => Holds(x)
  <2>1. \A x \in Contexts : msg' = Mutation("publish", x) => msg = msg'
    BY DEF remove, send, Mutation
  <2>2. \A x \in Contexts : own'[x] \in {"birthing", "ending"} => own'[x] = own[x]
    BY DEF HelperInv, Shapes, remove, become
  <2> QED BY <2>1, <2>2 DEF Holds, remove, send, worldVars
<1> QED BY <1>1, DropStep DEF HelperInv, remove, send

\* attest_removal is a step of the contract or leaves claims and resources alone.
LEMMA Attest_removalRefines ==
  ASSUME HelperInv, HelperInv', NEW c \in Contexts, attest_removal(c)
  PROVE  Contract!Next
<1>1. \A x \in Contexts : Holds(x)' => Holds(x)
  BY DEF Holds, Shapes, HelperInv, attest_removal, worldVars, become
<1> QED BY <1>1, DropStep DEF HelperInv, attest_removal, journalVars, processVars, worldVars,
                              become, at

\* Open is a step of the contract or leaves claims and resources alone.
LEMMA OpenRefines ==
  ASSUME HelperInv, HelperInv', Open
  PROVE  Contract!Next
<1>1. \A x \in Contexts : Holds(x)' => Holds(x)
  BY DEF Holds, Open, worldVars
<1> QED BY <1>1, DropStep DEF HelperInv, Open, open, journalVars, at

\* Classify is a step of the contract or leaves claims and resources alone.
LEMMA ClassifyRefines ==
  ASSUME HelperInv, HelperInv', classify
  PROVE  Contract!Next
<1>1. \A x \in Contexts : Holds(x)' => Holds(x)
  BY DEF Holds, classify, worldVars
<1> QED BY <1>1, DropStep DEF HelperInv, classify, startup_class, become

\* restart_reap is a step of the contract or leaves claims and resources alone.
LEMMA Restart_reapRefines ==
  ASSUME HelperInv, HelperInv', NEW c \in Contexts, restart_reap(c)
  PROVE  Contract!Next
<1>1. \A x \in Contexts : Holds(x)' => Holds(x)
  BY DEF Holds, restart_reap
<1> QED BY <1>1, DropStep DEF HelperInv, restart_reap, journalVars, processVars, worldVars,
                              become, at

\* confirm_restart_cleanup is a step of the contract or leaves claims and resources alone.
LEMMA Confirm_restart_cleanupRefines ==
  ASSUME HelperInv, HelperInv', NEW c \in Contexts, confirm_restart_cleanup(c)
  PROVE  Contract!Next
<1>1. \A x \in Contexts : Holds(x)' => Holds(x)
  BY DEF Holds, confirm_restart_cleanup, processVars, worldVars
<1> QED BY <1>1, DropStep DEF HelperInv, confirm_restart_cleanup, compare_and_swap,
                              processVars, become

\* restart_confirmed is a step of the contract or leaves claims and resources alone.
LEMMA Restart_confirmedRefines ==
  ASSUME HelperInv, HelperInv', restart_confirmed
  PROVE  Contract!Next
<1>1. \A x \in Contexts : Holds(x)' => Holds(x)
  BY DEF Holds, restart_confirmed, worldVars
<1> QED BY <1>1, DropStep DEF HelperInv, restart_confirmed, journalVars, processVars,
                              worldVars, become, at

\* restart_remove is a step of the contract or leaves claims and resources alone.
LEMMA Restart_removeRefines ==
  ASSUME HelperInv, HelperInv', NEW c \in Contexts, restart_remove(c)
  PROVE  Contract!Next
<1>1. \A x \in Contexts : Holds(x)' => Holds(x)
  BY DEF Holds, restart_remove, processVars
<1> QED BY <1>1, DropStep DEF HelperInv, restart_remove, journalVars, processVars, worldVars,
                              become, at

\* restart_removed is a step of the contract or leaves claims and resources alone.
LEMMA Restart_removedRefines ==
  ASSUME HelperInv, HelperInv', restart_removed
  PROVE  Contract!Next
<1>1. \A x \in Contexts : Holds(x)' => Holds(x)
  BY DEF Holds, restart_removed
<1> QED BY <1>1, DropStep DEF HelperInv, restart_removed, journalVars, processVars, worldVars,
                              become, at

\* startup_sweep is a step of the contract or leaves claims and resources alone.
LEMMA Startup_sweepRefines ==
  ASSUME HelperInv, HelperInv', NEW c \in Contexts, startup_sweep(c)
  PROVE  Contract!Next
<1>1. \A x \in Contexts : Holds(x)' => Holds(x)
  BY DEF Holds, startup_sweep, processVars, worldVars
<1> QED BY <1>1, DropStep DEF HelperInv, startup_sweep, compare_and_swap, processVars, become

\* Serve is a step of the contract or leaves claims and resources alone.
LEMMA ServeRefines ==
  ASSUME HelperInv, HelperInv', serve
  PROVE  Contract!Next
<1>1. \A x \in Contexts : Holds(x)' => Holds(x)
  BY DEF Holds, serve, worldVars
<1> QED BY <1>1, DropStep DEF HelperInv, serve, journalVars, processVars, worldVars, become, at

\* Shutdown is a step of the contract or leaves claims and resources alone.
LEMMA ShutdownRefines ==
  ASSUME HelperInv, HelperInv', shutdown
  PROVE  Contract!Next
<1>1. \A x \in Contexts : Holds(x)' => Holds(x)
  BY DEF Holds, shutdown, worldVars
<1> QED BY <1>1, DropStep DEF HelperInv, shutdown, journalVars, processVars, worldVars, become,
                              at

\* Exit is a step of the contract or leaves claims and resources alone.
LEMMA ExitRefines ==
  ASSUME HelperInv, HelperInv', Exit
  PROVE  Contract!Next
<1>1. stored' \subseteq stored \cup {x \in Contexts : msg = Mutation("publish", x)}
  BY DEF HelperInv, Shapes, Mutation, Exit, ProcessEnds, applied
<1>2. \A x \in Contexts : Holds(x)' => Holds(x)
  BY <1>1 DEF HelperInv, Shapes, Holds, Mutation, Quiet, Exit, ProcessEnds
<1> QED BY <1>2, DropStep DEF HelperInv, Exit, ProcessEnds, JournalEnds

\* Crash is a step of the contract or leaves claims and resources alone.
LEMMA CrashRefines ==
  ASSUME HelperInv, HelperInv', Crash
  PROVE  Contract!Next
<1>1. stored' \subseteq stored \cup {x \in Contexts : msg = Mutation("publish", x)}
  BY DEF HelperInv, Shapes, Mutation, Crash, ProcessEnds, applied
<1>2. \A x \in Contexts : Holds(x)' => Holds(x)
  BY <1>1 DEF HelperInv, Shapes, Holds, Mutation, Quiet, Crash, ProcessEnds
<1> QED BY <1>2, DropStep DEF HelperInv, Crash, ProcessEnds, JournalEnds

\* Every behaviour of the helper is one of CustodyContract: nothing that outlives
\* a handler exists for a context without its durable claim, and no tombstone is
\* written while something does.
THEOREM HelperClaimedWhileHeld == Spec => ClaimedWhileHeld
<1>1. Init => Contract!Init
  <2> SUFFICES ASSUME Init PROVE Contract!Init
    OBVIOUS
  <2>1. HeldContexts = {}
    BY DEF Init, HeldContexts, Quiet, Mutation
  <2>2. claimOf(durable) = [c \in Contexts |-> "free"]
    BY DEF Init, JournalInit, NoRecord, claimOf
  <2> QED BY <2>1, <2>2 DEF Contract!Init, claimOf
<1>2. HelperInv /\ HelperInv' /\ [Next]_vars => [Contract!Next]_(Contract!vars)
  <2> SUFFICES ASSUME HelperInv, HelperInv', [Next]_vars
               PROVE  Contract!Next \/ UNCHANGED Contract!vars
    OBVIOUS
  <2>1. CASE \E c \in Contexts : Setup(c)
    BY <2>1, RegisterRefines, SpawnRefines, Mark_custodyRefines, PublishRefines,
       Attest_publicationRefines, Arm_custodyRefines, CreateRefines, Move_wireguardRefines,
       Extend_pathRefines, Zenon DEF Setup
  <2>2. CASE \E c \in Contexts : Settlement(c)
    BY <2>2, Settle_never_dispatchedRefines, Retire_never_dispatchedRefines, End_contextRefines,
       Cleanup_exactRefines, Confirm_cleanupRefines, Reconcile_publicationRefines,
       Observe_publication_absenceRefines, RemoveRefines, Attest_removalRefines,
       Abandon_mutationRefines, Confirm_manager_absentRefines, Zenon DEF Settlement
  <2>3. CASE \E c \in Contexts : QueuedTooLong(c)
    BY <2>3, QueuedTooLongRefines, Zenon
  <2>4. CASE JournalStep \/ PersistFailed \/ PersistUncertain \/ LateReply
    BY <2>4, RenameRefines, PersistedRefines, PersistFailedRefines, PersistUncertainRefines,
       LateReplyRefines, Zenon DEF JournalStep
  <2>5. CASE Deliver \/ Open
    BY <2>5, DeliverRefines, OpenRefines, Zenon
  <2>6. CASE Startup
    BY <2>6, ClassifyRefines, Restart_confirmedRefines, Restart_removedRefines, ServeRefines,
       Restart_reapRefines, Confirm_restart_cleanupRefines, Restart_removeRefines,
       Startup_sweepRefines, Zenon DEF Startup
  <2>7. CASE shutdown \/ Exit \/ Crash
    BY <2>7, ShutdownRefines, ExitRefines, CrashRefines, Zenon
  <2>8. CASE UNCHANGED vars
    <3>1. HeldContexts' = HeldContexts
      BY <2>8 DEF vars, processVars, worldVars, HeldContexts
    <3>2. claimOf(durable)' = claimOf(durable)
      BY <2>8 DEF vars, journalVars, claimOf
    <3> QED BY <3>1, <3>2 DEF Contract!vars, claimOf
  <2> QED BY <2>1, <2>2, <2>3, <2>4, <2>5, <2>6, <2>7, <2>8 DEF Next
<1> QED BY <1>1, <1>2, HelperInvHolds, PTL DEF Spec, ClaimedWhileHeld, Contract!Spec
===============================================================================
