------------------------------- MODULE LedgerOps -------------------------------
(***************************************************************************)
(* The in-memory capacity ledger of one relay or exit                      *)
(* (crates/volparossa-reservation/src/lib.rs).  A ledger value is a record *)
(*   up, down   bandwidth reserved so far, one running counter per         *)
(*              direction (CapacityLedger::reserved)                       *)
(*   grants     accepted reservations by identifier                        *)
(* Each method is an operator from ledger values to ledger values, so that *)
(* the services that own a ledger (ExitService, RelayService) compose      *)
(* them; CapacityLedger is the state machine of a ledger on its own.       *)
(*                                                                         *)
(* Time is in whole seconds here.  A request carries the signed window and *)
(* bandwidth; "scoped" stands for the checks on role, node, transport list *)
(* and path count, which touch no state.                                   *)
(***************************************************************************)
EXTENDS Totals

CONSTANTS
  ReservationIds,  \* identifiers a request may carry
  UpLimit,         \* LedgerLimits::bandwidth, both directions
  DownLimit,
  MaxSessions,     \* LedgerLimits::maximum_sessions
  MaxTtl,          \* LedgerLimits::maximum_reservation_ttl_seconds
  SetupTimeout     \* LedgerLimits::tunnel_setup_timeout_seconds

\* LedgerLimits::validate
ASSUME LimitsAssumption ==
  /\ UpLimit \in Nat \ {0} /\ DownLimit \in Nat \ {0}
  /\ MaxSessions \in Nat \ {0} /\ MaxTtl \in Nat \ {0}
  /\ SetupTimeout \in 1..MaxTtl

AllocationState == {"PendingTunnel", "Active"}

Requests ==
  [id: ReservationIds, up: Nat, down: Nat, created: Nat, expires: Nat, scoped: BOOLEAN]

Grants ==
  {g \in [up: Nat, down: Nat, expires: Nat, deadline: Nat, state: AllocationState] :
     g.deadline <= g.expires}

EmptyLedger == [up |-> 0, down |-> 0, grants |-> << >>]

(***************************************************************************)
(* AuthorizedReservation::validate.                                        *)
(***************************************************************************)
ValidRequest(req, t) ==
  /\ req.scoped
  /\ req.up > 0 /\ req.down > 0
  /\ req.created <= t
  /\ req.expires > req.created
  /\ req.expires > t
  /\ req.expires - req.created <= MaxTtl

\* Mutants: the setup deadline also ends established tunnels; hard expiry forgotten.
DeadlineEndsAll(g, t) == g.expires <= t \/ g.deadline <= t
NoHardExpiry(g, t) == g.state = "PendingTunnel" /\ g.deadline <= t

\* The filter of CapacityLedger::purge_expired.
GrantExpired(g, t) ==
  \/ g.expires <= t
  \/ g.state = "PendingTunnel" /\ g.deadline <= t

LedgerExpired(L, t) == {id \in DOMAIN L.grants : GrantExpired(L.grants[id], t)}

UpOf(L, ids)   == Total([id \in ids |-> L.grants[id].up], ids)
DownOf(L, ids) == Total([id \in ids |-> L.grants[id].down], ids)

\* Mutant: the downstream counter is not given back.
DownLeaks(L, ids) ==
  [up     |-> L.up - UpOf(L, ids),
   down   |-> L.down,
   grants |-> [id \in DOMAIN L.grants \ ids |-> L.grants[id]]]

\* Grants removed one by one, each followed by subtract_bandwidth.
LedgerWithout(L, ids) ==
  [up     |-> L.up - UpOf(L, ids),
   down   |-> L.down - DownOf(L, ids),
   grants |-> [id \in DOMAIN L.grants \ ids |-> L.grants[id]]]

LedgerPurged(L, t) == LedgerWithout(L, LedgerExpired(L, t))

\* Mutant: slot comparison off by one.
AdmitsOneMore(L, req, t) ==
  /\ ValidRequest(req, t)
  /\ req.id \notin DOMAIN L.grants
  /\ L.up + req.up <= UpLimit
  /\ L.down + req.down <= DownLimit
  /\ Cardinality(DOMAIN L.grants) <= MaxSessions

(***************************************************************************)
(* CapacityLedger::reserve after its purge: the guards in order, and the   *)
(* grant it inserts.                                                       *)
(***************************************************************************)
LedgerAdmits(L, req, t) ==
  /\ ValidRequest(req, t)
  /\ req.id \notin DOMAIN L.grants
  /\ L.up + req.up <= UpLimit
  /\ L.down + req.down <= DownLimit
  /\ Cardinality(DOMAIN L.grants) < MaxSessions

\* Mutant: the setup deadline may outlive the reservation.
UncappedGrantOf(req, t) ==
  [up |-> req.up, down |-> req.down, expires |-> req.expires,
   deadline |-> t + SetupTimeout, state |-> "PendingTunnel"]

GrantOf(req, t) ==
  [up |-> req.up, down |-> req.down, expires |-> req.expires,
   deadline |-> IF t + SetupTimeout < req.expires THEN t + SetupTimeout ELSE req.expires,
   state |-> "PendingTunnel"]

LedgerAdmit(L, req, t) ==
  [up     |-> L.up + req.up,
   down   |-> L.down + req.down,
   grants |-> [id \in DOMAIN L.grants \cup {req.id} |->
                 IF id = req.id THEN GrantOf(req, t) ELSE L.grants[id]]]

LedgerEstablished(L, id) ==
  [up     |-> L.up,
   down   |-> L.down,
   grants |-> [L.grants EXCEPT ![id].state = "Active"]]

===============================================================================
