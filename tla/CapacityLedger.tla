---------------------------- MODULE CapacityLedger ----------------------------
(***************************************************************************)
(* One capacity ledger as a state machine: its public methods interleaved  *)
(* with the wall clock (crates/volparossa-reservation/src/lib.rs).         *)
(***************************************************************************)
EXTENDS LedgerOps
CONSTANTS
  Submitted,       \* the requests the environment may submit
  MaxTime          \* bound on the clock

ASSUME SubmittedAssumption == Submitted \subseteq Requests /\ MaxTime \in Nat

VARIABLES
  ledger,          \* the ledger value
  now,             \* wall clock, seconds
  advertised       \* free capacity last returned by available

vars == <<ledger, now, advertised>>

FreeCapacity(L) ==
  [up |-> UpLimit - L.up, down |-> DownLimit - L.down,
   slots |-> IF Cardinality(DOMAIN L.grants) < MaxSessions
             THEN MaxSessions - Cardinality(DOMAIN L.grants) ELSE 0]

Init ==
  /\ ledger = EmptyLedger
  /\ now = 0
  /\ advertised = FreeCapacity(EmptyLedger)

\* reserve: the purge happens even when the request is refused.
Reserve(req) ==
  LET L == LedgerPurged(ledger, now)
  IN  /\ \/ LedgerAdmits(L, req, now) /\ ledger' = LedgerAdmit(L, req, now)
         \/ ~LedgerAdmits(L, req, now) /\ ledger' = L
      /\ UNCHANGED <<now, advertised>>

\* mark_tunnel_established: expired or unknown identifiers are refused.
MarkTunnelEstablished(id) ==
  LET L == LedgerPurged(ledger, now)
  IN  /\ \/ id \in DOMAIN L.grants /\ ledger' = LedgerEstablished(L, id)
         \/ id \notin DOMAIN L.grants /\ ledger' = L
      /\ UNCHANGED <<now, advertised>>

\* release does not purge.
Release(id) ==
  /\ id \in DOMAIN ledger.grants
  /\ ledger' = LedgerWithout(ledger, {id})
  /\ UNCHANGED <<now, advertised>>

PurgeExpired ==
  /\ ledger' = LedgerPurged(ledger, now)
  /\ UNCHANGED <<now, advertised>>

Available ==
  /\ ledger' = LedgerPurged(ledger, now)
  /\ advertised' = FreeCapacity(ledger')
  /\ UNCHANGED now

\* The wall clock (external).
Tick ==
  /\ now < MaxTime
  /\ now' = now + 1
  /\ UNCHANGED <<ledger, advertised>>

Next ==
  \/ \E req \in Submitted : Reserve(req)
  \/ \E id \in ReservationIds : MarkTunnelEstablished(id) \/ Release(id)
  \/ PurgeExpired
  \/ Available
  \/ Tick

Spec == Init /\ [][Next]_vars

\* The maintenance tick of the agent runs forever and time passes.
FairSpec == Spec /\ WF_vars(PurgeExpired) /\ WF_vars(Tick)

-------------------------------------------------------------------------------
\* State shapes; a pending tunnel never has a setup deadline past its expiry.
TypeOK ==
  /\ DOMAIN ledger.grants \subseteq ReservationIds
  /\ ledger.grants \in [DOMAIN ledger.grants -> Grants]
  /\ now \in 0..MaxTime

(***************************************************************************)
(* The running counters equal the sum over the grants that are still       *)
(* there, whatever mix of reserve, release and purge produced them:        *)
(* subtract_bandwidth never underflows, no purge leaks bandwidth, and what *)
(* available advertises is a number: its unchecked u32 subtraction         *)
(* limit - reserved never wraps.                                           *)
(***************************************************************************)
CountersMatchGrants ==
  /\ ledger.up = UpOf(ledger, DOMAIN ledger.grants)
  /\ ledger.down = DownOf(ledger, DOMAIN ledger.grants)
  /\ advertised.up \in 0..UpLimit
  /\ advertised.down \in 0..DownLimit

(***************************************************************************)
(* The concurrent session ceiling is never exceeded.                       *)
(***************************************************************************)
SlotsBounded == Cardinality(DOMAIN ledger.grants) <= MaxSessions

(***************************************************************************)
(* An established tunnel loses its capacity only to its hard expiry or to  *)
(* an explicit release, never to the tunnel setup deadline, and it never   *)
(* goes back to waiting for a tunnel.                                      *)
(***************************************************************************)
ActiveKeepsCapacity ==
  [][\A id \in DOMAIN ledger.grants :
       /\ ledger.grants[id].state = "Active"
       /\ ledger.grants[id].expires > now
       => \/ /\ id \in DOMAIN ledger.grants'
             /\ ledger.grants'[id] = ledger.grants[id]
          \/ Release(id)]_vars

(***************************************************************************)
(* Capacity is always handed back: every accepted reservation eventually   *)
(* leaves the ledger even if nobody ever releases it.                      *)
(***************************************************************************)
EveryGrantEnds ==
  \A id \in ReservationIds :
    id \in DOMAIN ledger.grants ~> id \notin DOMAIN ledger.grants

===============================================================================
