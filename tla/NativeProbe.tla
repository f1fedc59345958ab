------------------------------ MODULE NativeProbe ------------------------------
(***************************************************************************)
(* The exit side of a native preselection probe                            *)
(* (crates/volparossa-exit/src/native_preselection.rs).  Before a client   *)
(* chooses its paths it probes candidate relays; at the exit a probe walks *)
(* through four phases, each consuming the owner the previous one left:    *)
(*   permit request -> Permit -> Ready -> (client) Start -> authorization, *)
(*   which takes capacity -> terminal Result, which gives it back.         *)
(*                                                                         *)
(* The Start chain that asks for an authorization is verified without any  *)
(* memory of earlier Starts: only the authorization cache recognises a     *)
(* retry.  Signed messages travel over channels that lose, duplicate and   *)
(* delay them, so every message that exists may arrive at any time.  A     *)
(* request refused before it consumed anything leaves only the purge that  *)
(* opened it, the steps PurgePermits and PurgeExpired.                     *)
(***************************************************************************)
EXTENDS LedgerOps, ControlEnvelope

CONSTANTS
  PermitRequests,  \* permit requests the clients may send; ids are probe ids
  Peers,           \* authenticated channel peers (control and data relays)
  MaxLifetime,     \* MAX_NATIVE_PROBE_LIFETIME_MS
  CacheCapacity,   \* response_cache_capacity
  MsPerSecond,     \* 1000 in the code
  MaxBoot,         \* bound on restarts
  MaxNow           \* bound on the clock (ms)

PermitRequest ==
  [probe: ReservationIds, nonce: Nat, control: Peers, relay: Peers, up: Nat, down: Nat,
   exp: Nat]

ASSUME ProbeAssumption ==
  /\ PermitRequests \subseteq PermitRequest
  /\ MaxLifetime \in Nat \ {0} /\ CacheCapacity \in Nat /\ MsPerSecond \in Nat \ {0}
  /\ MaxBoot \in Nat /\ MaxNow \in Nat

VARIABLES
  now,             \* wall clock, ms
  boot,            \* exit_boot_id of the running process
  ledger,          \* CapacityLedger, here with the allocations of probes only
  requestSeen,     \* native_probe_request_replay
  permits,         \* native_probe_permit_ledger: permits not yet consumed
  readies,         \* native_probe_ready_owners, by probe id
  auths,           \* native_probe_authorization_cache
  starts,          \* Start chains clients have signed (external)
  readied,         \* history: every readiness signed
  signed,          \* history: every authorization signed
  done             \* history: Starts retired by a terminal Result

vars == <<now, boot, ledger, requestSeen, permits, readies, auths, starts, readied, signed, done>>

Secs(t) == t \div MsPerSecond

Earlier(a, b) == IF a < b THEN a ELSE b

\* native_probe_phase_expiry: a phase ends with its parent or with its own ceiling.
PhaseExpiry(parent) == Earlier(parent, now + MaxLifetime)

ProbeOf(start) == start.ready.permit.req.probe

-------------------------------------------------------------------------------
\* purge_expired, the part that concerns probes.
Expired == LedgerExpired(ledger, Secs(now))
PurgedLedger == LedgerPurged(ledger, Secs(now))
LivePermits == {p \in permits : p.exp > now}
LiveReadies == [b \in {b \in DOMAIN readies : readies[b].exp > now} |-> readies[b]]
\* Mutant: an authorization is dropped together with the readiness of its probe.
AuthsOfReadyProbes == {a \in auths : a.start.exp > now /\ ProbeOf(a.start) \in DOMAIN LiveReadies}

PurgedAuths == {a \in auths : a.start.exp > now /\ ProbeOf(a.start) \notin Expired}

PurgeExpired ==
  /\ ledger' = PurgedLedger
  /\ permits' = LivePermits
  /\ readies' = LiveReadies
  /\ auths' = PurgedAuths
  /\ UNCHANGED <<now, boot, requestSeen, starts, readied, signed, done>>

\* The permit and ready handlers purge the permit ledger only.
PurgePermits ==
  /\ permits' = LivePermits
  /\ UNCHANGED <<now, boot, ledger, requestSeen, readies, auths, starts, readied, signed, done>>

(***************************************************************************)
(* issue_native_probe_permit_with and mint_native_probe_permit_owner_with. *)
(***************************************************************************)
RequestEntry(q) == [k \in {<<q.probe, q.nonce>>} |-> q.exp]

IssuePermit(q, via) ==
  /\ \A p \in LivePermits : p.req # q
  /\ Cardinality(LivePermits) < CacheCapacity
  /\ InWindow(q.exp, now) /\ Unseen(requestSeen, DOMAIN RequestEntry(q), now)
  /\ via = q.control
  /\ \A p \in LivePermits : p.req.probe # q.probe
  /\ permits' = LivePermits \cup {[req |-> q, boot |-> boot, exp |-> PhaseExpiry(q.exp)]}
  /\ requestSeen' = Record(requestSeen, RequestEntry(q), now)
  /\ UNCHANGED <<now, boot, ledger, readies, auths, starts, readied, signed, done>>

\* take_exact_for_ready
ConsumePermit(p) == LivePermits \ {p}

(***************************************************************************)
(* issue_native_probe_ready_from_permit_with.  The permit is restored when *)
(* a readiness for the probe is still retained, but not when signing or a  *)
(* later scope check fails: that outcome is ReadyFails.                    *)
(***************************************************************************)
ReadyOf(p) ==
  [permit |-> p, exp |-> PhaseExpiry(p.exp),
   copy |-> Cardinality({r \in readied : r.permit = p})]

IssueReady(p, via) ==
  /\ p \in LivePermits
  /\ via = p.req.relay
  /\ p.req.probe \notin DOMAIN readies
  /\ permits' = ConsumePermit(p)
  /\ readies' = [b \in DOMAIN readies \cup {p.req.probe} |->
                   IF b = p.req.probe THEN ReadyOf(p) ELSE readies[b]]
  /\ readied' = readied \cup {ReadyOf(p)}
  /\ UNCHANGED <<now, boot, ledger, requestSeen, auths, starts, signed, done>>

ReadyFails(p, via) ==
  /\ p \in LivePermits
  /\ via = p.req.relay
  /\ p.req.probe \notin DOMAIN readies
  /\ permits' = LivePermits \ {p}
  /\ UNCHANGED <<now, boot, ledger, requestSeen, readies, auths, starts, readied, signed, done>>

\* The client signs one Start for a readiness it received (external).
ClientStart(r) ==
  /\ r \in readied
  /\ r.exp > now
  /\ \A s \in starts : s.ready # r
  /\ starts' = starts \cup {[ready |-> r, started |-> now, exp |-> r.exp]}
  /\ UNCHANGED <<now, boot, ledger, requestSeen, permits, readies, auths, readied, signed, done>>

(***************************************************************************)
(* issue_native_probe_relay_authorization_with: capacity is reserved before *)
(* the authorization leaves the exit.                                      *)
(***************************************************************************)
LedgerRequest(s) ==
  [id |-> ProbeOf(s), up |-> s.ready.permit.req.up, down |-> s.ready.permit.req.down,
   created |-> Secs(s.started), expires |-> Secs(s.exp), scoped |-> TRUE]

AuthorizationOf(s) == [start |-> s, copy |-> Cardinality({a \in signed : a.start = s})]

IssueRelayAuthorization(s, via) ==
  /\ \A a \in PurgedAuths : a.start # s
  /\ Cardinality(PurgedAuths) < CacheCapacity
  /\ InWindow(s.exp, now)
  /\ via = s.ready.permit.req.relay
  /\ s.ready.permit.boot = boot
  /\ LedgerAdmits(PurgedLedger, LedgerRequest(s), Secs(now))
  /\ ledger' = LedgerAdmit(PurgedLedger, LedgerRequest(s), Secs(now))
  /\ auths' = PurgedAuths \cup {[start |-> s, retired |-> FALSE]}
  /\ signed' = signed \cup {AuthorizationOf(s)}
  /\ permits' = LivePermits
  /\ readies' = LiveReadies
  /\ UNCHANGED <<now, boot, requestSeen, starts, readied, done>>

\* Mutant: a completed probe leaves no entry behind.
ForgetAuth(a) == auths \ {a}

\* retire_native_probe_capacity: the entry stays, marked.
RetireAuth(a) == (auths \ {a}) \cup {[start |-> a.start, retired |-> TRUE]}

(***************************************************************************)
(* issue_native_probe_result_from_observation_with: the readiness is       *)
(* consumed first; the Result is issued if the observation holds, and the  *)
(* capacity of some unretired authorization of the probe is given back.    *)
(***************************************************************************)
WithoutReady(b) == [x \in DOMAIN readies \ {b} |-> readies[x]]

IssueResult(b, via) ==
  /\ b \in DOMAIN readies
  /\ readies[b].exp > now
  /\ via = readies[b].permit.req.relay
  /\ b \in DOMAIN ledger.grants
  /\ \E a \in auths :
       /\ ProbeOf(a.start) = b /\ ~a.retired
       /\ auths' = RetireAuth(a)
       /\ done' = done \cup {a.start}
  /\ ledger' = LedgerWithout(ledger, {b})
  /\ readies' = WithoutReady(b)
  /\ UNCHANGED <<now, boot, requestSeen, permits, starts, readied, signed>>

\* Any check or signature that fails after the readiness was consumed.
ResultFails(b) ==
  /\ b \in DOMAIN readies
  /\ readies' = WithoutReady(b)
  /\ UNCHANGED <<now, boot, ledger, requestSeen, permits, auths, starts, readied, signed, done>>

-------------------------------------------------------------------------------
\* ExitService::available purges the ledger and nothing else.
Available ==
  /\ ledger' = PurgedLedger
  /\ UNCHANGED <<now, boot, requestSeen, permits, readies, auths, starts, readied, signed, done>>

Restart ==
  /\ boot < MaxBoot
  /\ boot' = boot + 1
  /\ ledger' = EmptyLedger
  /\ requestSeen' = << >>
  /\ permits' = {}
  /\ readies' = << >>
  /\ auths' = {}
  /\ UNCHANGED <<now, starts, readied, signed, done>>

\* The wall clock (external).
Tick ==
  /\ now < MaxNow
  /\ now' = now + 1
  /\ UNCHANGED <<boot, ledger, requestSeen, permits, readies, auths, starts, readied, signed, done>>

Init ==
  /\ now = 0 /\ boot = 0
  /\ ledger = EmptyLedger
  /\ requestSeen = << >>
  /\ permits = {}
  /\ readies = << >>
  /\ auths = {}
  /\ starts = {}
  /\ readied = {} /\ signed = {} /\ done = {}

Next ==
  \/ \E via \in Peers :
       \/ \E q \in PermitRequests : IssuePermit(q, via)
       \/ \E p \in permits : IssueReady(p, via) \/ ReadyFails(p, via)
       \/ \E s \in starts : IssueRelayAuthorization(s, via)
       \/ \E b \in ReservationIds : IssueResult(b, via)
  \/ \E r \in readied : ClientStart(r)
  \/ \E b \in ReservationIds : ResultFails(b)
  \/ PurgePermits
  \/ PurgeExpired
  \/ Available
  \/ Restart
  \/ Tick

Spec == Init /\ [][Next]_vars

-------------------------------------------------------------------------------
\* State shapes, and the bounds of the permit ledger and authorization cache.
TypeOK ==
  /\ now \in 0..MaxNow /\ boot \in 0..MaxBoot
  /\ DOMAIN ledger.grants \subseteq ReservationIds
  /\ ledger.grants \in [DOMAIN ledger.grants -> Grants]
  /\ \A p \in permits : p.req \in PermitRequests /\ p.boot = boot /\ p.exp <= p.req.exp
  /\ DOMAIN readies \subseteq ReservationIds
  /\ \A b \in DOMAIN readies : readies[b] \in readied /\ readies[b].permit.req.probe = b
  /\ \A a \in auths : a.start \in starts /\ a.retired \in BOOLEAN
  /\ Cardinality(permits) <= CacheCapacity
  /\ Cardinality(auths) <= CacheCapacity
  /\ Cardinality(DOMAIN requestSeen) <= MaxReplay

(***************************************************************************)
(* Capacity taken by a probe can be given back by its Result: the          *)
(* authorization it was taken for is still cached and not retired.         *)
(***************************************************************************)
ProbeCapacityOwned ==
  \A b \in DOMAIN ledger.grants : \E a \in auths : ProbeOf(a.start) = b /\ ~a.retired

(***************************************************************************)
(* An old Start cannot reacquire capacity after the terminal Result of its *)
(* probe (comment on CachedNativeProbeRelayAuthorization::retired).  The   *)
(* code does not guarantee it to a client that asks for a second permit    *)
(* under an old probe id: the expiry of the second allocation also drops   *)
(* the retired entry of the first, as purge_expired goes by id.            *)
(***************************************************************************)
CompletedStartStaysDone ==
  [][\A a \in signed' \ signed : a.start \notin done]_vars

(***************************************************************************)
(* What is left of it: a completed Start reacquires capacity only where    *)
(* this boot has seen another Start under the same probe id.  No retry,    *)
(* expiry, purge, lost Result or restart reopens a probe by itself.        *)
(***************************************************************************)
OnlyReuseReopens ==
  [][\A a \in signed' \ signed : a.start \in done =>
       \E s \in starts : /\ s # a.start /\ ProbeOf(s) = ProbeOf(a.start)
                         /\ s.ready.permit.boot = boot]_vars

===============================================================================
