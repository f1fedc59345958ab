----------------------------- MODULE ExitService -----------------------------
(***************************************************************************)
(* The exit side of the route reservation protocol:                        *)
(* crates/volparossa-exit/src/lib.rs and reservation_v4.rs.                *)
(*                                                                         *)
(* A client obtains a hold on capacity, permits to probe relays, a         *)
(* finalized reservation over one or more relay paths, and one             *)
(* confirmation per path; the exit then binds and establishes the route,   *)
(* and the client may extend it by further paths, one at a time.           *)
(* Requests arrive through an untrusted control relay: they may be lost,   *)
(* duplicated, delayed and reordered, which is modelled by letting any     *)
(* well formed request arrive at any time and any number of times.         *)
(*                                                                         *)
(* Signed artifacts are records that name the request they answer, the     *)
(* boot that signed them and a copy number, so two answers to one request  *)
(* differ (fresh ids and nonces).  Equality of all identity fields in a    *)
(* scope check is equality of the artifact they were copied from.          *)
(*                                                                         *)
(* Every handler starts with purge_expired.  A request that is refused     *)
(* before its envelope is verified, or answered from the response cache,   *)
(* leaves exactly that purge behind and is the step PurgeExpired.  One     *)
(* that fails later (scope, evidence, helper, ledger or signer) has        *)
(* recorded replay entries and rolls them back: the steps named Refused.   *)
(* A handler proper is the accepted outcome.                               *)
(***************************************************************************)
EXTENDS LedgerOps, ControlEnvelope

CONSTANTS
  HoldRequests,    \* hold requests the clients may send
  RelaysFor,       \* the data relays a client may ask for, by path id
  ControlRelays,   \* relays that forward the control messages
  Paths,           \* path ids, 1..n
  ClientKeys,      \* WireGuard public keys clients propose
  Keys,            \* keys of the exit's helper; each stands for its handle and port
  ExtensionIds,    \* extension ids a client draws
  MaxExtensions,   \* extensions retained per reservation, 8 in the code
  Expiries,        \* expiry instants (ms) of the short-lived requests
  Nonces,          \* nonces a client session draws
  CacheCapacity,   \* response_cache_capacity
  MsPerSecond,     \* 1000 in the code
  MaxBoot,         \* bound on restarts
  MaxNow           \* bound on the clock (ms)

HoldRequest ==
  [kind: {"hold"}, nonce: Nat, r: ReservationIds, ctrl: ControlRelays, up: Nat, down: Nat, created: Nat,
   exp: Nat, rexp: Nat, maxPaths: Nat, permitLimit: Nat, scoped: BOOLEAN,
   transports: SUBSET {"tcp", "udp"}]

ASSUME ExitAssumption ==
  /\ \A q \in HoldRequests : q \in HoldRequest /\ q.exp <= q.rexp
  /\ Expiries \subseteq Nat /\ Paths \subseteq Nat
  /\ CacheCapacity \in Nat /\ MaxExtensions \in Nat /\ MsPerSecond \in Nat \ {0}
  /\ MaxBoot \in Nat /\ MaxNow \in Nat

VARIABLES
  now,             \* wall clock, ms
  boot,            \* exit_boot_id of the running process
  ledger,          \* CapacityLedger
  states,          \* endpoint_states, by reservation id
  activated,       \* reservations bound to a route
  owners,          \* native_route_identity_owners not yet taken
  cache,           \* the four response caches, one bound between them
  seen,            \* the replay caches, by message kind
  answers,         \* history: every artifact signed, by any boot
  taken            \* history: finalized bundles whose identity owner was taken

vars == <<now, boot, ledger, states, activated, owners, cache, seen, answers, taken>>

ReplayKinds == {"hold", "permit", "finalize", "probe", "confirm", "grant", "route"}

Secs(t) == t \div MsPerSecond

Put(f, k, v) == [x \in DOMAIN f \cup {k} |-> IF x = k THEN v ELSE f[x]]

\* The one replay entry of a single message.
Once(k, expiry) == [x \in {k} |-> expiry]

\* A freshly signed artifact: no earlier answer of this boot equals it.
Artifact(req) ==
  [boot |-> boot, req |-> req,
   copy |-> Cardinality({a \in answers : a.boot = boot /\ a.req = req})]

-------------------------------------------------------------------------------
\* The instants the state copies from the hold request.
HoldExpiry(s) == s.hold.req.exp
Expiry(s) == s.hold.req.rexp

(***************************************************************************)
(* ExitService::purge_expired: holds past their phase expiry are released  *)
(* first, then whatever the ledger reports as expired; the endpoint state, *)
(* activation, identity owner and cached answers go with them.             *)
(***************************************************************************)
PhaseExpired(t) == {r \in DOMAIN states : states[r].phase = "Held" /\ HoldExpiry(states[r]) <= t}

LedgerAfterHolds(t) == LedgerWithout(ledger, PhaseExpired(t) \cap DOMAIN ledger.grants)

Removed(t) == PhaseExpired(t) \cup LedgerExpired(LedgerAfterHolds(t), Secs(t))

PurgedLedger == LedgerPurged(LedgerAfterHolds(now), Secs(now))
PurgedStates == [r \in DOMAIN states \ Removed(now) |-> states[r]]
PurgedActivated == activated \ Removed(now)
PurgedOwners == owners \ Removed(now)
PurgedCache == {c \in cache : c.exp > now /\ c.hold.req.r \notin Removed(now)}

PurgeExpired ==
  /\ ledger' = PurgedLedger
  /\ states' = PurgedStates
  /\ activated' = PurgedActivated
  /\ owners' = PurgedOwners
  /\ cache' = PurgedCache
  /\ UNCHANGED <<now, boot, seen, answers, taken>>

\* Mutant: ensure_response_cache_capacity is not called.
OpensUnbounded(kind, req, keys) ==
  /\ \A c \in PurgedCache : c.req # req
  /\ InWindow(req.exp, now)
  /\ Unseen(seen[kind], keys, now)

\* The steps before a handler looks at the message: cached_response and
\* ensure_response_cache_capacity, then verify_control_message.
Opens(kind, req, keys) ==
  /\ \A c \in PurgedCache : c.req # req
  /\ Cardinality(PurgedCache) < CacheCapacity
  /\ InWindow(req.exp, now)
  /\ Unseen(seen[kind], keys, now)

\* What an accepted request leaves in the response cache.
Answer(req, hold, exp) == [req |-> req, hold |-> hold, exp |-> exp]

-------------------------------------------------------------------------------
(***************************************************************************)
(* hold_capacity_with.                                                     *)
(***************************************************************************)
LedgerRequest(q) ==
  [id |-> q.r, up |-> q.up, down |-> q.down, created |-> Secs(q.created),
   expires |-> Secs(q.rexp), scoped |-> q.scoped]

HeldState(hold) ==
  [phase |-> "Held", hold |-> hold, permits |-> << >>, fin |-> {}, paths |-> << >>,
   ext |-> << >>]

HoldCapacity(q, via) ==
  /\ Opens("hold", q, {<<q.r, q.nonce>>})
  /\ via = q.ctrl
  /\ q.r \notin DOMAIN PurgedStates
  /\ LedgerAdmits(PurgedLedger, LedgerRequest(q), Secs(now))
  /\ LET hold == Artifact(q)
     IN  /\ ledger' = LedgerAdmit(PurgedLedger, LedgerRequest(q), Secs(now))
         /\ states' = Put(PurgedStates, q.r, HeldState(hold))
         /\ cache' = PurgedCache \cup {Answer(q, hold, q.exp)}
         /\ answers' = answers \cup {hold}
  /\ seen' = [seen EXCEPT !["hold"] = Record(@, Once(<<q.r, q.nonce>>, q.exp), now)]
  /\ activated' = PurgedActivated
  /\ owners' = PurgedOwners
  /\ UNCHANGED <<now, boot, taken>>

(***************************************************************************)
(* issue_probe_permit_with.                                                *)
(***************************************************************************)
PermitRequest(hold, n, path, relay, exp) ==
  [kind |-> "permit", hold |-> hold, nonce |-> n, path |-> path, relay |-> relay, exp |-> exp]

\* (client session, nonce): a session draws a nonce per path it asks about.
PermitKey(q) == <<q.hold, q.path, q.nonce>>

\* The state a request refers to: same boot, same hold, same control relay.
InScope(hold, via, phase) ==
  /\ hold.boot = boot
  /\ hold.req.r \in DOMAIN PurgedStates
  /\ LET s == PurgedStates[hold.req.r]
     IN  s.hold = hold /\ hold.req.ctrl = via /\ s.phase = phase

WithPermit(s, path, permit) ==
  [phase |-> s.phase, hold |-> s.hold, permits |-> Put(s.permits, path, permit),
   fin |-> s.fin, paths |-> s.paths, ext |-> s.ext]

IssueProbePermit(q, via) ==
  LET r == q.hold.req.r
      s == PurgedStates[r]
      permit == Artifact(q)
  IN  /\ Opens("permit", q, {PermitKey(q)})
      /\ InScope(q.hold, via, "Held")
      /\ q.exp <= HoldExpiry(s)
      /\ q.path <= s.hold.req.permitLimit
      /\ Cardinality(DOMAIN s.permits) < s.hold.req.permitLimit
      /\ q.path \notin DOMAIN s.permits
      /\ \A p \in DOMAIN s.permits : s.permits[p].req.relay # q.relay
      /\ states' = Put(PurgedStates, r, WithPermit(s, q.path, permit))
      /\ cache' = PurgedCache \cup {Answer(q, q.hold, q.exp)}
      /\ answers' = answers \cup {permit}
      /\ seen' = [seen EXCEPT !["permit"] = Record(@, Once(PermitKey(q), q.exp), now)]
      /\ ledger' = PurgedLedger
      /\ activated' = PurgedActivated
      /\ owners' = PurgedOwners
      /\ UNCHANGED <<now, boot, taken>>

(***************************************************************************)
(* finalize_reservation_with...: every chosen path carries the exact       *)
(* stored permit and a relay probe result; the helper leases one endpoint  *)
(* key per path (endpoint, external).                                      *)
(***************************************************************************)
FinalizeRequest(hold, n, permits, clientKeys, exp) ==
  [kind |-> "finalize", hold |-> hold, nonce |-> n, permits |-> permits,
   clientKeys |-> clientKeys, exp |-> exp]

\* Each relay signs one result per permit; it dies with the permit.
ProbeEntries(q) ==
  [k \in {q.permits[p] : p \in DOMAIN q.permits} |-> k.req.exp]

KeysOf(path) == {path.clientKey, path.exitKey}

KeysInUse(S) ==
  UNION {UNION {KeysOf(S[r].paths[p]) : p \in DOMAIN S[r].paths} : r \in DOMAIN S}

\* Mutant: the new keys are compared with each other only.
KeysFreshLocally(S, clientKeys, endpoint) ==
  /\ \A p \in DOMAIN endpoint : clientKeys[p] # endpoint[p]
  /\ \A p, x \in DOMAIN endpoint :
       p # x => {clientKeys[p], endpoint[p]} \cap {clientKeys[x], endpoint[x]} = {}

\* Helper handles, WireGuard keys and listen ports of the new paths are new
\* among themselves and among every path of every reservation.
KeysFresh(S, clientKeys, endpoint) ==
  /\ \A p \in DOMAIN endpoint :
       /\ {clientKeys[p], endpoint[p]} \cap KeysInUse(S) = {}
       /\ clientKeys[p] # endpoint[p]
  /\ \A p, x \in DOMAIN endpoint :
       p # x => {clientKeys[p], endpoint[p]} \cap {clientKeys[x], endpoint[x]} = {}

FinalPaths(q, endpoint) ==
  [p \in DOMAIN q.permits |->
     [relay |-> q.permits[p].req.relay, clientKey |-> q.clientKeys[p],
      exitKey |-> endpoint[p], grant |-> {}]]

FinalizedState(s, fin, paths) ==
  [phase |-> "Finalized", hold |-> s.hold, permits |-> << >>, fin |-> {fin}, paths |-> paths,
   ext |-> s.ext]

FinalizeReservation(q, via) ==
  LET r == q.hold.req.r
      s == PurgedStates[r]
      fin == Artifact(q)
  IN  /\ Opens("finalize", q, {<<q.hold, q.nonce>>})
      /\ InScope(q.hold, via, "Held")
      /\ q.exp <= HoldExpiry(s) /\ HoldExpiry(s) > now
      /\ Cardinality(DOMAIN q.permits) \in 1..s.hold.req.maxPaths
      /\ r \notin PurgedOwners
      /\ \A p \in DOMAIN q.permits :
           p \in DOMAIN s.permits /\ s.permits[p] = q.permits[p] /\ q.permits[p].req.exp > now
      /\ Unseen(seen["probe"], DOMAIN ProbeEntries(q), now)
      /\ \E endpoint \in [DOMAIN q.permits -> Keys] :
           /\ KeysFresh(PurgedStates, q.clientKeys, endpoint)
           /\ states' = Put(PurgedStates, r, FinalizedState(s, fin, FinalPaths(q, endpoint)))
      /\ owners' = PurgedOwners \cup {r}
      /\ cache' = {c \in PurgedCache : ~(c.req.kind = "permit" /\ c.hold.req.r = r)}
                    \cup {Answer(q, q.hold, q.exp)}
      /\ answers' = answers \cup {fin}
      /\ seen' = [seen EXCEPT
                    !["finalize"] = Record(@, Once(<<q.hold, q.nonce>>, q.exp), now),
                    !["probe"] = Record(@, ProbeEntries(q), now)]
      /\ ledger' = PurgedLedger
      /\ activated' = PurgedActivated
      /\ UNCHANGED <<now, boot, taken>>

(***************************************************************************)
(* confirm_relay_with: the client hands back the relay's own signed grant, *)
(* which embeds the authorization the exit signed for that path.           *)
(***************************************************************************)
RelayGrant(fin, path, relay, n) == [fin |-> fin, path |-> path, relay |-> relay, nonce |-> n]

ConfirmRequest(grant, n, exp) ==
  [kind |-> "confirm", grant |-> grant, nonce |-> n, exp |-> exp]

ConfirmKey(q) == <<q.grant.fin.req.hold, q.grant.path, q.nonce>>

\* verify_relay_reservation records the relay's and the exit's own nonce.
GrantEntries(grant, expiry) ==
  [k \in {<<"relay", grant>>, <<"authorization", <<grant.fin, grant.path>> >>} |-> expiry]

WithGrant(s, grant) ==
  LET path == s.paths[grant.path]
  IN  [phase |-> s.phase, hold |-> s.hold, permits |-> s.permits, fin |-> s.fin,
       paths |-> Put(s.paths, grant.path,
                     [relay |-> path.relay, clientKey |-> path.clientKey,
                      exitKey |-> path.exitKey, grant |-> {grant}]),
       ext |-> s.ext]

Confirms(q, via) ==
  LET hold == q.grant.fin.req.hold
      s == PurgedStates[hold.req.r]
  IN  /\ Opens("confirm", q, {ConfirmKey(q)})
      /\ InScope(hold, via, "Finalized")
      /\ s.fin = {q.grant.fin}
      /\ q.exp <= Expiry(s)
      /\ q.grant.path \in DOMAIN s.paths
      /\ s.paths[q.grant.path].relay = q.grant.relay
      /\ s.paths[q.grant.path].grant = {}
      /\ Unseen(seen["grant"], DOMAIN GrantEntries(q.grant, Expiry(s)), now)

ConfirmRelay(q, via) ==
  LET hold == q.grant.fin.req.hold
      r == hold.req.r
      s == PurgedStates[r]
  IN  /\ Confirms(q, via)
      /\ states' = Put(PurgedStates, r, WithGrant(s, q.grant))
      /\ cache' = PurgedCache \cup {Answer(q, hold, q.exp)}
      /\ answers' = answers \cup {Artifact(q)}
      /\ seen' = [seen EXCEPT
                    !["confirm"] = Record(@, Once(ConfirmKey(q), q.exp), now),
                    !["grant"] = Record(@, GrantEntries(q.grant, Expiry(s)), now)]
      /\ ledger' = PurgedLedger
      /\ activated' = PurgedActivated
      /\ owners' = PurgedOwners
      /\ UNCHANGED <<now, boot, taken>>

-------------------------------------------------------------------------------
Confirmed(s) == {p \in DOMAIN s.paths : s.paths[p].grant # {}}

AllPathsConfirmed(s) == DOMAIN s.paths # {} /\ DOMAIN s.paths \subseteq Confirmed(s)

ConfirmedGrants(s) == UNION {s.paths[p].grant : p \in DOMAIN s.paths}

-------------------------------------------------------------------------------
(***************************************************************************)
(* extend_route_with adds one path to a finalized MPTCP route in the       *)
(* phases Probe, Authorize and Commit, or gives the attempt up with Abort. *)
(* An extension is never forgotten before its reservation.  Its phases     *)
(* share the replay cache of finalize; the answers it retains for exact    *)
(* retries change nothing when they are repeated and are left out.         *)
(***************************************************************************)
ExtendRequest(fin, id, path, relay, phase, body, n, exp) ==
  [kind |-> "extend", fin |-> fin, id |-> id, path |-> path, relay |-> relay,
   phase |-> phase, body |-> body, nonce |-> n, exp |-> exp]

\* (client session, nonce): a session draws a nonce per request.
ExtendKey(q) == <<q.fin.req.hold, q.id, q.phase, q.nonce>>

Parent(q) == PurgedStates[q.fin.req.hold.req.r]

ExtensionOpens(q, via) ==
  /\ InScope(q.fin.req.hold, via, "Finalized")
  /\ Parent(q).fin = {q.fin}
  /\ q.fin.req.hold.req.transports = {"tcp"}
  /\ now < Expiry(Parent(q)) /\ q.exp <= Expiry(Parent(q))
  /\ InWindow(q.exp, now)
  /\ Unseen(seen["finalize"], {ExtendKey(q)}, now)

\* The retained extension this request continues, in its own scope.
Retained(q) == Parent(q).ext[q.id]

Continues(q) ==
  /\ q.id \in DOMAIN Parent(q).ext
  /\ Retained(q).path = q.path /\ Retained(q).relay = q.relay

InTime(q) == now < Retained(q).deadline /\ q.exp <= Retained(q).deadline

WithExtension(s, q, deadline, permits, paths) ==
  [phase |-> s.phase, hold |-> s.hold, permits |-> permits, fin |-> s.fin, paths |-> paths,
   ext |-> Put(s.ext, q.id, [path |-> q.path, relay |-> q.relay, phase |-> q.phase,
                             deadline |-> deadline])]

\* What every accepted phase leaves behind besides the state of the reservation.
ExtensionAnswered(q, s) ==
  /\ states' = Put(PurgedStates, q.fin.req.hold.req.r, s)
  /\ ledger' = PurgedLedger
  /\ activated' = PurgedActivated
  /\ owners' = PurgedOwners
  /\ UNCHANGED <<now, boot, taken>>

RecordExtend(q) == Record(seen["finalize"], Once(ExtendKey(q), q.exp), now)

\* Mutant: another attempt may still be open.
NewPathAlongside(s, q) ==
  /\ Cardinality(DOMAIN s.paths) < s.hold.req.maxPaths
  /\ Cardinality(DOMAIN s.ext) < MaxExtensions
  /\ DOMAIN s.paths \subseteq Confirmed(s)
  /\ q.path <= s.hold.req.permitLimit
  /\ q.path \notin DOMAIN s.paths
  /\ \A p \in DOMAIN s.paths : s.paths[p].relay # q.relay
  /\ \A x \in DOMAIN s.ext : s.ext[x].path # q.path /\ s.ext[x].relay # q.relay

\* "extension new path budget or identity".
NewPath(s, q) ==
  /\ Cardinality(DOMAIN s.paths) < s.hold.req.maxPaths
  /\ Cardinality(DOMAIN s.ext) < MaxExtensions
  /\ DOMAIN s.paths \subseteq Confirmed(s)
  /\ q.path <= s.hold.req.permitLimit
  /\ q.path \notin DOMAIN s.paths
  /\ \A p \in DOMAIN s.paths : s.paths[p].relay # q.relay
  /\ \A x \in DOMAIN s.ext : /\ s.ext[x].path # q.path /\ s.ext[x].relay # q.relay
                             /\ s.ext[x].phase \in {"Commit", "Abort"}

ExtendProbe(q, via) ==
  LET s == Parent(q)
  IN  /\ q.phase = "Probe"
      /\ ExtensionOpens(q, via)
      /\ q.id \notin DOMAIN s.ext
      /\ NewPath(s, q)
      /\ ExtensionAnswered(q, WithExtension(s, q, q.exp, Put(s.permits, q.path, Artifact(q)), s.paths))
      /\ answers' = answers \cup {Artifact(q)}
      /\ seen' = [seen EXCEPT !["finalize"] = RecordExtend(q)]
      /\ cache' = PurgedCache

\* The probe evidence holds; the helper leases one more endpoint (external).
ExtendAuthorize(q, via) ==
  LET s == Parent(q)
  IN  /\ q.phase = "Authorize"
      /\ ExtensionOpens(q, via) /\ Continues(q) /\ InTime(q)
      /\ Retained(q).phase = "Probe"
      /\ q.path \in DOMAIN s.permits
      /\ \E clientKey \in q.body, exitKey \in Keys :
           /\ KeysFresh(PurgedStates, Once(q.path, clientKey), Once(q.path, exitKey))
           /\ ExtensionAnswered(q, WithExtension(s, q, Retained(q).deadline, s.permits,
                Put(s.paths, q.path, [relay |-> q.relay, clientKey |-> clientKey,
                                      exitKey |-> exitKey, grant |-> {}])))
      /\ answers' = answers \cup {Artifact(q)}
      /\ seen' = [seen EXCEPT !["finalize"] = RecordExtend(q)]
      /\ cache' = PurgedCache

CommitsInOrder(q, c, via) ==
  /\ q.phase = "Commit" /\ q.body = {c}
  /\ ExtensionOpens(q, via) /\ Continues(q) /\ InTime(q)
  /\ Retained(q).phase = "Authorize"
  /\ c.grant.path = q.path /\ c.grant.fin.req.hold.req.r = q.fin.req.hold.req.r

(***************************************************************************)
(* Commit confirms the relay's grant on the way.  When the Commit response *)
(* itself cannot be signed the confirmation stays behind: that outcome is  *)
(* the step ConfirmRelay.                                                  *)
(***************************************************************************)
ExtendCommit(q, c, via) ==
  LET s == WithGrant(Parent(q), c.grant)
  IN  /\ CommitsInOrder(q, c, via)
      /\ Confirms(c, via)
      /\ ExtensionAnswered(q, WithExtension(s, q, Retained(q).deadline, s.permits, s.paths))
      /\ answers' = answers \cup {Artifact(c), Artifact(q)}
      /\ cache' = PurgedCache \cup {Answer(c, c.grant.fin.req.hold, c.exp)}
      /\ seen' = [seen EXCEPT
                    !["finalize"] = RecordExtend(q),
                    !["confirm"] = Record(@, Once(ConfirmKey(c), c.exp), now),
                    !["grant"] = Record(@, GrantEntries(c.grant, Expiry(s)), now)]

\* The embedded confirmation was answered before and is still cached.
ExtendCommitConfirmed(q, c, via) ==
  LET s == Parent(q)
  IN  /\ CommitsInOrder(q, c, via)
      /\ \E a \in PurgedCache : a.req = c
      /\ ExtensionAnswered(q, WithExtension(s, q, Retained(q).deadline, s.permits, s.paths))
      /\ answers' = answers \cup {Artifact(q)}
      /\ seen' = [seen EXCEPT !["finalize"] = RecordExtend(q)]
      /\ cache' = PurgedCache

\* Mutant: a path that already carries traffic can be aborted.
AbortsConfirmed(s, e) == e.phase # "Commit"

\* RouteExtension::validate refuses an Abort response that lists its own path.
Abortable(s, e) == e.phase # "Commit" /\ e.path \notin Confirmed(s)

Without(f, k) == [x \in DOMAIN f \ {k} |-> f[x]]

ExtendAbort(q, via) ==
  LET s == Parent(q)
  IN  /\ q.phase = "Abort"
      /\ ExtensionOpens(q, via) /\ Continues(q)
      /\ Abortable(s, Retained(q))
      /\ Confirmed(s) # {}
      /\ ExtensionAnswered(q, WithExtension(s, q, Retained(q).deadline,
                                            Without(s.permits, q.path), Without(s.paths, q.path)))
      /\ answers' = answers \cup {Artifact(q)}
      /\ seen' = [seen EXCEPT !["finalize"] = RecordExtend(q)]
      /\ cache' = PurgedCache

-------------------------------------------------------------------------------
(***************************************************************************)
(* Requests that are verified, recorded in the replay caches, and then     *)
(* refused, at the latest because the signer fails.  recorded maps a       *)
(* replay cache to the entries made so far.                                *)
(***************************************************************************)
RefusedAfter(recorded) ==
  /\ seen' = [k \in ReplayKinds |->
                IF k \in DOMAIN recorded
                THEN Rollback(Record(seen[k], recorded[k], now), DOMAIN recorded[k])
                ELSE seen[k]]
  /\ ledger' = PurgedLedger
  /\ states' = PurgedStates
  /\ activated' = PurgedActivated
  /\ owners' = PurgedOwners
  /\ cache' = PurgedCache
  /\ UNCHANGED <<now, boot, answers, taken>>

HoldRefused(q) ==
  /\ Opens("hold", q, {<<q.r, q.nonce>>})
  /\ RefusedAfter(Once("hold", Once(<<q.r, q.nonce>>, q.exp)))

PermitRefused(q) ==
  /\ Opens("permit", q, {PermitKey(q)})
  /\ RefusedAfter(Once("permit", Once(PermitKey(q), q.exp)))

\* The relays' probe results are verified path by path, in the hold's own scope.
FinalizeRefused(q, verified) ==
  LET entries == [k \in {q.permits[p] : p \in verified} |-> k.req.exp]
  IN  /\ Opens("finalize", q, {<<q.hold, q.nonce>>})
      /\ verified # {} => /\ InScope(q.hold, q.hold.req.ctrl, "Held")
                         /\ Unseen(seen["probe"], DOMAIN entries, now)
      /\ RefusedAfter([k \in {"finalize", "probe"} |->
           IF k = "finalize" THEN Once(<<q.hold, q.nonce>>, q.exp) ELSE entries])

\* verify_relay_reservation records the relay's entry, then the exit's own.
ConfirmRefused(q, verified) ==
  LET hold == q.grant.fin.req.hold
      all == GrantEntries(q.grant, hold.req.rexp)
      entries == [k \in {x \in DOMAIN all : x[1] \in verified} |-> all[k]]
  IN  /\ Opens("confirm", q, {ConfirmKey(q)})
      /\ verified # {} => /\ InScope(hold, hold.req.ctrl, "Finalized")
                         /\ Unseen(seen["grant"], DOMAIN entries, now)
      /\ RefusedAfter([k \in {"confirm", "grant"} |->
           IF k = "confirm" THEN Once(ConfirmKey(q), q.exp) ELSE entries])

ExtendRefused(q) ==
  /\ ExtensionOpens(q, q.fin.req.hold.req.ctrl)
  /\ RefusedAfter(Once("finalize", Once(ExtendKey(q), q.exp)))

-------------------------------------------------------------------------------
\* Mutant: the identity owner is lent and stays in the service.
LendNativeRouteAuthorization(r) ==
  /\ r \in DOMAIN PurgedStates
  /\ PurgedStates[r].phase = "Finalized"
  /\ Expiry(PurgedStates[r]) > now
  /\ AllPathsConfirmed(PurgedStates[r])
  /\ r \in PurgedOwners
  /\ owners' = PurgedOwners
  /\ taken' = taken \cup PurgedStates[r].fin
  /\ states' = PurgedStates
  /\ ledger' = PurgedLedger
  /\ activated' = PurgedActivated
  /\ cache' = PurgedCache
  /\ UNCHANGED <<now, boot, seen, answers>>

(***************************************************************************)
(* take_native_route_authorization: the one-shot identity owner leaves the *)
(* service once every path is confirmed.                                   *)
(***************************************************************************)
TakeNativeRouteAuthorization(r) ==
  /\ r \in DOMAIN PurgedStates
  /\ PurgedStates[r].phase = "Finalized"
  /\ Expiry(PurgedStates[r]) > now
  /\ AllPathsConfirmed(PurgedStates[r])
  /\ r \in PurgedOwners
  /\ owners' = PurgedOwners \ {r}
  /\ taken' = taken \cup PurgedStates[r].fin
  /\ states' = PurgedStates
  /\ ledger' = PurgedLedger
  /\ activated' = PurgedActivated
  /\ cache' = PurgedCache
  /\ UNCHANGED <<now, boot, seen, answers>>

(***************************************************************************)
(* bind_tcp_route and bind_udp_path: no purge; the accepted reservation,   *)
(* its relay grants and their authorizations are recorded as one replay    *)
(* transaction.                                                            *)
(***************************************************************************)
RouteEntries(s) ==
  [k \in {<<"exit", f>> : f \in s.fin}
         \cup UNION {DOMAIN GrantEntries(g, Expiry(s)) : g \in ConfirmedGrants(s)} |-> Expiry(s)]

\* Mutant: a route is bound as soon as one path is confirmed.
BindFirstPath(r) ==
  /\ r \in DOMAIN states
  /\ now < Expiry(states[r])
  /\ r \notin activated
  /\ ConfirmedGrants(states[r]) # {}
  /\ r \in DOMAIN ledger.grants
  /\ Unseen(seen["route"], DOMAIN RouteEntries(states[r]), now)
  /\ seen' = [seen EXCEPT !["route"] = Record(@, RouteEntries(states[r]), now)]
  /\ activated' = activated \cup {r}
  /\ UNCHANGED <<now, boot, ledger, states, owners, cache, answers, taken>>

\* VerifiedMptcpRoute::verify and VerifiedSingleRelayPath::verify: as many
\* grants as the signed reservation selected, so no extension before the bind.
PathCountFits(s) ==
  LET n == Cardinality(DOMAIN s.paths)
  IN  /\ \A f \in s.fin : n = Cardinality(DOMAIN f.req.permits)
      /\ \/ "tcp" \in s.hold.req.transports /\ n >= 2
         \/ "udp" \in s.hold.req.transports /\ n = 1

BindRoute(r) ==
  /\ r \in DOMAIN states
  /\ now < Expiry(states[r])
  /\ r \notin activated
  /\ AllPathsConfirmed(states[r])
  /\ PathCountFits(states[r])
  /\ r \in DOMAIN ledger.grants
  /\ Unseen(seen["route"], DOMAIN RouteEntries(states[r]), now)
  /\ seen' = [seen EXCEPT !["route"] = Record(@, RouteEntries(states[r]), now)]
  /\ activated' = activated \cup {r}
  /\ UNCHANGED <<now, boot, ledger, states, owners, cache, answers, taken>>

(***************************************************************************)
(* mark_route_established purges the ledger, and only the ledger.          *)
(***************************************************************************)
MarkRouteEstablished(r) ==
  LET L == LedgerPurged(ledger, Secs(now))
  IN  /\ r \in activated
      /\ r \in DOMAIN ledger.grants
      /\ r \in DOMAIN states
      /\ states[r].phase = "Finalized" /\ Expiry(states[r]) > now
      /\ \/ r \in DOMAIN L.grants /\ ledger' = LedgerEstablished(L, r)
         \/ r \notin DOMAIN L.grants /\ ledger' = L
      /\ UNCHANGED <<now, boot, states, activated, owners, cache, seen, answers, taken>>

\* Mutant: the cached answers outlive the reservation.
ReleaseKeepsAnswers(r) ==
  /\ r \in DOMAIN ledger.grants
  /\ ledger' = LedgerWithout(ledger, {r})
  /\ activated' = activated \ {r}
  /\ states' = [x \in DOMAIN states \ {r} |-> states[x]]
  /\ owners' = owners \ {r}
  /\ UNCHANGED <<now, boot, cache, seen, answers, taken>>

\* release: an id the ledger does not know is refused before anything is removed.
Release(r) ==
  /\ r \in DOMAIN ledger.grants
  /\ ledger' = LedgerWithout(ledger, {r})
  /\ activated' = activated \ {r}
  /\ states' = [x \in DOMAIN states \ {r} |-> states[x]]
  /\ owners' = owners \ {r}
  /\ cache' = {c \in cache : c.hold.req.r # r}
  /\ UNCHANGED <<now, boot, seen, answers, taken>>

\* available, called whenever the node advertises its free capacity.
Available ==
  /\ ledger' = LedgerPurged(ledger, Secs(now))
  /\ UNCHANGED <<now, boot, states, activated, owners, cache, seen, answers, taken>>

\* A new process: new_with_boot_id with a fresh boot id and nothing remembered.
Restart ==
  /\ boot < MaxBoot
  /\ boot' = boot + 1
  /\ ledger' = EmptyLedger
  /\ states' = << >>
  /\ activated' = {}
  /\ owners' = {}
  /\ cache' = {}
  /\ seen' = [k \in ReplayKinds |-> << >>]
  /\ UNCHANGED <<now, answers, taken>>

\* The wall clock (external).  Expired replay entries go at once: the code drops
\* them before it next looks at the cache, so nobody sees the difference.
Tick ==
  /\ now < MaxNow
  /\ now' = now + 1
  /\ seen' = [k \in ReplayKinds |-> Live(seen[k], now')]
  /\ UNCHANGED <<boot, ledger, states, activated, owners, cache, answers, taken>>

-------------------------------------------------------------------------------
Init ==
  /\ now = 0
  /\ boot = 0
  /\ ledger = EmptyLedger
  /\ states = << >>
  /\ activated = {}
  /\ owners = {}
  /\ cache = {}
  /\ seen = [k \in ReplayKinds |-> << >>]
  /\ answers = {}
  /\ taken = {}

Signed(kind) == {a \in answers : a.req.kind = kind}

SomePermit ==
  \E hold \in Signed("hold"), n \in Nonces, path \in Paths, exp \in Expiries,
     via \in ControlRelays :
    \E relay \in RelaysFor[path] :
      IssueProbePermit(PermitRequest(hold, n, path, relay, exp), via)

\* One signed permit for each of the paths a client settles on.
PermitChoices(hold) ==
  LET own == {a \in Signed("permit") : a.req.hold = hold}
  IN  {[p \in {a.req.path : a \in chosen} |-> CHOOSE a \in chosen : a.req.path = p] :
         chosen \in {c \in SUBSET own : \A a, b \in c : a.req.path = b.req.path => a = b}}

SomeFinalize ==
  \E hold \in Signed("hold"), n \in Nonces, exp \in Expiries, via \in ControlRelays :
    \E permits \in PermitChoices(hold) : \E clientKeys \in [DOMAIN permits -> ClientKeys] :
      FinalizeReservation(FinalizeRequest(hold, n, permits, clientKeys, exp), via)

SomeConfirm ==
  \E fin \in Signed("finalize"), n \in Nonces, g \in Nonces, exp \in Expiries,
     via \in ControlRelays, path \in Paths :
    \E relay \in RelaysFor[path] :
      ConfirmRelay(ConfirmRequest(RelayGrant(fin, path, relay, g), n, exp), via)

SomeExtension ==
  \E fin \in Signed("finalize"), id \in ExtensionIds, path \in Paths, n \in Nonces, exp \in Expiries,
     via \in ControlRelays : \E relay \in RelaysFor[path] :
    LET Asked(phase, body) == ExtendRequest(fin, id, path, relay, phase, body, n, exp)
    IN  \/ ExtendProbe(Asked("Probe", {}), via)
        \/ \E key \in ClientKeys : ExtendAuthorize(Asked("Authorize", {key}), via)
        \/ \E g \in Nonces, cexp \in Expiries :
             LET c == ConfirmRequest(RelayGrant(fin, path, relay, g), n, cexp)
             IN  ExtendCommit(Asked("Commit", {c}), c, via) \/ ExtendCommitConfirmed(Asked("Commit", {c}), c, via)
        \/ ExtendAbort(Asked("Abort", {}), via)

SomeRefusal ==
  \E n \in Nonces, exp \in Expiries :
    \/ \E hold \in Signed("hold"), path \in Paths : \E relay \in RelaysFor[path] :
         PermitRefused(PermitRequest(hold, n, path, relay, exp))
    \/ \E hold \in Signed("hold") : \E permits \in PermitChoices(hold) :
         \E clientKeys \in [DOMAIN permits -> ClientKeys], verified \in SUBSET DOMAIN permits :
           FinalizeRefused(FinalizeRequest(hold, n, permits, clientKeys, exp), verified)
    \/ \E fin \in Signed("finalize"), path \in Paths : \E relay \in RelaysFor[path] :
         \/ \E g \in Nonces, verified \in {{}, {"relay"}, {"relay", "authorization"}} :
              ConfirmRefused(ConfirmRequest(RelayGrant(fin, path, relay, g), n, exp), verified)
         \/ \E id \in ExtensionIds, phase \in {"Probe", "Authorize", "Commit", "Abort"} :
              ExtendRefused(ExtendRequest(fin, id, path, relay, phase, {}, n, exp))

Next ==
  \/ \E q \in HoldRequests, via \in ControlRelays : HoldCapacity(q, via)
  \/ \E q \in HoldRequests : HoldRefused(q)
  \/ SomePermit
  \/ SomeFinalize
  \/ SomeConfirm
  \/ SomeExtension
  \/ SomeRefusal
  \/ \E r \in ReservationIds : \/ TakeNativeRouteAuthorization(r)
                               \/ BindRoute(r)
                               \/ MarkRouteEstablished(r)
                               \/ Release(r)
  \/ PurgeExpired
  \/ Available
  \/ Restart
  \/ Tick

Spec == Init /\ [][Next]_vars

\* The reservation maintenance tick of the agent never stops, and time passes.
FairSpec == Spec /\ WF_vars(PurgeExpired) /\ WF_vars(Tick)

-------------------------------------------------------------------------------
\* State shapes, and the bounds that keep a flood of requests finite.
TypeOK ==
  /\ now \in 0..MaxNow /\ boot \in 0..MaxBoot
  /\ DOMAIN ledger.grants \subseteq ReservationIds
  /\ ledger.grants \in [DOMAIN ledger.grants -> Grants]
  /\ DOMAIN states \subseteq ReservationIds
  /\ \A r \in DOMAIN states :
       /\ states[r].phase \in {"Held", "Finalized"}
       /\ states[r].hold.req \in HoldRequests /\ states[r].hold.req.r = r
       /\ DOMAIN states[r].permits \subseteq Paths
       /\ DOMAIN states[r].paths \subseteq Paths
  /\ activated \subseteq ReservationIds /\ owners \subseteq ReservationIds
  /\ Cardinality(cache) <= CacheCapacity
  /\ \A k \in ReplayKinds : Cardinality(DOMAIN seen[k]) <= MaxReplay

\* The paths the signed reservation selected, as opposed to later extensions.
FinalizedPaths(s) == UNION {DOMAIN f.req.permits : f \in s.fin}

(***************************************************************************)
(* No ghost capacity: whatever consumes bandwidth or a session slot is a   *)
(* reservation the service still knows, and a tunnel counted as Active     *)
(* belongs to a bound route whose every finalized path was confirmed (the  *)
(* allocations of native probes in the same ledger: module NativeProbe).   *)
(***************************************************************************)
NoGhostCapacity ==
  \A r \in DOMAIN ledger.grants :
    /\ r \in DOMAIN states
    /\ ledger.grants[r].state = "Active" =>
         r \in activated /\ FinalizedPaths(states[r]) \subseteq Confirmed(states[r])

(***************************************************************************)
(* One process answers one request at most once with a new artifact: a     *)
(* retry gets the cached bytes, and after the cached answer is gone the    *)
(* replay entry, or the request's own expiry, still refuses it, also after *)
(* the reservation was released or purged in between.                      *)
(***************************************************************************)
AnsweredOnce ==
  \A a, b \in answers : a.boot = b.boot /\ a.req = b.req => a = b

\* The replay entries an answered request has made in one of the caches.
EntriesOf(req, kind) ==
  CASE kind = "hold" /\ req.kind = "hold" -> {<<req.r, req.nonce>>}
    [] kind = "permit" /\ req.kind = "permit" -> {PermitKey(req)}
    [] kind = "finalize" /\ req.kind = "finalize" -> {<<req.hold, req.nonce>>}
    [] kind = "finalize" /\ req.kind = "extend" -> {ExtendKey(req)}
    [] kind = "probe" /\ req.kind = "finalize" -> DOMAIN ProbeEntries(req)
    [] kind = "confirm" /\ req.kind = "confirm" -> {ConfirmKey(req)}
    [] kind = "grant" /\ req.kind = "confirm" -> DOMAIN GrantEntries(req.grant, req.exp)
    [] OTHER -> {}

(***************************************************************************)
(* A refusal leaves no trace: a replay entry exists only for a message of  *)
(* a request this boot has answered, however many of its nested messages   *)
(* had been verified when an earlier attempt failed.  So a retry of an     *)
(* unanswered request is never mistaken for a replay.                      *)
(***************************************************************************)
OnlyAnsweredIsSeen ==
  \A kind \in ReplayKinds \ {"route"} : \A k \in DOMAIN Live(seen[kind], now) :
    \E a \in answers : a.boot = boot /\ k \in EntriesOf(a.req, kind)

(***************************************************************************)
(* The response caches only ever repeat answers about the hold that is     *)
(* current: no retry is answered on behalf of a reservation that was       *)
(* released, expired, replaced, or made by an earlier process.             *)
(***************************************************************************)
CachedAnswersCurrent ==
  \A c \in cache :
    /\ c.hold.boot = boot
    /\ c.hold.req.r \in DOMAIN states
    /\ states[c.hold.req.r].hold = c.hold

(***************************************************************************)
(* The native route identity owner of a finalized bundle is handed out at  *)
(* most once, and never while a finalized path still waits for its relay.  *)
(***************************************************************************)
OwnerTakenOnce ==
  /\ \A r \in owners : /\ r \in DOMAIN states
                       /\ states[r].phase = "Finalized"
                       /\ states[r].fin \cap taken = {}
  /\ \A r \in DOMAIN states :
       states[r].fin \cap taken # {} => FinalizedPaths(states[r]) \subseteq Confirmed(states[r])

(***************************************************************************)
(* Helper leases and WireGuard keys are never shared by two live paths, of *)
(* one reservation or of two.                                              *)
(***************************************************************************)
KeysNeverShared ==
  \A r, x \in DOMAIN states :
    \A p \in DOMAIN states[r].paths, y \in DOMAIN states[x].paths :
      <<r, p>> # <<x, y>> =>
        KeysOf(states[r].paths[p]) \cap KeysOf(states[x].paths[y]) = {}

(***************************************************************************)
(* A confirmed path stays as it is for as long as its hold lives: no late  *)
(* or repeated request, and no Abort of the extension that added it, takes *)
(* it away or replaces its relay, keys or grant; and a bound route is      *)
(* never passed on to another hold or another finalized bundle.            *)
(***************************************************************************)
ConfirmedPathsKept ==
  [][\A r \in DOMAIN states \cap DOMAIN states' :
       /\ r \in activated \cap activated' =>
            states'[r].hold = states[r].hold /\ states'[r].fin = states[r].fin
       /\ states'[r].hold = states[r].hold =>
            \A p \in Confirmed(states[r]) :
              p \in DOMAIN states'[r].paths /\ states'[r].paths[p] = states[r].paths[p]]_vars

(***************************************************************************)
(* A route grows by one path at a time, within the paths the hold asked    *)
(* for: at most one extension is open, and once the route is bound only    *)
(* the path of that extension may be waiting for its relay.                *)
(***************************************************************************)
OpenExtensions(s) == {x \in DOMAIN s.ext : s.ext[x].phase \in {"Probe", "Authorize"}}

OnePathAtATime ==
  \A r \in DOMAIN states :
    LET s == states[r]
    IN  /\ \A x, y \in OpenExtensions(s) : x = y
        /\ Cardinality(DOMAIN s.paths) <= s.hold.req.maxPaths
        /\ r \in activated =>
             DOMAIN s.paths \ Confirmed(s) \subseteq {s.ext[x].path : x \in OpenExtensions(s)}

(***************************************************************************)
(* Expiry drops the exit helper lease: an endpoint state, once created, is *)
(* eventually gone (lib.rs, test                                           *)
(* release_and_expiry_drop_exit_helper_leases_and_restore_capacity).  The  *)
(* code does not guarantee it: available and mark_route_established        *)
(* consume the ledger's expiry report without removing the endpoint state. *)
(***************************************************************************)
ExpiryDropsLeases ==
  \A r \in ReservationIds : r \in DOMAIN states ~> r \notin DOMAIN states

===============================================================================
