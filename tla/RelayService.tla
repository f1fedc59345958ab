----------------------------- MODULE RelayService -----------------------------
(***************************************************************************)
(* Admission at a data relay (crates/volparossa-relay/src/lib.rs): the     *)
(* relay turns an authorization signed by an exit into its own signed      *)
(* reservation.  It serves two kinds of request over one ledger, one set   *)
(* of helper endpoints and one replay cache of exit signatures:            *)
(*   - a client-session request for a path of a finalized reservation;     *)
(*   - a native probe Start, whose owner is retained until it is taken.    *)
(*                                                                         *)
(* An authorization is a record; "fin" names the finalized bundle (or the  *)
(* Start hash) it was signed for, so equality of fin is equality of all    *)
(* the scope fields that validate_relay_scope compares.  As in             *)
(* ExitService a refused request, or one answered from the cache, rolls    *)
(* its replay entries back and leaves only the purge: step PurgeExpired.   *)
(***************************************************************************)
EXTENDS LedgerOps, ControlEnvelope

CONSTANTS
  Authorizations,  \* path authorizations exits signed for this relay
  Nonces,          \* nonces of client-session requests
  Expiries,        \* expiry instants (ms) of client-session requests
  Keys,            \* WireGuard keys of clients and exits
  RelayKeys,       \* keys of the local helper; each stands for its handle and port
  CacheCapacity,   \* response_cache_capacity
  MsPerSecond,     \* 1000 in the code
  MaxLives,        \* bound on restarts
  MaxNow           \* bound on the clock (ms)

Authorization ==
  [r: ReservationIds, fin: Nat, path: Nat, native: BOOLEAN, up: Nat, down: Nat,
   created: Nat, exp: Nat, clientKey: Keys, exitKey: Keys]

ASSUME RelayAssumption ==
  /\ Authorizations \subseteq Authorization
  /\ Expiries \subseteq Nat
  /\ CacheCapacity \in Nat /\ MsPerSecond \in Nat \ {0}
  /\ MaxLives \in Nat /\ MaxNow \in Nat

\* same_authorization_and_exit_scope: an authorization expires with the exit
\* reservation it was signed for, so the paths of one bundle expire together.
ASSUME BundleAssumption ==
  \A a, b \in Authorizations : ~a.native /\ ~b.native /\ a.fin = b.fin => a.exp = b.exp

VARIABLES
  now,             \* wall clock, ms
  life,            \* the running process; the relay itself has no boot id
  ledger,          \* CapacityLedger
  states,          \* endpoint_states, by reservation id
  starts,          \* native_probe_starts: reservations whose Start is retained
  cache,           \* response_cache
  requestSeen,     \* request_replay
  authSeen,        \* authorization_replay
  granted          \* history: <<life, authorization>> of every signed reservation

vars == <<now, life, ledger, states, starts, cache, requestSeen, authSeen, granted>>

Secs(t) == t \div MsPerSecond

\* purge_expired: what the ledger reports as expired leaves everywhere.
Expired == LedgerExpired(ledger, Secs(now))

PurgedLedger == LedgerPurged(ledger, Secs(now))
PurgedStates == [r \in DOMAIN states \ Expired |-> states[r]]
\* Mutant: a retained Start outlives its expired reservation.
StartsKept == starts

PurgedStarts == starts \ Expired
PurgedCache == {c \in cache : c.exp > now /\ c.r \notin Expired}

PurgeExpired ==
  /\ ledger' = PurgedLedger
  /\ states' = PurgedStates
  /\ starts' = PurgedStarts
  /\ cache' = PurgedCache
  /\ UNCHANGED <<now, life, requestSeen, authSeen, granted>>

-------------------------------------------------------------------------------
\* relay_allocation: milliseconds become whole seconds, rounded down.
LedgerRequest(a) ==
  [id |-> a.r, up |-> a.up, down |-> a.down, created |-> Secs(a.created),
   expires |-> Secs(a.exp), scoped |-> TRUE]

\* RelayEndpointLease: the two endpoints the helper (external) leases for a path.
Leases == {l \in [client: RelayKeys, exit: RelayKeys] : l.client # l.exit}

EndpointsOf(s) == {s.lease.client, s.lease.exit}

EndpointsInUse == UNION {EndpointsOf(PurgedStates[r]) : r \in DOMAIN PurgedStates}

KeysOf(a, lease) == {a.clientKey, a.exitKey, lease.client, lease.exit}

KeysInUse ==
  UNION {KeysOf(PurgedStates[r].auth, PurgedStates[r].lease) : r \in DOMAIN PurgedStates}

\* Mutant: handles and ports in use elsewhere are not compared.
AnyLease(lease) == TRUE

LeaseUnused(lease) == {lease.client, lease.exit} \cap EndpointsInUse = {}

\* ClientSessionCapability and ExitReservation are shared by all the paths of
\* a bundle, the authorization belongs to one path.
BundleEntries(a) ==
  [k \in {<<"capability", a.fin>>, <<"exit", a.fin>>, <<"authorization", a>>} |-> a.exp]

AuthorizationEntry(a) == [k \in {<<"authorization", a>>} |-> a.exp]

\* What both kinds of accepted request leave behind.
Admit(a, lease, key, cacheExp) ==
  /\ a.r \notin DOMAIN PurgedStates
  /\ LeaseUnused(lease)
  /\ LedgerAdmits(PurgedLedger, LedgerRequest(a), Secs(now))
  /\ ledger' = LedgerAdmit(PurgedLedger, LedgerRequest(a), Secs(now))
  /\ states' = [r \in DOMAIN PurgedStates \cup {a.r} |->
                  IF r = a.r THEN [auth |-> a, lease |-> lease] ELSE PurgedStates[r]]
  /\ cache' = PurgedCache \cup {[key |-> key, r |-> a.r, exp |-> cacheExp]}
  /\ granted' = granted \cup {<<life, a>>}

\* The response cache: no answer stored under this key, and room for one.
NotCached(key) ==
  /\ \A c \in PurgedCache : c.key # key
  /\ Cardinality(PurgedCache) < CacheCapacity

(***************************************************************************)
(* accept_request_with and accept_verified_request_with.                   *)
(***************************************************************************)
Request(a, n, exp) == [kind |-> "request", auth |-> a, nonce |-> n, exp |-> exp]

Earlier(a, b) == IF a < b THEN a ELSE b

RequestEntry(q) == [k \in {<<q.auth.fin, q.nonce>>} |-> q.exp]

AcceptRequest(q, lease) ==
  LET a == q.auth
  IN  /\ ~a.native
      /\ NotCached(q)
      /\ InWindow(q.exp, now) /\ Unseen(requestSeen, DOMAIN RequestEntry(q), now)
      /\ InWindow(a.exp, now) /\ Unseen(authSeen, DOMAIN BundleEntries(a), now)
      /\ a.created <= now
      /\ q.exp <= a.exp
      /\ Cardinality(KeysOf(a, lease)) = 4
      /\ Admit(a, lease, q, Earlier(q.exp, a.exp))
      /\ requestSeen' = Record(requestSeen, RequestEntry(q), now)
      /\ authSeen' = Record(authSeen, BundleEntries(a), now)
      /\ starts' = PurgedStarts
      /\ UNCHANGED <<now, life>>

\* A Start is cached by its own bytes.
StartKey(a) == [kind |-> "start", fin |-> a.fin]

\* Mutant: the authorization of a native Start is verified without recording it.
AcceptStartUnrecorded(a, lease) ==
  /\ a.native
  /\ NotCached(StartKey(a))
  /\ InWindow(a.exp, now)
  /\ a.created <= now
  /\ KeysOf(a, lease) \cap KeysInUse = {}
  /\ a.r \notin PurgedStarts
  /\ Admit(a, lease, StartKey(a), a.exp)
  /\ starts' = PurgedStarts \cup {a.r}
  /\ UNCHANGED <<now, life, requestSeen, authSeen>>

(***************************************************************************)
(* accept_native_probe_start_with and the verified half of it.  The Start  *)
(* itself was verified by its Ready owner; it is cached by its own bytes   *)
(* whatever authorization came with it.                                    *)
(***************************************************************************)
AcceptNativeProbeStart(a, lease) ==
  /\ a.native
  /\ NotCached(StartKey(a))
  /\ InWindow(a.exp, now) /\ Unseen(authSeen, DOMAIN AuthorizationEntry(a), now)
  /\ a.created <= now
  /\ KeysOf(a, lease) \cap KeysInUse = {}
  /\ a.r \notin PurgedStarts
  /\ Admit(a, lease, StartKey(a), a.exp)
  /\ authSeen' = Record(authSeen, AuthorizationEntry(a), now)
  /\ starts' = PurgedStarts \cup {a.r}
  /\ UNCHANGED <<now, life, requestSeen>>

-------------------------------------------------------------------------------
\* mark_tunnel_established purges the ledger, and only the ledger.
MarkTunnelEstablished(r) ==
  LET L == PurgedLedger
  IN  /\ r \in DOMAIN states
      /\ \/ r \in DOMAIN L.grants /\ ledger' = LedgerEstablished(L, r)
         \/ r \notin DOMAIN L.grants /\ ledger' = L
      /\ UNCHANGED <<now, life, states, starts, cache, requestSeen, authSeen, granted>>

\* release: an id the ledger does not know is refused before anything is removed.
Release(r) ==
  /\ r \in DOMAIN ledger.grants
  /\ ledger' = LedgerWithout(ledger, {r})
  /\ states' = [x \in DOMAIN states \ {r} |-> states[x]]
  /\ starts' = starts \ {r}
  /\ cache' = {c \in cache : c.r # r}
  /\ UNCHANGED <<now, life, requestSeen, authSeen, granted>>

TakeNativeProbeStart(r) ==
  /\ r \in starts
  /\ starts' = starts \ {r}
  /\ UNCHANGED <<now, life, ledger, states, cache, requestSeen, authSeen, granted>>

\* available, called whenever the node advertises its free capacity.
Available ==
  /\ ledger' = PurgedLedger
  /\ UNCHANGED <<now, life, states, starts, cache, requestSeen, authSeen, granted>>

\* A new process: RelayService::new remembers nothing.
Restart ==
  /\ life < MaxLives
  /\ life' = life + 1
  /\ ledger' = EmptyLedger
  /\ states' = << >>
  /\ starts' = {}
  /\ cache' = {}
  /\ requestSeen' = << >>
  /\ authSeen' = << >>
  /\ UNCHANGED <<now, granted>>

\* The wall clock (external).
Tick ==
  /\ now < MaxNow
  /\ now' = now + 1
  /\ UNCHANGED <<life, ledger, states, starts, cache, requestSeen, authSeen, granted>>

-------------------------------------------------------------------------------
Init ==
  /\ now = 0
  /\ life = 0
  /\ ledger = EmptyLedger
  /\ states = << >>
  /\ starts = {}
  /\ cache = {}
  /\ requestSeen = << >>
  /\ authSeen = << >>
  /\ granted = {}

Next ==
  \/ \E a \in Authorizations, lease \in Leases :
       \/ \E n \in Nonces, exp \in Expiries : AcceptRequest(Request(a, n, exp), lease)
       \/ AcceptNativeProbeStart(a, lease)
  \/ \E r \in ReservationIds : \/ MarkTunnelEstablished(r)
                               \/ Release(r)
                               \/ TakeNativeProbeStart(r)
  \/ PurgeExpired
  \/ Available
  \/ Restart
  \/ Tick

Spec == Init /\ [][Next]_vars

-------------------------------------------------------------------------------
(***************************************************************************)
(* Whatever consumes relay capacity, or is retained or remembered on its   *)
(* behalf (a native Start, a cached acceptance), belongs to a reservation  *)
(* whose helper endpoints the relay still knows.                           *)
(***************************************************************************)
NothingOutlivesItsPath ==
  /\ DOMAIN ledger.grants \subseteq DOMAIN states
  /\ \A r \in starts : r \in DOMAIN states /\ states[r].auth.native
  /\ \A c \in cache : c.r \in DOMAIN states

(***************************************************************************)
(* Helper handles and listen ports are never shared by two live paths,     *)
(* whichever of the two request kinds created them.                        *)
(***************************************************************************)
EndpointsNeverShared ==
  \A r, x \in DOMAIN states :
    r # x => EndpointsOf(states[r]) \cap EndpointsOf(states[x]) = {}

(***************************************************************************)
(* While the relay process lives, an exit authorization yields at most one *)
(* reservation, also after that reservation was released or expired, and   *)
(* the relay never carries two paths of one finalized bundle: the paths of *)
(* a multipath route fail independently.                                   *)
(***************************************************************************)
AuthorizationSpentOnce ==
  [][\A r \in DOMAIN states' :
       (r \notin DOMAIN states \/ states'[r] # states[r]) =>
         LET a == states'[r].auth
         IN  \A g \in granted :
               g[1] = life => /\ g[2] # a
                              /\ ~a.native /\ ~g[2].native => g[2].fin # a.fin]_vars

===============================================================================
