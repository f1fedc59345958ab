-------------------------- MODULE RelayServiceProofs --------------------------
(***************************************************************************)
(* The safety properties of relay admission for every set of               *)
(* authorizations, keys and nonces, every limit and every bound.           *)
(*                                                                         *)
(* The inductive invariant ties the ledger, the retained Starts and the    *)
(* cached responses to the endpoint states, and every authorization this   *)
(* process has turned into a reservation to the replay entries that keep   *)
(* it from being turned into another.                                      *)
(***************************************************************************)
EXTENDS RelayService, TLAPS

ClockInv == now \in Nat /\ life \in Nat

\* An endpoint state is stored under the reservation of its authorization.
StateInv ==
  \A r \in DOMAIN states : states[r].auth \in Authorizations /\ states[r].auth.r = r

\* The replay entries an accepted authorization leaves.
SpentKeys(a) ==
  IF a.native THEN {<<"authorization", a>>}
  ELSE {<<"capability", a.fin>>, <<"exit", a.fin>>, <<"authorization", a>>}

\* The authorization is dead, or the replay cache C still holds all of them.
Spent(a, C) ==
  a.exp <= now \/ \A k \in SpentKeys(a) : k \in DOMAIN C /\ C[k] = a.exp

GrantedInv ==
  \A g \in granted :
    /\ g[1] \in Nat /\ g[1] <= life
    /\ g[2] \in Authorizations
    /\ g[1] = life => Spent(g[2], authSeen)

RelayInv ==
  ClockInv /\ StateInv /\ NothingOutlivesItsPath /\ EndpointsNeverShared /\ GrantedInv

-------------------------------------------------------------------------------
(* The ledger, the purge and the replay cache. *)

\* What purge_expired leaves in the ledger.
LEMMA PurgedGrants ==
  DOMAIN PurgedLedger.grants = DOMAIN ledger.grants \ Expired
BY DEF PurgedLedger, LedgerPurged, LedgerWithout, Expired

\* An admission adds one grant.
LEMMA AdmittedGrants ==
  ASSUME NEW L, NEW req, NEW t
  PROVE  DOMAIN LedgerAdmit(L, req, t).grants = DOMAIN L.grants \cup {req.id}
BY DEF LedgerAdmit

\* After purge_expired the invariant holds of what is left.
LEMMA PurgeKeeps ==
  ASSUME RelayInv
  PROVE  /\ DOMAIN PurgedStates \subseteq DOMAIN states
         /\ \A r \in DOMAIN PurgedStates : PurgedStates[r] = states[r]
         /\ DOMAIN PurgedLedger.grants \subseteq DOMAIN PurgedStates
         /\ \A r \in PurgedStarts : r \in DOMAIN PurgedStates /\ PurgedStates[r].auth.native
         /\ \A c \in PurgedCache : c.r \in DOMAIN PurgedStates
<1>1. DOMAIN PurgedStates = DOMAIN states \ Expired
  BY DEF PurgedStates
<1>2. \A r \in DOMAIN PurgedStates : PurgedStates[r] = states[r]
  BY DEF PurgedStates
<1> QED BY <1>1, <1>2, PurgedGrants DEF RelayInv, NothingOutlivesItsPath, PurgedStarts,
                                        PurgedCache

\* Unseen keys are recorded, and no entry of a message still alive is lost.
LEMMA RecordKeeps ==
  ASSUME NEW C, NEW E, Unseen(C, DOMAIN E, now)
  PROVE  /\ \A k \in DOMAIN E : k \in DOMAIN Record(C, E, now) /\ Record(C, E, now)[k] = E[k]
         /\ \A k \in DOMAIN C :
              C[k] > now => /\ k \in DOMAIN Record(C, E, now)
                            /\ Record(C, E, now)[k] = C[k]
                            /\ k \notin DOMAIN E
<1>1. \A k \in DOMAIN C : C[k] > now => k \in DOMAIN Live(C, now) /\ k \notin DOMAIN E
  BY DEF Unseen, Live
<1> QED BY <1>1 DEF Record

\* A spent authorization stays spent when other keys are recorded.
LEMMA SpentKept ==
  ASSUME RelayInv, NEW E, Unseen(authSeen, DOMAIN E, now), NEW a \in Authorizations,
         Spent(a, authSeen)
  PROVE  Spent(a, Record(authSeen, E, now))
<1>1. a.exp \in Nat /\ now \in Nat
  BY RelayAssumption DEF RelayInv, ClockInv, Authorization
<1>2. CASE a.exp <= now
  BY <1>2 DEF Spent
<1>3. CASE a.exp > now
  <2>1. \A k \in SpentKeys(a) : k \in DOMAIN authSeen /\ authSeen[k] > now /\ authSeen[k] = a.exp
    BY <1>1, <1>3 DEF Spent
  <2> QED BY <2>1, RecordKeeps DEF Spent
<1> QED BY <1>1, <1>2, <1>3

\* An accepted authorization is new to this process, and so is its bundle.
LEMMA AcceptedIsNew ==
  ASSUME RelayInv, NEW a \in Authorizations, InWindow(a.exp, now),
         Unseen(authSeen, SpentKeys(a), now),
         NEW g \in granted, g[1] = life
  PROVE  g[2] # a /\ (~a.native /\ ~g[2].native => g[2].fin # a.fin)
<1>1. /\ g[2] \in Authorizations /\ Spent(g[2], authSeen)
      /\ a.exp \in Nat /\ now \in Nat /\ a.exp > now
  BY RelayAssumption DEF RelayInv, ClockInv, GrantedInv, Authorization, InWindow
<1>2. \A k \in SpentKeys(a) : ~(k \in DOMAIN authSeen /\ authSeen[k] > now)
  BY DEF Unseen, Live
<1>3. g[2] # a
  <2>1. <<"authorization", a>> \in SpentKeys(a)
    BY DEF SpentKeys
  <2> QED BY <1>1, <1>2, <2>1 DEF Spent
<1>4. ASSUME ~a.native, ~g[2].native, g[2].fin = a.fin PROVE FALSE
  <2>1. g[2].exp = a.exp
    BY <1>1, <1>4, BundleAssumption
  <2>2. <<"exit", a.fin>> \in SpentKeys(a) /\ <<"exit", a.fin>> \in SpentKeys(g[2])
    BY <1>4 DEF SpentKeys
  <2> QED BY <1>1, <1>2, <2>1, <2>2 DEF Spent
<1> QED BY <1>3, <1>4

-------------------------------------------------------------------------------
(* The two kinds of admission. *)

\* Admit: RelayInv is kept.
LEMMA AdmitStep ==
  ASSUME RelayInv, NEW a \in Authorizations, NEW lease \in Leases, NEW key, NEW cacheExp,
         Admit(a, lease, key, cacheExp), UNCHANGED <<now, life>>,
         InWindow(a.exp, now), Unseen(authSeen, SpentKeys(a), now),
         NEW E, DOMAIN E = SpentKeys(a), \A k \in SpentKeys(a) : E[k] = a.exp,
         authSeen' = Record(authSeen, E, now),
         starts' \subseteq PurgedStarts \cup (IF a.native THEN {a.r} ELSE {})
  PROVE  RelayInv'
<1> USE DEF Admit
<1>1. ClockInv'
  BY DEF RelayInv, ClockInv
<1>2. /\ DOMAIN states' = DOMAIN PurgedStates \cup {a.r}
      /\ \A r \in DOMAIN PurgedStates : states'[r] = PurgedStates[r]
      /\ states'[a.r] = [auth |-> a, lease |-> lease]
      /\ a.r \notin DOMAIN PurgedStates
  OBVIOUS
<1>3. StateInv'
  BY <1>2, PurgeKeeps DEF RelayInv, StateInv
<1>4. NothingOutlivesItsPath'
  <2>1. DOMAIN ledger'.grants = DOMAIN PurgedLedger.grants \cup {a.r}
    BY AdmittedGrants DEF LedgerRequest
  <2>2. \A r \in starts' : r \in DOMAIN states' /\ states'[r].auth.native
    BY <1>2, PurgeKeeps
  <2>3. \A c \in cache' : c.r \in DOMAIN states'
    BY <1>2, PurgeKeeps
  <2> QED BY <1>2, <2>1, <2>2, <2>3, PurgeKeeps DEF NothingOutlivesItsPath
<1>5. EndpointsNeverShared'
  <2>1. \A r \in DOMAIN PurgedStates :
          EndpointsOf(PurgedStates[r]) \cap {lease.client, lease.exit} = {}
    BY DEF LeaseUnused, EndpointsInUse
  <2>2. EndpointsOf(states'[a.r]) = {lease.client, lease.exit}
    BY <1>2 DEF EndpointsOf
  <2>3. \A r, x \in DOMAIN PurgedStates :
          r # x => EndpointsOf(PurgedStates[r]) \cap EndpointsOf(PurgedStates[x]) = {}
    BY PurgeKeeps DEF RelayInv, EndpointsNeverShared
  <2> QED BY <1>2, <2>1, <2>2, <2>3 DEF EndpointsNeverShared
<1>6. GrantedInv'
  <2> SUFFICES ASSUME NEW g \in granted'
               PROVE  /\ g[1] \in Nat /\ g[1] <= life
                      /\ g[2] \in Authorizations
                      /\ g[1] = life => Spent(g[2], authSeen')
    BY DEF GrantedInv, Spent
  <2>1. CASE g \in granted
    BY <2>1, SpentKept DEF RelayInv, GrantedInv
  <2>2. CASE g = <<life, a>>
    <3>1. Spent(a, authSeen')
      BY RecordKeeps DEF Spent
    <3> QED BY <2>2, <3>1 DEF RelayInv, ClockInv
  <2> QED BY <2>1, <2>2
<1> QED BY <1>1, <1>3, <1>4, <1>5, <1>6 DEF RelayInv

\* Request: RelayInv is kept.
LEMMA RequestStep ==
  ASSUME RelayInv, NEW a \in Authorizations, NEW lease \in Leases,
         NEW n \in Nonces, NEW exp \in Expiries, AcceptRequest(Request(a, n, exp), lease)
  PROVE  RelayInv'
<1>1. Request(a, n, exp).auth = a
  BY DEF Request
<1>2. /\ ~a.native /\ InWindow(a.exp, now) /\ Unseen(authSeen, DOMAIN BundleEntries(a), now)
      /\ Admit(a, lease, Request(a, n, exp), Earlier(Request(a, n, exp).exp, a.exp))
      /\ authSeen' = Record(authSeen, BundleEntries(a), now)
      /\ starts' = PurgedStarts /\ UNCHANGED <<now, life>>
  BY <1>1 DEF AcceptRequest
<1>3. DOMAIN BundleEntries(a) = SpentKeys(a) /\ \A k \in SpentKeys(a) : BundleEntries(a)[k] = a.exp
  BY <1>2 DEF BundleEntries, SpentKeys
<1> HIDE DEF SpentKeys
<1> QED BY <1>2, <1>3, AdmitStep

\* Start: RelayInv is kept.
LEMMA StartStep ==
  ASSUME RelayInv, NEW a \in Authorizations, NEW lease \in Leases,
         AcceptNativeProbeStart(a, lease)
  PROVE  RelayInv'
<1>1. /\ a.native /\ InWindow(a.exp, now) /\ Unseen(authSeen, DOMAIN AuthorizationEntry(a), now)
      /\ Admit(a, lease, StartKey(a), a.exp)
      /\ authSeen' = Record(authSeen, AuthorizationEntry(a), now)
      /\ starts' = PurgedStarts \cup {a.r} /\ UNCHANGED <<now, life>>
  BY DEF AcceptNativeProbeStart
<1>2. /\ DOMAIN AuthorizationEntry(a) = SpentKeys(a)
      /\ \A k \in SpentKeys(a) : AuthorizationEntry(a)[k] = a.exp
  BY <1>1 DEF AuthorizationEntry, SpentKeys
<1> QED BY <1>1, <1>2, AdmitStep

-------------------------------------------------------------------------------
(* Every other step. *)

\* Steps that only remove: the states shrink, and the rest shrinks with them.
LEMMA ShrinkStep ==
  ASSUME RelayInv, UNCHANGED <<now, life, authSeen, granted>>,
         DOMAIN states' \subseteq DOMAIN states, \A r \in DOMAIN states' : states'[r] = states[r],
         NothingOutlivesItsPath'
  PROVE  RelayInv'
<1>1. ClockInv' /\ GrantedInv'
  BY DEF RelayInv, ClockInv, GrantedInv, Spent
<1>2. StateInv' /\ EndpointsNeverShared'
  BY DEF RelayInv, StateInv, EndpointsNeverShared
<1> QED BY <1>1, <1>2 DEF RelayInv

\* Purge: RelayInv is kept.
LEMMA PurgeStep ==
  ASSUME RelayInv, PurgeExpired
  PROVE  RelayInv'
<1>1. NothingOutlivesItsPath'
  BY PurgeKeeps DEF PurgeExpired, NothingOutlivesItsPath
<1> QED BY <1>1, PurgeKeeps, ShrinkStep DEF PurgeExpired

\* Ledger: RelayInv is kept.
LEMMA LedgerStep ==
  ASSUME RelayInv, Available \/ \E r \in ReservationIds : MarkTunnelEstablished(r)
  PROVE  RelayInv'
<1>1. DOMAIN ledger'.grants \subseteq DOMAIN ledger.grants
  BY PurgedGrants DEF Available, MarkTunnelEstablished, LedgerEstablished
<1>2. NothingOutlivesItsPath'
  BY <1>1 DEF RelayInv, NothingOutlivesItsPath, Available, MarkTunnelEstablished
<1> QED BY <1>2, ShrinkStep DEF Available, MarkTunnelEstablished

\* Release: RelayInv is kept.
LEMMA ReleaseStep ==
  ASSUME RelayInv, NEW r \in ReservationIds, Release(r)
  PROVE  RelayInv'
<1>1. DOMAIN ledger'.grants = DOMAIN ledger.grants \ {r}
  BY DEF Release, LedgerWithout
<1>2. DOMAIN states' = DOMAIN states \ {r} /\ \A x \in DOMAIN states' : states'[x] = states[x]
  BY DEF Release
<1>3. NothingOutlivesItsPath'
  BY <1>1, <1>2 DEF RelayInv, NothingOutlivesItsPath, Release
<1> QED BY <1>2, <1>3, ShrinkStep DEF Release

\* Take: RelayInv is kept.
LEMMA TakeStep ==
  ASSUME RelayInv, NEW r \in ReservationIds, TakeNativeProbeStart(r)
  PROVE  RelayInv'
<1>1. NothingOutlivesItsPath'
  BY DEF RelayInv, NothingOutlivesItsPath, TakeNativeProbeStart
<1> QED BY <1>1, ShrinkStep DEF TakeNativeProbeStart

\* Restart: RelayInv is kept.
LEMMA RestartStep ==
  ASSUME RelayInv, Restart
  PROVE  RelayInv'
<1>1. ClockInv' /\ StateInv' /\ EndpointsNeverShared'
  BY DEF RelayInv, ClockInv, StateInv, EndpointsNeverShared, Restart
<1>2. NothingOutlivesItsPath'
  BY DEF NothingOutlivesItsPath, Restart, EmptyLedger
<1>3. GrantedInv'
  BY DEF RelayInv, ClockInv, GrantedInv, Restart
<1> QED BY <1>1, <1>2, <1>3 DEF RelayInv

\* Tick: RelayInv is kept.
LEMMA TickStep ==
  ASSUME RelayInv, Tick
  PROVE  RelayInv'
<1>1. ClockInv' /\ StateInv' /\ NothingOutlivesItsPath' /\ EndpointsNeverShared'
  BY DEF RelayInv, ClockInv, StateInv, NothingOutlivesItsPath, EndpointsNeverShared, Tick
<1>2. GrantedInv'
  <2> SUFFICES ASSUME NEW g \in granted, g[1] = life, Spent(g[2], authSeen)
               PROVE  Spent(g[2], authSeen)'
    BY DEF RelayInv, GrantedInv, Tick
  <2>1. g[2].exp \in Nat /\ now \in Nat
    BY RelayAssumption DEF RelayInv, ClockInv, GrantedInv, Authorization
  <2> QED BY <2>1 DEF Spent, Tick
<1> QED BY <1>1, <1>2 DEF RelayInv

\* Every step keeps the invariant.
LEMMA RelayInvInductive == RelayInv /\ [Next]_vars => RelayInv'
<1> SUFFICES ASSUME RelayInv, [Next]_vars PROVE RelayInv'
  OBVIOUS
<1>1. CASE \E a \in Authorizations, lease \in Leases, n \in Nonces, exp \in Expiries :
             AcceptRequest(Request(a, n, exp), lease)
  BY <1>1, RequestStep
<1>2. CASE \E a \in Authorizations, lease \in Leases : AcceptNativeProbeStart(a, lease)
  BY <1>2, StartStep
<1>3. CASE \E r \in ReservationIds : MarkTunnelEstablished(r) \/ Release(r) \/ TakeNativeProbeStart(r)
  BY <1>3, LedgerStep, ReleaseStep, TakeStep
<1>4. CASE PurgeExpired \/ Available \/ Restart \/ Tick
  BY <1>4, PurgeStep, LedgerStep, RestartStep, TickStep
<1>5. CASE UNCHANGED vars
  <2>1. NothingOutlivesItsPath'
    BY <1>5 DEF vars, RelayInv, NothingOutlivesItsPath
  <2> QED BY <1>5, <2>1, ShrinkStep DEF vars
<1> QED BY <1>1, <1>2, <1>3, <1>4, <1>5 DEF Next

\* The invariant holds in every reachable state.
LEMMA RelayInvHolds == Spec => []RelayInv
<1>1. Init => RelayInv
  <2> SUFFICES ASSUME Init PROVE RelayInv
    OBVIOUS
  <2>1. ClockInv /\ StateInv /\ EndpointsNeverShared /\ GrantedInv
    BY DEF Init, ClockInv, StateInv, EndpointsNeverShared, GrantedInv
  <2>2. NothingOutlivesItsPath
    BY DEF Init, NothingOutlivesItsPath, EmptyLedger
  <2> QED BY <2>1, <2>2 DEF RelayInv
<1> QED BY <1>1, RelayInvInductive, PTL DEF Spec

-------------------------------------------------------------------------------
(* The properties the run checks. *)

\* Relay capacity, a retained Start and a cached acceptance always belong to a
\* reservation whose endpoints the relay knows, although release, purge_expired,
\* mark_tunnel_established and available each touch a different set of the maps.
THEOREM RelayNothingOutlivesItsPath == Spec => []NothingOutlivesItsPath
<1>1. RelayInv => NothingOutlivesItsPath
  BY DEF RelayInv
<1> QED BY <1>1, RelayInvHolds, PTL

\* No two live paths share a helper handle or a listen port, whichever of the two
\* request kinds leased them.
THEOREM RelayEndpointsNeverShared == Spec => []EndpointsNeverShared
<1>1. RelayInv => EndpointsNeverShared
  BY DEF RelayInv
<1> QED BY <1>1, RelayInvHolds, PTL

\* Within one process an exit authorization yields one reservation at most, also
\* after its release or expiry, and a bundle one path at most: as long as an
\* authorization is alive authorization_replay holds its keys.
THEOREM RelayAuthorizationSpentOnce == Spec => AuthorizationSpentOnce
<1> DEFINE New(a) ==
             \A g \in granted :
               g[1] = life => /\ g[2] # a
                              /\ ~a.native /\ ~g[2].native => g[2].fin # a.fin
           Spends ==
             \A r \in DOMAIN states' :
               (r \notin DOMAIN states \/ states'[r] # states[r]) => New(states'[r].auth)
<1>1. ASSUME RelayInv, NEW a \in Authorizations, NEW lease, NEW key, NEW cacheExp,
             Admit(a, lease, key, cacheExp), InWindow(a.exp, now),
             Unseen(authSeen, SpentKeys(a), now)
      PROVE  Spends
  <2>1. /\ \A r \in DOMAIN states' : r # a.r => r \in DOMAIN states /\ states'[r] = states[r]
        /\ states'[a.r].auth = a
    BY <1>1, PurgeKeeps DEF Admit
  <2>2. New(a)
    BY <1>1, AcceptedIsNew
  <2> QED BY <2>1, <2>2
<1>2. RelayInv /\ [Next]_vars => Spends
  <2> SUFFICES ASSUME RelayInv, Next PROVE Spends
    BY DEF vars
  <2>1. CASE \E a \in Authorizations, lease \in Leases, n \in Nonces, exp \in Expiries :
               AcceptRequest(Request(a, n, exp), lease)
    <3>1. PICK a \in Authorizations, lease \in Leases, n \in Nonces, exp \in Expiries :
                 AcceptRequest(Request(a, n, exp), lease)
      BY <2>1
    <3>2. /\ ~a.native /\ InWindow(a.exp, now) /\ Unseen(authSeen, DOMAIN BundleEntries(a), now)
          /\ Admit(a, lease, Request(a, n, exp), Earlier(Request(a, n, exp).exp, a.exp))
      BY <3>1 DEF AcceptRequest, Request
    <3>3. DOMAIN BundleEntries(a) = SpentKeys(a)
      BY <3>2 DEF BundleEntries, SpentKeys
    <3> HIDE DEF Spends
    <3> QED BY <1>1, <3>2, <3>3
  <2>2. CASE \E a \in Authorizations, lease \in Leases : AcceptNativeProbeStart(a, lease)
    <3>1. PICK a \in Authorizations, lease \in Leases : AcceptNativeProbeStart(a, lease)
      BY <2>2
    <3>2. /\ a.native /\ InWindow(a.exp, now)
          /\ Unseen(authSeen, DOMAIN AuthorizationEntry(a), now)
          /\ Admit(a, lease, StartKey(a), a.exp)
      BY <3>1 DEF AcceptNativeProbeStart
    <3>3. DOMAIN AuthorizationEntry(a) = SpentKeys(a)
      BY <3>2 DEF AuthorizationEntry, SpentKeys
    <3> HIDE DEF Spends
    <3> QED BY <1>1, <3>2, <3>3
  <2>3. CASE \E r \in ReservationIds : \/ MarkTunnelEstablished(r) \/ Release(r)
                                      \/ TakeNativeProbeStart(r)
    BY <2>3 DEF MarkTunnelEstablished, Release, TakeNativeProbeStart
  <2>4. CASE PurgeExpired
    BY <2>4, PurgeKeeps DEF PurgeExpired
  <2>5. CASE Available \/ Restart \/ Tick
    BY <2>5 DEF Available, Restart, Tick
  <2> QED BY <2>1, <2>2, <2>3, <2>4, <2>5 DEF Next
<1>3. RelayInv /\ [Next]_vars => [Spends]_vars
  BY <1>2
<1> QED BY <1>3, RelayInvHolds, PTL DEF Spec, AuthorizationSpentOnce
===============================================================================
