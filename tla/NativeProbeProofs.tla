--------------------------- MODULE NativeProbeProofs ---------------------------
(***************************************************************************)
(* The exit's native probes for every set of requests and peers, every     *)
(* limit and every bound.                                                  *)
(***************************************************************************)
EXTENDS NativeProbe, TLAPS

ClockInv == now \in Nat /\ boot \in Nat

\* A Start inherits the expiry of the readiness it answers.
StartInv ==
  /\ \A p \in permits : p.exp \in Nat
  /\ \A r \in readied : r.exp \in Nat
  /\ \A s \in starts : s.ready \in readied /\ s.exp \in Nat
  /\ \A a \in auths : a.start \in starts

\* Capacity ends, in whole seconds, with the Start it was taken for, and the
\* authorization of that Start is cached and not retired.
OwnedInv ==
  \A b \in DOMAIN ledger.grants :
    \E a \in auths :
      /\ ProbeOf(a.start) = b /\ ~a.retired
      /\ ledger.grants[b].expires = Secs(a.start.exp)

CapacityInv == ClockInv /\ StartInv /\ OwnedInv

-------------------------------------------------------------------------------
(* Time and the ledger. *)

\* Milliseconds turned into seconds keep their order.
LEMMA SecsMonotonic ==
  ASSUME NEW x \in Nat, NEW y \in Nat, x <= y
  PROVE  Secs(x) <= Secs(y) /\ Secs(x) \in Nat
<1> DEFINE m == MsPerSecond  q == x \div MsPerSecond  p == y \div MsPerSecond
<1>1. m \in Nat /\ m > 0
  BY ProbeAssumption
<1>2. q \in Nat /\ p \in Nat /\ m * q <= x /\ y < m * p + m
  BY <1>1
<1> HIDE DEF m, q, p
<1>3. ASSUME q > p PROVE FALSE
  <2>1. m * q >= m * (p + 1)
    BY <1>1, <1>2, <1>3
  <2>2. m * (p + 1) = m * p + m
    BY <1>1, <1>2
  <2>3. m * q \in Nat /\ m * p \in Nat
    BY <1>1, <1>2
  <2> QED BY <1>1, <1>2, <2>1, <2>2, <2>3
<1> QED BY <1>2, <1>3 DEF Secs, q, p

\* What purge_expired leaves in the ledger.
LEMMA PurgedGrants ==
  /\ DOMAIN PurgedLedger.grants = DOMAIN ledger.grants \ Expired
  /\ \A b \in DOMAIN PurgedLedger.grants : PurgedLedger.grants[b] = ledger.grants[b]
BY DEF PurgedLedger, LedgerPurged, LedgerWithout, Expired

\* What purge_expired leaves in the ledger keeps its authorization.
LEMMA PurgeKeepsOwner ==
  ASSUME CapacityInv, NEW b \in DOMAIN PurgedLedger.grants
  PROVE  \E a \in PurgedAuths :
           /\ ProbeOf(a.start) = b /\ ~a.retired
           /\ PurgedLedger.grants[b].expires = Secs(a.start.exp)
<1>1. b \in DOMAIN ledger.grants \ Expired /\ PurgedLedger.grants[b] = ledger.grants[b]
  BY PurgedGrants
<1>2. PICK a \in auths : /\ ProbeOf(a.start) = b /\ ~a.retired
                         /\ ledger.grants[b].expires = Secs(a.start.exp)
  BY <1>1 DEF CapacityInv, OwnedInv
<1>3. ~(ledger.grants[b].expires <= Secs(now))
  BY <1>1 DEF Expired, LedgerExpired, GrantExpired
<1>4. a.start.exp \in Nat /\ now \in Nat
  BY DEF CapacityInv, StartInv, ClockInv
<1>5. a.start.exp > now
  BY <1>2, <1>3, <1>4, SecsMonotonic
<1> QED BY <1>1, <1>2, <1>5 DEF PurgedAuths

-------------------------------------------------------------------------------
(* One lemma per group of steps that treat the ledger alike. *)

\* A phase ends at a time.
LEMMA EarlierNat ==
  ASSUME NEW parent \in Nat, now \in Nat
  PROVE  PhaseExpiry(parent) \in Nat
BY ProbeAssumption DEF PhaseExpiry, Earlier

\* A step that leaves ledger and authorizations alone.
LEMMA LedgerUntouched ==
  ASSUME CapacityInv, UNCHANGED <<ledger, auths>>, ClockInv', StartInv'
  PROVE  CapacityInv'
BY DEF CapacityInv, OwnedInv

\* Permit: CapacityInv is kept.
LEMMA PermitStep ==
  ASSUME CapacityInv, NEW q \in PermitRequests, NEW via, IssuePermit(q, via)
  PROVE  CapacityInv'
<1>1. PhaseExpiry(q.exp) \in Nat
  BY EarlierNat, ProbeAssumption DEF CapacityInv, ClockInv, PermitRequest
<1>2. ClockInv' /\ StartInv'
  BY <1>1 DEF CapacityInv, ClockInv, StartInv, IssuePermit, LivePermits
<1> QED BY <1>2, LedgerUntouched DEF IssuePermit

\* Ready: CapacityInv is kept.
LEMMA ReadyStep ==
  ASSUME CapacityInv, NEW p \in permits, NEW via, IssueReady(p, via) \/ ReadyFails(p, via)
  PROVE  CapacityInv'
<1>1. ReadyOf(p).exp \in Nat
  BY EarlierNat DEF CapacityInv, ClockInv, StartInv, ReadyOf
<1>2. permits' \subseteq permits /\ readied' \subseteq readied \cup {ReadyOf(p)}
  BY DEF IssueReady, ReadyFails, ConsumePermit, LivePermits
<1>3. readied \subseteq readied' /\ UNCHANGED <<now, boot, ledger, auths, starts>>
  BY DEF IssueReady, ReadyFails
<1>4. ClockInv' /\ StartInv'
  BY <1>1, <1>2, <1>3 DEF CapacityInv, ClockInv, StartInv
<1> QED BY <1>3, <1>4, LedgerUntouched

\* Client: CapacityInv is kept.
LEMMA ClientStep ==
  ASSUME CapacityInv, NEW r \in readied, ClientStart(r)
  PROVE  CapacityInv'
<1>1. ClockInv' /\ StartInv'
  BY DEF CapacityInv, ClockInv, StartInv, ClientStart
<1> QED BY <1>1, LedgerUntouched DEF ClientStart

\* Authorization: CapacityInv is kept.
LEMMA AuthorizationStep ==
  ASSUME CapacityInv, NEW s \in starts, NEW via, IssueRelayAuthorization(s, via)
  PROVE  CapacityInv'
<1> USE DEF IssueRelayAuthorization
<1>1. ClockInv' /\ StartInv'
  BY DEF CapacityInv, ClockInv, StartInv, LivePermits, PurgedAuths
<1>2. /\ DOMAIN ledger'.grants = DOMAIN PurgedLedger.grants \cup {ProbeOf(s)}
      /\ ledger'.grants[ProbeOf(s)].expires = Secs(s.exp)
      /\ \A b \in DOMAIN PurgedLedger.grants : ledger'.grants[b] = PurgedLedger.grants[b]
  BY DEF LedgerAdmit, LedgerAdmits, LedgerRequest, GrantOf
<1>3. OwnedInv'
  <2> SUFFICES ASSUME NEW b \in DOMAIN ledger'.grants
               PROVE  \E a \in auths' : /\ ProbeOf(a.start) = b /\ ~a.retired
                                        /\ ledger'.grants[b].expires = Secs(a.start.exp)
    BY DEF OwnedInv, ProbeOf, Secs
  <2>1. CASE b \in DOMAIN PurgedLedger.grants
    BY <1>2, <2>1, PurgeKeepsOwner
  <2>2. CASE b = ProbeOf(s)
    <3>1. [start |-> s, retired |-> FALSE] \in auths'
      OBVIOUS
    <3> QED BY <1>2, <2>2, <3>1
  <2> QED BY <1>2, <2>1, <2>2
<1> QED BY <1>1, <1>3 DEF CapacityInv

\* Result: CapacityInv is kept.
LEMMA ResultStep ==
  ASSUME CapacityInv, NEW b \in ReservationIds, NEW via, IssueResult(b, via)
  PROVE  CapacityInv'
<1> USE DEF IssueResult
<1>1. PICK a \in auths : ProbeOf(a.start) = b /\ auths' = RetireAuth(a)
  OBVIOUS
<1>2. ClockInv' /\ StartInv'
  BY <1>1 DEF CapacityInv, ClockInv, StartInv, RetireAuth, WithoutReady
<1>3. /\ DOMAIN ledger'.grants = DOMAIN ledger.grants \ {b}
      /\ \A x \in DOMAIN ledger'.grants : ledger'.grants[x] = ledger.grants[x]
  BY DEF LedgerWithout
<1>4. OwnedInv'
  <2> SUFFICES ASSUME NEW x \in DOMAIN ledger'.grants
               PROVE  \E e \in auths' : /\ ProbeOf(e.start) = x /\ ~e.retired
                                        /\ ledger'.grants[x].expires = Secs(e.start.exp)
    BY DEF OwnedInv, ProbeOf, Secs
  <2>1. PICK e \in auths : /\ ProbeOf(e.start) = x /\ ~e.retired
                           /\ ledger.grants[x].expires = Secs(e.start.exp)
    BY <1>3 DEF CapacityInv, OwnedInv
  <2>2. e \in auths'
    BY <1>1, <1>3, <2>1 DEF RetireAuth
  <2> QED BY <1>3, <2>1, <2>2
<1> QED BY <1>2, <1>4 DEF CapacityInv

\* Purge: CapacityInv is kept.
LEMMA PurgeStep ==
  ASSUME CapacityInv, PurgeExpired \/ Available
  PROVE  CapacityInv'
<1>1. ClockInv' /\ StartInv'
  BY DEF CapacityInv, ClockInv, StartInv, PurgeExpired, Available, LivePermits, LiveReadies,
         PurgedAuths
<1>2. ledger' = PurgedLedger /\ PurgedAuths \subseteq auths' 
  BY DEF PurgeExpired, Available, PurgedAuths
<1>3. OwnedInv'
  <2> SUFFICES ASSUME NEW b \in DOMAIN ledger'.grants
               PROVE  \E a \in auths' : /\ ProbeOf(a.start) = b /\ ~a.retired
                                        /\ ledger'.grants[b].expires = Secs(a.start.exp)
    BY DEF OwnedInv, ProbeOf, Secs
  <2> QED BY <1>2, PurgeKeepsOwner
<1> QED BY <1>1, <1>3 DEF CapacityInv

\* The invariant holds in every reachable state.
LEMMA CapacityInvHolds == Spec => []CapacityInv
<1>1. Init => CapacityInv
  BY DEF Init, CapacityInv, ClockInv, StartInv, OwnedInv, EmptyLedger
<1>2. CapacityInv /\ [Next]_vars => CapacityInv'
  <2> SUFFICES ASSUME CapacityInv, [Next]_vars PROVE CapacityInv'
    OBVIOUS
  <2>1. CASE \E via \in Peers, q \in PermitRequests : IssuePermit(q, via)
    BY <2>1, PermitStep
  <2>2. CASE \E via \in Peers, p \in permits : IssueReady(p, via) \/ ReadyFails(p, via)
    BY <2>2, ReadyStep
  <2>3. CASE \E via \in Peers, s \in starts : IssueRelayAuthorization(s, via)
    BY <2>3, AuthorizationStep
  <2>4. CASE \E via \in Peers, b \in ReservationIds : IssueResult(b, via)
    BY <2>4, ResultStep
  <2>5. CASE \E r \in readied : ClientStart(r)
    BY <2>5, ClientStep
  <2>6. CASE PurgePermits \/ (\E b \in ReservationIds : ResultFails(b)) \/ Tick \/ UNCHANGED vars
    <3>1. /\ permits' \subseteq permits /\ now' \in {now, now + 1}
          /\ UNCHANGED <<boot, ledger, auths, starts, readied>>
      BY <2>6 DEF PurgePermits, ResultFails, Tick, vars, LivePermits
    <3>2. ClockInv' /\ StartInv'
      BY <3>1 DEF CapacityInv, ClockInv, StartInv
    <3> QED BY <3>1, <3>2, LedgerUntouched
  <2>7. CASE PurgeExpired \/ Available
    BY <2>7, PurgeStep
  <2>8. CASE Restart
    BY <2>8 DEF Restart, CapacityInv, ClockInv, StartInv, OwnedInv, EmptyLedger
  <2> QED BY <2>1, <2>2, <2>3, <2>4, <2>5, <2>6, <2>7, <2>8 DEF Next
<1> QED BY <1>1, <1>2, PTL DEF Spec

\* Capacity a probe holds can always be given back by its Result: purge_expired
\* drops the cached authorization no earlier than the allocation, although one is
\* compared in milliseconds and the other in whole seconds.
THEOREM ProbeCapacityIsOwned == Spec => []ProbeCapacityOwned
<1>1. CapacityInv => ProbeCapacityOwned
  BY DEF CapacityInv, OwnedInv, ProbeCapacityOwned
<1> QED BY <1>1, CapacityInvHolds, PTL
-------------------------------------------------------------------------------
(***************************************************************************)
(* A completed Start is reopened by a reused probe id only.  Whatever      *)
(* capacity a probe has is owned by a cached authorization of this boot,   *)
(* so with one Start under the id, completed, nothing can be allocated     *)
(* under it; then no expiry reported by the ledger names it, and its       *)
(* retired entry stays in the cache until the Start itself is dead.        *)
(***************************************************************************)
Alone(s) ==
  \A x \in starts : ProbeOf(x) = ProbeOf(s) /\ x.ready.permit.boot = boot => x = s

\* A permit names the boot that issued it, and a new boot starts with empty caches.
BootInv ==
  /\ \A p \in permits : p.boot = boot
  /\ \A r \in readied : r.permit.boot \in Nat /\ r.permit.boot <= boot
  /\ \A a \in auths : a.start.ready.permit.boot = boot

\* A completed Start of this boot, alone under its id, holds nothing and is cached.
DoneInv ==
  \A s \in done :
    /\ s \in starts
    /\ s.ready.permit.boot = boot /\ Alone(s) =>
         /\ ProbeOf(s) \notin DOMAIN ledger.grants
         /\ s.exp <= now \/ \E a \in auths : a.start = s

RetiredInv == CapacityInv /\ BootInv /\ DoneInv

\* What a completed Start leaves survives the purge.
LEMMA PurgeKeepsDone ==
  ASSUME RetiredInv, NEW s \in done, s.ready.permit.boot = boot, Alone(s)
  PROVE  s.exp <= now \/ \E a \in PurgedAuths : a.start = s
<1>1. ProbeOf(s) \notin Expired
  BY DEF RetiredInv, DoneInv, Expired, LedgerExpired
<1>2. s.exp \in Nat /\ now \in Nat
  BY DEF RetiredInv, CapacityInv, StartInv, ClockInv, DoneInv
<1> QED BY <1>1, <1>2 DEF RetiredInv, DoneInv, PurgedAuths

\* A step that authorizes and completes nothing.
LEMMA QuietStep ==
  ASSUME RetiredInv, CapacityInv', BootInv', UNCHANGED <<boot, done>>, starts \subseteq starts',
         now' \in {now, now + 1},
         DOMAIN ledger'.grants \subseteq DOMAIN ledger.grants,
         \A s \in done : s.ready.permit.boot = boot /\ Alone(s) =>
           (s.exp <= now \/ \E a \in auths' : a.start = s)
  PROVE  RetiredInv'
<1>1. now \in Nat /\ \A s \in done : s.exp \in Nat
  BY DEF RetiredInv, DoneInv, CapacityInv, StartInv, ClockInv
<1>2. \A s \in done : Alone(s)' => Alone(s)
  BY DEF Alone, ProbeOf
<1>3. DoneInv'
  BY <1>1, <1>2 DEF RetiredInv, DoneInv, ProbeOf
<1> QED BY <1>3 DEF RetiredInv

\* A Start that is authorized shares its id with no completed Start that is alone.
LEMMA AuthorizedIsNew ==
  ASSUME RetiredInv, NEW s \in starts, NEW via, IssueRelayAuthorization(s, via),
         NEW x \in done, x.ready.permit.boot = boot, Alone(x)
  PROVE  ProbeOf(x) # ProbeOf(s)
<1>1. s.ready.permit.boot = boot
  BY DEF IssueRelayAuthorization
<1>2. ASSUME ProbeOf(x) = ProbeOf(s) PROVE FALSE
  <2>1. x = s
    BY <1>1, <1>2 DEF Alone
  <2>2. ~(s.exp <= now)
    BY DEF IssueRelayAuthorization, InWindow, RetiredInv, CapacityInv, StartInv, ClockInv
  <2> QED BY <2>1, <2>2, PurgeKeepsDone DEF IssueRelayAuthorization
<1> QED BY <1>2

\* Authorization: RetiredInv is kept.
LEMMA AuthorizationRetired ==
  ASSUME RetiredInv, CapacityInv', NEW s \in starts, NEW via, IssueRelayAuthorization(s, via)
  PROVE  RetiredInv'
<1> USE DEF IssueRelayAuthorization
<1>1. DOMAIN ledger'.grants = (DOMAIN ledger.grants \ Expired) \cup {ProbeOf(s)}
  BY PurgedGrants DEF LedgerAdmit, LedgerRequest
<1>2. BootInv'
  BY DEF RetiredInv, BootInv, LivePermits, PurgedAuths
<1>3. DoneInv'
  <2> SUFFICES ASSUME NEW x \in done
               PROVE  /\ x \in starts
                      /\ x.ready.permit.boot = boot /\ Alone(x) =>
                           /\ ProbeOf(x) \notin DOMAIN ledger'.grants
                           /\ x.exp <= now \/ \E a \in auths' : a.start = x
    BY DEF DoneInv, Alone, ProbeOf
  <2> QED BY <1>1, AuthorizedIsNew, PurgeKeepsDone DEF RetiredInv, DoneInv
<1> QED BY <1>2, <1>3 DEF RetiredInv

\* Result: RetiredInv is kept.
LEMMA ResultRetired ==
  ASSUME RetiredInv, CapacityInv', NEW b \in ReservationIds, NEW via, IssueResult(b, via)
  PROVE  RetiredInv'
<1> USE DEF IssueResult
<1>1. PICK a \in auths : /\ ProbeOf(a.start) = b /\ auths' = RetireAuth(a)
                         /\ done' = done \cup {a.start}
  OBVIOUS
<1>2. DOMAIN ledger'.grants = DOMAIN ledger.grants \ {b}
  BY DEF LedgerWithout
<1>3. BootInv'
  BY <1>1 DEF RetiredInv, BootInv, RetireAuth
<1>4. \A x \in auths : \E y \in auths' : y.start = x.start
  <2>1. [start |-> a.start, retired |-> TRUE] \in auths' /\ auths \ {a} \subseteq auths'
    BY <1>1 DEF RetireAuth
  <2> QED BY <2>1
<1>5. DoneInv'
  <2> SUFFICES ASSUME NEW s \in done'
               PROVE  /\ s \in starts
                      /\ s.ready.permit.boot = boot /\ Alone(s) =>
                           /\ ProbeOf(s) \notin DOMAIN ledger'.grants
                           /\ s.exp <= now \/ \E x \in auths' : x.start = s
    BY DEF DoneInv, Alone, ProbeOf
  <2>1. CASE s \in done
    <3>1. /\ s \in starts
          /\ s.ready.permit.boot = boot /\ Alone(s) =>
               /\ ProbeOf(s) \notin DOMAIN ledger.grants
               /\ s.exp <= now \/ \E x \in auths : x.start = s
      BY <2>1 DEF RetiredInv, DoneInv
    <3> HIDE DEF IssueResult
    <3> QED BY <1>2, <1>4, <3>1
  <2>2. CASE s = a.start
    BY <1>1, <1>2, <1>4, <2>2 DEF RetiredInv, CapacityInv, StartInv
  <2> QED BY <1>1, <2>1, <2>2
<1> QED BY <1>3, <1>5 DEF RetiredInv

\* Every step keeps the invariant.
LEMMA RetiredInvInductive ==
  ASSUME RetiredInv, CapacityInv', [Next]_vars
  PROVE  RetiredInv'
<1>1. CASE \E via \in Peers, q \in PermitRequests : IssuePermit(q, via)
  <2>1. PICK via \in Peers, q \in PermitRequests : IssuePermit(q, via)
    BY <1>1
  <2>2. BootInv'
    BY <2>1 DEF IssuePermit, RetiredInv, BootInv, LivePermits
  <2> QED BY <2>1, <2>2, QuietStep DEF IssuePermit, RetiredInv, DoneInv
<1>2. CASE \E via \in Peers, p \in permits : IssueReady(p, via) \/ ReadyFails(p, via)
  <2>1. PICK via \in Peers, p \in permits : IssueReady(p, via) \/ ReadyFails(p, via)
    BY <1>2
  <2>2. /\ permits' \subseteq permits /\ readied' \subseteq readied \cup {ReadyOf(p)}
        /\ ReadyOf(p).permit = p /\ UNCHANGED <<now, boot, ledger, auths, starts, done>>
    BY <2>1 DEF IssueReady, ReadyFails, ConsumePermit, LivePermits, ReadyOf
  <2>3. BootInv'
    BY <2>2 DEF RetiredInv, CapacityInv, ClockInv, BootInv
  <2> QED BY <2>2, <2>3, QuietStep DEF RetiredInv, DoneInv
<1>3. CASE \E via \in Peers, s \in starts : IssueRelayAuthorization(s, via)
  BY <1>3, AuthorizationRetired
<1>4. CASE \E via \in Peers, b \in ReservationIds : IssueResult(b, via)
  BY <1>4, ResultRetired
<1>5. CASE \E r \in readied : ClientStart(r)
  <2>1. /\ starts \subseteq starts'
        /\ UNCHANGED <<now, boot, ledger, permits, auths, readied, done>>
    BY <1>5 DEF ClientStart
  <2>2. BootInv'
    BY <2>1 DEF RetiredInv, BootInv
  <2> QED BY <2>1, <2>2, QuietStep DEF RetiredInv, DoneInv
<1>6. CASE PurgePermits \/ (\E b \in ReservationIds : ResultFails(b)) \/ Tick \/ UNCHANGED vars
  <2>1. /\ UNCHANGED <<boot, readied, starts, done, auths, ledger>>
        /\ now' \in {now, now + 1} /\ permits' \subseteq permits
    BY <1>6 DEF PurgePermits, ResultFails, Tick, vars, LivePermits
  <2>2. BootInv'
    BY <2>1 DEF RetiredInv, BootInv
  <2> QED BY <2>1, <2>2, QuietStep DEF RetiredInv, DoneInv
<1>7. CASE PurgeExpired \/ Available
  <2>1. /\ UNCHANGED <<boot, now, readied, starts, done>>
        /\ permits' \subseteq permits /\ ledger' = PurgedLedger
        /\ PurgedAuths \subseteq auths' /\ auths' \subseteq auths
    BY <1>7 DEF PurgeExpired, Available, LivePermits, PurgedAuths
  <2>2. BootInv'
    BY <2>1 DEF RetiredInv, BootInv
  <2> QED BY <2>1, <2>2, QuietStep, PurgeKeepsDone, PurgedGrants
<1>8. CASE Restart
  <2>1. \A r \in readied : r.permit.boot # boot' /\ r.permit.boot \in Nat /\ r.permit.boot <= boot'
    BY <1>8 DEF Restart, RetiredInv, BootInv, CapacityInv, ClockInv
  <2>2. BootInv'
    BY <1>8, <2>1 DEF Restart, BootInv
  <2>3. DoneInv'
    BY <1>8, <2>1 DEF Restart, RetiredInv, DoneInv, CapacityInv, StartInv
  <2> QED BY <2>2, <2>3 DEF RetiredInv
<1> QED BY <1>1, <1>2, <1>3, <1>4, <1>5, <1>6, <1>7, <1>8 DEF Next

\* A Start whose probe has its terminal Result is authorized again only where this
\* boot has seen another Start under the same probe id: not by a retry, not after a
\* restart, and not once purge_expired has run (the retired flag of the authorization
\* cache), whatever ids the clients draw.
THEOREM ProbeOnlyReuseReopens == Spec => OnlyReuseReopens
<1> DEFINE Reopens(a) == \E s \in starts : /\ s # a.start /\ ProbeOf(s) = ProbeOf(a.start)
                                           /\ s.ready.permit.boot = boot
<1>1. Init => RetiredInv
  BY DEF Init, RetiredInv, CapacityInv, ClockInv, StartInv, OwnedInv, EmptyLedger, BootInv,
         DoneInv
<1>2. RetiredInv /\ CapacityInv' /\ [Next]_vars => RetiredInv'
  BY RetiredInvInductive
<1>3. RetiredInv /\ [Next]_vars =>
        [\A a \in signed' \ signed : a.start \in done => Reopens(a)]_vars
  <2> SUFFICES ASSUME RetiredInv, Next, NEW a \in signed' \ signed, a.start \in done
               PROVE  Reopens(a)
    BY DEF vars
  <2>1. PICK via \in Peers, s \in starts : IssueRelayAuthorization(s, via) /\ a = AuthorizationOf(s)
    BY DEF Next, IssuePermit, IssueReady, ReadyFails, ClientStart, IssueRelayAuthorization,
           IssueResult, ResultFails, PurgePermits, PurgeExpired, Available, Restart, Tick
  <2>2. a.start = s /\ s.ready.permit.boot = boot
    BY <2>1 DEF AuthorizationOf, IssueRelayAuthorization
  <2>3. ~Alone(s)
    BY <2>1, <2>2, AuthorizedIsNew
  <2> QED BY <2>2, <2>3 DEF Alone
<1> QED BY <1>1, <1>2, <1>3, CapacityInvHolds, PTL DEF Spec, OnlyReuseReopens
===============================================================================
