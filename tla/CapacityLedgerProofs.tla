------------------------- MODULE CapacityLedgerProofs -------------------------
(***************************************************************************)
(* What holds of the ledger for every limit, every set of requests and     *)
(* every clock bound.                                                      *)
(***************************************************************************)
EXTENDS CapacityLedger, TotalsProofs

\* What the proofs below carry from state to state.
WellFormed(L) ==
  /\ IsFiniteSet(DOMAIN L.grants)
  /\ DOMAIN L.grants \subseteq ReservationIds
  /\ L.grants \in [DOMAIN L.grants -> Grants]

LedgerInv == WellFormed(ledger) /\ SlotsBounded /\ now \in 0..MaxTime

(***************************************************************************)
(* Removing grants (release, and every purge) leaves the others as they    *)
(* are and never takes more slots.                                         *)
(***************************************************************************)
LEMMA WithoutGrants ==
  ASSUME NEW L, NEW ids, WellFormed(L)
  PROVE  /\ DOMAIN LedgerWithout(L, ids).grants = DOMAIN L.grants \ ids
         /\ \A id \in DOMAIN L.grants \ ids :
              LedgerWithout(L, ids).grants[id] = L.grants[id]
         /\ WellFormed(LedgerWithout(L, ids))
         /\ Cardinality(DOMAIN LedgerWithout(L, ids).grants)
              <= Cardinality(DOMAIN L.grants)
<1> DEFINE M == LedgerWithout(L, ids)
<1>1. /\ DOMAIN M.grants = DOMAIN L.grants \ ids
      /\ \A id \in DOMAIN L.grants \ ids : M.grants[id] = L.grants[id]
      /\ M.grants = [id \in DOMAIN L.grants \ ids |-> L.grants[id]]
  BY DEF LedgerWithout
<1>2. IsFiniteSet(DOMAIN M.grants) /\ Cardinality(DOMAIN M.grants) <= Cardinality(DOMAIN L.grants)
  BY <1>1, FS_Subset DEF WellFormed
<1>3. WellFormed(M)
  BY <1>1, <1>2 DEF WellFormed
<1> QED BY <1>1, <1>2, <1>3

(***************************************************************************)
(* Admission adds exactly the requested grant and needs a free slot.       *)
(***************************************************************************)
LEMMA AdmitGrants ==
  ASSUME NEW L, NEW req \in Requests, NEW t \in Nat, WellFormed(L), LedgerAdmits(L, req, t)
  PROVE  /\ DOMAIN LedgerAdmit(L, req, t).grants = DOMAIN L.grants \cup {req.id}
         /\ \A id \in DOMAIN L.grants : LedgerAdmit(L, req, t).grants[id] = L.grants[id]
         /\ WellFormed(LedgerAdmit(L, req, t))
         /\ Cardinality(DOMAIN LedgerAdmit(L, req, t).grants) <= MaxSessions
<1> DEFINE M == LedgerAdmit(L, req, t)
<1>1. /\ DOMAIN M.grants = DOMAIN L.grants \cup {req.id}
      /\ M.grants = [id \in DOMAIN L.grants \cup {req.id} |->
                       IF id = req.id THEN GrantOf(req, t) ELSE L.grants[id]]
  BY DEF LedgerAdmit
<1>2. req.id \notin DOMAIN L.grants /\ Cardinality(DOMAIN L.grants) < MaxSessions
  BY DEF LedgerAdmits
<1>3. /\ IsFiniteSet(DOMAIN M.grants)
      /\ Cardinality(DOMAIN M.grants) = Cardinality(DOMAIN L.grants) + 1
  BY <1>1, <1>2, FS_AddElement DEF WellFormed
<1>4. Cardinality(DOMAIN L.grants) \in Nat
  BY FS_CardinalityType DEF WellFormed
<1>5. Cardinality(DOMAIN M.grants) <= MaxSessions
  BY <1>2, <1>3, <1>4, LimitsAssumption
<1>6. GrantOf(req, t) \in Grants
  BY LimitsAssumption DEF GrantOf, Grants, Requests, AllocationState
<1>7. req.id \in ReservationIds
  BY DEF Requests
<1>8. WellFormed(M)
  BY <1>1, <1>3, <1>6, <1>7 DEF WellFormed
<1> QED BY <1>1, <1>2, <1>5, <1>8

(***************************************************************************)
(* Establishing a tunnel changes nothing but the state of its own grant.   *)
(***************************************************************************)
LEMMA EstablishedGrants ==
  ASSUME NEW L, NEW id \in DOMAIN L.grants, WellFormed(L)
  PROVE  /\ DOMAIN LedgerEstablished(L, id).grants = DOMAIN L.grants
         /\ \A i \in DOMAIN L.grants \ {id} : LedgerEstablished(L, id).grants[i] = L.grants[i]
         /\ L.grants[id].state = "Active" => LedgerEstablished(L, id).grants[id] = L.grants[id]
         /\ WellFormed(LedgerEstablished(L, id))
BY DEF LedgerEstablished, WellFormed, Grants, AllocationState

\* Every step keeps the invariant.
LEMMA LedgerInvInductive == LedgerInv /\ [Next]_vars => LedgerInv'
<1> SUFFICES ASSUME LedgerInv, [Next]_vars PROVE LedgerInv'
  OBVIOUS
<1> USE DEF LedgerInv, SlotsBounded
<1> DEFINE P == LedgerPurged(ledger, now)
<1>1. /\ WellFormed(P) /\ now \in Nat /\ Cardinality(DOMAIN P.grants) <= MaxSessions
  <2>1. /\ WellFormed(P)
        /\ Cardinality(DOMAIN P.grants) <= Cardinality(DOMAIN ledger.grants)
    BY WithoutGrants DEF LedgerPurged
  <2>2. Cardinality(DOMAIN P.grants) \in Nat /\ Cardinality(DOMAIN ledger.grants) \in Nat
    BY <2>1, FS_CardinalityType DEF WellFormed
  <2> QED BY <2>1, <2>2, LimitsAssumption, SubmittedAssumption
<1>2. ASSUME NEW req \in Submitted, Reserve(req) PROVE LedgerInv'
  BY <1>1, <1>2, AdmitGrants, SubmittedAssumption DEF Reserve
<1>3. ASSUME NEW id \in ReservationIds, MarkTunnelEstablished(id) PROVE LedgerInv'
  BY <1>1, <1>3, EstablishedGrants DEF MarkTunnelEstablished
<1>4. ASSUME NEW id \in ReservationIds, Release(id) PROVE LedgerInv'
  <2>1. /\ WellFormed(ledger')
        /\ Cardinality(DOMAIN ledger'.grants) <= Cardinality(DOMAIN ledger.grants)
    BY <1>4, WithoutGrants DEF Release
  <2>2. Cardinality(DOMAIN ledger'.grants) \in Nat /\ Cardinality(DOMAIN ledger.grants) \in Nat
    BY <2>1, FS_CardinalityType DEF WellFormed
  <2> QED BY <1>4, <2>1, <2>2, LimitsAssumption DEF Release
<1>5. CASE PurgeExpired \/ Available
  BY <1>1, <1>5 DEF PurgeExpired, Available
<1>6. CASE Tick
  BY <1>6, SubmittedAssumption DEF Tick, WellFormed
<1>7. CASE UNCHANGED vars
  BY <1>7 DEF vars, WellFormed
<1> QED BY <1>2, <1>3, <1>4, <1>5, <1>6, <1>7 DEF Next

\* The invariant holds initially.
LEMMA LedgerInitial == Init => LedgerInv
<1> SUFFICES ASSUME Init PROVE LedgerInv
  OBVIOUS
<1>1. ledger.grants = << >> /\ DOMAIN ledger.grants = {} /\ now = 0
  BY DEF Init, EmptyLedger
<1>2. IsFiniteSet({}) /\ Cardinality({}) = 0
  BY FS_EmptySet
<1>3. << >> \in [{} -> Grants]
  OBVIOUS
<1>4. WellFormed(ledger)
  BY <1>1, <1>2, <1>3 DEF WellFormed
<1>5. SlotsBounded
  BY <1>1, <1>2, LimitsAssumption DEF SlotsBounded
<1> QED BY <1>1, <1>4, <1>5, SubmittedAssumption DEF LedgerInv

\* The invariant holds in every reachable state.
LEMMA LedgerInvHolds == Spec => []LedgerInv
BY LedgerInitial, LedgerInvInductive, PTL DEF Spec

-------------------------------------------------------------------------------
(* The running counters.                                                   *)

\* Each counter is the total over the grants, and within its limit.
Counted(L) ==
  /\ L.up = UpOf(L, DOMAIN L.grants) /\ L.up \in 0..UpLimit
  /\ L.down = DownOf(L, DOMAIN L.grants) /\ L.down \in 0..DownLimit

CountersInv ==
  /\ LedgerInv
  /\ Counted(ledger)
  /\ advertised.up \in 0..UpLimit /\ advertised.down \in 0..DownLimit

(***************************************************************************)
(* A total over some grants of a ledger depends on their bandwidth alone,  *)
(* and totals over parts add up.                                           *)
(***************************************************************************)
LEMMA PartsOfLedger ==
  ASSUME NEW L, WellFormed(L), NEW ids \in SUBSET DOMAIN L.grants
  PROVE  /\ UpOf(L, ids) \in Nat /\ DownOf(L, ids) \in Nat
         /\ UpOf(L, DOMAIN L.grants \ ids) \in Nat /\ DownOf(L, DOMAIN L.grants \ ids) \in Nat
         /\ UpOf(L, DOMAIN L.grants) = UpOf(L, ids) + UpOf(L, DOMAIN L.grants \ ids)
         /\ DownOf(L, DOMAIN L.grants) = DownOf(L, ids) + DownOf(L, DOMAIN L.grants \ ids)
<1> DEFINE D == DOMAIN L.grants
           u == [id \in D |-> L.grants[id].up]
           d == [id \in D |-> L.grants[id].down]
<1>1. \A id \in D : u[id] \in Nat /\ d[id] \in Nat /\ u[id] \in Int /\ d[id] \in Int
  BY DEF WellFormed, Grants
<1>2. ASSUME NEW S \in SUBSET D
      PROVE  /\ UpOf(L, S) = Total(u, S) /\ DownOf(L, S) = Total(d, S)
             /\ Total(u, S) \in Nat /\ Total(d, S) \in Nat
  <2>1. IsFiniteSet(S)
    BY FS_Subset DEF WellFormed
  <2>2. \A x \in S : [id \in S |-> L.grants[id].up][x] = u[x]
    OBVIOUS
  <2>3. \A x \in S : [id \in S |-> L.grants[id].down][x] = d[x]
    OBVIOUS
  <2>4. \A x \in S : u[x] \in Nat /\ d[x] \in Nat
    BY <1>1
  <2>5. UpOf(L, S) = Total(u, S) /\ DownOf(L, S) = Total(d, S)
    BY <2>1, <2>2, <2>3, TotalSame DEF UpOf, DownOf
  <2> HIDE DEF u, d
  <2> QED BY <2>1, <2>4, <2>5, TotalNat
<1>3. Total(u, D) = Total(u, ids) + Total(u, D \ ids)
  <2> HIDE DEF u
  <2>1. \A x \in D : u[x] \in Int
    BY <1>1
  <2> QED BY <2>1, TotalSplit DEF WellFormed
<1>4. Total(d, D) = Total(d, ids) + Total(d, D \ ids)
  <2> HIDE DEF d
  <2>1. \A x \in D : d[x] \in Int
    BY <1>1
  <2> QED BY <2>1, TotalSplit DEF WellFormed
<1> HIDE DEF u, d
<1>5. ids \in SUBSET D /\ D \ ids \in SUBSET D /\ D \in SUBSET D
  OBVIOUS
<1> QED BY <1>2, <1>3, <1>4, <1>5

\* Removing grants takes exactly their bandwidth off the counters.
LEMMA WithoutCounted ==
  ASSUME NEW L, NEW ids \in SUBSET DOMAIN L.grants, WellFormed(L), Counted(L)
  PROVE  Counted(LedgerWithout(L, ids))
<1> DEFINE M == LedgerWithout(L, ids)
           R == DOMAIN L.grants \ ids
<1>1. /\ DOMAIN M.grants = R /\ M.up = L.up - UpOf(L, ids) /\ M.down = L.down - DownOf(L, ids)
      /\ \A id \in R : M.grants[id] = L.grants[id]
  BY DEF LedgerWithout
<1>2. UpOf(M, R) = UpOf(L, R) /\ DownOf(M, R) = DownOf(L, R)
  <2>1. /\ [id \in R |-> M.grants[id].up] = [id \in R |-> L.grants[id].up]
        /\ [id \in R |-> M.grants[id].down] = [id \in R |-> L.grants[id].down]
    BY <1>1
  <2> HIDE DEF M, R
  <2> QED BY <2>1 DEF UpOf, DownOf
<1>3. /\ UpOf(L, ids) \in Nat /\ DownOf(L, ids) \in Nat /\ UpOf(L, R) \in Nat /\ DownOf(L, R) \in Nat
      /\ L.up = UpOf(L, ids) + UpOf(L, R) /\ L.down = DownOf(L, ids) + DownOf(L, R)
  BY PartsOfLedger DEF Counted
<1>4. L.up \in 0..UpLimit /\ L.down \in 0..DownLimit
  BY DEF Counted
<1>5. M.up = UpOf(L, R) /\ M.down = DownOf(L, R)
  BY <1>1, <1>3
<1>6. M.up \in 0..UpLimit /\ M.down \in 0..DownLimit
  BY <1>3, <1>4, <1>5, LimitsAssumption
<1> HIDE DEF M, R
<1>7. M.up = UpOf(M, DOMAIN M.grants) /\ M.down = DownOf(M, DOMAIN M.grants)
  BY <1>1, <1>2, <1>5
<1>8. Counted(M)
  BY <1>6, <1>7 DEF Counted
<1> QED BY <1>8 DEF M

\* An admission adds exactly the bandwidth of its grant.
LEMMA AdmitCounted ==
  ASSUME NEW L, NEW req \in Requests, NEW t \in Nat, WellFormed(L), Counted(L),
         LedgerAdmits(L, req, t)
  PROVE  Counted(LedgerAdmit(L, req, t))
<1> DEFINE M == LedgerAdmit(L, req, t)
           D == DOMAIN L.grants
           i == req.id
<1>1. /\ DOMAIN M.grants = D \cup {i} /\ M.up = L.up + req.up /\ M.down = L.down + req.down
      /\ \A id \in D : M.grants[id] = L.grants[id]
      /\ M.grants[i].up = req.up /\ M.grants[i].down = req.down
      /\ i \notin D /\ WellFormed(M)
  <2>1. WellFormed(M) /\ DOMAIN M.grants = D \cup {i} /\ \A id \in D : M.grants[id] = L.grants[id]
    BY AdmitGrants
  <2>2. M.up = L.up + req.up /\ M.down = L.down + req.down /\ M.grants[i] = GrantOf(req, t)
    BY DEF LedgerAdmit
  <2>3. i \notin D
    BY DEF LedgerAdmits
  <2> QED BY <2>1, <2>2, <2>3 DEF GrantOf
<1>2. UpOf(M, D) = UpOf(L, D) /\ DownOf(M, D) = DownOf(L, D)
  <2>1. /\ [id \in D |-> M.grants[id].up] = [id \in D |-> L.grants[id].up]
        /\ [id \in D |-> M.grants[id].down] = [id \in D |-> L.grants[id].down]
    BY <1>1
  <2> HIDE DEF M, D
  <2> QED BY <2>1 DEF UpOf, DownOf
<1>3. UpOf(M, {i}) = req.up /\ DownOf(M, {i}) = req.down
  <2>1. IsFiniteSet({i}) /\ {i} \ {i} = {} /\ req.up \in Nat /\ req.down \in Nat
    BY FS_Singleton DEF Requests
  <2> DEFINE u == [id \in {i} |-> M.grants[id].up]
             d == [id \in {i} |-> M.grants[id].down]
  <2>2. u[i] = req.up /\ d[i] = req.down
    BY <1>1
  <2>3. UpOf(M, {i}) = Total(u, {i}) /\ DownOf(M, {i}) = Total(d, {i})
    BY DEF UpOf, DownOf
  <2> HIDE DEF u, d, i
  <2>4. Total(u, {i}) = u[i] + Total(u, {i} \ {i}) /\ Total(d, {i}) = d[i] + Total(d, {i} \ {i})
    BY <2>1, <2>2, TotalRemove
  <2>5. Total(u, {i} \ {i}) = 0 /\ Total(d, {i} \ {i}) = 0
    BY <2>1, TotalEmpty
  <2> QED BY <2>1, <2>2, <2>3, <2>4, <2>5
<1>4. /\ UpOf(M, D \cup {i}) = UpOf(M, {i}) + UpOf(M, D)
      /\ DownOf(M, D \cup {i}) = DownOf(M, {i}) + DownOf(M, D)
  <2>1. {i} \in SUBSET DOMAIN M.grants /\ DOMAIN M.grants \ {i} = D
    BY <1>1
  <2> HIDE DEF M, D, i
  <2> QED BY <1>1, <2>1, PartsOfLedger
<1>5. /\ L.up = UpOf(L, D) /\ L.up \in 0..UpLimit /\ L.down = DownOf(L, D) /\ L.down \in 0..DownLimit
      /\ L.up + req.up <= UpLimit /\ L.down + req.down <= DownLimit
      /\ req.up \in Nat /\ req.down \in Nat
  BY DEF Counted, LedgerAdmits, Requests
<1> HIDE DEF M, D, i
<1>6. M.up = UpOf(M, DOMAIN M.grants) /\ M.down = DownOf(M, DOMAIN M.grants)
  BY <1>1, <1>2, <1>3, <1>4, <1>5
<1>7. M.up \in 0..UpLimit /\ M.down \in 0..DownLimit
  BY <1>1, <1>5, LimitsAssumption
<1>8. Counted(M)
  BY <1>6, <1>7 DEF Counted
<1> QED BY <1>8 DEF M

\* Marking a tunnel established moves no bandwidth.
LEMMA EstablishedCounted ==
  ASSUME NEW L, NEW id \in DOMAIN L.grants, WellFormed(L), Counted(L)
  PROVE  Counted(LedgerEstablished(L, id))
<1> DEFINE M == LedgerEstablished(L, id)
           D == DOMAIN L.grants
<1>1. /\ DOMAIN M.grants = D /\ M.up = L.up /\ M.down = L.down
      /\ \A i \in D : M.grants[i].up = L.grants[i].up /\ M.grants[i].down = L.grants[i].down
  BY DEF LedgerEstablished, WellFormed, Grants
<1>2. UpOf(M, D) = UpOf(L, D) /\ DownOf(M, D) = DownOf(L, D)
  <2>1. /\ [i \in D |-> M.grants[i].up] = [i \in D |-> L.grants[i].up]
        /\ [i \in D |-> M.grants[i].down] = [i \in D |-> L.grants[i].down]
    BY <1>1
  <2> HIDE DEF M, D
  <2> QED BY <2>1 DEF UpOf, DownOf
<1> HIDE DEF M
<1>3. Counted(M)
  BY <1>1, <1>2 DEF Counted
<1> QED BY <1>3 DEF M

\* Every step keeps the invariant.
LEMMA CountersInvInductive == CountersInv /\ [Next]_vars => CountersInv'
<1> SUFFICES ASSUME CountersInv, [Next]_vars PROVE CountersInv'
  OBVIOUS
<1> DEFINE P == LedgerPurged(ledger, now)
<1>1. LedgerInv'
  BY LedgerInvInductive DEF CountersInv
<1>2. WellFormed(P) /\ Counted(P) /\ now \in Nat /\ WellFormed(ledger) /\ Counted(ledger)
  <2>1. LedgerExpired(ledger, now) \in SUBSET DOMAIN ledger.grants
    BY DEF LedgerExpired
  <2> QED BY <2>1, WithoutGrants, WithoutCounted, SubmittedAssumption
          DEF CountersInv, LedgerInv, LedgerPurged
<1> HIDE DEF P
<1> SUFFICES Counted(ledger')
             /\ (advertised.up \in 0..UpLimit /\ advertised.down \in 0..DownLimit)'
  BY <1>1 DEF CountersInv
<1>3. ASSUME NEW req \in Submitted, Reserve(req)
      PROVE  Counted(ledger') /\ advertised' = advertised
  BY <1>2, <1>3, AdmitCounted, SubmittedAssumption DEF Reserve, P
<1>4. ASSUME NEW id \in ReservationIds, MarkTunnelEstablished(id)
      PROVE  Counted(ledger') /\ advertised' = advertised
  BY <1>2, <1>4, EstablishedCounted DEF MarkTunnelEstablished, P
<1>5. ASSUME NEW id \in ReservationIds, Release(id)
      PROVE  Counted(ledger') /\ advertised' = advertised
  <2>1. {id} \in SUBSET DOMAIN ledger.grants
    BY <1>5 DEF Release
  <2> QED BY <1>2, <1>5, <2>1, WithoutCounted DEF Release
<1>6. CASE PurgeExpired
  BY <1>2, <1>6 DEF PurgeExpired, P, CountersInv
<1>7. CASE Available
  <2>1. ledger' = P /\ advertised' = FreeCapacity(P)
    BY <1>7 DEF Available, P
  <2>2. advertised'.up = UpLimit - P.up /\ advertised'.down = DownLimit - P.down
    BY <2>1 DEF FreeCapacity
  <2>3. P.up \in 0..UpLimit /\ P.down \in 0..DownLimit
    BY <1>2 DEF Counted
  <2> QED BY <1>2, <2>1, <2>2, <2>3, LimitsAssumption
<1>8. CASE Tick \/ UNCHANGED vars
  BY <1>2, <1>8 DEF Tick, vars, CountersInv
<1> QED BY <1>3, <1>4, <1>5, <1>6, <1>7, <1>8 DEF Next, CountersInv

(***************************************************************************)
(* After any sequence of reserve, establish, release and purge, each       *)
(* counter is exactly the bandwidth of the grants that are left, so        *)
(* subtract_bandwidth never underflows and available never advertises more *)
(* than the limit.                                                         *)
(***************************************************************************)
THEOREM LedgerCountersMatch == Spec => []CountersMatchGrants
<1>1. Init => CountersInv
  <2> SUFFICES ASSUME Init PROVE CountersInv
    OBVIOUS
  <2>1. LedgerInv
    BY LedgerInitial
  <2>2. ledger.up = 0 /\ ledger.down = 0 /\ DOMAIN ledger.grants = {}
    BY DEF Init, EmptyLedger
  <2>3. UpOf(ledger, {}) = 0 /\ DownOf(ledger, {}) = 0
    BY TotalEmpty DEF UpOf, DownOf
  <2>4. Counted(ledger)
    BY <2>2, <2>3, LimitsAssumption DEF Counted
  <2>5. advertised.up = UpLimit /\ advertised.down = DownLimit
    BY LimitsAssumption DEF Init, EmptyLedger, FreeCapacity
  <2> QED BY <2>1, <2>4, <2>5, LimitsAssumption DEF CountersInv
<1>2. CountersInv => CountersMatchGrants
  BY DEF CountersInv, Counted, CountersMatchGrants
<1> QED BY <1>1, <1>2, CountersInvInductive, PTL DEF Spec

-------------------------------------------------------------------------------
(***************************************************************************)
(* Every reachable ledger is well typed; in particular no setup deadline   *)
(* outlives the signed expiry of its reservation.                          *)
(***************************************************************************)
THEOREM LedgerTypeCorrect == Spec => []TypeOK
<1>1. LedgerInv => TypeOK
  BY DEF LedgerInv, WellFormed, TypeOK
<1> QED BY <1>1, LedgerInvHolds, PTL

(***************************************************************************)
(* The session ceiling holds for every limit and every request sequence.   *)
(***************************************************************************)
THEOREM LedgerSlotsBounded == Spec => []SlotsBounded
<1>1. LedgerInv => SlotsBounded
  BY DEF LedgerInv
<1> QED BY <1>1, LedgerInvHolds, PTL

(***************************************************************************)
(* An established tunnel keeps its capacity until hard expiry or release.  *)
(***************************************************************************)
THEOREM LedgerActiveKeepsCapacity == Spec => ActiveKeepsCapacity
<1> DEFINE Kept(id) == \/ /\ id \in DOMAIN ledger.grants'
                          /\ ledger.grants'[id] = ledger.grants[id]
                       \/ Release(id)
<1>1. ASSUME LedgerInv, [Next]_vars, NEW id \in DOMAIN ledger.grants,
             ledger.grants[id].state = "Active", ledger.grants[id].expires > now
      PROVE  Kept(id)
  <2> DEFINE P == LedgerPurged(ledger, now)
  <2>1. WellFormed(ledger) /\ id \in ReservationIds /\ now \in Nat
    BY <1>1, SubmittedAssumption DEF LedgerInv, WellFormed
  <2>2. ledger.grants[id] \in Grants
    BY <2>1 DEF WellFormed
  <2>3. id \notin LedgerExpired(ledger, now)
    BY <1>1, <2>1, <2>2 DEF LedgerExpired, GrantExpired, Grants
  <2>4. /\ id \in DOMAIN P.grants /\ P.grants[id] = ledger.grants[id] /\ WellFormed(P)
    BY <2>1, <2>3, WithoutGrants DEF LedgerPurged
  <2>5. ASSUME NEW req \in Submitted, Reserve(req) PROVE Kept(id)
    BY <2>1, <2>4, <2>5, AdmitGrants, SubmittedAssumption DEF Reserve
  <2>6. ASSUME NEW i \in ReservationIds, MarkTunnelEstablished(i) PROVE Kept(id)
    BY <1>1, <2>4, <2>6, EstablishedGrants DEF MarkTunnelEstablished
  <2>7. ASSUME NEW i \in ReservationIds, Release(i) PROVE Kept(id)
    <3>1. CASE i = id
      BY <2>7, <3>1
    <3>2. CASE i # id
      BY <2>1, <2>7, <3>2, WithoutGrants DEF Release
    <3> QED BY <3>1, <3>2
  <2>8. CASE PurgeExpired \/ Available
    BY <2>4, <2>8 DEF PurgeExpired, Available
  <2>9. CASE Tick \/ UNCHANGED vars
    BY <2>9 DEF Tick, vars
  <2> QED BY <1>1, <2>5, <2>6, <2>7, <2>8, <2>9 DEF Next
<1>2. LedgerInv /\ [Next]_vars =>
        [\A id \in DOMAIN ledger.grants :
           /\ ledger.grants[id].state = "Active"
           /\ ledger.grants[id].expires > now
           => Kept(id)]_vars
  BY <1>1
<1> QED BY <1>2, LedgerInvHolds, PTL DEF Spec, ActiveKeepsCapacity

===============================================================================
