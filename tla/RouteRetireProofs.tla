--------------------------- MODULE RouteRetireProofs ---------------------------
(***************************************************************************)
(* A released route has no owner and no helper prepares it again, for      *)
(* every set of data relays.                                               *)
(*                                                                         *)
(* ReleasedMeansUnowned speaks of the last moment of a retirement; what    *)
(* makes it true is the chain of evidence before it.  A receipt exists     *)
(* only for a complete scope, a relay's scope is complete only after the   *)
(* exit's is, a complete scope owns nothing and cannot come to own         *)
(* anything, and every node that may own something was asked by a request  *)
(* of the client, whose addressee stays pending until its receipt is there.*)
(***************************************************************************)
EXTENDS RouteRetire, TLAPS

\* What is in net was sent by somebody who may send it.
NetInv ==
  /\ phase \in {"preparing", "prepared"} => net = {} /\ pending = {}
  /\ \A m \in net : m.k = "finalize" =>
       m.r = Control /\ Msg("finalize", Control, "relay") \in net
  /\ \A m \in net : m.k = "reserve" => m.to = "relay"
  /\ \A m \in net : m.k \in {"confirm", "start"} => m.r \in DataRelays

\* Whoever was asked to own something is pending or has retired for good.
PendingInv ==
  \A m \in net : m.k \in {"finalize", "reserve"} => m.r \in pending \/ rscope[m.r] = "complete"

\* An owner exists only where a request of the client came by.
OriginInv ==
  /\ \A r \in Relays : route[r] # "none" => Msg("reserve", r, "relay") \in net
  /\ (escope # "none" \/ owners # {} \/ running) => Msg("finalize", Control, "relay") \in net

\* Retirement at a relay: no Start is pending in it, and completion comes after the exit's.
RelayInv ==
  \A r \in Relays :
    /\ Retiring(rscope[r]) => route[r] # "starting"
    /\ Msg("retire", r, "exit") \in net => Retiring(rscope[r])
    /\ Msg("receipt", r, "relay") \in net => Retiring(rscope[r]) /\ escope = "complete"
    /\ Msg("receipt", r, "client") \in net => rscope[r] = "complete"
    /\ rscope[r] = "complete" => route[r] = "none" /\ escope = "complete"

\* Retirement at the exit: a running runtime is owned, a complete scope owns nothing.
ExitInv ==
  /\ running => owners = {"active", "runtime"} /\ starts = {}
  /\ escope = "complete" => owners = {} /\ ~running /\ service = "none"

ReleasedInv == phase = "released" => pending = {}

RetireInv ==
  /\ TypeOK /\ NetInv /\ PendingInv /\ OriginInv /\ RelayInv /\ ExitInv /\ ReleasedInv

-----------------------------------------------------------------------------
(* The steps, one lemma per side. *)

\* Client: RetireInv is kept.
LEMMA ClientStep == RetireInv /\ ClientNext => RetireInv'
<1> SUFFICES ASSUME RetireInv, ClientNext PROVE RetireInv'
  OBVIOUS
<1> USE RouteAssumption DEF TypeOK, NetInv, PendingInv, OriginInv, RelayInv, ExitInv,
                            ReleasedInv, RetireInv, Msg, Messages, Setup, Retiring, Relays,
                            clientVars, relayVars, exitVars
<1>1. CASE Prepare
  BY <1>1 DEF Prepare
<1>2. CASE Finalize
  BY <1>2 DEF Finalize
<1>3. CASE Establish
  <2>1. \A m : m \in net' <=> m \in net \/ \E d \in DataRelays : m = Msg("start", d, "relay")
    BY <1>3 DEF Establish
  <2>2. TypeOK'
    BY <1>3, <2>1 DEF Establish, Answered
  <2>3. NetInv'
    BY <1>3, <2>1 DEF Establish, Answered
  <2>4. PendingInv'
    BY <1>3, <2>1 DEF Establish
  <2>5. OriginInv'
    BY <1>3, <2>1 DEF Establish
  <2>6. RelayInv'
    BY <1>3, <2>1 DEF Establish
  <2> QED BY <1>3, <2>2, <2>3, <2>4, <2>5, <2>6 DEF Establish
<1>4. CASE GiveUp
  BY <1>4 DEF GiveUp
<1>5. ASSUME NEW r \in DataRelays, ReservePath(r) PROVE RetireInv'
  BY <1>5 DEF ReservePath, Answered
<1>6. ASSUME NEW r \in DataRelays, ConfirmRelay(r) PROVE RetireInv'
  BY <1>6 DEF ConfirmRelay, Answered
<1>7. CASE DestroyLocal
  BY <1>7 DEF DestroyLocal
<1>8. CASE Attempt
  <2>1. \A m : m \in net' <=> m \in net \/ \E r \in pending : m = Msg("retire", r, "relay")
    BY <1>8 DEF Attempt
  <2>2. TypeOK'
    BY <1>8, <2>1 DEF Attempt
  <2>3. NetInv'
    BY <1>8, <2>1 DEF Attempt
  <2>4. PendingInv'
    BY <1>8, <2>1 DEF Attempt
  <2>5. OriginInv'
    BY <1>8, <2>1 DEF Attempt
  <2>6. RelayInv'
    BY <1>8, <2>1 DEF Attempt
  <2> QED BY <1>8, <2>2, <2>3, <2>4, <2>5, <2>6 DEF Attempt
<1>9. CASE AttemptEnds
  BY <1>9 DEF AttemptEnds
<1>10. ASSUME NEW r \in Relays, Receipt(r) PROVE RetireInv'
  BY <1>10 DEF Receipt
<1> QED BY <1>1, <1>2, <1>3, <1>4, <1>5, <1>6, <1>7, <1>8, <1>9, <1>10 DEF ClientNext

\* Relay: RetireInv is kept.
LEMMA RelayStep == RetireInv /\ RelayNext => RetireInv'
<1> SUFFICES ASSUME RetireInv, RelayNext PROVE RetireInv'
  OBVIOUS
<1> USE RouteAssumption DEF TypeOK, NetInv, PendingInv, OriginInv, RelayInv, ExitInv,
                            ReleasedInv, RetireInv, Msg, Messages, Setup, Retiring, Relays,
                            clientVars, relayVars, exitVars
<1>1. ASSUME NEW m \in net, ForwardFinalize(m) PROVE RetireInv'
  BY <1>1 DEF ForwardFinalize, Retained, Scopes
<1>2. ASSUME NEW m \in net, Reserve(m) PROVE RetireInv'
  <2>1. m.k \in Setup /\ m.r \in Relays /\ m = Msg("reserve", m.r, "relay")
    BY <1>2 DEF Reserve
  <2>2. TypeOK'
    BY <1>2, <2>1 DEF Reserve, Grant, Routes, Scopes
  <2>3. NetInv' /\ PendingInv' /\ ReleasedInv' /\ ExitInv'
    BY <1>2, <2>1 DEF Reserve, Retained
  <2>4. OriginInv'
    BY <1>2, <2>1 DEF Reserve
  <2>5. RelayInv'
    <3>1. UNCHANGED <<net, escope>> /\ ~Retiring(rscope[m.r]) /\ ~Retiring(rscope'[m.r])
      BY <1>2, <2>1 DEF Reserve, Retained
    <3>2. \A r \in Relays : r # m.r => rscope'[r] = rscope[r] /\ route'[r] = route[r]
      BY <1>2, <2>1 DEF Reserve
    <3> QED BY <3>1, <3>2
  <2> QED BY <2>2, <2>3, <2>4, <2>5
<1>3. ASSUME NEW m \in net, RelayStart(m) PROVE RetireInv'
  BY <1>3 DEF RelayStart, Handled, Destroyed, Routes
<1>4. ASSUME NEW m \in net, Started(m) PROVE RetireInv'
  BY <1>4 DEF Started, Handled, Routes
<1>5. ASSUME NEW r \in Relays, RelayRetire(r) PROVE RetireInv'
  BY <1>5 DEF RelayRetire, Retire, Detached, Routes, Scopes
<1>6. ASSUME NEW r \in Relays, RelayComplete(r) PROVE RetireInv'
  BY <1>6 DEF RelayComplete, Destroyed, Routes, Scopes
<1>7. ASSUME NEW r \in Relays, StartFails(r) PROVE RetireInv'
  BY <1>7 DEF StartFails, Destroyed, Routes
<1>8. ASSUME NEW r \in Relays, MaintainRelay(r) PROVE RetireInv'
  BY <1>8 DEF MaintainRelay, Destroyed, Routes
<1> QED BY <1>1, <1>2, <1>3, <1>4, <1>5, <1>6, <1>7, <1>8 DEF RelayNext

\* Exit: RetireInv is kept.
LEMMA ExitStep == RetireInv /\ ExitNext => RetireInv'
<1> SUFFICES ASSUME RetireInv, ExitNext PROVE RetireInv'
  OBVIOUS
<1> USE RouteAssumption DEF TypeOK, NetInv, PendingInv, OriginInv, RelayInv, ExitInv,
                            ReleasedInv, RetireInv, Msg, Messages, Setup, Retiring, Relays,
                            clientVars, relayVars, exitVars
<1>1. ASSUME NEW m \in net, ExitFinalize(m) PROVE RetireInv'
  <2>1. TypeOK'
    <3>1. m.k \in Setup /\ m.r \in Relays
      BY <1>1 DEF ExitFinalize
    <3>2. granted' \subseteq Setup \X Relays
      BY <1>1, <3>1 DEF ExitFinalize, Grant
    <3> QED BY <1>1, <3>2 DEF ExitFinalize, Scopes, Owners
  <2>2. NetInv' /\ PendingInv' /\ OriginInv'
    BY <1>1 DEF ExitFinalize
  <2>3. RelayInv' /\ ExitInv'
    BY <1>1 DEF ExitFinalize, Retained
  <2> QED BY <1>1, <2>1, <2>2, <2>3 DEF ExitFinalize
<1>2. ASSUME NEW m \in net, ExitConfirm(m) PROVE RetireInv'
  <2>1. m.k \in Setup /\ m.r \in Relays
    BY <1>2 DEF ExitConfirm
  <2>2. TypeOK'
    BY <1>2, <2>1 DEF ExitConfirm, Grant
  <2> QED BY <1>2, <2>2 DEF ExitConfirm
<1>3. ASSUME NEW m \in net, ExitStart(m) PROVE RetireInv'
  <2>1. \A x : x \in net' => x \in net \/ \E d \in DataRelays : x = Msg("started", d, "relay")
    BY <1>3 DEF ExitStart, Handled
  <2>2. \A x \in net : x.k \in Setup => x \in net'
    BY <1>3 DEF ExitStart, Handled
  <2>3. TypeOK'
    <3>1. net' \subseteq Messages
      BY <2>1
    <3>2. m.r \in DataRelays
      BY <1>3 DEF ExitStart
    <3>3. owners' \subseteq Owners /\ starts' \subseteq DataRelays /\ running' \in BOOLEAN
      BY <1>3, <3>2 DEF ExitStart, Owners
    <3>4. service' \in {"held", "finalized", "none"}
      BY <1>3 DEF ExitStart, ReleasedIf
    <3> QED BY <1>3, <3>1, <3>3, <3>4 DEF ExitStart
  <2>4. NetInv'
    <3>1. phase \notin {"preparing", "prepared"}
      OBVIOUS
    <3> QED BY <1>3, <2>1, <2>2, <3>1 DEF ExitStart
  <2>5. PendingInv'
    BY <1>3, <2>1 DEF ExitStart
  <2>6. Msg("finalize", Control, "relay") \in net'
    BY <1>3, <2>2 DEF ExitStart
  <2>7. OriginInv'
    BY <1>3, <2>2, <2>6 DEF ExitStart
  <2>8. RelayInv'
    <3>1. \A x \in net' : x.k \in {"retire", "receipt"} => x \in net
      BY <2>1
    <3>2. UNCHANGED <<rscope, route, escope>>
      BY <1>3 DEF ExitStart
    <3> QED BY <3>1, <3>2
  <2>9. ExitInv'
    <3>1. "prepared" \in owners /\ ~running /\ escope # "complete"
      BY <1>3 DEF ExitStart
    <3> QED BY <1>3, <3>1 DEF ExitStart
  <2> QED BY <1>3, <2>3, <2>4, <2>5, <2>7, <2>8, <2>9 DEF ExitStart
<1>4. ASSUME NEW r \in Relays, ExitRetire(r) PROVE RetireInv'
  BY <1>4 DEF ExitRetire, Remaining, Spoiled, ReleasedIf, Retire, Scopes, Owners
<1>5. CASE StartsExpire
  BY <1>5 DEF StartsExpire, Owners, ReleasedIf
<1>6. CASE RuntimeCompletes
  BY <1>6 DEF RuntimeCompletes, Owners
<1>7. CASE MaintainExit
  BY <1>7 DEF MaintainExit, Owners
<1>8. CASE PurgeService
  BY <1>8 DEF PurgeService
<1> QED BY <1>1, <1>2, <1>3, <1>4, <1>5, <1>6, <1>7, <1>8 DEF ExitNext

\* The invariant holds in every reachable state.
LEMMA RetireInvHolds == Spec => []RetireInv
<1>1. Init => RetireInv
  BY RouteAssumption DEF Init, RetireInv, TypeOK, NetInv, PendingInv, OriginInv, RelayInv,
                         ExitInv,
     ReleasedInv, Scopes, Routes, Retiring
<1>2. RetireInv /\ [Next]_vars => RetireInv'
  <2> SUFFICES ASSUME RetireInv, [Next]_vars PROVE RetireInv'
    OBVIOUS
  <2>1. CASE Expire
    BY <2>1 DEF Expire, RetireInv, TypeOK, NetInv, PendingInv, OriginInv, RelayInv, ExitInv,
       ReleasedInv, clientVars, relayVars, exitVars
  <2>2. CASE \E n \in lost : HelperExpires(n)
    BY <2>2 DEF HelperExpires, RetireInv, TypeOK, NetInv, PendingInv, OriginInv, RelayInv,
       ExitInv, ReleasedInv, clientVars, relayVars, exitVars
  <2>3. CASE UNCHANGED vars
    BY <2>3 DEF vars, RetireInv, TypeOK, NetInv, PendingInv, OriginInv, RelayInv, ExitInv,
       ReleasedInv, clientVars, relayVars, exitVars
  <2> QED BY <2>1, <2>2, <2>3, ClientStep, RelayStep, ExitStep DEF Next
<1> QED BY <1>1, <1>2, PTL DEF Spec

\* With nothing pending, whoever was asked has a complete scope.
LEMMA ReleasedScopes ==
  ASSUME RetireInv, phase = "released"
  PROVE  /\ \A m \in net : m.k \in {"finalize", "reserve"} => rscope[m.r] = "complete"
         /\ \A m \in net : m.k = "finalize" => escope = "complete"
<1>1. \A m \in net : m.k \in {"finalize", "reserve"} => rscope[m.r] = "complete"
  BY DEF RetireInv, PendingInv, ReleasedInv
<1>2. \A m \in net : m.k = "finalize" => m.r \in Relays
  BY DEF RetireInv, NetInv, Relays
<1> QED BY <1>1, <1>2 DEF RetireInv, RelayInv

(***************************************************************************)
(* When the client has freed its endpoints and its signing session, no     *)
(* relay and no exit owns anything of the route, whatever is still on its  *)
(* way (retirement.rs, process_job, and the scopes of route_retire.rs).    *)
(***************************************************************************)
LEMMA ReleasedUnowned == RetireInv => ReleasedMeansUnowned
<1> SUFFICES ASSUME RetireInv, phase = "released"
             PROVE  /\ \A r \in Relays : route[r] = "none"
                    /\ owners = {} /\ ~running
                    /\ escope # "none" => service = "none"
  BY DEF ReleasedMeansUnowned
<1>1. \A r \in Relays : Msg("reserve", r, "relay") \in net => rscope[r] = "complete"
  BY ReleasedScopes DEF Msg
<1>2. \A r \in Relays : route[r] = "none"
  BY <1>1 DEF RetireInv, OriginInv, RelayInv
<1>3. Msg("finalize", Control, "relay") \in net => escope = "complete"
  BY ReleasedScopes DEF Msg
<1>4. escope = "complete" => owners = {} /\ ~running /\ service = "none"
  BY DEF RetireInv, ExitInv
<1> QED BY <1>2, <1>3, <1>4 DEF RetireInv, OriginInv

(***************************************************************************)
(* When the client has freed its endpoints and its signing session, no     *)
(* relay and no exit owns anything of the route, whatever is still on its  *)
(* way (retirement.rs, process_job, and the scopes of route_retire.rs).    *)
(***************************************************************************)
THEOREM RouteReleasedMeansUnowned == Spec => []ReleasedMeansUnowned
  BY ReleasedUnowned, RetireInvHolds, PTL

-----------------------------------------------------------------------------
(* No helper prepares the route again. *)

\* A client that has released stays so.
LEMMA ReleasedStays ==
  ASSUME phase = "released", [Next]_vars PROVE phase' = "released"
<1> USE DEF clientVars, relayVars, exitVars
<1>1. CASE ClientNext
  BY <1>1 DEF ClientNext, Prepare, Finalize, Establish, GiveUp, ReservePath, ConfirmRelay,
              Answered, DestroyLocal, Attempt, AttemptEnds, Receipt
<1>2. CASE RelayNext
  BY <1>2 DEF RelayNext, ForwardFinalize, Reserve, RelayStart, Started, RelayRetire,
              RelayComplete, StartFails, MaintainRelay
<1>3. CASE ExitNext
  BY <1>3 DEF ExitNext, ExitFinalize, ExitConfirm, ExitStart, ExitRetire, StartsExpire,
              RuntimeCompletes, MaintainExit, PurgeService
<1>4. CASE Expire
  BY <1>4 DEF Expire
<1>5. CASE \E n \in lost : HelperExpires(n)
  BY <1>5 DEF HelperExpires
<1>6. CASE UNCHANGED vars
  BY <1>6 DEF vars
<1> QED BY <1>1, <1>2, <1>3, <1>4, <1>5, <1>6 DEF Next

\* Every Prepare comes after Retained, so none is tried: no context is lost anew.
LEMMA NothingLostAnew ==
  ASSUME RetireInv, phase = "released", [Next]_vars PROVE lost' \subseteq lost
<1> USE DEF clientVars, relayVars, exitVars
<1>1. CASE ClientNext
  BY <1>1 DEF ClientNext, Prepare, Finalize, Establish, GiveUp, ReservePath, ConfirmRelay,
              DestroyLocal, Attempt, AttemptEnds, Receipt
<1>2. CASE RelayNext
  <2>1. ASSUME NEW m \in net, Reserve(m) PROVE FALSE
    BY <2>1, ReleasedScopes DEF Reserve, Retained, Retiring
  <2> QED BY <1>2, <2>1 DEF RelayNext, ForwardFinalize, RelayStart, Started, RelayRetire,
                            RelayComplete, StartFails, MaintainRelay
<1>3. CASE ExitNext
  <2>1. ASSUME NEW m \in net, ExitFinalize(m) PROVE FALSE
    BY <2>1, ReleasedScopes DEF ExitFinalize, Retained, Retiring
  <2> QED BY <1>3, <2>1 DEF ExitNext, ExitConfirm, ExitStart, ExitRetire, StartsExpire,
                            RuntimeCompletes, MaintainExit, PurgeService
<1>4. CASE Expire
  BY <1>4 DEF Expire
<1>5. CASE \E n \in lost : HelperExpires(n)
  BY <1>5 DEF HelperExpires
<1>6. CASE UNCHANGED vars
  BY <1>6 DEF vars
<1> QED BY <1>1, <1>2, <1>3, <1>4, <1>5, <1>6 DEF Next

(***************************************************************************)
(* What helpers still have of a released route only goes away, whichever   *)
(* of its requests arrives then (retain_exit_retirement and                *)
(* insert_relay_retirement, which come before every Prepare).              *)
(***************************************************************************)
THEOREM RouteNothingComesBack == Spec => NothingComesBack
<1>1. RetireInv /\ RetireInv' /\ [Next]_vars => [phase = "released" => Held' \subseteq Held]_vars
  <2> SUFFICES ASSUME RetireInv, RetireInv', [Next]_vars, phase = "released"
               PROVE  Held' \subseteq Held
    OBVIOUS
  <2>1. phase' = "released"
    BY ReleasedStays
  <2>2. ReleasedMeansUnowned'
    <3>1. (RetireInv => ReleasedMeansUnowned)'
      BY ReleasedUnowned, PTL
    <3> QED BY <3>1
  <2>3. (\A r \in Relays : route'[r] = "none") /\ owners' = {}
    BY <2>1, <2>2 DEF ReleasedMeansUnowned
  <2>4. lost' \subseteq lost
    BY NothingLostAnew
  <2> QED BY <2>3, <2>4 DEF Held
<1> QED BY <1>1, RetireInvHolds, PTL DEF Spec, NothingComesBack
===============================================================================
