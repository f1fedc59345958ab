----------------------------- MODULE RouteRetire -----------------------------
(***************************************************************************)
(* Setting up one route and taking it down again: the client's route setup *)
(* and its retirement worker (volparossa-agent/src/route_setup.rs and      *)
(* route_setup/retirement.rs), the relays and the exit (discovery.rs and   *)
(* discovery/route_retire.rs).  Everything is about one route context;     *)
(* contexts share nothing but the bound on retained scopes, at which a     *)
(* node refuses.                                                           *)
(*                                                                         *)
(* Each node keeps a retirement scope for the context, created by the      *)
(* request that may create an owner there and never evicted.  A client     *)
(* that gives up destroys its own context, then asks every relay it ever   *)
(* sent a request to; a relay asks the exit, destroys its own route and    *)
(* answers with both receipts.  The client frees its endpoints and its     *)
(* signing session only when every one of them has answered.               *)
(*                                                                         *)
(* Requests are retried with the same bytes, so copies of one request      *)
(* travel at once, in any order, and may arrive after the route was        *)
(* retired: a retried request stays in net and may be handled again or     *)
(* never.  A request that a node refuses without a change of state is one  *)
(* it does not handle.                                                     *)
(***************************************************************************)
EXTENDS Naturals, FiniteSets

CONSTANTS Control,      \* the control relay
          DataRelays,   \* the relays of the route's paths
          Exit          \* the exit

ASSUME RouteAssumption == /\ Control \notin DataRelays /\ Exit \notin DataRelays
                          /\ Exit # Control
                          /\ DataRelays # {}

Relays == DataRelays \cup {Control}

VARIABLES
  phase,      \* of the client's attempt
  local,      \* the client's own helper context
  pending,    \* RemoteRetirement.pending_relays
  granted,    \* the requests whose grant the client has
  net,        \* the messages on their way
  rscope,     \* per relay: RelayScope of the context
  route,      \* per relay: its route of the context
  escope,     \* ExitScope of the context
  owners,     \* the exit's owners of the context
  running,    \* the exit's runtime task is running
  starts,     \* relays whose Start waits at the exit for the others
  confirmed,  \* relays whose confirmed path the exit has activated
  service,    \* the reservation in the exit service
  expired,    \* the hard expiry of the route has passed
  lost        \* nodes whose helper has a context that no agent owns

clientVars == <<phase, local, pending, granted>>
relayVars  == <<rscope, route>>
exitVars   == <<escope, owners, running, starts, confirmed, service>>
vars       == <<clientVars, net, relayVars, exitVars, expired, lost>>

(***************************************************************************)
(* A scope is absent, retained, retiring, or complete (and then retiring   *)
(* as well).  A relay's route is absent, ready after ReservePath, with a   *)
(* pending Start (and not in the relay's route map), committed, or         *)
(* unusable and due for cleanup.  The exit owns a context through a        *)
(* prepared route (spoiled when a Destroy of it failed), an active route   *)
(* (ended once its runtime is gone) and a retained runtime.                *)
(***************************************************************************)
Scopes == {"none", "live", "retiring", "complete"}
Routes == {"none", "ready", "starting", "committed", "unusable"}
Owners == {"prepared", "spoiled", "active", "ended", "runtime"}

\* A message about relay r, on its way to a client, a relay or the exit.
Setup    == {"finalize", "reserve", "confirm"}
Messages == [k : Setup \cup {"start", "started", "retire", "receipt"}, r : Relays,
             to : {"client", "relay", "exit"}]

Msg(k, r, to) == [k |-> k, r |-> r, to |-> to]

\* A Start is sent once; everything else is sent again until it is answered.
Handled(m) == IF m.k \in {"start", "started"} THEN net \ {m} ELSE net

TypeOK ==
  /\ phase \in {"preparing", "prepared", "asking", "established", "retiring", "released"}
  /\ local \in {"none", "exact", "ambiguous", "destroyed"}
  /\ pending \subseteq Relays
  /\ granted \subseteq Setup \X Relays
  /\ net \subseteq Messages
  /\ rscope \in [Relays -> Scopes]
  /\ route \in [Relays -> Routes]
  /\ escope \in Scopes
  /\ owners \subseteq Owners
  /\ running \in BOOLEAN
  /\ starts \subseteq DataRelays
  /\ confirmed \subseteq DataRelays
  /\ service \in {"held", "finalized", "none"}
  /\ expired \in BOOLEAN
  /\ lost \subseteq Relays \cup {Exit}

(***************************************************************************)
(* The client holds capacity at the exit and has a slot in its retirement  *)
(* worker; nothing else exists yet.                                        *)
(***************************************************************************)
Init ==
  /\ phase = "preparing" /\ local = "none" /\ pending = {} /\ granted = {}
  /\ net = {}
  /\ rscope = [r \in Relays |-> "none"] /\ route = [r \in Relays |-> "none"]
  /\ escope = "none" /\ owners = {} /\ running = FALSE /\ starts = {} /\ confirmed = {}
  /\ service = "held" /\ expired = FALSE /\ lost = {}

-----------------------------------------------------------------------------
(* The client sets the route up. *)

(***************************************************************************)
(* The helper's Prepare: done, possibly done, or not done at all.          *)
(***************************************************************************)
Prepare ==
  /\ phase = "preparing"
  /\ \/ /\ local' = "exact" /\ phase' = "prepared"
     \/ /\ local' = "ambiguous" /\ phase' = "retiring"
     \/ /\ local' = "none" /\ phase' = "released"
  /\ UNCHANGED <<pending, granted, net, relayVars, exitVars, expired, lost>>

\* Remote ownership is armed before Finalize can create any.
Finalize ==
  /\ phase = "prepared" /\ ~expired
  /\ pending' = {Control}
  /\ net' = net \cup {Msg("finalize", Control, "relay")}
  /\ phase' = "asking"
  /\ UNCHANGED <<local, granted, relayVars, exitVars, expired, lost>>

\* One request after the other: the last one is answered.
Answered == /\ phase = "asking" /\ ~expired
            /\ \A m \in net : m.k \in Setup => <<m.k, m.r>> \in granted

\* A relay is retained before it is asked.
ReservePath(r) ==
  /\ Answered
  /\ <<"reserve", r>> \notin granted
  /\ pending' = pending \cup {r}
  /\ net' = net \cup {Msg("reserve", r, "relay")}
  /\ UNCHANGED <<phase, local, granted, relayVars, exitVars, expired, lost>>

ConfirmRelay(r) ==
  /\ Answered
  /\ \A d \in DataRelays : <<"reserve", d>> \in granted
  /\ <<"confirm", r>> \notin granted
  /\ net' = net \cup {Msg("confirm", r, "exit")}
  /\ UNCHANGED <<clientVars, relayVars, exitVars, expired, lost>>

\* Every path confirmed: the route is activated and each relay gets its Start.
Establish ==
  /\ Answered
  /\ \A d \in DataRelays : <<"confirm", d>> \in granted
  /\ phase' = "established" /\ granted' = {}
  /\ net' = net \cup {Msg("start", d, "relay") : d \in DataRelays}
  /\ UNCHANGED <<local, pending, relayVars, exitVars, expired, lost>>

\* Rollback, cancellation, a deadline, or the end of an established route.
GiveUp ==
  /\ phase \in {"prepared", "asking", "established"}
  /\ phase' = "retiring" /\ granted' = {}
  /\ UNCHANGED <<local, pending, net, relayVars, exitVars, expired, lost>>

\* A node grants request m: the client takes the answer while it still waits for it.
Grant(m) == granted' = IF phase = "asking" THEN granted \cup {<<m.k, m.r>>} ELSE granted

-----------------------------------------------------------------------------
(* The client's retirement worker. *)

\* Destroy or, for an ambiguous Prepare, reconcile the client's own context.
\* A failure leaves the job in quarantine, to be tried again.
DestroyLocal ==
  /\ phase = "retiring" /\ local # "destroyed"
  /\ local' = "destroyed"
  /\ UNCHANGED <<phase, pending, granted, net, relayVars, exitVars, expired, lost>>

(***************************************************************************)
(* Only then are all relays still pending asked, at once.  The next passes *)
(* send the same again, so receipts of all passes are one message here;    *)
(* the code counts one only in the pass it answers, and what it states     *)
(* does not depend on the pass.                                            *)
(***************************************************************************)
Attempt ==
  /\ phase = "retiring" /\ local = "destroyed"
  /\ net' = net \cup {Msg("retire", r, "relay") : r \in pending}
  /\ UNCHANGED <<clientVars, relayVars, exitVars, expired, lost>>

\* Both receipts are verified.
Receipt(r) ==
  /\ phase = "retiring" /\ local = "destroyed"
  /\ Msg("receipt", r, "client") \in net
  /\ pending' = pending \ {r}
  /\ UNCHANGED <<phase, local, granted, net, relayVars, exitVars, expired, lost>>

\* The job ends after a pass that leaves no relay pending.
AttemptEnds ==
  /\ phase = "retiring" /\ local = "destroyed" /\ pending = {}
  /\ phase' = "released"
  /\ UNCHANGED <<local, pending, granted, net, relayVars, exitVars, expired, lost>>

-----------------------------------------------------------------------------
(* A relay. *)

Retiring(scope) == scope \in {"retiring", "complete"}
Retire(scope)   == IF scope = "complete" THEN scope ELSE "retiring"

\* Mutant: a complete scope is taken for one that can be used again.
RetainedAgain(scope) == scope # "retiring"

\* insert_relay_retirement, retain_exit_retirement: a new scope, or the same one while
\* it is not retiring.
Retained(scope) == ~Retiring(scope)

\* Destroy a route: gone, or unusable and kept for another try.
Destroyed == {"none", "unusable"}

\* The control relay retains the scope, then forwards Finalize.
ForwardFinalize(m) ==
  /\ m.k = "finalize" /\ m.to = "relay"
  /\ Retained(rscope[m.r])
  /\ rscope' = [rscope EXCEPT ![m.r] = "live"]
  /\ net' = net \cup {[m EXCEPT !.to = "exit"]}
  /\ UNCHANGED <<clientVars, route, exitVars, expired, lost>>

(***************************************************************************)
(* ReservePath: an existing usable route is granted again; otherwise the   *)
(* scope is retained first and the helper is asked for a context, which it *)
(* refuses while it has one of the same id.  What fails after that, or a   *)
(* Prepare whose outcome is not known, leaves the relay without an owner:  *)
(* the Destroy is tried once and its result ignored, so the helper may     *)
(* keep a context nobody knows of.  Only when the receive leg cannot be    *)
(* registered does the owner stay, unusable, until a Destroy succeeds.     *)
(***************************************************************************)
Reserve(m) ==
  /\ m.k = "reserve" /\ ~expired
  /\ Retained(rscope[m.r])
  /\ \/ /\ route[m.r] \in {"ready", "committed"}
        /\ Grant(m)
        /\ UNCHANGED <<rscope, route, lost>>
     \/ /\ route[m.r] = "none" /\ m.r \notin lost
        /\ rscope' = [rscope EXCEPT ![m.r] = "live"]
        /\ \/ route' = [route EXCEPT ![m.r] = "ready"] /\ Grant(m)
           \/ route' = [route EXCEPT ![m.r] = "unusable"] /\ UNCHANGED granted
        /\ UNCHANGED lost
     \/ /\ route[m.r] \in {"none", "starting"}
        /\ rscope' = [rscope EXCEPT ![m.r] = "live"]
        /\ \/ UNCHANGED lost
           \/ route[m.r] = "none" /\ lost' = lost \cup {m.r}
        /\ UNCHANGED <<route, granted>>
  /\ UNCHANGED <<phase, local, pending, net, exitVars, expired>>

\* A Start commits the route and leaves the map while the exit is asked.
RelayStart(m) ==
  /\ m.k = "start" /\ m.to = "relay" /\ ~expired
  /\ ~Retiring(rscope[m.r])
  /\ \/ /\ route[m.r] = "ready"
        /\ route' = [route EXCEPT ![m.r] = "starting"]
        /\ net' = Handled(m) \cup {[m EXCEPT !.to = "exit"]}
     \/ /\ route[m.r] \in {"ready", "unusable"}
        /\ \E d \in Destroyed : route' = [route EXCEPT ![m.r] = d]
        /\ net' = Handled(m)
  /\ UNCHANGED <<clientVars, rscope, exitVars, expired, lost>>

\* The exit's answer, when the Start is still pending; otherwise it is unexpected.
Started(m) ==
  /\ m.k = "started"
  /\ net' = Handled(m)
  /\ route' = IF route[m.r] = "starting" THEN [route EXCEPT ![m.r] = "committed"] ELSE route
  /\ UNCHANGED <<clientVars, rscope, exitVars, expired, lost>>

\* A refused, invalid or missing answer ends the route.
StartFails(r) ==
  /\ route[r] = "starting"
  /\ \E d \in Destroyed : route' = [route EXCEPT ![r] = d]
  /\ UNCHANGED <<clientVars, net, rscope, exitVars, expired, lost>>

\* Mutant: a pending Start goes on.
KeepsPendingStart(rt) == rt

\* detach_retiring_relay_sessions: the pending Start gives its route back.
Detached(rt) == IF rt = "starting" THEN "unusable" ELSE rt

(***************************************************************************)
(* RouteRetire at a relay that has the scope: no admission from here on,   *)
(* and the request goes to the exit.  Without a scope it is refused.       *)
(***************************************************************************)
RelayRetire(r) ==
  /\ Msg("retire", r, "relay") \in net
  /\ rscope[r] # "none"
  /\ rscope' = [rscope EXCEPT ![r] = Retire(@)]
  /\ route' = [route EXCEPT ![r] = Detached(@)]
  /\ net' = net \cup {Msg("retire", r, "exit")}
  /\ UNCHANGED <<clientVars, exitVars, expired, lost>>

\* The exit's receipt: the relay destroys its own route, and answers if it could.
RelayComplete(r) ==
  /\ Msg("receipt", r, "relay") \in net
  /\ \E d \in IF route[r] \in {"none", "starting"} THEN {route[r]} ELSE Destroyed :
       /\ route' = [route EXCEPT ![r] = d]
       /\ IF d = "unusable"
          THEN UNCHANGED <<net, rscope>>
          ELSE /\ net' = net \cup {Msg("receipt", r, "client")}
               /\ rscope' = [rscope EXCEPT ![r] = "complete"]
  /\ UNCHANGED <<clientVars, exitVars, expired, lost>>

\* Maintenance destroys what has expired or became unusable.
MaintainRelay(r) ==
  /\ \/ route[r] = "unusable"
     \/ expired /\ route[r] \in {"ready", "committed"}
  /\ \E d \in Destroyed : route' = [route EXCEPT ![r] = d]
  /\ UNCHANGED <<clientVars, net, rscope, exitVars, expired, lost>>

-----------------------------------------------------------------------------
(* The exit. *)

\* What is left of a set of owners after a try to destroy them, the runtime first.
Spoiled(o)   == IF "prepared" \in o THEN {"spoiled"} ELSE o
Remaining(o) == {{}, Spoiled(o) \ {"runtime"}, Spoiled(o)}

\* A reservation is released once the last owner is destroyed.
ReleasedIf(o) == IF o = {} THEN "none" ELSE service

(***************************************************************************)
(* The scope is retained, then the helper prepares a context and the exit  *)
(* service finalizes.  As at a relay, a Prepare of unknown outcome and a   *)
(* failure after it leave the exit without an owner and the helper, maybe, *)
(* with a context; a bundle that does not fit is released again.           *)
(***************************************************************************)
ExitFinalize(m) ==
  /\ m.k = "finalize" /\ m.to = "exit" /\ ~expired
  /\ Retained(escope)
  /\ escope' = "live"
  /\ \/ /\ "prepared" \in owners
        /\ Grant(m)
        /\ UNCHANGED <<owners, service, lost>>
     \/ /\ owners = {} /\ Exit \notin lost /\ service = "held"
        /\ owners' = {"prepared"} /\ service' = "finalized"
        /\ Grant(m)
        /\ UNCHANGED lost
     \/ /\ "prepared" \notin owners
        /\ \/ UNCHANGED lost
           \/ owners = {} /\ lost' = lost \cup {Exit}
        /\ \/ UNCHANGED service
           \/ /\ owners = {} /\ Exit \notin lost /\ service = "held"
              /\ service' = "none"
        /\ UNCHANGED <<owners, granted>>
  /\ UNCHANGED <<phase, local, pending, net, relayVars, running, starts, confirmed, expired>>

\* The receipt is signed even if the path could not be activated; a retry tries again.
ExitConfirm(m) ==
  /\ m.k = "confirm" /\ ~expired
  /\ ~Retiring(escope)
  /\ service = "finalized"
  /\ confirmed' \in {confirmed, confirmed \cup {m.r}}
  /\ Grant(m)
  /\ UNCHANGED <<phase, local, pending, net, relayVars, escope, owners, running, starts,
                 service, expired, lost>>

(***************************************************************************)
(* A Start waits for the Starts of all other relays.  The last one makes   *)
(* the route active and starts its runtime, unless the reservation is gone *)
(* or the transport cannot be set up.                                      *)
(***************************************************************************)
ExitStart(m) ==
  /\ m.k = "start" /\ m.to = "exit" /\ ~expired
  /\ ~Retiring(escope)
  /\ "prepared" \in owners /\ confirmed = DataRelays
  /\ \/ /\ starts \cup {m.r} # DataRelays
        /\ starts' = starts \cup {m.r}
        /\ net' = Handled(m)
        /\ UNCHANGED <<owners, running, service>>
     \/ /\ starts \cup {m.r} = DataRelays
        /\ starts' = {}
        /\ \/ /\ service = "finalized"
              /\ owners' = {"active", "runtime"} /\ running' = TRUE
              /\ net' = Handled(m) \cup {Msg("started", r, "relay") : r \in DataRelays}
              /\ UNCHANGED service
           \/ /\ owners' \in {{}, {"spoiled"}, {"ended"}}
              /\ service' = ReleasedIf(owners')
              /\ net' = Handled(m)
              /\ UNCHANGED running
  /\ UNCHANGED <<clientVars, relayVars, escope, confirmed, expired, lost>>

\* The other Starts did not come in time.
StartsExpire ==
  /\ starts # {}
  /\ starts' = {}
  /\ owners' \in IF owners = {} THEN {{}} ELSE {{}, {"spoiled"}}
  /\ service' = ReleasedIf(owners')
  /\ UNCHANGED <<clientVars, net, relayVars, escope, running, confirmed, expired, lost>>

\* The actor consumes the end of the runtime: all flows done, an error, or shutdown.
RuntimeCompletes ==
  /\ running
  /\ running' = FALSE
  /\ \/ owners' = {"runtime"} /\ service' = "none"
     \/ owners' = {"ended", "runtime"} /\ UNCHANGED service
  /\ UNCHANGED <<clientVars, net, relayVars, escope, starts, confirmed, expired, lost>>

\* Mutant: a retained runtime is left to maintenance.
LeavesRuntime(r) ==
  /\ Msg("retire", r, "exit") \in net
  /\ escope # "none"
  /\ starts' = {}
  /\ owners' \in IF "runtime" \in owners THEN {owners} ELSE Remaining(owners)
  /\ service' = ReleasedIf(owners')
  /\ IF owners' = {}
     THEN /\ escope' = "complete"
          /\ net' = net \cup {Msg("receipt", r, "relay")}
     ELSE /\ escope' = Retire(escope)
          /\ UNCHANGED net
  /\ UNCHANGED <<clientVars, relayVars, running, confirmed, expired, lost>>

(***************************************************************************)
(* RouteRetire at the exit: a runtime is told to stop and has to be joined *)
(* first, then every owner is destroyed.  Only when nothing is left is the *)
(* scope complete, the reservation released and a receipt signed.          *)
(***************************************************************************)
ExitRetire(r) ==
  /\ Msg("retire", r, "exit") \in net
  /\ escope # "none"
  /\ starts' = {}
  /\ owners' \in IF running THEN {owners} ELSE Remaining(owners)
  /\ service' = ReleasedIf(owners')
  /\ IF owners' = {}
     THEN /\ escope' = "complete"
          /\ net' = net \cup {Msg("receipt", r, "relay")}
     ELSE /\ escope' = Retire(escope)
          /\ UNCHANGED net
  /\ UNCHANGED <<clientVars, relayVars, running, confirmed, expired, lost>>

\* Maintenance: joined runtimes are reaped, expired and failed routes destroyed.
MaintainExit ==
  /\ ~running
  /\ \/ "runtime" \in owners /\ owners' = owners \ {"runtime"} /\ UNCHANGED service
     \/ /\ \/ owners \cap {"spoiled", "ended"} # {}
           \/ expired /\ "prepared" \in owners
        /\ owners' = owners \ {"prepared", "spoiled", "ended"}
        /\ service' = "none"
  /\ UNCHANGED <<clientVars, net, relayVars, escope, running, starts, confirmed, expired, lost>>

\* purge_expired of the exit service: the deadline of the hold or of the tunnel setup, or
\* the hard expiry of an established route.
PurgeService ==
  /\ service # "none"
  /\ "active" \in owners => expired
  /\ service' = "none"
  /\ UNCHANGED <<clientVars, net, relayVars, escope, owners, running, starts, confirmed,
                 expired, lost>>

Expire ==
  /\ ~expired
  /\ expired' = TRUE
  /\ UNCHANGED <<clientVars, net, relayVars, exitVars, lost>>

ClientNext ==
  \/ Prepare \/ Finalize \/ Establish \/ GiveUp
  \/ \E r \in DataRelays : ReservePath(r) \/ ConfirmRelay(r)
  \/ DestroyLocal \/ Attempt \/ AttemptEnds
  \/ \E r \in Relays : Receipt(r)

RelayNext ==
  \/ \E m \in net : ForwardFinalize(m) \/ Reserve(m) \/ RelayStart(m) \/ Started(m)
  \/ \E r \in Relays : \/ RelayRetire(r) \/ RelayComplete(r)
                       \/ StartFails(r) \/ MaintainRelay(r)

ExitNext ==
  \/ \E m \in net : ExitFinalize(m) \/ ExitConfirm(m) \/ ExitStart(m)
  \/ \E r \in Relays : ExitRetire(r)
  \/ StartsExpire \/ RuntimeCompletes \/ MaintainExit \/ PurgeService

(***************************************************************************)
(* The helper removes a context at the expiries it was prepared with, the  *)
(* only end of one that no agent owns (external).  An owned one goes the   *)
(* same way, and its owner then finds it destroyed.                        *)
(***************************************************************************)
HelperExpires(n) ==
  /\ n \in lost
  /\ lost' = lost \ {n}
  /\ UNCHANGED <<clientVars, net, relayVars, exitVars, expired>>

Next ==
  \/ ClientNext \/ RelayNext \/ ExitNext \/ Expire
  \/ \E n \in lost : HelperExpires(n)

Spec == Init /\ [][Next]_vars

(***************************************************************************)
(* The retirement worker goes on for as long as its process lives, its     *)
(* calls get through again and again, and a Destroy that is repeated       *)
(* succeeds in the end.  A runtime that was told to stop does.  No other   *)
(* step is promised, and the maintenance of relays and exit is not needed. *)
(***************************************************************************)
RelayCompletes(r) == RelayComplete(r) /\ net' # net
ExitConfirms(r)   == ExitRetire(r) /\ owners' = {}
RuntimeStops      == RuntimeCompletes /\ Retiring(escope)

Fairness ==
  /\ WF_vars(DestroyLocal) /\ WF_vars(Attempt) /\ WF_vars(AttemptEnds)
  /\ WF_vars(RuntimeStops)
  /\ \A r \in Relays : /\ WF_vars(RelayRetire(r)) /\ WF_vars(ExitRetire(r))
                       /\ WF_vars(ExitConfirms(r)) /\ WF_vars(RelayCompletes(r))
                       /\ WF_vars(Receipt(r))

FairSpec == Spec /\ Fairness

-----------------------------------------------------------------------------
(* Properties. *)

(***************************************************************************)
(* When the client has freed its endpoints and its signing session, no     *)
(* relay and no exit owns anything of the route, whatever copies of its    *)
(* requests and whatever Start answers are still on their way              *)
(* (retirement.rs, process_job, and the scopes of route_retire.rs).        *)
(***************************************************************************)
ReleasedMeansUnowned ==
  phase = "released" =>
    /\ \A r \in Relays : route[r] = "none"
    /\ owners = {} /\ ~running
    /\ escope # "none" => service = "none"

\* The nodes whose helper has a context of the route, owned or not.
Held == {r \in Relays : route[r] # "none"} \cup lost \cup (IF owners = {} THEN {} ELSE {Exit})

(***************************************************************************)
(* After that no request that is still on its way makes a helper prepare a *)
(* context again, not even one that is lost at once: what helpers still    *)
(* have of a released route only goes away (retain_exit_retirement and     *)
(* insert_relay_retirement, which come before every Prepare).              *)
(***************************************************************************)
NothingComesBack == [][phase = "released" => Held' \subseteq Held]_vars

(***************************************************************************)
(* Helper-owned state is settled before remote authority is released, and  *)
(* an ambiguous or failed destruction keeps the route quarantined          *)
(* (docs/development/OPERATIONS.md, relay and exit preparation).  The code *)
(* does not guarantee it: a reservation that fails at a relay or the exit  *)
(* forgets its helper context, and the node later confirms its removal.    *)
(***************************************************************************)
ReleasedMeansDestroyed == phase = "released" => Held = {}

(***************************************************************************)
(* A retirement of which every node concerned has a scope always ends,     *)
(* however far the setup came and whatever of it is still on its way: no   *)
(* node waits for another that waits for it, and nothing the client sends  *)
(* or a relay restarts keeps an owner alive (route_retire.rs,              *)
(* retire_exact_exit_owners and complete_route_retire_upstream).  A node   *)
(* that never retained the scope refuses, and the job stays in quarantine. *)
(***************************************************************************)
Retirable == /\ phase = "retiring"
             /\ \A r \in pending : rscope[r] # "none"
             /\ pending # {} => escope # "none"

RetirementEnds == Retirable ~> phase = "released"
===============================================================================
