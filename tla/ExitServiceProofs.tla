-------------------------- MODULE ExitServiceProofs --------------------------
(***************************************************************************)
(* The safety properties of the exit service for every set of requests,    *)
(* relays, keys and nonces, every limit and every bound.                   *)
(*                                                                         *)
(* The inductive invariant relates the five maps that the handlers update  *)
(* separately (ledger, endpoint states, activations, identity owners,      *)
(* response caches) to one another, and every artifact signed in this boot *)
(* to the replay entry that keeps its request from being answered again.   *)
(***************************************************************************)
EXTENDS ExitService, TLAPS, FiniteSetTheorems

ReplayKey(req) ==
  CASE req.kind = "hold"     -> <<req.r, req.nonce>>
    [] req.kind = "permit"   -> PermitKey(req)
    [] req.kind = "finalize" -> <<req.hold, req.nonce>>
    [] req.kind = "confirm"  -> ConfirmKey(req)
    [] req.kind = "extend"   -> ExtendKey(req)

RequestKinds == {"hold", "permit", "finalize", "confirm", "extend"}

\* The replay cache a kind of request is recorded in.
CacheOf(kind) == IF kind = "extend" THEN "finalize" ELSE kind

ClockInv == now \in Nat /\ boot \in Nat /\ DOMAIN seen = ReplayKinds

\* The finalized paths stay, and an extension adds a path of its own.
PathsOK(s) ==
  /\ FinalizedPaths(s) \subseteq DOMAIN s.paths
  /\ \A x \in DOMAIN s.ext :
       /\ s.ext[x].path \notin FinalizedPaths(s)
       /\ s.ext[x].phase = "Probe" => s.ext[x].path \notin DOMAIN s.paths
  /\ \A x, y \in DOMAIN s.ext : s.ext[x].path = s.ext[y].path => x = y

\* An endpoint state belongs to this boot and to the id it is stored under.
StateInv(S) ==
  \A r \in DOMAIN S :
    /\ S[r].hold.req.r = r
    /\ S[r].hold.boot = boot
    /\ S[r].hold \in answers
    /\ S[r].phase = "Held" => S[r].fin = {} /\ DOMAIN S[r].paths = {} /\ DOMAIN S[r].ext = {}
    /\ \A f \in S[r].fin : f \in answers /\ f.req.hold = S[r].hold
    /\ PathsOK(S[r])

\* Capacity belongs to a known reservation; active capacity to a bound one.
GrantInv(L, S, A) ==
  \A r \in DOMAIN L.grants :
    r \in DOMAIN S /\ (L.grants[r].state = "Active" => r \in A)

\* Every path the signed reservation selected has its relay.
Settled(s) == FinalizedPaths(s) \subseteq Confirmed(s)

\* A bound route is past the hold phase and its finalized paths are confirmed.
BoundInv(A, S) ==
  \A r \in A : r \in DOMAIN S /\ S[r].phase # "Held" /\ Settled(S[r])

OwnerInv(O, S) ==
  \A r \in O : r \in DOMAIN S /\ S[r].phase = "Finalized" /\ S[r].fin \cap taken = {}

TakenInv(S) ==
  \A r \in DOMAIN S : S[r].fin \cap taken # {} => Settled(S[r])

CacheInv(C, S) ==
  \A c \in C : /\ c.hold.boot = boot
               /\ c.hold.req.r \in DOMAIN S
               /\ S[c.hold.req.r].hold = c.hold

\* With the replay caches C the request cannot be accepted again.
Refused(req, C) ==
  \/ req.exp <= now
  \/ /\ ReplayKey(req) \in DOMAIN C[CacheOf(req.kind)]
     /\ C[CacheOf(req.kind)][ReplayKey(req)] = req.exp

AnswerInv ==
  \A a \in answers :
    /\ a.boot \in Nat /\ a.boot <= boot
    /\ a.req.exp \in Nat /\ a.req.kind \in RequestKinds
    /\ a.boot = boot => Refused(a.req, seen)

KeyInv(S) ==
  \A r, x \in DOMAIN S :
    \A p \in DOMAIN S[r].paths, y \in DOMAIN S[x].paths :
      <<r, p>> # <<x, y>> => KeysOf(S[r].paths[p]) \cap KeysOf(S[x].paths[y]) = {}

ExitInv ==
  /\ ClockInv
  /\ StateInv(states)
  /\ GrantInv(ledger, states, activated)
  /\ BoundInv(activated, states)
  /\ OwnerInv(owners, states)
  /\ TakenInv(states) /\ taken \subseteq answers
  /\ CacheInv(cache, states)
  /\ AnswerInv /\ AnsweredOnce
  /\ KeyInv(states)

(***************************************************************************)
(* purge_expired keeps the maps consistent: the same reservations leave    *)
(* every one of them.                                                      *)
(***************************************************************************)
LEMMA PurgeKeeps ==
  ASSUME ExitInv
  PROVE  /\ DOMAIN PurgedStates \subseteq DOMAIN states
         /\ \A r \in DOMAIN PurgedStates : PurgedStates[r] = states[r]
         /\ PurgedActivated \subseteq activated /\ PurgedOwners \subseteq owners
         /\ PurgedCache \subseteq cache
         /\ StateInv(PurgedStates)
         /\ GrantInv(PurgedLedger, PurgedStates, PurgedActivated)
         /\ BoundInv(PurgedActivated, PurgedStates)
         /\ OwnerInv(PurgedOwners, PurgedStates)
         /\ TakenInv(PurgedStates)
         /\ CacheInv(PurgedCache, PurgedStates)
         /\ KeyInv(PurgedStates)
<1>1. /\ DOMAIN PurgedStates = DOMAIN states \ Removed(now)
      /\ \A r \in DOMAIN PurgedStates : PurgedStates[r] = states[r]
  BY DEF PurgedStates
<1>2. /\ PurgedActivated = activated \ Removed(now) /\ PurgedOwners = owners \ Removed(now)
      /\ \A c \in PurgedCache : c \in cache /\ c.hold.req.r \notin Removed(now)
  BY DEF PurgedActivated, PurgedOwners, PurgedCache
<1>3. \A r \in DOMAIN PurgedLedger.grants :
        /\ r \in DOMAIN ledger.grants /\ r \notin Removed(now)
        /\ PurgedLedger.grants[r] = ledger.grants[r]
  BY DEF PurgedLedger, LedgerPurged, LedgerWithout, LedgerAfterHolds, Removed
<1>4. StateInv(PurgedStates) /\ TakenInv(PurgedStates)
  BY <1>1 DEF ExitInv, StateInv, TakenInv
<1>5. GrantInv(PurgedLedger, PurgedStates, PurgedActivated)
  BY <1>1, <1>2, <1>3 DEF ExitInv, GrantInv
<1>6. BoundInv(PurgedActivated, PurgedStates) /\ OwnerInv(PurgedOwners, PurgedStates)
  BY <1>1, <1>2 DEF ExitInv, BoundInv, OwnerInv
<1>7. CacheInv(PurgedCache, PurgedStates)
  BY <1>1, <1>2 DEF ExitInv, CacheInv
<1>8. KeyInv(PurgedStates)
  BY <1>1 DEF ExitInv, KeyInv
<1> QED BY <1>1, <1>2, <1>4, <1>5, <1>6, <1>7, <1>8

\* The replay cache d still holds every entry of c that has not expired.
Remembers(c, d) == \A k \in DOMAIN Live(c, now) : k \in DOMAIN d /\ d[k] = c[k]

\* A request whose time has come and whose key is not in use.
Fresh(q) ==
  /\ q.kind \in RequestKinds /\ q.exp \in Nat /\ now < q.exp
  /\ ReplayKey(q) \notin DOMAIN Live(seen[CacheOf(q.kind)], now)

(***************************************************************************)
(* Recording a new key forgets only entries that have expired.             *)
(***************************************************************************)
LEMMA RecordRemembers ==
  ASSUME NEW c, NEW k, NEW exp, k \notin DOMAIN Live(c, now)
  PROVE  /\ Remembers(c, Record(c, Once(k, exp), now))
         /\ k \in DOMAIN Record(c, Once(k, exp), now)
         /\ Record(c, Once(k, exp), now)[k] = exp
<1>1. DOMAIN Once(k, exp) = {k} /\ Once(k, exp)[k] = exp
  BY DEF Once
<1>2. /\ DOMAIN Record(c, Once(k, exp), now) = DOMAIN Live(c, now) \cup {k}
      /\ \A x \in DOMAIN Live(c, now) : Record(c, Once(k, exp), now)[x] = c[x]
      /\ Record(c, Once(k, exp), now)[k] = exp
  BY <1>1 DEF Record
<1> QED BY <1>2 DEF Remembers

\* A cache remembers what it remembers.
LEMMA NothingForgotten ==
  ASSUME NEW c
  PROVE  Remembers(c, c)
BY DEF Remembers, Live

(***************************************************************************)
(* A request that passes the opening checks was never answered by this     *)
(* boot.                                                                   *)
(***************************************************************************)
LEMMA FreshUnanswered ==
  ASSUME ExitInv, NEW q, Fresh(q)
  PROVE  \A a \in answers : ~(a.boot = boot /\ a.req = q)
<1> SUFFICES ASSUME NEW a \in answers, a.boot = boot, a.req = q PROVE FALSE
  OBVIOUS
<1>1. Refused(q, seen)
  BY DEF ExitInv, AnswerInv
<1>2. ~(q.exp <= now)
  BY DEF ExitInv, ClockInv, Fresh
<1>3. /\ ReplayKey(q) \in DOMAIN seen[CacheOf(q.kind)]
      /\ seen[CacheOf(q.kind)][ReplayKey(q)] > now
  BY <1>1, <1>2 DEF Refused, Fresh
<1> QED BY <1>3 DEF Live, Fresh

\* A request whose key is unseen was never answered within its window.
LEMMA OpensFresh ==
  ASSUME NEW q, q.kind \in RequestKinds, q.kind # "extend", q.exp \in Nat,
         Opens(q.kind, q, {ReplayKey(q)})
  PROVE  Fresh(q)
BY DEF Opens, InWindow, Unseen, Fresh, CacheOf

(***************************************************************************)
(* Accepted requests: their keys are recorded, older entries that are      *)
(* still needed stay, and the artifacts signed for them are new ones.      *)
(***************************************************************************)
LEMMA AcceptedAnswers ==
  ASSUME ExitInv, NEW Q, \A q \in Q : Fresh(q),
         DOMAIN seen' = DOMAIN seen,
         \A k \in RequestKinds : Remembers(seen[CacheOf(k)], seen'[CacheOf(k)]),
         \A q \in Q : /\ ReplayKey(q) \in DOMAIN seen'[CacheOf(q.kind)]
                      /\ seen'[CacheOf(q.kind)][ReplayKey(q)] = q.exp,
         answers' = answers \cup {Artifact(q) : q \in Q}, now' = now, boot' = boot
  PROVE  /\ ClockInv' /\ AnswerInv' /\ AnsweredOnce'
         /\ \A q \in Q : /\ Artifact(q) \notin answers
                         /\ Artifact(q).req = q /\ Artifact(q).boot = boot
<1>1. \A q \in Q : \A a \in answers : ~(a.boot = boot /\ a.req = q)
  BY FreshUnanswered
<1>2. \A q \in Q : Artifact(q).req = q /\ Artifact(q).boot = boot
  BY DEF Artifact
<1>3. ASSUME NEW a \in answers, a.boot = boot PROVE Refused(a.req, seen)'
  <2>1. Refused(a.req, seen) /\ a.req.kind \in RequestKinds /\ a.req.exp \in Nat
    BY <1>3 DEF ExitInv, AnswerInv
  <2>2. CASE a.req.exp <= now
    BY <2>2 DEF Refused
  <2>3. CASE ~(a.req.exp <= now)
    <3> DEFINE k == ReplayKey(a.req)
               c == CacheOf(a.req.kind)
    <3>1. k \in DOMAIN seen[c] /\ seen[c][k] = a.req.exp /\ a.req.exp > now
      BY <2>1, <2>3 DEF Refused, ExitInv, ClockInv
    <3>2. k \in DOMAIN Live(seen[c], now)
      BY <3>1 DEF Live
    <3>3. k \in DOMAIN seen'[c] /\ seen'[c][k] = a.req.exp
      BY <2>1, <3>1, <3>2 DEF Remembers
    <3> QED BY <3>3 DEF Refused
  <2> QED BY <2>2, <2>3
<1>4. \A q \in Q : Refused(q, seen)'
  BY DEF Refused
<1>5. \A q \in Q : q.exp \in Nat /\ q.kind \in RequestKinds
  BY DEF Fresh
<1> HIDE DEF Artifact
<1>6. AnswerInv'
  <2> SUFFICES ASSUME NEW a \in answers'
               PROVE  /\ a.boot \in Nat /\ a.boot <= boot
                      /\ a.req.exp \in Nat /\ a.req.kind \in RequestKinds
                      /\ a.boot = boot => Refused(a.req, seen)'
    BY DEF AnswerInv
  <2>1. CASE a \in answers
    BY <2>1, <1>3 DEF ExitInv, AnswerInv
  <2>2. CASE \E q \in Q : a = Artifact(q)
    BY <2>2, <1>2, <1>4, <1>5 DEF ExitInv, ClockInv
  <2> QED BY <2>1, <2>2
<1>7. AnsweredOnce'
  BY <1>1, <1>2 DEF ExitInv, AnsweredOnce
<1>8. ClockInv'
  BY DEF ExitInv, ClockInv
<1> QED BY <1>1, <1>2, <1>6, <1>7, <1>8

(***************************************************************************)
(* The usual case: one request, recorded in the cache of its own kind.     *)
(***************************************************************************)
LEMMA AcceptedAnswer ==
  ASSUME ExitInv, NEW q, q.kind \in RequestKinds, q.kind # "extend", q.exp \in Nat,
         Opens(q.kind, q, {ReplayKey(q)}),
         DOMAIN seen' = DOMAIN seen,
         seen'[q.kind] = Record(seen[q.kind], Once(ReplayKey(q), q.exp), now),
         \A k \in RequestKinds \ {"extend"} : k # q.kind => seen'[k] = seen[k],
         answers' = answers \cup {Artifact(q)}, now' = now, boot' = boot
  PROVE  /\ ClockInv' /\ AnswerInv' /\ AnsweredOnce'
         /\ Artifact(q) \notin answers
         /\ Artifact(q).req = q /\ Artifact(q).boot = boot
<1>1. Fresh(q)
  BY OpensFresh
<1>2. /\ Remembers(seen[q.kind], seen'[q.kind])
      /\ ReplayKey(q) \in DOMAIN seen'[q.kind] /\ seen'[q.kind][ReplayKey(q)] = q.exp
  BY <1>1, RecordRemembers DEF Fresh, CacheOf
<1>3. \A k \in RequestKinds : CacheOf(k) \in RequestKinds \ {"extend"}
  BY DEF CacheOf, RequestKinds
<1>4. \A k \in RequestKinds : Remembers(seen[CacheOf(k)], seen'[CacheOf(k)])
  BY <1>2, <1>3, NothingForgotten
<1>5. answers' = answers \cup {Artifact(x) : x \in {q}}
  OBVIOUS
<1>6. CacheOf(q.kind) = q.kind
  BY DEF CacheOf
<1> DEFINE Q == {q}
<1>7. /\ \A x \in Q : Fresh(x)
      /\ \A x \in Q : /\ ReplayKey(x) \in DOMAIN seen'[CacheOf(x.kind)]
                      /\ seen'[CacheOf(x.kind)][ReplayKey(x)] = x.exp
      /\ answers' = answers \cup {Artifact(x) : x \in Q}
  BY <1>1, <1>2, <1>5, <1>6
<1> HIDE DEF Q
<1>8. /\ ClockInv' /\ AnswerInv' /\ AnsweredOnce'
      /\ \A x \in Q : /\ Artifact(x) \notin answers
                      /\ Artifact(x).req = x /\ Artifact(x).boot = boot
  BY <1>4, <1>7, AcceptedAnswers
<1> QED BY <1>8 DEF Q

(***************************************************************************)
(* A handler that adds no path and changes no key of one keeps the keys    *)
(* apart.                                                                  *)
(***************************************************************************)
LEMMA KeyInvKept ==
  ASSUME NEW S, KeyInv(S),
         \A r \in DOMAIN states' : \A p \in DOMAIN states'[r].paths :
           /\ r \in DOMAIN S /\ p \in DOMAIN S[r].paths
           /\ KeysOf(states'[r].paths[p]) = KeysOf(S[r].paths[p])
  PROVE  KeyInv(states)'
BY DEF KeyInv

\* Each kind of request is recorded under its own key.
LEMMA KeysByKind ==
  ASSUME NEW q
  PROVE  /\ q.kind = "hold" => ReplayKey(q) = <<q.r, q.nonce>>
         /\ q.kind = "permit" => ReplayKey(q) = PermitKey(q)
         /\ q.kind = "finalize" => ReplayKey(q) = <<q.hold, q.nonce>>
         /\ q.kind = "confirm" => ReplayKey(q) = ConfirmKey(q)
         /\ q.kind = "extend" => ReplayKey(q) = ExtendKey(q)
BY DEF ReplayKey

\* Hold: ExitInv is kept.
LEMMA HoldStep ==
  ASSUME ExitInv, NEW q \in HoldRequests, NEW via, HoldCapacity(q, via)
  PROVE  ExitInv'
<1> DEFINE S == PurgedStates
           hold == Artifact(q)
<1>1. q.kind = "hold" /\ q.kind \in RequestKinds /\ q.kind # "extend" /\ q.exp \in Nat
  BY ExitAssumption DEF HoldRequest, RequestKinds
<1>2. ReplayKey(q) = <<q.r, q.nonce>>
  BY <1>1, KeysByKind
<1>3. /\ Opens(q.kind, q, {ReplayKey(q)}) /\ q.r \notin DOMAIN S
      /\ ledger' = LedgerAdmit(PurgedLedger, LedgerRequest(q), Secs(now))
      /\ states' = Put(S, q.r, HeldState(hold))
      /\ cache' = PurgedCache \cup {Answer(q, hold, q.exp)}
      /\ answers' = answers \cup {Artifact(q)}
      /\ seen' = [seen EXCEPT !["hold"] = Record(@, Once(<<q.r, q.nonce>>, q.exp), now)]
      /\ activated' = PurgedActivated /\ owners' = PurgedOwners
      /\ now' = now /\ boot' = boot /\ taken' = taken
  BY <1>1, <1>2 DEF HoldCapacity
<1>4. /\ DOMAIN seen' = DOMAIN seen
      /\ seen'[q.kind] = Record(seen[q.kind], Once(ReplayKey(q), q.exp), now)
      /\ \A k \in RequestKinds \ {"extend"} : k # q.kind => seen'[k] = seen[k]
  BY <1>1, <1>2, <1>3 DEF ExitInv, ClockInv, ReplayKinds, RequestKinds
<1>5. /\ ClockInv' /\ AnswerInv' /\ AnsweredOnce'
      /\ Artifact(q).req = q /\ Artifact(q).boot = boot
  BY <1>1, <1>3, <1>4, AcceptedAnswer
<1>6. /\ DOMAIN states' = DOMAIN S \cup {q.r}
      /\ states'[q.r] = HeldState(hold)
      /\ \A x \in DOMAIN S : x # q.r /\ states'[x] = S[x]
  <2> HIDE DEF S
  <2> QED BY <1>3 DEF Put
<1>7. /\ HeldState(hold).phase = "Held" /\ HeldState(hold).hold = hold
      /\ HeldState(hold).fin = {} /\ DOMAIN HeldState(hold).paths = {}
      /\ DOMAIN HeldState(hold).ext = {} /\ PathsOK(HeldState(hold))
  BY DEF HeldState, PathsOK, FinalizedPaths
<1>8. /\ DOMAIN ledger'.grants = DOMAIN PurgedLedger.grants \cup {q.r}
      /\ \A x \in DOMAIN ledger'.grants :
            ledger'.grants[x].state = "Active" =>
              x \in DOMAIN PurgedLedger.grants /\ PurgedLedger.grants[x].state = "Active"
  BY <1>3 DEF LedgerAdmit, LedgerRequest, GrantOf
<1>9. StateInv(states)' /\ TakenInv(states)' /\ KeyInv(states)'
  <2> HIDE DEF S
  <2>1. StateInv(S) /\ TakenInv(S) /\ KeyInv(S)
    BY PurgeKeeps DEF S
  <2>2. StateInv(states)' /\ TakenInv(states)'
    BY <1>3, <1>5, <1>6, <1>7, <2>1 DEF StateInv, TakenInv
  <2>3. KeyInv(states)'
    BY <1>6, <1>7, <2>1, KeyInvKept
  <2> QED BY <2>2, <2>3
<1>10. GrantInv(ledger, states, activated)'
  BY <1>3, <1>6, <1>8, PurgeKeeps DEF GrantInv
<1>11. BoundInv(activated, states)' /\ OwnerInv(owners, states)'
  BY <1>3, <1>6, PurgeKeeps DEF BoundInv, OwnerInv
<1>12. CacheInv(cache, states)'
  BY <1>3, <1>5, <1>6, <1>7, PurgeKeeps DEF CacheInv, Answer
<1>13. (taken \subseteq answers)'
  BY <1>3 DEF ExitInv
<1> QED BY <1>5, <1>9, <1>10, <1>11, <1>12, <1>13 DEF ExitInv

(***************************************************************************)
(* A handler that revises the endpoint state of one reservation without    *)
(* changing its hold, its phase or its finalized bundle, and without       *)
(* taking a finalized path from a relay, keeps the maps consistent.        *)
(***************************************************************************)
LEMMA RevisedState ==
  ASSUME ExitInv, NEW r \in DOMAIN PurgedStates, NEW s,
         states' = Put(PurgedStates, r, s),
         s.hold = PurgedStates[r].hold, s.phase = PurgedStates[r].phase,
         s.fin = PurgedStates[r].fin,
         s.phase = "Held" => DOMAIN s.paths = {} /\ DOMAIN s.ext = {},
         PathsOK(s), Settled(PurgedStates[r]) => Settled(s),
         \A c \in cache' : c \in PurgedCache \/ c.hold = s.hold,
         ledger' = PurgedLedger, activated' = PurgedActivated, owners' = PurgedOwners,
         answers \subseteq answers', boot' = boot, taken' = taken
  PROVE  /\ StateInv(states)' /\ GrantInv(ledger, states, activated)'
         /\ BoundInv(activated, states)' /\ OwnerInv(owners, states)'
         /\ TakenInv(states)' /\ CacheInv(cache, states)' /\ (taken \subseteq answers)'
<1> DEFINE S == PurgedStates
<1>1. /\ StateInv(S) /\ GrantInv(PurgedLedger, S, PurgedActivated)
      /\ BoundInv(PurgedActivated, S) /\ OwnerInv(PurgedOwners, S)
      /\ TakenInv(S) /\ CacheInv(PurgedCache, S)
  BY PurgeKeeps
<1> HIDE DEF S
<1>2. /\ DOMAIN states' = DOMAIN S /\ states'[r] = s
      /\ \A x \in DOMAIN S : x # r => states'[x] = S[x]
  BY DEF Put, S
<1>3. /\ s.hold = S[r].hold /\ s.phase = S[r].phase /\ s.fin = S[r].fin
      /\ Settled(S[r]) => Settled(s)
  BY DEF S
<1>4. \A x \in DOMAIN S :
         /\ states'[x].phase = S[x].phase /\ states'[x].hold = S[x].hold
         /\ states'[x].fin = S[x].fin
         /\ Settled(S[x]) => Settled(states'[x])
  BY <1>2, <1>3
<1>5. s.hold.req.r = r /\ s.hold.boot = boot /\ r \in DOMAIN S
  BY <1>1, <1>3 DEF StateInv, S
<1>6. StateInv(states)'
  BY <1>1, <1>2, <1>4 DEF StateInv
<1>7. TakenInv(states)' /\ OwnerInv(owners, states)'
  BY <1>1, <1>2, <1>4 DEF TakenInv, OwnerInv
<1>8. BoundInv(activated, states)' /\ GrantInv(ledger, states, activated)'
  BY <1>1, <1>2, <1>4 DEF BoundInv, GrantInv
<1>9. CacheInv(cache, states)'
  BY <1>1, <1>2, <1>3, <1>4, <1>5 DEF CacheInv
<1>10. (taken \subseteq answers)'
  BY DEF ExitInv
<1> QED BY <1>6, <1>7, <1>8, <1>9, <1>10

\* Permit: ExitInv is kept.
LEMMA PermitStep ==
  ASSUME ExitInv, NEW q, q.kind = "permit", q.exp \in Nat, NEW via, IssueProbePermit(q, via)
  PROVE  ExitInv'
<1> DEFINE S == PurgedStates
           r == q.hold.req.r
           s == WithPermit(S[r], q.path, Artifact(q))
<1>1. q.kind \in RequestKinds /\ q.kind # "extend" /\ ReplayKey(q) = PermitKey(q)
  BY KeysByKind DEF RequestKinds
<1>2. /\ Opens(q.kind, q, {ReplayKey(q)})
      /\ r \in DOMAIN S /\ S[r].hold = q.hold
      /\ states' = Put(S, r, s)
      /\ cache' = PurgedCache \cup {Answer(q, q.hold, q.exp)}
      /\ answers' = answers \cup {Artifact(q)}
      /\ seen' = [seen EXCEPT !["permit"] = Record(@, Once(PermitKey(q), q.exp), now)]
      /\ ledger' = PurgedLedger /\ activated' = PurgedActivated /\ owners' = PurgedOwners
      /\ now' = now /\ boot' = boot /\ taken' = taken
  BY <1>1 DEF IssueProbePermit, InScope
<1>3. /\ DOMAIN seen' = DOMAIN seen
      /\ seen'[q.kind] = Record(seen[q.kind], Once(ReplayKey(q), q.exp), now)
      /\ \A k \in RequestKinds \ {"extend"} : k # q.kind => seen'[k] = seen[k]
  BY <1>1, <1>2 DEF ExitInv, ClockInv, ReplayKinds, RequestKinds
<1>4. ClockInv' /\ AnswerInv' /\ AnsweredOnce'
  BY <1>1, <1>2, <1>3, AcceptedAnswer
<1>5. /\ s.phase = S[r].phase /\ s.hold = S[r].hold /\ s.fin = S[r].fin /\ s.paths = S[r].paths
      /\ s.ext = S[r].ext
  BY DEF WithPermit
<1>6. StateInv(S) /\ KeyInv(S)
  BY PurgeKeeps
<1> HIDE DEF s, S
<1>7. /\ s.phase = "Held" => DOMAIN s.paths = {} /\ DOMAIN s.ext = {}
      /\ PathsOK(s) /\ (Settled(S[r]) => Settled(s))
  <2>1. FinalizedPaths(s) = FinalizedPaths(S[r]) /\ Confirmed(s) = Confirmed(S[r])
    BY <1>5 DEF FinalizedPaths, Confirmed
  <2> QED BY <1>2, <1>5, <1>6, <2>1 DEF StateInv, PathsOK, Settled
<1>8. \A c \in cache' : c \in PurgedCache \/ c.hold = s.hold
  BY <1>2, <1>5 DEF Answer
<1>9. /\ StateInv(states)' /\ GrantInv(ledger, states, activated)'
      /\ BoundInv(activated, states)' /\ OwnerInv(owners, states)'
      /\ TakenInv(states)' /\ CacheInv(cache, states)' /\ (taken \subseteq answers)'
  BY <1>2, <1>5, <1>7, <1>8, RevisedState DEF S
<1>10. KeyInv(states)'
  <2>1. \A x \in DOMAIN states' : x \in DOMAIN S /\ states'[x].paths = S[x].paths
    BY <1>2, <1>5 DEF Put
  <2> QED BY <2>1, <1>6, KeyInvKept
<1> QED BY <1>4, <1>9, <1>10 DEF ExitInv

(***************************************************************************)
(* A path added with keys that are new everywhere keeps the keys apart.    *)
(***************************************************************************)
LEMMA KeyInvAdded ==
  ASSUME NEW S, KeyInv(S), NEW r \in DOMAIN S, NEW s, NEW N,
         DOMAIN states' = DOMAIN S, states'[r] = s,
         \A x \in DOMAIN S : x # r => states'[x] = S[x],
         \A p \in DOMAIN s.paths \ N :
           p \in DOMAIN S[r].paths /\ KeysOf(s.paths[p]) = KeysOf(S[r].paths[p]),
         \A p \in N : KeysOf(s.paths[p]) \cap KeysInUse(S) = {},
         \A p, y \in N : p # y => KeysOf(s.paths[p]) \cap KeysOf(s.paths[y]) = {}
  PROVE  KeyInv(states)'
<1>1. \A x \in DOMAIN S : \A y \in DOMAIN S[x].paths :
        KeysOf(S[x].paths[y]) \subseteq KeysInUse(S)
  BY DEF KeysInUse
<1> SUFFICES ASSUME NEW a \in DOMAIN states', NEW x \in DOMAIN states',
                    NEW p \in DOMAIN states'[a].paths, NEW y \in DOMAIN states'[x].paths,
                    <<a, p>> # <<x, y>>
             PROVE  KeysOf(states'[a].paths[p]) \cap KeysOf(states'[x].paths[y]) = {}
  BY DEF KeyInv
<1> DEFINE Old(b, z) == ~(b = r /\ z \in N)
<1>2. ASSUME NEW b \in DOMAIN S, NEW z \in DOMAIN states'[b].paths, Old(b, z)
      PROVE  z \in DOMAIN S[b].paths /\ KeysOf(states'[b].paths[z]) = KeysOf(S[b].paths[z])
  BY <1>2
<1>3. CASE Old(a, p) /\ Old(x, y)
  <2>1. /\ p \in DOMAIN S[a].paths /\ KeysOf(states'[a].paths[p]) = KeysOf(S[a].paths[p])
        /\ y \in DOMAIN S[x].paths /\ KeysOf(states'[x].paths[y]) = KeysOf(S[x].paths[y])
    BY <1>2, <1>3
  <2> QED BY <2>1 DEF KeyInv
<1>4. CASE Old(a, p) /\ ~Old(x, y)
  <2>1. p \in DOMAIN S[a].paths /\ KeysOf(states'[a].paths[p]) = KeysOf(S[a].paths[p])
    BY <1>2, <1>4
  <2> QED BY <2>1, <1>1, <1>4
<1>5. CASE ~Old(a, p) /\ Old(x, y)
  <2>1. y \in DOMAIN S[x].paths /\ KeysOf(states'[x].paths[y]) = KeysOf(S[x].paths[y])
    BY <1>2, <1>5
  <2> QED BY <2>1, <1>1, <1>5
<1>6. CASE ~Old(a, p) /\ ~Old(x, y)
  BY <1>6
<1> QED BY <1>3, <1>4, <1>5, <1>6

\* Finalize: ExitInv is kept.
LEMMA FinalizeStep ==
  ASSUME ExitInv, NEW q, q.kind = "finalize", q.exp \in Nat, NEW via,
         FinalizeReservation(q, via)
  PROVE  ExitInv'
<1> DEFINE S == PurgedStates
           r == q.hold.req.r
<1>1. q.kind \in RequestKinds /\ q.kind # "extend" /\ ReplayKey(q) = <<q.hold, q.nonce>>
  BY KeysByKind DEF RequestKinds
<1>2. PICK endpoint \in [DOMAIN q.permits -> Keys] :
        /\ KeysFresh(S, q.clientKeys, endpoint)
        /\ states' = Put(S, r, FinalizedState(S[r], Artifact(q), FinalPaths(q, endpoint)))
  BY DEF FinalizeReservation
<1> DEFINE s == FinalizedState(S[r], Artifact(q), FinalPaths(q, endpoint))
<1>3. /\ Opens(q.kind, q, {ReplayKey(q)})
      /\ r \in DOMAIN S /\ S[r].hold = q.hold /\ q.hold.boot = boot /\ S[r].phase = "Held"
      /\ cache' \subseteq PurgedCache \cup {Answer(q, q.hold, q.exp)}
      /\ answers' = answers \cup {Artifact(q)}
      /\ owners' = PurgedOwners \cup {r}
      /\ ledger' = PurgedLedger /\ activated' = PurgedActivated
      /\ now' = now /\ boot' = boot /\ taken' = taken
  BY <1>1 DEF FinalizeReservation, InScope
<1>4. seen' = [seen EXCEPT
                 !["finalize"] = Record(@, Once(<<q.hold, q.nonce>>, q.exp), now),
                 !["probe"] = Record(@, ProbeEntries(q), now)]
  BY DEF FinalizeReservation
<1>5. /\ DOMAIN seen' = DOMAIN seen
      /\ seen'[q.kind] = Record(seen[q.kind], Once(ReplayKey(q), q.exp), now)
      /\ \A k \in RequestKinds \ {"extend"} : k # q.kind => seen'[k] = seen[k]
  BY <1>1, <1>4 DEF ExitInv, ClockInv, ReplayKinds, RequestKinds
<1>6. /\ ClockInv' /\ AnswerInv' /\ AnsweredOnce'
      /\ Artifact(q) \notin answers /\ Artifact(q).req = q
  BY <1>1, <1>3, <1>5, AcceptedAnswer
<1>7. Artifact(q) \notin taken
  BY <1>6 DEF ExitInv
<1>8. /\ s.phase = "Finalized" /\ s.hold = S[r].hold /\ s.fin = {Artifact(q)}
      /\ s.paths = FinalPaths(q, endpoint) /\ s.ext = S[r].ext
  BY DEF FinalizedState
<1>9. /\ StateInv(S) /\ GrantInv(PurgedLedger, S, PurgedActivated)
      /\ BoundInv(PurgedActivated, S) /\ OwnerInv(PurgedOwners, S)
      /\ TakenInv(S) /\ CacheInv(PurgedCache, S) /\ KeyInv(S)
  BY PurgeKeeps
<1> HIDE DEF s, S
<1>10. /\ DOMAIN states' = DOMAIN S /\ states'[r] = s
       /\ \A x \in DOMAIN S : x # r => states'[x] = S[x]
  BY <1>2, <1>3 DEF Put, s
<1>11. StateInv(states)'
  <2>1. FinalizedPaths(s) = DOMAIN q.permits /\ DOMAIN s.paths = DOMAIN q.permits
    BY <1>6, <1>8 DEF FinalizedPaths, FinalPaths
  <2>2. DOMAIN s.ext = {}
    BY <1>3, <1>8, <1>9 DEF StateInv
  <2>3. PathsOK(s)
    BY <2>1, <2>2 DEF PathsOK
  <2> QED BY <1>3, <1>6, <1>8, <1>9, <1>10, <2>3 DEF StateInv
<1>12. TakenInv(states)' /\ OwnerInv(owners, states)'
  BY <1>3, <1>7, <1>8, <1>9, <1>10 DEF TakenInv, OwnerInv
<1>13. BoundInv(activated, states)' /\ GrantInv(ledger, states, activated)'
  BY <1>3, <1>9, <1>10 DEF BoundInv, GrantInv
<1>14. CacheInv(cache, states)'
  BY <1>3, <1>8, <1>9, <1>10 DEF CacheInv, Answer
<1>15. KeyInv(states)'
  <2> DEFINE N == DOMAIN s.paths
  <2>1. /\ DOMAIN s.paths = DOMAIN endpoint
        /\ \A p \in DOMAIN endpoint : KeysOf(s.paths[p]) = {q.clientKeys[p], endpoint[p]}
    BY <1>2, <1>8 DEF FinalPaths, KeysOf
  <2>2. /\ \A p \in N : KeysOf(s.paths[p]) \cap KeysInUse(S) = {}
        /\ \A p, y \in N : p # y => KeysOf(s.paths[p]) \cap KeysOf(s.paths[y]) = {}
    BY <1>2, <2>1 DEF KeysFresh
  <2>3. \A p \in DOMAIN s.paths \ N :
          p \in DOMAIN S[r].paths /\ KeysOf(s.paths[p]) = KeysOf(S[r].paths[p])
    OBVIOUS
  <2> HIDE DEF N
  <2> QED BY <1>3, <1>9, <1>10, <2>2, <2>3, KeyInvAdded
<1>16. (taken \subseteq answers)'
  BY <1>3 DEF ExitInv
<1> QED BY <1>6, <1>11, <1>12, <1>13, <1>14, <1>15, <1>16 DEF ExitInv

\* A relay's grant is stored on a path that has none; nothing else changes.
LEMMA GrantStored ==
  ASSUME NEW t, NEW grant, grant.path \in DOMAIN t.paths, t.paths[grant.path].grant = {},
         NEW s, s = WithGrant(t, grant)
  PROVE  /\ s.phase = t.phase /\ s.hold = t.hold /\ s.fin = t.fin /\ s.ext = t.ext
         /\ s.permits = t.permits
         /\ DOMAIN s.paths = DOMAIN t.paths
         /\ \A p \in DOMAIN t.paths : KeysOf(s.paths[p]) = KeysOf(t.paths[p])
         /\ \A p \in Confirmed(t) : s.paths[p] = t.paths[p]
         /\ Confirmed(s) = Confirmed(t) \cup {grant.path}
<1>1. /\ s.phase = t.phase /\ s.hold = t.hold /\ s.fin = t.fin /\ s.ext = t.ext
      /\ s.permits = t.permits
      /\ DOMAIN s.paths = DOMAIN t.paths
      /\ \A p \in DOMAIN t.paths : KeysOf(s.paths[p]) = KeysOf(t.paths[p])
      /\ \A p \in DOMAIN t.paths : p # grant.path => s.paths[p] = t.paths[p]
      /\ s.paths[grant.path].grant = {grant}
  BY DEF WithGrant, Put, KeysOf
<1>2. /\ \A p \in Confirmed(t) : s.paths[p] = t.paths[p]
      /\ Confirmed(s) = Confirmed(t) \cup {grant.path}
  BY <1>1 DEF Confirmed
<1> QED BY <1>1, <1>2

\* Confirm: ExitInv is kept.
LEMMA ConfirmStep ==
  ASSUME ExitInv, NEW q, q.kind = "confirm", q.exp \in Nat, NEW via, ConfirmRelay(q, via)
  PROVE  ExitInv'
<1> DEFINE S == PurgedStates
           hold == q.grant.fin.req.hold
           r == hold.req.r
           s == WithGrant(S[r], q.grant)
<1>1. q.kind \in RequestKinds /\ q.kind # "extend" /\ ReplayKey(q) = ConfirmKey(q)
  BY KeysByKind DEF RequestKinds
<1>2. /\ Opens(q.kind, q, {ReplayKey(q)})
      /\ r \in DOMAIN S /\ S[r].hold = hold /\ S[r].phase = "Finalized"
      /\ q.grant.path \in DOMAIN S[r].paths /\ S[r].paths[q.grant.path].grant = {}
      /\ states' = Put(S, r, s)
      /\ cache' = PurgedCache \cup {Answer(q, hold, q.exp)}
      /\ answers' = answers \cup {Artifact(q)}
      /\ ledger' = PurgedLedger /\ activated' = PurgedActivated /\ owners' = PurgedOwners
      /\ now' = now /\ boot' = boot /\ taken' = taken
  BY <1>1 DEF ConfirmRelay, Confirms, InScope
<1>3. \E e : seen' = [seen EXCEPT !["confirm"] = Record(@, Once(ConfirmKey(q), q.exp), now),
                                  !["grant"] = Record(@, e, now)]
  BY DEF ConfirmRelay
<1>4. /\ DOMAIN seen' = DOMAIN seen
      /\ seen'[q.kind] = Record(seen[q.kind], Once(ReplayKey(q), q.exp), now)
      /\ \A k \in RequestKinds \ {"extend"} : k # q.kind => seen'[k] = seen[k]
  BY <1>1, <1>3 DEF ExitInv, ClockInv, ReplayKinds, RequestKinds
<1>5. ClockInv' /\ AnswerInv' /\ AnsweredOnce'
  BY <1>1, <1>2, <1>4, AcceptedAnswer
<1>6. /\ s.phase = S[r].phase /\ s.hold = S[r].hold /\ s.fin = S[r].fin /\ s.ext = S[r].ext
      /\ DOMAIN s.paths = DOMAIN S[r].paths
      /\ \A p \in DOMAIN s.paths : KeysOf(s.paths[p]) = KeysOf(S[r].paths[p])
      /\ Confirmed(S[r]) \subseteq Confirmed(s)
  <2> HIDE DEF S, r
  <2> QED BY <1>2, GrantStored
<1>7. StateInv(S) /\ KeyInv(S)
  BY PurgeKeeps
<1> HIDE DEF s, S
<1>8. PathsOK(s) /\ s.phase # "Held" /\ (Settled(S[r]) => Settled(s))
  <2>1. FinalizedPaths(s) = FinalizedPaths(S[r])
    BY <1>6 DEF FinalizedPaths
  <2> HIDE DEF r
  <2>2. PathsOK(S[r])
    BY <1>2, <1>7 DEF StateInv
  <2> QED BY <1>2, <1>6, <2>1, <2>2 DEF PathsOK, Settled
<1>9. \A c \in cache' : c \in PurgedCache \/ c.hold = s.hold
  <2> HIDE DEF hold
  <2>1. Answer(q, hold, q.exp).hold = hold
    BY DEF Answer
  <2> QED BY <1>2, <1>6, <2>1
<1>10. /\ StateInv(states)' /\ GrantInv(ledger, states, activated)'
       /\ BoundInv(activated, states)' /\ OwnerInv(owners, states)'
       /\ TakenInv(states)' /\ CacheInv(cache, states)' /\ (taken \subseteq answers)'
  BY <1>2, <1>6, <1>8, <1>9, RevisedState DEF S
<1>11. KeyInv(states)'
  <2>1. /\ DOMAIN states' = DOMAIN S /\ states'[r] = s
        /\ \A x \in DOMAIN S : x # r => states'[x] = S[x]
    BY <1>2 DEF Put
  <2> HIDE DEF hold, r
  <2> QED BY <1>6, <1>7, <2>1, KeyInvKept
<1> QED BY <1>5, <1>10, <1>11 DEF ExitInv

(***************************************************************************)
(* The five outcomes of extend_route_with.                                 *)
(***************************************************************************)
LEMMA ExtensionShape ==
  ASSUME NEW t, NEW q, NEW deadline, NEW permits, NEW paths, NEW s,
         s = WithExtension(t, q, deadline, permits, paths)
  PROVE  /\ s.phase = t.phase /\ s.hold = t.hold /\ s.fin = t.fin
         /\ s.paths = paths /\ s.permits = permits
         /\ FinalizedPaths(s) = FinalizedPaths(t)
         /\ DOMAIN s.ext = DOMAIN t.ext \cup {q.id}
         /\ \A x \in DOMAIN t.ext : x # q.id => s.ext[x] = t.ext[x]
         /\ s.ext[q.id].path = q.path /\ s.ext[q.id].phase = q.phase
         /\ s.ext[q.id].relay = q.relay /\ s.ext[q.id].deadline = deadline
<1>1. /\ s.phase = t.phase /\ s.hold = t.hold /\ s.fin = t.fin
      /\ s.paths = paths /\ s.permits = permits
      /\ s.ext = Put(t.ext, q.id, [path |-> q.path, relay |-> q.relay, phase |-> q.phase,
                                   deadline |-> deadline])
  BY DEF WithExtension
<1>2. /\ DOMAIN s.ext = DOMAIN t.ext \cup {q.id}
      /\ \A x \in DOMAIN t.ext : x # q.id => s.ext[x] = t.ext[x]
      /\ s.ext[q.id] = [path |-> q.path, relay |-> q.relay, phase |-> q.phase,
                        deadline |-> deadline]
  BY <1>1 DEF Put
<1>3. /\ s.ext[q.id].path = q.path /\ s.ext[q.id].phase = q.phase
      /\ s.ext[q.id].relay = q.relay /\ s.ext[q.id].deadline = deadline
  BY <1>2
<1>4. FinalizedPaths(s) = FinalizedPaths(t)
  BY <1>1 DEF FinalizedPaths
<1> QED BY <1>1, <1>2, <1>3, <1>4

\* An accepted phase was not answered before; its key goes to finalize's cache.
LEMMA ExtensionFresh ==
  ASSUME NEW q, q.kind = "extend", q.exp \in Nat, NEW via, ExtensionOpens(q, via)
  PROVE  Fresh(q) /\ ReplayKey(q) = ExtendKey(q) /\ CacheOf(q.kind) = "finalize"
<1>1. /\ ReplayKey(q) = ExtendKey(q) /\ CacheOf(q.kind) = "finalize"
      /\ q.kind \in RequestKinds
  BY KeysByKind DEF CacheOf, RequestKinds
<1> QED BY <1>1 DEF ExtensionOpens, InWindow, Unseen, Fresh

\* The record of one phase, without an embedded confirmation.
LEMMA ExtensionAnswer ==
  ASSUME ExitInv, NEW q, q.kind = "extend", q.exp \in Nat, NEW via, ExtensionOpens(q, via),
         answers' = answers \cup {Artifact(q)},
         seen' = [seen EXCEPT !["finalize"] = RecordExtend(q)],
         now' = now, boot' = boot
  PROVE  ClockInv' /\ AnswerInv' /\ AnsweredOnce'
<1> DEFINE Q == {q}
<1>1. Fresh(q) /\ ReplayKey(q) = ExtendKey(q) /\ CacheOf(q.kind) = "finalize"
  BY ExtensionFresh
<1>2. /\ DOMAIN seen' = DOMAIN seen
      /\ seen'["finalize"] = RecordExtend(q)
      /\ \A k \in ReplayKinds : k # "finalize" => seen'[k] = seen[k]
  BY DEF ExitInv, ClockInv, ReplayKinds
<1>3. /\ Remembers(seen["finalize"], seen'["finalize"])
      /\ ReplayKey(q) \in DOMAIN seen'["finalize"] /\ seen'["finalize"][ReplayKey(q)] = q.exp
  BY <1>1, <1>2, RecordRemembers DEF Fresh, RecordExtend
<1>4. \A k \in RequestKinds : CacheOf(k) \in ReplayKinds
  BY DEF CacheOf, RequestKinds, ReplayKinds
<1>5. \A k \in RequestKinds : Remembers(seen[CacheOf(k)], seen'[CacheOf(k)])
  BY <1>2, <1>3, <1>4, NothingForgotten
<1>6. /\ \A x \in Q : Fresh(x)
      /\ \A x \in Q : /\ ReplayKey(x) \in DOMAIN seen'[CacheOf(x.kind)]
                      /\ seen'[CacheOf(x.kind)][ReplayKey(x)] = x.exp
      /\ answers' = answers \cup {Artifact(x) : x \in Q}
  BY <1>1, <1>3
<1> HIDE DEF Q
<1> QED BY <1>2, <1>5, <1>6, AcceptedAnswers

\* What the phases have in common: the parent they revise and what they leave alone.
LEMMA ExtensionScope ==
  ASSUME ExitInv, NEW q, NEW via, NEW s, NEW r, r = q.fin.req.hold.req.r,
         ExtensionOpens(q, via), ExtensionAnswered(q, s)
  PROVE  /\ r \in DOMAIN PurgedStates /\ Parent(q) = PurgedStates[r]
         /\ PurgedStates[r].phase = "Finalized" /\ PathsOK(PurgedStates[r])
         /\ states' = Put(PurgedStates, r, s)
         /\ DOMAIN states' = DOMAIN PurgedStates /\ states'[r] = s
         /\ \A x \in DOMAIN PurgedStates : x # r => states'[x] = PurgedStates[x]
         /\ ledger' = PurgedLedger /\ activated' = PurgedActivated /\ owners' = PurgedOwners
         /\ now' = now /\ boot' = boot /\ taken' = taken
<1> DEFINE S == PurgedStates
<1>1. /\ r \in DOMAIN S /\ Parent(q) = S[r] /\ S[r].phase = "Finalized"
      /\ states' = Put(S, r, s)
      /\ ledger' = PurgedLedger /\ activated' = PurgedActivated /\ owners' = PurgedOwners
      /\ now' = now /\ boot' = boot /\ taken' = taken
  BY DEF ExtensionOpens, InScope, ExtensionAnswered, Parent
<1>2. StateInv(S)
  BY PurgeKeeps
<1> HIDE DEF S
<1>3. /\ DOMAIN states' = DOMAIN S /\ states'[r] = s
      /\ \A x \in DOMAIN S : x # r => states'[x] = S[x]
  BY <1>1 DEF Put
<1>4. PathsOK(S[r])
  BY <1>1, <1>2 DEF StateInv
<1> QED BY <1>1, <1>3, <1>4 DEF S

\* ExtendProbe: ExitInv is kept.
LEMMA ExtendProbeStep ==
  ASSUME ExitInv, NEW q, q.kind = "extend", q.exp \in Nat, NEW via, ExtendProbe(q, via)
  PROVE  ExitInv'
<1> DEFINE r == q.fin.req.hold.req.r
           t == PurgedStates[r]
           s == WithExtension(Parent(q), q, q.exp, Put(Parent(q).permits, q.path, Artifact(q)),
                              Parent(q).paths)
<1>1. /\ ExtensionOpens(q, via) /\ ExtensionAnswered(q, s)
      /\ q.phase = "Probe" /\ q.id \notin DOMAIN Parent(q).ext /\ NewPath(Parent(q), q)
      /\ answers' = answers \cup {Artifact(q)}
      /\ seen' = [seen EXCEPT !["finalize"] = RecordExtend(q)]
      /\ cache' = PurgedCache
  BY DEF ExtendProbe
<1> HIDE DEF s, r
<1>2. /\ r \in DOMAIN PurgedStates /\ Parent(q) = t /\ t.phase = "Finalized" /\ PathsOK(t)
      /\ states' = Put(PurgedStates, r, s)
      /\ DOMAIN states' = DOMAIN PurgedStates /\ states'[r] = s
      /\ \A x \in DOMAIN PurgedStates : x # r => states'[x] = PurgedStates[x]
      /\ ledger' = PurgedLedger /\ activated' = PurgedActivated /\ owners' = PurgedOwners
      /\ now' = now /\ boot' = boot /\ taken' = taken
  BY <1>1, ExtensionScope DEF r
<1>3. ClockInv' /\ AnswerInv' /\ AnsweredOnce'
  BY <1>1, <1>2, ExtensionAnswer
<1>4. /\ s.phase = t.phase /\ s.hold = t.hold /\ s.fin = t.fin /\ s.paths = t.paths
      /\ FinalizedPaths(s) = FinalizedPaths(t)
      /\ DOMAIN s.ext = DOMAIN t.ext \cup {q.id}
      /\ \A x \in DOMAIN t.ext : x # q.id => s.ext[x] = t.ext[x]
      /\ s.ext[q.id].path = q.path /\ s.ext[q.id].phase = q.phase
  BY <1>2, ExtensionShape DEF s
<1>5. Confirmed(s) = Confirmed(t) /\ s.phase # "Held"
  BY <1>2, <1>4 DEF Confirmed
<1>6. PathsOK(s) /\ (Settled(t) => Settled(s))
  BY <1>1, <1>2, <1>4, <1>5 DEF PathsOK, Settled, NewPath
<1>7. /\ StateInv(states)' /\ GrantInv(ledger, states, activated)'
      /\ BoundInv(activated, states)' /\ OwnerInv(owners, states)'
      /\ TakenInv(states)' /\ CacheInv(cache, states)' /\ (taken \subseteq answers)'
  BY <1>1, <1>2, <1>4, <1>5, <1>6, RevisedState
<1>8. KeyInv(states)'
  BY <1>2, <1>4, PurgeKeeps, KeyInvKept
<1> QED BY <1>3, <1>7, <1>8 DEF ExitInv

\* ExtendAuthorize: ExitInv is kept.
LEMMA ExtendAuthorizeStep ==
  ASSUME ExitInv, NEW q, q.kind = "extend", q.exp \in Nat, NEW via, ExtendAuthorize(q, via)
  PROVE  ExitInv'
<1> DEFINE r == q.fin.req.hold.req.r
           t == PurgedStates[r]
<1>0. PICK clientKey \in q.body, exitKey \in Keys :
        /\ KeysFresh(PurgedStates, Once(q.path, clientKey), Once(q.path, exitKey))
        /\ ExtensionAnswered(q, WithExtension(Parent(q), q, Retained(q).deadline, Parent(q).permits,
             Put(Parent(q).paths, q.path, [relay |-> q.relay, clientKey |-> clientKey,
                                           exitKey |-> exitKey, grant |-> {}])))
  BY DEF ExtendAuthorize
<1> DEFINE path == [relay |-> q.relay, clientKey |-> clientKey, exitKey |-> exitKey, grant |-> {}]
           paths == Put(Parent(q).paths, q.path, path)
           s == WithExtension(Parent(q), q, Retained(q).deadline, Parent(q).permits, paths)
<1>1. /\ ExtensionOpens(q, via) /\ ExtensionAnswered(q, s)
      /\ q.phase = "Authorize" /\ q.id \in DOMAIN Parent(q).ext
      /\ Parent(q).ext[q.id].path = q.path /\ Parent(q).ext[q.id].phase = "Probe"
      /\ answers' = answers \cup {Artifact(q)}
      /\ seen' = [seen EXCEPT !["finalize"] = RecordExtend(q)]
      /\ cache' = PurgedCache
  BY <1>0 DEF ExtendAuthorize, Continues, Retained
<1> HIDE DEF s, r
<1>2. /\ r \in DOMAIN PurgedStates /\ Parent(q) = t /\ t.phase = "Finalized" /\ PathsOK(t)
      /\ states' = Put(PurgedStates, r, s)
      /\ DOMAIN states' = DOMAIN PurgedStates /\ states'[r] = s
      /\ \A x \in DOMAIN PurgedStates : x # r => states'[x] = PurgedStates[x]
      /\ ledger' = PurgedLedger /\ activated' = PurgedActivated /\ owners' = PurgedOwners
      /\ now' = now /\ boot' = boot /\ taken' = taken
  BY <1>1, ExtensionScope DEF r
<1>3. ClockInv' /\ AnswerInv' /\ AnsweredOnce'
  BY <1>1, <1>2, ExtensionAnswer
<1>4. /\ s.phase = t.phase /\ s.hold = t.hold /\ s.fin = t.fin /\ s.paths = paths
      /\ FinalizedPaths(s) = FinalizedPaths(t)
      /\ DOMAIN s.ext = DOMAIN t.ext \cup {q.id}
      /\ \A x \in DOMAIN t.ext : x # q.id => s.ext[x] = t.ext[x]
      /\ s.ext[q.id].path = q.path /\ s.ext[q.id].phase = q.phase
  BY <1>2, ExtensionShape DEF s
<1>5. /\ DOMAIN s.paths = DOMAIN t.paths \cup {q.path} /\ q.path \notin DOMAIN t.paths
      /\ \A p \in DOMAIN t.paths : s.paths[p] = t.paths[p]
      /\ KeysOf(s.paths[q.path]) = {clientKey, exitKey}
  <2>1. q.path \notin DOMAIN t.paths
    BY <1>1, <1>2 DEF PathsOK
  <2>2. KeysOf(path) = {clientKey, exitKey}
    BY DEF KeysOf
  <2> HIDE DEF path
  <2> QED BY <1>2, <1>4, <2>1, <2>2 DEF Put
<1> HIDE DEF paths, path
<1>6. Confirmed(t) \subseteq Confirmed(s) /\ s.phase # "Held"
  BY <1>2, <1>4, <1>5 DEF Confirmed
<1>7. PathsOK(s) /\ (Settled(t) => Settled(s))
  BY <1>1, <1>2, <1>4, <1>5, <1>6 DEF PathsOK, Settled
<1>8. /\ StateInv(states)' /\ GrantInv(ledger, states, activated)'
      /\ BoundInv(activated, states)' /\ OwnerInv(owners, states)'
      /\ TakenInv(states)' /\ CacheInv(cache, states)' /\ (taken \subseteq answers)'
  BY <1>1, <1>2, <1>4, <1>6, <1>7, RevisedState
<1>9. KeyInv(states)'
  <2> DEFINE S == PurgedStates
             N == {q.path}
  <2>1. KeyInv(S) /\ r \in DOMAIN S
    BY <1>2, PurgeKeeps
  <2>2. {clientKey, exitKey} \cap KeysInUse(S) = {}
    BY <1>0 DEF KeysFresh, Once
  <2> HIDE DEF S
  <2>3. \A p \in N : KeysOf(s.paths[p]) \cap KeysInUse(S) = {}
    BY <1>5, <2>2
  <2>4. \A p \in DOMAIN s.paths \ N :
          p \in DOMAIN S[r].paths /\ KeysOf(s.paths[p]) = KeysOf(S[r].paths[p])
    BY <1>5 DEF S
  <2>5. \A p, y \in N : p # y => KeysOf(s.paths[p]) \cap KeysOf(s.paths[y]) = {}
    OBVIOUS
  <2>6. /\ DOMAIN states' = DOMAIN S /\ states'[r] = s
        /\ \A x \in DOMAIN S : x # r => states'[x] = S[x]
    BY <1>2 DEF S
  <2> HIDE DEF N
  <2> QED BY <2>1, <2>3, <2>4, <2>5, <2>6, KeyInvAdded
<1> QED BY <1>3, <1>8, <1>9 DEF ExitInv

\* ExtendAbort: ExitInv is kept.
LEMMA ExtendAbortStep ==
  ASSUME ExitInv, NEW q, q.kind = "extend", q.exp \in Nat, NEW via, ExtendAbort(q, via)
  PROVE  ExitInv'
<1> DEFINE r == q.fin.req.hold.req.r
           t == PurgedStates[r]
           paths == Without(Parent(q).paths, q.path)
           s == WithExtension(Parent(q), q, Retained(q).deadline, Without(Parent(q).permits, q.path),
                              paths)
<1>1. /\ ExtensionOpens(q, via) /\ ExtensionAnswered(q, s)
      /\ q.phase = "Abort" /\ q.id \in DOMAIN Parent(q).ext
      /\ Parent(q).ext[q.id].path = q.path /\ q.path \notin Confirmed(Parent(q))
      /\ answers' = answers \cup {Artifact(q)}
      /\ seen' = [seen EXCEPT !["finalize"] = RecordExtend(q)]
      /\ cache' = PurgedCache
  BY DEF ExtendAbort, Continues, Retained, Abortable
<1> HIDE DEF s, r
<1>2. /\ r \in DOMAIN PurgedStates /\ Parent(q) = t /\ t.phase = "Finalized" /\ PathsOK(t)
      /\ states' = Put(PurgedStates, r, s)
      /\ DOMAIN states' = DOMAIN PurgedStates /\ states'[r] = s
      /\ \A x \in DOMAIN PurgedStates : x # r => states'[x] = PurgedStates[x]
      /\ ledger' = PurgedLedger /\ activated' = PurgedActivated /\ owners' = PurgedOwners
      /\ now' = now /\ boot' = boot /\ taken' = taken
  BY <1>1, ExtensionScope DEF r
<1>3. ClockInv' /\ AnswerInv' /\ AnsweredOnce'
  BY <1>1, <1>2, ExtensionAnswer
<1>4. /\ s.phase = t.phase /\ s.hold = t.hold /\ s.fin = t.fin /\ s.paths = paths
      /\ FinalizedPaths(s) = FinalizedPaths(t)
      /\ DOMAIN s.ext = DOMAIN t.ext \cup {q.id}
      /\ \A x \in DOMAIN t.ext : x # q.id => s.ext[x] = t.ext[x]
      /\ s.ext[q.id].path = q.path /\ s.ext[q.id].phase = q.phase
  BY <1>2, ExtensionShape DEF s
<1>5. /\ DOMAIN s.paths = DOMAIN t.paths \ {q.path}
      /\ \A p \in DOMAIN s.paths : s.paths[p] = t.paths[p]
  BY <1>2, <1>4 DEF Without
<1> HIDE DEF paths
<1>6. Confirmed(s) = Confirmed(t) /\ s.phase # "Held"
  BY <1>1, <1>2, <1>4, <1>5 DEF Confirmed
<1>7. PathsOK(s) /\ (Settled(t) => Settled(s))
  BY <1>1, <1>2, <1>4, <1>5, <1>6 DEF PathsOK, Settled
<1>8. /\ StateInv(states)' /\ GrantInv(ledger, states, activated)'
      /\ BoundInv(activated, states)' /\ OwnerInv(owners, states)'
      /\ TakenInv(states)' /\ CacheInv(cache, states)' /\ (taken \subseteq answers)'
  BY <1>1, <1>2, <1>4, <1>6, <1>7, RevisedState
<1>9. KeyInv(states)'
  BY <1>2, <1>5, PurgeKeeps, KeyInvKept
<1> QED BY <1>3, <1>8, <1>9 DEF ExitInv

\* ExtendCommitConfirmed: ExitInv is kept.
LEMMA ExtendCommitConfirmedStep ==
  ASSUME ExitInv, NEW q, q.kind = "extend", q.exp \in Nat, NEW c, NEW via,
         ExtendCommitConfirmed(q, c, via)
  PROVE  ExitInv'
<1> DEFINE r == q.fin.req.hold.req.r
           t == PurgedStates[r]
           paths == Parent(q).paths
           s == WithExtension(Parent(q), q, Retained(q).deadline, Parent(q).permits, paths)
<1>1. /\ ExtensionOpens(q, via) /\ ExtensionAnswered(q, s)
      /\ q.phase = "Commit" /\ q.id \in DOMAIN Parent(q).ext
      /\ Parent(q).ext[q.id].path = q.path
      /\ answers' = answers \cup {Artifact(q)}
      /\ seen' = [seen EXCEPT !["finalize"] = RecordExtend(q)]
      /\ cache' = PurgedCache
  BY DEF ExtendCommitConfirmed, CommitsInOrder, Continues, Retained
<1> HIDE DEF s, r
<1>2. /\ r \in DOMAIN PurgedStates /\ Parent(q) = t /\ t.phase = "Finalized" /\ PathsOK(t)
      /\ states' = Put(PurgedStates, r, s)
      /\ DOMAIN states' = DOMAIN PurgedStates /\ states'[r] = s
      /\ \A x \in DOMAIN PurgedStates : x # r => states'[x] = PurgedStates[x]
      /\ ledger' = PurgedLedger /\ activated' = PurgedActivated /\ owners' = PurgedOwners
      /\ now' = now /\ boot' = boot /\ taken' = taken
  BY <1>1, ExtensionScope DEF r
<1>3. ClockInv' /\ AnswerInv' /\ AnsweredOnce'
  BY <1>1, <1>2, ExtensionAnswer
<1>4. /\ s.phase = t.phase /\ s.hold = t.hold /\ s.fin = t.fin /\ s.paths = paths
      /\ FinalizedPaths(s) = FinalizedPaths(t)
      /\ DOMAIN s.ext = DOMAIN t.ext \cup {q.id}
      /\ \A x \in DOMAIN t.ext : x # q.id => s.ext[x] = t.ext[x]
      /\ s.ext[q.id].path = q.path /\ s.ext[q.id].phase = q.phase
  BY <1>2, ExtensionShape DEF s
<1>5. s.paths = t.paths
  BY <1>2, <1>4
<1> HIDE DEF paths
<1>6. Confirmed(s) = Confirmed(t) /\ s.phase # "Held"
  BY <1>2, <1>4, <1>5 DEF Confirmed
<1>7. PathsOK(s) /\ (Settled(t) => Settled(s))
  BY <1>1, <1>2, <1>4, <1>5, <1>6 DEF PathsOK, Settled
<1>8. /\ StateInv(states)' /\ GrantInv(ledger, states, activated)'
      /\ BoundInv(activated, states)' /\ OwnerInv(owners, states)'
      /\ TakenInv(states)' /\ CacheInv(cache, states)' /\ (taken \subseteq answers)'
  BY <1>1, <1>2, <1>4, <1>6, <1>7, RevisedState
<1>9. KeyInv(states)'
  BY <1>2, <1>5, PurgeKeeps, KeyInvKept
<1> QED BY <1>3, <1>8, <1>9 DEF ExitInv

\* ExtendCommit: ExitInv is kept.
LEMMA ExtendCommitStep ==
  ASSUME ExitInv, NEW q, q.kind = "extend", q.exp \in Nat,
         NEW c, c.kind = "confirm", c.exp \in Nat, NEW via, ExtendCommit(q, c, via)
  PROVE  ExitInv'
<1> DEFINE r == q.fin.req.hold.req.r
           t == PurgedStates[r]
           g == WithGrant(Parent(q), c.grant)
           s == WithExtension(g, q, Retained(q).deadline, g.permits, g.paths)
           hold == c.grant.fin.req.hold
<1>1. /\ ExtensionOpens(q, via) /\ ExtensionAnswered(q, s)
      /\ q.phase = "Commit" /\ q.id \in DOMAIN Parent(q).ext
      /\ Parent(q).ext[q.id].path = q.path
      /\ Confirms(c, via) /\ hold.req.r = r
      /\ answers' = answers \cup {Artifact(c), Artifact(q)}
      /\ cache' = PurgedCache \cup {Answer(c, hold, c.exp)}
  BY DEF ExtendCommit, CommitsInOrder, Continues, Retained
<1>1a. \E e : seen' = [seen EXCEPT
                         !["finalize"] = RecordExtend(q),
                         !["confirm"] = Record(@, Once(ConfirmKey(c), c.exp), now),
                         !["grant"] = Record(@, e, now)]
  BY DEF ExtendCommit
<1>1b. /\ Opens("confirm", c, {ConfirmKey(c)})
       /\ c.grant.path \in DOMAIN t.paths /\ t.paths[c.grant.path].grant = {} /\ t.hold = hold
  BY <1>1 DEF Confirms, InScope
<1> HIDE DEF s, r
<1>2. /\ r \in DOMAIN PurgedStates /\ Parent(q) = t /\ t.phase = "Finalized" /\ PathsOK(t)
      /\ states' = Put(PurgedStates, r, s)
      /\ DOMAIN states' = DOMAIN PurgedStates /\ states'[r] = s
      /\ \A x \in DOMAIN PurgedStates : x # r => states'[x] = PurgedStates[x]
      /\ ledger' = PurgedLedger /\ activated' = PurgedActivated /\ owners' = PurgedOwners
      /\ now' = now /\ boot' = boot /\ taken' = taken
  BY <1>1, ExtensionScope DEF r
<1>3. ClockInv' /\ AnswerInv' /\ AnsweredOnce'
  <2> DEFINE Q == {c, q}
  <2>1. Fresh(q) /\ ReplayKey(q) = ExtendKey(q) /\ CacheOf(q.kind) = "finalize"
    BY <1>1, ExtensionFresh
  <2>2. ReplayKey(c) = ConfirmKey(c) /\ CacheOf(c.kind) = "confirm" /\ c.kind \in RequestKinds
    BY KeysByKind DEF CacheOf, RequestKinds
  <2>3. Fresh(c)
    BY <1>1b, <2>2, OpensFresh
  <2>4. /\ DOMAIN seen' = DOMAIN seen
        /\ seen'["finalize"] = RecordExtend(q)
        /\ seen'["confirm"] = Record(seen["confirm"], Once(ConfirmKey(c), c.exp), now)
        /\ \A k \in ReplayKinds : k \notin {"finalize", "confirm", "grant"} => seen'[k] = seen[k]
    BY <1>1a DEF ExitInv, ClockInv, ReplayKinds
  <2>5. /\ Remembers(seen["finalize"], seen'["finalize"])
        /\ ReplayKey(q) \in DOMAIN seen'["finalize"] /\ seen'["finalize"][ReplayKey(q)] = q.exp
    BY <2>1, <2>4, RecordRemembers DEF Fresh, RecordExtend
  <2>6. /\ Remembers(seen["confirm"], seen'["confirm"])
        /\ ReplayKey(c) \in DOMAIN seen'["confirm"] /\ seen'["confirm"][ReplayKey(c)] = c.exp
    BY <2>2, <2>3, <2>4, RecordRemembers DEF Fresh
  <2>7. \A k \in RequestKinds : CacheOf(k) \in ReplayKinds \ {"grant"}
    BY DEF CacheOf, RequestKinds, ReplayKinds
  <2>8. \A k \in RequestKinds : Remembers(seen[CacheOf(k)], seen'[CacheOf(k)])
    BY <2>4, <2>5, <2>6, <2>7, NothingForgotten
  <2>9. /\ \A x \in Q : Fresh(x)
        /\ \A x \in Q : /\ ReplayKey(x) \in DOMAIN seen'[CacheOf(x.kind)]
                        /\ seen'[CacheOf(x.kind)][ReplayKey(x)] = x.exp
        /\ answers' = answers \cup {Artifact(x) : x \in Q}
    BY <1>1, <2>1, <2>2, <2>3, <2>5, <2>6
  <2> HIDE DEF Q
  <2> QED BY <1>2, <2>4, <2>8, <2>9, AcceptedAnswers
<1>4. /\ g.phase = t.phase /\ g.hold = t.hold /\ g.fin = t.fin /\ g.ext = t.ext
      /\ DOMAIN g.paths = DOMAIN t.paths
      /\ \A p \in DOMAIN t.paths : KeysOf(g.paths[p]) = KeysOf(t.paths[p])
      /\ Confirmed(t) \subseteq Confirmed(g)
  <2> HIDE DEF t
  <2> QED BY <1>1b, <1>2, GrantStored
<1> HIDE DEF g
<1>5. /\ s.phase = g.phase /\ s.hold = g.hold /\ s.fin = g.fin /\ s.paths = g.paths
      /\ DOMAIN s.ext = DOMAIN g.ext \cup {q.id}
      /\ \A x \in DOMAIN g.ext : x # q.id => s.ext[x] = g.ext[x]
      /\ s.ext[q.id].path = q.path /\ s.ext[q.id].phase = q.phase
  BY ExtensionShape DEF s
<1>6. /\ FinalizedPaths(s) = FinalizedPaths(t) /\ s.phase # "Held"
      /\ Confirmed(t) \subseteq Confirmed(s)
  BY <1>2, <1>4, <1>5 DEF FinalizedPaths, Confirmed
<1>7. PathsOK(s) /\ (Settled(t) => Settled(s))
  BY <1>1, <1>2, <1>4, <1>5, <1>6 DEF PathsOK, Settled
<1>8. \A a \in cache' : a \in PurgedCache \/ a.hold = s.hold
  <2> HIDE DEF hold
  <2>1. Answer(c, hold, c.exp).hold = hold
    BY DEF Answer
  <2> QED BY <1>1, <1>1b, <1>4, <1>5, <2>1
<1>9. /\ StateInv(states)' /\ GrantInv(ledger, states, activated)'
      /\ BoundInv(activated, states)' /\ OwnerInv(owners, states)'
      /\ TakenInv(states)' /\ CacheInv(cache, states)' /\ (taken \subseteq answers)'
  BY <1>1, <1>2, <1>4, <1>5, <1>6, <1>7, <1>8, RevisedState
<1>10. KeyInv(states)'
  BY <1>2, <1>4, <1>5, PurgeKeeps, KeyInvKept
<1> QED BY <1>3, <1>9, <1>10 DEF ExitInv

\* purge_expired alone: also the outcome of every request that is repeated or
\* not even verified.
LEMMA PurgeStep ==
  ASSUME ExitInv, PurgeExpired
  PROVE  ExitInv'
<1>1. ClockInv' /\ AnswerInv' /\ AnsweredOnce' /\ (taken \subseteq answers)'
  BY DEF ExitInv, PurgeExpired, ClockInv, AnswerInv, AnsweredOnce, Refused
<1>2. StateInv(states)' /\ TakenInv(states)'
  BY PurgeKeeps DEF PurgeExpired, StateInv, TakenInv
<1>3. KeyInv(states)'
  BY PurgeKeeps, KeyInvKept DEF PurgeExpired
<1>4. /\ GrantInv(ledger, states, activated)' /\ BoundInv(activated, states)'
      /\ OwnerInv(owners, states)' /\ CacheInv(cache, states)'
  BY PurgeKeeps DEF PurgeExpired, GrantInv, BoundInv, OwnerInv, CacheInv
<1> QED BY <1>1, <1>2, <1>3, <1>4 DEF ExitInv

(***************************************************************************)
(* Rolling back the entries a transaction made leaves the cache as it      *)
(* found it, because the entries were new.                                 *)
(***************************************************************************)
LEMMA RollbackRemembers ==
  ASSUME NEW c, NEW E, DOMAIN E \cap DOMAIN Live(c, now) = {}
  PROVE  Remembers(c, Rollback(Record(c, E, now), DOMAIN E))
<1> DEFINE R == Record(c, E, now)
<1>1. /\ DOMAIN R = DOMAIN Live(c, now) \cup DOMAIN E
      /\ \A k \in DOMAIN Live(c, now) : R[k] = c[k]
  BY DEF Record
<1> HIDE DEF R
<1>2. /\ DOMAIN Rollback(R, DOMAIN E) = DOMAIN R \ DOMAIN E
      /\ \A k \in DOMAIN R \ DOMAIN E : Rollback(R, DOMAIN E)[k] = R[k]
  BY DEF Rollback
<1>3. Remembers(c, Rollback(R, DOMAIN E))
  BY <1>1, <1>2 DEF Remembers
<1> QED BY <1>3 DEF R

\* The entries of a request that is refused were not in the caches before.
NewEntries(recorded) ==
  \A k \in DOMAIN recorded : DOMAIN recorded[k] \cap DOMAIN Live(seen[k], now) = {}

\* Refused: ExitInv is kept.
LEMMA RefusedStep ==
  ASSUME ExitInv, NEW recorded, NewEntries(recorded), RefusedAfter(recorded)
  PROVE  ExitInv'
<1>1. /\ DOMAIN seen' = ReplayKinds
      /\ \A k \in ReplayKinds : Remembers(seen[k], seen'[k])
  <2>1. \A k \in ReplayKinds :
          seen'[k] = IF k \in DOMAIN recorded
                     THEN Rollback(Record(seen[k], recorded[k], now), DOMAIN recorded[k])
                     ELSE seen[k]
    BY DEF RefusedAfter
  <2>2. ASSUME NEW k \in ReplayKinds PROVE Remembers(seen[k], seen'[k])
    <3>1. CASE k \in DOMAIN recorded
      <4>1. DOMAIN recorded[k] \cap DOMAIN Live(seen[k], now) = {}
        BY <3>1 DEF NewEntries
      <4>2. seen'[k] = Rollback(Record(seen[k], recorded[k], now), DOMAIN recorded[k])
        BY <2>1, <3>1
      <4> QED BY <4>1, <4>2, RollbackRemembers
    <3>2. CASE k \notin DOMAIN recorded
      BY <2>1, <3>2, NothingForgotten
    <3> QED BY <3>1, <3>2
  <2> QED BY <2>2 DEF RefusedAfter
<1>2. ClockInv' /\ AnswerInv' /\ AnsweredOnce'
  <2> DEFINE Q == {}
  <2>1. \A k \in RequestKinds : CacheOf(k) \in ReplayKinds
    BY DEF RequestKinds, CacheOf, ReplayKinds
  <2>2. /\ \A k \in RequestKinds : Remembers(seen[CacheOf(k)], seen'[CacheOf(k)])
        /\ DOMAIN seen' = DOMAIN seen
    BY <1>1, <2>1 DEF ExitInv, ClockInv
  <2>3. /\ \A q \in Q : Fresh(q)
        /\ \A q \in Q : /\ ReplayKey(q) \in DOMAIN seen'[CacheOf(q.kind)]
                        /\ seen'[CacheOf(q.kind)][ReplayKey(q)] = q.exp
        /\ answers' = answers \cup {Artifact(q) : q \in Q}
        /\ now' = now /\ boot' = boot
    BY DEF RefusedAfter
  <2> HIDE DEF Q
  <2> QED BY <2>2, <2>3, AcceptedAnswers
<1>3. StateInv(states)' /\ TakenInv(states)' /\ (taken \subseteq answers)'
  BY PurgeKeeps DEF RefusedAfter, StateInv, TakenInv, ExitInv
<1>4. KeyInv(states)'
  BY PurgeKeeps, KeyInvKept DEF RefusedAfter
<1>5. /\ GrantInv(ledger, states, activated)' /\ BoundInv(activated, states)'
      /\ OwnerInv(owners, states)' /\ CacheInv(cache, states)'
  BY PurgeKeeps DEF RefusedAfter, GrantInv, BoundInv, OwnerInv, CacheInv
<1> QED BY <1>2, <1>3, <1>4, <1>5 DEF ExitInv

\* Each refused request recorded only keys that Unseen had found to be new.
LEMMA RefusalsRecordNew ==
  /\ \A q : HoldRefused(q) => \E recorded : NewEntries(recorded) /\ RefusedAfter(recorded)
  /\ \A q : PermitRefused(q) => \E recorded : NewEntries(recorded) /\ RefusedAfter(recorded)
  /\ \A q, verified : FinalizeRefused(q, verified) =>
       \E recorded : NewEntries(recorded) /\ RefusedAfter(recorded)
  /\ \A q, verified : ConfirmRefused(q, verified) =>
       \E recorded : NewEntries(recorded) /\ RefusedAfter(recorded)
  /\ \A q : ExtendRefused(q) => \E recorded : NewEntries(recorded) /\ RefusedAfter(recorded)
<1>1. \A kind, k, exp : k \notin DOMAIN Live(seen[kind], now) => NewEntries(Once(kind, Once(k, exp)))
  <2> SUFFICES ASSUME NEW kind, NEW k, NEW exp, k \notin DOMAIN Live(seen[kind], now)
               PROVE  NewEntries(Once(kind, Once(k, exp)))
    OBVIOUS
  <2> DEFINE entry == Once(k, exp)
             recorded == Once(kind, entry)
  <2>1. DOMAIN entry = {k}
    BY DEF Once
  <2> HIDE DEF entry
  <2>2. DOMAIN recorded = {kind} /\ recorded[kind] = entry
    BY DEF Once
  <2> HIDE DEF recorded
  <2>3. NewEntries(recorded)
    BY <2>1, <2>2 DEF NewEntries
  <2> QED BY <2>3 DEF recorded, entry
<1>2. \A kind, req, k : Opens(kind, req, {k}) => k \notin DOMAIN Live(seen[kind], now)
  BY DEF Opens, Unseen
<1>3. ASSUME NEW q, HoldRefused(q)
      PROVE  \E recorded : NewEntries(recorded) /\ RefusedAfter(recorded)
  <2> DEFINE recorded == Once("hold", Once(<<q.r, q.nonce>>, q.exp))
  <2>1. Opens("hold", q, {<<q.r, q.nonce>>}) /\ RefusedAfter(recorded)
    BY <1>3 DEF HoldRefused
  <2>2. NewEntries(recorded)
    BY <2>1, <1>1, <1>2
  <2> QED BY <2>1, <2>2
<1>4. ASSUME NEW q, PermitRefused(q)
      PROVE  \E recorded : NewEntries(recorded) /\ RefusedAfter(recorded)
  <2> DEFINE recorded == Once("permit", Once(PermitKey(q), q.exp))
  <2>1. Opens("permit", q, {PermitKey(q)}) /\ RefusedAfter(recorded)
    BY <1>4 DEF PermitRefused
  <2>2. NewEntries(recorded)
    BY <2>1, <1>1, <1>2
  <2> QED BY <2>1, <2>2
<1>5. ASSUME NEW q, ExtendRefused(q)
      PROVE  \E recorded : NewEntries(recorded) /\ RefusedAfter(recorded)
  <2> DEFINE recorded == Once("finalize", Once(ExtendKey(q), q.exp))
  <2>1. ExtendKey(q) \notin DOMAIN Live(seen["finalize"], now) /\ RefusedAfter(recorded)
    BY <1>5 DEF ExtendRefused, ExtensionOpens, Unseen
  <2>2. NewEntries(recorded)
    BY <2>1, <1>1
  <2> QED BY <2>1, <2>2
<1>6. ASSUME NEW q, NEW verified, FinalizeRefused(q, verified)
      PROVE  \E recorded : NewEntries(recorded) /\ RefusedAfter(recorded)
  <2> DEFINE entries == [k \in {q.permits[p] : p \in verified} |-> k.req.exp]
             recorded == [k \in {"finalize", "probe"} |->
                            IF k = "finalize" THEN Once(<<q.hold, q.nonce>>, q.exp) ELSE entries]
  <2>1. /\ Opens("finalize", q, {<<q.hold, q.nonce>>}) /\ RefusedAfter(recorded)
        /\ verified # {} => Unseen(seen["probe"], DOMAIN entries, now)
    BY <1>6 DEF FinalizeRefused
  <2>2. DOMAIN entries \cap DOMAIN Live(seen["probe"], now) = {}
    <3>1. CASE verified = {}
      <4>1. DOMAIN entries = {}
        BY <3>1
      <4> QED BY <4>1
    <3>2. CASE verified # {}
      BY <2>1, <3>2 DEF Unseen
    <3> QED BY <3>1, <3>2
  <2>3. NewEntries(recorded)
    <3>1. /\ DOMAIN recorded = {"finalize", "probe"} /\ recorded["probe"] = entries
          /\ DOMAIN recorded["finalize"] = {<<q.hold, q.nonce>>}
      BY DEF Once
    <3>2. <<q.hold, q.nonce>> \notin DOMAIN Live(seen["finalize"], now)
      BY <2>1, <1>2
    <3> HIDE DEF recorded, entries
    <3> QED BY <2>2, <3>1, <3>2 DEF NewEntries
  <2> QED BY <2>1, <2>3
<1>7. ASSUME NEW q, NEW verified, ConfirmRefused(q, verified)
      PROVE  \E recorded : NewEntries(recorded) /\ RefusedAfter(recorded)
  <2> DEFINE all == GrantEntries(q.grant, q.grant.fin.req.hold.req.rexp)
             entries == [k \in {x \in DOMAIN all : x[1] \in verified} |-> all[k]]
             recorded == [k \in {"confirm", "grant"} |->
                            IF k = "confirm" THEN Once(ConfirmKey(q), q.exp) ELSE entries]
  <2>1. /\ Opens("confirm", q, {ConfirmKey(q)}) /\ RefusedAfter(recorded)
        /\ verified # {} => Unseen(seen["grant"], DOMAIN entries, now)
    BY <1>7 DEF ConfirmRefused
  <2>2. DOMAIN entries \cap DOMAIN Live(seen["grant"], now) = {}
    <3>1. CASE verified = {}
      <4>1. DOMAIN entries = {}
        BY <3>1
      <4> QED BY <4>1
    <3>2. CASE verified # {}
      BY <2>1, <3>2 DEF Unseen
    <3> QED BY <3>1, <3>2
  <2>3. NewEntries(recorded)
    <3>1. /\ DOMAIN recorded = {"confirm", "grant"} /\ recorded["grant"] = entries
          /\ DOMAIN recorded["confirm"] = {ConfirmKey(q)}
      BY DEF Once
    <3>2. ConfirmKey(q) \notin DOMAIN Live(seen["confirm"], now)
      BY <2>1, <1>2
    <3> HIDE DEF recorded, entries
    <3> QED BY <2>2, <3>1, <3>2 DEF NewEntries
  <2> QED BY <2>1, <2>3
<1> QED BY <1>3, <1>4, <1>5, <1>6, <1>7

\* Take: ExitInv is kept.
LEMMA TakeStep ==
  ASSUME ExitInv, NEW r, TakeNativeRouteAuthorization(r)
  PROVE  ExitInv'
<1> DEFINE S == PurgedStates
<1>1. /\ r \in DOMAIN S /\ AllPathsConfirmed(S[r])
      /\ owners' = PurgedOwners \ {r} /\ taken' = taken \cup S[r].fin
      /\ states' = S /\ ledger' = PurgedLedger
      /\ activated' = PurgedActivated /\ cache' = PurgedCache
      /\ now' = now /\ boot' = boot /\ seen' = seen /\ answers' = answers
  BY DEF TakeNativeRouteAuthorization
<1>2. /\ StateInv(S) /\ GrantInv(PurgedLedger, S, PurgedActivated)
      /\ BoundInv(PurgedActivated, S) /\ OwnerInv(PurgedOwners, S)
      /\ TakenInv(S) /\ CacheInv(PurgedCache, S) /\ KeyInv(S)
  BY PurgeKeeps
<1> HIDE DEF S
<1>3. \A x \in DOMAIN S : x # r => S[x].fin \cap S[r].fin = {}
  BY <1>1, <1>2 DEF StateInv
<1>4. TakenInv(states)' /\ OwnerInv(owners, states)'
  <2>1. Settled(S[r])
    BY <1>1, <1>2 DEF StateInv, PathsOK, Settled, AllPathsConfirmed
  <2> QED BY <1>1, <1>2, <1>3, <2>1 DEF TakenInv, OwnerInv
<1>5. (taken \subseteq answers)'
  BY <1>1, <1>2 DEF ExitInv, StateInv
<1>6. ClockInv' /\ AnswerInv' /\ AnsweredOnce'
  BY <1>1 DEF ExitInv, ClockInv, AnswerInv, AnsweredOnce, Refused
<1>7. StateInv(states)' /\ KeyInv(states)'
  <2>1. StateInv(states)'
    BY <1>1, <1>2 DEF StateInv
  <2>2. KeyInv(states)'
    BY <1>1, <1>2, KeyInvKept
  <2> QED BY <2>1, <2>2
<1>8. /\ GrantInv(ledger, states, activated)' /\ BoundInv(activated, states)'
      /\ CacheInv(cache, states)'
  BY <1>1, <1>2 DEF GrantInv, BoundInv, CacheInv
<1> QED BY <1>4, <1>5, <1>6, <1>7, <1>8 DEF ExitInv

\* Bind: ExitInv is kept.
LEMMA BindStep ==
  ASSUME ExitInv, NEW r, BindRoute(r)
  PROVE  ExitInv'
<1>1. /\ r \in DOMAIN states /\ AllPathsConfirmed(states[r])
      /\ activated' = activated \cup {r}
      /\ UNCHANGED <<now, boot, ledger, states, owners, cache, answers, taken>>
      /\ \E e : seen' = [seen EXCEPT !["route"] = Record(@, e, now)]
  BY DEF BindRoute
<1>2. states[r].phase # "Held" /\ Settled(states[r])
  BY <1>1 DEF ExitInv, StateInv, AllPathsConfirmed, PathsOK, Settled
<1>3. /\ DOMAIN seen' = DOMAIN seen
      /\ \A k \in RequestKinds : seen'[CacheOf(k)] = seen[CacheOf(k)]
  BY <1>1 DEF ExitInv, ClockInv, ReplayKinds, RequestKinds, CacheOf
<1>4. ClockInv' /\ AnswerInv' /\ AnsweredOnce' /\ (taken \subseteq answers)'
  BY <1>1, <1>3 DEF ExitInv, ClockInv, AnswerInv, AnsweredOnce, Refused
<1>5. BoundInv(activated, states)' /\ GrantInv(ledger, states, activated)'
  BY <1>1, <1>2 DEF ExitInv, BoundInv, GrantInv
<1>6. /\ StateInv(states)' /\ TakenInv(states)' /\ KeyInv(states)'
      /\ OwnerInv(owners, states)' /\ CacheInv(cache, states)'
  <2>1. KeyInv(states)'
    BY <1>1, KeyInvKept DEF ExitInv
  <2> QED BY <1>1, <2>1 DEF ExitInv, StateInv, TakenInv, OwnerInv, CacheInv
<1> QED BY <1>4, <1>5, <1>6 DEF ExitInv

\* The two handlers that touch nothing but the ledger.
LEMMA LedgerStep ==
  ASSUME ExitInv, Available \/ \E r \in ReservationIds : MarkRouteEstablished(r)
  PROVE  ExitInv'
<1>1. UNCHANGED <<now, boot, states, activated, owners, cache, seen, answers, taken>>
  BY DEF Available, MarkRouteEstablished
<1>2. \A x \in DOMAIN LedgerPurged(ledger, Secs(now)).grants :
        /\ x \in DOMAIN ledger.grants
        /\ LedgerPurged(ledger, Secs(now)).grants[x] = ledger.grants[x]
  BY DEF LedgerPurged, LedgerWithout
<1>3. GrantInv(ledger, states, activated)'
  <2>1. CASE Available
    BY <1>2, <2>1 DEF Available, ExitInv, GrantInv
  <2>2. ASSUME NEW r, MarkRouteEstablished(r) PROVE GrantInv(ledger, states, activated)'
    <3> DEFINE L == LedgerPurged(ledger, Secs(now))
    <3>1. r \in activated /\ r \in DOMAIN states
      BY <2>2 DEF MarkRouteEstablished
    <3>2. ASSUME ledger' = L PROVE GrantInv(ledger, states, activated)'
      BY <1>1, <1>2, <3>2 DEF ExitInv, GrantInv
    <3>3. ASSUME r \in DOMAIN L.grants, ledger' = LedgerEstablished(L, r)
          PROVE  GrantInv(ledger, states, activated)'
      <4> HIDE DEF L
      <4>1. /\ DOMAIN ledger'.grants = DOMAIN L.grants
            /\ \A x \in DOMAIN L.grants : x # r => ledger'.grants[x] = L.grants[x]
        BY <3>3 DEF LedgerEstablished
      <4> QED BY <1>1, <1>2, <3>1, <4>1 DEF ExitInv, GrantInv, L
    <3> QED BY <2>2, <3>2, <3>3 DEF MarkRouteEstablished
  <2> QED BY <2>1, <2>2
<1>4. /\ ClockInv' /\ AnswerInv' /\ AnsweredOnce' /\ (taken \subseteq answers)'
      /\ StateInv(states)' /\ TakenInv(states)' /\ KeyInv(states)'
  <2>1. KeyInv(states)'
    BY <1>1, KeyInvKept DEF ExitInv
  <2>2. ClockInv' /\ AnswerInv' /\ AnsweredOnce' /\ (taken \subseteq answers)'
    BY <1>1 DEF ExitInv, ClockInv, AnswerInv, AnsweredOnce, Refused
  <2>3. StateInv(states)' /\ TakenInv(states)'
    BY <1>1 DEF ExitInv, StateInv, TakenInv
  <2> QED BY <2>1, <2>2, <2>3
<1>5. BoundInv(activated, states)' /\ OwnerInv(owners, states)' /\ CacheInv(cache, states)'
  BY <1>1 DEF ExitInv, BoundInv, OwnerInv, CacheInv
<1> QED BY <1>3, <1>4, <1>5 DEF ExitInv

\* Release: ExitInv is kept.
LEMMA ReleaseStep ==
  ASSUME ExitInv, NEW r, Release(r)
  PROVE  ExitInv'
<1>1. /\ activated' = activated \ {r} /\ owners' = owners \ {r}
      /\ cache' = {c \in cache : c.hold.req.r # r}
      /\ UNCHANGED <<now, boot, seen, answers, taken>>
  BY DEF Release
<1>2. /\ DOMAIN states' = DOMAIN states \ {r}
      /\ \A x \in DOMAIN states' : states'[x] = states[x]
  BY DEF Release
<1>3. \A x \in DOMAIN ledger'.grants :
        x # r /\ x \in DOMAIN ledger.grants /\ ledger'.grants[x] = ledger.grants[x]
  BY DEF Release, LedgerWithout
<1>4. ClockInv' /\ AnswerInv' /\ AnsweredOnce' /\ (taken \subseteq answers)'
  BY <1>1 DEF ExitInv, ClockInv, AnswerInv, AnsweredOnce, Refused
<1>5. StateInv(states)' /\ TakenInv(states)' /\ KeyInv(states)'
  <2>1. KeyInv(states)'
    BY <1>2, KeyInvKept DEF ExitInv
  <2> QED BY <1>1, <1>2, <2>1 DEF ExitInv, StateInv, TakenInv
<1>6. GrantInv(ledger, states, activated)' /\ BoundInv(activated, states)'
  BY <1>1, <1>2, <1>3 DEF ExitInv, GrantInv, BoundInv
<1>7. OwnerInv(owners, states)' /\ CacheInv(cache, states)'
  BY <1>1, <1>2 DEF ExitInv, OwnerInv, CacheInv
<1> QED BY <1>4, <1>5, <1>6, <1>7 DEF ExitInv

\* A new process owns nothing, and no earlier artifact carries its boot id.
LEMMA RestartStep ==
  ASSUME ExitInv, Restart
  PROVE  ExitInv'
<1>1. ClockInv' /\ AnswerInv' /\ AnsweredOnce' /\ (taken \subseteq answers)'
  BY DEF ExitInv, Restart, ClockInv, AnswerInv, AnsweredOnce
<1>2. DOMAIN states' = {} /\ DOMAIN ledger'.grants = {}
  BY DEF Restart, EmptyLedger
<1>3. activated' = {} /\ owners' = {} /\ cache' = {}
  BY DEF Restart
<1>4. StateInv(states)' /\ TakenInv(states)' /\ KeyInv(states)'
  BY <1>2 DEF StateInv, TakenInv, KeyInv
<1>5. /\ GrantInv(ledger, states, activated)' /\ BoundInv(activated, states)'
      /\ OwnerInv(owners, states)' /\ CacheInv(cache, states)'
  BY <1>2, <1>3 DEF GrantInv, BoundInv, OwnerInv, CacheInv
<1> QED BY <1>1, <1>4, <1>5 DEF ExitInv

\* Tick: ExitInv is kept.
LEMMA TickStep ==
  ASSUME ExitInv, Tick \/ UNCHANGED vars
  PROVE  ExitInv'
<1>1. /\ UNCHANGED <<boot, ledger, states, activated, owners, cache, answers, taken>>
      /\ now' \in Nat /\ now <= now'
  BY DEF Tick, vars, ExitInv, ClockInv
<1>1a. /\ DOMAIN seen' = ReplayKinds
       /\ \A c \in ReplayKinds : \A k \in DOMAIN seen[c] :
            seen[c][k] > now' => k \in DOMAIN seen'[c] /\ seen'[c][k] = seen[c][k]
  <2>1. CASE Tick
    <3>1. DOMAIN seen' = ReplayKinds /\ \A c \in ReplayKinds : seen'[c] = Live(seen[c], now')
      BY <2>1 DEF Tick
    <3>2. \A c : \A k \in DOMAIN c :
            c[k] > now' => k \in DOMAIN Live(c, now') /\ Live(c, now')[k] = c[k]
      BY DEF Live
    <3> QED BY <3>1, <3>2
  <2>2. CASE UNCHANGED vars
    BY <2>2 DEF vars, ExitInv, ClockInv
  <2> QED BY <2>1, <2>2
<1>2. ClockInv' /\ AnsweredOnce' /\ (taken \subseteq answers)'
  BY <1>1, <1>1a DEF ExitInv, ClockInv, AnsweredOnce
<1>3. AnswerInv'
  <2> SUFFICES ASSUME NEW a \in answers, a.boot = boot PROVE Refused(a.req, seen)'
    BY <1>1 DEF ExitInv, AnswerInv
  <2>1. Refused(a.req, seen) /\ a.req.exp \in Nat /\ CacheOf(a.req.kind) \in ReplayKinds
    BY DEF ExitInv, AnswerInv, RequestKinds, CacheOf, ReplayKinds
  <2>2. now \in Nat
    BY DEF ExitInv, ClockInv
  <2> QED BY <1>1, <1>1a, <2>1, <2>2 DEF Refused
<1>4. StateInv(states)' /\ TakenInv(states)' /\ KeyInv(states)'
  <2>1. KeyInv(states)'
    BY <1>1, KeyInvKept DEF ExitInv
  <2> QED BY <1>1, <2>1 DEF ExitInv, StateInv, TakenInv
<1>5. /\ GrantInv(ledger, states, activated)' /\ BoundInv(activated, states)'
      /\ OwnerInv(owners, states)' /\ CacheInv(cache, states)'
  BY <1>1 DEF ExitInv, GrantInv, BoundInv, OwnerInv, CacheInv
<1> QED BY <1>2, <1>3, <1>4, <1>5 DEF ExitInv

\* SomeExtension is one of the five outcomes, for a request built as the client does.
LEMMA ExtensionRequested ==
  ASSUME SomeExtension
  PROVE  \E q, c, via :
           /\ q.kind = "extend" /\ q.exp \in Nat /\ q.path \in Paths
           /\ \/ /\ c.kind = "confirm" /\ c.exp \in Nat
                 /\ ExtendCommit(q, c, via) \/ ExtendCommitConfirmed(q, c, via)
              \/ ExtendProbe(q, via) \/ ExtendAuthorize(q, via) \/ ExtendAbort(q, via)
<1>1. PICK fin \in Signed("finalize"), id \in ExtensionIds, path \in Paths, n \in Nonces,
           exp \in Expiries, via \in ControlRelays :
        \E relay \in RelaysFor[path] :
          LET Asked(phase, body) == ExtendRequest(fin, id, path, relay, phase, body, n, exp)
          IN  \/ ExtendProbe(Asked("Probe", {}), via)
              \/ \E key \in ClientKeys : ExtendAuthorize(Asked("Authorize", {key}), via)
              \/ \E g \in Nonces, cexp \in Expiries :
                   LET c == ConfirmRequest(RelayGrant(fin, path, relay, g), n, cexp)
                   IN  \/ ExtendCommit(Asked("Commit", {c}), c, via)
                       \/ ExtendCommitConfirmed(Asked("Commit", {c}), c, via)
              \/ ExtendAbort(Asked("Abort", {}), via)
  BY DEF SomeExtension
<1>2. \A relay, phase, body :
        /\ ExtendRequest(fin, id, path, relay, phase, body, n, exp).kind = "extend"
        /\ ExtendRequest(fin, id, path, relay, phase, body, n, exp).exp \in Nat
        /\ ExtendRequest(fin, id, path, relay, phase, body, n, exp).path \in Paths
  BY ExitAssumption DEF ExtendRequest
<1>3. \A grant : \A cexp \in Expiries : /\ ConfirmRequest(grant, n, cexp).kind = "confirm"
                                       /\ ConfirmRequest(grant, n, cexp).exp \in Nat
  BY ExitAssumption DEF ConfirmRequest
<1> QED BY <1>1, <1>2, <1>3

\* Every step keeps the invariant.
LEMMA ExitInvInductive == ExitInv /\ [Next]_vars => ExitInv'
<1> SUFFICES ASSUME ExitInv, [Next]_vars PROVE ExitInv'
  OBVIOUS
<1>1. CASE \E q \in HoldRequests, via \in ControlRelays : HoldCapacity(q, via)
  BY <1>1, HoldStep
<1>2. CASE SomePermit
  <2>1. \E q, via : q.kind = "permit" /\ q.exp \in Nat /\ IssueProbePermit(q, via)
    BY <1>2, ExitAssumption DEF SomePermit, PermitRequest
  <2> QED BY <2>1, PermitStep
<1>3. CASE SomeFinalize
  <2>1. \E q, via : q.kind = "finalize" /\ q.exp \in Nat /\ FinalizeReservation(q, via)
    BY <1>3, ExitAssumption DEF SomeFinalize, FinalizeRequest
  <2> QED BY <2>1, FinalizeStep
<1>4. CASE SomeConfirm
  <2>1. \E q, via : q.kind = "confirm" /\ q.exp \in Nat /\ ConfirmRelay(q, via)
    BY <1>4, ExitAssumption DEF SomeConfirm, ConfirmRequest
  <2> QED BY <2>1, ConfirmStep
<1>4a. CASE SomeExtension
  BY <1>4a, ExtensionRequested, ExtendProbeStep, ExtendAuthorizeStep, ExtendCommitStep,
     ExtendCommitConfirmedStep, ExtendAbortStep
<1>4b. CASE SomeRefusal \/ \E q \in HoldRequests : HoldRefused(q)
  <2>1. \E recorded : NewEntries(recorded) /\ RefusedAfter(recorded)
    BY <1>4b, RefusalsRecordNew DEF SomeRefusal
  <2> QED BY <2>1, RefusedStep
<1>5. CASE \E r \in ReservationIds : TakeNativeRouteAuthorization(r)
  BY <1>5, TakeStep
<1>6. CASE \E r \in ReservationIds : BindRoute(r)
  BY <1>6, BindStep
<1>7. CASE Available \/ \E r \in ReservationIds : MarkRouteEstablished(r)
  BY <1>7, LedgerStep
<1>8. CASE \E r \in ReservationIds : Release(r)
  BY <1>8, ReleaseStep
<1>9. CASE PurgeExpired
  BY <1>9, PurgeStep
<1>10. CASE Restart
  BY <1>10, RestartStep
<1>11. CASE Tick \/ UNCHANGED vars
  BY <1>11, TickStep
<1> QED BY <1>1, <1>2, <1>3, <1>4, <1>4a, <1>4b, <1>5, <1>6, <1>7, <1>8, <1>9, <1>10,
           <1>11 DEF Next

(***************************************************************************)
(* Every reachable state of the exit service satisfies the inductive       *)
(* invariant: the maps its handlers update one after the other agree.      *)
(***************************************************************************)
THEOREM ExitInvHolds == Spec => []ExitInv
<1>1. Init => ExitInv
  <2> SUFFICES ASSUME Init PROVE ExitInv
    OBVIOUS
  <2>1. DOMAIN states = {} /\ DOMAIN ledger.grants = {}
    BY DEF Init, EmptyLedger
  <2>2. StateInv(states) /\ TakenInv(states) /\ KeyInv(states)
    BY <2>1 DEF StateInv, TakenInv, KeyInv
  <2>3. /\ GrantInv(ledger, states, activated) /\ BoundInv(activated, states)
        /\ OwnerInv(owners, states) /\ CacheInv(cache, states)
    BY <2>1 DEF Init, GrantInv, BoundInv, OwnerInv, CacheInv
  <2>4. ClockInv /\ AnswerInv /\ AnsweredOnce /\ taken \subseteq answers
    BY DEF Init, ClockInv, AnswerInv, AnsweredOnce
  <2> QED BY <2>2, <2>3, <2>4 DEF ExitInv
<1> QED BY <1>1, ExitInvInductive, PTL DEF Spec

(***************************************************************************)
(* Capacity is never charged to a reservation the service has forgotten,   *)
(* and an established tunnel is a bound, fully confirmed route.            *)
(***************************************************************************)
THEOREM ExitNoGhostCapacity == Spec => []NoGhostCapacity
<1>1. ExitInv => NoGhostCapacity
  BY DEF ExitInv, GrantInv, BoundInv, NoGhostCapacity, Settled
<1> QED BY <1>1, ExitInvHolds, PTL

\* No request is answered twice with different artifacts by one process.
THEOREM ExitAnsweredOnce == Spec => []AnsweredOnce
<1>1. ExitInv => AnsweredOnce
  BY DEF ExitInv
<1> QED BY <1>1, ExitInvHolds, PTL

\* The response caches hold nothing about a reservation that is gone.
THEOREM ExitCachedAnswersCurrent == Spec => []CachedAnswersCurrent
<1>1. ExitInv => CachedAnswersCurrent
  BY DEF ExitInv, CacheInv, CachedAnswersCurrent
<1> QED BY <1>1, ExitInvHolds, PTL

\* An identity owner leaves the service once, after the last confirmation.
THEOREM ExitOwnerTakenOnce == Spec => []OwnerTakenOnce
<1>1. ExitInv => OwnerTakenOnce
  BY DEF ExitInv, OwnerInv, TakenInv, OwnerTakenOnce, Settled
<1> QED BY <1>1, ExitInvHolds, PTL

\* WireGuard keys and helper leases are exclusive to one path.
THEOREM ExitKeysNeverShared == Spec => []KeysNeverShared
<1>1. ExitInv => KeysNeverShared
  BY DEF ExitInv, KeyInv, KeysNeverShared
<1> QED BY <1>1, ExitInvHolds, PTL

-------------------------------------------------------------------------------
\* What one step may not do to a confirmed path or to a bound route.
KeptStep ==
  \A r \in DOMAIN states \cap DOMAIN states' :
    /\ r \in activated \cap activated' =>
         states'[r].hold = states[r].hold /\ states'[r].fin = states[r].fin
    /\ states'[r].hold = states[r].hold =>
         \A p \in Confirmed(states[r]) :
           p \in DOMAIN states'[r].paths /\ states'[r].paths[p] = states[r].paths[p]

\* A state that is replaced by one with the same authorizations loses nothing.
LEMMA RevisedKept ==
  ASSUME ExitInv, NEW r \in DOMAIN PurgedStates, NEW s,
         states' = Put(PurgedStates, r, s),
         s.hold = PurgedStates[r].hold, s.fin = PurgedStates[r].fin,
         \A p \in Confirmed(PurgedStates[r]) :
           p \in DOMAIN s.paths /\ s.paths[p] = PurgedStates[r].paths[p]
  PROVE  KeptStep
<1>1. /\ DOMAIN states' = DOMAIN PurgedStates /\ states'[r] = s
      /\ \A x \in DOMAIN PurgedStates : x # r => states'[x] = PurgedStates[x]
  <2> DEFINE S == PurgedStates
  <2> HIDE DEF S
  <2>1. states' = Put(S, r, s) /\ r \in DOMAIN S
    BY DEF S
  <2>2. DOMAIN states' = DOMAIN S /\ states'[r] = s /\ \A x \in DOMAIN S : x # r => states'[x] = S[x]
    BY <2>1 DEF Put
  <2> QED BY <2>2 DEF S
<1>2. \A x \in DOMAIN PurgedStates : PurgedStates[x] = states[x]
  BY PurgeKeeps
<1>3. \A p \in DOMAIN states[r].paths : p \in Confirmed(states[r]) <=> p \in Confirmed(PurgedStates[r])
  BY <1>2
<1> QED BY <1>1, <1>2 DEF KeptStep, Confirmed

\* Hold: confirmed paths are kept.
LEMMA HoldKept ==
  ASSUME ExitInv, NEW q \in HoldRequests, NEW via, HoldCapacity(q, via)
  PROVE  KeptStep
<1> DEFINE S == PurgedStates
<1>1. /\ Opens("hold", q, {<<q.r, q.nonce>>}) /\ q.r \notin DOMAIN S
      /\ states' = Put(S, q.r, HeldState(Artifact(q))) /\ activated' = PurgedActivated
  BY DEF HoldCapacity
<1>2. q.kind = "hold" /\ q.kind \in RequestKinds /\ q.exp \in Nat /\ ReplayKey(q) = <<q.r, q.nonce>>
  BY ExitAssumption, KeysByKind DEF HoldRequest, RequestKinds
<1>3. Fresh(q)
  BY <1>1, <1>2, OpensFresh
<1>4. Artifact(q) \notin answers
  BY <1>3, FreshUnanswered DEF Artifact
<1>5. \A x \in DOMAIN states : states[x].hold \in answers
  BY DEF ExitInv, StateInv
<1>6. /\ \A x \in DOMAIN S : S[x] = states[x] /\ x \in DOMAIN states
      /\ \A x \in PurgedActivated : x \in DOMAIN S
  BY PurgeKeeps DEF BoundInv
<1>7. HeldState(Artifact(q)).hold = Artifact(q)
  BY DEF HeldState
<1> HIDE DEF S
<1>8. /\ DOMAIN states' = DOMAIN S \cup {q.r} /\ states'[q.r] = HeldState(Artifact(q))
      /\ \A x \in DOMAIN S : x # q.r /\ states'[x] = S[x]
  BY <1>1 DEF Put
<1> QED BY <1>1, <1>4, <1>5, <1>6, <1>7, <1>8 DEF KeptStep, Confirmed

\* Permit: confirmed paths are kept.
LEMMA PermitKept ==
  ASSUME ExitInv, NEW q, NEW via, IssueProbePermit(q, via)
  PROVE  KeptStep
<1> DEFINE r == q.hold.req.r
           s == WithPermit(PurgedStates[r], q.path, Artifact(q))
<1>1. r \in DOMAIN PurgedStates /\ states' = Put(PurgedStates, r, s)
  BY DEF IssueProbePermit, InScope
<1>2. /\ s.hold = PurgedStates[r].hold /\ s.fin = PurgedStates[r].fin
      /\ s.paths = PurgedStates[r].paths
  BY DEF WithPermit
<1> HIDE DEF s
<1> QED BY <1>1, <1>2, RevisedKept DEF Confirmed

\* Finalize: confirmed paths are kept.
LEMMA FinalizeKept ==
  ASSUME ExitInv, NEW q, NEW via, FinalizeReservation(q, via)
  PROVE  KeptStep
<1> DEFINE S == PurgedStates
           r == q.hold.req.r
<1>1. PICK s : /\ r \in DOMAIN S /\ S[r].phase = "Held" /\ states' = Put(S, r, s)
               /\ activated' = PurgedActivated
  BY DEF FinalizeReservation, InScope
<1>2. /\ \A x \in DOMAIN S : S[x] = states[x] /\ x \in DOMAIN states
      /\ StateInv(S) /\ BoundInv(PurgedActivated, S)
  BY PurgeKeeps
<1> HIDE DEF S
<1>3. /\ DOMAIN states' = DOMAIN S /\ \A x \in DOMAIN S : x # r => states'[x] = S[x]
  BY <1>1 DEF Put
<1>4. r \notin activated' /\ Confirmed(states[r]) = {}
  BY <1>1, <1>2 DEF StateInv, BoundInv, Confirmed
<1> QED BY <1>2, <1>3, <1>4 DEF KeptStep, Confirmed

\* Confirm: confirmed paths are kept.
LEMMA ConfirmKept ==
  ASSUME ExitInv, NEW q, NEW via, ConfirmRelay(q, via)
  PROVE  KeptStep
<1> DEFINE r == q.grant.fin.req.hold.req.r
           t == PurgedStates[r]
           s == WithGrant(t, q.grant)
<1>1. /\ r \in DOMAIN PurgedStates /\ states' = Put(PurgedStates, r, s)
      /\ q.grant.path \in DOMAIN t.paths /\ t.paths[q.grant.path].grant = {}
  BY DEF ConfirmRelay, Confirms, InScope
<1> HIDE DEF r, t
<1>2. /\ s.hold = t.hold /\ s.fin = t.fin /\ DOMAIN s.paths = DOMAIN t.paths
      /\ \A p \in Confirmed(t) : s.paths[p] = t.paths[p]
  BY <1>1, GrantStored
<1> HIDE DEF s
<1>3. \A p \in Confirmed(t) : p \in DOMAIN t.paths
  BY DEF Confirmed
<1> QED BY <1>1, <1>2, <1>3, RevisedKept DEF t

\* The outcomes of extend_route_with share their shape: paths are added, or one
\* that no relay has confirmed is removed.
LEMMA ExtensionKept ==
  ASSUME ExitInv, NEW q, NEW via, NEW t0, NEW deadline, NEW permits, NEW paths,
         ExtensionOpens(q, via),
         ExtensionAnswered(q, WithExtension(t0, q, deadline, permits, paths)),
         t0.hold = Parent(q).hold, t0.fin = Parent(q).fin,
         \A p \in Confirmed(Parent(q)) : p \in DOMAIN paths /\ paths[p] = Parent(q).paths[p]
  PROVE  KeptStep
<1> DEFINE r == q.fin.req.hold.req.r
           s == WithExtension(t0, q, deadline, permits, paths)
<1> HIDE DEF r, s
<1>1. /\ r \in DOMAIN PurgedStates /\ Parent(q) = PurgedStates[r]
      /\ states' = Put(PurgedStates, r, s)
  BY ExtensionScope DEF r, s
<1>2. s.hold = t0.hold /\ s.fin = t0.fin /\ s.paths = paths
  BY ExtensionShape DEF s
<1> QED BY <1>1, <1>2, RevisedKept

\* Extend: confirmed paths are kept.
LEMMA ExtendKept ==
  ASSUME ExitInv, NEW q, NEW c, NEW via,
         \/ ExtendProbe(q, via)
         \/ ExtendAuthorize(q, via)
         \/ ExtendCommit(q, c, via)
         \/ ExtendCommitConfirmed(q, c, via)
         \/ ExtendAbort(q, via)
  PROVE  KeptStep
<1> DEFINE t == Parent(q)
<1>1. \A p \in Confirmed(t) : p \in DOMAIN t.paths
  BY DEF Confirmed
<1>2. CASE ExtendProbe(q, via)
  <2>1. /\ ExtensionOpens(q, via)
        /\ ExtensionAnswered(q, WithExtension(t, q, q.exp, Put(t.permits, q.path, Artifact(q)), t.paths))
    BY <1>2 DEF ExtendProbe
  <2> HIDE DEF t
  <2> QED BY <1>1, <2>1, ExtensionKept DEF t
<1>3. CASE ExtendAuthorize(q, via)
  <2>1. PICK path :
          /\ ExtensionOpens(q, via)
          /\ t.ext[q.id].path = q.path /\ t.ext[q.id].phase = "Probe" /\ q.id \in DOMAIN t.ext
          /\ ExtensionAnswered(q, WithExtension(t, q, Retained(q).deadline, t.permits,
                                               Put(t.paths, q.path, path)))
    BY <1>3 DEF ExtendAuthorize, Continues, Retained
  <2>2. PathsOK(t)
    BY <2>1, ExtensionScope
  <2> HIDE DEF t
  <2> DEFINE paths == Put(t.paths, q.path, path)
  <2>3. \A p \in Confirmed(t) : p \in DOMAIN paths /\ paths[p] = t.paths[p]
    BY <1>1, <2>1, <2>2 DEF Put, PathsOK
  <2> HIDE DEF paths
  <2> QED BY <2>1, <2>3, ExtensionKept DEF t, paths
<1>4. CASE ExtendCommit(q, c, via)
  <2> DEFINE g == WithGrant(t, c.grant)
  <2>1. /\ ExtensionOpens(q, via) /\ Confirms(c, via)
        /\ c.grant.fin.req.hold.req.r = q.fin.req.hold.req.r
        /\ ExtensionAnswered(q, WithExtension(g, q, Retained(q).deadline, g.permits, g.paths))
    BY <1>4 DEF ExtendCommit, CommitsInOrder
  <2>2. c.grant.path \in DOMAIN t.paths /\ t.paths[c.grant.path].grant = {}
    BY <2>1 DEF Confirms, Parent
  <2> HIDE DEF t
  <2>3. /\ g.hold = t.hold /\ g.fin = t.fin
        /\ \A p \in Confirmed(t) : p \in DOMAIN g.paths /\ g.paths[p] = t.paths[p]
    BY <1>1, <2>2, GrantStored
  <2> HIDE DEF g
  <2> QED BY <2>1, <2>3, ExtensionKept DEF t
<1>5. CASE ExtendCommitConfirmed(q, c, via)
  <2>1. /\ ExtensionOpens(q, via)
        /\ ExtensionAnswered(q, WithExtension(t, q, Retained(q).deadline, t.permits, t.paths))
    BY <1>5 DEF ExtendCommitConfirmed, CommitsInOrder
  <2> HIDE DEF t
  <2> QED BY <1>1, <2>1, ExtensionKept DEF t
<1>6. CASE ExtendAbort(q, via)
  <2>1. /\ ExtensionOpens(q, via) /\ q.path \notin Confirmed(t)
        /\ ExtensionAnswered(q, WithExtension(t, q, Retained(q).deadline,
                                             Without(t.permits, q.path), Without(t.paths, q.path)))
    BY <1>6 DEF ExtendAbort, Abortable, Continues, Retained
  <2> HIDE DEF t
  <2> DEFINE paths == Without(t.paths, q.path)
  <2>2. \A p \in Confirmed(t) : p \in DOMAIN paths /\ paths[p] = t.paths[p]
    BY <1>1, <2>1 DEF Without
  <2> HIDE DEF paths
  <2> QED BY <2>1, <2>2, ExtensionKept DEF t, paths
<1> QED BY <1>2, <1>3, <1>4, <1>5, <1>6

(***************************************************************************)
(* No step of any handler takes a confirmed path from a live hold, or      *)
(* passes a bound route on to another hold or finalized bundle.            *)
(***************************************************************************)
THEOREM ExitConfirmedPathsKept == Spec => ConfirmedPathsKept
<1>1. ExitInv /\ [Next]_vars => [KeptStep]_vars
  <2> SUFFICES ASSUME ExitInv, Next PROVE KeptStep
    OBVIOUS
  <2>1. CASE \E q \in HoldRequests, via \in ControlRelays : HoldCapacity(q, via)
    BY <2>1, HoldKept
  <2>2. CASE SomePermit
    <3>1. \E q, via : IssueProbePermit(q, via)
      BY <2>2 DEF SomePermit
    <3> QED BY <3>1, PermitKept
  <2>3. CASE SomeFinalize
    <3>1. \E q, via : FinalizeReservation(q, via)
      BY <2>3 DEF SomeFinalize
    <3> QED BY <3>1, FinalizeKept
  <2>4. CASE SomeConfirm
    <3>1. \E q, via : ConfirmRelay(q, via)
      BY <2>4 DEF SomeConfirm
    <3> QED BY <3>1, ConfirmKept
  <2>5. CASE SomeExtension
    BY <2>5, ExtensionRequested, ExtendKept
  <2>5a. CASE SomeRefusal \/ \E q \in HoldRequests : HoldRefused(q)
    <3>1. \E recorded : RefusedAfter(recorded)
      BY <2>5a, RefusalsRecordNew DEF SomeRefusal
    <3>2. states' = PurgedStates
      BY <3>1 DEF RefusedAfter
    <3> QED BY <3>2, PurgeKeeps DEF KeptStep, Confirmed
  <2>6. CASE PurgeExpired \/ \E r \in ReservationIds : TakeNativeRouteAuthorization(r)
    <3>1. states' = PurgedStates
      BY <2>6 DEF PurgeExpired, TakeNativeRouteAuthorization
    <3> QED BY <3>1, PurgeKeeps DEF KeptStep, Confirmed
  <2>7. CASE \/ \E r \in ReservationIds : BindRoute(r) \/ MarkRouteEstablished(r)
             \/ Available \/ Tick
    <3>1. states' = states
      BY <2>7 DEF BindRoute, MarkRouteEstablished, Available, Tick
    <3> QED BY <3>1 DEF KeptStep, Confirmed
  <2>8. CASE \E r \in ReservationIds : Release(r)
    <3>1. \A x \in DOMAIN states' : states'[x] = states[x]
      BY <2>8 DEF Release
    <3> QED BY <3>1 DEF KeptStep, Confirmed
  <2>9. CASE Restart
    <3>1. DOMAIN states' = {}
      BY <2>9 DEF Restart
    <3> QED BY <3>1 DEF KeptStep
  <2> QED BY <2>1, <2>2, <2>3, <2>4, <2>5, <2>5a, <2>6, <2>7, <2>8, <2>9 DEF Next
<1>2. [][KeptStep]_vars => ConfirmedPathsKept
  BY DEF KeptStep, ConfirmedPathsKept
<1> QED BY <1>1, <1>2, ExitInvHolds, PTL DEF Spec

-------------------------------------------------------------------------------
(* Replay entries and the answers they stand for. *)

\* The stronger form that a passing clock keeps: expired entries are included.
SeenInv ==
  /\ DOMAIN seen = ReplayKinds
  /\ \A kind \in ReplayKinds \ {"route"} : \A k \in DOMAIN seen[kind] :
       \E a \in answers : a.boot = boot /\ k \in EntriesOf(a.req, kind)

\* What a transaction leaves in a replay cache: old live entries and its own.
LEMMA RecordDomain ==
  ASSUME NEW c, NEW e, NEW t
  PROVE  /\ DOMAIN Record(c, e, t) = DOMAIN Live(c, t) \cup DOMAIN e
         /\ DOMAIN Live(c, t) \subseteq DOMAIN c
BY DEF Record, Live

\* A transaction rolled back leaves no entry that was not there before.
LEMMA RolledBack ==
  ASSUME NEW c, NEW e
  PROVE  DOMAIN Rollback(Record(c, e, now), DOMAIN e) \subseteq DOMAIN c
<1> DEFINE d == Record(c, e, now)
<1>1. DOMAIN d = DOMAIN Live(c, now) \cup DOMAIN e /\ DOMAIN Live(c, now) \subseteq DOMAIN c
  BY RecordDomain
<1> HIDE DEF d
<1>2. DOMAIN Rollback(d, DOMAIN e) = DOMAIN d \ DOMAIN e
  BY DEF Rollback
<1>3. DOMAIN Rollback(d, DOMAIN e) \subseteq DOMAIN c
  BY <1>1, <1>2
<1> QED BY <1>3 DEF d

\* The entries of each kind of request.
LEMMA EntriesByKind ==
  ASSUME NEW q
  PROVE  /\ q.kind = "hold" => <<q.r, q.nonce>> \in EntriesOf(q, "hold")
         /\ q.kind = "permit" => PermitKey(q) \in EntriesOf(q, "permit")
         /\ q.kind = "finalize" => /\ <<q.hold, q.nonce>> \in EntriesOf(q, "finalize")
                                   /\ DOMAIN ProbeEntries(q) = EntriesOf(q, "probe")
         /\ q.kind = "extend" => ExtendKey(q) \in EntriesOf(q, "finalize")
         /\ q.kind = "confirm" => /\ ConfirmKey(q) \in EntriesOf(q, "confirm")
                                  /\ \A e : DOMAIN GrantEntries(q.grant, e) = EntriesOf(q, "grant")
<1>1. q.kind = "hold" => <<q.r, q.nonce>> \in EntriesOf(q, "hold")
  BY DEF EntriesOf
<1>2. q.kind = "permit" => PermitKey(q) \in EntriesOf(q, "permit")
  BY DEF EntriesOf
<1>3. q.kind = "finalize" => /\ <<q.hold, q.nonce>> \in EntriesOf(q, "finalize")
                             /\ DOMAIN ProbeEntries(q) = EntriesOf(q, "probe")
  BY DEF EntriesOf
<1>4. q.kind = "extend" => ExtendKey(q) \in EntriesOf(q, "finalize")
  BY DEF EntriesOf
<1>5. q.kind = "confirm" => ConfirmKey(q) \in EntriesOf(q, "confirm")
  BY DEF EntriesOf
<1>6. \A e, f : DOMAIN GrantEntries(q.grant, e) = DOMAIN GrantEntries(q.grant, f)
  BY DEF GrantEntries
<1>7. q.kind = "confirm" => EntriesOf(q, "grant") = DOMAIN GrantEntries(q.grant, q.exp)
  BY DEF EntriesOf
<1> QED BY <1>1, <1>2, <1>3, <1>4, <1>5, <1>6, <1>7

\* Every entry a step leaves was there before or belongs to a signed answer.
LEMMA SeenKept ==
  ASSUME SeenInv, DOMAIN seen' = ReplayKinds, answers \subseteq answers', boot' = boot,
         \A kind \in ReplayKinds \ {"route"} : \A k \in DOMAIN seen'[kind] :
           \/ k \in DOMAIN seen[kind]
           \/ \E a \in answers' : a.boot = boot /\ k \in EntriesOf(a.req, kind)
  PROVE  SeenInv'
<1> SUFFICES ASSUME NEW kind \in ReplayKinds \ {"route"}, NEW k \in DOMAIN seen'[kind]
             PROVE  \E a \in answers' : a.boot = boot /\ k \in EntriesOf(a.req, kind)
  <2>1. \A a, kind : (EntriesOf(a.req, kind))' = EntriesOf(a.req, kind)
    OBVIOUS
  <2> QED BY <2>1 DEF SeenInv
<1> QED BY DEF SeenInv

\* Accepted requests, each with the entries it recorded.
LEMMA SeenRecorded ==
  ASSUME SeenInv, NEW Q, answers' = answers \cup {Artifact(q) : q \in Q}, boot' = boot,
         DOMAIN seen' = DOMAIN seen,
         \A kind \in ReplayKinds \ {"route"} :
           \/ seen'[kind] = seen[kind]
           \/ \E e : /\ seen'[kind] = Record(seen[kind], e, now)
                     /\ \A k \in DOMAIN e : \E q \in Q : k \in EntriesOf(q, kind)
  PROVE  SeenInv'
<1>1. \A q \in Q : Artifact(q).boot = boot /\ Artifact(q).req = q
  BY DEF Artifact
<1> HIDE DEF Artifact
<1>2. ASSUME NEW kind \in ReplayKinds \ {"route"}, NEW k \in DOMAIN seen'[kind]
      PROVE  \/ k \in DOMAIN seen[kind]
             \/ \E a \in answers' : a.boot = boot /\ k \in EntriesOf(a.req, kind)
  <2>1. CASE seen'[kind] = seen[kind]
    BY <1>2, <2>1
  <2>2. ASSUME NEW e, seen'[kind] = Record(seen[kind], e, now),
               \A x \in DOMAIN e : \E q \in Q : x \in EntriesOf(q, kind)
        PROVE  \/ k \in DOMAIN seen[kind]
               \/ \E a \in answers' : a.boot = boot /\ k \in EntriesOf(a.req, kind)
    <3>1. k \in DOMAIN seen[kind] \/ k \in DOMAIN e
      <4>1. /\ DOMAIN Record(seen[kind], e, now) = DOMAIN Live(seen[kind], now) \cup DOMAIN e
            /\ DOMAIN Live(seen[kind], now) \subseteq DOMAIN seen[kind]
        BY DEF Record, Live
      <4>2. DOMAIN seen'[kind] \subseteq DOMAIN seen[kind] \cup DOMAIN e
        BY <2>2, <4>1
      <4> QED BY <1>2, <4>2
    <3>2. CASE k \in DOMAIN e
      <4>1. PICK q \in Q : k \in EntriesOf(q, kind)
        BY <2>2, <3>2
      <4>2. Artifact(q) \in answers' /\ Artifact(q).boot = boot /\ Artifact(q).req = q
        BY <1>1
      <4> QED BY <4>1, <4>2
    <3> QED BY <3>1, <3>2
  <2> QED BY <2>1, <2>2
<1> QED BY <1>2, SeenKept DEF SeenInv

\* One request and one entry: a hold, a permit or a phase of an extension.
LEMMA SeenOnce ==
  ASSUME SeenInv, NEW kind \in ReplayKinds, NEW q, NEW k, NEW exp, k \in EntriesOf(q, kind),
         seen' = [seen EXCEPT ![kind] = Record(seen[kind], Once(k, exp), now)],
         answers' = answers \cup {Artifact(q)}, boot' = boot
  PROVE  SeenInv'
<1> DEFINE Q == {q}
           e == Once(k, exp)
<1>1. DOMAIN e = {k}
  BY DEF Once
<1>2. answers' = answers \cup {Artifact(x) : x \in Q}
  OBVIOUS
<1> HIDE DEF e
<1>3. /\ DOMAIN seen' = DOMAIN seen
      /\ \A x \in ReplayKinds : x # kind => seen'[x] = seen[x]
      /\ seen'[kind] = Record(seen[kind], e, now)
  BY DEF SeenInv, e
<1>4. \A x \in DOMAIN e : \E y \in Q : x \in EntriesOf(y, kind)
  BY <1>1
<1> HIDE DEF Q
<1> QED BY <1>2, <1>3, <1>4, SeenRecorded

\* A handler that failed leaves what it had found, or less.
LEMMA SeenRefused ==
  ASSUME SeenInv, NEW recorded, RefusedAfter(recorded)
  PROVE  SeenInv'
<1>1. /\ DOMAIN seen' = ReplayKinds /\ answers' = answers /\ boot' = boot
      /\ \A k \in ReplayKinds :
           seen'[k] = IF k \in DOMAIN recorded
                      THEN Rollback(Record(seen[k], recorded[k], now), DOMAIN recorded[k])
                      ELSE seen[k]
  BY DEF RefusedAfter
<1>2. \A kind \in ReplayKinds : DOMAIN seen'[kind] \subseteq DOMAIN seen[kind]
  BY <1>1, RolledBack
<1> QED BY <1>1, <1>2, SeenKept

\* The answered requests keep SeenInv.
LEMMA SeenAccepted ==
  ASSUME SeenInv
  PROVE  /\ \A q \in HoldRequests : \A via : HoldCapacity(q, via) => SeenInv'
         /\ \A q, via : q.kind = "permit" /\ IssueProbePermit(q, via) => SeenInv'
         /\ \A q, via : q.kind = "finalize" /\ FinalizeReservation(q, via) => SeenInv'
         /\ \A q, via : q.kind = "confirm" /\ ConfirmRelay(q, via) => SeenInv'
         /\ \A q, c, via : /\ q.kind = "extend" /\ c.kind = "confirm"
                           /\ ExtendCommit(q, c, via)
                           => SeenInv'
         /\ \A q, c, via : /\ q.kind = "extend"
                           /\ \/ ExtendProbe(q, via) \/ ExtendAuthorize(q, via)
                              \/ ExtendCommitConfirmed(q, c, via) \/ ExtendAbort(q, via)
                           => SeenInv'
<1>0. {"hold", "permit", "finalize", "confirm", "probe", "grant"} \subseteq ReplayKinds
      /\ DOMAIN seen = ReplayKinds
  BY DEF ReplayKinds, SeenInv
<1>1. ASSUME NEW q \in HoldRequests, NEW via, HoldCapacity(q, via) PROVE SeenInv'
  <2>1. <<q.r, q.nonce>> \in EntriesOf(q, "hold")
    BY EntriesByKind, ExitAssumption DEF HoldRequest
  <2>2. /\ seen' = [seen EXCEPT !["hold"] =
                      Record(seen["hold"], Once(<<q.r, q.nonce>>, q.exp), now)]
        /\ answers' = answers \cup {Artifact(q)} /\ boot' = boot
    BY <1>1 DEF HoldCapacity
  <2> QED BY <1>0, <2>1, <2>2, SeenOnce
<1>2. ASSUME NEW q, NEW via, q.kind = "permit", IssueProbePermit(q, via) PROVE SeenInv'
  <2>1. PermitKey(q) \in EntriesOf(q, "permit")
    BY <1>2, EntriesByKind
  <2>2. /\ seen' = [seen EXCEPT !["permit"] =
                      Record(seen["permit"], Once(PermitKey(q), q.exp), now)]
        /\ answers' = answers \cup {Artifact(q)} /\ boot' = boot
    BY <1>2 DEF IssueProbePermit
  <2> QED BY <1>0, <2>1, <2>2, SeenOnce
<1>3. ASSUME NEW q, NEW via, q.kind = "finalize", FinalizeReservation(q, via) PROVE SeenInv'
  <2> DEFINE e == Once(<<q.hold, q.nonce>>, q.exp)
             f == ProbeEntries(q)
             Q == {q}
  <2>1. /\ \A k \in DOMAIN e : \E x \in Q : k \in EntriesOf(x, "finalize")
        /\ \A k \in DOMAIN f : \E x \in Q : k \in EntriesOf(x, "probe")
    BY <1>3, EntriesByKind DEF Once
  <2>2. /\ seen' = [seen EXCEPT !["finalize"] = Record(@, e, now), !["probe"] = Record(@, f, now)]
        /\ answers' = answers \cup {Artifact(q)} /\ boot' = boot
    BY <1>3 DEF FinalizeReservation
  <2> HIDE DEF e, f
  <2>3. /\ DOMAIN seen' = DOMAIN seen
        /\ seen'["finalize"] = Record(seen["finalize"], e, now)
        /\ seen'["probe"] = Record(seen["probe"], f, now)
        /\ \A x \in ReplayKinds : x \notin {"finalize", "probe"} => seen'[x] = seen[x]
    BY <1>0, <2>2
  <2>4. answers' = answers \cup {Artifact(x) : x \in Q}
    BY <2>2
  <2> HIDE DEF Q
  <2> QED BY <2>1, <2>2, <2>3, <2>4, SeenRecorded
<1>4. ASSUME NEW q, NEW via, q.kind = "confirm", ConfirmRelay(q, via) PROVE SeenInv'
  <2> DEFINE e == Once(ConfirmKey(q), q.exp)
             f == GrantEntries(q.grant, Expiry(PurgedStates[q.grant.fin.req.hold.req.r]))
             Q == {q}
  <2>1. /\ \A k \in DOMAIN e : \E x \in Q : k \in EntriesOf(x, "confirm")
        /\ \A k \in DOMAIN f : \E x \in Q : k \in EntriesOf(x, "grant")
    BY <1>4, EntriesByKind DEF Once
  <2>2. /\ seen' = [seen EXCEPT !["confirm"] = Record(@, e, now), !["grant"] = Record(@, f, now)]
        /\ answers' = answers \cup {Artifact(q)} /\ boot' = boot
    BY <1>4 DEF ConfirmRelay
  <2> HIDE DEF e, f
  <2>3. /\ DOMAIN seen' = DOMAIN seen
        /\ seen'["confirm"] = Record(seen["confirm"], e, now)
        /\ seen'["grant"] = Record(seen["grant"], f, now)
        /\ \A x \in ReplayKinds : x \notin {"confirm", "grant"} => seen'[x] = seen[x]
    BY <1>0, <2>2
  <2>4. answers' = answers \cup {Artifact(x) : x \in Q}
    BY <2>2
  <2> HIDE DEF Q
  <2> QED BY <2>1, <2>2, <2>3, <2>4, SeenRecorded
<1>5. ASSUME NEW q, NEW c, NEW via, q.kind = "extend", c.kind = "confirm", ExtendCommit(q, c, via)
      PROVE  SeenInv'
  <2> DEFINE e == Once(ConfirmKey(c), c.exp)
             f == GrantEntries(c.grant, Expiry(WithGrant(Parent(q), c.grant)))
             g == Once(ExtendKey(q), q.exp)
             Q == {c, q}
  <2>1. /\ \A k \in DOMAIN e : \E x \in Q : k \in EntriesOf(x, "confirm")
        /\ \A k \in DOMAIN f : \E x \in Q : k \in EntriesOf(x, "grant")
        /\ \A k \in DOMAIN g : \E x \in Q : k \in EntriesOf(x, "finalize")
    <3>1. /\ ConfirmKey(c) \in EntriesOf(c, "confirm") /\ DOMAIN f = EntriesOf(c, "grant")
          /\ ExtendKey(q) \in EntriesOf(q, "finalize")
      BY <1>5, EntriesByKind
    <3>2. DOMAIN e = {ConfirmKey(c)} /\ DOMAIN g = {ExtendKey(q)}
      BY DEF Once
    <3> HIDE DEF e, f, g
    <3> QED BY <3>1, <3>2
  <2>2. /\ seen' = [seen EXCEPT !["finalize"] = Record(seen["finalize"], g, now),
                                !["confirm"] = Record(@, e, now), !["grant"] = Record(@, f, now)]
        /\ answers' = answers \cup {Artifact(c), Artifact(q)} /\ boot' = boot
    BY <1>5 DEF ExtendCommit, RecordExtend, ExtensionAnswered
  <2> HIDE DEF e, f, g
  <2>3. /\ DOMAIN seen' = DOMAIN seen
        /\ seen'["confirm"] = Record(seen["confirm"], e, now)
        /\ seen'["grant"] = Record(seen["grant"], f, now)
        /\ seen'["finalize"] = Record(seen["finalize"], g, now)
        /\ \A x \in ReplayKinds : x \notin {"confirm", "grant", "finalize"} => seen'[x] = seen[x]
    BY <1>0, <2>2
  <2>4. answers' = answers \cup {Artifact(x) : x \in Q}
    BY <2>2
  <2> HIDE DEF Q
  <2> QED BY <2>1, <2>2, <2>3, <2>4, SeenRecorded
<1>6. ASSUME NEW q, NEW c, NEW via, q.kind = "extend",
             \/ ExtendProbe(q, via) \/ ExtendAuthorize(q, via)
             \/ ExtendCommitConfirmed(q, c, via) \/ ExtendAbort(q, via)
      PROVE  SeenInv'
  <2>1. ExtendKey(q) \in EntriesOf(q, "finalize")
    BY <1>6, EntriesByKind
  <2>2. /\ seen' = [seen EXCEPT !["finalize"] = RecordExtend(q)]
        /\ answers' = answers \cup {Artifact(q)} /\ boot' = boot
    BY <1>6 DEF ExtendProbe, ExtendAuthorize, ExtendCommitConfirmed, ExtendAbort, ExtensionAnswered
  <2> QED BY <1>0, <2>1, <2>2, SeenOnce DEF RecordExtend
<1> QED BY <1>1, <1>2, <1>3, <1>4, <1>5, <1>6

(***************************************************************************)
(* The replay caches contain only keys of requests this boot has answered, *)
(* although handlers record their keys before they know their outcome.     *)
(***************************************************************************)
THEOREM ExitOnlyAnsweredIsSeen == Spec => []OnlyAnsweredIsSeen
<1>1. Init => SeenInv
  BY DEF Init, SeenInv
<1>2. SeenInv /\ [Next]_vars => SeenInv'
  <2> SUFFICES ASSUME SeenInv, [Next]_vars PROVE SeenInv'
    OBVIOUS
  <2>1. CASE \E q \in HoldRequests, via \in ControlRelays : HoldCapacity(q, via)
    BY <2>1, SeenAccepted
  <2>2. CASE SomePermit
    <3>1. \E q, via : q.kind = "permit" /\ IssueProbePermit(q, via)
      BY <2>2 DEF SomePermit, PermitRequest
    <3> QED BY <3>1, SeenAccepted
  <2>3. CASE SomeFinalize
    <3>1. \E q, via : q.kind = "finalize" /\ FinalizeReservation(q, via)
      BY <2>3 DEF SomeFinalize, FinalizeRequest
    <3> QED BY <3>1, SeenAccepted
  <2>4. CASE SomeConfirm
    <3>1. \E q, via : q.kind = "confirm" /\ ConfirmRelay(q, via)
      BY <2>4 DEF SomeConfirm, ConfirmRequest
    <3> QED BY <3>1, SeenAccepted
  <2>5. CASE SomeExtension
    <3>1. \E q, c, via :
            /\ q.kind = "extend"
            /\ \/ c.kind = "confirm" /\ ExtendCommit(q, c, via)
               \/ ExtendProbe(q, via) \/ ExtendAuthorize(q, via)
               \/ ExtendCommitConfirmed(q, c, via) \/ ExtendAbort(q, via)
      BY <2>5, ExtensionRequested
    <3> QED BY <3>1, SeenAccepted
  <2>6. CASE SomeRefusal \/ \E q \in HoldRequests : HoldRefused(q)
    <3>1. \E recorded : RefusedAfter(recorded)
      BY <2>6, RefusalsRecordNew DEF SomeRefusal
    <3> QED BY <3>1, SeenRefused
  <2>7. CASE \E r \in ReservationIds : BindRoute(r)
    <3>1. PICK e : seen' = [seen EXCEPT !["route"] = e]
      BY <2>7 DEF BindRoute
    <3>2. DOMAIN seen' = ReplayKinds /\ \A x \in ReplayKinds \ {"route"} : seen'[x] = seen[x]
      BY <3>1 DEF SeenInv
    <3>3. answers' = answers /\ boot' = boot
      BY <2>7 DEF BindRoute
    <3> QED BY <3>2, <3>3, SeenKept
  <2>8. CASE Tick
    <3>1. /\ DOMAIN seen' = ReplayKinds
          /\ \A x \in ReplayKinds : DOMAIN seen'[x] \subseteq DOMAIN seen[x]
      BY <2>8 DEF Tick, Live
    <3>2. answers' = answers /\ boot' = boot
      BY <2>8 DEF Tick
    <3> QED BY <3>1, <3>2, SeenKept
  <2>9. CASE Restart
    BY <2>9 DEF Restart, SeenInv
  <2>10. CASE \/ PurgeExpired \/ Available \/ UNCHANGED vars
              \/ \E r \in ReservationIds :
                   TakeNativeRouteAuthorization(r) \/ MarkRouteEstablished(r) \/ Release(r)
    <3>1. seen' = seen /\ answers' = answers /\ boot' = boot
      BY <2>10 DEF PurgeExpired, Available, vars, TakeNativeRouteAuthorization,
                   MarkRouteEstablished, Release
    <3> QED BY <3>1, SeenKept DEF SeenInv
  <2> QED BY <2>1, <2>2, <2>3, <2>4, <2>5, <2>6, <2>7, <2>8, <2>9, <2>10 DEF Next
<1>3. SeenInv => OnlyAnsweredIsSeen
  BY DEF SeenInv, OnlyAnsweredIsSeen, Live
<1> QED BY <1>1, <1>2, <1>3, PTL DEF Spec

-------------------------------------------------------------------------------
(* Routes that grow. *)

\* A reservation keeps finitely many permits, paths and grants, of known paths.
ShapeOK(s) ==
  /\ s.phase \in {"Held", "Finalized"} /\ s.hold.req \in HoldRequests
  /\ IsFiniteSet(DOMAIN s.permits) /\ DOMAIN s.permits \subseteq Paths
  /\ IsFiniteSet(DOMAIN s.paths) /\ DOMAIN s.paths \subseteq Paths
  /\ IsFiniteSet(s.fin) /\ \A p \in DOMAIN s.paths : IsFiniteSet(s.paths[p].grant)

\* One attempt is open at most, and the room it was promised is still there.
GrowthOK(s) ==
  /\ \A x, y \in OpenExtensions(s) : x = y
  /\ Cardinality(DOMAIN s.paths) <= s.hold.req.maxPaths
  /\ \A x \in DOMAIN s.ext :
       s.ext[x].phase = "Probe" => Cardinality(DOMAIN s.paths) < s.hold.req.maxPaths

\* No path waits for its relay but that of the open attempt.
OnlyOpenWaits(s) ==
  DOMAIN s.paths \ Confirmed(s) \subseteq {s.ext[x].path : x \in OpenExtensions(s)}

\* A confirmation that can be repeated from the cache has left its grant.
ConfirmationKept(a, S) ==
  a.req.kind = "confirm" =>
    /\ a.hold = a.req.grant.fin.req.hold
    /\ a.req.grant.path \in Confirmed(S[a.hold.req.r])

GrowthInv(S, A, C) ==
  /\ \A r \in DOMAIN S : ShapeOK(S[r]) /\ GrowthOK(S[r])
  /\ \A r \in A : OnlyOpenWaits(S[r])
  /\ \A a \in C : ConfirmationKept(a, S)

Growth == GrowthInv(states, activated, cache)

\* purge_expired leaves the reservations that remain as they are.
LEMMA GrowthPurged ==
  ASSUME ExitInv, Growth
  PROVE  GrowthInv(PurgedStates, PurgedActivated, PurgedCache)
<1>1. /\ \A r \in DOMAIN PurgedStates : r \in DOMAIN states /\ PurgedStates[r] = states[r]
      /\ PurgedActivated \subseteq activated /\ PurgedActivated \subseteq DOMAIN PurgedStates
      /\ PurgedCache \subseteq cache
      /\ \A a \in PurgedCache : a.hold.req.r \in DOMAIN PurgedStates
  BY PurgeKeeps DEF BoundInv, CacheInv
<1> QED BY <1>1 DEF Growth, GrowthInv, ConfirmationKept

\* The state of one reservation is revised, the others stay.
LEMMA GrowthRevised ==
  ASSUME ExitInv, Growth, NEW r \in DOMAIN PurgedStates, NEW s,
         states' = Put(PurgedStates, r, s), activated' = PurgedActivated,
         ShapeOK(s), GrowthOK(s), r \in PurgedActivated => OnlyOpenWaits(s),
         Confirmed(PurgedStates[r]) \subseteq Confirmed(s),
         \A a \in cache' :
           \/ a \in PurgedCache
           \/ a.req.kind # "confirm"
           \/ /\ a.hold = a.req.grant.fin.req.hold /\ a.hold.req.r = r
              /\ a.req.grant.path \in Confirmed(s)
  PROVE  Growth'
<1> DEFINE S == PurgedStates
<1>1. /\ GrowthInv(S, PurgedActivated, PurgedCache) /\ PurgedActivated \subseteq DOMAIN S
      /\ \A a \in PurgedCache : a.hold.req.r \in DOMAIN S
  BY GrowthPurged, PurgeKeeps DEF BoundInv, CacheInv
<1> HIDE DEF S
<1>2. /\ DOMAIN states' = DOMAIN S /\ states'[r] = s /\ r \in DOMAIN S
      /\ \A x \in DOMAIN S : x # r => states'[x] = S[x]
  BY DEF Put, S
<1>3. Confirmed(S[r]) \subseteq Confirmed(s)
  BY DEF S
<1>4. \A x \in DOMAIN states' : ShapeOK(states'[x]) /\ GrowthOK(states'[x])
  BY <1>1, <1>2 DEF GrowthInv
<1>5. \A x \in activated' : OnlyOpenWaits(states'[x])
  BY <1>1, <1>2 DEF GrowthInv
<1>6. \A a \in cache' : ConfirmationKept(a, states')
  BY <1>1, <1>2, <1>3 DEF GrowthInv, ConfirmationKept
<1>7. GrowthInv(states', activated', cache')
  BY <1>4, <1>5, <1>6 DEF GrowthInv
<1> QED BY <1>7 DEF Growth

\* Hold: a new reservation has no paths yet.
LEMMA GrowthHold ==
  ASSUME ExitInv, Growth, NEW q \in HoldRequests, NEW via, HoldCapacity(q, via)
  PROVE  Growth'
<1> DEFINE S == PurgedStates
           hold == Artifact(q)
           s == HeldState(hold)
           new == Answer(q, hold, q.exp)
<1>1. /\ q.r \notin DOMAIN S /\ states' = Put(S, q.r, s)
      /\ cache' = PurgedCache \cup {new} /\ activated' = PurgedActivated
  BY DEF HoldCapacity
<1>2. hold.req = q /\ q.kind = "hold" /\ q.maxPaths \in Nat
  BY ExitAssumption DEF Artifact, HoldRequest
<1>3. /\ s.phase = "Held" /\ s.hold = hold /\ DOMAIN s.permits = {} /\ s.fin = {}
      /\ DOMAIN s.paths = {} /\ DOMAIN s.ext = {}
  BY DEF HeldState
<1>4. new.req = q
  BY DEF Answer
<1> HIDE DEF s, hold, new
<1>5. ShapeOK(s) /\ GrowthOK(s)
  BY <1>2, <1>3, FS_EmptySet DEF ShapeOK, GrowthOK, OpenExtensions
<1>6. /\ GrowthInv(S, PurgedActivated, PurgedCache) /\ PurgedActivated \subseteq DOMAIN S
      /\ \A a \in PurgedCache : a.hold.req.r \in DOMAIN S
  BY GrowthPurged, PurgeKeeps DEF BoundInv, CacheInv
<1> HIDE DEF S
<1>7. /\ DOMAIN states' = DOMAIN S \cup {q.r} /\ states'[q.r] = s
      /\ \A x \in DOMAIN S : x # q.r /\ states'[x] = S[x]
  BY <1>1 DEF Put
<1>8. GrowthInv(states', activated', cache')
  BY <1>1, <1>2, <1>4, <1>5, <1>6, <1>7 DEF GrowthInv, ConfirmationKept
<1> QED BY <1>8 DEF Growth

\* Permit: one more permit, of a known path.
LEMMA GrowthPermit ==
  ASSUME ExitInv, Growth, NEW q, q.kind = "permit", q.path \in Paths, NEW via,
         IssueProbePermit(q, via)
  PROVE  Growth'
<1> DEFINE r == q.hold.req.r
           t == PurgedStates[r]
           s == WithPermit(t, q.path, Artifact(q))
           new == Answer(q, q.hold, q.exp)
<1>1. /\ r \in DOMAIN PurgedStates /\ states' = Put(PurgedStates, r, s)
      /\ cache' = PurgedCache \cup {new} /\ activated' = PurgedActivated
  BY DEF IssueProbePermit, InScope
<1>2. /\ s.phase = t.phase /\ s.hold = t.hold /\ s.fin = t.fin /\ s.paths = t.paths
      /\ s.ext = t.ext /\ DOMAIN s.permits = DOMAIN t.permits \cup {q.path}
  <2> HIDE DEF t
  <2> QED BY DEF WithPermit, Put
<1>3. new.req.kind = "permit"
  BY DEF Answer
<1>4. /\ ShapeOK(t) /\ GrowthOK(t) /\ (r \in PurgedActivated => OnlyOpenWaits(t))
  BY <1>1, GrowthPurged DEF GrowthInv
<1> HIDE DEF s, t, new
<1>5. ShapeOK(s)
  BY <1>2, <1>4, FS_AddElement DEF ShapeOK
<1>6. /\ GrowthOK(s) /\ (r \in PurgedActivated => OnlyOpenWaits(s))
      /\ Confirmed(t) = Confirmed(s)
  BY <1>2, <1>4 DEF GrowthOK, OnlyOpenWaits, Confirmed, OpenExtensions
<1> QED BY <1>1, <1>3, <1>5, <1>6, GrowthRevised DEF t

\* Finalize: the chosen paths are among those with a permit, and within the hold.
LEMMA GrowthFinalize ==
  ASSUME ExitInv, Growth, NEW q, q.kind = "finalize", NEW via, FinalizeReservation(q, via)
  PROVE  Growth'
<1> DEFINE r == q.hold.req.r
           t == PurgedStates[r]
           fin == Artifact(q)
           new == Answer(q, q.hold, q.exp)
<1>1. PICK endpoint :
        /\ r \in DOMAIN PurgedStates /\ t.phase = "Held"
        /\ states' = Put(PurgedStates, r, FinalizedState(t, fin, FinalPaths(q, endpoint)))
        /\ activated' = PurgedActivated
        /\ \A a \in cache' : a \in PurgedCache \/ a = new
        /\ Cardinality(DOMAIN q.permits) \in 1..t.hold.req.maxPaths
        /\ DOMAIN q.permits \subseteq DOMAIN t.permits
  BY DEF FinalizeReservation, InScope
<1> DEFINE paths == FinalPaths(q, endpoint)
           s == FinalizedState(t, fin, paths)
<1>2. DOMAIN paths = DOMAIN q.permits /\ \A p \in DOMAIN paths : paths[p].grant = {}
  BY DEF FinalPaths
<1>3. /\ s.phase = "Finalized" /\ s.hold = t.hold /\ DOMAIN s.permits = {} /\ s.fin = {fin}
      /\ s.paths = paths /\ s.ext = t.ext
  <2> HIDE DEF t, fin, paths
  <2> QED BY DEF FinalizedState
<1>4. new.req.kind = "finalize"
  BY DEF Answer
<1>5. ShapeOK(t) /\ DOMAIN t.paths = {} /\ DOMAIN t.ext = {} /\ r \notin PurgedActivated
  BY <1>1, GrowthPurged, PurgeKeeps DEF GrowthInv, StateInv, BoundInv
<1>6. states' = Put(PurgedStates, r, s)
  BY <1>1
<1> HIDE DEF s, t, new, fin, paths
<1>7. IsFiniteSet(DOMAIN q.permits) /\ DOMAIN q.permits \subseteq Paths
  BY <1>1, <1>5, FS_Subset DEF ShapeOK
<1>8. ShapeOK(s)
  <2>1. IsFiniteSet({}) /\ IsFiniteSet({fin})
    BY FS_EmptySet, FS_Singleton
  <2>2. \A p \in DOMAIN s.paths : IsFiniteSet(s.paths[p].grant)
    BY <1>2, <1>3, <2>1
  <2> QED BY <1>2, <1>3, <1>5, <1>7, <2>1, <2>2 DEF ShapeOK
<1>9. t.hold.req.maxPaths \in Nat
  BY <1>5, ExitAssumption DEF ShapeOK, HoldRequest
<1>10. GrowthOK(s)
  BY <1>1, <1>2, <1>3, <1>5, <1>9 DEF GrowthOK, OpenExtensions
<1>11. Confirmed(t) \subseteq Confirmed(s)
  BY <1>5 DEF Confirmed
<1> QED BY <1>1, <1>4, <1>5, <1>6, <1>8, <1>10, <1>11, GrowthRevised DEF t

\* A grant on a path that waits: fewer paths wait.
LEMMA GrowthGranted ==
  ASSUME NEW t, NEW grant, grant.path \in DOMAIN t.paths, t.paths[grant.path].grant = {},
         ShapeOK(t), GrowthOK(t), NEW s, s = WithGrant(t, grant)
  PROVE  /\ ShapeOK(s) /\ GrowthOK(s) /\ s.ext = t.ext
         /\ OnlyOpenWaits(t) => OnlyOpenWaits(s)
         /\ Confirmed(s) = Confirmed(t) \cup {grant.path}
<1>1. /\ s.phase = t.phase /\ s.hold = t.hold /\ s.fin = t.fin /\ s.ext = t.ext
      /\ s.permits = t.permits /\ DOMAIN s.paths = DOMAIN t.paths
      /\ Confirmed(s) = Confirmed(t) \cup {grant.path}
  BY GrantStored
<1>2. \A p \in DOMAIN t.paths : \/ s.paths[p].grant = {grant}
                                \/ s.paths[p].grant = t.paths[p].grant
  BY DEF WithGrant, Put
<1>3. ShapeOK(s)
  <2>1. IsFiniteSet({grant})
    BY FS_Singleton
  <2>2. \A p \in DOMAIN s.paths : IsFiniteSet(s.paths[p].grant)
    BY <1>1, <1>2, <2>1 DEF ShapeOK
  <2> QED BY <1>1, <2>2 DEF ShapeOK
<1>4. GrowthOK(s) /\ (OnlyOpenWaits(t) => OnlyOpenWaits(s))
  BY <1>1 DEF GrowthOK, OnlyOpenWaits, OpenExtensions
<1> QED BY <1>1, <1>3, <1>4

\* Confirm: fewer paths wait, and the cached confirmation has its grant.
LEMMA GrowthConfirm ==
  ASSUME ExitInv, Growth, NEW q, NEW via, ConfirmRelay(q, via)
  PROVE  Growth'
<1> DEFINE hold == q.grant.fin.req.hold
           r == hold.req.r
           t == PurgedStates[r]
           s == WithGrant(t, q.grant)
           new == Answer(q, hold, q.exp)
<1>1. /\ r \in DOMAIN PurgedStates /\ states' = Put(PurgedStates, r, s)
      /\ q.grant.path \in DOMAIN t.paths /\ t.paths[q.grant.path].grant = {}
      /\ cache' = PurgedCache \cup {new} /\ activated' = PurgedActivated
  BY DEF ConfirmRelay, Confirms, InScope
<1>2. ShapeOK(t) /\ GrowthOK(t) /\ (r \in PurgedActivated => OnlyOpenWaits(t))
  BY <1>1, GrowthPurged DEF GrowthInv
<1> HIDE DEF t
<1>3. /\ ShapeOK(s) /\ GrowthOK(s) /\ (OnlyOpenWaits(t) => OnlyOpenWaits(s))
      /\ Confirmed(s) = Confirmed(t) \cup {q.grant.path}
  BY <1>1, <1>2, GrowthGranted
<1>4. new.req = q /\ new.hold = hold
  BY DEF Answer
<1> HIDE DEF s, new
<1> QED BY <1>1, <1>2, <1>3, <1>4, GrowthRevised DEF t

(***************************************************************************)
(* A phase of an extension, by what it does to the reservation it revises. *)
(***************************************************************************)
LEMMA GrowthExtended ==
  ASSUME ExitInv, Growth, NEW q, NEW via, NEW t, NEW deadline, NEW permits, NEW paths, NEW s,
         ExtensionOpens(q, via), s = WithExtension(t, q, deadline, permits, paths),
         ExtensionAnswered(q, s),
         ShapeOK(s), GrowthOK(s), OnlyOpenWaits(Parent(q)) => OnlyOpenWaits(s),
         Confirmed(Parent(q)) \subseteq Confirmed(s),
         \A a \in cache' :
           \/ a \in PurgedCache
           \/ /\ a.hold = a.req.grant.fin.req.hold /\ a.hold.req.r = q.fin.req.hold.req.r
              /\ a.req.grant.path \in Confirmed(s)
  PROVE  Growth'
<1> DEFINE r == q.fin.req.hold.req.r
<1> HIDE DEF r
<1>1. /\ r \in DOMAIN PurgedStates /\ Parent(q) = PurgedStates[r]
      /\ states' = Put(PurgedStates, r, s) /\ activated' = PurgedActivated
  BY ExtensionScope DEF r
<1>2. r \in PurgedActivated => OnlyOpenWaits(Parent(q))
  BY <1>1, GrowthPurged DEF GrowthInv
<1> QED BY <1>1, <1>2, GrowthRevised DEF r

\* What an extension finds.
LEMMA GrowthParent ==
  ASSUME ExitInv, Growth, NEW q, NEW via, ExtensionOpens(q, via)
  PROVE  ShapeOK(Parent(q)) /\ GrowthOK(Parent(q)) /\ Parent(q).hold.req.maxPaths \in Nat
<1>1. ShapeOK(Parent(q)) /\ GrowthOK(Parent(q))
  BY GrowthPurged DEF ExtensionOpens, InScope, Parent, GrowthInv
<1> QED BY <1>1, ExitAssumption DEF ShapeOK, HoldRequest

\* Probe: the only attempt that is open now, with room for its path.
LEMMA GrowthProbe ==
  ASSUME ExitInv, Growth, NEW q, q.path \in Paths, NEW via, ExtendProbe(q, via)
  PROVE  Growth'
<1> DEFINE t == Parent(q)
           permits == Put(t.permits, q.path, Artifact(q))
           s == WithExtension(t, q, q.exp, permits, t.paths)
<1>1. /\ ExtensionOpens(q, via) /\ q.phase = "Probe" /\ q.id \notin DOMAIN t.ext
      /\ NewPath(t, q) /\ ExtensionAnswered(q, s) /\ cache' = PurgedCache
  BY DEF ExtendProbe
<1>2. ShapeOK(t) /\ GrowthOK(t)
  BY <1>1, GrowthParent
<1> HIDE DEF t
<1>3. DOMAIN permits = DOMAIN t.permits \cup {q.path}
  BY DEF Put
<1> HIDE DEF permits
<1>4. /\ s.phase = t.phase /\ s.hold = t.hold /\ s.fin = t.fin
      /\ s.paths = t.paths /\ s.permits = permits
      /\ DOMAIN s.ext = DOMAIN t.ext \cup {q.id}
      /\ \A x \in DOMAIN t.ext : x # q.id => s.ext[x] = t.ext[x]
      /\ s.ext[q.id].path = q.path /\ s.ext[q.id].phase = q.phase
  BY ExtensionShape
<1>s. s = WithExtension(t, q, q.exp, permits, t.paths)
  OBVIOUS
<1> HIDE DEF s
<1>5. ShapeOK(s)
  <2>1. IsFiniteSet(DOMAIN s.permits)
    <3>1. IsFiniteSet(DOMAIN t.permits)
      BY <1>2 DEF ShapeOK
    <3>2. IsFiniteSet(DOMAIN t.permits \cup {q.path})
      BY <3>1, FS_AddElement
    <3> QED BY <1>3, <1>4, <3>2
  <2> QED BY <1>2, <1>3, <1>4, <2>1 DEF ShapeOK
<1>6. OpenExtensions(s) = {q.id}
  BY <1>1, <1>4 DEF NewPath, OpenExtensions
<1>7. GrowthOK(s)
  BY <1>1, <1>2, <1>4, <1>6 DEF GrowthOK, NewPath
<1>8. Confirmed(s) = Confirmed(t)
  BY <1>4 DEF Confirmed
<1>9. OnlyOpenWaits(s)
  BY <1>1, <1>4, <1>8 DEF OnlyOpenWaits, NewPath
<1> QED BY <1>1, <1>s, <1>5, <1>7, <1>8, <1>9, GrowthExtended DEF t

\* Authorize: the path takes the room its probe was promised.
LEMMA GrowthAuthorize ==
  ASSUME ExitInv, Growth, NEW q, q.path \in Paths, NEW via, ExtendAuthorize(q, via)
  PROVE  Growth'
<1> DEFINE t == Parent(q)
<1>1. PICK path : /\ path.grant = {}
                  /\ ExtensionAnswered(q, WithExtension(t, q, Retained(q).deadline, t.permits,
                                                        Put(t.paths, q.path, path)))
  <2>1. PICK clientKey \in q.body, exitKey \in Keys :
          ExtensionAnswered(q, WithExtension(t, q, Retained(q).deadline, t.permits,
            Put(t.paths, q.path, [relay |-> q.relay, clientKey |-> clientKey,
                                  exitKey |-> exitKey, grant |-> {}])))
    BY DEF ExtendAuthorize
  <2> QED BY <2>1
<1> DEFINE paths == Put(t.paths, q.path, path)
           s == WithExtension(t, q, Retained(q).deadline, t.permits, paths)
<1>2. /\ ExtensionOpens(q, via) /\ q.phase = "Authorize" /\ ExtensionAnswered(q, s)
      /\ q.id \in DOMAIN t.ext /\ t.ext[q.id].path = q.path /\ t.ext[q.id].phase = "Probe"
      /\ cache' = PurgedCache
  BY <1>1 DEF ExtendAuthorize, Continues, Retained
<1>3. ShapeOK(t) /\ GrowthOK(t) /\ t.hold.req.maxPaths \in Nat
  BY <1>2, GrowthParent
<1>4. PathsOK(t)
  BY <1>2, ExtensionScope
<1> HIDE DEF t
<1>5. /\ DOMAIN paths = DOMAIN t.paths \cup {q.path} /\ paths[q.path] = path
      /\ \A p \in DOMAIN t.paths : p # q.path => paths[p] = t.paths[p]
  BY DEF Put
<1> HIDE DEF paths
<1>6. /\ s.phase = t.phase /\ s.hold = t.hold /\ s.fin = t.fin
      /\ s.paths = paths /\ s.permits = t.permits
      /\ DOMAIN s.ext = DOMAIN t.ext \cup {q.id}
      /\ \A x \in DOMAIN t.ext : x # q.id => s.ext[x] = t.ext[x]
      /\ s.ext[q.id].path = q.path /\ s.ext[q.id].phase = q.phase
  BY ExtensionShape
<1>s. s = WithExtension(t, q, Retained(q).deadline, t.permits, paths)
  OBVIOUS
<1> HIDE DEF s
<1>7. ShapeOK(s)
  <2>1. IsFiniteSet(DOMAIN s.paths)
    <3>1. IsFiniteSet(DOMAIN t.paths)
      BY <1>3 DEF ShapeOK
    <3>2. IsFiniteSet(DOMAIN t.paths \cup {q.path})
      BY <3>1, FS_AddElement
    <3> QED BY <1>5, <1>6, <3>2
  <2>2. \A p \in DOMAIN s.paths : IsFiniteSet(s.paths[p].grant)
    <3>1. IsFiniteSet(path.grant)
      BY <1>1, FS_EmptySet
    <3> QED BY <1>3, <1>5, <1>6, <3>1 DEF ShapeOK
  <2> QED BY <1>3, <1>5, <1>6, <2>1, <2>2 DEF ShapeOK
<1>8. OpenExtensions(t) = {q.id} /\ OpenExtensions(s) = {q.id}
  <2>1. q.id \in OpenExtensions(t)
    BY <1>2 DEF OpenExtensions
  <2>2. OpenExtensions(t) = {q.id}
    BY <1>3, <2>1 DEF GrowthOK
  <2> QED BY <1>2, <1>6, <2>2 DEF OpenExtensions
<1>9. GrowthOK(s)
  <2>1. /\ IsFiniteSet(DOMAIN t.paths) /\ Cardinality(DOMAIN t.paths) < t.hold.req.maxPaths
    BY <1>2, <1>3 DEF ShapeOK, GrowthOK
  <2>2. /\ Cardinality(DOMAIN t.paths) \in Nat
        /\ Cardinality(DOMAIN s.paths) <= Cardinality(DOMAIN t.paths) + 1
    <3> DEFINE D == DOMAIN t.paths
    <3>1. Cardinality(D) \in Nat
      BY <2>1, FS_CardinalityType
    <3>2. Cardinality(D \cup {q.path}) = IF q.path \in D THEN Cardinality(D) ELSE Cardinality(D) + 1
      BY <2>1, FS_AddElement
    <3> HIDE DEF D
    <3>3. Cardinality(D \cup {q.path}) <= Cardinality(D) + 1
      BY <3>1, <3>2
    <3> QED BY <1>5, <1>6, <3>1, <3>3 DEF D
  <2>3. Cardinality(DOMAIN s.paths) \in Nat
    BY <1>7, FS_CardinalityType DEF ShapeOK
  <2>4. Cardinality(DOMAIN s.paths) <= s.hold.req.maxPaths
    BY <1>3, <1>6, <2>1, <2>2, <2>3
  <2>5. \A x \in DOMAIN s.ext : s.ext[x].phase # "Probe"
    BY <1>2, <1>6, <1>8 DEF OpenExtensions
  <2> QED BY <1>8, <2>4, <2>5 DEF GrowthOK
<1>10. Confirmed(s) = Confirmed(t)
  BY <1>1, <1>2, <1>4, <1>5, <1>6 DEF Confirmed, PathsOK
<1>11. OnlyOpenWaits(t) => OnlyOpenWaits(s)
  BY <1>2, <1>5, <1>6, <1>8, <1>10 DEF OnlyOpenWaits
<1> QED BY <1>2, <1>s, <1>7, <1>9, <1>10, <1>11, GrowthExtended DEF t

\* Closing an attempt whose path no longer waits leaves no path waiting.
LEMMA GrowthClosed ==
  ASSUME NEW t, NEW q, NEW paths, NEW permits, NEW deadline, NEW s,
         s = WithExtension(t, q, deadline, permits, paths),
         ShapeOK(t), GrowthOK(t), t.hold.req.maxPaths \in Nat,
         q.id \in DOMAIN t.ext, t.ext[q.id].path = q.path, q.phase \in {"Commit", "Abort"},
         DOMAIN permits \subseteq DOMAIN t.permits, DOMAIN paths \subseteq DOMAIN t.paths,
         \A p \in DOMAIN paths : paths[p] = t.paths[p],
         \A p \in Confirmed(t) : p \in DOMAIN paths,
         q.path \in Confirmed(t) \/ q.path \notin DOMAIN paths
  PROVE  /\ ShapeOK(s) /\ GrowthOK(s) /\ (OnlyOpenWaits(t) => OnlyOpenWaits(s))
         /\ Confirmed(t) = Confirmed(s)
<1>1. /\ s.phase = t.phase /\ s.hold = t.hold /\ s.fin = t.fin
      /\ s.paths = paths /\ s.permits = permits
      /\ DOMAIN s.ext = DOMAIN t.ext \cup {q.id}
      /\ \A x \in DOMAIN t.ext : x # q.id => s.ext[x] = t.ext[x]
      /\ s.ext[q.id].path = q.path /\ s.ext[q.id].phase = q.phase
  BY ExtensionShape
<1>2. ShapeOK(s) /\ Cardinality(DOMAIN s.paths) <= Cardinality(DOMAIN t.paths)
  BY <1>1, FS_Subset DEF ShapeOK
<1>3. Cardinality(DOMAIN s.paths) \in Nat /\ Cardinality(DOMAIN t.paths) \in Nat
  BY <1>2, FS_CardinalityType DEF ShapeOK
<1>4. OpenExtensions(s) = OpenExtensions(t) \ {q.id}
  BY <1>1 DEF OpenExtensions
<1>5. GrowthOK(s)
  BY <1>1, <1>2, <1>3, <1>4 DEF GrowthOK
<1>6. Confirmed(s) = Confirmed(t)
  BY <1>1 DEF Confirmed
<1>7. OnlyOpenWaits(t) => OnlyOpenWaits(s)
  <2> SUFFICES ASSUME OnlyOpenWaits(t), NEW p \in DOMAIN s.paths \ Confirmed(s)
               PROVE  \E x \in OpenExtensions(s) : p = s.ext[x].path
    BY DEF OnlyOpenWaits
  <2>1. p \in DOMAIN t.paths \ Confirmed(t) /\ p # q.path
    BY <1>1, <1>6
  <2>2. PICK x \in OpenExtensions(t) : p = t.ext[x].path
    BY <2>1 DEF OnlyOpenWaits
  <2>3. x # q.id /\ x \in DOMAIN t.ext
    BY <2>1, <2>2 DEF OpenExtensions
  <2> QED BY <1>1, <1>4, <2>2, <2>3
<1> QED BY <1>2, <1>5, <1>6, <1>7

\* Abort: the path of the attempt goes, if it was there at all.
LEMMA GrowthAbort ==
  ASSUME ExitInv, Growth, NEW q, NEW via, ExtendAbort(q, via)
  PROVE  Growth'
<1> DEFINE t == Parent(q)
           permits == Without(t.permits, q.path)
           paths == Without(t.paths, q.path)
           s == WithExtension(t, q, Retained(q).deadline, permits, paths)
<1>1. /\ ExtensionOpens(q, via) /\ q.phase = "Abort" /\ q.path \notin Confirmed(t)
      /\ q.id \in DOMAIN t.ext /\ t.ext[q.id].path = q.path
      /\ ExtensionAnswered(q, s) /\ cache' = PurgedCache
  BY DEF ExtendAbort, Continues, Abortable, Retained
<1>2. ShapeOK(t) /\ GrowthOK(t) /\ t.hold.req.maxPaths \in Nat
  BY <1>1, GrowthParent
<1> HIDE DEF t
<1>3. /\ DOMAIN permits \subseteq DOMAIN t.permits /\ DOMAIN paths = DOMAIN t.paths \ {q.path}
      /\ \A p \in DOMAIN paths : paths[p] = t.paths[p]
  BY DEF Without
<1>4. \A p \in Confirmed(t) : p \in DOMAIN paths
  BY <1>1, <1>3 DEF Confirmed
<1> HIDE DEF permits, paths
<1>5. /\ ShapeOK(s) /\ GrowthOK(s) /\ (OnlyOpenWaits(t) => OnlyOpenWaits(s))
      /\ Confirmed(t) = Confirmed(s)
  BY <1>1, <1>2, <1>3, <1>4, GrowthClosed
<1> QED BY <1>1, <1>5, GrowthExtended DEF t

\* Commit of a path that was confirmed before: its cached confirmation says so.
LEMMA GrowthCommitConfirmed ==
  ASSUME ExitInv, Growth, NEW q, NEW c, c.kind = "confirm", NEW via,
         ExtendCommitConfirmed(q, c, via)
  PROVE  Growth'
<1> DEFINE t == Parent(q)
           s == WithExtension(t, q, Retained(q).deadline, t.permits, t.paths)
<1>1. /\ ExtensionOpens(q, via) /\ q.phase = "Commit"
      /\ q.id \in DOMAIN t.ext /\ t.ext[q.id].path = q.path
      /\ c.grant.path = q.path /\ c.grant.fin.req.hold.req.r = q.fin.req.hold.req.r
      /\ ExtensionAnswered(q, s) /\ cache' = PurgedCache
  BY DEF ExtendCommitConfirmed, CommitsInOrder, Continues, Retained
<1>2. PICK a \in PurgedCache : a.req = c
  BY DEF ExtendCommitConfirmed
<1>3. q.path \in Confirmed(t)
  <2>1. ConfirmationKept(a, PurgedStates)
    BY <1>2, GrowthPurged DEF GrowthInv
  <2> QED BY <1>1, <1>2, <2>1 DEF ConfirmationKept, Parent
<1>4. ShapeOK(t) /\ GrowthOK(t) /\ t.hold.req.maxPaths \in Nat
  BY <1>1, GrowthParent
<1> HIDE DEF t
<1>5. \A p \in Confirmed(t) : p \in DOMAIN t.paths
  BY DEF Confirmed
<1>6. /\ ShapeOK(s) /\ GrowthOK(s) /\ (OnlyOpenWaits(t) => OnlyOpenWaits(s))
      /\ Confirmed(t) = Confirmed(s)
  BY <1>1, <1>3, <1>4, <1>5, GrowthClosed
<1> QED BY <1>1, <1>6, GrowthExtended DEF t

\* Commit that confirms on the way: the grant is stored, then the attempt closes.
LEMMA GrowthCommit ==
  ASSUME ExitInv, Growth, NEW q, NEW c, NEW via, ExtendCommit(q, c, via)
  PROVE  Growth'
<1> DEFINE t == Parent(q)
           g == WithGrant(t, c.grant)
           s == WithExtension(g, q, Retained(q).deadline, g.permits, g.paths)
           new == Answer(c, c.grant.fin.req.hold, c.exp)
<1>1. /\ ExtensionOpens(q, via) /\ Confirms(c, via) /\ q.phase = "Commit"
      /\ q.id \in DOMAIN t.ext /\ t.ext[q.id].path = q.path
      /\ c.grant.path = q.path /\ c.grant.fin.req.hold.req.r = q.fin.req.hold.req.r
      /\ ExtensionAnswered(q, s) /\ cache' = PurgedCache \cup {new}
  BY DEF ExtendCommit, CommitsInOrder, Continues, Retained
<1>2. c.grant.path \in DOMAIN t.paths /\ t.paths[c.grant.path].grant = {}
  BY <1>1 DEF Confirms, Parent
<1>3. ShapeOK(t) /\ GrowthOK(t) /\ t.hold.req.maxPaths \in Nat
  BY <1>1, GrowthParent
<1>4. new.req = c /\ new.hold = c.grant.fin.req.hold
  BY DEF Answer
<1> HIDE DEF t, new
<1>5. /\ ShapeOK(g) /\ GrowthOK(g) /\ g.ext = t.ext /\ g.hold = t.hold
      /\ OnlyOpenWaits(t) => OnlyOpenWaits(g)
      /\ Confirmed(g) = Confirmed(t) \cup {c.grant.path}
  BY <1>2, <1>3, GrowthGranted, GrantStored
<1> HIDE DEF g
<1>6. \A p \in Confirmed(g) : p \in DOMAIN g.paths
  BY DEF Confirmed
<1>7. /\ ShapeOK(s) /\ GrowthOK(s) /\ (OnlyOpenWaits(g) => OnlyOpenWaits(s))
      /\ Confirmed(g) = Confirmed(s)
  BY <1>1, <1>3, <1>5, <1>6, GrowthClosed
<1>8. \A a \in cache' :
        \/ a \in PurgedCache
        \/ /\ a.hold = a.req.grant.fin.req.hold /\ a.hold.req.r = q.fin.req.hold.req.r
           /\ a.req.grant.path \in Confirmed(s)
  BY <1>1, <1>4, <1>5, <1>7
<1> QED BY <1>1, <1>5, <1>7, <1>8, GrowthExtended DEF t

\* Steps that only remove reservations, bind a settled one, or touch neither.
LEMMA GrowthRest ==
  ASSUME ExitInv, ExitInv', Growth,
         DOMAIN states' \subseteq DOMAIN states, \A r \in DOMAIN states' : states'[r] = states[r],
         \A r \in activated' : r \in activated \/ AllPathsConfirmed(states[r]),
         cache' \subseteq cache
  PROVE  Growth'
<1>1. \A r \in activated' : r \in DOMAIN states'
  BY DEF ExitInv, BoundInv
<1>2. \A a \in cache' : a.hold.req.r \in DOMAIN states'
  BY DEF ExitInv, CacheInv
<1>3. \A r \in DOMAIN states' : ShapeOK(states'[r]) /\ GrowthOK(states'[r])
  BY DEF Growth, GrowthInv
<1>4. \A r \in activated' : OnlyOpenWaits(states'[r])
  <2>1. \A s : AllPathsConfirmed(s) => OnlyOpenWaits(s)
    BY DEF AllPathsConfirmed, OnlyOpenWaits
  <2> QED BY <1>1, <2>1 DEF Growth, GrowthInv
<1>5. \A a \in cache' : ConfirmationKept(a, states')
  BY <1>2 DEF Growth, GrowthInv, ConfirmationKept
<1>6. GrowthInv(states', activated', cache')
  BY <1>3, <1>4, <1>5 DEF GrowthInv
<1> QED BY <1>6 DEF Growth

\* Every step keeps the growth of every route in order.
LEMMA GrowthInductive == ExitInv /\ ExitInv' /\ Growth /\ [Next]_vars => Growth'
<1> SUFFICES ASSUME ExitInv, ExitInv', Growth, [Next]_vars PROVE Growth'
  OBVIOUS
<1>1. CASE \E q \in HoldRequests, via \in ControlRelays : HoldCapacity(q, via)
  BY <1>1, GrowthHold
<1>2. CASE SomePermit
  <2>1. \E q, via : q.kind = "permit" /\ q.path \in Paths /\ IssueProbePermit(q, via)
    BY <1>2 DEF SomePermit, PermitRequest
  <2> QED BY <2>1, GrowthPermit
<1>3. CASE SomeFinalize
  <2>1. \E q, via : q.kind = "finalize" /\ FinalizeReservation(q, via)
    BY <1>3 DEF SomeFinalize, FinalizeRequest
  <2> QED BY <2>1, GrowthFinalize
<1>4. CASE SomeConfirm
  <2>1. \E q, via : ConfirmRelay(q, via)
    BY <1>4 DEF SomeConfirm
  <2> QED BY <2>1, GrowthConfirm
<1>5. CASE SomeExtension
  BY <1>5, ExtensionRequested, GrowthProbe, GrowthAuthorize, GrowthCommit, GrowthCommitConfirmed,
     GrowthAbort
<1>6. CASE \/ PurgeExpired \/ \E r \in ReservationIds : TakeNativeRouteAuthorization(r)
           \/ SomeRefusal \/ \E q \in HoldRequests : HoldRefused(q)
  <2>1. states' = PurgedStates /\ activated' = PurgedActivated /\ cache' = PurgedCache
    <3>1. CASE SomeRefusal \/ \E q \in HoldRequests : HoldRefused(q)
      <4>1. \E recorded : RefusedAfter(recorded)
        BY <3>1, RefusalsRecordNew DEF SomeRefusal
      <4> QED BY <4>1 DEF RefusedAfter
    <3> QED BY <1>6, <3>1 DEF PurgeExpired, TakeNativeRouteAuthorization
  <2> QED BY <2>1, GrowthPurged DEF Growth
<1>7. CASE \E r \in ReservationIds : BindRoute(r)
  BY <1>7, GrowthRest DEF BindRoute
<1>8. CASE \E r \in ReservationIds : Release(r)
  <2>1. /\ DOMAIN states' \subseteq DOMAIN states
        /\ \A r \in DOMAIN states' : states'[r] = states[r]
        /\ activated' \subseteq activated /\ cache' \subseteq cache
    BY <1>8 DEF Release
  <2> QED BY <2>1, GrowthRest
<1>9. CASE Restart
  <2>1. DOMAIN states' = {} /\ activated' = {} /\ cache' = {}
    BY <1>9 DEF Restart
  <2> QED BY <2>1, GrowthRest
<1>10. CASE \/ Available \/ Tick \/ UNCHANGED vars
            \/ \E r \in ReservationIds : MarkRouteEstablished(r)
  <2>1. states' = states /\ activated' = activated /\ cache' = cache
    BY <1>10 DEF Available, Tick, vars, MarkRouteEstablished
  <2> QED BY <2>1, GrowthRest
<1> QED BY <1>1, <1>2, <1>3, <1>4, <1>5, <1>6, <1>7, <1>8, <1>9, <1>10 DEF Next

\* Every reachable state keeps the growth of its routes in order.
LEMMA GrowthHolds == Spec => []Growth
<1>1. Init => Growth
  BY DEF Init, Growth, GrowthInv
<1> QED BY <1>1, ExitInvHolds, GrowthInductive, PTL DEF Spec

(***************************************************************************)
(* A route grows by one path at a time and within its hold, however its    *)
(* extension attempts, confirmations and late retries interleave.          *)
(***************************************************************************)
THEOREM ExitOnePathAtATime == Spec => []OnePathAtATime
<1>1. ExitInv /\ Growth => OnePathAtATime
  BY DEF Growth, GrowthInv, GrowthOK, OnlyOpenWaits, OnePathAtATime
<1> QED BY <1>1, ExitInvHolds, GrowthHolds, PTL

-------------------------------------------------------------------------------
(* Types and bounds. *)

\* At most n elements.
Bounded(X, n) == IsFiniteSet(X) /\ Cardinality(X) <= n

LedgerTyped(L) ==
  /\ DOMAIN L.grants \subseteq ReservationIds
  /\ L.grants \in [DOMAIN L.grants -> Grants]

BoundsInv ==
  /\ now \in 0..MaxNow /\ boot \in 0..MaxBoot
  /\ LedgerTyped(ledger)
  /\ Bounded(cache, CacheCapacity)
  /\ \A k \in ReplayKinds : Bounded(DOMAIN seen[k], MaxReplay)

\* A part of a bounded set is bounded.
LEMMA BoundedPart ==
  ASSUME NEW X, NEW n \in Nat, Bounded(X, n), NEW Y, Y \subseteq X
  PROVE  Bounded(Y, n)
<1>1. IsFiniteSet(Y) /\ Cardinality(Y) <= Cardinality(X)
  BY FS_Subset DEF Bounded
<1>2. Cardinality(X) \in Nat /\ Cardinality(Y) \in Nat
  BY <1>1, FS_CardinalityType DEF Bounded
<1> QED BY <1>1, <1>2 DEF Bounded

\* There is room for one more.
LEMMA BoundedMore ==
  ASSUME NEW X, NEW n \in Nat, IsFiniteSet(X), Cardinality(X) < n, NEW y
  PROVE  Bounded(X \cup {y}, n)
<1>1. IsFiniteSet(X \cup {y}) /\ Cardinality(X) \in Nat
  BY FS_AddElement, FS_CardinalityType
<1>2. Cardinality(X \cup {y}) = IF y \in X THEN Cardinality(X) ELSE Cardinality(X) + 1
  BY FS_AddElement
<1>3. Cardinality(X \cup {y}) <= n
  BY <1>1, <1>2
<1> QED BY <1>1, <1>3 DEF Bounded

\* Finitely many arguments have finitely many values.
LEMMA FiniteValues ==
  ASSUME NEW S, IsFiniteSet(S), NEW f
  PROVE  IsFiniteSet({f[x] : x \in S})
<1> DEFINE T == {f[x] : x \in S}
           g == [x \in S |-> f[x]]
<1>1. g \in [S -> T] /\ \A y \in T : \E x \in S : g[x] = y
  OBVIOUS
<1> HIDE DEF g
<1>2. g \in Surjection(S, T)
  BY <1>1 DEF Surjection
<1> QED BY <1>2, FS_Surjection

\* What check_and_insert admits fits into the cache.
LEMMA RecordBounded ==
  ASSUME NEW c, NEW e, NEW t, IsFiniteSet(DOMAIN c), IsFiniteSet(DOMAIN e),
         Unseen(c, DOMAIN e, t)
  PROVE  Bounded(DOMAIN Record(c, e, t), MaxReplay)
<1> DEFINE X == DOMAIN Live(c, t)
           Y == DOMAIN e
<1>1. DOMAIN Record(c, e, t) = X \cup Y /\ X \subseteq DOMAIN c
  BY RecordDomain
<1>2. Cardinality(X) + Cardinality(Y) <= MaxReplay
  BY DEF Unseen
<1>3. IsFiniteSet(X)
  BY <1>1, FS_Subset
<1> HIDE DEF X, Y
<1>4. IsFiniteSet(Y)
  BY DEF Y
<1>5. /\ IsFiniteSet(X \cup Y)
      /\ Cardinality(X \cup Y) = Cardinality(X) + Cardinality(Y) - Cardinality(X \cap Y)
  BY <1>3, <1>4, FS_Union
<1>6. /\ Cardinality(X) \in Nat /\ Cardinality(Y) \in Nat /\ Cardinality(X \cap Y) \in Nat
  BY <1>3, <1>4, FS_Intersection, FS_CardinalityType
<1>7. MaxReplay \in Nat
  BY ReplayAssumption
<1> QED BY <1>1, <1>2, <1>5, <1>6, <1>7 DEF Bounded

\* One key is a finite transaction.
LEMMA OnceFinite ==
  ASSUME NEW k, NEW v
  PROVE  DOMAIN Once(k, v) = {k} /\ IsFiniteSet(DOMAIN Once(k, v))
<1>1. DOMAIN Once(k, v) = {k}
  BY DEF Once
<1> QED BY <1>1, FS_Singleton

\* A grant has two keys.
LEMMA GrantFinite ==
  ASSUME NEW g, NEW v
  PROVE  IsFiniteSet(DOMAIN GrantEntries(g, v))
<1> DEFINE a == <<"relay", g>>
           b == <<"authorization", <<g.fin, g.path>> >>
<1>1. DOMAIN GrantEntries(g, v) = {a} \cup {b}
  BY DEF GrantEntries
<1> HIDE DEF a, b
<1>2. IsFiniteSet({a})
  BY FS_Singleton
<1>3. IsFiniteSet({a} \cup {b})
  BY <1>2, FS_AddElement
<1> QED BY <1>1, <1>3

\* The keys of a bound route: its bundle and two for each grant.
LEMMA RouteFinite ==
  ASSUME NEW s, ShapeOK(s)
  PROVE  IsFiniteSet(DOMAIN RouteEntries(s))
<1> DEFINE G == {s.paths[p].grant : p \in DOMAIN s.paths}
           F == {<<"exit", f>> : f \in s.fin}
           E == {DOMAIN GrantEntries(g, Expiry(s)) : g \in ConfirmedGrants(s)}
<1>1. IsFiniteSet(ConfirmedGrants(s))
  <2> DEFINE grants == [p \in DOMAIN s.paths |-> s.paths[p].grant]
  <2>1. G = {grants[p] : p \in DOMAIN s.paths}
    OBVIOUS
  <2> HIDE DEF grants
  <2>2. IsFiniteSet(G)
    <3>1. IsFiniteSet(DOMAIN s.paths)
      BY DEF ShapeOK
    <3>2. IsFiniteSet({grants[p] : p \in DOMAIN s.paths})
      BY <3>1, FiniteValues
    <3> QED BY <2>1, <3>2
  <2>3. \A x \in G : IsFiniteSet(x)
    BY DEF ShapeOK
  <2> HIDE DEF G
  <2>4. IsFiniteSet(UNION G)
    BY <2>2, <2>3, FS_UNION
  <2> QED BY <2>4 DEF G, ConfirmedGrants
<1>2. IsFiniteSet(F)
  <2> DEFINE pair == [f \in s.fin |-> <<"exit", f>>]
  <2>1. F = {pair[f] : f \in s.fin}
    OBVIOUS
  <2> HIDE DEF pair
  <2> QED BY <2>1, FiniteValues DEF ShapeOK
<1>3. IsFiniteSet(E) /\ \A x \in E : IsFiniteSet(x)
  <2> DEFINE keys == [g \in ConfirmedGrants(s) |-> DOMAIN GrantEntries(g, Expiry(s))]
  <2>1. E = {keys[g] : g \in ConfirmedGrants(s)}
    OBVIOUS
  <2> HIDE DEF keys
  <2>2. IsFiniteSet(E)
    BY <1>1, <2>1, FiniteValues
  <2> QED BY <2>2, GrantFinite
<1>4. DOMAIN RouteEntries(s) = F \cup UNION E
  BY DEF RouteEntries
<1> HIDE DEF F, E
<1>5. IsFiniteSet(UNION E)
  BY <1>3, FS_UNION
<1> QED BY <1>2, <1>4, <1>5, FS_Union

\* A duration in seconds.
LEMMA SecsType ==
  ASSUME NEW t \in Nat
  PROVE  Secs(t) \in Nat
<1>1. MsPerSecond \in Nat /\ MsPerSecond > 0
  BY ExitAssumption
<1> QED BY <1>1 DEF Secs

\* Grants that stay keep their shape.
LEMMA WithoutTyped ==
  ASSUME NEW L, LedgerTyped(L), NEW ids
  PROVE  LedgerTyped(LedgerWithout(L, ids))
<1> DEFINE M == LedgerWithout(L, ids)
<1>1. M.grants = [id \in DOMAIN L.grants \ ids |-> L.grants[id]]
  BY DEF LedgerWithout
<1> HIDE DEF M
<1>2. /\ DOMAIN M.grants \subseteq DOMAIN L.grants
      /\ \A id \in DOMAIN M.grants : M.grants[id] \in Grants
  BY <1>1 DEF LedgerTyped
<1>3. M.grants \in [DOMAIN M.grants -> Grants]
  BY <1>1, <1>2
<1> QED BY <1>2, <1>3 DEF LedgerTyped, M

\* An empty ledger.
LEMMA EmptyTyped == LedgerTyped(EmptyLedger)
BY DEF LedgerTyped, EmptyLedger

\* The purges of the ledger.
LEMMA PurgedTyped ==
  ASSUME LedgerTyped(ledger)
  PROVE  LedgerTyped(PurgedLedger) /\ LedgerTyped(LedgerPurged(ledger, Secs(now)))
BY WithoutTyped DEF PurgedLedger, LedgerPurged, LedgerAfterHolds

\* A reservation of a well formed hold request is a well formed grant.
LEMMA AdmitTyped ==
  ASSUME NEW L, LedgerTyped(L), NEW q \in HoldRequests, NEW t \in Nat
  PROVE  LedgerTyped(LedgerAdmit(L, LedgerRequest(q), t))
<1> DEFINE req == LedgerRequest(q)
           g == GrantOf(req, t)
           M == LedgerAdmit(L, req, t)
<1>1. /\ q.up \in Nat /\ q.down \in Nat /\ q.rexp \in Nat /\ q.r \in ReservationIds
  BY ExitAssumption DEF HoldRequest
<1>2. /\ req.id = q.r /\ req.up \in Nat /\ req.down \in Nat /\ req.expires \in Nat
  BY <1>1, SecsType DEF LedgerRequest
<1> HIDE DEF req
<1>3. t + SetupTimeout \in Nat
  BY LimitsAssumption
<1>4. g \in Grants
  <2> DEFINE d == IF t + SetupTimeout < req.expires THEN t + SetupTimeout ELSE req.expires
  <2>1. d \in Nat /\ d <= req.expires
    BY <1>2, <1>3
  <2>2. g = [up |-> req.up, down |-> req.down, expires |-> req.expires, deadline |-> d,
             state |-> "PendingTunnel"]
    BY DEF GrantOf
  <2> HIDE DEF d, g
  <2>3. /\ g \in [up: Nat, down: Nat, expires: Nat, deadline: Nat, state: AllocationState]
        /\ g.deadline <= g.expires
    BY <1>2, <2>1, <2>2 DEF AllocationState
  <2> QED BY <2>3 DEF Grants
<1> HIDE DEF g
<1>5. M.grants = [id \in DOMAIN L.grants \cup {req.id} |-> IF id = req.id THEN g ELSE L.grants[id]]
  BY DEF LedgerAdmit, g
<1> HIDE DEF M
<1>6. /\ DOMAIN M.grants \subseteq ReservationIds
      /\ \A id \in DOMAIN M.grants : M.grants[id] \in Grants
  BY <1>1, <1>2, <1>4, <1>5 DEF LedgerTyped
<1>7. M.grants \in [DOMAIN M.grants -> Grants]
  BY <1>5, <1>6
<1> QED BY <1>6, <1>7 DEF LedgerTyped, M, req

\* Establishing changes the state of a grant only.
LEMMA EstablishedTyped ==
  ASSUME NEW L, LedgerTyped(L), NEW r \in DOMAIN L.grants
  PROVE  LedgerTyped(LedgerEstablished(L, r))
<1> DEFINE M == LedgerEstablished(L, r)
           g == L.grants[r]
           h == [g EXCEPT !.state = "Active"]
<1>1. M.grants = [L.grants EXCEPT ![r] = h]
  BY DEF LedgerEstablished
<1>2. h \in Grants
  <2>1. g \in Grants
    BY DEF LedgerTyped
  <2> HIDE DEF g
  <2> QED BY <2>1 DEF Grants, AllocationState
<1> HIDE DEF M, h
<1>3. DOMAIN M.grants = DOMAIN L.grants /\ M.grants \in [DOMAIN M.grants -> Grants]
  BY <1>1, <1>2 DEF LedgerTyped
<1> QED BY <1>3 DEF LedgerTyped, M

\* An accepted request adds one answer to a cache with room for it.
LEMMA CacheBounded ==
  ASSUME BoundsInv, NEW kind, NEW req, NEW keys, Opens(kind, req, keys), NEW x,
         cache' \subseteq PurgedCache \cup {x}
  PROVE  Bounded(cache', CacheCapacity)
<1>1. CacheCapacity \in Nat
  BY ExitAssumption
<1>2. IsFiniteSet(PurgedCache)
  BY FS_Subset DEF BoundsInv, Bounded, PurgedCache
<1>3. Cardinality(PurgedCache) < CacheCapacity
  BY DEF Opens
<1>4. Bounded(PurgedCache \cup {x}, CacheCapacity)
  BY <1>1, <1>2, <1>3, BoundedMore
<1> QED BY <1>1, <1>4, BoundedPart

\* Other steps add nothing to it.
LEMMA CacheShrinks ==
  ASSUME BoundsInv, cache' \subseteq cache
  PROVE  Bounded(cache', CacheCapacity)
BY BoundedPart, ExitAssumption DEF BoundsInv

\* A transaction on a replay cache that check_and_insert admitted.
Admitted(c, d) ==
  \E e : IsFiniteSet(DOMAIN e) /\ Unseen(c, DOMAIN e, now) /\ d = Record(c, e, now)

\* The replay caches stay within their bound.
LEMMA ReplayBounded ==
  ASSUME BoundsInv,
         \A k \in ReplayKinds :
           DOMAIN seen'[k] \subseteq DOMAIN seen[k] \/ Admitted(seen[k], seen'[k])
  PROVE  \A k \in ReplayKinds : Bounded(DOMAIN seen'[k], MaxReplay)
<1> SUFFICES ASSUME NEW k \in ReplayKinds PROVE Bounded(DOMAIN seen'[k], MaxReplay)
  OBVIOUS
<1>1. Bounded(DOMAIN seen[k], MaxReplay) /\ MaxReplay \in Nat
  BY ReplayAssumption DEF BoundsInv
<1>2. CASE DOMAIN seen'[k] \subseteq DOMAIN seen[k]
  BY <1>1, <1>2, BoundedPart
<1>3. CASE Admitted(seen[k], seen'[k])
  <2>1. PICK e : /\ IsFiniteSet(DOMAIN e) /\ Unseen(seen[k], DOMAIN e, now)
                 /\ seen'[k] = Record(seen[k], e, now)
    BY <1>3 DEF Admitted
  <2>2. Bounded(DOMAIN Record(seen[k], e, now), MaxReplay)
    BY <1>1, <2>1, RecordBounded DEF Bounded
  <2> QED BY <2>1, <2>2
<1> QED BY <1>2, <1>3

\* A transaction of one key.
LEMMA AdmittedOnce ==
  ASSUME NEW c, NEW k, NEW exp, Unseen(c, {k}, now)
  PROVE  Admitted(c, Record(c, Once(k, exp), now))
<1> DEFINE e == Once(k, exp)
<1>1. DOMAIN e = {k} /\ IsFiniteSet(DOMAIN e)
  BY OnceFinite
<1> HIDE DEF e
<1>2. Admitted(c, Record(c, e, now))
  BY <1>1 DEF Admitted
<1> QED BY <1>2 DEF e

\* The clock and the boot stand still.
LEMMA BoundsStep ==
  ASSUME BoundsInv, now' = now, boot' = boot, LedgerTyped(ledger'),
         Bounded(cache', CacheCapacity),
         \A k \in ReplayKinds :
           DOMAIN seen'[k] \subseteq DOMAIN seen[k] \/ Admitted(seen[k], seen'[k])
  PROVE  BoundsInv'
<1>1. \A k \in ReplayKinds : Bounded(DOMAIN seen'[k], MaxReplay)
  BY ReplayBounded
<1>2. now' \in 0..MaxNow /\ boot' \in 0..MaxBoot
  BY DEF BoundsInv
<1> QED BY <1>1, <1>2 DEF BoundsInv, LedgerTyped, Bounded, ReplayKinds

\* Hold: one grant, one answer, one key.
LEMMA BoundsHold ==
  ASSUME ClockInv, BoundsInv, NEW q \in HoldRequests, NEW via, HoldCapacity(q, via)
  PROVE  BoundsInv'
<1> DEFINE k == <<q.r, q.nonce>>
           new == Answer(q, Artifact(q), q.exp)
<1>1. /\ Opens("hold", q, {k}) /\ cache' = PurgedCache \cup {new}
      /\ ledger' = LedgerAdmit(PurgedLedger, LedgerRequest(q), Secs(now))
      /\ seen' = [seen EXCEPT !["hold"] = Record(@, Once(k, q.exp), now)]
      /\ now' = now /\ boot' = boot
  BY DEF HoldCapacity
<1> HIDE DEF k, new
<1>2. LedgerTyped(ledger')
  <2>1. Secs(now) \in Nat
    BY SecsType DEF ClockInv
  <2>2. LedgerTyped(PurgedLedger)
    BY PurgedTyped DEF BoundsInv
  <2> QED BY <1>1, <2>1, <2>2, AdmitTyped
<1>3. Bounded(cache', CacheCapacity)
  BY <1>1, CacheBounded
<1>4. Unseen(seen["hold"], {k}, now)
  BY <1>1 DEF Opens
<1>5. Admitted(seen["hold"], seen'["hold"])
  <2>1. seen'["hold"] = Record(seen["hold"], Once(k, q.exp), now)
    BY <1>1 DEF ClockInv, ReplayKinds
  <2> QED BY <1>4, <2>1, AdmittedOnce
<1>6. \A x \in ReplayKinds : x # "hold" => seen'[x] = seen[x]
  BY <1>1 DEF ClockInv
<1> QED BY <1>1, <1>2, <1>3, <1>5, <1>6, BoundsStep

\* Permit: one answer, one key.
LEMMA BoundsPermit ==
  ASSUME ClockInv, BoundsInv, NEW q, NEW via, IssueProbePermit(q, via)
  PROVE  BoundsInv'
<1> DEFINE new == Answer(q, q.hold, q.exp)
<1>1. /\ Opens("permit", q, {PermitKey(q)}) /\ cache' = PurgedCache \cup {new}
      /\ ledger' = PurgedLedger /\ now' = now /\ boot' = boot
      /\ seen' = [seen EXCEPT !["permit"] = Record(@, Once(PermitKey(q), q.exp), now)]
  BY DEF IssueProbePermit
<1> HIDE DEF new
<1>2. LedgerTyped(ledger')
  BY <1>1, PurgedTyped DEF BoundsInv
<1>3. Bounded(cache', CacheCapacity)
  BY <1>1, CacheBounded
<1>4. Unseen(seen["permit"], {PermitKey(q)}, now)
  BY <1>1 DEF Opens
<1>5. Admitted(seen["permit"], seen'["permit"])
  <2>1. seen'["permit"] = Record(seen["permit"], Once(PermitKey(q), q.exp), now)
    BY <1>1 DEF ClockInv, ReplayKinds
  <2> QED BY <1>4, <2>1, AdmittedOnce
<1>6. \A x \in ReplayKinds : x # "permit" => seen'[x] = seen[x]
  BY <1>1 DEF ClockInv
<1> QED BY <1>1, <1>2, <1>3, <1>5, <1>6, BoundsStep

\* Finalize: one answer, its key and one for each probe result.
LEMMA BoundsFinalize ==
  ASSUME ExitInv, Growth, BoundsInv, NEW q, NEW via, FinalizeReservation(q, via)
  PROVE  BoundsInv'
<1> DEFINE k == <<q.hold, q.nonce>>
           e == ProbeEntries(q)
           new == Answer(q, q.hold, q.exp)
           t == PurgedStates[q.hold.req.r]
<1>1. /\ Opens("finalize", q, {k}) /\ cache' \subseteq PurgedCache \cup {new}
      /\ Unseen(seen["probe"], DOMAIN e, now)
      /\ ledger' = PurgedLedger /\ now' = now /\ boot' = boot
      /\ q.hold.req.r \in DOMAIN PurgedStates /\ DOMAIN q.permits \subseteq DOMAIN t.permits
      /\ seen' = [seen EXCEPT !["finalize"] = Record(@, Once(k, q.exp), now),
                              !["probe"] = Record(@, e, now)]
  BY DEF FinalizeReservation, InScope
<1>2. IsFiniteSet(DOMAIN e)
  <2>1. ShapeOK(t)
    BY <1>1, GrowthPurged DEF GrowthInv
  <2> HIDE DEF t
  <2>2. IsFiniteSet(DOMAIN q.permits)
    BY <1>1, <2>1, FS_Subset DEF ShapeOK
  <2>3. IsFiniteSet({q.permits[p] : p \in DOMAIN q.permits})
    BY <2>2, FiniteValues
  <2>4. DOMAIN e = {q.permits[p] : p \in DOMAIN q.permits}
    BY DEF ProbeEntries
  <2> QED BY <2>3, <2>4
<1> HIDE DEF new, k, e
<1>3. LedgerTyped(ledger')
  BY <1>1, PurgedTyped DEF BoundsInv
<1>4. Bounded(cache', CacheCapacity)
  BY <1>1, CacheBounded
<1>5. Unseen(seen["finalize"], {k}, now)
  BY <1>1 DEF Opens
<1>6. /\ seen'["finalize"] = Record(seen["finalize"], Once(k, q.exp), now)
      /\ seen'["probe"] = Record(seen["probe"], e, now)
      /\ \A x \in ReplayKinds : x \notin {"finalize", "probe"} => seen'[x] = seen[x]
  BY <1>1 DEF ExitInv, ClockInv, ReplayKinds
<1>7. Admitted(seen["finalize"], seen'["finalize"])
  BY <1>5, <1>6, AdmittedOnce
<1>8. Admitted(seen["probe"], seen'["probe"])
  BY <1>1, <1>2, <1>6 DEF Admitted
<1> QED BY <1>1, <1>3, <1>4, <1>6, <1>7, <1>8, BoundsStep

\* Confirms: the keys of a confirmation and of its grant.
LEMMA BoundsConfirms ==
  ASSUME NEW q, NEW via, NEW exp, Confirms(q, via)
  PROVE  /\ Admitted(seen["confirm"], Record(seen["confirm"], Once(ConfirmKey(q), q.exp), now))
         /\ Admitted(seen["grant"], Record(seen["grant"], GrantEntries(q.grant, exp), now))
<1>1. Unseen(seen["confirm"], {ConfirmKey(q)}, now)
  BY DEF Confirms, Opens
<1> DEFINE e == GrantEntries(q.grant, exp)
<1>2. Unseen(seen["grant"], DOMAIN e, now)
  <2>1. \A x : DOMAIN GrantEntries(q.grant, x) = DOMAIN e
    BY DEF GrantEntries
  <2>2. \E x : Unseen(seen["grant"], DOMAIN GrantEntries(q.grant, x), now)
    BY DEF Confirms
  <2> HIDE DEF e
  <2> QED BY <2>1, <2>2
<1>3. IsFiniteSet(DOMAIN e)
  BY GrantFinite
<1> HIDE DEF e
<1>4. Admitted(seen["grant"], Record(seen["grant"], e, now))
  BY <1>2, <1>3 DEF Admitted
<1> QED BY <1>1, <1>4, AdmittedOnce DEF e

\* Confirm: one answer, its key and those of the grant.
LEMMA BoundsConfirm ==
  ASSUME ClockInv, BoundsInv, NEW q, NEW via, ConfirmRelay(q, via)
  PROVE  BoundsInv'
<1> DEFINE exp == Expiry(PurgedStates[q.grant.fin.req.hold.req.r])
           e == GrantEntries(q.grant, exp)
           new == Answer(q, q.grant.fin.req.hold, q.exp)
<1>1. /\ Confirms(q, via) /\ Opens("confirm", q, {ConfirmKey(q)})
      /\ cache' = PurgedCache \cup {new}
      /\ ledger' = PurgedLedger /\ now' = now /\ boot' = boot
      /\ seen' = [seen EXCEPT !["confirm"] = Record(@, Once(ConfirmKey(q), q.exp), now),
                              !["grant"] = Record(@, e, now)]
  BY DEF ConfirmRelay, Confirms
<1> HIDE DEF new, exp
<1>2. LedgerTyped(ledger')
  BY <1>1, PurgedTyped DEF BoundsInv
<1>3. Bounded(cache', CacheCapacity)
  BY <1>1, CacheBounded
<1>4. /\ seen'["confirm"] = Record(seen["confirm"], Once(ConfirmKey(q), q.exp), now)
      /\ seen'["grant"] = Record(seen["grant"], e, now)
      /\ \A x \in ReplayKinds : x \notin {"confirm", "grant"} => seen'[x] = seen[x]
  <2> HIDE DEF e
  <2> QED BY <1>1 DEF ClockInv, ReplayKinds
<1>5. Admitted(seen["confirm"], seen'["confirm"]) /\ Admitted(seen["grant"], seen'["grant"])
  BY <1>1, <1>4, BoundsConfirms
<1> QED BY <1>1, <1>2, <1>3, <1>4, <1>5, BoundsStep

\* A phase of an extension: one key; no answer but an embedded confirmation.
LEMMA BoundsExtend ==
  ASSUME ClockInv, BoundsInv, NEW q, NEW c, NEW via,
         \/ ExtendProbe(q, via) \/ ExtendAuthorize(q, via) \/ ExtendCommit(q, c, via)
         \/ ExtendCommitConfirmed(q, c, via) \/ ExtendAbort(q, via)
  PROVE  BoundsInv'
<1>1. ExtensionOpens(q, via) /\ ledger' = PurgedLedger /\ now' = now /\ boot' = boot
  BY DEF ExtendProbe, ExtendAuthorize, ExtendCommit, ExtendCommitConfirmed, ExtendAbort,
         CommitsInOrder, ExtensionAnswered
<1>2. LedgerTyped(ledger')
  BY <1>1, PurgedTyped DEF BoundsInv
<1>3. Admitted(seen["finalize"], RecordExtend(q))
  BY <1>1, AdmittedOnce DEF ExtensionOpens, RecordExtend
<1>4. CASE ~ExtendCommit(q, c, via)
  <2>1. cache' = PurgedCache /\ seen' = [seen EXCEPT !["finalize"] = RecordExtend(q)]
    BY <1>4 DEF ExtendProbe, ExtendAuthorize, ExtendCommitConfirmed, ExtendAbort
  <2>2. Bounded(cache', CacheCapacity)
    BY <2>1, CacheShrinks DEF PurgedCache
  <2>3. /\ seen'["finalize"] = RecordExtend(q)
        /\ \A x \in ReplayKinds : x # "finalize" => seen'[x] = seen[x]
    BY <2>1 DEF ClockInv, ReplayKinds
  <2> QED BY <1>1, <1>2, <1>3, <2>2, <2>3, BoundsStep
<1>5. CASE ExtendCommit(q, c, via)
  <2> DEFINE exp == Expiry(WithGrant(Parent(q), c.grant))
             e == GrantEntries(c.grant, exp)
             new == Answer(c, c.grant.fin.req.hold, c.exp)
  <2>1. /\ Confirms(c, via) /\ Opens("confirm", c, {ConfirmKey(c)})
        /\ cache' = PurgedCache \cup {new}
        /\ seen' = [seen EXCEPT !["finalize"] = RecordExtend(q),
                                !["confirm"] = Record(@, Once(ConfirmKey(c), c.exp), now),
                                !["grant"] = Record(@, e, now)]
    BY <1>5 DEF ExtendCommit, Confirms
  <2> HIDE DEF new, exp
  <2>2. Bounded(cache', CacheCapacity)
    BY <2>1, CacheBounded
  <2>3. /\ seen'["finalize"] = RecordExtend(q)
        /\ seen'["confirm"] = Record(seen["confirm"], Once(ConfirmKey(c), c.exp), now)
        /\ seen'["grant"] = Record(seen["grant"], e, now)
        /\ \A x \in ReplayKinds : x \notin {"finalize", "confirm", "grant"} => seen'[x] = seen[x]
    <3> HIDE DEF e
    <3> QED BY <2>1 DEF ClockInv, ReplayKinds
  <2>4. Admitted(seen["confirm"], seen'["confirm"]) /\ Admitted(seen["grant"], seen'["grant"])
    BY <2>1, <2>3, BoundsConfirms
  <2> QED BY <1>1, <1>2, <1>3, <2>2, <2>3, <2>4, BoundsStep
<1> QED BY <1>4, <1>5

\* A refused request: what it recorded is gone again.
LEMMA BoundsRefused ==
  ASSUME BoundsInv, NEW recorded, RefusedAfter(recorded)
  PROVE  BoundsInv'
<1>1. /\ ledger' = PurgedLedger /\ cache' = PurgedCache /\ now' = now /\ boot' = boot
      /\ \A k \in ReplayKinds :
           seen'[k] = IF k \in DOMAIN recorded
                      THEN Rollback(Record(seen[k], recorded[k], now), DOMAIN recorded[k])
                      ELSE seen[k]
  BY DEF RefusedAfter
<1>2. ASSUME NEW k \in ReplayKinds PROVE DOMAIN seen'[k] \subseteq DOMAIN seen[k]
  BY <1>1, RolledBack
<1>3. LedgerTyped(ledger')
  BY <1>1, PurgedTyped DEF BoundsInv
<1>4. Bounded(cache', CacheCapacity)
  BY <1>1, CacheShrinks DEF PurgedCache
<1> QED BY <1>1, <1>2, <1>3, <1>4, BoundsStep

\* Bind: the keys of the route are counted before they are recorded.
LEMMA BoundsBind ==
  ASSUME ClockInv, Growth, BoundsInv, NEW r, BindRoute(r)
  PROVE  BoundsInv'
<1> DEFINE e == RouteEntries(states[r])
<1>1. /\ r \in DOMAIN states /\ Unseen(seen["route"], DOMAIN e, now)
      /\ seen' = [seen EXCEPT !["route"] = Record(@, e, now)]
      /\ ledger' = ledger /\ cache' = cache /\ now' = now /\ boot' = boot
  BY DEF BindRoute
<1>2. IsFiniteSet(DOMAIN e)
  BY <1>1, RouteFinite DEF Growth, GrowthInv
<1> HIDE DEF e
<1>3. /\ seen'["route"] = Record(seen["route"], e, now)
      /\ \A x \in ReplayKinds : x # "route" => seen'[x] = seen[x]
  BY <1>1 DEF ClockInv, ReplayKinds
<1>4. Admitted(seen["route"], seen'["route"])
  BY <1>1, <1>2, <1>3 DEF Admitted
<1>5. LedgerTyped(ledger') /\ Bounded(cache', CacheCapacity)
  BY <1>1 DEF BoundsInv
<1> QED BY <1>1, <1>3, <1>4, <1>5, BoundsStep

\* Every step keeps the bounds.
LEMMA BoundsInductive ==
  ExitInv /\ Growth /\ BoundsInv /\ [Next]_vars => BoundsInv'
<1> SUFFICES ASSUME ExitInv, Growth, BoundsInv, [Next]_vars PROVE BoundsInv'
  OBVIOUS
<1>0. ClockInv
  BY DEF ExitInv
<1>1. CASE \E q \in HoldRequests, via \in ControlRelays : HoldCapacity(q, via)
  BY <1>0, <1>1, BoundsHold
<1>2. CASE SomePermit \/ SomeFinalize \/ SomeConfirm
  BY <1>0, <1>2, BoundsPermit, BoundsFinalize, BoundsConfirm
     DEF SomePermit, SomeFinalize, SomeConfirm
<1>3. CASE SomeExtension
  BY <1>0, <1>3, ExtensionRequested, BoundsExtend
<1>4. CASE SomeRefusal \/ \E q \in HoldRequests : HoldRefused(q)
  <2>1. \E recorded : RefusedAfter(recorded)
    BY <1>4, RefusalsRecordNew DEF SomeRefusal
  <2> QED BY <2>1, BoundsRefused
<1>5. CASE PurgeExpired \/ \E r \in ReservationIds : TakeNativeRouteAuthorization(r)
  <2>1. ledger' = PurgedLedger /\ cache' = PurgedCache /\ seen' = seen /\ now' = now /\ boot' = boot
    BY <1>5 DEF PurgeExpired, TakeNativeRouteAuthorization
  <2>2. LedgerTyped(ledger') /\ Bounded(cache', CacheCapacity)
    BY <2>1, PurgedTyped, CacheShrinks DEF BoundsInv, PurgedCache
  <2> QED BY <2>1, <2>2, BoundsStep
<1>6. CASE \E r \in ReservationIds : BindRoute(r)
  BY <1>0, <1>6, BoundsBind
<1>7. CASE Available \/ \E r \in ReservationIds : MarkRouteEstablished(r)
  <2>1. cache' = cache /\ seen' = seen /\ now' = now /\ boot' = boot
    BY <1>7 DEF Available, MarkRouteEstablished
  <2> DEFINE L == LedgerPurged(ledger, Secs(now))
  <2>2. \/ ledger' = L
        \/ \E r \in DOMAIN L.grants : ledger' = LedgerEstablished(L, r)
    BY <1>7 DEF Available, MarkRouteEstablished
  <2>3. LedgerTyped(L)
    BY PurgedTyped DEF BoundsInv
  <2> HIDE DEF L
  <2>4. LedgerTyped(ledger')
    BY <2>2, <2>3, EstablishedTyped
  <2>5. Bounded(cache', CacheCapacity)
    BY <2>1 DEF BoundsInv
  <2> QED BY <2>1, <2>4, <2>5, BoundsStep
<1>8. CASE \E r \in ReservationIds : Release(r)
  <2>1. PICK r : ledger' = LedgerWithout(ledger, {r})
    BY <1>8 DEF Release
  <2>2. cache' \subseteq cache /\ seen' = seen /\ now' = now /\ boot' = boot
    BY <1>8 DEF Release
  <2>3. LedgerTyped(ledger') /\ Bounded(cache', CacheCapacity)
    BY <2>1, <2>2, WithoutTyped, CacheShrinks DEF BoundsInv
  <2> QED BY <2>2, <2>3, BoundsStep
<1>9. CASE Restart
  <2>1. /\ now' \in 0..MaxNow /\ boot' \in 0..MaxBoot
    BY <1>9, ExitAssumption DEF Restart, BoundsInv
  <2>2. cache' = {} /\ \A k \in ReplayKinds : DOMAIN seen'[k] = {}
    BY <1>9 DEF Restart
  <2>3. \A n \in Nat : Bounded({}, n)
    BY FS_EmptySet DEF Bounded
  <2>4. LedgerTyped(ledger')
    BY <1>9, EmptyTyped DEF Restart
  <2> QED BY <2>1, <2>2, <2>3, <2>4, ExitAssumption, ReplayAssumption DEF BoundsInv, LedgerTyped
<1>10. CASE Tick
  <2>1. /\ now' \in 0..MaxNow /\ boot' = boot /\ ledger' = ledger /\ cache' = cache
        /\ \A k \in ReplayKinds : DOMAIN seen'[k] \subseteq DOMAIN seen[k]
    BY <1>10, ExitAssumption DEF Tick, BoundsInv, Live
  <2>2. \A k \in ReplayKinds : Bounded(DOMAIN seen'[k], MaxReplay)
    BY <2>1, ReplayBounded
  <2> QED BY <2>1, <2>2 DEF BoundsInv, LedgerTyped
<1>11. CASE UNCHANGED vars
  BY <1>11 DEF vars, BoundsInv, LedgerTyped
<1> QED BY <1>1, <1>2, <1>3, <1>4, <1>5, <1>6, <1>7, <1>8, <1>9, <1>10, <1>11 DEF Next

(***************************************************************************)
(* State shapes, and the bounds on the response and replay caches: a flood *)
(* of requests fills them and nothing more.                                *)
(***************************************************************************)
THEOREM ExitTypeCorrect == Spec => []TypeOK
<1>1. Init => BoundsInv
  <2> SUFFICES ASSUME Init PROVE BoundsInv
    OBVIOUS
  <2>1. now \in 0..MaxNow /\ boot \in 0..MaxBoot
    BY ExitAssumption DEF Init
  <2>2. \A n \in Nat : Bounded({}, n)
    BY FS_EmptySet DEF Bounded
  <2>3. cache = {} /\ \A k \in ReplayKinds : DOMAIN seen[k] = {}
    BY DEF Init
  <2> QED BY <2>1, <2>2, <2>3, EmptyTyped, ExitAssumption, ReplayAssumption DEF Init, BoundsInv
<1>2. ExitInv /\ Growth /\ BoundsInv => TypeOK
  <2> SUFFICES ASSUME ExitInv, Growth, BoundsInv PROVE TypeOK
    OBVIOUS
  <2>1. \A r \in DOMAIN states :
          /\ states[r].phase \in {"Held", "Finalized"}
          /\ states[r].hold.req \in HoldRequests /\ states[r].hold.req.r = r
          /\ DOMAIN states[r].permits \subseteq Paths
          /\ DOMAIN states[r].paths \subseteq Paths
    BY DEF ExitInv, StateInv, Growth, GrowthInv, ShapeOK
  <2>2. DOMAIN states \subseteq ReservationIds
    BY <2>1, ExitAssumption DEF HoldRequest
  <2>3. activated \subseteq ReservationIds /\ owners \subseteq ReservationIds
    BY <2>2 DEF ExitInv, BoundInv, OwnerInv
  <2> QED BY <2>1, <2>2, <2>3 DEF TypeOK, BoundsInv, LedgerTyped, Bounded
<1> QED BY <1>1, <1>2, BoundsInductive, ExitInvHolds, GrowthHolds, PTL DEF Spec

===============================================================================
