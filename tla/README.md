# Volparossa in TLA+

TLA+ specifications of the parts of Volparossa in which the order of events
decides whether the program is right: how an exit and a relay lend bandwidth,
tunnel slots, WireGuard endpoints and signatures to clients they do not trust; how
a route is set up and taken down again across client, relays and exit; how the
privileged helper remembers on disk what it has created; and how the transaction
layer executes agreed blocks. Messages are lost, repeated, delayed and reordered,
processes crash, disks and managers fail. TLC checks the specifications on small
instances; TLAPS proves every safety property of the passing runs, the two
refinements included, for every value of the constants.

Paths below are relative to `src/crates/` unless they start with `docs/`.

## 1. The system

A *client* builds a route `client -> relay(s) -> exit`. Every node runs an agent
(`volparossa-agent`) that owns a libp2p swarm, talks to a privileged helper process
(`volparossa-helper`) and has, by role, a `RelayService` and an `ExitService`. A
route is set up in these steps; each message is a signed envelope with a nonce and an
expiry, relayed through an untrusted control relay:

    client                    exit                         relay
      | -- HoldCapacity ------> | capacity held
      | -- ProbePermit -------> | one per path, single use
      | -- Finalize ----------> | helper leases, bundle of signed authorizations
      | -- ReservePath -------------------------------------> | capacity, lease
      | <----------------------------------- relay grant ---- |
      | -- ConfirmRelay ------> | one grant per path
      | -- Start (to every relay, each forwards it to the exit)
      |     take authorization, bind route, mark established, runtime
      | -- ExtendRoute (Probe, Authorize, Commit | Abort) --> exit
      | -- RouteRetire (to every relay, each forwards it to the exit)

Before choosing a relay the client may run a *native preselection probe*
(permit, readiness, Start, relay authorization, result), which borrows the same
ledgers under its own reservation id.

### Inventory

| component | state | operations | what is hard, and what makes it correct |
|---|---|---|---|
| `volparossa-reservation/src/lib.rs`, `CapacityLedger` | limits, running counters, grants with setup deadline and expiry | `reserve`, `mark_tunnel_established`, `release`, `purge_expired`, `available` | counters updated apart from grants; deadline races establishment. Counters equal the grants, nothing exceeds the limits, an established tunnel keeps its capacity, every grant ends |
| `volparossa-protocol/src/envelope.rs`, `ReplayCache` | key to expiry, bounded | `check_and_insert`, `rollback`, validity window | fails closed when full; entries dropped at expiry. No request is honoured twice; a failed handler leaves no entry |
| `volparossa-exit`, `ExitService` | ledger, `endpoint_states`, activations, identity owners, four response caches under one bound, replay caches | hold, permit, finalize, confirm, take authorization, bind, establish, release, purge, available | many maps with one life cycle, ids held again after release, restarts with old signatures in flight. No capacity without an owner, one answer per request, keys never shared, the owner handed out once |
| `volparossa-exit/src/reservation_v4/extension.rs` | extension attempts per reservation | the phases of `extend_route_with` | attempts race, a late Abort meets a confirmation. A route grows by one path at a time and never loses a confirmed one |
| `volparossa-exit/src/native_preselection.rs` | permits, readiness, authorization cache, ledger | permit, ready, authorize, result | partial failure, retries after purge. Probe capacity always has an owner, a completed Start is done unless its probe id is used again |
| `volparossa-relay`, `RelayService` | ledger, endpoint states, retained Starts, response cache, replay cache | accept request, accept Start, establish, release, purge, take Start, available | two admission paths over one endpoint map. Authorizations are spent once, endpoints never shared |
| `volparossa-agent`: `route_setup.rs`, `route_setup/retirement.rs`, `discovery.rs`, `discovery/route_retire.rs` | the client's attempt and its retirement job; per node a retirement scope and the owners of the context | Prepare, Finalize, ReservePath, ConfirmRelay, Start, rollback, retirement passes; the relay's and the exit's handlers, runtime completion, maintenance | requests that arrive after the route they belong to was retired; helper calls of unknown outcome; three nodes waiting for each other. No agent owns anything of a released route, nothing comes back, and retirement ends |
| `volparossa-transaction` | accounts, reservations, operation log, checkpoint, staged block | reserve, commit, cancel; stage, commit, open of the ordered store | a writer between stage and commit, death in the middle, retries after expiry, a bounded log. The ledger moves by whole blocks in order, units are paid out once, what was announced is what is committed |
| `volparossa-transaction-abci` | the pending block, the latch | Info, InitChain, FinalizeBlock, Commit | crashes of either side between the calls, replayed blocks, a latch that any error sets. The ledger is the decided chain, and catches up with it |
| `volparossa-helper` | ownership journal, descriptor store at systemd, mutation gate, workers, links | register, spawn, mark custody, publish, arm, create and move links, extend, settle; restart classification and settlement; shutdown | a death between any two steps, a write whose outcome is unknown, lost manager messages. Nothing exists without a durable claim, no claim is settled while something exists |
| `volparossa-reservation/src/coordinator.rs` (client) | attempt phase, verified artifacts | sign and verify each step | checks that mirror those of the services; its order is in `RouteRetire` |
| `volparossa-helper-entry`, `-linux-uapi`, `-discovery`, `-routing`, `-selection`, `-content`, `-local-control`, `-policy`, `-config`, `-core`, `-identity`, `-metrics`, `-peerstore`, transports, CLI, test infrastructure | see `PROJECT.json` | | not part of these protocols, or I/O, or sequential and well tested |

### Interactions

What the services do is a method call on a `&mut` service by the agent, so handlers
are atomic with respect to each other. Concurrency lies between nodes and in time:
the order in which requests of several clients and of one client's retries arrive,
the clock, `purge_expired` from the maintenance tick, `available()` from the
advertisement, and restarts. In the agent a handler may await the helper, but the
discovery actor runs one at a time; only the exit's runtime tasks, the client's
retirement worker and other nodes move meanwhile. In the helper an owner, the
journal's actor thread, systemd and the startup interleave, and in the transaction
layer several handles on one directory, an engine and the application. All of these
interleave freely in the models.

## 2. Modules

| module | what it is |
|---|---|
| `LedgerOps` | the methods of `CapacityLedger` as operators on a ledger value; used by all services |
| `Totals` | the sum of a function over a finite set |
| `ControlEnvelope` | replay cache and validity window |
| `CapacityLedger` | one ledger as a state machine |
| `ExitService` | the exit, route extension included; composes `LedgerOps` and `ControlEnvelope` |
| `RelayService` | the relay; composes the same two |
| `NativeProbe` | the native preselection probe at the exit; composes the same two |
| `RouteRetire` | one route context at client, relays and exit, from Prepare to retirement |
| `AccountOps` | the accounting commands and their verdicts as operators on the tables |
| `SettledLedger` | abstract: a ledger that moves by one whole block at a time |
| `OrderedStore` | staging and committing by several handles; implements `SettledLedger` |
| `TransactionAbci` | the ABCI application on an `OrderedStore`, with the engine around it |
| `OwnershipJournal` | the helper's journal file and its actor |
| `CustodyContract` | abstract: nothing is held without a claim, no claim is settled while something is held |
| `HelperCustody` | the life of a helper context around the journal; implements `CustodyContract` |
| `MC...` | the values TLC needs: requests, blocks, relays, symmetry |
| `TotalsProofs` | the laws of `Total` and induction over the naturals, for the two modules that count |
| `CapacityLedgerProofs`, `ExitServiceProofs`, `RelayServiceProofs`, `NativeProbeProofs`, `RouteRetireProofs`, `HelperCustodyProofs` | the theorems about the module of the same name |
| `TransactionProofs` | the theorems about `OrderedStore` and `TransactionAbci` |

### How state and actions correspond to the code

*Messages of the services.* A client request is a record with the fields that guards read.
A signed artifact names the request it answers, the boot that signed it and a copy number,
so that two answers to the same request differ, as their fresh ids and nonces make
them differ in the code. Where the code compares a dozen copied identity fields,
the model compares the artifacts they were copied from. Signatures are unforgeable
and encodings canonical by assumption. A network that loses, duplicates, delays and
reorders is any well-formed request arriving at any time, any number of times; a
request is well formed when it carries only artifacts that were really signed.

*Handlers of the services.* One action per handler and outcome. The handlers begin with
`purge_expired` (the exit's and the relay's whole purge; the probe's permit and
ready handlers purge their permit ledger only: `PurgePermits`). An answer out of the
response cache leaves that purge behind and nothing else (`PurgeExpired`). A handler
that verifies its messages and then fails, for lack of room, scope or a signature,
inserts its replay entries and takes them back with `Rollback`: `HoldRefused`,
`PermitRefused`, `FinalizeRefused`, `ConfirmRefused` and `ExtendRefused` in
`ExitService`. Failures that leave more behind are `ReadyFails` and `ResultFails` in
`NativeProbe`; `ConfirmRelay` outside an extension's Commit covers a Commit whose
answer could not be signed.

*Time.* `now` counts milliseconds, the ledger seconds; `Secs` divides as the code
does, with `MsPerSecond = 2` in the runs so that instants within one second differ.

*The exit.* `states` is `endpoint_states` (phase, hold, permits, paths with keys and
grant, bundle, extensions); `activated`, `owners` the activation and identity owner
maps; `cache` the union of the four response caches, which share one capacity
check; `seen` the replay caches by message kind. `answers` and `taken` are history
variables that no guard reads except to number artifacts. `Available` and
`MarkRouteEstablished` purge the ledger *only*, as in the code. `Restart` empties
everything but the history: nothing of the service is persistent.

*The relay.* Client-session requests and native probe Starts are two actions with
their own key checks over one `states` map. A helper lease is a pair of distinct
endpoints (`Leases`, external: the helper may propose any).

*The probe.* `IssuePermit`, `IssueReady`, `ClientStart`, `IssueRelayAuthorization`,
`IssueResult`. `release` is not an action here: the agent calls it for bundle
reservation ids only.

*Setting up and retiring a route.* `RouteRetire` follows one route context; contexts share
nothing but bounds at which a node refuses. `phase`, `local`, `pending` and `granted`
are the client's attempt, its own helper context, `RemoteRetirement::pending_relays`
and the answers it has; `rscope` and `escope` the retirement scopes of
`route_retire.rs`; `route` a relay's entry in `prepared_production_relay_routes`, or in
the pending Start that holds it meanwhile; `owners` what the exit has of the context
in its prepared, active and runtime-retirement maps; `service` the reservation in the
exit service; `lost` the nodes whose helper has a context that no agent owns, after a
Prepare of unknown outcome or a Destroy whose error is ignored, until the helper's own
expiry removes it (`HelperExpires`). `retry_exit_forward` and `retry_datapath` send the same bytes again, so
a retried message stays in `net` and may be handled any number of times, or never
(this allows more copies than `maximum_outbound_attempts`); a Start is sent once and
is consumed. A message a node refuses without a change is one it does not handle. A
Destroy succeeds or fails every time it is tried. Passes of the retirement worker send
the same request with fresh nonces; their receipts are one message in the model, since
what a receipt states does not depend on the pass.

*The ordered store.* `db` and `record` are the durable tables and checkpoint, `staged`
and `work` per handle the staged block and the execution in progress. `execute` is one
command in its savepoint, so that other handles, database errors and deaths fall
between any two commands; the write lock of a committing handle is part of the
guards. The application hash commits to the tables, and the model keeps the value it
commits to. A refused call is a stuttering step.

*The ABCI application.* `serving` is the application's mutex. `process` (ProcessProposal) is
the condition under which the validators decide a block; CheckTx, PrepareProposal and
Query change nothing but the latch. The engine (CometBFT, external) asks for the height, sends
InitChain at zero and then the decided blocks. `failed` is the latch, which every error of a
handler sets: `Latch` when the request the engine sends in its present state is one the
handler refuses (`Refused`), `StoreError` and `CreateFails` for the database and the
creation of the directory, `OtherRequestFails` for everything else that is not served
(unsupported methods, empty or oversized requests, a request at the wrong time). A latched server
exits; whoever supervises it may start it again (`Open`), which a half created directory refuses.

*The helper.* `durable` is the journal file, `mem` the actor's snapshot, `op` the operation the
actor thread executes: `compare_and_swap`, then `Rename`, then one of `Persisted`,
`PersistFailed`, `PersistUncertain`; a caller whose deadline passes gets `LateReply` or
`QueuedTooLong`. `own` is where the owner of a context stands, `gate` and `msg` the
mutation gate and the message to systemd, `stored` what systemd stores, `birth` and
`inside` links in the helper's and in the workers' namespaces. `Crash` and `Exit` end the
process at any point; `Open`, `classify` and the `restart_...` actions are the next start.
Revisions, generations and digests only tell snapshots apart, and phases never go
back, so the model compares the snapshots.

`PROJECT.json` maps each definition to its lines.

## 3. Runs

| run | instance | checks | distinct states |
|---|---|---|---|
| `ledger` | three ids, limits 3, two slots, seven seconds, malformed and oversized requests included, fairness | `TypeOK`, `CountersMatchGrants`, `SlotsBounded`, `ActiveKeepsCapacity`, `EveryGrantEnds` | 8 k |
| `exit_reservations` | four situations, one per behaviour: two ids that do or do not both fit, three keys on either side; one id held by two requests; one restart amid the requests of one reservation; a route over up to three paths with two extension ids. Room for five answers and six replay entries | `TypeOK`, `CachedAnswersCurrent`, `KeysNeverShared`, `OnlyAnsweredIsSeen`, `AnsweredOnce`, `OwnerTakenOnce`, `OnePathAtATime`, `NoGhostCapacity`, `ConfirmedPathsKept` | 28 k |
| `relay_admission` | two ids, five authorizations (two paths of one bundle, a second bundle, two for one Start), endpoints for two paths at once, one restart | `NothingOutlivesItsPath`, `EndpointsNeverShared`, `AuthorizationSpentOnce` | 123 k |
| `probe_phases` | two probes that do not both fit and a second request under the id of the first, one restart | `ProbeCapacityOwned`, `OnlyReuseReopens` | 985 k |
| `route_retire` | control relay, two data relays, exit, fairness | `ReleasedMeansUnowned`, `NothingComesBack`, `RetirementEnds` | 186 k |
| `ordered_store` | two handles, ten blocks over three heights, a log of four operations | `TypeOK`, `NoFatalVerdict`, `AnnouncedIsCommitted`, `AlwaysReopens`, `CompletionAlwaysAdmitted`, `RetryIsHarmless`, `CompletedOnce`, `WholeBlocksInOrder` | 18 k |
| `abci` | three heights, three crashes or engine restarts, two errors or requests not served, fairness | `LedgerIsChain`, `DecidedIsTaken`, `EngineRefusedOnlyAtGenesis`, `EveryDecisionIsCommitted` | 8,261 |
| `helper_custody` | a Client context that can be extended and a Relay context, two errors, two process ends, fairness | `MemoryIsDurable`, `OpenGateIsCertain`, `RefusalExplained`, `CleanStop`, `ClaimedWhileHeld`, `SettledOrFenced` | 147 k |
| `exit_leases`, `helper_birth`, `probe_reuse`, `route_lost` | see section 5 | one statement of the repository each, violated | |

*What the properties say.*

- Exit. `NoGhostCapacity`: every grant of the ledger belongs to a reservation the exit
  knows, and an Active one to a bound route whose finalized paths are all confirmed.
  `CachedAnswersCurrent`: an answer in a response cache is about the hold the
  reservation id has *now*, signed by this boot. `AnsweredOnce`: one boot signs no
  request twice, although cache entries and states go away long before requests stop
  arriving. `OnlyAnsweredIsSeen`: a replay entry exists only for a message that was
  answered, so a handler that failed left the client its retry. `OwnerTakenOnce`: the
  private identity of a bundle leaves the service at most once, after every path is
  confirmed. `ConfirmedPathsKept`: while a hold lives, no step removes or replaces a
  confirmed path, and a bound route keeps its bundle.
- Relay and probe. `NothingOutlivesItsPath`: whatever takes relay capacity, or is retained
  or cached for a path, belongs to a path whose endpoints the relay still knows.
  `ProbeCapacityOwned`: capacity in the probe's ledger has an unretired authorization
  that will return it. `OnlyReuseReopens`: a Start whose probe was completed acquires
  capacity again only if this boot's client signed another Start under its probe id, which
  is what happens in `probe_reuse`.
- Route. `ReleasedMeansUnowned`: once the client has freed its endpoints and its signing
  session, no relay and no exit owns anything of the route, whatever copies are still on
  their way. `NothingComesBack`: from then on no late request makes a helper prepare a
  context for it, not even one that is lost at once. What a helper may have kept without
  an owner is the subject of `route_lost`. `RetirementEnds`: a retirement of which every
  node concerned has a scope ends, from whatever point of the setup it began.
- Transactions. `WholeBlocksInOrder` is the refinement of `SettledLedger`.
  `NoFatalVerdict`: no sequence of commands reaches the accounting error that would
  stop every validator at once. `AnnouncedIsCommitted`: the execution under the write
  lock gives what was staged and announced. `CompletionAlwaysAdmitted`: however full
  the log is, an admitted reservation can be completed. `LedgerIsChain`
  is the safety of one validator. `EngineRefusedOnlyAtGenesis`: whatever crashed, failed or
  latched before, an application that serves refuses what the engine sends it next in one
  case only, InitChain repeated between FinalizeBlock and Commit of the first block.
  `EveryDecisionIsCommitted`: a validator that is started again whenever it has stopped
  commits every decided block.
- Helper. `ClaimedWhileHeld` is the refinement of `CustodyContract`: with a crash at any
  point, nothing exists without a durable claim and no tombstone is written while
  something does. `MemoryIsDurable`: an outcome nobody knows is never taken for the
  old or the new snapshot. `OpenGateIsCertain`: while the mutation gate is open the
  owners know what systemd stores. `RefusalExplained` names the three shapes in which a
  start is refused for good; `SettledOrFenced` says that otherwise every claim is
  settled in the end.

Each property has a mutant, a plausible slip in one mapped definition, under which TLC
finds it violated; the mutated forms stand beside the definitions, marked as such.

*Bounds.* The clocks (`MaxNow`, `MaxTime`) run to the last expiry of the instance, so that
every deadline passes; limits are below what requests ask for together, so that
refusals happen; the replay and response caches are smaller than a full exchange of both parties, so that they fill; `MaxBoot` of 1 gives a state before
and one after a restart with old artifacts still around. Two is the smallest number
of reservations, paths, extension ids, data relays, handles or contexts for
which sharing, racing and mixing can go wrong; three paths are needed for two attempts to
be open at once on different paths. The constraint `OneSituation` of `exit_reservations` looks at
its four situations one at a time, because their product is out of reach; the short-lived
requests there all expire at one instant, so that an Abort after its deadline is left to
`ExitConfirmedPathsKept`. `TwoAcrossRestart` of `probe_phases` looks at all three requests
together without a restart, and with one at the two pairs that interact. Two data relays are
what makes a Start wait at the exit for another. `MaxCrashes` of 2 in the helper lets a restart's settlement crash as well; 3 in
`abci` lets each side die around the same block. `MAX_OPERATIONS` of 4 is reached
with completions still owed. Symmetry is used on keys, helper endpoints and extension
ids, and not in runs with liveness.

*Fairness.*

- `ledger`, `exit_leases`: `WF(PurgeExpired)` is the agent's reservation maintenance, an
  interval of one second (`RESERVATION_MAINTENANCE_INTERVAL`,
  `volparossa-agent/src/discovery.rs:159`) whose arm at 2115-2140 purges exit and
  relay. `WF(Tick)` says that the clock moves. Nothing is assumed of clients, relays or network.
- `route_retire`: the retirement worker goes on while its process lives and tries
  quarantined jobs again; its calls get through in the end; a repeated Destroy
  succeeds in the end; a runtime that was told to stop does. Setup, Start answers and
  the maintenance of relays and exit are not assumed.
- `abci`: the engine goes on with its protocol, a handler that runs ends, and a server with a
  fatal error exits. The repository has no supervisor, so none is assumed:
  `EveryDecisionIsCommitted` speaks of the behaviours in which the process is up again and
  again (`[]<>up`). A process whose directory is half created is not among them.
- `helper_custody`: the actor thread executes what it has taken, systemd handles its
  messages and restarts the service, a startup goes on, and an owner's expiry or its
  agent ends every context, after which settlement proceeds.

`CHECK_DEADLOCK FALSE` stands in the runs whose systems may legitimately come to rest:
a store with nothing more to execute, a decided chain fully committed, a helper fenced
or with all contexts settled, a released route. In the other runs deadlock is checked.

## 4. Proofs

Every invariant and every action property of the passing runs is a theorem, and so are
the two refinements and the types of the helper. Each inductive invariant was checked by TLC on the instances of
section 3 before it was proved. One lemma per action, or per group of actions that
treat the state alike, shows that the invariant is kept; `PTL` puts the pieces together.

*Capacity ledger* (`CapacityLedgerProofs`), for every set of ids, limits, times and submitted
requests. `LedgerInv` is the shape of the grants with a finite domain, the session limit
and the clock; finiteness is what the cardinality argument of `reserve` after a purge
needs. It gives `LedgerTypeCorrect`, `LedgerSlotsBounded` and `LedgerActiveKeepsCapacity`.
`LedgerCountersMatch` adds `Counted`: each counter is the `Total` over the grants. Admission
adds one summand, release and purge remove some, and the laws in `TotalsProofs` (a total
splits over a part and its rest, changes by what one element changes, is monotonic)
do the arithmetic.

*Exit* (`ExitServiceProofs`), for every set of requests, relays, keys, bounds and number
of restarts, extensions and refused handlers included. `ExitNoGhostCapacity`,
`ExitAnsweredOnce`, `ExitCachedAnswersCurrent`, `ExitOwnerTakenOnce`, `ExitKeysNeverShared` and the
action property `ExitConfirmedPathsKept` rest on one invariant, `ExitInv` (`ExitInvHolds`),
because no property is inductive alone:

- `ClockInv`, `StateInv`: a state belongs to the id it is stored under and to this boot; a
  held one has no bundle, paths or extensions yet; finalized paths stay and every extension
  adds a path of its own (`PathsOK`);
- `GrantInv`, `BoundInv`: grants have states; an Active grant has an activation; an
  activation has a state that is settled: finalized paths confirmed;
- `OwnerInv`, `TakenInv`: an identity owner waits only for a bundle not in `taken`, and a
  state whose bundle is in `taken` is settled;
- `CacheInv`: cached answers are about current holds;
- `AnswerInv`, `AnsweredOnce`: the heart of it. Every answer of this boot whose request has not expired
  has its replay entry, so a repetition is refused by the replay cache even when
  state and cached answer are gone; and once the request has expired the validity
  window refuses it. Dropping entries at expiry is sound only because both use the same instant;
- `KeyInv`: paths of different reservations, and of one, have disjoint keys.

Three more theorems add an invariant of their own to it. `ExitOnlyAnsweredIsSeen`: `SeenInv`
says of *every* stored entry, expired ones included, that it belongs to an answer of this boot;
`RolledBack` shows that a failed handler leaves no entry behind. `ExitOnePathAtATime`: `Growth`
says that a probed attempt still has the room it was promised, that on a bound route
only the open attempt's path waits for its relay, and that a confirmation which can be
repeated from the cache has left its grant; without the last, a Commit answered from the
cache could close an attempt whose path is unconfirmed. `ExitTypeCorrect`: `BoundsInv` says
that the response caches and the replay caches are finite and within their capacities after
every transaction, rolled back or not.

*Relay* (`RelayServiceProofs`): `RelayNothingOutlivesItsPath`, `RelayEndpointsNeverShared`,
`RelayAuthorizationSpentOnce`. `RelayInv` ties ledger, retained Starts and cache to the endpoint
states, and each authorization granted in this life to the replay entries that keep it
from being granted again (`GrantedInv`), or to its expiry. The bundle's entry stands for all
its paths, which is sound because the paths of a bundle expire together
(`BundleAssumption`; `same_authorization_and_exit_scope`, `volparossa-relay/src/lib.rs:1121-1145`).

*Probe* (`NativeProbeProofs`): `ProbeCapacityIsOwned` from `CapacityInv` (capacity ends, in whole
seconds, with the Start it was taken for; milliseconds turned into seconds keep their
order, `SecsMonotonic`). `ProbeOnlyReuseReopens` has no hypothesis on probe ids: a retired
authorization leaves the cache before its expiry only when the purge finds its id among the
expired allocations, and while its own allocation is gone that takes another request
under the same id.

*Route* (`RouteRetireProofs`), for every set of data relays: `RouteReleasedMeansUnowned` and
`RouteNothingComesBack`. They speak of the last moment of a retirement and of what follows;
`RetireInv` is the chain of evidence before it. Whoever was asked to own something is pending
or has retired for good (`PendingInv`), owners exist only where a request came by (`OriginInv`),
a receipt is on its way only when its scope is complete and a relay's scope completes only
after the exit's (`RelayInv`), and a complete scope owns nothing and cannot come to own
anything (`ExitInv`). Released scopes are absent with no request on its way, or
complete, and both keep a node from asking its helper (`ReleasedScopes`, `NothingLostAnew`).

*Helper* (`HelperCustodyProofs`), for every set of contexts and number of errors and process
ends: `HelperTypeCorrect`, `HelperMemoryIsDurable`, `HelperOpenGateIsCertain`, `HelperRefusalExplained`,
`HelperCleanStop` and the refinement `HelperClaimedWhileHeld`. In `HelperInv`, `OpInv`, `FileInv` and
`SubmitInv` say what may be in progress in the journal and how file and memory differ meanwhile;
`PlaceInv` derives the record from the place of the owner; `GateInv` says that what is stored
is what was attested up to the one mutation in doubt; `ResourceInv` and `DurableInv` tie what
exists to the owner and, across a death, to the file alone; `EvidenceInv` says that what an
operation will make durable is true already, and stays true until the rename;
`LifeInv`, `DormantInv` and `StartupInv` are the stages of a process. For the refinement: a
claim changes only in `Rename`, where `EvidenceInv` gives the guard of `CustodyContract`; only
spawning, publishing and creating a link bring something into being, under a claim by
`PlaceInv` and `FileInv`; every other step drops something or stutters.

*Transactions* (`TransactionProofs`), for all accounts, blocks, limits, handles and
crashes. `Balanced` (the accounting check, in `Total`s) and `Explained` (the log accounts for every
reservation) are kept by every command, so that a command which passes the refusals cannot
fail the check after it. `StoreInv` adds what is in flight: a staged block carries what
executing it gives (`StagedInv`), a call has executed a prefix (`WorkInv`), and the holder of the
write lock works on the present checkpoint (`CommitInv`). It gives `StoreTypeCorrect`,
`StoreNoFatalVerdict`, `StoreAnnouncedIsCommitted`, `StoreAlwaysReopens`,
`StoreCompletionAlwaysAdmitted`, `StoreRetryIsHarmless`, `StoreCompletedOnce`, and
`StoreSettlesWholeBlocks`, the refinement of `SettledLedger`: the committing step moves tables and
checkpoint by one whole block, and all others stutter. Every step of the ABCI application is
a step of the store or leaves it alone, so `StoreInv` holds there too; with `AppInv` (the chain
is what ProcessProposal let in, the ledger is its prefix, what is in flight is the next
decided block, the pending id, the engine's stage and the latch) it gives
`AbciLedgerIsTheChain`, `AbciDecidedIsTaken` and `AbciEngineRefusedOnlyAtGenesis`.

*Assumptions.* TLC evaluates all of them in the runs. `LimitsAssumption`, `ExitAssumption`,
`RelayAssumption`, `ProbeAssumption`: limits are positive, the setup timeout lies within the
longest lifetime (as `CapacityLedger::new` demands), requests are well formed and a hold expires
no later than the reservation it asks for. `BlocksAssumption`, `FreshAssumption`: commands have
the decoded types. `AccountAssumption`: the total supply fits `MAX_UNITS`, as
`create_mode` demands. `AbciAssumption`: heights and units are `i64`; a block id is a hash, so it
tells blocks apart and is not `"none"`. `RouteAssumption`, `CustodyAssumption`,
`JournalAssumption`: there is a data relay, names are distinct and bounds are naturals.

*Induction.* The library's induction theorems take a predicate as a parameter, which the
installed provers cannot instantiate. Where a sum or the execution of a block is
defined by a recursive function, the proofs use `SetInduction` (`TotalsProofs`) instead: a
*set* of naturals with 0 and all successors is `Nat`. First the set of lengths for which the
recursive definition has a solution, then the set of those for which the solution has
the property.

*Only model-checked.* Liveness (`EveryGrantEnds`, `RetirementEnds`, `EveryDecisionIsCommitted`,
`SettledOrFenced`), which needs fairness and `ENABLED`, outside the prover's reach as
installed; and the four violated statements of section 5.

## 5. Disagreements found

Four are runs that TLC finds violated:

1. `exit_leases`. `available()` and the establishment calls purge the
   ledger and discard its report of what expired; `purge_expired` drops endpoint states
   only for allocations the ledger reports, and `release` refuses ids it no longer
   knows. A reservation whose expiry is noticed by `available()` first keeps its endpoint
   state and helper lease, activation and identity owner until restart. The relay's
   `available` and `mark_tunnel_established` (`volparossa-relay/src/lib.rs:937`) do the
   same against the comment at `:878`.
2. `helper_birth`. A base WireGuard link is created in the helper's own namespace and then
   moved. If the process dies in between, restart settles the context, writes
   `CleanupConfirmed` and `Absent`, and the link stays (`volparossa-helper/src/systemd_custody.rs:1506`).

3. `probe_reuse`. Probe authorizations are purged by probe id
   (`volparossa-exit/src/lib.rs:1351-1354`), and the exit does not refuse a second permit
   request under an id that is in use. The expiry of the second probe then drops the retired
   entry of the first, whose Start acquires capacity again, against the comment at
   `native_preselection.rs:93-94`. Clients of this repository draw probe ids at random
   (`volparossa-agent/src/route_setup/selection_bridge/native_preselection.rs:516`), so
   only a client of another make meets it. `OnlyReuseReopens` says that this is the only case.
4. `route_lost`. A ReservePath or Finalize that retains its retirement scope and then fails in
   the helper, with a Prepare of unknown outcome or a Destroy whose error is ignored
   (`volparossa-agent/src/discovery.rs:6312-6338`, `9846-9903`), leaves a scope without an
   owner; a later RouteRetire is then confirmed although the helper may still have the
   context until it expires. docs/development/OPERATIONS.md:1515-1519 says that
   ambiguous or failed destruction keeps the route quarantined.

The others were met while reading, and are not runs:

5. When the new path's relay is confirmed but the extension was not committed before its
   deadline, Commit is refused as expired and Abort cannot be answered; no further
   extension of that route is possible (`volparossa-exit/src/reservation_v4/extension.rs:410`).
6. An exact retry of a probe's Start chain after the tunnel setup deadline is signed
   and charged again, because its cache entry goes with the pending allocation
   (`volparossa-exit/src/native_preselection.rs:738`).
7. `docs/architecture/HELPER_V3.md:396-405` describes restart settlement for a single `MayOwnCustody` record and a `MayOwnPrepare`
   that fails closed; the code settles any set of `MayOwn` records
   whose pairs are all present.
8. Scopes are in memory. After a restart of a relay or exit agent a retried ReservePath or
   Finalize creates the scope anew, and retirement is then confirmed without proof about
   the former owner; docs/development/OPERATIONS.md:1537-1538 says that a restart is not treated as proof.
9. A death or an error in the middle of `create_mode` (`volparossa-transaction/src/disk.rs:142`)
   leaves a directory that `open` refuses until it is removed by hand. Nothing in the repository
   says otherwise, so it is a hazard without a property.

## 6. Not modelled

Signatures, canonical encoding and field syntax. What the helper configures inside a
namespace (addresses, routes, nftables, peers), its wire protocol with agent and worker
and the engine's request ledger. Power loss: a crash is the death of a process, and a
completed rename is durable. Repetitions of a failed exact cleanup are stuttering steps.
The SQLite schema, the ordered snapshot's encoding. In the agent: selection and
measurement, advertisement, receive budgets, retirement of extension relays, the UDP
and multipath QUIC variants of Start, which own the same things as the MPTCP one, the
slot semaphore and shutdown of the retirement worker, restarts of an agent in the middle of
a route. `take_native_route_authorization_with_credential`, which adds an encrypted bearer
and its own replay entry to the modelled take; per-flow `OPEN_TCP`/`OPEN_UDP` admission;
installing an extension in an already active TCP egress route. The components marked
`not_modelled` in `PROJECT.json`.

The repository has some 524 000 lines of implementation. Well over half of them are
tests within the source files, test infrastructure (`volparossa-netns-runner`), kernel and
netlink code, wire codecs, command line and packet handling, in which there is no state
machine to check. The modelled parts are the ones whose correctness depends on
order, failure and time; a coverage of a third of all lines is out of reach without
specifying I/O line by line.

## 7. Plan

Done: ledger, envelope, exit with extension and refusals, relay, probe; the transaction layer
with its abstract ledger; the helper's custody with its contract; setup and retirement of a
route across nodes; theorems for every safety property of the runs.

Possible extensions: agent restarts in `RouteRetire`, which need a weaker
statement than `ReleasedMeansUnowned` because of 8 in section 5; retirement of extension
relays; the helper as the provider of `RouteRetire`'s contexts, with the cleanup it does
on its own; a proof that a completed Start is done when no two probe ids in use at the
same time agree.
