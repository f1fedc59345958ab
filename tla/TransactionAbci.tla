--------------------------- MODULE TransactionAbci ---------------------------
(***************************************************************************)
(* volparossa-transaction-abci: one Application serving one consensus      *)
(* engine over a private socket, on top of an OrderedStore.  The engine    *)
(* (CometBFT, external) follows its handshake: it asks for the committed   *)
(* height, sends InitChain while that is zero, then delivers the decided   *)
(* blocks after it, FinalizeBlock and Commit in turn.  The chain is        *)
(* decided by the validators together, so it grows also while this one is  *)
(* down.                                                                   *)
(*                                                                         *)
(* The process can die between any two steps, the engine can restart while *)
(* the application keeps running, the database can fail, and any of the    *)
(* four connections can carry a request that is not served.  Every error   *)
(* of a handler latches the application (it answers nothing more) and the  *)
(* server stops.  The engine is the only one to send the requests that     *)
(* change state.                                                           *)
(***************************************************************************)
EXTENDS OrderedStore

CONSTANTS
  App,           \* the application's handle; Handles = {App}
  MaxHeight,     \* bound: blocks the validators decide
  MaxCrashes,    \* bound: process deaths and engine restarts
  MaxErrors      \* bound: database errors and requests that are not served

\* A block id is the hash of the block, and heights are 64-bit as units are.
ASSUME AbciAssumption ==
  /\ Handles = {App}
  /\ MaxHeight \in 0 .. MAX_UNITS
  /\ \A b, c \in Blocks : b.id = c.id => b = c
  /\ \A b \in Blocks : b.id # "none"

VARIABLES
  disk,      \* the store directory: "absent", "partial" (half created) or "ready"
  up,        \* the server process runs
  pending,   \* the block id FinalizeBlock left for Commit, or "none"
  failed,    \* the latch of Application::handle
  engine,    \* what the engine is doing with this application
  chain,     \* the decided blocks, in order
  crashes,   \* how many crashes so far
  errors     \* how many database errors and requests not served so far

appVars == <<disk, up, pending, failed>>
envVars == <<chain, crashes, errors>>
vars == <<storeVars, appVars, engine, envVars>>

AbciInit ==
  /\ Init
  /\ disk = "absent"
  /\ up = FALSE
  /\ pending = "none"
  /\ failed = FALSE
  /\ engine = "down"
  /\ chain = << >>
  /\ crashes = 0
  /\ errors = 0

height == record.block.height
serving == up /\ ~failed /\ work[App] = None    \* the application's mutex is free

-----------------------------------------------------------------------------
(* The validators decide (external).                                       *)

\* ProcessProposal: the position and the bounds, against the committed block.
proposal_position(current, b) ==
  /\ b.height = current.height + 1
  /\ b.time >= current.time
process(current, b) ==
  /\ proposal_position(current, b)
  /\ b.id # GenesisBlock.id
  /\ Len(b.commands) <= MAX_BLOCK_COMMANDS

Tip == IF chain = << >> THEN GenesisBlock ELSE Last(chain)

\* A block most validators accepted becomes the next one of the chain.
Decide(b) ==
  /\ Len(chain) < MaxHeight
  /\ process(Tip, b)
  /\ chain' = Append(chain, b)
  /\ UNCHANGED <<storeVars, appVars, engine, crashes, errors>>

-----------------------------------------------------------------------------
(* Opening, handshake and InitChain.                                       *)

\* Application::open; a half created directory is refused for ever.
Open ==
  /\ ~up
  /\ \/ disk = "absent" /\ UNCHANGED storeVars
     \/ disk = "ready" /\ reopen(App)
  /\ up' = TRUE
  /\ failed' = FALSE
  /\ pending' = "none"
  /\ UNCHANGED <<disk, engine, envVars>>

\* The engine connects; Info tells it the committed height.
Info ==
  /\ engine = "down"
  /\ serving
  /\ engine' = IF height = 0 THEN "init" ELSE "resync"
  /\ UNCHANGED <<storeVars, appVars, envVars>>

\* InitChain with the genesis this application was configured with.
init_chain ==
  /\ engine = "init"
  /\ serving
  /\ pending = "none"
  /\ height = 0
  /\ disk' = "ready"
  /\ engine' = "ready"
  /\ UNCHANGED <<storeVars, up, pending, failed, envVars>>

\* The process dies between the mkdir and the first commit of create_mode.
CrashInCreate ==
  /\ engine = "init"
  /\ serving
  /\ disk = "absent"
  /\ crashes < MaxCrashes
  /\ disk' = "partial"
  /\ up' = FALSE
  /\ engine' = "down"
  /\ crashes' = crashes + 1
  /\ UNCHANGED <<storeVars, pending, failed, chain, errors>>

\* An error of create_mode, which removes nothing of what it has made.
CreateFails ==
  /\ engine = "init"
  /\ serving
  /\ disk = "absent"
  /\ errors < MaxErrors
  /\ disk' \in {"absent", "partial", "ready"}
  /\ failed' = TRUE
  /\ errors' = errors + 1
  /\ UNCHANGED <<storeVars, up, pending, engine, chain, crashes>>

-----------------------------------------------------------------------------
(* FinalizeBlock and Commit.                                               *)

\* The block the engine delivers: the decided one after the committed height,
\* or, right after a handshake with nothing outstanding, the committed one.
Delivered(b) ==
  \/ /\ engine \in {"ready", "resync"}
     /\ Len(chain) > height
     /\ b = chain[height + 1]
  \/ /\ engine = "resync"
     /\ staged[App] = None /\ pending = "none"
     /\ b = chain[height]

finalize(b) ==
  /\ serving
  /\ disk = "ready"
  /\ Delivered(b)
  /\ stage(App, b)
  /\ engine' = "finalizing"
  /\ UNCHANGED <<appVars, envVars>>

\* Mutant: the block answered again is not remembered for Commit.
FinalizeKnownForgets(b) ==
  /\ serving
  /\ disk = "ready"
  /\ Delivered(b)
  /\ stage_known(App, b)
  /\ engine' = "finalized"
  /\ UNCHANGED <<storeVars, appVars, envVars>>

\* The block is already staged or already committed: the same answer again.
finalize_known(b) ==
  /\ serving
  /\ disk = "ready"
  /\ Delivered(b)
  /\ stage_known(App, b)
  /\ pending' = b.id
  /\ engine' = "finalized"
  /\ UNCHANGED <<storeVars, disk, up, failed, envVars>>

\* The handler runs on under the mutex whether or not the engine still waits.
Execute ==
  /\ up
  /\ execute(App)
  /\ UNCHANGED <<appVars, engine, envVars>>

finalize_done ==
  /\ up
  /\ stage_done(App)
  /\ pending' = work[App].block.id
  /\ engine' = IF engine = "finalizing" THEN "finalized" ELSE engine
  /\ UNCHANGED <<disk, up, failed, envVars>>

\* What commit accepts: the staged block on the committed base, or the
\* committed block itself.
Committable ==
  /\ pending # "none"
  /\ IF height > 0 /\ record.block.id = pending
     THEN staged[App] # None => staged[App].record = record
     ELSE /\ staged[App] # None
          /\ staged[App].record.block.id = pending
          /\ staged[App].base = record

commit_request ==
  /\ engine = "finalized"
  /\ serving
  /\ pending # "none"
  /\ commit(App, pending)
  /\ engine' = "committing"
  /\ UNCHANGED <<appVars, envVars>>

commit_request_known ==
  /\ engine = "finalized"
  /\ serving
  /\ pending # "none"
  /\ commit_known(App, pending)
  /\ pending' = "none"
  /\ engine' = "ready"
  /\ UNCHANGED <<disk, up, failed, envVars>>

commit_request_done ==
  /\ up
  /\ commit_done(App)
  /\ pending' = "none"
  /\ engine' = IF engine = "committing" THEN "ready" ELSE engine
  /\ UNCHANGED <<disk, up, failed, envVars>>

-----------------------------------------------------------------------------
(* Failures.                                                               *)

\* A request the engine sends in its present state is one its handler refuses:
\* InitChain while a block is pending or with blocks committed, a FinalizeBlock
\* that conflicts or is misplaced, a Commit with nothing to commit, a
\* PrepareProposal at the tip that is misplaced, and anything that needs a store
\* (CheckTx, Query, the proposals) when there is none.
Refused ==
  \/ engine = "init" /\ (pending # "none" \/ height # 0)
  \/ \E b \in Blocks :
       Delivered(b) /\ ~stage_known(App, b) /\ ~stage_admits(App, b)
  \/ engine = "finalized" /\ ~Committable
  \/ /\ engine = "ready" /\ Len(chain) = height
     /\ \E b \in Blocks : process(Tip, b) /\ ~proposal_position(record.block, b)
  \/ engine \notin {"down", "init"} /\ disk # "ready"

\* handle: the first error latches the application.
Latch ==
  /\ serving
  /\ Refused
  /\ failed' = TRUE
  /\ UNCHANGED <<storeVars, disk, up, pending, engine, envVars>>

\* The same latch, set by an error of the database under a handler.
StoreError ==
  /\ up
  /\ errors < MaxErrors
  /\ abort(App)
  /\ failed' = TRUE
  /\ errors' = errors + 1
  /\ UNCHANGED <<disk, up, pending, engine, chain, crashes>>

\* It is also set by a request that is refused in every state (LoadSnapshotChunk,
\* ExtendVote, VerifyVoteExtension, InsertTx, ReapTxs, a request without a value or
\* too long, a CheckTx of no known type), by one that is out of place (Query or
\* CheckTx before InitChain, a proposal at another height), and by an error of the
\* database while it is only read.  Whoever owns the socket can send such a request
\* at any time.
OtherRequestFails ==
  /\ serving
  /\ errors < MaxErrors
  /\ failed' = TRUE
  /\ errors' = errors + 1
  /\ UNCHANGED <<storeVars, disk, up, pending, engine, chain, crashes>>

\* The first fatal error ends Server::serve and the process with it.
Exit ==
  /\ up
  /\ failed
  /\ up' = FALSE
  /\ engine' = "down"
  /\ UNCHANGED <<storeVars, disk, pending, failed, envVars>>

\* The process dies, or a frame that cannot be read or decoded ends the server.
Crash ==
  /\ up
  /\ crashes < MaxCrashes
  /\ up' = FALSE
  /\ engine' = "down"
  /\ crashes' = crashes + 1
  /\ UNCHANGED <<storeVars, disk, pending, failed, chain, errors>>

\* The engine restarts; the application keeps running with what it has.
EngineRestart ==
  /\ engine # "down"
  /\ crashes < MaxCrashes
  /\ engine' = "down"
  /\ crashes' = crashes + 1
  /\ UNCHANGED <<storeVars, appVars, chain, errors>>

-----------------------------------------------------------------------------
Handler ==
  \/ Info \/ init_chain \/ Latch
  \/ \E b \in Blocks : finalize(b) \/ finalize_known(b)
  \/ Execute \/ finalize_done
  \/ commit_request \/ commit_request_known \/ commit_request_done

AbciNext ==
  \/ \E b \in Blocks : Decide(b)
  \/ Open \/ Handler \/ Exit
  \/ CrashInCreate \/ CreateFails \/ StoreError \/ OtherRequestFails
  \/ Crash \/ EngineRestart

AbciSpec == AbciInit /\ [][AbciNext]_vars

\* The engine goes on with its protocol, a handler that runs ends, and so does a
\* server after a fatal error; decisions, crashes and errors may stop.  Nothing
\* is assumed about who starts the process again.
FairAbciSpec == AbciSpec /\ WF_vars(Handler) /\ WF_vars(Exit)

-----------------------------------------------------------------------------
(* Properties *)

\* The ledger after a sequence of blocks.
LedgerOf(blocks) ==
  LET run[n \in 0 .. Len(blocks)] ==
        IF n = 0 THEN genesis_db ELSE ApplyBlock(run[n - 1], blocks[n])
  IN  run[Len(blocks)]

\* The durable ledger of this validator is the decided chain up to its
\* committed height, executed once and in order, whatever crashed, failed or
\* was delivered twice on the way; so two validators at one height agree.
LedgerIsChain ==
  /\ height <= Len(chain)
  /\ db = LedgerOf(SubSeq(chain, 1, height))
  /\ height > 0 => record.block = chain[height]

\* A running application that has no call in progress can take the next
\* decided block: what ProcessProposal accepted, FinalizeBlock never refuses,
\* also when an engine restart left a block staged.
DecidedIsTaken ==
  (serving /\ disk = "ready" /\ Len(chain) > height) =>
    \/ stage_known(App, chain[height + 1])
    \/ stage_admits(App, chain[height + 1])

\* The engine's own requests are refused in one case only: it restarted between
\* FinalizeBlock and Commit of the first block, so that it sends InitChain to an
\* application with a pending block (init_chain).  No other order of crashes, engine
\* restarts and errors brings an application that serves to latch by what the
\* engine sends it next.
EngineRefusedOnlyAtGenesis ==
  serving /\ Refused => engine = "init" /\ height = 0 /\ pending # "none"

\* A validator that is started again whenever it has stopped commits every decided
\* block in the end: no latch, no block left staged or pending and no replay by the
\* engine holds it up for ever (handle, finalize, Server::serve).
EveryDecisionIsCommitted ==
  []<>up => \A n \in 1 .. MaxHeight : (Len(chain) >= n) ~> (height >= n)
=============================================================================
