# TLA+ specifications of zk-symbiotic

This directory specifies the parts of zk-symbiotic whose correctness depends on
the order in which things happen: asynchronous tasks and channels, concurrent
handlers, retries and timeouts, restarts, and contracts that see only one side of
a bridge. TLC checks every module on a small instance; TLAPS proves the central
properties of all of them for every value of their constants.

Source paths below are relative to the repository. `consensus-mpt` is short for
`golem-symbiotic-consensus-mpt`, and so on.

## The system

A user locks ETH in `AppSource` on the source chain. The lock has to be believed
on the destination chain on two grounds: a quorum signature of Symbiotic
operators, and a zk proof that the lock's storage slot is in a state that Ethereum
consensus finalized.

    beacon + execution RPCs                            source chain
            |                                        PacketSent |
    consensus / execution proxies                               v
            | validated proof inputs                       DVN worker <- relay (signature)
            v                                                   |     <- GolemDB (zk proof)
    finality change detector <-> event loop -> prover           v
                                     |                     SymbioticDvn (destination)
                              proof saver -> GolemDB            |
                                                             AppDest mints bETH

| Component | State | Operations | Talks to |
|---|---|---|---|
| Finality change detector (`consensus-mpt/src/api/finality_change_detector.rs`) | current slot and store hash, `latest_slot`, `in_flight`, `stale`, `next_expected_output` | one `select!` loop: stage, advance, result, tick; an actor task that validates jobs | four one-place channels: jobs and results with the actor, outputs to and stages/advances from the event loop |
| Execution RPC proxy (`src/rpcs/execution/http.rs`, `src/rpcs/mod.rs`) | none between queries; a query has one future per provider | `query_with_fallback`, `multiplex`, chunked event reads, proof read | execution RPC providers |
| Consensus RPC proxy (`src/rpcs/consensus/mod.rs`) | none between queries; the slot and store hash it is called with are the head of a chain of proofs | cold start, recovery of the light client store, native dry run with validation | consensus RPC providers, helios |
| Event loop (`src/api/event_loop.rs`, `sp1_prover.rs`) | job table, slot and store hash head; the proving key | stage a proof, handle prover success or failure | detector channels, prover tasks |
| Consensus and MPT program (`consensus-mpt-program`) | pure | hash check, apply updates, apply finality, verify storage proofs | run natively for validation, and in the zkVM |
| Types (`consensus-mpt-types`) | pure | byte layout of the outputs | prover, contracts |
| Golem proof saver (`nori-golem-storage`) | fetches and saves under way, in memory only; entities with a lifetime in GolemDB | subscribe, fetch a converted bundle, save, query by block | bridge topic, conversion server, GolemDB, DVN worker |
| DVN contract (`src/layerzero/dvn/SymbioticDvn.sol`) | `verified` | `submitVerification` | settlement, zk verifier |
| DVN worker (`offchain/dvn-worker`) | handlers under way, in memory only | one handler per `PacketSent` delivery | source RPC, relay, GolemDB, DVN contract |
| Sum node (`off-chain/cmd/node/main.go`) | `tasks`, `lastBlocks`, in memory only | poll events, read statuses, sign, respond | `SumTask` contracts of every chain, relay |
| App contracts (`src/layerzero/app`) | `totalLocked`, `lockedTokens`; bETH balances | `depositETH`, `onLzReceive` | LayerZero endpoint |
| Symbiotic network contracts, deployment scripts, benchmark, generated code | | configuration and wrappers | |

What is hard in it:

* **Detector.** A job is computed from inputs that stages and advances replace
  while it runs; stages and advances travel in different channels and overtake
  each other; a send may wait for the client while updates pile up; the actor may
  fail or panic. Correct means: one job outstanding at a time, nothing emitted for
  inputs that are gone, agreement with the client's head once the channels are
  drained, every finalized slot accepted in the end.
* **Execution proxy.** Attempts with retries are cut by timeouts and raced by
  backups; providers lag. Correct means: the returned events are those of the
  window, each once, but for blocks the provider lacked; an error only when all failed.
* **DVN.** Handlers check, wait, and act; the contract's clock and epochs move.
  Correct means: verified once, final, not after expiry.
* **Sum node.** Chains finalize, expire and answer between any two calls; the
  cursor moves before the events are processed. Correct means: an event is read once,
  and is then processed or lost to an error, answers only to finalized tasks, a task is given up only when settled.
* **Light client store.** A proof commits the hash of a store; after a restart only
  the slot and that hash are left, and the store must be rebuilt to the bit from
  what providers have then, across sync committee periods. Correct means: the store
  is the chain's, it can be rebuilt, good data is never rejected, the head moves
  only to where it can be rebuilt, and a window attests nothing the chain does not have.
* **Event loop.** Proofs end in any order, fail, or die in the key's set-up, while the
  loop may be waiting for the detector. Correct means: a result finds its job, what
  is decoded is what was proved, jobs end.
* **Proof saver.** Everything it is told of is fetched and saved at once; one error
  ends the process. Correct means: exit 0 only with everything saved, and an answer
  for a block is a proof of that block.
* **App contracts.** Deposits and deliveries around the DVN's handlers. Correct
  means: the books agree, and what is minted is backed by final deposits.

## Modules

`WindowEmitter` is the abstract specification of the detector.
`FinalityChangeDetector` implements it (`INSTANCE ... WITH next <-
next_expected_output, latest <- latest_slot`). `DvnWorker` extends `SymbioticDvn`,
and `AppBridge` extends `DvnWorker`, so that app contracts, handlers and DVN contract
are composed; the composed bridge implements `DvnWorker`'s specification, and `Escrow`, the
abstract specification of what the whole bridge promises its users.
`LightClientStore` extends `StorageAttestation`, the algorithms of what a proof says
about the source contract. `ProofPipeline` composes `EventLoop` and `ProofSaver`.
`ExecutionProxy` and `SumNode` stand alone. `MC*` modules instantiate for TLC;
`*_proofs` modules hold the theorems, and `SetFacts` the lemmas about finite sets, sums and ranks
that two of them rest on.

### WindowEmitter, FinalityChangeDetector

A slot is a checkpoint slot. A proof input is abstracted to its window: the
update (slot and store hash) it starts from and the update it should end in; what
is inside is validated by the actor and never looked at by the detector.

| Code | Model |
|---|---|
| `current_slot`, `store_hash` (always assigned together) | `head` |
| the `select!` arms (403, 419, 452) and the tick (526) | `StageUpdate`, `AdvanceUpdate`, `ResultErr/Stale/Send/Skip/Ignore`, `Tick` |
| `finality_output_tx.send(..).await` inside an arm, during which no arm is polled | `pending`, `Polling`, `OutputSend` |
| `try_start_validation_job` with its filter | `try_start_validation_job`, `FilteredNext` |
| actor task: receive, validate both windows, send the result, panic | `ActorReceive`, `ActorValidate`, `ActorPanic` |
| channels of capacity one | variables that hold `None` or a value |

Providers answer with any finality slot up to the chain's (`Reachable`), lower than
before included, or an error; a panic (the `unwrap` in `try_from_env`, `http.rs:117`)
kills the actor. The client actions model the interface that the event loop and the
detector's documentation state. In this commit `EventLoop::run` takes an event and
drops it, `stage_transition_proof` has no caller and nothing sends an advance; the
model's client stages a window that starts at its head, one proof at a time, and
advances when the proof succeeds. What is checked of the detector therefore holds
for every such client, whenever it is completed. `ProofFails` tells the detector nothing, as
in the code: `next_expected_output` stays until an advance to its slot clears it. How the loop
and the detector wait for each other's channels is in `EventLoop`.

### ExecutionProxy

One call of `query_with_fallback` (`rpcs/mod.rs`) over the attempts of
`rpcs/execution/http.rs`. Each provider's future is a record: where it stands, the
first block of the next chunk, the retries spent on it, how often its events hold
those of each block. `ChunkOk`, `ChunkErr`, `Wake` are the loop of
`_get_source_contract_events`; `ProofOk`, `ProofErr`, `ProofPanic` the storage
proof and the native dry run; `Timeout` may cut anything that runs. `head` is how
far each provider's chain has come; it moves between any two calls of an attempt. Events
of blocks a provider lacks are missing from its answer, and a proof at a block it
lacks is an error. An attempt that ends gives up its locals.

### StorageAttestation, LightClientStore

`LightClientStore` is one provider's run of `prepare_consensus_mpt_proof_inputs`, again
and again, each accepted one moving `head`: the store that the next one must rebuild.

| Code | Model |
|---|---|
| `bootstrap_from_slot`, `get_latest_finality_update` | `FetchFinality`: the slot must be a checkpoint, the update is any the provider may hold |
| `get_updates`, the branch at 360-404, and the program's hash check (`consensus.rs` 140-170) | `FetchUpdates`, `Restored`: the store must be equal to `head` |
| the program's loop over updates | `ApplyUpdate`, one update each; `NextUpdates` is the list |
| the finality update and the checks of 529-556 | `ApplyFinality`, `Validated` |
| the execution proxy's events | `EventReads`: the window's blocks that the provider had when it was asked, kept in the history `read` |
| the execution proxy's storage proof and `consensus_mpt_program` run natively | `DryRun`, over `storage_slots`, `sorted`, `Verifies`, `merkle_root` |
| the proof ends; an error anywhere | `Proved`; `GiveUp` |
| `get_latest_finality_slot_and_store_hash` | `Init` |

What is assumed: the store hash is collision free, so equal hashes are equal stores; a
committee is named by the period it serves in; an update is signed in the slot after
the one it attests. Providers are honest but may hold data of any age and with any
participation (`Updates`, `FinalityUpdates`). helios's `verify_update` and `apply_update`
are external, modelled from what the code hands them and what the Altair light client
protocol says. The beacon chain is a constant: `period`, `finalized` (what each block's
state finalizes) and `Checkpoint`. Updates are read when they are used, which is sound
since `now` stands still while the program runs natively. A provider is asked by itself:
`multiplex` starts the same attempt at each of them and takes the first that succeeds, so
its outcome is one accepted attempt or none. Merkle roots stand for the padded leaves.
Nothing asks whether the events a provider answered with are complete: the program checks the
slots it is given, not whether there are others. So a window may miss users, and the
properties do not say otherwise. The store's `optimistic_header` and `max_active_participants`
fields are not in the model.

### EventLoop, ProofSaver, ProofPipeline

`EventLoop` has one action per thing that happens between two awaits: a job is staged
and its task spawned, the send into the stage channel waits (`staging`) and goes
through, a finality event is taken, a result is handled, a task fails to encode its inputs, waits
for the key, sets it up, panics, proves. The detector is there as the loop meets it: it takes
stages (`TakeStage`) and emits (`DetectorEmits`, `DetectorSends`), and while it waits for room
in the output channel (`emitting`) it takes nothing, as in `finality_change_detector.rs:487`.
In this commit `run()` drops the finality event and `stage_transition_proof` has no
caller; the module leaves open when it is called and with which window. `to_bytes` and
`from_bytes` are functions over the offsets of `ProofOutputs`, in words of eight bytes,
since every offset is a multiple of eight; a field reads back only if all its words
are its own. A hash stands for the slot it is the hash of. A proof whose public values have
another size ends the loop (`WrongSize`), as a result without a job does.

`ProofSaver` is the rxjs pipeline: `Receive` (the filter and the first `mergeMap`),
`FetchOk`/`FetchErr`, `SaveOk`/`SaveErr`, and the two exits. An entity that was sent may
be created although the process is gone. The topic replays its last notice, of whatever stage
(`OtherNotice`), to a saver that subscribes late. It may complete, or end with an error
(`TopicFails`), which ends the process. `ProofPipeline` puts the bridge (external) between them: it
announces a conversion of a handled proof that goes on from its last one.

### SymbioticDvn, DvnWorker, AppBridge, Escrow

`submitVerification` is `Accepts` (its four checks, in order) and what it writes. The
settlement (external) commits epochs one after another and stamps each with the time.
In `DvnWorker` each delivery of a log is a handler that goes from await to await:
`CheckVerified`, `CheckFinality`, `requestSignature` (falls back to a mock for epoch 1
on any error), `getZkProof` (falls back to a stub), `SendTransaction`, `Mine`. Two
deliveries may be of the same packet. A sent transaction is mined whether or not its
handler is still there. `HandlerFails` is any thrown error; `Restart` loses every
handler under way.

`AppBridge` adds what is at both ends. `depositETH` does its bookkeeping and sends the next
packet in one step, as a transaction does: a send that reverts changes nothing. What a
contract called from inside the send would see between the two updates
(`AppSource.sol:36-44`) is therefore not in the model; the endpoint makes no call back. The
endpoint (external) numbers packets and hands each verified one to `onLzReceive` once.
Amounts are in units of the fee.

`Escrow` knows deposits only: one is locked, its block becomes final, its amount is minted
at most once to the user who made it; it promises safety only. `AppBridge` implements it (`EscrowSpec`) with `DepositStatus`, what
a packet's place says of its deposit: sent, in a final block, delivered.

### SumNode

The loop of `rootCmd` as one action per call to a chain or to the relay; between any
two of them chains finalize blocks, create, expire and answer tasks and mine
transactions. `PollChain` moves `lastBlocks` before the events are processed, as the
code does. A failing call of `processNewTasks` or `fetchResults` ends that function
(`NewTaskError`, `ReadStatusError`, `RespondError`); a failing poll ends the process
(`Restart`), which starts from block 0 with no tasks. `seen` (events processed), `lost`
(events that an error left unprocessed) and `restarts` record history only. The node's own
transactions are the only ones that answer tasks; a query from beyond the finalized block to the
finalized block returns no events, and finalized heights never decrease. Heights count finalized blocks only; a task's event is in the block
after the finalized one.

## Runs

| Run | Question | Bounds |
|---|---|---|
| `detector` | Type, `OneOutstandingJob`, `FreshJobIsWanted`, `EmissionIsCurrent`, `DrainedAgreement`, the refinement `EmitterSpec`, and `FinalityAccepted` under fairness | 4 slots, one hash |
| `detector_actor_death` | `ActorDeathExits` is violated: after a panic of the actor the loop idles for ever | 4 slots |
| `detector_skipped_slot` | `LatestSlotIsEmitted` is violated: `latest_slot` moves with nothing emitted | 4 slots |
| `detector_stale_after_error` | `FreshJobNotStale` is violated: `stale` outlives the failed job | 4 slots |
| `detector_next_behind` | `NextWindowFollows` is violated: an advance that overtakes its stage leaves a next window behind the current one | 4 slots |
| `detector_no_fallback` | `FallsBackOnFailure` is violated: a staged proof that failed keeps the current window from being offered | 4 slots |
| `execution_proxy` | `WindowCovered`, `FailoverInOrder` (principal first, errors unanimous), bounded requests, termination | 3 providers, 4 blocks, chunks of 2, 1 retry |
| `light_client` | `HeadIsOnChain`, `HeadIsRecoverable`, `GoodDataIsAccepted`, `WindowIsSound`, `HeadMoves` | 32 slots in 6 periods, missed checkpoints, stalled finality, 3 users, lists of 4 updates, trees of 2 leaves |
| `proof_pipeline` | `ResultsHaveJobs`, `DecodedAsExpected`, `AnswersAreProved`, `ExitZeroMeansSaved`, and `JobsEnd`, `ReceivedIsSaved` under fairness | 2 jobs, 3 slots and blocks |
| `dvn` | `VerifiedOnce`, `VerifiedIsFinal`, `VerifiedBeforeExpiry`, `LockedIsHeld`, `MintedIsBacked`, the refinement `EscrowSpec`, and `ReadyHandlerVerifies` under fairness | 2 users, 2 packets, 2 deliveries, 2 epochs, 2 confirmations, values from 0 to 3 fees |
| `bridge_fee` | `DepositIsWhole` is violated: the end-to-end test expects all of a deposit to be locked and carried, the contract takes its fee off | as `dvn` |
| `sum_node` | `EventsSeenOnce`, `AnswersAreFinal`, `CachedAnswersAreReal`, `GivesUpSettledOnly`, and `TrackedIsSettled` under fairness | 2 chains, 1 task, 2 blocks, 1 restart |

Why the bounds are enough. Detector: four slots let a proof be staged, proved and
overtaken by the next one while finality is ahead of both, which is the longest
chain of windows any of its comparisons tells apart; the store hash is compared
nowhere, and the proofs cover any number of hashes. Execution proxy: four blocks in
chunks of two give windows of zero, one and two chunks with a full and a short last
one; three providers let two backups race. Light client: six periods let a head be one to
five periods behind what a provider has, with the limit on updates (128 in the
code, 4 here) in reach; one checkpoint is missed at a period's first slot, so that the
finalized block is of the period before the one that attests it, and finality stalls
across a boundary, and once for longer than a period; one window has more users than its tree has leaves. Pipeline: two
jobs race for the key, the table and the result channel; three blocks give two windows
that meet in a block, and a long one over both. Values of the DVN run: 0 and one fee are
rejected, two users lock different amounts. DVN: two deliveries are a race on one
packet or two independent packets; two epochs are enough for one to expire. Sum node:
two chains are needed for a task answered on one and not on the other. A pass that fails between
two tasks is beyond its one task; the safety properties are proved for any number of them.
Names of the bounds: `MaxBlock`, `MaxTime`,
`MaxEpoch`, `MaxRestarts`, `MaxSlot`, `MaxJobs`, and the finite sets.

`CHECK_DEADLOCK FALSE` is stated where a bounded chain stops growing and the
program has nothing left to do, or where it exits.

Every property of a passing run has a mutant: a plausible defect of the code under
which TLC finds the property violated. The mutants are the definitions marked
`Mutant:` beside the operator they alter.

### What the violations say

* The detector's documentation promises that it runs until the process exits or a
  critical error occurs. A panic of its actor leaves `in_flight` set: the branch
  that would notice the closed channel is never reached (proved:
  `ErrorExitUnreachable`).
* `latest_slot` is documented as the slot emitted last; it also moves when nothing
  was emitted because the next window lagged.
* `stale` is documented to concern the job being computed; the error branch leaves
  it set for the next one, whose good result is then dropped.
* Windows are documented to be contiguous. `next_expected_output` may still be the output of a
  proof that failed, or of one whose advance overtook its stage, when an advance to a later slot is
  taken: the scrub tests for equality with the advance, the filter for equality with the head, and
  both let it through, so a next window is emitted that starts behind the current one.
* When a staged proof fails the bridge is documented to fall back on the current window. The
  detector does not hear of the failure: its jobs go on asking for the window behind the failed
  proof too and fail as a whole while finality is not past that proof's output. `FinalityAccepted`
  says what the code does: a finalized slot is accepted unless finality has not passed the staged
  output (`NextWaitsForFinality`), whether or not the proof is still being made.
* `test/DvnE2E.t.sol` deposits 1 ether and expects 1 ether to be locked (184), carried by the packet
  (166) and minted (191). `depositETH` takes a fee of 0.01 ether off first. `LockedIsHeld` and
  `MintedIsBacked` are about the numbers of the contract.

The worker logs of a block that is not final that it "will be retried" (`dvn-worker.ts:67`) and
returns; nothing queues the packet again. In the model the handler ends in `notFinal`.

## Fairness

* Detector: a ready task is polled (`WF` on the tick, the send, the actor's steps,
  the client's receive). `select!` picks at random among ready arms, so an arm that
  is ready again and again is taken (`SF` on stage and advance). Providers may lag
  and fail, but an actor that keeps being asked is answered honestly again and again
  (`SF` on `ActorValidateHonestly`). `FinalityAccepted` excuses a client that stages
  for ever, as each stage makes the outstanding job stale, a dead actor, and finality that is
  not past the staged output.
* Execution proxy: futures that are ready are polled and timers fire (`WF`). No
  provider is assumed to answer.
* DVN worker: the event loop runs every handler whose await has been answered (`WF`
  on each handler, in `BridgeSpec`), and a transaction that was sent is mined. Relay, GolemDB and
  nodes may fail; that is an outcome of the property.
* Sum node: the loop keeps running; each task is looked at and each of its chains
  accepts a transaction if asked again and again (`SF`), and sent transactions are
  mined (`WF`). Status calls must stop failing from some point on, since one failed
  call ends the pass for the tasks behind it and map order decides which those are:
  this premise is part of `TrackedIsSettled`.

* Proof pipeline: a spawned task is polled until it ends, and the loop takes every event and
  result whenever no handler of it waits (`WF` on each task's steps, `ReceiveOutput`, `HandleResult`).
  Sends that have room end (`WF` on `SendStage`, `DetectorSends`). The detector takes a stage
  only while it polls, which it may be kept from by its sends; it polls again and again and
  `select!` picks at random, so a stage that is there then is taken in the end (`SF` on
  `TakeStage`). Each request of the saver is answered or fails. `JobsEnd` excuses a task whose key
  set-up panics, and the one state of channels from which neither side moves
  (`EachWaitsForTheOther`): the loop waits for room in the stage channel and takes no events,
  the detector waits for room in the output channel and takes no stages. The state is
  reachable in the model; in this commit nothing calls `stage_transition_proof`, so no run of
  the program is in it yet.
* The light client run checks safety only: no provider is assumed to answer.

## Proofs

Each core module has a proof module of its own. All its theorems are about `Spec`,
for every value of the constants. The argument is always the same: an invariant is
strengthened until it is inductive, and the property follows from it.

### FinalityChangeDetector_proofs

Assumes only what `DetectorAssumption` states: slots are naturals and the markers
(`None`, `Err`, `Dead`) are not data.

* `TypeCorrect`: `TypeOK` is inductive.
* `JobAccounting`: `OneOutstandingJob` is inductive relative to types. It is the
  reason why the detector never waits for its actor while the actor waits for it.
* `Freshness`: `FreshJobIsWanted` needs `OneOutstandingJob`: a job leaves and a result
  enters one at a time, so the single flag is enough.
* `EmissionCurrency`: `EmissionIsCurrent` follows when a fresh, progressing result
  enters `pending`, and is kept because no arm is polled while the send waits.
* `ErrorExitUnreachable`: the process exit after the loop is dead code, because a
  dead actor always leaves `in_flight` set.
* `Agreement`: `DrainedAgreement` is strengthened with where the client's last stage
  and advance are (in their channel or taken).
* `Refinement`: each step of the detector is a step of `WindowEmitter` or a stutter.
  `OutputSend` is `Emit`, which needs all of the above: what was computed by the
  actor long ago is what would be computed now.

### ExecutionProxy_proofs

Assumes `ProxyAssumption`: the principal is a provider, `CHUNK_SIZE`, `MAX_RETRIES` and
`MaxBlock` are naturals of any size, and the outcomes `None`, `"err"`, `"panic"` are not
providers. Three invariants carry the proofs.

* `Covers(p)`: the blocks of the window below the attempt's `current_block` are in its
  events once each (unless the provider lacked them), no other block is, and the
  proof is only asked for beyond `end_block`. Retrying a chunk keeps it because
  `current_block` moves only with the events. `Coverage` (`WindowCovered`) follows.
* `Outcomes`: what the query returned is what a finished attempt returned, and the
  backups were started only by a failed principal. `FailoverIsOrdered` (`FailoverInOrder`)
  follows: a finished attempt never moves again.
* `Cost(p)`: the requests made, without the retries of the current chunk, are paid for by
  the completed chunks, at most `MAX_RETRIES + 1` for every `CHUNK_SIZE + 1` blocks. `Frugality`
  (`RequestsBounded`) follows. The products of variables are isolated in two lemmas
  (`Monotonic`, `OneChunkMore`), proved once over the naturals.

### DvnWorker_proofs

Assumes `DvnAssumption` and `WorkerAssumption`: at least one epoch, one confirmation and
one second of `VERIFICATION_EXPIRY`. The last is needed: the next epoch may be committed
in the second in which a verification was mined.

* `TypeCorrect`: `TypeOK` is inductive together with `HandlerInputs` (a handler past an await
  holds what that await returned).
* `Uniqueness` (`VerifiedOnce`): however many handlers hold the same packet, the contract's
  log has one verification of it. The invariant says that a packet in the log is in
  `verified`, which the contract looks at again when the transaction is mined.
* `Finality` (`VerifiedIsFinal`): the block of a packet whose handler went past its finality
  check is final (`HandlersPastCheck`), also when the handler is gone and only its
  transaction is left; the chain only grows, so this is still true when it is mined.
* `Expiry` (`VerifiedBeforeExpiry`): entries of the log are not younger than the clock, so a
  header committed later is stamped too late to matter for them; for one that was there
  before, the contract compared the times.

### AppBridge_proofs

* `BridgeImplementsWorker`: a deposit is, for worker and contract, `SendPacket`, and a
  delivery a stutter. All of `DvnWorker_proofs` therefore holds of the composed bridge.
  `BridgeUniqueness` (`VerifiedOnce`) is one instance of it.
* `MintedIsFinal`: what was delivered is verified, verified packets stay so, and their
  blocks are final (`Finality`).
* `BooksAgree` (`LockedIsHeld`): `BooksInv` says that each user's `lockedTokens` is the sum of
  what the user's packets carry, and that `totalLocked`, the sum of all, is the balance.
* `MintedAreBacked` (`MintedIsBacked`): each user's BETH is the sum over the user's delivered packets,
  which are among the final ones (`MintedIsFinal`), and a sum over fewer packets is not greater.
* `Solvency`: adding up over users, all BETH is at most the ETH in `AppSource`.
* `BridgeIsEscrow` (`EscrowSpec`): one lemma per kind of step. A deposit is `Lock`; a step of the
  worker or of the source chain is `Finalize` of the packets whose block becomes final with
  it, possibly none; a delivery is `Mint`, which needs that verified packets are final.

The module assumes `AppAssumption`, which now asks for a finite set of users: `totalLocked` is a
sum over them.

### SetFacts

Sums over a finite set (`SumFunctionOnSet` of the community modules, which folds a function over the
set) and ranks in a set of numbers. The proof system's induction theorems take the formula as an
operator, which its provers cannot instantiate. `SetFacts` goes around that with two lemmas that need no
operator: `LeastNatural`, each set of naturals that has a member has a least one, and `LeastSubset`, each
set of subsets of a finite set that has a member has a least one. A claim about every
finite set is proved by looking at a least set for which it fails. So `SumsExist` and
`SumsAgree` show that the order of the fold does not matter, and `SumPick`, `SumUpdate`, `SumAdd`,
`SumDominated` what one step of the books does to a sum; `RankUnique` and `RankTaken`
show that exactly one member of a finite set of numbers has a given rank.

### LightClientStore_proofs

Assumes `ChainAssumption`: periods never decrease with slots, a block's state
finalizes an earlier block, and every block has its list of depositors, and
`AttestationAssumption`: a block's depositors are finitely many addresses, which are numbers, and the
padding of a tree is no leaf. The inductive invariant `IInv` adds to types and
`OnChain(head)` what an attempt holds (`AttemptInv`: its updates are genuine, its store is on
the chain, and is validated once the program has accepted it) and `StuckInv`: from a head
without its next committee the program leaves the store as it is, because the first update
teaches it nothing and the next one cannot be verified, so no attempt gets past it.

* `ChainOfCommittees` (`HeadIsOnChain`): a case analysis of `apply_update` against
  `Verify`: what is applied is of the store's period or the next.
* `Recovery` (`HeadIsRecoverable`): both branches of the recovery rebuild the same store.
* `Progress` (`HeadMoves`), an action property, from `Validated` and `StuckInv`.
* `GoodDataAccepted` (`GoodDataIsAccepted`): `GoodInv` says where a good attempt's store is: one
  period behind the list of updates until both have reached the finality update's period
  (`GoodStore`). So each update of the list verifies and is applied, and the finality update after
  it. The proof asks that finality lags by less than a whole period (`Recent`): with a longer lag
  the finality update is signed by the committee of two periods after the finalized block, which
  the store cannot know yet. `Recent` is therefore part of what `attempt.good` means, and
  the instance has a stall of that length.
* `WindowSound` (`WindowIsSound`): the leaves are those of the users of the blocks whose events were
  read, with their balances at the last block, in one order, whatever order a provider answers in:
  sorting gives one list (`SortedAnswer`: the slot with `i - 1` smaller users is unique, from
  `RankUnique`, and exists, from `RankTaken`), and `Verifies` fixes every value. The other direction,
  that no user of the window is missing, is not a theorem: it fails when the provider lacked blocks.
* `RootIsOpened`: `merkle_root` pads the leaves to a tree of `depth(n)`. That
  `padded_size` is the power of two it should be is not an assumption: `DoublesExists` and the lemmas around it
  build the recursive function and show that it grows past every `n`, so that the depth exists and the
  leaves fit (`DepthHolds`). As the padding is no leaf, a root stands for one list of leaves
  (`RootBinds`). Hence whoever opens the root of an accepted window finds the balance of each
  user of the blocks that were read, and of nobody else (`Attests`).
* `MovesAreAttested`, an action property: when the head moves, the root that was proved holds true
  balances of users of the blocks from the old head's to the new head's, and of all of them when the
  provider had all blocks. Both ends belong to a window, so the block two windows meet at is in both.

### ProofPipeline_proofs

Assumes `EventLoopAssumption` and `SaverAssumption`; any number of slots, blocks and jobs.

* `ResultsFindJobs` (`ResultsHaveJobs`): `JobInv` ties the three places a job is in: ids count
  the tasks, the table holds every job whose result was not taken, and the channel holds
  at most one result of each, from a task that is done.
* `Decoding` (`DecodedAsExpected`): `RoundTrip` (`from_bytes` undoes `to_bytes`, word by word)
  with `JobInv`.
* `Answers` (`AnswersAreProved`): the bridge's conversions are chained, so that two with the
  same input block are the same, and the bundle fetched by its input block is the
  notice's own.
* `NoJobIsLost`: the part of `JobsEnd` that needs no fairness. `JobsAreHeld` says that the loop was not ended by
  an unwrap, that the table holds started jobs only, and that one whose task is done has its result
  in the channel, whether the task proved or failed. It is inductive relative to `JobInv`.
* `Completion` (`ExitZeroMeansSaved`): every conversion received is being fetched, being
  saved, or saved while the saver runs without an error.

### SumNode_proofs

Assumes `SumNodeAssumption`; any number of chains, tasks and restarts. `IInv` is `TypeOK`,
`EventsSeenOnce` and four parts:

* `Flow`: which of the loop's locals are in use in each phase, and that the task in work is
  tracked;
* `Behind`: no query was made beyond the finalized block;
* `Known`: a task that the node read, tracks, sent a transaction for, or that a contract
  has an answer to, is final. A mined transaction may be one of a node that is gone.
* `Cached`: a cached status that ends the interest in a chain is still true there, because
  a contract that does not wait for an answer never waits again (`ChainsMoveOn`).

`EventsOnce` (`EventsSeenOnce`) needs `Behind` and `Known`: a task that is created now has not
been read yet. It is about reading: each event is processed, pending, or lost to an error, and only
one of them; it does not say that none is lost. `Finality` (`AnswersAreFinal`) is `Known`; `CacheTruth`
(`CachedAnswersAreReal`) and `GivesUp` (`GivesUpSettledOnly`, an action property) are `Cached`.

### Model-checked only

Everything under fairness (`FinalityAccepted`, `QueryEnds`, `ReadyHandlerVerifies`,
`TrackedIsSettled`, `JobsEnd`, `ReceivedIsSaved`): liveness under fairness is out of the
prover's reach. Their safety parts are proved where there is one: that no result and no job is lost
(`NoJobIsLost`), that good data is not rejected (`GoodDataAccepted`), that an attempt's requests are
bounded (`Frugality`).

## What is left

* `FinalityChangeDetector` and `EventLoop` in one state space, once the loop dispatches finality
  events. `EventLoop` has the detector's channels, but not what it computes.
* An advance that the loop sends to the detector (`finality_advance_input_tx` is not used yet).
* The DVN worker's query of GolemDB (`zk-client.ts` asks a placeholder endpoint by packet id, not by block) composed with
  `ProofSaver`.

## What the code leaves open

Some losses are not excluded by the code, and no text of the repository says they are. The
properties except them, and say where:

* Events of blocks that a provider lacked when it was asked are missing from a window, and from
  every later one (`~behind` in `WindowCovered`, `read` in `WindowIsSound`).
* More users in a window than the tree has leaves: no window from that head can be proved any more.
  `GoodDataIsAccepted` counts it as data that may be rejected.
* A handler of the worker that a restart ends, or that goes on with a mock signature, verifies
  nothing and is not tried again (`ReadyHandlerVerifies` does not apply to it).
* `VerifiedIsFinal` holds because the worker alone submits in the model. `submitVerification`
  may be called by anybody and does not bind a packet to a block of the source chain.
* A task of the sum node whose events an error lost is not read before a restart, and one whose
  signature outlives its epoch stays tracked for ever (`outdated` in `TrackedIsSettled`).
* The saver does not fetch proofs it was not told of. Two proofs from one input block, which its
  fetch by input block could confuse, are not in the model: the bridge converts a chain of windows.

## Not modelled

Hashing, BLS signatures, Merkle Patricia tries and sync committee signatures are
libraries: a hash is a value, a verified thing is a flag. RPC encodings, logging and
configuration are left out, and with them the encodings of events: the worker listens for
`PacketSent(bytes,bytes32,address)` (`event-listener.ts:19`), which `MockEndpoint.sol` does
not emit. The byte layout of `ConsensusProofOutputs` (`types.rs:159-222`) has no caller; its `from_bytes`
checks for 144 bytes and reads up to byte 176. `golem.rs` is not part of
the build (`api/mod.rs:4`). The Symbiotic network contracts are thin wrappers around
a submodule that is not part of the repository; what the code uses of them (the
settlement's capture timestamps and quorum check) is external state of
`SymbioticDvn`. The benchmark client, deployment scripts, generated Go bindings and
vendored BN254 arithmetic have no state of their own that matters here.
