# A TLA+ model of the alkanes-rs indexer and the Engine miner

This directory holds TLA+ specifications of the core of this repository: the
program that follows a Bitcoin node, runs every block through a WASM indexer
and keeps the result in a versioned database that can be rolled back when the
node reorganises; the contract indexer that follows it with a Postgres
database; the virtual machine that runs alkanes contracts; and the Engine
miner, from puzzle rounds to the tokens the claim contracts mint. `PROJECT.json` ties every definition to the source lines it
models and lists the runs, mutants, findings, hazards and theorems.

Contents: 1 inventory, 2 modules, 3 correspondence with the code, 4 runs,
5 bounds and fairness, 6 what the violations show, 7 proofs, 8 what is only
model-checked or not modelled, 9 plan.

## 1. The system

### Components

| component | state | operations | how it interacts |
|---|---|---|---|
| **rockshrew-mono** (`crates/rockshrew-mono/src/lib.rs`, `adapters.rs`) | two channels of capacity 1, `processing_heights`, the engine behind an `RwLock` | `run()` starts a fetcher task, a processor thread and an indexer task; the JSON-RPC server reads the same database | channels between the tasks; a shared mutex set; RPC to the node |
| **metashrew-sync** (`snapshot_sync.rs`, `sync.rs`, `types.rs`, `traits.rs`) | `current_height`, storage and runtime handles | `init`, `get_next_block_data`, `process_block`, `validate_block_connects`, `handle_reorg`; a second engine `MetashrewSync` with its own pipeline; snapshot modes | called by all tasks of rockshrew-mono; awaits between reads and writes |
| **metashrew-runtime** (`runtime.rs`, `smt.rs`, `rollback.rs`) | the WASM instance and `had_failure`; in the database: lists of `height:value` entries, lengths, manifests | host functions `__flush`, `__get`; `process_block(_atomic)`; `get_at_height`; two rollbacks | called by the engine; views read concurrently |
| **rockshrew-runtime** (`storage_adapter.rs`) | indexed height, height-to-hash keys, state roots | `StorageAdapter` over RocksDB, `rollback_to_height` | called by the engine and by `handle_reorg` under the storage lock |
| memshrew-runtime, memshrew-p2p, rockshrew-diff, rockshrew-debug | in-memory store; peers; two databases; one database | test double, networking, comparison, manual rollback | companions of the same engine |
| metashrew-core, -support, -macros, -minimal | the indexer-side cache of a block's writes | `get`, `set`, `flush` inside WASM | call the host functions |
| **alkanes** (`crates/alkanes/src`: `message.rs`, `vm/`, `network.rs`, `unwrap.rs`, `block.rs`, `indexer.rs`, `view.rs`) | alkane storage, sequence numbers, fuel tank, call stack, balances | message dispatch, extcall / delegatecall / staticcall, deployment, fuel accounting, frBTC unwraps | runs inside `_start` per block; every write goes through the metashrew cache |
| **protorune** (`crates/protorune/src`, with `ordinals`, `protorune-support`) | balance sheets per outpoint, runtime balances | runestones, protostones, edicts, protoburns, message contexts | called by alkanes' `index_block` |
| **engine-token, engine-claim-manager** (`alkanes/engine-*`) | settled claim hashes, supply, cap; auth units in wallets | `initialize`, `settle_claim`, `mint`, `burn` | run in the VM, which undoes a failing call; `settle_claim` needs an auth unit and calls `mint`; driven by the miner server's settlement transactions |
| std contracts (`alkanes/alkanes-std-*`), alkanes-runtime, alkanes-support | contract storage | opcodes of tokens, factories, frBTC | run in the VM |
| **alkanes-contract-indexer** (`coordinator.rs`, `poller.rs`, `pipeline.rs`, `progress.rs`) | Postgres tables, one position row | two endless loops, each: read position and tip, process every height between | both loops share the database only; they read metashrew, bitcoind and esplora |
| alkanes-data-api, alkanes-jsonrpc, alkanes-rpc-core, alkanes-trace-transform | none, or caches | request handlers and conversions | read-only clients |
| **Engine miner server** (`Engine miner/engine-miner-server/src`) | in memory: the active round with its attempts and queue, rewards and reservations, receipts, submissions | HTTP: registration, `startMining`, `submitSolution`, `submitClaimPayment`, `requestClaimReceipt`, `submitClaim`, status | one thread; awaits balances and transactions from Bitcoin providers, and alkanes-cli for the settlement |
| Engine miner MCP | `state.json` and a cached copy of it | tools that call the server and record what it answers | HTTP to the server |
| Engine miner wallet; alkanes-cli*, ts-sdk, web and FFI bindings | none of the index | clients | |
| patch/, vendor/, prod_wasms, docker, scripts | | third-party and build material | |

### What is hard about it

* **Three tasks share one engine.** The engine's lock is taken for single
  calls only. `get_next_block_data` awaits several RPCs between reading
  `current_height` and writing it; `process_block` validates a block, runs it
  for seconds, and then stores its hash; `handle_reorg` is called from *two*
  tasks and its result is applied by one of them and dropped by the other.
* **The node changes between any two RPCs.** The tip, a hash and a block come
  from separate calls.
* **Rollback is not atomic.** A block's writes are one batch, its metadata are
  single puts, and a rollback is a long sequence of puts and deletes while
  views read and while a crash may fall anywhere.
* **Rollback leaves things behind.** The height-to-hash keys of rolled back
  heights stay (the rollback deletes a key nothing writes), and they are what
  the next scan and the next validation compare with.
* **Failures turn into successes.** A failed host function sets `had_failure`
  and so suppresses the error of an incomplete run.
* **Handlers overlap in their awaits.** The miner service checks a candidate's
  status or a reward before it asks a provider, and acts on the answer without
  looking again; a request may hold on to a round that is long replaced.
* **Nothing runs on a timer** in the miner service: windows and rounds that
  have run out are noticed by whichever request comes next.
* **A claim is recorded after it is broadcast**, and only in memory; the hash it
  is settled under is the client's.
* **Fuel is refunded late**: what a transaction leaves goes back to the block
  only when a later transaction runs a message, and not every transaction does.
* **Calls are undone in pieces.** A call makes three checkpoints in three
  functions, and they are committed or rolled back in three other places; a
  call that failed leaves its caller running, to be undone at its end.
* **Two loops write the same blocks** to Postgres in several transactions, some
  of which add to what is there and some of which replace it. Some failures end
  the pass, others are logged and the block is recorded without what failed.
* **Two rollback algorithms** run over the same lists, the fast one only when
  every rolled back height has a manifest, and a block without writes has none.

### What makes each component correct

* Pipeline: one block at a time; no fetched block is lost or indexed twice; it
  reaches the tip and, after a reorg, the node's chain.
* Engine: the stored hashes form one chain; a hash is only stored on top of
  the hash it extends; at rest, what is stored is exactly the node's blocks.
* Store: lists are ordered by height and dense; every entry can be found by a
  later rollback; a read of a height is the latest write up to that height,
  before, during and after the writing of later blocks, and after rollbacks.
* Miner service: first come, first served; one provisional winner; one win and
  one reward per round, which enters one receipt; no correct answer is left
  waiting.
* Claims: a claim hash, and a receipt, is paid at most once and under the cap,
  whatever the server repeats or forgets; an auth unit is spent on a settlement
  and never leaves the operator and the claim manager.
* Contract indexer: everything up to the position is written; the tip is
  reached; derived tables agree with those they are derived from.
  (The code keeps parts of the last three promises only: section 6.)
* Fuel: a block's fuel is never created, never divided among no bytes, and
  nobody can spend the share of a transaction that comes later.
* Alkanes VM: a message and each of its calls have all of their effects or
  none; tokens are made by their own contract only, storage is written by its
  owner only, and a deployment that is undone leaves its number untouched.
* Later modules: conservation of balances through edicts and protoburns
  (protorune).

## 2. Modules

| module | what it is |
|---|---|
| `NodeChain` | the Bitcoin node as its adapter shows it: a tree of blocks and one active chain that is only ever replaced by a longer one |
| `MonoSync` (extends `NodeChain`) | the pipeline of rockshrew-mono with `SnapshotMetashrewSync` and `handle_reorg`: three tasks, two channels, RPC by RPC and lock by lock |
| `AppendStore` (extends `NodeChain`) | the database entry by entry under one sequential engine: batch, metadata, both rollbacks, reads, crashes between any two writes |
| `VersionedKV` | the promise to the readers: a ledger of blocks and, for every key and height, the latest write; a block is applied at once, a reorg withdraws and restores the table |
| `MCMonoSync`, `MCAppendStore` | block trees and indexer programs for TLC |
| `MonoSyncProofs` | type correctness and `CommitConnects` for every tree, configuration and number of faults; what holds while the node does not reorganise; linked hashes through one reorg |
| `AppendStoreProofs` | the store's lists and manifests, for every indexer program: on one branch with every crash and repeated flush, and through any rollbacks |
| `AppendStoreReadProofs` (extends `AppendStoreProofs`) | the binary search, what reads return through any rollbacks, and the refinement of `VersionedKV` |
| `MinerRounds` | `EngineMinerService`: rounds, queue, reservations, payments and receipts, with any number of requests that overlap at the provider calls; the refinement of `RewardLedger` |
| `RewardLedger` | what the service promises: a round is won once, a win is credited once and enters one receipt |
| `ClaimSettlement` | `submitClaim`, alkanes-cli and the two Engine contracts: overlapping and repeated submissions under any hash, lost transactions, restarts, burns |
| `ContractIndexer` | the poller and the coordinator of the contract indexer over one database, with several tokens per block and errors that are only logged |
| `FuelTank` | the fuel of a block: `vm/fuel.rs` and the steps of `handle_message` that draw on it, over the transactions of a block |
| `CheckpointStack` | metashrew-core's layers of uncommitted writes over the block's state |
| `AlkanesMessage` (extends `CheckpointStack`) | transactions, messages to contracts and the calls inside them: deployments, transfers, storage, failures and what they roll back |
| `NestedCalls` | what the VM promises: one state that all see, and levels that are kept or undone as a whole |
| `MCAlkanesMessage`, `MCFuelTank`, `MCMinerRounds`, `MCClaimSettlement`, `MCContractIndexer` | instances for TLC; the properties that fail |
| `MinerRoundsProofs` | the safety properties of the service for any overlapping requests, and for serial ones `PendingIsCurrent` and the refinement of `RewardLedger` |
| `ClaimSettlementProofs`, `ContractIndexerProofs`, `FuelTankProofs` | the safety properties of the three, for all constants |
| `AlkanesMessageProofs` | the depth of the checkpoints, the ownership of storage, the refinement of `NestedCalls`, types, numbers not yet handed out, and the conservation of tokens |

`MonoSync` and `AppendStore` are two views of one system. `MonoSync` has all
the concurrency and abstracts the database to *which blocks' writes are stored
at each height* (`stored`), the hashes and the indexed height. `AppendStore`
has all the entries and runs the engine's operations one after the other.
`AppendStore` implements `VersionedKV` (`ImplementsPromise`, a refinement with
`INSTANCE ... WITH`).

`MinerRounds` and `ClaimSettlement` meet at the claim receipt: `IssueReceipt`
of the first is `Issue` of the second, which adds nothing to it but the id.
`MinerRounds` implements `RewardLedger` (`ImplementsLedger`) as long as
requests do not overlap.

`AlkanesMessage` and `FuelTank` are two views of `handle_message`: the tank
decides how much fuel a message gets, and for the calls fuel is a reason to
fail at any point. That a message has all of its effects or none
(`ImplementsNested`) is what lets `ClaimSettlement` take `settle_claim`, the
token's `mint` and the move of the auth unit as one step.

## 3. Correspondence with the code

**MonoSync.** `indexed`, `hashAt` and `stored` are the database;
`current`, `processing`, `blockCh`, `resultCh` are the fields and channels of
the same names in the code (`current_height`, `processing_heights`, the two
`mpsc::channel(1)`); `fetcher`, `processor`, `scan` are the program counters
and live locals of the tasks, `scan[t]` the `handle_reorg` call of the fetcher
or of the indexer. A block is a model value that also stands for its hash.

* Fetcher: `FetchPeek`, `FetchGate` (the loop and its guard), `FetchLoad`,
  `FetchTip` (tip RPC, `reorg_check_threshold`), `FetchReorged` (the result of
  `handle_reorg` becomes `current_height`), `FetchHash`, `FetchData` (two
  lookups of the height), `FetchSend`, `FetchError`.
* Processor: `ProcessRecv`, `ProcessValidate`, `ProcessRun` (the atomic batch
  of `__flush`), `ProcessRunSilent`, `ProcessRunError`, `ProcessMeta`,
  `ProcessBump`, `ProcessReply`.
* Indexer: `IndexResult`, `IndexReorged`.
* `handle_reorg`: `ScanLocal`, `ScanRemote`, `ScanRemoteError`, `ScanRollback`.
  The rollback is one step here, but for the crash in its middle
  (`CrashInRollback`); AppendStore takes it apart. The storage write lock it holds
  keeps out the other task's rollback and the metadata puts. It does not keep out
  `__flush`, which writes through the runtime's own database handle: a batch that
  lands in the middle of a rollback is not modelled, and no property checked here
  depends on its not happening.
* Restart: `Crash`, `CrashInMeta`, `CrashInRollback`, each followed by `init`.

The granularity: one step per RPC, per lock section and per channel operation.
`ProcessMeta` is one step because its three puts are made under one write lock
that `handle_reorg` also needs; the crash between them is `CrashInMeta`.

**AppendStore.** `length`, `entry`, `manifest`, `indexed`, `hashAt` are the
keys of the database; `job` is what the engine is in the middle of. `Accept`,
`Flush`, `PutHeight`, `PutHash` are `process_block`; `FlushAgain` is the
fallback after `process_block_atomic` failed behind its flush; `BeginRollback`
picks `rollback_with_manifests` (`FastNextKey`, `FastTrim`, `FastPutLength`,
`FastNextHeight`) or `rollback_smt_data` (`FullNextKey`, `FullErase`,
`FullRewrite`, `FullDone`); `LowerHeight` ends both. `GetAtHeight` is the
binary search with its "Missing update" error. The value a block writes is the
block itself, and `writes` (which block changes which key) is chosen once, as
the indexer is deterministic. `reorg_check_threshold` and `max_reorg_depth`
are larger than any chain here; `MonoSync` varies them.

**MinerRounds.** `rounds`, `opened`, `active`, `rewards`, `receipts`, `wins`
are the fields and maps of the service (`roundCounter`, `activeRound`,
`rewards` with `rewardReservations`, `claimReceipts`, `totalWins`); a round
stays in `rounds` when it is no longer active because a request may hold a
reference to it. `calls[c]` is a request with what its continuation needs.
A step is the code between two points where another event may run. An `await`
of the service's own async method resolves in the microtask queue, before the
next request or answer, so only the provider calls (`"lookup"`, `"validate"`)
are such points; `EventTurn` says so. `Reconcile` is
`reconcileActiveRoundState` up to its first provider call, `Underfunded` and
`Promote` are what follows each balance. Handlers are split where their first
`reconcile` returns: `AskRound`/`GiveRound`, `SubmitSolution`/
`RefuseSolution`, `SolutionTooLate`, `TakeSolution`; `SubmitPayment`/
`PaymentSettled`, `PaymentTooLate`, `LookUpPayment`, then `AcceptPayment`,
`RejectPayment`, `PaymentError`; `RequestReceipt`/`IssueReceipt`.
`WindowLapses` and `RoundEnds` are the clock. A receipt request carries a list of
ids, which may repeat one: `claims[k]` is how often it names reward `k` (at most
`MaxNamed` times, a bound), and `receipts[k]` how often receipts do. A reservation
and its reward have one number. The balance lookup does not fail: the provider router always ends
with the local provider.

**ClaimSettlement.** `receipt`, `recorded` are the service's `claimReceipts`
and `claimSubmissions`, `calls` the requests between their check and the
provider's answer. A claim is a receipt; the hash it is settled under is a
parameter of `Submit`, because the provider takes it from the client's prepared
claim (`claim-submission-provider.ts:45`) and `assertSignedClaimIsValid` does not
compare it with the receipt. `waiting` counts the broadcast transactions of a
claim under a hash; `settled` holds hashes, as the contract does; `supply` is the
token's. `minted`, `burned` and `refused` are history. The auth units are in the
operator's wallet (`held`), with the claim manager (`kept`) or where a refund put
them (`strayed`). A transaction takes along all units of the outputs it spends,
one or more (`Confirms`), since `execute.rs:1525` splits nothing off.
`SettleClaim` is `only_owner`, `settle_claim` and the token's `mint` in one, as the
VM makes them one; its response holds the new tokens only, so all the units stay
with the claim manager. `SettleReverts` is the rollback of protostone messages,
which sends the units to the refund pointer: `v0` by default, the payout output
(`config.ts:241`).

**ContractIndexer.** `position` and `processed` are written by one transaction
(`Commit`), `events` and `utxos` by one each that replaces or upserts, `balances`
by addition, the holders of each token by three statements without a transaction,
`trades` by plain inserts. A block is a set of parts: the tokens it changes and its
trades. `balances[t][h]` says how often block `h` was added to the balances of
token `t`, which stands for all its addresses at once; `holders[t]` is the sum the
rows of `AlkaneHolder` were selected from, `holderCount[t]` the one they were
counted from. A pass of a loop is `ReadPosition`, `ReadTip`, and per height
`FetchBlock` ... `Commit`; the tokens of a block are refreshed one after the other
in any order (`todo`), and an insert that meets the rows of the other loop
(`InsertConflict`) ends the pass with the rest not refreshed.

Errors come in two kinds. `StepFails` is one that ends the pass, between any two
transactions: among them every trace call that fails but the one below. Others are
logged and the block goes on without what failed: a transaction that is not
decoded, a trace with the known upstream error, an extraction of balances or
trades, a list of txids that is not an array (`FetchBlock`, `FetchNothing`,
`WriteEvents`, through `Swallow`). `dropped` remembers what they left out, `left`
the tokens whose refresh was broken off; both are history.

**FuelTank.** The six fields of the tank, the transaction being indexed and
who pays for the message that runs. `SizeFrom[i]` is the sum of `vfsize` over
the transactions from `i` on, so that a transaction's size is a difference and
the sum a constant. `EnterMessage` is `handle_message` up to the call:
`is_top`, or `should_advance` with `refuel_block`, then `fuel_transaction`.
`MessageReturns` is `consume_fuel`, `GaslessReturns` its omission, and
`MessageFails` every error behind the call, each of which drains the tank.
What the contract does with its fuel is the choice of `Costs`.

**AlkanesMessage.** `layers` is the stack of `IndexCheckpoint`s, `cells` what
lies under it, `View` what a contract reads; `frames` are the wasm instances on
the stack, with `had_failure` as `failed`. `inputs`, `sheet`, `outside` and
`spent` are the balance sheets of outpoints, as far as messages move them.

A contract is any program. What it has in memory when it makes a call is
written by `CallContract`, the storage it returns by `CallReturns` or
`MessageReturns`, and its choices are their parameters. A call is three
checkpoints: that of `with_context_safety`, that of `extcall` and that of
`execute`. `CallContract` is `extcall` up to `execute`; `CallReturns` is the
commit of `execute`, `Saved` (`Saveable::save`), `HandleAtomic` and
`restore_context`; `CallReverts` is the rollback of `execute` (or its commit,
when `save` or the metering behind it fails) and that of
`_handle_extcall_abort`; `CallRefused` is every error before `execute` has
begun. After either, `had_failure` of the caller is set and nothing else
happens: the caller goes on, may call again and is undone at its end. A message
is two checkpoints, of `process_message` and of `execute`; the transaction's
own is the one `AtomicPointer::default` comes with.

A deployment (`Create`) takes the next sequence number; `Exists` is
`is_created` and `is_create`, for any other target `run_special_cellpacks`
yields no binary, which is refused when it is instantiated. The number is kept
below `MaxId + 1` as a bound. Balances are kept modulo `Width` as u128 is.

## 4. Runs

| run | checks | shows |
|---|---|---|
| `mono_line` | `StrictlySerial`, `StoreMatchesNode`, `CatchesUp` | no reorgs, two RPC errors, runtime errors or crashes anywhere: the pipeline is serial, the store is exact, the tip is reached |
| `mono_reorg` | `ChainLinked`, `FollowsReorgIfSerial` | one reorg, of one block or of the two a scan looks back, and one failed run or flush: hashes stay linked, and the index ends on the node's chain unless the tasks overlap for ever |
| `mono_faults` | `TypeOK`, `CommitConnects` | two reorgs and one fault of any kind |
| `store_line` | `ReadsMatchNode` | no reorgs, every indexer program over two keys, two crashes between any two writes or repeated flushes: reads are exact |
| `store_reorg` | `TypeOK`, `EntriesOrdered`, `ListsDense`, `ManifestsComplete`, `FlushInvisible`, `ImplementsPromise` | two reorgs through both rollbacks, one repeated flush or one crash before the flush |
| `miner_serial` | `PendingIsCurrent`, `ImplementsLedger`, `QueueDecided` | one request at a time, two rounds, receipts that may name a reward twice: the provisional winner can always pay, the rewards are those of the ledger, nobody waits for ever |
| `miner_races` | `TypeOK`, `OnlyNewestRound`, `OneAttempt`, `RewardsEarned`, `FirstComeFirstServed` | three miners, two overlapping requests, two rounds: two answers wait in one queue, or a request holds on to the first round while the second is open |
| `claim_settle` | `PaidOnce`, `SupplyCapped`, `AuthBacked`, `SubmittedIsSettled` | two receipts under either of two hashes, through overlaps, retries, a lost transaction, a restart and a burn |
| `indexer` | `TypeOK`, `NoGap`, `HoldersMatch`, `ReachesTip` | both loops, three blocks, two tokens, one fault or logged error and one lost race |
| `fuel` | `TypeOK`, `SizeCovers`, `FairShare`, `NoFuelCreated` | four transactions, one without a message, shares that do not divide evenly and one below the minimum |
| `message` | `TypeOK`, `DepthMatches`, `Conserved`, `UnbornClean`, `SlotOwned`, `ImplementsNested` | two contracts and a deployment, calls of every kind three levels deep, transfers, minting and failures at any point |
| `mono_stuck` | `FollowsReorg` violated | see section 6 |

`StoreMatchesNode` is about rest (no block queued or half done, none of the
stored hashes differing from the node's): in between, orphaned data is
expected. `FollowsReorgIfSerial` has the premise `<>[]StrictlySerial` because
the overlap described in section 6 can otherwise feed itself; both properties
of `mono_reorg` stop at one reorg (section 6). `ReadsMatchNode` is
the end-to-end reading of the store, `ImplementsPromise` the step-by-step one.
`PendingIsCurrent` and `ImplementsLedger` hold for serial requests only;
`OneAttempt`, `RewardsEarned`, `FirstComeFirstServed` and `OnlyNewestRound` are
what is left of them, and holds, when requests overlap. `FirstComeFirstServed` is
about the order of the queue, which is not the order of receipt, and the ledger
allows a receipt to name its round more than once (section 6). `PaidOnce` is about
a hash, `AuthBacked` about where the units are. `NoGap` allows for what was logged,
and `HoldersMatch` for a token whose refresh is still to come or was broken off by
a fault or by the race for another token; the token the race was lost for is not
excused, the winner's list is complete. `SubmittedIsSettled` names its excuses: a
lost transaction, the cap, no auth unit left. The last is met more often than it
should be, because a call that is rolled back costs a unit too.

Each property of a passing run has a mutant: an operator next to the
definition it changes (`FetchGate_Unguarded`, `Connects_HashOnly`,
`Kept_All`, ...), a plausible slip in that code that the property detects.

## 5. Bounds and fairness

* **Block trees.** `Line`: one branch of four blocks. `Fork`: two branches
  that part at height 2, the second one longer. `Once`: a fork that the node
  takes when it is one or two blocks old, and that then grows. `Flip`: after a
  fork the first branch becomes longer again, so that a hash left behind by the
  first rollback is a *correct* hash later. `Far`: the node is seen again only
  when it is two blocks ahead. `Deep`: three branches, the second reorg deeper
  than the first.
  Two indexed heights below and above the fork are enough for every branch of
  `handle_reorg`: found at once, found lower, not found within the depth, no
  stored hash. The node's chain only grows in length because bitcoind follows
  the most work; equal difficulty makes that length.
* **Start height** 1. With `start_block` 0, `init` cannot tell an empty
  database from an indexed genesis; a run of its own is planned.
* **Faults.** `FaultKinds` chooses among RPC errors that outlast their
  retries, runtime errors, silent flush failures and crashes; `MaxFaults` is
  1 or 2. `CrashAt` in `AppendStore` names the points of the engine.
* **Entries.** Two keys, up to six entries each: a list that only the rolled
  back block changes, one that all change, one that none changes, and blocks
  without writes (no manifest). `MaxScanKeys` stays above the number of lists.
* **Fairness** (`LiveSpec`): weak fairness of the fetcher, of the processor, of
  the indexer and of each `handle_reorg` call. They are tokio tasks and a
  thread that are always ready when their action is enabled: they are never
  starved for ever by each other, and none of them waits on an event outside
  the model. The node owes nothing (it may stop growing) and faults owe
  nothing (they may never happen and there are at most `MaxFaults`). No strong
  fairness is assumed of them.
* **Miner.** Two rounds, two reservations, one or two requests at a time. Two
  requests are enough for every overlap of a provider call with one other handler,
  and with two rounds a request can wait with the first for a balance or a payment
  while the second is open. `miner_races` has three miners, because only then can
  two answers wait behind a reservation. A constraint on states keeps it small:
  three answers, right or wrong, in the first round, and two in all once the second
  is open. It names each reward at most once in a request; `miner_serial`, with two
  miners and all their answers, has `MaxNamed = 2`. The proofs cover
  longer queues. `MaxRounds` and `MaxClaims` end the history: no round is opened
  and nobody is promoted beyond them, so `QueueDecided` is about the first rounds.
  Fairness: `WF` of every request in progress (the event loop runs it, providers
  answer or time out), `WF` of the clock, and `SF` of *some* status request: agents
  poll `getMinerStatus` for as long as they mine (the connector is told to,
  `pollAfterMs`), and the server gets to a poll between other requests. Without
  the polling nobody is ever promoted after the first, which is the hazard.
* **Claims.** Units 1 and 2, a cap that has room for one of them until a token
  is burned, two hashes, two auth units, three broadcasts: one receipt under both
  hashes, both receipts under one, one of them twice. Fairness: `WF` of
  `Settles(c, h)` per claim and hash, blocks are mined. Nothing is assumed of the
  server.
* **Contract indexer.** Three heights, the second without balance changes, so
  that a loop can be one and two heights ahead of the other. Two tokens, of which
  the first block changes both and the third one: enough for a refresh that is
  broken off between them. `MaxFaults = 1` for failed steps, logged errors and
  restarts together. `MaxLost` bounds the inserts that lose the race; without it
  `ReachesTip` fails (section 6), so it is a premise of that property, and only a
  bound for the others. `StartHeight` is at least 1 (without a configured one the
  code starts at 0, which position 0 could not be told from). Fairness: `WF` of a
  pass per loop, both are polled by one `select!` for ever.
* **Fuel.** 23 units for 10 bytes: every share is rounded, the share of the
  smallest transaction is below the minimum (5), and two costs add up to
  exactly one share. u64 cannot overflow in the product of the code: total
  fuel is at most 10^9 and a block has at most 4 * 10^6 bytes.
* **Messages.** `Starts = 4`: a transaction, its message and two calls, one
  inside the other or one after the other, or two transactions of one message,
  or three messages of one transaction. Two calls are enough for a committed
  call inside one that is undone, a call back into a contract on the stack, and
  a deployment inside a static call. One of the contracts has no code before
  the first deployment; one token belongs to a contract that runs, one to a
  contract that never does, and there is one unit of each; `Width = 2`, so that
  a second unit would overflow. `MaxDepth` (75 in the code) is beyond what four
  starts reach: a call refused for its depth is a `CallRefused` like any other,
  which the run has everywhere.
* **Deadlock.** Checked for `MonoSync`, `MinerRounds` and `ContractIndexer`,
  whose loops and agents poll for ever. Not for `AppendStore`, whose engine has
  nothing to do at the tip of a node that has stopped growing, nor for
  `ClaimSettlement`, where everything may be settled, lost or forgotten, nor for
  `FuelTank` and `AlkanesMessage`, whose block or bound on starts ends.

## 6. What the violations show

* The run `mono_stuck`: the indexer drops the height `handle_reorg` returns. When the
  node is further ahead than `reorg_check_threshold`, the fetcher never scans
  and the same block is rejected for ever.

The following also fail; each is a variation of a configuration here, and not
a run of its own. They bound what the passing runs can claim:

* `StrictlySerial` on the tree `Fork`, threshold 6, no fault (`mono_line` with
  `ForkBlocks`, `ForkParent`, `ForkChains`, `MaxHeight = 3`): the guard "block
  N+1 cannot be fetched until block N is fully processed" (`lib.rs:332`) relies
  on `processing_heights`, from which a late result removes a height that was
  rolled back and fetched a second time (`lib.rs:462`).
* `StoreMatchesNode` on `Once` (`MaxReorgDepth = 2`, no fault): one reorg is
  enough. A block in flight no longer connects, so that both tasks scan; the
  fetcher rolls back first and block 2 is indexed again; then the indexer's
  rollback removes it (`lib.rs:511`), and block 3, already on its way, still
  connects to the hash that a rollback leaves. The writes of block 2 are gone
  for good while every hash is the node's (`AUTOMATIC_REORG_E2E_TEST.md:56`).
* `FollowsReorgIfSerial` on `Once` with `FaultKinds = {"rpc"}`, one fault: the
  same late rollback, with nothing on its way, leaves the indexed height below
  `current_height` for ever. The failed `getblockhash` is what makes the
  fetcher forget the reorg the first time (`sync.rs:922`).
* `FollowsReorgIfSerial` without a fault, after three switches between two
  branches that part at height 2: the scan stops at the first hash that agrees
  (`sync.rs:926`). After a return to the first branch that is a hash stored
  before; below it, a hash of the other branch stays for ever.
* `ChainLinked` after more than one reorg. On `Deep` (`MaxReorgDepth = 100`,
  `MaxHeight = 6`): the rollback of the indexer's `handle_reorg` comes after the
  fetcher's has gone deeper, and *raises* the indexed height over a stale hash
  (`storage_adapter.rs:135` sets it unconditionally). With two branches that
  share only genesis and three switches: a stale block still in the channel is
  stored after the fetcher's scan, and the next return to its branch finds it in
  agreement. The same happens while `StrictlySerial` holds.
* `ChainLinked` after one reorg that is deeper than `MaxReorgDepth`, with one RPC
  or runtime fault: the scan gives up above the fork (`sync.rs:907`) and rolls
  back to a hash that is not the node's.
* `StoreMatchesNode` on `Line` with `FaultKinds = {"flush"}`: a `__flush` that
  fails makes the run count as complete (`runtime.rs:1094`).
* `ReadsStable` of `AppendStore` on `Flip` without faults: a view of a height
  *below* the rollback target meets "Missing update" between the deletes and
  the put of the length (`rollback.rs:264`).
* `EntriesOrdered` on `Flip` with `CrashAt = {"height"}`, one fault: entries
  above the indexed height, left by a crash, are not found by a rollback that
  starts from the indexed height (`rollback.rs:242`).
* `OneProvisionalWinner` of `MCMinerRounds` with two miners, one round and two
  requests: both look up the balance of the same candidate and both reserve
  (`engine-miner-service.ts:793`; `ENGINE-MINER-V1-PROTOCOL-SPEC.md:72` has
  them select winners "atomically"). The first reservation stays pending with
  nobody able to pay it.
* `NoOvertaking` of `MCMinerRounds` with three miners, one round and two
  requests: `submitSolution` awaits `ensureActiveRound` (`engine-miner-service.ts:298`),
  which may ask a provider for a balance, before it stamps `serverReceivedAt`
  (`:355`) and queues the answer. One that arrives meanwhile is stamped and queued
  first. `ENGINE-MINER-V1-PROTOCOL-SPEC.md` has the order determined "by backend
  receive time" (lines 28, 73) and the submission timestamped "on receipt" (463).
* `WinCountedOnce` of `MCMinerRounds`, in `miner_serial`: `claimIds` is any list
  that is not empty (`contracts.ts:67`), and `requestClaimReceipt` checks it,
  adds up its rewards and lists its rounds before it changes a status
  (`engine-miner-service.ts:439`). An id given twice is counted twice in the receipt.
* `ReceiptPaidOnce` of `MCClaimSettlement`, in `claim_settle`: one receipt is
  submitted by two overlapping requests with two hashes, and both are settled.
  `ENGINE-MINER-FINAL-SETTLEMENT-STEP.md:75` has the claim manager verify "the
  signed receipt and replay state"; it sees a hash and an amount.
* `AuthorityStaysHome` of `MCClaimSettlement`: a settlement that reverts, for the
  cap or because its hash was settled, refunds its auth units to `v0`, by default
  the payout output (`config.ts:241`). The same document wants to consume a unit
  "so authority never flows to the miner payout output" (line 30).
* `OneUnitEach` of `MCClaimSettlement`: the document has a settlement supply
  "exactly one ClaimManager self-auth token unit" (line 71); alkanes-cli supplies
  all units of the outputs it spends, and the contract keeps them.
* `CountedOnce` of `MCContractIndexer`, in `indexer` without faults: the poller
  and the coordinator find the same height missing (`main.rs:103`), its balance
  changes are added twice and its trades inserted twice. Upserts hide the
  repetition in every other table. The crate's README (line 242) has the poller
  continue "after catch-up". With `MaxFaults = 1` one loop is enough: a block
  that fails after its balances were added (`AddBalances`, `StepFails`) is
  processed and added again.
* `NoGapAtAll` of `MCContractIndexer`, in `indexer`: an error that is only logged
  (`protostone.rs:491`, `:513`, `pipeline.rs:205`, `:272`, `block.rs:28`) leaves a
  gap that nothing returns to, although the last transaction is there to "ensure we
  never have a gap between indexed data and position tracking".
* `HoldersFollow` of `MCContractIndexer`, in `indexer` with `MaxFaults = 0`: the
  loop that loses the race for one token leaves the refresh
  (`balance_tracker.rs:396`) with the others as they were, and no loop refreshes
  them until a later block changes them or the height is processed again.
* `ReachesTip` with `MaxLost` large: two loops that refresh two tokens in
  different orders (a hash map's) can fail each other's inserts, and each retry adds
  the block's balances once more. Height 1 is then never recorded; five lost races
  without a commit were reached within the bound.

Differences between text and code met on the way, which no property is about:
the contract indexer's README derives the tip as `metashrew_height - 1` (lines
6, 228, 307) and promises reorg awareness (line 6), while
`canonical_tip_height` subtracts nothing and block hashes are stored but never
compared; a height the coordinator processes first is never published. The
comment at `message.rs:117` leaves the block's metering of a gasless message to
`consume_fuel`, the very call it skips: such a message is metered nowhere.
An unknown precompiled address fails in `extcall` before its checkpoint
(`host_functions.rs:698`), and `_handle_extcall_abort` still rolls one back,
against the assertion that the depth is the same at the end
(`host_functions.rs:860`).

## 7. Proofs

**MonoSync.** TLAPS checks the following for every block tree, start height, threshold,
reorg depth, kind and number of faults that satisfy `ChainAssumption` and
`ConfigAssumption` (headers link chains, a block has one height, chains have
more than `StartBlock` blocks and at most `MaxHeight + 1`).

* `TypeCorrect == Spec => [](TypeOK /\ HeightsOnChain)`. `TypeOK` alone is not
  inductive: `ProcessBump` adds one to a height, `FetchHash` asks the node for
  one, `handle_reorg` subtracts. `HeightsOnChain` adds that the indexed height
  and every message are at most at the tip, `current_height` at most one
  above, that a fetcher about to ask for a block has a height within the chain
  (it compares with the tip only when `handle_reorg` ran), and that a scan
  that has read a local hash is above height 0. One lemma per task
  (`ScanType`, `FetchType`, `ProcessType`, `IndexType`, `CrashType`,
  `NodeType`), one step per action.
* `CommitsConnect == Spec => CommitConnects`. The strengthening is `Validated`:
  from validation to commit the block still connects to the hash stored below
  it. It holds through rollbacks because only `ProcessMeta` writes hashes
  (`Writers`) and rollbacks leave them: the very property of
  `rollback_to_height` that causes other trouble.
* `SerialWithoutReorgs == OneBranch => (Spec => []StrictlySerial)`, where
  `OneBranch` says that the node's chains are prefixes of each other. The
  invariant has three parts: `TrueHashes` (every stored, fetched or queued
  hash is the node's, so blocks always connect), `NoReorg` (no scan ever finds
  a mismatch, so `handle_reorg` returns the height it was given), and `Turns`
  (whoever is at `current_height` has it in `processing_heights`, answers on
  their way back are of older heights, and a fetcher whose peek at
  `current_height` is stale by one finds nothing in flight).
* `StoredWithoutReorgs == OneBranch /\ "flush" \notin FaultKinds /\ StartBlock > 0
  => (Spec => []StoreMatchesNode)`. On top of the above, `StoredTrue`: what is
  stored is the node's block, nothing is missing up to the indexed height, and
  `current_height` is where `init` would resume, except between the metadata
  and the bump. The two premises are necessary: section 6 has the
  counterexample for the first, and with `StartBlock = 0` an empty database
  already claims height 0.
* `LinkedThroughOneReorg == OneReorg /\ ShallowReorgs /\ "crash" \notin FaultKinds
  /\ StartBlock > 0 => (Spec => []ChainLinked)`: the node leaves its chain once,
  at any moment and to any longer chain, and no chain differs from another in
  more than its last `MaxReorgDepth` blocks. RPC, runtime and flush faults are
  free. Section 6 has a counterexample for each of the first two premises; a
  crash between the puts of the metadata leaves a height without a hash
  (`CrashInMeta`), and with `StartBlock = 0` an empty database claims a height.
  The invariant is `ReorgInv(old)` for *some* chain `old`, the one the node has
  left: the variables do not remember it. `OldOrTrue`: every stored hash and
  every block on its way is at its height of `old` or of the node's chain.
  `FreshOrder`: blocks travel in order, so behind one that `old` does not have
  there is none of `old`. `FreshLinked`: below a stored hash that `old` does not
  have, every hash is the node's. `HashesReach`: no task is more than one height
  above the stored hashes, so `validate_block_connects` is never spared for want
  of a hash. `ScanFinds`: what a scan has detected is a reorg, and where it ends
  is a hash of the node (`ScanBottom` when it ends for its depth, which is
  where `ShallowReorgs` is used). `TrueStays` makes the two scans and the
  processor compatible: a hash that is the node's is never replaced, so what a
  scan has found still holds when its rollback comes, however late. That
  common blocks of two chains have common ancestors (`CommonBelow`) is proved
  by the least counterexample.

The invariants were checked with TLC before they were proved, `ReorgInv` on
trees that fork at heights 1, 2 and 3, with start heights 1 and 2, both
thresholds and every kind of fault but crashes. The runs check the same five
properties on small instances; `Once` satisfies the premises of
`LinkedThroughOneReorg` with `MaxReorgDepth = 2`, the least depth that does.

**AppendStore on one branch**: as long as the node's chains are prefixes of each
other (`OneBranch`), for any indexer program, any number of crashes between any
two writes and any number of repeated flushes, `TypeOnLine`, `OrderedOnLine`,
`DenseOnLine` and `ManifestsOnLine`, from one invariant `LineInv`, and with
`LineStored` added to it `ReadsOnLine`.
`EntriesOrdered` is not inductive: the flush appends an entry of the current
height whatever is in the list, so `TrueEntries` adds that no entry is above
`current_height`. A crash moves `current_height`, so `Resumable` says where it
is relative to the indexed height: a restart goes back to the same height, or
past it when only the hash was missing, never below. A block flushed twice
leaves the manifest as it was because its height has the same block
(`TrueEntries`, `JobLine`): `ManifestsComplete` rests on the node not changing
it in between, and `TrueHashes` gives `NoReorgOnLine`, that no rollback ever
starts. `handle_reorg` looks for the highest height that agrees, a `CHOOSE`;
that it exists is the lemma `Greatest`.

**AppendStore through rollbacks**, for any tree of blocks, any indexer program
and any number of reorgs. The same four properties follow from `ListInv`
(`TypeThroughRollbacks`, `OrderedThroughRollbacks`, `DenseThroughRollbacks`,
`ManifestsThroughRollbacks`), and the reads from `ReadInv`
(`ReadsThroughRollbacks`, and the refinement `StoreImplementsPromise`), which
`FlushesInvisible` does not need.

* The premises are where the code's guarantee ends, and each has its hazard or
  its counterexample here. `CleanRestarts`: no restart falls between a batch and
  its height (a rollback would then start below entries that exist: section 6,
  `EntriesOrdered`), nor inside one list of a rollback; a block is flushed
  twice by at most one such fault; and the full scan may collect every list
  (`rollback.rs:97` stops at a limit). `WholeRestarts`, for the reads, adds that
  no restart finds a height without its hash or between two lists of a
  rollback, and `FirstStays`: no reorg replaces the first indexed block, unless
  that is block 1. Otherwise `handle_reorg` rolls back to height 0 and the
  engine goes on below its start block (`snapshot_sync.rs:97`).
* `ListInv`: the lists are not dense while they are trimmed, nor ordered by
  any rule that mentions only heights, so the invariant follows the engine's
  place. `Placed` says how high an entry may be at each point: at most the
  indexed height, or of the block being written; in a rollback, above the
  target only what this walk has still before it. `TrimInv`, `ValidInv`,
  `EraseInv` and `RewriteInv` describe the one list in work, entry by entry.
  `EntriesPlaced` also keeps every entry in the manifest of its height, which
  is why the fast rollback finds them all. That the recursive `Kept` returns
  the entries up to the target, in order, is `KeptIsFront`.
* `ReadInv` adds `Standing` (the engine stands where a restart would resume,
  and its block extends the stored hash), `Hashed` (every stored hash is of some
  chain, and every readable height has one), `EntriesOwned` (an entry holds the
  block its height belongs to) and `Stored` (every write of a settled height is
  in its list, in the database or in the hand of the rewrite).
* The search: `SearchFinds` proves that the halving loop returns the last entry
  at or below the height, for every list that is dense and ordered. `Cut`
  names the place; `LookupIsLatest` joins it with the ledger's latest write.
* Two recursive functions are unfolded on the way (`search`, `Kept`). The
  library's induction theorems cannot be applied here, so `SearchExists`,
  `SearchFinds` and `KeptIsFront` argue by a least counterexample:
  `WFMin` gives a least element of the set of failing arguments, and the
  equation of the function, which `CHOOSE` gives once some function satisfies
  it, refutes it.

**MinerRounds**, for any sets of miners and requests and any number of rounds
and reservations: `TypeCorrect`, `OnlyNewestRoundEver`, `OneAttemptEver`,
`RewardsEarnedEver` and `FirstServedEver`, all from one inductive invariant
`Inv`. A request computes new tables and hands them to `Reconcile`, so the
invariant is stated over tables (`Fits`, `CallsFit`) rather than variables, and
one lemma (`ReconcileKeeps`) serves every handler: if the tables handed in fit,
the state after reconciling does. The parts that make it inductive: a
reservation's miner is in the queue of its round at a place that no longer
changes, and its round is one that was opened; and a request that waits for
a balance holds a position before which *nobody is queued*. The last is what
first-come-first-served rests on: the code looks at no earlier candidate again
after the await, and need not, because candidates only ever leave the state
"queued" and only join at the end. `NextQueued` is a `CHOOSE` of a least
position; that it exists is the lemma `Least`.

**MinerRounds, one request at a time** (`OneAtATime`, at most one element in
`Calls`), for any miners and any number of rounds and reservations:
`PendingIsCurrentSerially` and `ServiceImplementsLedger`. The premise is where
the code's guarantee ends: with two requests both properties fail
(`OneProvisionalWinner`, section 6). Every step preserves `SerialInv` given
`Inv`. `Tables` says what the service's maps agree on: a pending reservation is
held by the active round (`PendingHeld`), neither that round nor a later one
has been won (`OpenUnwon`), and a round is won with exactly one reward, which
enters at most one receipt, once or more (`WonOnce`). `Waiting` says what the code relies on but does
not look at again after its await: a request that waits for a balance waits for
the active round, which holds nothing; one that waits for a transaction pays
for the reservation that is held. Each step is then a win or a receipt of the
ledger (`Wins`, `Receipts`), or touches neither winners nor receipts
(`Quiet`). How often receipts name a round is a sum over the reservations, a
recursive function; that it is nothing when no reservation contributes, and the
one contribution when only one does (`TotalOfNone`, `TotalOfOne`), is proved by
the least number at which it would fail.

**ClaimSettlement**, for any claims, hashes, units, caps and numbers of restarts:
`TypeCorrect`, `PaidOnceEver`, `CapHolds`, `AuthBackedEver`, from `Settlement`,
which joins them. `PaidOnce` takes a hash that is settled at most once, since
`minted` counts; `AuthBacked` needs the same, since it counts the set `settled`,
and that every settlement brings at least one unit. It says nothing of how many
units a settlement costs. The type invariant of this module is only proved, by no
run.

**ContractIndexer**, for any start height, number and content of blocks, tokens
and numbers of faults and lost races: `TypeCorrect` and `NoGapEver` from `Inv`,
which adds to `NoGap` that everything below a loop's own height is indexed
(`Behind`) and that a loop has written what its place implies (`Written`). `NoGap`
alone is not inductive, because a slow loop moves the position back and then
forward without looking. `HoldersMatchEver` from `HoldersInv`, token by token: unless the
token was left, or a loop still has it before it (`Waiting`), its rows are those of
its balances, counted once no loop is about to count (`Counting`), and when there
are no rows some loop is at its insert or the balances are empty. The loop whose
insert fails leaves the winner's selection, made after both had added their
balances.

**FuelTank**, for any number and sizes of transactions, any total and minimum
and any costs: `TypeCorrect`, `SizeAlwaysCovers`, `ShareIsFair` and `FuelOnlyFalls`, from
`IInv`. The invariant behind the fair share is `RatioKept`: the fuel left bears
to the bytes left at least the ratio of the whole, written as products. A share
rounds down, so taking it keeps the ratio (`RatioAfterShare`); a refund raises
it, a drain leaves it; and a share of fuel that keeps the ratio is a share of
the whole (`ShareOfRatio`). `FuelledIsCounted` is what `SizeCovers` needs when
the next transaction begins: the bytes of the fuelled one are still counted.

**AlkanesMessage**, for any numbers of contracts, amounts, depths and starts:
`DepthAlwaysMatches`, `StorageIsOwned`, `CallsAreNested`, `TypeCorrect`,
`UnbornAlwaysClean` and `NothingMadeOrLost`. The invariant `IInv` is `DepthMatches` with the shape of layers and frames (`Typed`): a commit
or a rollback takes off what its frame put on only because every frame has its
three layers, the lowest with the transaction's own. `StorageIsOwned` and the
refinement rest on what the stack shows: `CommitShows` (a commit changes nothing
that is seen, since the newer write wins in both forms), `CheckpointShows`,
`UndoShows` (a rollback shows what the level began with), and `SeenAgrees`: a
level's beginning is what its lowest layers show, which steps above it do not
touch. The refinement adds `MessageFirst`, the message is the lowest frame, so
that only a call can be undone for being static. `Seen` takes the highest layer
that holds a key; that a set of layers has a highest is the lemma `HasGreatest`.

None of the last three is inductive about what is seen *now*: a call that
returns or fails brings back what a level began with, and what was wrong there
would be wrong again. So each is stated of every level. `Began(i)` is what
level `i` began with; a step adds a level, ends one, or does neither (`Pushes`,
`Pops`, `Rests`), one lemma per action. `ViewInv` says that at every level
balances are below `Width` and nothing is under a number not yet handed out
(`Whole`); that every frame runs under a number handed out before the levels
above it began (`FramesBorn`), so that undoing a deployment leaves no contract
on the stack that writes under an unborn number; and that what the outputs hold
is natural (`SheetsCover`: a message is paid from what the inputs hold).
`Balanced(t)` is the equation of `Conserved` at every level, with the terms of
that level: before the transaction its inputs still count, before the message
was paid what it receives is on the sheet. `NothingMadeOrLost` has the premise
`ForeignTokens`: the token's contract exists and is not among those that run
(one that runs may mint: `debit` of its own token is unchecked), and there is
less of the token than `Width`. The last is needed: `transfer_from` adds modulo
the width of a balance. It is the only step that could wrap, and the proof shows
it does not because what a contract would hold is at most all there is
(`SumCovers`). The sum is a recursive function over the contracts' numbers; its
unfolding, shifting an amount from one contract to another and bounding one
contract by the whole (`SumUnfolds`, `SumShifts`, `SumCovers`) are proved by the
least number at which they would fail (`Induction`).

Every property was checked with TLC before it was proved.

## 8. Not proved, not modelled

Only model-checked: liveness (`CatchesUp`, `FollowsReorgIfSerial`), which is
outside the prover's reach, as are `QueueDecided`, `SubmittedIsSettled` and
`ReachesTip`.

Left out of the modelled components: `exit_at`; the snapshot tasks and modes
of rockshrew-mono and `process_block_with_snapshots`; the second engine
`MetashrewSync::run_pipeline`; graceful shutdown; the JSON-RPC server and
views (except `get_at_height`); RocksDB errors (they surface as runtime errors
or crashes); state roots, which nothing on this path reads; SSH tunnels and
the timing of RPC retries; WASM memory. `refresh_memory` after a rollback is a
no-op for the state kept here; its failure is not modelled.

Of the Engine miner: registration and signatures (sequential checks of one
request, with no state but the miner's record); `stopMining` and what is only
reported (`miningState`, `lastSubmissionId`, balances); the 48-hour expiry of a
receipt, which no handler reads; the relay and the development provider of
claims (the server's; the settlement builder is modelled). The receipts' loss in a restart is modelled where claims are settled,
not in `MinerRounds`: the service has no storage to restart from. The MCP
connector has no module yet: two calls that load its state before the cache is
set get a copy each, and the later write loses the other's update
(`local-state.ts:207`).

Of claims: what becomes of auth units after a refund has put them elsewhere, and
the signatures of receipt and claim.

Of the contract indexer: pools, candles, notifications, storage and inferred
transfers (each a table replaced per block), and the trace transform, whose
errors are logged and ignored and whose balances are read, added to and written
back without a lock (`optimized_balance.rs:98`), so that they lose updates as
well as repeat them.

Of the alkanes VM: precompiled addresses, whose calls write nothing, and the
abort of an unknown one (section 6); deployments under reserved numbers and from
factories, which differ from `Create` in where number and binary come from; the
runtime balance sheet, another limit on what a message may return; the
inventory of a contract, which is appended to past the checkpoints
(`utils.rs:39`) and read by views only; a contract's own cache of its storage,
whose writes are what it hands over; unwraps, traces and views.

The components of section 1 that no module covers are listed with their
reasons in `PROJECT.json`.

## 9. Plan

Order of work, the most important behaviour first:

1. *(done)* `NodeChain`, `MonoSync`, `AppendStore`, `VersionedKV`, their runs,
   `MonoSyncProofs`.
2. *(done)* `MinerRounds` with `RewardLedger`, `ClaimSettlement`,
   `ContractIndexer`, `FuelTank`, `AlkanesMessage` with `CheckpointStack` and
   `NestedCalls`, their runs and proofs.
3. *(done)* `AppendStoreProofs`, `AppendStoreReadProofs`: the lists, the reads
   and the refinement, on one branch and through rollbacks.
4. `Protorune`: balance sheets over outpoints; edicts, pointer and refund
   pointer, protoburns. Abstract specification: balances are only moved.
   Properties: conservation per rune through every protostone, nothing spent
   twice, refunds complete when a message fails. One transaction graph of two
   or three transactions, two runes, small amounts. Composes with
   `AlkanesMessage`, which takes what a message receives as a choice.
5. `ConnectorState`: the connector's cache and state file.
6. The snapshot modes and `MetashrewSync::run_pipeline` as further engines over
   `NodeChain`; a run of `MonoSync` with `start_block` 0.

Theorems worth proving next: `OldOrTrue` for any number of reorgs, with crashes;
conservation of `Protorune` balances.
