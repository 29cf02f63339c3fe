# TLA+ models of the witnet-rust block-management core

These modules model `src/core/src/actors/blocks_manager/mod.rs` (the
BlocksManager actor) together with the actors it talks to: the
StorageManager (`storage_manager/messages.rs`), the EpochManager, the
sessions, and the node process (`node.rs`). The natural-language design is
`spec.md`.

## 1. Inventory

| Component | State | Operations | Source |
|---|---|---|---|
| Block Index | `blocks: HashMap<Hash, Block>`, `epoch_to_block_hash: HashMap<Epoch, HashSet<Hash>>` | `process_new_block`, `try_to_get_block` | mod.rs 64-157 |
| Inventory Reconciliation | none; reads `blocks` | `discard_existing_inv_vectors` | mod.rs 159-179 |
| Consolidation Engine | reads the index, writes `chain_info` | `consolidate(epoch)`, with greatest influence winning and ties going to the smallest hash | spec 4.2 (not under src/) |
| Chain-Head Tracker | `chain_info: Option<ChainInfo>`, the `CHAIN_KEY` value in storage | `persist_chain_info` (Put + `AsyncContext::wait`), load-or-init at start | mod.rs 85-117, spec 4.3 |
| Storage collaborator | key/value store | `Get`, `Put` (built by `Put::from_value`, which encodes the value with `to_bytes`), `Delete` messages, each answered Ok or with a StorageError | messages.rs |
| Facade / actor | mailbox | one message at a time | mod.rs, spec 4.5 |
| Node process | which actors run, the system registry | `run` starts each actor and sets it in the registry, then calls `system.run()`; `close` calls `exit(0)` | node.rs |
| EpochManager | its configuration, the current epoch | `started` asks the ConfigManager for the configuration; closes an epoch and asks for its consolidation | epoch_manager/actor.rs, spec 4.2 |

How the components interact:
- Sessions send blocks, get-block requests and inventory vectors to the
  BlocksManager actor.
- The EpochManager sends `consolidate(epoch)`.
- The actor sends `Put(CHAIN_KEY, chain_info)` and, at start, `Get(CHAIN_KEY)`
  to the StorageManager.
- All of these are actix messages. Each actor handles one message at a time.

What makes this hard:
- **Blocking on storage.** `persist_chain_info` waits on the Put future with
  `AsyncContext::wait`. Until storage answers, the actor handles no other
  message, so session and EpochManager messages pile up behind the write.
- **Failed writes.** A failed Put is only logged (FIXME #72). Storage can then
  hold an older chain head than memory.
- **Process exit.** The process can exit at any point: `close` calls
  `exit(0)`, and `Put::from_value(..).unwrap()` panics if `to_bytes` fails.
  A Put may be in flight when that happens. Blocks are kept only in memory,
  so they are lost.
- **Start-up.** `Actor::start` only spawns an actor. Its `started()` hook
  runs once `system.run()` polls it. Hooks look their collaborators up in
  the registry, and a lookup of an unregistered service starts a second,
  default instance.
- **Out-of-order input.** Blocks arrive in any order, can be duplicates, and
  can arrive after their epoch was consolidated.
- **Agreement between nodes.** Every node consolidates each epoch on its
  own, over the candidates it holds when the epoch closes. Nodes must pick
  the same winner whatever the order in which candidates arrived and
  whatever order their HashSets scan them in.

The properties that make each component correct:
- **Index.** The two maps agree: every candidate hash is a known block of that
  epoch, and every known block is keyed by its own hash.
- **Chain head.** The tip only moves forward while the node runs. Storage only
  ever holds a value the tip had, never a later write's predecessor. A restart
  resumes from storage.
- **Start-up.** Every lookup, `persist_chain_info`'s included, finds the
  actor `node::run` registered. Start-up completes unless the process exits.
- **Unit tests.** The model passes the eight unit tests of
  `blocks_manager/mod.rs`.
- **Network.** Two nodes that consolidated an epoch hold the same block for
  it, whatever their scan order, also when one of them restarted during that
  epoch and was offered its candidates again.

## 2. Modules

| Module | Models | Key correspondences |
|---|---|---|
| `BlockIndex` | the index maps and the pure operations | `ProcessNewBlock` = `process_new_block` success branch; `NewBlockResult`, `TryToGetBlock` and `DiscardExistingInvVectors` are the results of those methods; `Canonical`/`BestOf`/`Outranks` are the spec 4.2 policy |
| `BlocksManager` | the actor with storage, the EpochManager, sessions and process exit | variables `status`, `chain_info`, `persist_call` (idle, blocked in `wait`, or panicked), `put_in_flight`, `store` (the bytes under `CHAIN_KEY`), `consolidations` (mailbox), `current_epoch`, `reply`, `crashes`; one action per handler (below) |
| `ChainHead` | abstract specification of the chain-head tracker: `tip`, `durable`; `Advance`, `Persist`, `Recover` | refined by `BlocksManager` through `TipBar`/`DurableBar` |
| `MCBlockIndex` | standalone check of the index under every order and repetition of deliveries | |
| `MCBlocksManager` | the constants for the actor model | |
| `NodeStartup` | `node::run`, the registry, the `started()` hooks of the EpochManager and the BlocksManager, and `close` | `line` is the next statement pair of `run`; `RunActor` is one `X::default().start()` plus `registry().set(..)`; `SystemRun` is `system.run()`; `EpochManagerStarted` is `EpochManager::started`; `Lookup` is `registry().get::<A>()`; `AnswerChainInfo` adopts a stored chain info or, with `chain_stored` false, runs `PersistChainInfo` (lookup, Put, wait), or the `unwrap` of `Put::from_value` panics and the process ends; `AnswerPut` resolves the wait |
| `Network` | several nodes, each with its own block index (`Idx(n) == INSTANCE BlockIndex WITH ...`), a network that delays and duplicates candidates, a shared epoch clock, and process restarts | `Deliver` = a node's `process_new_block`; `Consolidate(n)` = the node's consolidation of its oldest closed epoch since its process started (`Joined(n)`), scanning its candidates from any first element; `Restart(n)` = `close`'s `exit(0)` and a new `node::run` within the open epoch: an empty `BlocksManager::default()`, the blocks in transit to it lost with its sessions; `Relay(n, b)` = a peer offering `n` a candidate of the open epoch again, by relay or after the inventory exchange found it missing |
| `MCNetwork` | the constants for the network model | |
| `BlocksManagerTests` | the eight `#[test]` functions of `blocks_manager/mod.rs`, each on its own harness thread over its own `BlocksManager::default()` | `<test>_calls` is the test's sequence of calls, `<test>_passes` its assertions over the results and the final maps; `Call(t)` makes test `t`'s next call through the `BlockIndex` operators (`BM(t)`); `build_hardcoded_block` is the fixture builder |
| `MCBlocksManagerTests` | distinct digests for the four fixtures, apart from the invented `Hash::SHA256([k; 32])` | |

Actions of `BlocksManager`:
- `Start` is `node::run` starting the storage and blocks actors.
- `LoadChainInfo` and `LoadChainInfoFails` are the answer to the startup Get.
  A stored ChainInfo is adopted. If none is stored, genesis is adopted and
  persisted. If the Get fails, startup is aborted.
- `PutCompletes(put, ok)` is the StorageManager answering a Put. Either
  answer resolves the waited future.
- `PersistChainInfo` sends `PutFromValue(ci)`, the Put carrying
  `ToBytes(ci)`, and waits (`persist_call = "waiting"`). If `to_bytes`
  fails, the unwrap panics (`persist_call = "panicked"`), and the next step
  is `Crash`.
- `ReceiveBlock`, `GetBlock` and `ReceiveInvVectors` are the session messages.
  `ReceiveBlock` has three branches: a new block, a duplicate, and a
  serialization error from `to_bytes`.
- `Tick` is the EpochManager closing an epoch.
- `Consolidate` takes the next queued epoch. An epoch with no candidates is a
  no-op.
- `Crash` is the process exiting. Memory is lost, and a Put in flight is
  either applied or not. Storage holds bytes; `LoadChainInfo` and the
  refinement mapping decode them with `FromBytes`.

Abstractions:
- A block is a record of its checkpoint, its influence and a body tag that
  stands for the rest of its content.
- sha256 is an injective map onto naturals. The order of the naturals stands
  for the lexicographic order of the digests.
- Every handler runs as one atomic step, as an actix handler does.

## 3. Runs

| Run | Config | Checks | Result |
|---|---|---|---|
| unit_tests | `MCBlocksManagerTests.cfg` | `UnitTestsPass` | pass (13,500 states) |
| block_index | `MCBlockIndex.cfg` | `IndexConsistent` | pass (256 states) |
| blocks_manager | `MCBlocksManager.cfg` | `ChainHeadRefinement` (`ChainHead!Spec` under the mapping) | pass (about 47,000 states) |
| tip_block_after_restart | `MCBlocksManager_TipBlockKnown.cfg` | `TipBlockKnown` | violation |
| persistence_blocks_actor | `MCBlocksManager_NonBlockingPersistence.cfg` | `NonBlockingPersistence` | violation |
| node_startup | `NodeStartup.cfg` | `SingleInstancePerService`, `StartupCompletes` | pass (15,408 states) |
| nodes_agree_timely | `MCNetwork.cfg` | `NodesAgree` with `TimelyDelivery = TRUE`, one restart | pass (21,920 states) |
| nodes_agree_late_delivery | `MCNetwork_LateDelivery.cfg` | `NodesAgree` with `TimelyDelivery = FALSE`, no restart | violation |

Bounds:
- **block_index**: 8 blocks (2 epochs × 2 influences × 2 bodies), giving all
  256 subsets of the index, reached in every order, with duplicates.
- **blocks_manager**: 5 blocks (three for epoch 1, two of them tied on
  influence, and one each for epochs 2 and 3), 3 epochs and 2 process exits
  or panics. That is enough for the interesting cases:
  - a consolidation with candidates and one without;
  - a Put that fails, one in flight at exit, and a panic on encoding;
  - a restart from a stored head and from an empty store, and a second
    exit after a restart;
  - blocks arriving after their epoch is consolidated.
- **node_startup**: the eleven actors of `node::run` in its order. Every
  order of the `started()` hooks, both answers to the chain-info Get, and an
  exit at every point are explored. The run passes even with the start
  order reversed (checked by hand), because no hook runs before
  `system.run()`. Dropping the StorageManager's `registry().set` breaks it.
- **unit_tests**: exactly the tests' own inputs: the four fixtures and the
  three invented hashes. Every interleaving of the eight test threads is
  explored, which is every prefix of every test.
- **node_startup** also starts from both database contents (`chain_stored`
  is TRUE or FALSE in `Init`), so both the adopt and the genesis-Put paths
  run under every hook order, and the genesis Put may panic.
- **nodes_agree**: 2 nodes, 2 epochs, the blocks of blocks_manager's first
  two epochs. Epoch 1 has a tie on influence, so the nodes' scan orders
  matter. Every node receives every candidate once, in any order, and peers
  may offer a candidate again while its epoch is open. `MaxRestarts = 1`
  lets either node restart in either epoch, before or after candidates
  reached it. With `TimelyDelivery` the clock closes an epoch only once
  every node, a restarted one included, holds all its candidates. The nodes
  are a symmetry set.

Fairness: only `NodeStartup` assumes any, for `StartupCompletes`: weak
fairness on each statement of `node::run`, on every spawned actor's
`started()` hook, and on the answers to the three requests (configuration,
chain info, and the genesis Put). `run` is straight-line code, and the
arbiter polls every actor with work. `close` gets no fairness.
`BlocksManager` and `Network` check safety only and assume none.

Deadlock: the `NodeStartup`, `Network` and unit-test runs set
`CHECK_DEADLOCK FALSE`. The test binary ends when every test has made its
calls. A
node whose actors have all started and answered is idle, because
`system.run()` serves forever. The network's clock stops at `MaxEpoch`.

Findings (see `PROJECT.json`):
- `persist_chain_info` blocks the actor while the write is pending. Spec §5
  says persistence does not suspend message processing.
- The module documentation (mod.rs:11) says valid blocks are put into storage,
  but the code keeps them only in memory. After a restart, the recovered chain
  head names an unknown block.
- Consolidation happens once per epoch, over the candidates a node holds at
  that moment. `process_new_block` (mod.rs:133) files a late candidate under
  its closed epoch, and nothing reconsiders it. A candidate that reaches one
  node before the epoch closes and another after makes them consolidate
  different blocks. Spec 4.2's "all honest nodes agree" needs timely
  delivery, which the spec does not state.
- Candidates live only in memory. A node that restarts while an epoch is
  open agrees with its peers only because they offer it the epoch's
  candidates again before the epoch closes (run nodes_agree_timely).

Also seen while modelling, without a run: `persist_chain_info` unwraps
`Put::from_value` (mod.rs:100), so a `to_bytes` failure panics and ends the
process, where spec §7 says no condition in this core is process-fatal.
`ChainHeadRefinement` shows the restart after such a panic still resumes
from a head the node served.

## 4. Not modelled

- The StorageManager and RocksDB internals. They are treated as a single value
  under `CHAIN_KEY`, with writes that may fail.
- `Delete`, which this core never sends.
- Supervised restarts of a single actor. Only whole-process exits are
  modelled.
- The other actors: sessions beyond their messages, peers, the mempool, UTXO,
  the inventory manager and JSON-RPC. Their code is not in this snapshot.
- The EpochManager's timer and the content of its configuration. Only the
  request and its answer are modelled.
- Clock skew between nodes. `Network` closes each epoch on all nodes at
  once.
- Wire encoding, logging, and leadership-proof signatures.
- Per-session mailbox order. Each handler is one atomic step and a session's
  messages are handled in the order it sent them, so an inventory answer
  always reflects every block handled before it. Sessions end with their
  process, so no answer can outlive a restart.

## 5. Further work

What is left in the source is out of a model's reach or adds nothing to
check: `actors/mod.rs` only declares modules. The rest of `messages.rs` is
`Delete`, which this core never sends. The remaining lines of `node.rs` and
`epoch_manager/actor.rs` are imports. The error enum and `From` conversion
of `mod.rs` are folded into `Err(..)` values.
