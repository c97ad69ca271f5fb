# TLA+ models of the coin node

This directory holds TLA+ models of the Go code under `src/`. They cover the
part of the node that keeps the state (the chain manager, its coin (UTXO)
database, its block index and its block files), the node's concurrent gRPC
intake, the miner's transaction pool with its goroutines, and the merkle root
of a block. Each model is checked with TLC.

## The system

The node (`src/pkg/node.go`, `server.go`, `validation.go`) receives blocks and
transactions from peers over gRPC.

- `ForwardBlock` drops a block it has seen before, checks it with `CheckBlock`,
  hands it to the `Miner` and then to `BlockChain.HandleBlock`.
- `BlockChain` (`src/pkg/blockchain/blockchain.go`) owns three stores:
  - **CoinDatabase** (`coindatabase/coindatabase.go`): a main cache of coins.
    It is bounded by `mainCacheCapacity` and counted by the `uint32`
    `mainCacheSize`. Behind it is a leveldb of `CoinRecord`s, one per
    transaction hash.
  - **BlockInfoDatabase** (`blockinfodatabase/`): a `BlockRecord` per block
    hash. The record holds the block's header, its height and the file
    locators of the block and its undo block.
  - **ChainWriter** (`chainwriter/`): the append-only block and undo files,
    with file rotation.
- `HandleBlock` runs these steps in order:
  1. Validates the block against the coin database.
  2. Builds its undo block.
  3. Writes it through the ChainWriter.
  4. Stores its record, with height set to the parent record's height + 1.
  5. If the block extends the active tip (`LastHash`): stores its coins,
     bumps `Length` and pushes the block onto `UnsafeHashes`, which holds the
     last 6 blocks.
  6. Else, if the block is higher than `Length`: runs `handleFork`. This
     walks back to the fork's ancestor, trims `UnsafeHashes`, undoes blocks
     with `UndoCoins` and re-stores blocks.
  7. Else: only the record is kept.
- `GetBalance` flushes the coin cache, then sums a public key's coins in
  leveldb.
- The **Miner** (`src/pkg/miner/`) keeps a `TxPool`: a max-heap of
  transactions by priority (`block/transactionheap.go`) under a mutex, with
  an atomic `Count` and `CurrentPriority`. `HandleTransaction` asks the node
  loop for the input sums over channels (with a one-second timeout), computes
  the priority, and adds the transaction; `HandleBlock` removes the block's
  transactions and bumps `ChainLength`.
- **block.New** (`src/pkg/block/block.go`) computes the merkle root of the
  transactions; `Block.Hash` hashes the header only.
- The **address book** (`address/addressdb/`) records the addresses a node
  has heard of. `Version` and `SendAddresses` write it and `PeerDb`.
- The wallet and the protobuf codecs are the remaining parts (see
  "Not modelled").

## Modules

| Module | Models | State and actions |
|---|---|---|
| `Chains` | the `PreviousHash` links of block headers | `ChainTo(h)`: the chain from genesis to `h` (RECURSIVE) |
| `Ledger` | the abstract specification (spec.md sections 3, 4.5.3, 4.6) | `chain`, `utxo`; `Extend(b)` applies a valid block to the tip; `Switch(b)` adopts a strictly longer chain that is valid block by block |
| `CoinDB` | `CoinDatabase` | operators on the record `[cache, size, db]`. A Go map is a TLA+ function with a growing domain. Each method is one operator: `ValidateBlock`, `ValidateTransaction`, `StoreBlock`, `UpdateSpentCoins`, `StoreTransactionsInMainCache` (with the flush pre-check and the wrapping counter), `StoreTransactionsInDB`, `FlushMainCache`, `UndoCoins`, `GetCoin`, `GetBalance` |
| `BlockChain` | `BlockChain`, `BlockInfoDatabase`, ChainWriter's undo locators | see below |
| `MCBlockChain` | block universes for TLC | see below |
| `ChainWriter` | `chainwriter.go`, `readwrite.go` | operators on `[blockNum, blockOff, undoNum, undoOff, blockFiles, undoFiles]`: `WriteBlock`/`WriteUndoBlock` with rotation at `>= Max...FileSize`, `StoreBlock` (no undo file for an empty undo block), `WriteToDisk` (O_APPEND), `ReadFromDisk` (panic on a missing file or short read, garbage on a misaligned range) |
| `StoreWriters` | `ChainWriter.StoreBlock` called by concurrent goroutines | `cw` (ChainWriter's record), `pc`, `fam`, `name`, `fis`; `WriteBlock`/`WriteUndoBlock` split at each access to the cursor |
| `MCStoreWriters` | two StoreBlock calls after genesis, for TLC | |
| `Node` | `server.go` `ForwardBlock`/`ForwardTransaction`/`GetBlocks`, `validation.go`, `node.go` `Bootstrap`, composed with `BlockChain`, `CoinDB` and `ChainWriter` | see below |
| `MCNode` | the Lin universe, block sizes, jobs and peers for TLC | |
| `AddressBook` | `addressdb/ephemeraldb.go` `EphemeralAddressDb`, `server.go` `Version` and `SendAddresses` | see below |
| `MCAddressBook` | addresses, hello and gossip calls for TLC | |
| `Miner` | `TxPool`, the transaction heap, `HandleTransaction`, `HandleBlock`, `getInputSums` and the node loop's answer, `StartMiner` | see below |
| `MCMiner` | three transactions with distinct priorities and their handlers | |
| `Merkle` | `block.New`, `CalculateMerkleRoot`, `Block.Hash` | `made`: the blocks returned; `NewBlock(p, txs)`; `MerkleLoop` is RECURSIVE; `MerkleReference` is the top-down definition of spec.md 4.2 |

### BlockChain

Variables:
- `length`, `lastHash`, `unsafeHashes`: the struct fields of the same names.
- `index`: the BlockInfoDatabase. Each entry is `[prev, height, undo]`, and
  `undo` is `NoUndo` when no undo file was written.
- `mainCache`, `mainCacheSize`, `db`: the coin database.
- `reported`: the last `GetBalance` result.
- `crashed`: a panic of the process.

`HandleBlock(b)` is one atomic step. spec.md section 5 requires this: one
exclusive lock from validation to append or reorg. The Go code takes no lock,
and several gRPC handlers and `Bootstrap` call `HandleBlock` at once, so the
models that use this step (`BlockChain`, `Node`) check the serialised
behaviour the spec asks for. `StoreWriters` checks what the missing lock does
to the block files. `HandleBlock` is the disjunction of four actions:
- `RejectBlock`: validation fails.
- `AppendBlock`: the block extends the tip.
- `RetainBlock`: the record is stored and nothing else changes.
- `ForkBlock`: all of `handleFork`, including its two panics:
  - an index out of range in the trim loop;
  - `readFromDisk("")` for a walked block that has no undo file.

Every branch stores the block's record first, exactly as the code does.
`GetBalance(pk)` flushes the cache and then reads the balance. CoinDB
operators are composed inside these actions, so a trailing flush or store is
never a separate step.

`LedgerRefinement` instantiates `Ledger` with this mapping:
- `chain <- ChainTo(lastHash)`;
- `utxo <-` the unspent coins visible through the cache and leveldb.

### MCBlockChain

Transactions and blocks are model values. Each stands for its hash. The
constants `TxInputs`, `TxOutputs`, `BlockTxs` and `BlockPrev` give their
contents. There are three universes:

- **Lin**:
  - genesis `G` pays 4 to `A`;
  - `B1` spends it (2 to `B`, 2 to `A`);
  - `B2` spends `B1`'s outputs;
  - `B2x` (also on `B1`) double-spends the genesis coin and must be rejected;
  - `B3` is coinbase-only on `B2`.
- **Fork**: `G`, `B1`, `B2`, and a fork `F2`, `F3` on `B1`, with `F2`
  spending `B1`'s second output.
- **Ds**: `G` and a block whose two transactions spend the same coin.

Every block may be delivered at any time and any number of times. Missing
parents, redelivery and out-of-order arrival are all possible, as
`ForwardBlock`'s callers and `Bootstrap` allow.

### Node

`Node` keeps BlockChain's variables and adds `seenBlocks`, `seenTxs` (the
`SeenBlocks`/`SeenTxs` maps), `pc` (one per gRPC call), `mnChn`,
`minerLength` (the miner's `ChainLength`), `cw` (the ChainWriter record),
`locs` (each BlockRecord's two FileInfos), `gb` (the locals of each
`GetBlocks` call) and Bootstrap's `bootPhase`, `bootTop`, `bootPc` (one per
peer goroutine), `longestRes`, `addr` and `bootIdx`.
`BC`, `CDB` and `CW` are INSTANCEs of the component modules. A gRPC handler is
a job whose steps are the shared-state accesses of the code: the
`SeenBlocks` read, its write, `CheckBlock`, the `mnChn` test and
`HandleBlock`. `HandleBlock`, with the `ChainWriter.StoreBlock` it calls, is
one atomic step (`HandleBlockWithFiles`). That is the serialisation spec.md
section 5 requires, not what the code does: the code takes no lock. So no
property of `Node` is about where blocks sit in the files. `StoreWriters`
models the unlocked writes. `CheckTransaction` always returns false,
because `CheckTransactionSemantics` is a stub that returns false, so no
transaction reaches the miner.

`GetBlocks` (server.go, serving a peer) is a job of four steps. They are the
`GetBlockRecord` read with the height test, the read of `Length`, the read of
`LastBlock`, and the walk down the index with each block read back from the
files and the result reversed (`WalkChain`, `ReverseBlocks`). Appends may
run between them.

`Bootstrap` (node.go) has these steps:
1. `BootstrapStart` reads `topBlockHash`. With no peers it returns an error.
2. Each peer's goroutine runs four steps:
   - `BootstrapRPC` calls GetBlocksRPC. It fails nondeterministically, as a
     connection may. It does not fail when the peer lacks the top block.
   - `BootstrapCheck` is the unlocked test of `longestRes`.
   - `BootstrapSetRes` writes `longestRes`.
   - `BootstrapSetAddr` writes `addr`.
3. `BootstrapWait` is `wg.Wait`. A nil `longestRes` is an error return.
4. `BootstrapBlock` runs once per hash: GetData from `addr`, then
   `SeenBlocks`, then `HandleBlock`. `BootstrapFetchFails` is the panic that
   follows a GetData failure: `pb` is nil because the error is discarded,
   and a peer asked for a block it lacks panics itself.

A peer is its chain (`PeerChain`). Its GetBlocks and GetData answers are
read off that chain (`PeerAnswer`, `PeerBlocks`). A peer's `GetBlocks` for
a hash it has no record of reads the empty record. `GetBlockRecord` never
returns nil, so the record has height 0. The peer then answers with its whole
chain from height 1, genesis included. `Bootstrap` hands all of it to
`HandleBlock` again. A peer is assumed to store only its active chain.

### StoreWriters

Each `StoreBlock` call is a job. `WriteBlock`, and then `WriteUndoBlock` when
the undo block is not empty, run as five steps:
1. `WriteRotate`: the rotation test and reset.
2. `WriteName`: the read of the file number for `fileName`.
3. `WriteAppend`: the `O_APPEND` write.
4. `WriteFileInfo`: the read of the offset for the `FileInfo`.
5. `WriteAdvance`: `CurrentOffset += length`.

The files and reads are `ChainWriter`'s. The initial state has the genesis
block written, as `blockchain.New` leaves it.


### AddressBook

The address book is a map from address to `*Address`, with a limit of 1000.
It has no lock: its embedded `Mutex` is never taken. `Version` (a peer says
hello) and `SendAddresses` (gossip) write it from concurrent gRPC goroutines.
`AddressBook` makes each call a job. Its steps are the map accesses:
- `Get`;
- `Add`'s combined test of "already exists" and `len >= limit`;
- `Add`'s write;
- the `LastSeen` comparison;
- `UpdateLastSeen`'s write.

`LastSeen` is `uint32(time.Now().UnixNano())`. The model keeps real time in
`now` and stores `now % 2^Width`. Each record also keeps the real time it
stands for (`seen`), so a property can say which sighting is newer.

Two parts are outside the repository:
- The `peer` package is missing. `PeerDb` is a set, and the result of its
  `Add` is chosen freely. A peer's address is the AddressDB record itself,
  because `peer.New` takes `AddressDB.Get`'s pointer.
- Outgoing RPCs change nothing locally.

A gossip call arrives only after every sighting it carries has happened.

### Miner

Each `HandleTransaction` or `HandleBlock` goroutine is a job with a program
counter. A step is one atomic access: one `atomic.Uint32` operation, one
channel operation, or one heap operation under `TxPool.Mutex`. `Count`,
`CurrentPriority` and the priorities are `uint32`, modelled modulo
`2^Width` with `Width` = 10. The node loop is a variable that is idle or
blocked sending a reply; the timeout of `getInputSums` is an action of its
own (`MayTimeOut`). The heap operations are container/heap's sifting on a
1-based array (`Up`, `Down`, `HeapInit`, RECURSIVE).

### Merkle

A transaction is a model value standing for its hash. Hashing two hashes is
the pair `<<l, r>>`: SHA-256 is taken as collision free. `NewBlock` is given
every non-empty list of up to `MaxTxs` transactions. An empty list is left
out, because the Go loop `for len(hashes) != 1` never ends on it.

## Runs

| Run | Expect | What it shows |
|---|---|---|
| `linear` | pass | Every order and repetition of the Lin blocks, interleaved with `GetBalance`. The implementation refines `Ledger` (`LedgerRefinement`). A reported balance equals the ledger's balance (`BalanceMatchesLedger`). `length` is the length of the chain ending at `lastHash` (`LengthIsChainLength`). `TypeOK` holds. |
| `fork` | pass | With the Fork blocks, `handleFork` runs, and in some orders panics. `LengthIsChainLength` holds in every state. So does `ActiveChainStored`: every block from genesis to `LastHash` has a BlockRecord, even when blocks arrive before their parents, because a child of a missing block has a low height and the fork walk cannot cross a missing record. Deadlock is not checked, because after a panic the process is gone. |
| `reorg_refinement` | violation of `LedgerRefinement` | `G, B1, B2`, `F2` kept, then `F3` triggers a reorg. The code re-stores the *active* blocks it just undid, not the fork's blocks. `lastHash` ends on `F3` while the coins are `B2`'s. |
| `reorg_panic` | violation of `NoPanic` | `B1` is delivered again after its inputs were flushed. Its record is rewritten without an undo file, and the next reorg panics reading it. The walk can also reach the genesis block, which never has an undo file. |
| `cache_bound` | violation of `CacheWithinCapacity` | `FlushMainCache` keeps unspent coins but zeroes `mainCacheSize`, so the cache grows past its capacity. |
| `orphan` | violation of `ActiveChainIsLongestKnown` | `B2` arrives before `B1` and is stored with height 1. After `B1` is appended, the longer valid chain `G, B1, B2` is never adopted. |
| `double_spend` | violation of `LedgerRefinement` | `ValidateBlock` checks each transaction against the state before the block, so two spends of one coin in a block are accepted. |
| `miner` | pass | Three `HandleTransaction` goroutines and one `HandleBlock` interleave, with timeouts and `StartMiner` possible. The heap stays a max-heap (`HeapOrdered`). `CurrentPriority`, updated outside the mutex, equals the heap's priorities plus those in flight (`PriorityAccounted`). |
| `miner_liveness` | pass | Without timeouts and without a started miner, every handler returns (`HandlersReturn`, under weak fairness). |
| `miner_timeout_stall` | violation of `HandlersReturn` | After one `getInputSums` times out, the node loop blocks forever sending the late reply. Every later `HandleTransaction` then blocks on its request. |
| `node` | pass | Three concurrent `ForwardBlock` calls (B1, B2, B3), a `ForwardTransaction`, a `GetBlocks` call from genesis and a `Bootstrap` from one peer holding B1, B2, with both file families rotating. The peer answers its whole chain when it lacks the node's top block. What `GetBlocks` serves is a run of the active chain (`ServedBlocksOnActiveChain`). Every block `Bootstrap` handed over is on the active chain (`BootstrapAdoptsPeerChain`). |
| `merkle` | pass | Every list of 1 to 5 transactions over two hashes gets from `CalculateMerkleRoot` the root spec.md 4.2 defines (`RootMatchesReference`). Odd levels occur both at the leaves and higher up. |

Each property of a passing run has a mutant in `PROJECT.json`. A mutant
replaces one mapped definition with a plausible bug, and TLC must then find
the property violated. The mutants are:
- an output index off by one;
- a flush that does not write back to leveldb;
- `GetBalance` without its flush;
- an append that does not bump `length`;
- a signed fee computation in `CalculatePriority`;
- `HeapRemove` without its `heap.Init`;
- `CheckTransactions` subtracting the count instead of the priority;
- a `getInputSums` reply that leaves the loop blocked;
- `ForwardBlock` marking the block in `SeenTxs`;
- a merkle root that pads a single transaction;
- an append that does not test `PreviousHash == LastHash`;
- `GetBlocks` not reversing the walk;
- `Bootstrap` skipping blocks already in `SeenBlocks`.

More configurations are kept beside the listed runs. All but
`MCAddressBook.cfg` and `MCStoreWriters_serial.cfg` find a violation:
- `MCNode_miner_length.cfg` breaks `MinerLengthTracksChain`. Two
  `ForwardBlock` calls of one block both pass the unsynchronised `SeenBlocks`
  check, and both tell the miner, so `ChainLength` ends one ahead of
  `Length` (server.go:191-201).
- `MCMerkle_malleable.cfg` breaks `BlockHashBindsTransactions`. `<<t, t, t>>`
  and `<<t, t, t, t>>` get the same merkle root and the same block hash,
  because the last hash of an odd level is repeated (block.go:135).
- `MCNode_served_top.cfg` breaks `ServedBlocksFollowTop`. `GetBlocks` reads
  `Length` (2) and then `LastBlock` in separate steps, and B2 is appended in
  between. The walk counts heights from the stale `Length`, so a peer at
  genesis is sent `<<B2>>` without B1 (blockchain.go:252-259).
- `MCNode_bootstrap_race.cfg` breaks `BootstrapFetchesLongest`. It uses two
  peers, one a block behind the other. Both goroutines pass the check while
  `longestRes` is nil, and their writes interleave. `longestRes` ends as the
  shorter answer and `addr` as the other peer (node.go:243-245). In the mirror
  order, the node asks the shorter peer for a block it lacks, and both
  panic.
- `MCBlockChain_dup_coinbase.cfg` breaks `EveryCoinbaseCounted`, the
  balance of spec.md scenario S2. B1's only transaction is a coinbase with
  the genesis coinbase's fields, so it has the same hash (transaction.go:122).
  Its coin goes to the same locator and coin record, and `GetBalance`
  answers 4 where S2 expects both coinbases, 8.
- `MCMiner_timeout_priority.cfg` breaks `PrioritiesMatchFees`. After a
  `getInputSums` timeout the input sum is 0, and `fees = 0 - SumOutputs`
  wraps (modulo 2^10 in the model, 2^32 in the code). t1 enters the pool
  with priority 13, where its fees give 10 (transactionpool.go:69,
  mine.go:49).
- `MCStoreWriters_race.cfg` breaks `LocatorsReadBack`. Two StoreBlock calls
  of B1 and B2 run with no lock, as two `ForwardBlock` handlers do. B2 is
  appended at offset 2 and B1 after it at 4. B1's call then builds its
  FileInfo from the shared offset, still 2 because B2's call has not
  advanced it, so B1's record reads back B2
  (chainwriter.go:118-135). spec.md section 5 requires a lock across
  write_block and write_undo.
- `MCStoreWriters_serial.cfg` passes. It has the same two calls under a
  CONSTRAINT that lets one call write at a time, in 21 states. It checks
  `TypeOK` and `LocatorsReadBack`, across a rotation of the block file.

- `MCAddressBook.cfg` passes with one hello and one three-entry gossip
  call (one entry is the node itself), `Width` = 2 and time up to 5, in
  about 1 900 states. It checks `TypeOK` and `PeersKnownToAddressDb`: every
  `PeerDb` entry has an AddressDB record, because a failed `Add` returns
  before `PeerDb.Add`.
- `MCAddressBook_limit.cfg` breaks `AddressDbWithinLimit`. Two hellos from
  different addresses with `Limit` 1 both pass `Add`'s length test before
  either writes (ephemeraldb.go:22).
- `MCAddressBook_gossip_race.cfg` breaks `NewestSightingKept`. Two gossip
  calls about a1, seen at times 2 and 1, both find it missing and both add
  it. The second write replaces the newer record (server.go:120,
  ephemeraldb.go:25).
- `MCAddressBook_wrap.cfg` breaks `NewestSightingKept` with the calls run
  one after the other. A hello at time 4 stores `LastSeen` 0, which is the
  uint32 wrap with `Width` 2. A later gossip entry seen at time 3 compares
  as newer and replaces it (server.go:35, 103).

## Bounds

- Five blocks per universe: enough for a reorg of depth 2 over a common
  ancestor, a rejected sibling, and a coinbase-only block.
- At most three transactions per block and two outputs per transaction.
- `MainCacheCapacity` is 5 in the Lin universe and 3 in the Fork universe.
  - At 5, some blocks are stored without a flush, so `GetBalance`'s own flush
    matters.
  - At 3, nearly every block flushes, which exposes the leveldb-only paths of
    `updateSpentCoins` and `UndoCoins`.
- `mainCacheSize` is a `uint32`, modelled modulo `SizeModulus` = 16. This is
  larger than any count these universes reach without wrapping, so the wrap
  happens only through the underflow in `UndoCoins`.
- The state spaces are finite because blocks are a fixed set and records are
  overwritten, not accumulated. The runs finish in seconds.
- **Node**: the Lin universe; every block is 2 bytes and an undo slot 1 byte.
  Block files hold 5 bytes and undo files 3, so both families rotate within
  four blocks, and an empty undo block skips a write. Blocks reach the node
  both by `ForwardBlock` and by `Bootstrap`, so the SeenBlocks interplay
  happens, and a `GetBlocks` call races the appends. About 390 000 states,
  75 s. Delivering B1 twice as well pushes the run past ten minutes, so that
  case is kept to `MCNode_miner_length.cfg`.
- **Miner**: three transactions with priorities 10, 4 and 20. Three handlers
  are enough for every heap shape of up to three nodes, and for a push racing
  a removal. Capacity 3. `Width` = 10 leaves room for every sum of these
  priorities without wrapping, except where the code itself wraps.
- **Merkle**: lists of up to 5 transactions give odd levels at height 0
  (3 and 5 leaves) and at height 1 (5 leaves, 3 nodes).

## Fairness

- **BlockChain, Node, Merkle**: none. Their properties are safety properties
  or refinements of a safety specification. The node handles a block only
  when a peer sends it, so no step is guaranteed to happen. Deadlock is not
  checked, because once every call has returned the node rightly stops.
- **Miner**: weak fairness on each goroutine's steps. The Go scheduler
  eventually runs every runnable goroutine, and a goroutine blocked on a
  channel is not enabled, so fairness cannot make it progress. Node-level
  events such as `StartMiner` get no fairness, because nothing forces them.
  Deadlock is not checked, because the program stops when every handler has
  returned. `HandlersReturn` is the property about stopping too early.

## Not modelled yet, and the plan

- **Bootstrap racing ForwardBlock on the `SeenBlocks` map**: `SeenBlocks`
  is a plain Go map, written without a lock by Bootstrap and by the
  handlers, and the Go runtime may abort on concurrent map writes. The model
  treats each write as atomic.
- **GetData of an unknown hash** (server.go:84): `GetBlock` never returns
  nil, so the nil check is dead, and the read of an empty FileInfo panics.
  This is modelled only as the peer side of `BootstrapFetchFails`.
- **Inside HandleBlock**: its interleaving with other handlers, apart from
  the file writes in `StoreWriters`. It is one step in `BlockChain` and
  `Node`, as spec.md section 5 requires, while the Go code locks nothing.
- **Miner's `TxPool.Add` capacity race** (transactionpool.go:92) and the
  `Count` wrap between the push and `Count.Inc`. Both are modelled in
  `Miner`, but no listed run checks them.
- **block.New with no transactions**: it hangs. A step that never returns
  cannot be a TLC step, so it is documented here instead.
- **A CoinDB driver**: for the store/undo inverse of spec.md 8.7 and the
  `mainCacheSize` underflow.
- **Out of scope**:
  - wallet (stubs);
  - the gRPC transport (`address/client.go`, I/O), the `peer` package (not in
    the repository) and gossip between nodes;
  - protobuf codecs and config (conversions abstracted to values);
  - mining itself (nonce search over SHA-256).

  `chainwriter.New` exits when its directory exists, and nothing is
  recovered on restart, so there is no crash recovery to model.
