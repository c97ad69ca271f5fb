----------------------------- MODULE BlockChain -----------------------------
(***************************************************************************)
(* The chain manager of pkg/blockchain/blockchain.go with the stores it    *)
(* drives: the coin database (module CoinDB), the block-info database      *)
(* (index: hash -> BlockRecord) and the chain writer, whose files are      *)
(* abstracted to what a BlockRecord's locators resolve to: the block body  *)
(* is the block itself, and the undo locator resolves to the undo block    *)
(* that was written, or to nothing (NoUndo) when StoreBlock skipped it     *)
(* because UndoBlock.Amounts was nil.                                      *)
(*                                                                         *)
(* HandleBlock runs under the caller's serialisation (spec.md section 5),  *)
(* so each call is one atomic step.  Blocks arrive in any order and may    *)
(* arrive again (Bootstrap calls HandleBlock without the SeenBlocks        *)
(* filter).  A log.Panicf or an index out of range ends the process:       *)
(* crashed, after which nothing happens.                                   *)
(***************************************************************************)
EXTENDS Integers, Sequences, SequencesExt, TLC, Chains

CONSTANTS
    TxIds, TxInputs, TxOutputs, MainCacheCapacity, SizeModulus, NoCoin,
    Genesis,        \* hash of GenesisBlock(config)
    BlockTxs,       \* BlockTxs[b]: b.Transactions
    NoHash,         \* ""
    NoUndo,         \* an empty undo FileInfo
    PKs,            \* public keys GetBalance is asked about
    NoReport        \* no GetBalance answer in this state

VARIABLES
    length,         \* bc.Length
    lastHash,       \* bc.LastHash (= bc.LastBlock.Hash())
    unsafeHashes,   \* bc.UnsafeHashes
    index,          \* BlockInfoDB: hash -> [prev, height, undo]
    mainCache, mainCacheSize, db,   \* bc.CoinDB
    reported,       \* the answer of the GetBalance call made in the last step
    crashed         \* the process has panicked

CDB == INSTANCE CoinDB

chainVars == <<length, lastHash, unsafeHashes>>
vars == <<length, lastHash, unsafeHashes, index, mainCache, mainCacheSize, db,
          reported, crashed>>

\* The literal 6 of HandleBlock and handleFork (the maxHashes field is unused).
MaxHashes == 6

EmptyRecord == [prev |-> NoHash, height |-> 0, undo |-> NoUndo]

\* GetBlockRecord: a missing key unmarshals nil bytes into an empty record.
GetBlockRecord(idx, h) == IF h \in DOMAIN idx THEN idx[h] ELSE EmptyRecord

-----------------------------------------------------------------------------
(* makeUndoBlock: one slot per input of every transaction, read with       *)
(* GetCoin (which returns a cached coin even when it is spent); the first  *)
(* input with no coin makes the whole undo block empty.                    *)

MakeUndoBlock(cs, txs) ==
    LET ins == FoldLeft(LAMBDA acc, t : acc \o TxInputs[t], <<>>, txs)
    IN  IF \E k \in 1 .. Len(ins) : CDB!GetCoin(cs, ins[k]) = NoCoin
        THEN <<>>
        ELSE [k \in 1 .. Len(ins) |->
                [ref |-> ins[k].ref, out |-> ins[k].out,
                 amount |-> CDB!GetCoin(cs, ins[k]).amount,
                 lockingScript |-> CDB!GetCoin(cs, ins[k]).lockingScript]]

\* ChainWriter.StoreBlock writes the undo block only when Amounts != nil.
UndoLocator(ub) == IF ub = <<>> THEN NoUndo ELSE ub

-----------------------------------------------------------------------------
(* handleFork helpers.                                                     *)

RECURSIVE ForkWalk(_, _, _)
\* getForkLengthAndAncestor: at most len(UnsafeHashes)+1 probes from the
\* new block back along the index; <<-1, NoHash>> when none is unsafe.
ForkWalk(idx, h, i) ==
    IF i >= Len(unsafeHashes) + 1 THEN <<-1, NoHash>>
    ELSE IF h \in ToSet(unsafeHashes) THEN <<i, h>>
    ELSE ForkWalk(idx, GetBlockRecord(idx, h).prev, i + 1)

RECURSIVE WalkBack(_, _, _)
\* getBlocksAndUndoBlocks: n hashes back from h, tip first.
WalkBack(idx, h, n) ==
    IF n = 0 THEN <<>>
    ELSE <<h>> \o WalkBack(idx, GetBlockRecord(idx, h).prev, n - 1)

\* GetBlock / getUndoBlock panic on a record whose file name is empty.
Unreadable(idx, h) == h \notin DOMAIN idx \/ idx[h].undo = NoUndo

RECURSIVE TrimUnsafe(_, _, _)
\* for i := min-1; i > 0; i-- { if UnsafeHashes[i] == ancestor break; else
\* drop the last }.  <<>> stands for the index-out-of-range panic (the
\* loop never empties the slice: it stops at i = 1 with one hash left).
TrimUnsafe(u, i, ancestor) ==
    IF i <= 0 THEN u
    ELSE IF i >= Len(u) THEN <<>>
    ELSE IF u[i + 1] = ancestor THEN u
    ELSE TrimUnsafe(Front(u), i - 1, ancestor)

-----------------------------------------------------------------------------
(* HandleBlock(b).  The common prefix: appendsToActiveChain, the undo     *)
(* block made against the current coin database, the height from the     *)
(* previous block's record, and the BlockRecord stored for b.             *)

Appends(b) == lastHash = BlockPrev[b]

Height(b) == GetBlockRecord(index, BlockPrev[b]).height + 1

StoredIndex(b) ==
    CDB!Put(index, b,
            [prev |-> BlockPrev[b], height |-> Height(b),
             undo |-> UndoLocator(MakeUndoBlock(CDB!CoinState, BlockTxs[b]))])

\* 1. An appending block that fails ValidateBlock is dropped.
RejectBlock(b) ==
    /\ Appends(b)
    /\ ~CDB!ValidateBlock(CDB!CoinState, BlockTxs[b])
    /\ reported' = NoReport
    /\ UNCHANGED <<chainVars, index, mainCache, mainCacheSize, db, crashed>>

\* Mutant of AppendBlock: bc.Length++ left out.
AppendBlockNoLength(b) ==
    /\ Appends(b)
    /\ CDB!ValidateBlock(CDB!CoinState, BlockTxs[b])
    /\ index' = StoredIndex(b)
    /\ CDB!BecomesCoinState(CDB!StoreBlock(CDB!CoinState, BlockTxs[b]))
    /\ lastHash' = b
    /\ unsafeHashes' = Append(IF Len(unsafeHashes) >= MaxHashes
                              THEN Tail(unsafeHashes) ELSE unsafeHashes, b)
    /\ UNCHANGED <<length, crashed>>
    /\ reported' = NoReport

\* Mutant of AppendBlock: a valid block is appended whatever its parent.
AppendBlockAnyParent(b) ==
    /\ CDB!ValidateBlock(CDB!CoinState, BlockTxs[b])
    /\ index' = StoredIndex(b)
    /\ CDB!BecomesCoinState(CDB!StoreBlock(CDB!CoinState, BlockTxs[b]))
    /\ length' = length + 1
    /\ lastHash' = b
    /\ unsafeHashes' = Append(IF Len(unsafeHashes) >= MaxHashes
                              THEN Tail(unsafeHashes) ELSE unsafeHashes, b)
    /\ reported' = NoReport
    /\ UNCHANGED crashed

\* 7. Appending: store the record, apply the block, move the tip.
AppendBlock(b) ==
    /\ Appends(b)
    /\ CDB!ValidateBlock(CDB!CoinState, BlockTxs[b])
    /\ index' = StoredIndex(b)
    /\ CDB!BecomesCoinState(CDB!StoreBlock(CDB!CoinState, BlockTxs[b]))
    /\ length' = length + 1
    /\ lastHash' = b
    /\ unsafeHashes' = Append(IF Len(unsafeHashes) >= MaxHashes
                              THEN Tail(unsafeHashes) ELSE unsafeHashes, b)
    /\ reported' = NoReport
    /\ UNCHANGED crashed

\* A block off the active chain that is not higher than the tip is kept
\* on disk only.
RetainBlock(b) ==
    /\ ~Appends(b)
    /\ Height(b) <= length
    /\ index' = StoredIndex(b)
    /\ reported' = NoReport
    /\ UNCHANGED <<chainVars, mainCache, mainCacheSize, db, crashed>>

\* 8. A higher block off the active chain: handleFork(b, height).
ForkBlock(b) ==
    LET idx      == StoredIndex(b)
        found    == ForkWalk(idx, b, 0)
        n        == found[1]
        ancestor == found[2]
        walked   == WalkBack(idx, lastHash, n)
        trimmed  == TrimUnsafe(unsafeHashes, IF n < MaxHashes THEN n - 1 ELSE MaxHashes - 1,
                               ancestor)
        walkedTxs == [k \in 1 .. n |-> BlockTxs[walked[k]]]
        walkedUndos == [k \in 1 .. n |-> idx[walked[k]].undo]
        undone   == CDB!UndoCoins(CDB!CoinState, walkedTxs, walkedUndos)
        restored == CDB!Thread(LAMBDA st, bt : CDB!StoreBlock(st, bt), undone, walkedTxs)
    IN  /\ ~Appends(b)
        /\ Height(b) > length
        /\ index' = idx
        /\ reported' = NoReport
        /\ IF n < 0
           THEN UNCHANGED <<chainVars, mainCache, mainCacheSize, db, crashed>>
           ELSE IF (\E k \in 1 .. n : Unreadable(idx, walked[k])) \/ trimmed = <<>>
           THEN /\ crashed' = TRUE
                /\ UNCHANGED <<chainVars, mainCache, mainCacheSize, db>>
           ELSE /\ unsafeHashes' = trimmed \o Reverse(walked)
                /\ CDB!BecomesCoinState(restored)
                /\ lastHash' = b
                /\ length' = Height(b)
                /\ UNCHANGED crashed

HandleBlock(b) ==
    /\ ~crashed
    /\ \/ RejectBlock(b)
       \/ AppendBlock(b)
       \/ RetainBlock(b)
       \/ ForkBlock(b)

\* Mutant of GetBalance: the records are summed without the flush.
GetBalanceNoFlush(pk) ==
    /\ ~crashed
    /\ reported' = [pk |-> pk, amount |-> CDB!BalanceIn(CDB!CoinState, pk)]
    /\ UNCHANGED <<chainVars, index, mainCache, mainCacheSize, db, crashed>>

\* GetBalance: the coin database flushes its cache, then sums the records.
GetBalance(pk) ==
    LET flushed == CDB!FlushMainCache(CDB!CoinState)
    IN  /\ ~crashed
        /\ CDB!BecomesCoinState(flushed)
        /\ reported' = [pk |-> pk, amount |-> CDB!BalanceIn(flushed, pk)]
        /\ UNCHANGED <<chainVars, index, crashed>>

-----------------------------------------------------------------------------
(* New(config): the genesis block is stored in the coin database, written *)
(* with an empty undo block (so no undo file), and indexed at height 1.   *)

GenesisCoinState == CDB!StoreBlock(CDB!EmptyCoinState, BlockTxs[Genesis])

Init ==
    /\ mainCache = GenesisCoinState.cache
    /\ mainCacheSize = GenesisCoinState.size
    /\ db = GenesisCoinState.db
    /\ index = (Genesis :> [prev |-> NoHash, height |-> 1, undo |-> NoUndo])
    /\ length = 1
    /\ lastHash = Genesis
    /\ unsafeHashes = <<Genesis>>
    /\ reported = NoReport
    /\ crashed = FALSE

Next ==
    \/ \E b \in Blocks : HandleBlock(b)
    \/ \E pk \in PKs : GetBalance(pk)

Spec == Init /\ [][Next]_vars

-----------------------------------------------------------------------------
(* Properties.                                                             *)

BlockRecords == [prev : Blocks \cup {NoHash}, height : Nat,
                 undo : {NoUndo} \cup Seq([ref : TxIds, out : Nat, amount : Nat,
                                           lockingScript : PKs])]

TypeOK ==
    /\ CDB!CoinTypeOK
    /\ length \in Nat
    /\ lastHash \in Blocks
    /\ unsafeHashes \in Seq(Blocks)
    /\ DOMAIN index \subseteq Blocks
    /\ \A h \in DOMAIN index : index[h] \in BlockRecords
    /\ reported \in {NoReport} \cup [pk : PKs, amount : Nat]
    /\ crashed \in BOOLEAN

\* The abstract ledger the chain manager presents: the chain from the
\* genesis block to LastHash, and the coins the coin database answers as
\* unspent (GetCoin: cache first, then the leveldb records).
L == INSTANCE Ledger WITH chain <- ChainTo(lastHash),
                          utxo <- CDB!UnspentView(CDB!CoinState)

\* HandleBlock and GetBalance implement the ledger: every append, retain,
\* reject or reorg, and every cache flush, leaves the chain extended by a
\* block whose inputs were distinct unspent coins (or switched to a longer
\* valid chain) and the coin database showing exactly that chain's coins.
LedgerRefinement == L!LedgerSpec

\* Sum of the amounts of a set of coins locked to pk.
LockedTo(coins, pk) ==
    FoldSet(LAMBDA c, acc : IF c.lockingScript = pk THEN acc + c.amount ELSE acc,
            0, coins)

\* GetBalance (flush, then sum every leveldb record) answers the amount of
\* the active chain's unspent outputs locked to the key.
BalanceMatchesLedger ==
    reported # NoReport =>
        reported.amount = LockedTo(L!UtxoOf(ChainTo(lastHash)), reported.pk)

\* What the outputs of a chain's blocks pay to pk, counted per block.
ChainPaidTo(c, pk) ==
    LET OutPaid(o, acc) == IF o.lockingScript = pk THEN acc + o.amount ELSE acc
        TxPaid(t, acc) == FoldSeq(OutPaid, acc, TxOutputs[t])
        BlockPaid(b, acc) == FoldSeq(TxPaid, acc, BlockTxs[b])
    IN  FoldSeq(BlockPaid, 0, c)

\* spec.md S2: every block's coinbase pays its key, so after a block whose
\* only transaction is a coinbase like the genesis one, GetBalance answers
\* both amounts.  On a chain where no transaction spends, the balance is
\* what every block's outputs pay the key, even when two transactions of
\* different blocks hash alike (Transaction.Hash of equal fields).
EveryCoinbaseCounted ==
    (reported # NoReport
     /\ \A k \in 1 .. Len(ChainTo(lastHash)) :
           \A i \in 1 .. Len(BlockTxs[ChainTo(lastHash)[k]]) :
              TxInputs[BlockTxs[ChainTo(lastHash)[k]][i]] = <<>>)
        => reported.amount = ChainPaidTo(ChainTo(lastHash), reported.pk)

\* bc.Length, kept by Length++ on append and Length = height on a fork,
\* is the number of blocks from the genesis block to LastHash, whatever
\* order the blocks arrived in (heights come from stored BlockRecords).
LengthIsChainLength == length = Len(ChainTo(lastHash))

\* The coin cache stays within mainCacheCapacity (spec.md 4.5: the cache
\* is bounded by cacheCapacity): storeTransactionsInMainCache flushes
\* before it would reach the capacity, but FlushMainCache evicts only the
\* spent coins while resetting mainCacheSize to 0.
CacheWithinCapacity == Cardinality(DOMAIN mainCache) <= MainCacheCapacity

\* The active chain is at least as long as every chain of stored blocks
\* from the genesis block whose blocks are valid in turn: a block whose
\* parent arrived after it was stored with height 1 (GetBlockRecord of a
\* missing parent), so its descendants may never trigger handleFork.
ActiveChainIsLongestKnown ==
    \A h \in DOMAIN index :
        LET c == ChainTo(h)
        IN  (\A k \in 1 .. Len(c) : c[k] \in DOMAIN index) /\ L!AllValid(c)
                => Len(c) <= length

\* Every block from the genesis block to LastHash is stored: whatever order
\* blocks arrive in, HandleBlock never makes a block the tip while one of
\* its ancestors is missing from the BlockInfoDatabase.
ActiveChainStored == \A k \in 1 .. Len(ChainTo(lastHash)) : ChainTo(lastHash)[k] \in DOMAIN index

\* HandleBlock never panics (getBlocksAndUndoBlocks reading a record with
\* no file, or the trim loop of handleFork indexing past UnsafeHashes).
NoPanic == ~crashed
=============================================================================
