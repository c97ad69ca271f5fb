-------------------------------- MODULE Node --------------------------------
(***************************************************************************)
(* The node's block and transaction intake (pkg/server.go, validation.go, *)
(* node.go) composed with the chain manager (module BlockChain) and its    *)
(* ChainWriter files (module ChainWriter).                                 *)
(*                                                                         *)
(* gRPC serves every ForwardBlock and ForwardTransaction call on its own   *)
(* goroutine, so the handlers are jobs with a program counter whose steps *)
(* interleave: each step is one access to shared state (a SeenBlocks read, *)
(* a SeenBlocks write, CheckBlock, the mnChn test, HandleBlock).           *)
(* HandleBlock itself, with the ChainWriter.StoreBlock it calls, is one    *)
(* step: its own interleavings are not modelled.  Bootstrap asks every    *)
(* peer for GetBlocks on a goroutine each, then hands the blocks of the    *)
(* longest answer to HandleBlock one by one.  `go Miner.HandleBlock(b)` is *)
(* the handler's last step; of the miner only its ChainLength              *)
(* (IncrementChainLength) is kept here.                                    *)
(***************************************************************************)
EXTENDS Integers, Sequences, FiniteSets, TLC

CONSTANTS
    Blocks, BlockPrev, TxIds, TxInputs, TxOutputs, MainCacheCapacity,
    SizeModulus, NoCoin, Genesis, BlockTxs, NoHash, NoUndo, PKs, NoReport,
    MaxBlockFileSize, MaxUndoFileSize, NoFileInfo, Garbage,
    BlockBytes,     \* BlockBytes[b]: length of proto.Marshal(EncodeBlock(b))
    UndoEntryBytes, \* bytes one undo slot adds to a marshalled UndoBlock
    BlockJobs,      \* ForwardBlock calls
    JobBlock,       \* JobBlock[j]: the block of call j
    TxJobs,         \* ForwardTransaction calls
    JobTx,          \* JobTx[j]: the transaction of call j
    Peers,          \* n.PeerDb.List()
    PeerChain,      \* PeerChain[p]: the active chain of peer p past genesis
    NoPeer,         \* a nil longestRes / addr
    HasMiner,       \* Config.MinerConfig.HasMiner
    GetBlocksJobs,  \* GetBlocks calls from peers
    JobTop          \* JobTop[j]: the TopBlockHash of call j

VARIABLES
    length, lastHash, unsafeHashes, index, mainCache, mainCacheSize, db,
    reported, crashed,
    seenBlocks,     \* n.SeenBlocks
    seenTxs,        \* n.SeenTransactions
    pc,             \* program counter of each handler
    mnChn,          \* mnChn of each ForwardBlock call
    minerLength,    \* Miner.ChainLength
    bootPhase,      \* where Bootstrap is: "start", "wait", "fetch", "done"
    bootTop,        \* topBlockHash
    bootPc,         \* program counter of each GetBlocksRPC goroutine
    longestRes,     \* the peer whose answer longestRes holds, or NoPeer
    addr,           \* addr: the peer the blocks are fetched from, or NoPeer
    bootIdx,        \* next position in the longestRes answer
    cw,             \* bc.ChainWriter
    locs,           \* the BlockFile/UndoFile locators of each BlockRecord
    gb              \* locals of each GetBlocks call: ind, upper, cur, last, answer

BC == INSTANCE BlockChain
CDB == INSTANCE CoinDB
CW == INSTANCE ChainWriter

bcVars == <<length, lastHash, unsafeHashes, index, mainCache, mainCacheSize,
            db, reported, crashed>>
bootVars == <<bootPhase, bootTop, bootPc, longestRes, addr, bootIdx>>
vars == <<bcVars, seenBlocks, seenTxs, pc, mnChn, minerLength, bootVars, cw, locs, gb>>

Jobs == BlockJobs \cup TxJobs \cup GetBlocksJobs

\* Length of a marshalled UndoBlock: its slots are parallel arrays.
UndoBytes(ub) == UndoEntryBytes * Len(ub)

\* ChainWriter.StoreBlock as HandleBlock calls it (genesis included): the
\* undo block is made against the coin database before the block is applied.
StoredLocs(b) ==
    CW!StoreBlock(cw, b, BlockBytes[b], BC!MakeUndoBlock(CDB!CoinState, BlockTxs[b]),
                  UndoBytes(BC!MakeUndoBlock(CDB!CoinState, BlockTxs[b])))

\* HandleBlock(b) with the writes it makes to the ChainWriter: every branch
\* but the early return of an appending block that fails ValidateBlock
\* writes the block before storing its record.
HandleBlockWithFiles(b) ==
    /\ BC!HandleBlock(b)
    /\ IF BC!Appends(b) /\ ~CDB!ValidateBlock(CDB!CoinState, BlockTxs[b])
       THEN UNCHANGED <<cw, locs>>
       ELSE LET st == StoredLocs(b)
            IN  /\ cw' = st.cw
                /\ locs' = [h \in DOMAIN locs \cup {b} |->
                              IF h = b THEN [blk |-> st.blockFi, undo |-> st.undoFi]
                              ELSE locs[h]]

Goto(j, l) == pc' = [pc EXCEPT ![j] = l]

-----------------------------------------------------------------------------
(* ForwardBlock(b).                                                        *)

\* _, seen := n.SeenBlocks[b.Hash()]; a seen block returns at once.
ForwardBlockSeen(j) ==
    /\ pc[j] = "recv"
    /\ ~crashed
    /\ Goto(j, IF JobBlock[j] \in seenBlocks THEN "done" ELSE "mark")
    /\ UNCHANGED <<bcVars, seenBlocks, seenTxs, mnChn, minerLength, bootVars, cw, locs, gb>>

\* Mutant of ForwardBlockMark: the hash goes into SeenTransactions, as in
\* the handler it was copied from.
ForwardBlockMarkTxMap(j) ==
    /\ pc[j] = "mark"
    /\ ~crashed
    /\ seenTxs' = seenTxs \cup {JobBlock[j]}
    /\ Goto(j, "check")
    /\ UNCHANGED <<bcVars, seenBlocks, mnChn, minerLength, bootVars, cw, locs, gb>>

\* n.SeenBlocks[b.Hash()] = true, a separate write: two calls for one block
\* can both have read "unseen".
ForwardBlockMark(j) ==
    /\ pc[j] = "mark"
    /\ ~crashed
    /\ seenBlocks' = seenBlocks \cup {JobBlock[j]}
    /\ Goto(j, "check")
    /\ UNCHANGED <<bcVars, seenTxs, mnChn, minerLength, bootVars, cw, locs, gb>>

\* CheckBlock: the syntax, semantics and configuration checks are commented
\* out; only CoinDB.ValidateBlock against the active chain's coins is left.
CheckBlock(b) == CDB!ValidateBlock(CDB!CoinState, BlockTxs[b])

\* An invalid block returns an error; it stays seen.
ForwardBlockCheck(j) ==
    /\ pc[j] = "check"
    /\ ~crashed
    /\ Goto(j, IF CheckBlock(JobBlock[j]) THEN "mnChn" ELSE "done")
    /\ UNCHANGED <<bcVars, seenBlocks, seenTxs, mnChn, minerLength, bootVars, cw, locs, gb>>

\* mnChn := LastHash == b.PreviousHash && ValidateBlock(b.Transactions),
\* read before HandleBlock runs.
ForwardBlockMnChn(j) ==
    /\ pc[j] = "mnChn"
    /\ ~crashed
    /\ mnChn' = [mnChn EXCEPT ![j] = lastHash = BlockPrev[JobBlock[j]]
                                  /\ CDB!ValidateBlock(CDB!CoinState, BlockTxs[JobBlock[j]])]
    /\ Goto(j, "handle")
    /\ UNCHANGED <<bcVars, seenBlocks, seenTxs, minerLength, bootVars, cw, locs, gb>>

\* n.BlockChain.HandleBlock(b), then `go n.Miner.HandleBlock(b)` when the
\* node has a miner and mnChn held.
ForwardBlockHandle(j) ==
    /\ pc[j] = "handle"
    /\ HandleBlockWithFiles(JobBlock[j])
    /\ Goto(j, IF HasMiner /\ mnChn[j] THEN "notify" ELSE "done")
    /\ UNCHANGED <<seenBlocks, seenTxs, mnChn, minerLength, bootVars, gb>>

\* Miner.HandleBlock on its goroutine: IncrementChainLength (the pool's
\* CheckTransactions that follows is module Miner's).
MinerHandleBlock(j) ==
    /\ pc[j] = "notify"
    /\ ~crashed
    /\ minerLength' = minerLength + 1
    /\ Goto(j, "done")
    /\ UNCHANGED <<bcVars, seenBlocks, seenTxs, mnChn, bootVars, cw, locs, gb>>

ForwardBlock(j) ==
    \/ ForwardBlockSeen(j)
    \/ ForwardBlockMark(j)
    \/ ForwardBlockCheck(j)
    \/ ForwardBlockMnChn(j)
    \/ ForwardBlockHandle(j)
    \/ MinerHandleBlock(j)

-----------------------------------------------------------------------------
(* ForwardTransaction(t).                                                  *)

ForwardTransactionSeen(j) ==
    /\ pc[j] = "recv"
    /\ ~crashed
    /\ Goto(j, IF JobTx[j] \in seenTxs THEN "done" ELSE "mark")
    /\ UNCHANGED <<bcVars, seenBlocks, seenTxs, mnChn, minerLength, bootVars, cw, locs, gb>>

ForwardTransactionMark(j) ==
    /\ pc[j] = "mark"
    /\ ~crashed
    /\ seenTxs' = seenTxs \cup {JobTx[j]}
    /\ Goto(j, "check")
    /\ UNCHANGED <<bcVars, seenBlocks, mnChn, minerLength, bootVars, cw, locs, gb>>

\* CheckTransactionSyntax: inputs and outputs not empty, amounts above 0.
CheckTransactionSyntax(t) ==
    /\ Len(TxInputs[t]) > 0 /\ Len(TxOutputs[t]) > 0
    /\ \A k \in 1 .. Len(TxOutputs[t]) : TxOutputs[t][k].amount > 0

\* CheckTransactionSemantics returns false for every transaction.
CheckTransactionSemantics(t) == FALSE

\* CheckTransaction: valid := syntax && semantics && configuration (the
\* last never evaluated, semantics being false), then ValidateTransaction.
CheckTransaction(t) ==
    /\ CheckTransactionSyntax(t) /\ CheckTransactionSemantics(t)
    /\ CDB!ValidateTransaction(CDB!CoinState, t)

\* A transaction that fails CheckTransaction returns an error; one that
\* passes goes to Miner.HandleTransaction (module Miner) when HasMiner.
ForwardTransactionCheck(j) ==
    /\ pc[j] = "check"
    /\ ~crashed
    /\ Goto(j, IF CheckTransaction(JobTx[j]) /\ HasMiner THEN "pool" ELSE "done")
    /\ UNCHANGED <<bcVars, seenBlocks, seenTxs, mnChn, minerLength, bootVars, cw, locs, gb>>

ForwardTransaction(j) ==
    \/ ForwardTransactionSeen(j)
    \/ ForwardTransactionMark(j)
    \/ ForwardTransactionCheck(j)

-----------------------------------------------------------------------------
(* GetBlocks(TopBlockHash), served to a peer on its own goroutine, and the *)
(* BlockChain.GetBlocks it calls.  Its reads of shared state are separate  *)
(* steps: the requester's record and Length (server.go), then Length and  *)
(* LastBlock (blockchain.go), then the walk down the index, which reads    *)
(* only records and append-only files and is taken as one step.           *)

\* upperIndex is cut to ind + 500: "a maximum of 500 headers".
MaxBlocksAnswer == 500

NoLocals == [ind |-> 0, upper |-> 0, cur |-> 0, last |-> NoHash, answer |-> <<>>]

\* br := GetBlockRecord(TopBlockHash) (never nil: a missing hash gives the
\* empty record, height 0); when ind < Length the range is ind+1 .. upper,
\* otherwise the answer is empty.
GetBlocksRecord(j) ==
    LET ind == BC!GetBlockRecord(index, JobTop[j]).height
    IN  /\ pc[j] = "recv"
        /\ ~crashed
        /\ IF ind < length
           THEN /\ gb' = [gb EXCEPT ![j].ind = ind,
                                    ![j].upper = IF ind + MaxBlocksAnswer < length
                                                 THEN ind + MaxBlocksAnswer ELSE length]
                /\ Goto(j, "length")
           ELSE /\ Goto(j, "done")
                /\ UNCHANGED gb
        /\ UNCHANGED <<bcVars, seenBlocks, seenTxs, mnChn, minerLength, bootVars, cw, locs>>

\* currentHeight := bc.Length
GetBlocksLength(j) ==
    /\ pc[j] = "length"
    /\ ~crashed
    /\ gb' = [gb EXCEPT ![j].cur = length]
    /\ Goto(j, "last")
    /\ UNCHANGED <<bcVars, seenBlocks, seenTxs, mnChn, minerLength, bootVars, cw, locs>>

\* nextHash := bc.LastBlock.Hash(), read after Length.
GetBlocksLast(j) ==
    /\ pc[j] = "last"
    /\ ~crashed
    /\ gb' = [gb EXCEPT ![j].last = lastHash]
    /\ Goto(j, "walk")
    /\ UNCHANGED <<bcVars, seenBlocks, seenTxs, mnChn, minerLength, bootVars, cw, locs>>

\* ReadBlock of the record's BlockFile range; a missing record's empty
\* FileInfo panics in readFromDisk.
ReadBlockAt(h) ==
    CW!ReadFromDisk(cw, IF h \in DOMAIN locs THEN locs[h].blk ELSE NoFileInfo)

RECURSIVE WalkChain(_, _, _, _)
\* for currentHeight >= start: read the record, keep the block read from
\* disk when currentHeight <= end, step to PreviousHash.  Tip first.
WalkChain(h, cur, start, end) ==
    IF cur < start THEN <<>>
    ELSE (IF cur <= end THEN <<ReadBlockAt(h)>> ELSE <<>>)
         \o WalkChain(BC!GetBlockRecord(index, h).prev, cur - 1, start, end)

\* Mutant of ReverseBlocks: the walk's list is returned tip first.
ReverseBlocksNone(s) == s

\* reverseBlocks: the walk's list in chain order.
ReverseBlocks(s) == BC!Reverse(s)

\* The walk and the answer (bn.Hash() of each block read); a panic in
\* readFromDisk ends the process.
GetBlocksWalk(j) ==
    LET w == WalkChain(gb[j].last, gb[j].cur, gb[j].ind + 1, gb[j].upper)
    IN  /\ pc[j] = "walk"
        /\ ~crashed
        /\ IF \E k \in 1 .. Len(w) : w[k] = "panic"
           THEN /\ crashed' = TRUE
                /\ UNCHANGED <<gb, pc>>
           ELSE /\ gb' = [gb EXCEPT ![j].answer = ReverseBlocks(w)]
                /\ Goto(j, "done")
                /\ UNCHANGED crashed
        /\ UNCHANGED <<length, lastHash, unsafeHashes, index, mainCache, mainCacheSize,
                       db, reported, seenBlocks, seenTxs, mnChn, minerLength, bootVars, cw, locs>>

GetBlocks(j) ==
    \/ GetBlocksRecord(j)
    \/ GetBlocksLength(j)
    \/ GetBlocksLast(j)
    \/ GetBlocksWalk(j)

-----------------------------------------------------------------------------
(* Bootstrap (node.go).  One GetBlocksRPC goroutine per peer; each reads  *)
(* longestRes, then writes longestRes, then addr, without a lock.  After  *)
(* wg.Wait, for each hash of longestRes: GetDataRPC from addr, mark it    *)
(* seen and HandleBlock it, with no CheckBlock and no miner notification. *)

\* A peer's own blocks, genesis first.
PeerBlocks(p) == <<Genesis>> \o PeerChain[p]

\* The peer's GetBlocks for TopBlockHash top, served from a chain it does
\* not change meanwhile: the blocks above top's height.  A peer with no
\* record of top reads the empty record (GetBlockRecord is never nil), of
\* height 0, and answers its whole chain, genesis included.
PeerAnswer(p, top) ==
    LET c == PeerBlocks(p)
        ind == IF \E i \in 1 .. Len(c) : c[i] = top
               THEN CHOOSE i \in 1 .. Len(c) : c[i] = top ELSE 0
    IN  SubSeq(c, ind + 1, Len(c))

\* The answer longestRes holds.
BootAnswer == IF longestRes = NoPeer THEN <<>> ELSE PeerAnswer(longestRes, bootTop)

BootUnchanged == UNCHANGED <<bcVars, seenBlocks, seenTxs, pc, mnChn, minerLength, cw, locs, gb>>

\* topBlockHash := LastHash; no peers is an error return; otherwise one
\* goroutine per peer is started.
BootstrapStart ==
    /\ bootPhase = "start"
    /\ ~crashed
    /\ bootTop' = lastHash
    /\ bootPhase' = IF Peers = {} THEN "done" ELSE "wait"
    /\ UNCHANGED <<bootPc, longestRes, addr, bootIdx>>
    /\ BootUnchanged

\* GetBlocksRPC: a failed connection is an error, on which the goroutine
\* ends; a peer always answers otherwise.
BootstrapRPC(p) ==
    /\ bootPhase = "wait"
    /\ bootPc[p] = "rpc"
    /\ ~crashed
    /\ \E ok \in BOOLEAN :
           bootPc' = [bootPc EXCEPT ![p] = IF ok THEN "check" ELSE "failed"]
    /\ UNCHANGED <<bootPhase, bootTop, longestRes, addr, bootIdx>>
    /\ BootUnchanged

\* longestRes == nil || len(res.BlockHashes) > len(longestRes.BlockHashes)
BootstrapCheck(p) ==
    /\ bootPc[p] = "check"
    /\ ~crashed
    /\ bootPc' = [bootPc EXCEPT ![p] =
           IF longestRes = NoPeer
              \/ Len(PeerAnswer(p, bootTop)) > Len(BootAnswer)
           THEN "setRes" ELSE "done"]
    /\ UNCHANGED <<bootPhase, bootTop, longestRes, addr, bootIdx>>
    /\ BootUnchanged

\* longestRes = res
BootstrapSetRes(p) ==
    /\ bootPc[p] = "setRes"
    /\ ~crashed
    /\ longestRes' = p
    /\ bootPc' = [bootPc EXCEPT ![p] = "setAddr"]
    /\ UNCHANGED <<bootPhase, bootTop, addr, bootIdx>>
    /\ BootUnchanged

\* addr = p.Addr
BootstrapSetAddr(p) ==
    /\ bootPc[p] = "setAddr"
    /\ ~crashed
    /\ addr' = p
    /\ bootPc' = [bootPc EXCEPT ![p] = "done"]
    /\ UNCHANGED <<bootPhase, bootTop, longestRes, bootIdx>>
    /\ BootUnchanged

\* wg.Wait(); longestRes == nil is an error return.
BootstrapWait ==
    /\ bootPhase = "wait"
    /\ ~crashed
    /\ \A p \in Peers : bootPc[p] \in {"done", "failed"}
    /\ bootPhase' = IF longestRes = NoPeer THEN "done" ELSE "fetch"
    /\ UNCHANGED <<bootTop, bootPc, longestRes, addr, bootIdx>>
    /\ BootUnchanged

\* GetDataRPC(h) from addr.  A peer asked for a block it does not have
\* panics in its GetBlock (readFromDisk of an empty FileInfo), and any
\* failed call leaves pb nil: `pb.Block` then panics here too.
BootstrapFetchFails ==
    /\ bootPhase = "fetch"
    /\ bootIdx <= Len(BootAnswer)
    /\ ~crashed
    /\ crashed' = TRUE
    /\ UNCHANGED <<length, lastHash, unsafeHashes, index, mainCache, mainCacheSize,
                   db, reported, seenBlocks, seenTxs, pc, mnChn, minerLength,
                   bootVars, cw, locs, gb>>

\* Mutant of BootstrapBlock: a hash already in SeenBlocks is skipped, as
\* ForwardBlock does.
BootstrapBlockSkipSeen ==
    LET b == BootAnswer[bootIdx]
    IN  /\ bootPhase = "fetch"
        /\ bootIdx <= Len(BootAnswer)
        /\ \E i \in 1 .. Len(PeerBlocks(addr)) : PeerBlocks(addr)[i] = b
        /\ IF b \in seenBlocks
           THEN UNCHANGED <<bcVars, seenBlocks, cw, locs>>
           ELSE /\ seenBlocks' = seenBlocks \cup {b}
                /\ HandleBlockWithFiles(b)
        /\ bootIdx' = bootIdx + 1
        /\ UNCHANGED <<bootPhase, bootTop, bootPc, longestRes, addr>>
        /\ UNCHANGED <<seenTxs, pc, mnChn, minerLength, gb>>

\* The block comes back: SeenBlocks[b.Hash()] = true; HandleBlock(b).  The
\* loop ends when the answer is exhausted.
BootstrapBlock ==
    LET b == BootAnswer[bootIdx]
    IN  /\ bootPhase = "fetch"
        /\ bootIdx <= Len(BootAnswer)
        /\ \E i \in 1 .. Len(PeerBlocks(addr)) : PeerBlocks(addr)[i] = b
        /\ seenBlocks' = seenBlocks \cup {b}
        /\ HandleBlockWithFiles(b)
        /\ bootIdx' = bootIdx + 1
        /\ UNCHANGED <<bootPhase, bootTop, bootPc, longestRes, addr>>
        /\ UNCHANGED <<seenTxs, pc, mnChn, minerLength, gb>>

\* Bootstrap has returned, or has nothing left to fetch.
BootDone == bootPhase = "done" \/ (bootPhase = "fetch" /\ bootIdx > Len(BootAnswer))

Bootstrap ==
    \/ BootstrapStart
    \/ \E p \in Peers : \/ BootstrapRPC(p)
                        \/ BootstrapCheck(p)
                        \/ BootstrapSetRes(p)
                        \/ BootstrapSetAddr(p)
    \/ BootstrapWait
    \/ BootstrapFetchFails
    \/ BootstrapBlock

-----------------------------------------------------------------------------
(* Node.New: blockchain.New (the genesis block in the coin database and   *)
(* written with an empty undo block), empty SeenBlocks and               *)
(* SeenTransactions, Miner.ChainLength 1.                                 *)

GenesisLocs == CW!StoreBlock(CW!NewChainWriter, Genesis, BlockBytes[Genesis], <<>>, 0)

Init ==
    /\ BC!Init
    /\ seenBlocks = {}
    /\ seenTxs = {}
    /\ pc = [j \in Jobs |-> "recv"]
    /\ mnChn = [j \in BlockJobs |-> FALSE]
    /\ minerLength = 1
    /\ bootPhase = "start"
    /\ bootTop = NoHash
    /\ bootPc = [p \in Peers |-> "rpc"]
    /\ longestRes = NoPeer
    /\ addr = NoPeer
    /\ bootIdx = 1
    /\ cw = GenesisLocs.cw
    /\ locs = (Genesis :> [blk |-> GenesisLocs.blockFi, undo |-> GenesisLocs.undoFi])
    /\ gb = [j \in GetBlocksJobs |-> NoLocals]

Next ==
    \/ \E j \in BlockJobs : ForwardBlock(j)
    \/ \E j \in TxJobs : ForwardTransaction(j)
    \/ \E j \in GetBlocksJobs : GetBlocks(j)
    \/ Bootstrap

Spec == Init /\ [][Next]_vars

-----------------------------------------------------------------------------
(* Properties.                                                             *)

Labels == {"recv", "mark", "check", "mnChn", "handle", "notify", "pool", "length", "last", "walk", "done"}

TypeOK ==
    /\ BC!TypeOK
    /\ seenBlocks \subseteq Blocks
    /\ seenTxs \subseteq TxIds
    /\ pc \in [Jobs -> Labels]
    /\ mnChn \in [BlockJobs -> BOOLEAN]
    /\ minerLength \in Nat
    /\ bootPhase \in {"start", "wait", "fetch", "done"}
    /\ bootPc \in [Peers -> {"rpc", "check", "setRes", "setAddr", "done", "failed"}]
    /\ longestRes \in Peers \cup {NoPeer}
    /\ addr \in Peers \cup {NoPeer}
    /\ bootIdx \in 1 .. Len(BootAnswer) + 1
    /\ DOMAIN locs = DOMAIN index
    /\ DOMAIN gb = GetBlocksJobs

\* The active chain, genesis first.
ActiveChain == BC!ChainTo(lastHash)

\* a is a run of consecutive blocks of c.
IsSegment(a, c) == \E k \in 0 .. Len(c) - Len(a) : a = SubSeq(c, k + 1, k + Len(a))

\* What a peer receives from GetBlocks is a run of consecutive blocks of the
\* active chain, in chain order: the walk down the index from LastBlock,
\* counting heights from Length, reading each block back from the files
\* and reversing, gives neither garbage nor a gap nor a block of another
\* branch, however appends interleave with the call.
ServedBlocksOnActiveChain ==
    \A j \in GetBlocksJobs : pc[j] = "done" => IsSegment(gb[j].answer, ActiveChain)

\* GetBlocks answers "the blocks past TopBlockHash": when the requester's
\* top block is on our chain, the first block of the answer is its child.
ServedBlocksFollowTop ==
    \A j \in GetBlocksJobs :
        (pc[j] = "done" /\ gb[j].answer # <<>>) =>
            gb[j].answer[1] \in Blocks /\ BlockPrev[gb[j].answer[1]] = JobTop[j]

\* Bootstrap hands a peer's chain to HandleBlock without CheckBlock while
\* ForwardBlock calls for the same blocks run (marking them seen before
\* they are valid): every block Bootstrap has handed over is on the active
\* chain afterwards.
BootstrapAdoptsPeerChain ==
    ~crashed => \A k \in 1 .. bootIdx - 1 : \E i \in 1 .. Len(ActiveChain) : ActiveChain[i] = BootAnswer[k]

\* Bootstrap means to build on the longest chain its peers offer, fetched
\* from the peer that offered it: once wg.Wait returns, no peer whose
\* GetBlocksRPC succeeded gave a longer answer than longestRes, and addr is
\* the peer longestRes came from, however the per-peer goroutines'
\* unlocked reads and writes of longestRes and addr interleave.
BootstrapFetchesLongest ==
    bootPhase = "fetch" =>
        /\ addr = longestRes
        /\ \A p \in Peers : bootPc[p] = "done" => Len(PeerAnswer(p, bootTop)) <= Len(BootAnswer)

\* No handler or miner goroutine is between steps.
Quiescent == \A j \in Jobs : pc[j] = "done"

\* Miner.ChainLength "is the length of the main chain": once every
\* ForwardBlock call and the Miner.HandleBlock goroutines it started have
\* finished, the miner counts as many blocks as bc.Length.
MinerLengthTracksChain ==
    (Quiescent /\ BootDone /\ ~crashed) => minerLength = length
====
