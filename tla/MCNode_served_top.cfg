CONSTANTS
    g0 = g0  c1 = c1  sp1 = sp1  c2 = c2  sp2 = sp2  c2x = c2x  dbl = dbl  c3 = c3
    G = G  B1 = B1  B2 = B2  B2x = B2x  B3 = B3
    A = A  B = B
    j1 = j1  j2 = j2  j3 = j3  j4 = j4  tx1 = tx1  q1 = q1  p1 = p1  p2 = p2
    NoPeer = NoPeer
    NoCoin = NoCoin  NoHash = NoHash  NoUndo = NoUndo  NoReport = NoReport
    NoFileInfo = NoFileInfo  Garbage = Garbage
    TxIds <- LinTxIds
    TxInputs <- LinTxInputs
    TxOutputs <- LinTxOutputs
    Blocks <- LinBlocks
    Genesis = G
    BlockPrev <- LinBlockPrev
    BlockTxs <- LinBlockTxs
    PKs <- LinPKs
    MainCacheCapacity = 5
    SizeModulus = 16
    BlockBytes <- NBlockBytes
    UndoEntryBytes = 1
    MaxBlockFileSize = 5
    MaxUndoFileSize = 3
    BlockJobs <- NJobsPair
    JobBlock <- NJobBlockPair
    TxJobs <- NoTxJobs
    JobTx <- NoJobTx
    Peers <- NoPeers
    PeerChain <- NoPeerChain
    HasMiner = TRUE
    GetBlocksJobs <- NGetBlocksJobs
    JobTop <- NJobTop
INIT Init
NEXT Next
INVARIANT
    ServedBlocksFollowTop
CHECK_DEADLOCK FALSE
