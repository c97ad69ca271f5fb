CONSTANTS
    g0 = g0  c1 = c1  sp1 = sp1  c2 = c2  sp2 = sp2  c2x = c2x  dbl = dbl  c3 = c3
    cf2 = cf2  spf = spf  cf3 = cf3  x1 = x1  x2 = x2  F2 = F2  F3 = F3
    G = G  B1 = B1  B2 = B2  B2x = B2x  B3 = B3
    A = A  B = B
    NoCoin = NoCoin  NoHash = NoHash  NoUndo = NoUndo  NoReport = NoReport
    TxIds <- DsTxIds
    TxInputs <- DsTxInputs
    TxOutputs <- DsTxOutputs
    Blocks <- DsBlocks
    Genesis = G
    BlockPrev <- DsBlockPrev
    BlockTxs <- DsBlockTxs
    PKs <- LinPKs
    MainCacheCapacity = 3
    SizeModulus = 16
INIT Init
NEXT Next
PROPERTIES
    LedgerRefinement
