CONSTANTS
    TxVals = {ta, tb}
    Prevs = {p0}
    MaxTxs = 4
    MaxBlocks = 2
INIT Init
NEXT Next
INVARIANTS
    BlockHashBindsTransactions
CHECK_DEADLOCK FALSE
