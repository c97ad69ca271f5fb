CONSTANTS
    TxVals = {ta, tb}
    Prevs = {p0}
    MaxTxs = 5
    MaxBlocks = 2
INIT Init
NEXT Next
INVARIANTS
    RootMatchesReference
CHECK_DEADLOCK FALSE
