CONSTANTS
    t1 = t1
    t2 = t2
    t3 = t3
    h1 = h1
    h2 = h2
    h3 = h3
    k1 = k1
    Txs <- MCTxs
    Size <- MCSize
    SumOutputs <- MCSumOutputs
    InputSum <- MCInputSum
    TxJobs <- MCTxJobs2
    JobTx <- MCJobTx2
    BlockJobs <- NoBlockJobs
    JobBlock <- NoJobBlock
    Capacity = 1
    BlockSize = 1000
    Width = 10
    MayTimeOut = FALSE
    MayStartMiner = FALSE
INIT Init
NEXT Next
INVARIANT CountWithinCapacity
CHECK_DEADLOCK FALSE
