CONSTANTS
    t1 = t1
    t2 = t2
    t3 = t3
    h1 = h1
    h2 = h2
    h3 = h3
    k1 = k1
    Txs <- MCTxs
    Size <- MCSize
    SumOutputs <- MCSumOutputs
    InputSum <- MCInputSum
    TxJobs <- MCTxJobs3
    JobTx <- MCJobTx3
    BlockJobs <- MCBlockJobs
    JobBlock <- MCJobBlock
    Capacity = 3
    BlockSize = 1000
    Width = 10
    MayTimeOut = FALSE
    MayStartMiner = FALSE
SPECIFICATION Spec
PROPERTY HandlersReturn
CHECK_DEADLOCK FALSE
