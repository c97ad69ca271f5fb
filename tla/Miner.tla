------------------------------- MODULE Miner -------------------------------
(***************************************************************************)
(* The miner's transaction pool and the goroutines that use it             *)
(* (src/pkg/miner/transactionpool.go, miner.go, mine.go, mining_pool.go,   *)
(* src/pkg/block/transactionheap.go), with the node loop that answers      *)
(* getInputSums (src/pkg/node.go, Start).                                  *)
(*                                                                         *)
(* Every call runs in a goroutine of its own: a transaction handler        *)
(* (Miner.HandleTransaction, as ForwardTransaction calls it) or a block    *)
(* handler (go Miner.HandleBlock, from ForwardBlock).  A goroutine is a    *)
(* job with a program counter; each label is one atomic access of the     *)
(* code: one atomic.Uint32 operation, one channel operation, or one        *)
(* critical section under TxPool.Mutex (which holds the lock for that one  *)
(* heap operation only, so the lock itself needs no variable).             *)
(* uint32 arithmetic is done modulo 2^Width.                               *)
(***************************************************************************)
EXTENDS Integers, Sequences, FiniteSets, Functions

CONSTANTS
    Txs,            \* transactions (each stands for its hash)
    Size,           \* Size[t]: t.Size(), bytes of the encoded transaction
    SumOutputs,     \* SumOutputs[t]: t.SumOutputs()
    InputSum,       \* InputSum[t]: what BlockChain.GetInputSums answers for t
    TxJobs,         \* goroutines running HandleTransaction
    JobTx,          \* JobTx[j]: the transaction job j handles
    BlockJobs,      \* goroutines running HandleBlock
    JobBlock,       \* JobBlock[j]: the block's transactions, in order
    Capacity,       \* Config.TransactionPoolCapacity
    BlockSize,      \* Config.BlockSize
    Width,          \* bit width standing for uint32
    MayTimeOut,     \* whether getInputSums's one-second timeout may fire
    MayStartMiner   \* whether Node.StartMiner may be called

ASSUME /\ Capacity \in Nat /\ Width \in 1 .. 24
       /\ JobTx \in [TxJobs -> Txs] /\ JobBlock \in [BlockJobs -> Seq(Txs)]

Jobs == TxJobs \cup BlockJobs
U32 == 2 ^ Width

VARIABLES
    pc,             \* pc[j]: the next step of goroutine j
    sum,            \* sum[j]: the input sum a transaction handler got
    pri,            \* pri[j]: the priority a transaction handler computed
    removed,        \* removed[j]: [n, p] that a block handler's Remove returned
    heap,           \* TxPool.TxQ: the heap's array, nodes [pri, tx]
    count,          \* TxPool.Count
    curPri,         \* TxPool.CurrentPriority
    chainLength,    \* Miner.ChainLength
    active,         \* Miner.Active
    loop            \* the node loop: idle, or blocked sending sums on InputSums

vars == <<pc, sum, pri, removed, heap, count, curPri, chainLength, active, loop>>

Idle == [st |-> "idle", val |-> 0]

-----------------------------------------------------------------------------
(* The transaction heap (transactionheap.go) and container/heap's sifting,  *)
(* on a 1-based array: the parent of k is k \div 2.                         *)

Less(h, i, j) == h[i].pri > h[j].pri

Swap(h, i, j) == [h EXCEPT ![i] = h[j], ![j] = h[i]]

RECURSIVE Up(_, _)
Up(h, j) == IF j = 1 \/ ~Less(h, j, j \div 2) THEN h ELSE Up(Swap(h, j \div 2, j), j \div 2)

RECURSIVE Down(_, _, _)
Down(h, i, n) ==
    IF 2 * i > n THEN h
    ELSE LET j == IF 2 * i + 1 <= n /\ Less(h, 2 * i + 1, 2 * i) THEN 2 * i + 1 ELSE 2 * i
         IN IF ~Less(h, j, i) THEN h ELSE Down(Swap(h, i, j), j, n)

RECURSIVE Heapify(_, _)
Heapify(h, i) == IF i = 0 THEN h ELSE Heapify(Down(h, i, Len(h)), i - 1)

HeapInit(h) == Heapify(h, Len(h) \div 2)

\* Heap.Add: heap.Push appends the node and sifts it up.
HeapAdd(h, p, t) == Up(Append(h, [pri |-> p, tx |-> t]), Len(h) + 1)

\* Heap.GetIndex: the first index holding t, 0 when there is none.
GetIndex(h, t) == IF \E k \in 1 .. Len(h) : h[k].tx = t
                  THEN CHOOSE k \in 1 .. Len(h) : h[k].tx = t /\ \A i \in 1 .. k - 1 : h[i].tx # t
                  ELSE 0

\* Heap.Remove: for each t of ts in turn, swap its node with the last one and
\* drop it; then heap.Init.  Returns the new heap, how many were removed and
\* the uint32 sum of their priorities.
RECURSIVE RemoveEach(_, _, _, _)
RemoveEach(h, ts, n, p) ==
    IF ts = <<>> THEN [heap |-> h, n |-> n, p |-> p]
    ELSE LET i == GetIndex(h, Head(ts))
         IN IF i = 0 THEN RemoveEach(h, Tail(ts), n, p)
            ELSE RemoveEach(SubSeq(Swap(h, i, Len(h)), 1, Len(h) - 1), Tail(ts),
                            n + 1, (p + h[i].pri) % U32)

\* Mutant: Remove without the final heap.Init.
HeapRemoveNoInit(h, ts) == RemoveEach(h, ts, 0, 0)

HeapRemove(h, ts) == LET r == RemoveEach(h, ts, 0, 0) IN [r EXCEPT !.heap = HeapInit(r.heap)]

\* Miner.NewMiningPool: walk the heap's array in index order, taking nodes
\* while the block (100 bytes for the coinbase) stays under BlockSize; returns
\* how many nodes, a prefix of the array, were taken.
RECURSIVE PoolPrefix(_, _, _)
PoolPrefix(h, k, blkSz) ==
    IF k > Len(h) \/ blkSz + Size[h[k].tx] >= BlockSize THEN k - 1
    ELSE PoolPrefix(h, k + 1, blkSz + Size[h[k].tx])

NewMiningPool(h) == PoolPrefix(h, 1, 100)

\* Mutant of CalculatePriority: fees as a signed difference.
CalculatePrioritySigned(t, sumInputs) ==
    LET p == ((sumInputs - SumOutputs[t]) * 100) \div Size[t]
    IN IF p = 0 THEN 1 ELSE p

\* CalculatePriority: fees * 100 / size in uint32, and at least 1.
CalculatePriority(t, sumInputs) ==
    LET fees == (sumInputs - SumOutputs[t]) % U32
        p    == ((fees * 100) % U32) \div Size[t]
    IN IF p = 0 THEN 1 ELSE p

-----------------------------------------------------------------------------
Init ==
    /\ pc = [j \in Jobs |-> IF j \in TxJobs THEN "request" ELSE "incLength"]
    /\ sum = [j \in TxJobs |-> 0]
    /\ pri = [j \in TxJobs |-> 0]
    /\ removed = [j \in BlockJobs |-> [n |-> 0, p |-> 0]]
    /\ heap = <<>>
    /\ count = 0
    /\ curPri = 0
    /\ chainLength = 1
    /\ active = FALSE
    /\ loop = Idle

Goto(j, l) == pc' = [pc EXCEPT ![j] = l]

(* HandleTransaction -> getInputSums: the unbuffered send on GetInputSums   *)
(* has no timeout; the node loop takes it only when idle, and computes the  *)
(* sums, then blocks sending them on InputSums.                             *)
GetInputSumsRequest(j) ==
    /\ pc[j] = "request" /\ loop.st = "idle"
    /\ loop' = [st |-> "reply", val |-> InputSum[JobTx[j]]]
    /\ Goto(j, "await")
    /\ UNCHANGED <<sum, pri, removed, heap, count, curPri, chainLength, active>>

\* Mutant: the reply is taken but the loop is left blocked.
GetInputSumsReplyKeepLoop(j) ==
    /\ pc[j] = "await" /\ loop.st = "reply"
    /\ sum' = [sum EXCEPT ![j] = loop.val]
    /\ Goto(j, "checkCount")
    /\ UNCHANGED <<pri, removed, heap, count, curPri, chainLength, active, loop>>

\* The select receives whatever sums the loop is sending, whoever asked.
GetInputSumsReply(j) ==
    /\ pc[j] = "await" /\ loop.st = "reply"
    /\ sum' = [sum EXCEPT ![j] = loop.val]
    /\ loop' = Idle
    /\ Goto(j, "checkCount")
    /\ UNCHANGED <<pri, removed, heap, count, curPri, chainLength, active>>

\* ctx.Done(): getInputSums returns []uint32{0}, and the error is only logged.
GetInputSumsTimeout(j) ==
    /\ MayTimeOut /\ pc[j] = "await"
    /\ sum' = [sum EXCEPT ![j] = 0]
    /\ Goto(j, "checkCount")
    /\ UNCHANGED <<pri, removed, heap, count, curPri, chainLength, active, loop>>

\* TxPool.Add, line 92: a full pool drops the transaction.
AddCheckCapacity(j) ==
    /\ pc[j] = "checkCount"
    /\ Goto(j, IF count >= Capacity THEN "notify" ELSE "addPriority")
    /\ UNCHANGED <<sum, pri, removed, heap, count, curPri, chainLength, active, loop>>

\* Lines 95-96: CurrentPriority.Add before the node is in the heap.
AddPriority(j) ==
    LET p == CalculatePriority(JobTx[j], sum[j])
    IN /\ pc[j] = "addPriority"
       /\ pri' = [pri EXCEPT ![j] = p]
       /\ curPri' = (curPri + p) % U32
       /\ Goto(j, "push")
       /\ UNCHANGED <<sum, removed, heap, count, chainLength, active, loop>>

\* Lines 97-99: under the mutex, TxQ.Add.
AddPush(j) ==
    /\ pc[j] = "push"
    /\ heap' = HeapAdd(heap, pri[j], JobTx[j])
    /\ Goto(j, "incCount")
    /\ UNCHANGED <<sum, pri, removed, count, curPri, chainLength, active, loop>>

\* Line 100: Count.Inc, after the mutex is released.
AddCount(j) ==
    /\ pc[j] = "incCount"
    /\ count' = (count + 1) % U32
    /\ Goto(j, "notify")
    /\ UNCHANGED <<sum, pri, removed, heap, curPri, chainLength, active, loop>>

\* HandleTransaction / UpdateTXPool: if Active, send on the unbuffered
\* PoolUpdated channel; nothing receives from it (Mine is not started), so
\* the send cannot complete.
NotifyPool(j) ==
    /\ pc[j] = "notify" /\ ~active
    /\ Goto(j, "done")
    /\ UNCHANGED <<sum, pri, removed, heap, count, curPri, chainLength, active, loop>>

\* Miner.HandleBlock: IncrementChainLength, then UpdateTXPool.
IncrementChainLength(j) ==
    /\ pc[j] = "incLength"
    /\ chainLength' = (chainLength + 1) % U32
    /\ Goto(j, "remove")
    /\ UNCHANGED <<sum, pri, removed, heap, count, curPri, active, loop>>

\* CheckTransactions, lines 106-108: under the mutex, TxQ.Remove.
CheckTransactionsRemove(j) ==
    LET r == HeapRemove(heap, JobBlock[j])
    IN /\ pc[j] = "remove"
       /\ heap' = r.heap
       /\ removed' = [removed EXCEPT ![j] = [n |-> r.n, p |-> r.p]]
       /\ Goto(j, "subCount")
       /\ UNCHANGED <<sum, pri, count, curPri, chainLength, active, loop>>

\* Line 109: Count.Sub(len(amtRem)).
CheckTransactionsSubCount(j) ==
    /\ pc[j] = "subCount"
    /\ count' = (count - removed[j].n) % U32
    /\ Goto(j, "subPriority")
    /\ UNCHANGED <<sum, pri, removed, heap, curPri, chainLength, active, loop>>

\* Mutant: the count of removed transactions subtracted from the priority.
CheckTransactionsSubPriorityCount(j) ==
    /\ pc[j] = "subPriority"
    /\ curPri' = (curPri - removed[j].n) % U32
    /\ Goto(j, "notify")
    /\ UNCHANGED <<sum, pri, removed, heap, count, chainLength, active, loop>>

\* Line 110: CurrentPriority.Sub(totalPriority).
CheckTransactionsSubPriority(j) ==
    /\ pc[j] = "subPriority"
    /\ curPri' = (curPri - removed[j].p) % U32
    /\ Goto(j, "notify")
    /\ UNCHANGED <<sum, pri, removed, heap, count, chainLength, active, loop>>

\* Node.StartMiner -> Miner.StartMiner: Active.Store(true).
StartMiner ==
    /\ MayStartMiner /\ ~active
    /\ active' = TRUE
    /\ UNCHANGED <<pc, sum, pri, removed, heap, count, curPri, chainLength, loop>>

TxHandler(j) ==
    \/ GetInputSumsRequest(j) \/ GetInputSumsReply(j) \/ GetInputSumsTimeout(j)
    \/ AddCheckCapacity(j) \/ AddPriority(j) \/ AddPush(j) \/ AddCount(j)
    \/ NotifyPool(j)

BlockHandler(j) ==
    \/ IncrementChainLength(j) \/ CheckTransactionsRemove(j)
    \/ CheckTransactionsSubCount(j) \/ CheckTransactionsSubPriority(j)
    \/ NotifyPool(j)

Next ==
    \/ \E j \in TxJobs : TxHandler(j)
    \/ \E j \in BlockJobs : BlockHandler(j)
    \/ StartMiner

\* The Go scheduler runs every runnable goroutine eventually.
Fairness ==
    /\ \A j \in TxJobs : WF_vars(TxHandler(j))
    /\ \A j \in BlockJobs : WF_vars(BlockHandler(j))

Spec == Init /\ [][Next]_vars /\ Fairness

-----------------------------------------------------------------------------
Labels == {"request", "await", "checkCount", "addPriority", "push", "incCount",
           "notify", "incLength", "remove", "subCount", "subPriority", "done"}

TypeOK ==
    /\ pc \in [Jobs -> Labels]
    /\ heap \in Seq([pri : 0 .. U32 - 1, tx : Txs])
    /\ count \in 0 .. U32 - 1 /\ curPri \in 0 .. U32 - 1
    /\ loop \in {Idle} \cup [st : {"reply"}, val : Nat]

\* Heap.Remove swaps a node out of the middle of the array, which breaks the
\* heap order until heap.Init restores it; Add sifts a node up.  After every
\* critical section the array is a max-heap: a node's priority is at most its
\* parent's.
HeapOrdered == \A k \in 2 .. Len(heap) : heap[k].pri <= heap[k \div 2].pri

\* CurrentPriority is updated outside the mutex, before the push in Add and
\* after the removal in CheckTransactions.  Counting the priorities those
\* goroutines hold in flight, it equals the sum of the heap's priorities.
InFlightPriority ==
    SumFunctionOnSet(pri, {j \in TxJobs : pc[j] = "push"})
    + SumFunctionOnSet([j \in BlockJobs |-> removed[j].p],
                       {j \in BlockJobs : pc[j] \in {"subCount", "subPriority"}})

PriorityAccounted ==
    curPri = (SumFunctionOnSet([k \in 1 .. Len(heap) |-> heap[k].pri], 1 .. Len(heap))
              + InFlightPriority) % U32

\* Count is incremented after the push and decremented after the removal.
\* Read as the unsigned number TxPool.Add compares with Capacity, it is the
\* number of nodes in the heap, less the pushes not yet counted, plus the
\* removals not yet subtracted; it never wraps around.
CountTracksHeap ==
    count = Len(heap)
            - Cardinality({j \in TxJobs : pc[j] = "incCount"})
            + SumFunctionOnSet([j \in BlockJobs |-> removed[j].n],
                               {j \in BlockJobs : pc[j] = "subCount"})

\* The comment of TxPool.Add: "If the transaction pool is full, the
\* transaction will not be added."  Count never exceeds Capacity.
CountWithinCapacity == count <= Capacity

\* What CalculatePriority's comment promises: the fees (inputs - outputs) of
\* the transaction, times 100, divided by its size, and at least 1.
FeePriority(t) ==
    LET p == ((InputSum[t] - SumOutputs[t]) * 100) \div Size[t] IN IF p = 0 THEN 1 ELSE p

\* Every node's priority is its own transaction's fee priority, computed from
\* the input sum the node loop answers for that transaction.
PrioritiesMatchFees == \A k \in 1 .. Len(heap) : heap[k].pri = FeePriority(heap[k].tx)

\* NewMiningPool "selects the highest priority transactions from the
\* transaction pool": no node left out has a higher priority than one taken.
MiningPoolHighestFirst ==
    LET n == NewMiningPool(heap)
    IN \A a \in 1 .. n, b \in n + 1 .. Len(heap) : heap[a].pri >= heap[b].pri

\* Every HandleTransaction and HandleBlock goroutine eventually returns.
HandlersReturn == <>(\A j \in Jobs : pc[j] = "done")
=============================================================================
