------------------------------- MODULE CoinDB -------------------------------
(***************************************************************************)
(* The UTXO engine of pkg/blockchain/coindatabase/coindatabase.go.         *)
(*                                                                         *)
(* Two tiers: mainCache (a Go map CoinLocator -> *Coin, modelled as a      *)
(* function whose DOMAIN is the set of keys present, with the coin's       *)
(* IsSpent flag as value; the TransactionOutput is fixed by the locator)   *)
(* and db (the leveldb map txHash -> CoinRecord, modelled as a function    *)
(* whose DOMAIN is the set of keys present; a CoinRecord's three aligned   *)
(* vectors are one sequence of entries).                                   *)
(*                                                                         *)
(* Every method is an operator from a coin-database state record          *)
(* [cache, size, db] to the next one, so that BlockChain can compose the  *)
(* calls HandleBlock makes in one step.  A transaction hash is the         *)
(* transaction's identity: TxIds are hashes, TxInputs and TxOutputs give   *)
(* the content the hash stands for.                                        *)
(***************************************************************************)
EXTENDS Naturals, Sequences, SequencesExt, TLC

CONSTANTS
    TxIds,              \* transaction hashes
    TxInputs,           \* TxInputs[t]: sequence of locators [ref, out] t spends
    TxOutputs,          \* TxOutputs[t]: sequence of [amount, lockingScript]
    MainCacheCapacity,  \* mainCacheCapacity
    SizeModulus,        \* 2^w: mainCacheSize is a w-bit unsigned integer
    NoCoin              \* GetCoin's nil

VARIABLES
    mainCache,          \* CoinLocator -> IsSpent, for the locators present
    mainCacheSize,      \* uint32 counter of coins added since the last flush
    db                  \* txHash -> CoinRecord, for the hashes present

coinVars == <<mainCache, mainCacheSize, db>>

Locator == [ref : TxIds, out : Nat]

\* The locators that name an output of some transaction.
OutputLocators ==
    UNION {{[ref |-> t, out |-> i] : i \in 0 .. Len(TxOutputs[t]) - 1} : t \in TxIds}

\* One slot of a CoinRecord: OutputIndexes[k], Amounts[k], LockingScripts[k].
RecordEntry(out, amount, script) ==
    [out |-> out, amount |-> amount, lockingScript |-> script]

OutputOf(l) == TxOutputs[l.ref][l.out + 1]

-----------------------------------------------------------------------------
(* Go map helpers: m[k] = v and delete(m, k).                              *)

Put(m, k, v) == (k :> v) @@ m

Delete(m, k) == [x \in DOMAIN m \ {k} |-> m[x]]

-----------------------------------------------------------------------------
(* The database state as a value, and the step that installs one.         *)

CoinState == [cache |-> mainCache, size |-> mainCacheSize, db |-> db]

BecomesCoinState(cs) ==
    /\ mainCache' = cs.cache
    /\ mainCacheSize' = cs.size
    /\ db' = cs.db

\* New: an empty cache and an empty leveldb.
EmptyCoinState == [cache |-> <<>>, size |-> 0, db |-> <<>>]

(* A loop of the code over seq that updates the database state cs: op     *)
(* applied to cs and each element in order (FoldLeft, evaluated strictly:  *)
(* the conjunct cs = cs makes TLC compute each intermediate state before   *)
(* the next step, which keeps its evaluation stack shallow).              *)
RECURSIVE Thread(_, _, _)
Thread(op(_, _), cs, seq) ==
    IF cs = cs /\ seq = <<>> THEN cs ELSE Thread(op, op(cs, Head(seq)), Tail(seq))

-----------------------------------------------------------------------------
(* Lookups.                                                                *)

\* indexOf(cr.OutputIndexes, out), 1-based; 0 when absent (Go's -1).
IndexOf(cr, out) == SelectInSeq(cr, LAMBDA e : e.out = out)

\* One input of ValidateTransaction: a cache hit must be unspent (a spent
\* hit returns an error without looking at the db); a miss must find the
\* index in the transaction's CoinRecord.
ValidInput(cs, l) ==
    IF l \in DOMAIN cs.cache
    THEN ~cs.cache[l]
    ELSE /\ l.ref \in DOMAIN cs.db
         /\ IndexOf(cs.db[l.ref], l.out) # 0

ValidateTransaction(cs, t) ==
    \A k \in 1 .. Len(TxInputs[t]) : ValidInput(cs, TxInputs[t][k])

ValidateBlock(cs, txs) ==
    \A k \in 1 .. Len(txs) : ValidateTransaction(cs, txs[k])

\* GetCoin: the cached coin (spent or not), else the record's slot.
GetCoin(cs, l) ==
    IF l \in DOMAIN cs.cache
    THEN [amount |-> OutputOf(l).amount,
          lockingScript |-> OutputOf(l).lockingScript,
          spent |-> cs.cache[l]]
    ELSE IF l.ref \notin DOMAIN cs.db \/ IndexOf(cs.db[l.ref], l.out) = 0
         THEN NoCoin
         ELSE LET e == cs.db[l.ref][IndexOf(cs.db[l.ref], l.out)]
              IN  [amount |-> e.amount, lockingScript |-> e.lockingScript,
                   spent |-> FALSE]

-----------------------------------------------------------------------------
(* Record edits.                                                           *)

RemoveCoinFromRecord(cr, out) == RemoveFirstMatch(cr, LAMBDA e : e.out = out)

\* removeCoinFromDB: a record of at most one slot is deleted whatever the
\* index; a missing record is left alone.
RemoveCoinFromDB(cs, txHash, l) ==
    IF txHash \notin DOMAIN cs.db THEN cs
    ELSE IF Len(cs.db[txHash]) <= 1
         THEN [cs EXCEPT !.db = Delete(@, txHash)]
         ELSE [cs EXCEPT !.db = Put(@, txHash,
                                   RemoveCoinFromRecord(cs.db[txHash], l.out))]

CreateCoinRecord(t) ==
    [k \in 1 .. Len(TxOutputs[t]) |->
        RecordEntry(k - 1, TxOutputs[t][k].amount, TxOutputs[t][k].lockingScript)]

-----------------------------------------------------------------------------
\* Mutant of FlushMainCache: spent coins are evicted but their records are
\* never written back (the loop over updatedCoinRecords left out).
FlushMainCacheNoWriteBack(cs) ==
    [cache |-> [l \in {x \in DOMAIN cs.cache : ~cs.cache[x]} |-> cs.cache[l]],
     size  |-> 0,
     db    |-> cs.db]

(* FlushMainCache: every spent cache entry is removed from its record      *)
(* (records of one hash coalesce in updatedCoinRecords; a missing record   *)
(* decodes as empty) and evicted; unspent entries stay; the size is reset; *)
(* each updated record is written back, or deleted when it became empty.   *)
(* The order of the map walk does not matter: removals of distinct output  *)
(* indices commute.                                                        *)

FlushMainCache(cs) ==
    LET spent   == {l \in DOMAIN cs.cache : cs.cache[l]}
        hashes  == {l.ref : l \in spent}
        Read(h) == IF h \in DOMAIN cs.db THEN cs.db[h] ELSE <<>>
        Updated(h) ==
            FoldSet(LAMBDA l, cr : IF l.ref = h THEN RemoveCoinFromRecord(cr, l.out)
                                                ELSE cr,
                    Read(h), spent)
        emptied == {h \in hashes : Updated(h) = <<>>}
    IN  [cache |-> [l \in DOMAIN cs.cache \ spent |-> cs.cache[l]],
         size  |-> 0,
         db    |-> [h \in DOMAIN cs.db \ emptied |->
                        IF h \in hashes THEN Updated(h) ELSE cs.db[h]]]

-----------------------------------------------------------------------------
(* StoreBlock = updateSpentCoins; storeTransactionsInMainCache;            *)
(* storeTransactionsInDB.                                                  *)

\* updateSpentCoins, one input of transaction t: a cache hit is marked
\* spent; a miss removes the coin from the record keyed by t's OWN hash
\* (tx.Hash(), not the input's ReferenceTransactionHash).
MarkSpent(cs, t, l) ==
    IF l \in DOMAIN cs.cache
    THEN [cs EXCEPT !.cache[l] = TRUE]
    ELSE RemoveCoinFromDB(cs, t, l)

\* The (transaction, input) pairs of txs, in the order the loops visit them.
InputsInOrder(txs) ==
    FoldLeft(LAMBDA acc, t : acc \o [k \in 1 .. Len(TxInputs[t]) |->
                                         [tx |-> t, loc |-> TxInputs[t][k]]],
             <<>>, txs)

UpdateSpentCoins(cs, txs) ==
    Thread(LAMBDA a, p : MarkSpent(a, p.tx, p.loc), cs, InputsInOrder(txs))

\* One output of storeTransactionsInMainCache: flush when the uint32 sum
\* mainCacheSize + len(tx.Outputs) reaches the capacity, then insert.
StoreOutput(cs, t, i) ==
    LET full == (cs.size + Len(TxOutputs[t])) % SizeModulus >= MainCacheCapacity
        cs1   == IF full THEN FlushMainCache(cs) ELSE cs
    IN  [cs1 EXCEPT !.cache = Put(@, [ref |-> t, out |-> i], FALSE),
                   !.size  = (@ + 1) % SizeModulus]

\* Mutant of OutputsInOrder: output indices counted from 1.
OutputsFromOne(txs) ==
    FoldLeft(LAMBDA acc, t : acc \o [k \in 1 .. Len(TxOutputs[t]) |-> [tx |-> t, out |-> k]],
             <<>>, txs)

\* The (transaction, output index) pairs of txs, in loop order.
OutputsInOrder(txs) ==
    FoldLeft(LAMBDA acc, t : acc \o [k \in 1 .. Len(TxOutputs[t]) |->
                                         [tx |-> t, out |-> k - 1]],
             <<>>, txs)

StoreTransactionsInMainCache(cs, txs) ==
    Thread(LAMBDA a, o : StoreOutput(a, o.tx, o.out), cs, OutputsInOrder(txs))

StoreTransactionsInDB(cs, txs) ==
    Thread(LAMBDA st, t : [st EXCEPT !.db = Put(@, t, CreateCoinRecord(t))], cs, txs)

StoreBlock(cs, txs) ==
    StoreTransactionsInDB(StoreTransactionsInMainCache(UpdateSpentCoins(cs, txs), txs), txs)

-----------------------------------------------------------------------------
(* UndoCoins(blocks, undoBlocks): blocks is a sequence of transaction      *)
(* sequences, undoBlocks a sequence of undo blocks, each a sequence of     *)
(* [ref, out, amount, lockingScript] (the four aligned vectors).           *)

\* (1) every output of t leaves the cache, the uint32 size is decremented
\* once per output whether or not the key was present, and t's record is
\* deleted.
EraseTransaction(cs, t) ==
    LET n == Len(TxOutputs[t])
        mine == {[ref |-> t, out |-> i] : i \in 0 .. n - 1}
    IN  [cache |-> [l \in DOMAIN cs.cache \ mine |-> cs.cache[l]],
         size  |-> (cs.size + SizeModulus - (n % SizeModulus)) % SizeModulus,
         db    |-> Delete(cs.db, t)]

\* (2) slot j of undo block ub: a cached coin becomes unspent; the slot is
\* appended to the existing record, or, when there is none, a new record
\* is made of ALL the slots of ub.
\* addCoinToRecord: slot j of the undo block appended to the record.
AddCoinToRecord(cr, ub, j) ==
    Append(cr, RecordEntry(ub[j].out, ub[j].amount, ub[j].lockingScript))

RestoreInput(cs, ub, j) ==
    LET u  == ub[j]
        l  == [ref |-> u.ref, out |-> u.out]
        cs1 == IF l \in DOMAIN cs.cache THEN [cs EXCEPT !.cache[l] = FALSE] ELSE cs
        cr == IF u.ref \in DOMAIN cs1.db
              THEN AddCoinToRecord(cs1.db[u.ref], ub, j)
              ELSE [k \in 1 .. Len(ub) |->
                        RecordEntry(ub[k].out, ub[k].amount, ub[k].lockingScript)]
    IN  [cs1 EXCEPT !.db = Put(@, u.ref, cr)]

UndoBlock(cs, txs, ub) ==
    LET erased == Thread(EraseTransaction, cs, txs)
    IN  Thread(LAMBDA st, j : RestoreInput(st, ub, j), erased,
                 [k \in 1 .. Len(ub) |-> k])

UndoCoins(cs, blocks, undoBlocks) ==
    Thread(LAMBDA st, i : UndoBlock(st, blocks[i], undoBlocks[i]), cs,
             [k \in 1 .. Len(blocks) |-> k])

-----------------------------------------------------------------------------
(* GetBalance flushes, then sums the slots of every record whose locking   *)
(* script is the key (amounts are small here: the uint32 sum never wraps). *)

SumRecord(cr, pk) ==
    FoldLeft(LAMBDA acc, e : IF e.lockingScript = pk THEN acc + e.amount ELSE acc, 0, cr)

BalanceIn(cs, pk) ==
    FoldSet(LAMBDA h, acc : acc + SumRecord(cs.db[h], pk), 0, DOMAIN cs.db)

-----------------------------------------------------------------------------
(* What the database presents: the coins GetCoin returns as unspent.      *)

UnspentView(cs) ==
    {[loc |-> l, amount |-> GetCoin(cs, l).amount,
      lockingScript |-> GetCoin(cs, l).lockingScript] :
        l \in {x \in OutputLocators : GetCoin(cs, x) # NoCoin /\ ~GetCoin(cs, x).spent}}

CoinInit ==
    /\ mainCache = EmptyCoinState.cache
    /\ mainCacheSize = EmptyCoinState.size
    /\ db = EmptyCoinState.db

CoinTypeOK ==
    /\ DOMAIN mainCache \subseteq OutputLocators
    /\ \A l \in DOMAIN mainCache : mainCache[l] \in BOOLEAN
    /\ mainCacheSize \in 0 .. SizeModulus - 1
    /\ DOMAIN db \subseteq TxIds
    /\ \A h \in DOMAIN db : \A k \in 1 .. Len(db[h]) :
          db[h][k].out \in Nat /\ db[h][k].amount \in Nat
=============================================================================
