------------------------------- MODULE Ledger -------------------------------
(***************************************************************************)
(* Abstract specification of what the chain manager and its coin database *)
(* promise together (spec.md sections 3, 4.5.3, 4.6): an active chain     *)
(* from the genesis block, and the set of unspent outputs that applying   *)
(* its blocks in order leaves.  A step either extends the chain by a block *)
(* whose inputs are distinct unspent coins, or switches to a strictly     *)
(* longer chain of known blocks, every block of which is valid in turn.   *)
(* A coin is [loc, amount, lockingScript]; loc is [ref, out].             *)
(***************************************************************************)
EXTENDS Naturals, Sequences, SequencesExt, Chains

CONSTANTS
    TxIds, TxInputs, TxOutputs,
    Genesis,        \* the genesis block's hash
    BlockTxs,       \* BlockTxs[b]: the block's transactions, in order
    NoHash          \* the empty hash "" (PreviousHash of the genesis block)

VARIABLES chain, utxo

ledgerVars == <<chain, utxo>>

CoinsOf(t) ==
    {[loc |-> [ref |-> t, out |-> i - 1],
      amount |-> TxOutputs[t][i].amount,
      lockingScript |-> TxOutputs[t][i].lockingScript] : i \in 1 .. Len(TxOutputs[t])}

InputsOf(txs) == UNION {ToSet(TxInputs[txs[k]]) : k \in 1 .. Len(txs)}

InputCount(txs) == FoldLeft(LAMBDA n, t : n + Len(TxInputs[t]), 0, txs)

\* A block may be applied to u when every input names a coin of u and no
\* coin is named twice, within a transaction or across two.
ValidIn(u, txs) ==
    /\ InputsOf(txs) \subseteq {c.loc : c \in u}
    /\ Cardinality(InputsOf(txs)) = InputCount(txs)

Apply(u, txs) ==
    {c \in u : c.loc \notin InputsOf(txs)} \cup UNION {CoinsOf(txs[k]) : k \in 1 .. Len(txs)}

\* The coins left by applying the blocks of c in order, and whether every
\* block was valid when it was applied.
UtxoOf(c) == FoldLeft(LAMBDA u, b : Apply(u, BlockTxs[b]), {}, c)

AllValid(c) ==
    \A k \in 1 .. Len(c) : ValidIn(UtxoOf(SubSeq(c, 1, k - 1)), BlockTxs[c[k]])

LedgerInit ==
    /\ chain = <<Genesis>>
    /\ utxo = UtxoOf(<<Genesis>>)

Extend(b) ==
    /\ BlockPrev[b] = Last(chain)
    /\ ValidIn(utxo, BlockTxs[b])
    /\ chain' = Append(chain, b)
    /\ utxo' = Apply(utxo, BlockTxs[b])

Switch(b) ==
    /\ ChainTo(b)[1] = Genesis
    /\ Len(ChainTo(b)) > Len(chain)
    /\ AllValid(ChainTo(b))
    /\ chain' = ChainTo(b)
    /\ utxo' = UtxoOf(ChainTo(b))

LedgerNext == \E b \in Blocks : Extend(b) \/ Switch(b)

LedgerSpec == LedgerInit /\ [][LedgerNext]_ledgerVars
=============================================================================
