------------------------------- MODULE Chains -------------------------------
(***************************************************************************)
(* Blocks linked by their headers' PreviousHash (block.Header), shared by  *)
(* the abstract ledger and the chain manager.                              *)
(***************************************************************************)
EXTENDS Sequences

CONSTANTS
    Blocks,         \* block hashes
    BlockPrev       \* BlockPrev[b]: b.Header.PreviousHash

RECURSIVE ChainTo(_)
\* The chain of known blocks ending in h, following PreviousHash back until
\* a hash that is not a block (the genesis block's "").
ChainTo(h) == IF h \in Blocks THEN Append(ChainTo(BlockPrev[h]), h) ELSE <<>>
=============================================================================
