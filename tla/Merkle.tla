------------------------------- MODULE Merkle -------------------------------
(***************************************************************************)
(* block.New and CalculateMerkleRoot (pkg/block/block.go) with the header  *)
(* hash Block.Hash.  A transaction is a model value standing for its hash  *)
(* (Transaction.Hash); utils.Hash(decode(l) ++ decode(r)) of two 32-byte   *)
(* hashes is the pair <<l, r>>, i.e. SHA-256 is taken as collision free,  *)
(* and the hex encoding/decoding around it is a bijection.                 *)
(*                                                                         *)
(* The inputs are every non-empty list of at most MaxTxs transactions:    *)
(* for an empty list the Go loop `for len(hashes) != 1` never ends (the    *)
(* nil check after it is dead code), so New never returns.  Up to          *)
(* MaxBlocks blocks are made, each on one of the parents in Prevs.         *)
(***************************************************************************)
EXTENDS Integers, Sequences

CONSTANTS
    TxVals,     \* transaction hashes
    Prevs,      \* previous-block hashes
    MaxTxs,     \* longest transaction list
    MaxBlocks   \* blocks made

VARIABLE made   \* the blocks New has returned: [prev, txs, root]

\* utils.Hash(append(bytes1, bytes2...)) of two decoded hex hashes.
HashPair(l, r) == <<l, r>>

\* One round of the loop: pad an odd level with its last hash, then hash
\* adjacent pairs.
PairUp(hs) ==
    LET p == IF Len(hs) % 2 # 0 THEN Append(hs, hs[Len(hs)]) ELSE hs
    IN  [i \in 1 .. Len(p) \div 2 |-> HashPair(p[2 * i - 1], p[2 * i])]

RECURSIVE MerkleLoop(_)
\* for len(hashes) != 1 { ... hashes = newHashes }; hashes[0].
MerkleLoop(hs) == IF Len(hs) = 1 THEN hs[1] ELSE MerkleLoop(PairUp(hs))

\* Mutant of CalculateMerkleRoot: the leaf list is padded whenever it is
\* odd, a single transaction included.
CalculateMerkleRootPadOne(txs) ==
    LET t == IF Len(txs) % 2 # 0 THEN Append(txs, txs[Len(txs)]) ELSE txs
    IN  MerkleLoop(t)

\* CalculateMerkleRoot: an odd list of more than one transaction gets its
\* last transaction repeated, then the leaves are the transaction hashes.
CalculateMerkleRoot(txs) ==
    LET t == IF Len(txs) > 1 /\ Len(txs) % 2 # 0 THEN Append(txs, txs[Len(txs)]) ELSE txs
    IN  MerkleLoop(t)

\* Block.Hash: SHA-256 of the marshalled header (version, previous hash,
\* merkle root, target, nonce, timestamp; New leaves the last ones zero).
BlockHash(blk) == <<blk.prev, blk.root>>

\* Lists of 1 .. n elements of S.
NonEmptyLists(S, n) == UNION {[1 .. k -> S] : k \in 1 .. n}

\* New(previousHash, txs, target).
NewBlock(p, txs) ==
    /\ Len(made) < MaxBlocks
    /\ made' = Append(made, [prev |-> p, txs |-> txs, root |-> CalculateMerkleRoot(txs)])

Init == made = <<>>

Next == \E p \in Prevs, txs \in NonEmptyLists(TxVals, MaxTxs) : NewBlock(p, txs)

Spec == Init /\ [][Next]_made

-----------------------------------------------------------------------------
(* Reference: spec.md 4.2 read top down.  Level 0 holds the n leaves and  *)
(* level k has ceiling(width(k-1) / 2) nodes; node i of level k hashes     *)
(* nodes 2i-1 and 2i of the level below, the latter clamped to the last   *)
(* node when that level is odd.  The root is the single node of the       *)
(* first level of width 1.                                                 *)

RECURSIVE LevelWidth(_, _)
LevelWidth(n, k) == IF k = 0 THEN n ELSE (LevelWidth(n, k - 1) + 1) \div 2

RECURSIVE TreeNode(_, _, _)
TreeNode(lv, k, i) ==
    IF k = 0 THEN lv[i]
    ELSE LET w == LevelWidth(Len(lv), k - 1)
         IN  HashPair(TreeNode(lv, k - 1, 2 * i - 1),
                      TreeNode(lv, k - 1, IF 2 * i <= w THEN 2 * i ELSE w))

MerkleReference(txs) ==
    LET d == CHOOSE d \in 0 .. Len(txs) : LevelWidth(Len(txs), d) = 1
    IN  TreeNode(txs, d, 1)

\* CalculateMerkleRoot, with its leaf padding and its per-level padding,
\* computes the root spec.md 4.2 defines (a single transaction's root is
\* its own hash) for every list New can be given.
RootMatchesReference ==
    \A k \in 1 .. Len(made) : made[k].root = MerkleReference(made[k].txs)

\* Two blocks New made with the same Block.Hash carry the same
\* transactions: the header hash, through the merkle root, commits to the
\* block's transaction list.
BlockHashBindsTransactions ==
    \A k, l \in 1 .. Len(made) :
        BlockHash(made[k]) = BlockHash(made[l]) => made[k].txs = made[l].txs
====
