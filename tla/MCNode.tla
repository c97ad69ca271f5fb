------------------------------- MODULE MCNode -------------------------------
(***************************************************************************)
(* Instances of Node for TLC over the linear block universe of            *)
(* MCBlockChain, repeated here: ForwardBlock calls j1..j4, the             *)
(* ForwardTransaction call tx1, the GetBlocks call q1 and peers p1, p2.    *)
(***************************************************************************)
EXTENDS Node

CONSTANTS g0, c1, sp1, c2, sp2, c2x, dbl, c3     \* transactions
CONSTANTS G, B1, B2, B2x, B3, A, B              \* blocks, public keys
CONSTANTS j1, j2, j3, j4, tx1, q1, p1, p2

In(t, i) == [ref |-> t, out |-> i]
Out(n, pk) == [amount |-> n, lockingScript |-> pk]

(* Linear universe: G <- B1 <- B2 <- B3, and B2x beside B2 spending the    *)
(* genesis coin B1 already spent.  Blocks arrive in any order, any number *)
(* of times, so orphans (stored at height 1), redeliveries, rejections    *)
(* and forks that find no unsafe ancestor all happen; no valid fork is    *)
(* longer than the active chain, so no reorg runs.                        *)
LinTxIds == {g0, c1, sp1, c2, sp2, c2x, dbl, c3}

LinTxInputs ==
    (g0 :> <<>>) @@ (c1 :> <<>>) @@ (c2 :> <<>>) @@ (c2x :> <<>>) @@ (c3 :> <<>>)
    @@ (sp1 :> <<In(g0, 0)>>)
    @@ (sp2 :> <<In(sp1, 0), In(c1, 0)>>)
    @@ (dbl :> <<In(g0, 0)>>)

LinTxOutputs ==
    (g0 :> <<Out(4, A)>>)
    @@ (c1 :> <<Out(1, A)>>) @@ (c2 :> <<Out(1, B)>>) @@ (c2x :> <<Out(1, A)>>)
    @@ (c3 :> <<Out(1, B)>>)
    @@ (sp1 :> <<Out(2, B), Out(2, A)>>)
    @@ (sp2 :> <<Out(3, A)>>)
    @@ (dbl :> <<Out(4, B)>>)

LinBlocks == {G, B1, B2, B2x, B3}

LinBlockPrev == (G :> NoHash) @@ (B1 :> G) @@ (B2 :> B1) @@ (B2x :> B1) @@ (B3 :> B2)

LinBlockTxs ==
    (G :> <<g0>>) @@ (B1 :> <<c1, sp1>>) @@ (B2 :> <<c2, sp2>>)
    @@ (B2x :> <<c2x, dbl>>) @@ (B3 :> <<c3>>)

LinPKs == {A, B}

\* Two blocks fill a block file of 5 bytes; an undo block of 2 slots fills
\* an undo file of 3 bytes, so both families rotate.
NBlockBytes == [b \in LinBlocks |-> 2]

\* Four calls: B1 twice (a peer and its echo), B2, B3; one transaction.
NBlockJobs == {j1, j2, j3, j4}
NJobBlock == (j1 :> B1) @@ (j2 :> B1) @@ (j3 :> B2) @@ (j4 :> B3)
\* B1, B2, B3 once each (the duplicate delivery is MCNode_miner_length's).
NJobs3 == {j1, j3, j4}
NJobBlock3 == (j1 :> B1) @@ (j3 :> B2) @@ (j4 :> B3)
NTxJobs == {tx1}
NJobTx == (tx1 :> sp1)

\* B1 delivered twice and nothing else.
NJobsDup == {j1, j2}
NJobBlockDup == (j1 :> B1) @@ (j2 :> B1)

\* One peer whose chain is G <- B1 <- B2.
NPeers == {p1}
NPeerChain == (p1 :> <<B1, B2>>)
\* No peer: Bootstrap returns its error at once.
NoPeers == {}
NoPeerChain == [p \in {} |-> <<>>]
\* Two peers, one a block behind the other.
NPeersPair == {p1, p2}
NPeerChainPair == (p1 :> <<B1>>) @@ (p2 :> <<B1, B2>>)
NoTxJobs == {}
NoJobTx == [j \in {} |-> sp1]

\* A peer bootstrapping from the genesis block asks for the blocks past it.
NGetBlocksJobs == {q1}
NJobTop == (q1 :> G)
NoGetBlocksJobs == {}
NoJobTop == [j \in {} |-> G]

\* No ForwardBlock call.
NoBlockJobs == {}
NoJobBlock == [j \in {} |-> G]

\* ForwardBlock calls of B1 and B2 racing one GetBlocks call.
NJobsPair == {j1, j3}
NJobBlockPair == (j1 :> B1) @@ (j3 :> B2)
====
