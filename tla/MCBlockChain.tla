---------------------------- MODULE MCBlockChain ----------------------------
(***************************************************************************)
(* Block universes for checking BlockChain.  A transaction is a model      *)
(* value standing for its hash; its inputs and outputs are given here.    *)
(* Every block starts with a coinbase of its own, so no two transactions   *)
(* share a hash unless a universe says so.                                 *)
(***************************************************************************)
EXTENDS BlockChain

CONSTANTS g0, c1, sp1, c2, sp2, c2x, dbl, c3, cf2, spf, cf3, x1, x2   \* transactions
CONSTANTS G, B1, B2, B2x, B3, F2, F3                   \* blocks
CONSTANTS A, B                             \* public keys

In(t, i) == [ref |-> t, out |-> i]
Out(n, pk) == [amount |-> n, lockingScript |-> pk]

(* Linear universe: G <- B1 <- B2 <- B3, and B2x beside B2 spending the    *)
(* genesis coin B1 already spent.  Blocks arrive in any order, any number *)
(* of times, so orphans (stored at height 1), redeliveries, rejections    *)
(* and forks that find no unsafe ancestor all happen; no valid fork is    *)
(* longer than the active chain, so no reorg runs.                        *)
LinTxIds == {g0, c1, sp1, c2, sp2, c2x, dbl, c3}

LinTxInputs ==
    (g0 :> <<>>) @@ (c1 :> <<>>) @@ (c2 :> <<>>) @@ (c2x :> <<>>) @@ (c3 :> <<>>)
    @@ (sp1 :> <<In(g0, 0)>>)
    @@ (sp2 :> <<In(sp1, 0), In(c1, 0)>>)
    @@ (dbl :> <<In(g0, 0)>>)

LinTxOutputs ==
    (g0 :> <<Out(4, A)>>)
    @@ (c1 :> <<Out(1, A)>>) @@ (c2 :> <<Out(1, B)>>) @@ (c2x :> <<Out(1, A)>>)
    @@ (c3 :> <<Out(1, B)>>)
    @@ (sp1 :> <<Out(2, B), Out(2, A)>>)
    @@ (sp2 :> <<Out(3, A)>>)
    @@ (dbl :> <<Out(4, B)>>)

LinBlocks == {G, B1, B2, B2x, B3}

LinBlockPrev == (G :> NoHash) @@ (B1 :> G) @@ (B2 :> B1) @@ (B2x :> B1) @@ (B3 :> B2)

LinBlockTxs ==
    (G :> <<g0>>) @@ (B1 :> <<c1, sp1>>) @@ (B2 :> <<c2, sp2>>)
    @@ (B2x :> <<c2x, dbl>>) @@ (B3 :> <<c3>>)

LinPKs == {A, B}

(* Fork universe: G <- B1 <- B2 and G <- B1 <- F2 <- F3, F2 spending the  *)
(* other output of B1's spend.  Once B2 is active, F3 (height 4) makes   *)
(* handleFork run with B1 as the common ancestor; a redelivery of B1 or   *)
(* B2 after its inputs were flushed rewrites its record with no undo      *)
(* file, after which that reorg panics.                                   *)
ForkTxIds == {g0, c1, sp1, c2, sp2, cf2, spf, cf3}

ForkTxInputs ==
    (g0 :> <<>>) @@ (c1 :> <<>>) @@ (c2 :> <<>>) @@ (cf2 :> <<>>) @@ (cf3 :> <<>>)
    @@ (sp1 :> <<In(g0, 0)>>)
    @@ (sp2 :> <<In(sp1, 0), In(c1, 0)>>)
    @@ (spf :> <<In(sp1, 1)>>)

ForkTxOutputs ==
    (g0 :> <<Out(4, A)>>)
    @@ (c1 :> <<Out(1, A)>>) @@ (c2 :> <<Out(1, B)>>) @@ (cf2 :> <<Out(1, B)>>)
    @@ (cf3 :> <<Out(1, A)>>)
    @@ (sp1 :> <<Out(2, B), Out(2, A)>>)
    @@ (sp2 :> <<Out(3, A)>>)
    @@ (spf :> <<Out(2, B)>>)

ForkBlocks == {G, B1, B2, F2, F3}

ForkBlockPrev == (G :> NoHash) @@ (B1 :> G) @@ (B2 :> B1) @@ (F2 :> B1) @@ (F3 :> F2)

ForkBlockTxs ==
    (G :> <<g0>>) @@ (B1 :> <<c1, sp1>>) @@ (B2 :> <<c2, sp2>>)
    @@ (F2 :> <<cf2, spf>>) @@ (F3 :> <<cf3>>)
(* Double-spend universe: B1 holds two transactions that spend the same   *)
(* genesis coin.                                                          *)
DsTxIds == {g0, c1, x1, x2}

DsTxInputs == (g0 :> <<>>) @@ (c1 :> <<>>) @@ (x1 :> <<In(g0, 0)>>) @@ (x2 :> <<In(g0, 0)>>)

DsTxOutputs ==
    (g0 :> <<Out(4, A)>>) @@ (c1 :> <<Out(1, A)>>)
    @@ (x1 :> <<Out(4, B)>>) @@ (x2 :> <<Out(4, B)>>)

DsBlocks == {G, B1}

DsBlockPrev == (G :> NoHash) @@ (B1 :> G)

DsBlockTxs == (G :> <<g0>>) @@ (B1 :> <<c1, x1, x2>>)

(* Spec S2 universe: B1's only transaction is a coinbase with the genesis  *)
(* coinbase's fields, so it is the same transaction g0.                    *)
DupTxIds == {g0}

DupTxInputs == (g0 :> <<>>)

DupTxOutputs == (g0 :> <<Out(4, A)>>)

DupBlockTxs == (G :> <<g0>>) @@ (B1 :> <<g0>>)
=============================================================================
