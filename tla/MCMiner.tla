------------------------------ MODULE MCMiner ------------------------------
(***************************************************************************)
(* Instances of Miner for TLC.  Three transactions whose priorities differ *)
(* (fees 4, 2 and 6 over sizes 40, 50 and 30: priorities 10, 4 and 20),   *)
(* transaction handlers h1..h3 and block handler k1.                       *)
(***************************************************************************)
EXTENDS Miner, TLC

CONSTANTS t1, t2, t3, h1, h2, h3, k1

MCTxs == {t1, t2, t3}
MCSize == (t1 :> 40 @@ t2 :> 50 @@ t3 :> 30)
MCSumOutputs == (t1 :> 5 @@ t2 :> 3 @@ t3 :> 2)
MCInputSum == (t1 :> 9 @@ t2 :> 5 @@ t3 :> 8)

\* Two handlers of t1 and t2 and a block carrying t1 and t3.
MCTxJobs2 == {h1, h2}
MCJobTx2 == (h1 :> t1 @@ h2 :> t2)

\* Three handlers, one per transaction, arriving in any order.
MCTxJobs3 == {h1, h2, h3}
MCJobTx3 == (h1 :> t1 @@ h2 :> t2 @@ h3 :> t3)

MCBlockJobs == {k1}
MCJobBlock == (k1 :> <<t1, t3>>)

\* A block carrying the highest-priority transaction only.
MCJobBlockTop == (k1 :> <<t3>>)

NoBlockJobs == {}
NoJobBlock == [j \in {} |-> <<>>]
=============================================================================
