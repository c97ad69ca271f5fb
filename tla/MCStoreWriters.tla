---------------------------- MODULE MCStoreWriters ----------------------------
(***************************************************************************)
(* Two StoreBlock calls, of blocks B1 and B2 with undo blocks U1 and U2,  *)
(* after the genesis block G.  Two blocks fill a block file of 5 bytes    *)
(* and two undo blocks an undo file of 3, so both families rotate.        *)
(***************************************************************************)
EXTENDS StoreWriters, TLC

CONSTANTS w1, w2, G, B1, B2, U1, U2

NWriters == {w1, w2}
NJobBlock == (w1 :> B1) @@ (w2 :> B2)
NJobUndo == (w1 :> U1) @@ (w2 :> U2)
NBytes == (G :> 2) @@ (B1 :> 2) @@ (B2 :> 2) @@ (U1 :> 1) @@ (U2 :> 1)

\* Calls that run one after the other, as under the lock spec.md asks for.
OneCallAtATime ==
    \A j, k \in Writers :
        (j # k /\ pc[j] \notin {"rot", "done"}) => pc[k] \in {"rot", "done"} /\ fam[k] = "block"
====
