----------------------------- MODULE MCExt2Read -----------------------------
(* Files of four blocks: every way of laying them out over a run of        *)
(* adjacent disk blocks, one block apart from them, and holes.             *)
EXTENDS Ext2Read

MCMaps ==
    {m \in [1 .. 4 -> {0, 3, 4, 5, 8}] :
        \A i, j \in 1 .. 4 : i # j /\ m[i] # 0 => m[i] # m[j]}
=============================================================================
