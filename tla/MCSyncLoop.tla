---------------------------- MODULE MCSyncLoop -----------------------------
(* A small tree of blocks for TLC: one genesis block, a branch a of three    *)
(* blocks and a branch b of three, forking at genesis.                       *)
EXTENDS SyncLoop

CONSTANTS g, a1, a2, a3, b1, b2, b3

MCBlock == {g, a1, a2, a3, b1, b2, b3}

MCParent ==
    [b \in MCBlock |-> CASE b = g -> NoBlock
                         [] b \in {a1, b1} -> g
                         [] b = a2 -> a1
                         [] b = a3 -> a2
                         [] b = b2 -> b1
                         [] b = b3 -> b2]

MCAnywhere == PCs

MCSafePoints == SafePoints

\* Before the node's answers are compared: nothing is under way.
MCQuiet == {"down", "sleep", "top", "tip"}
=============================================================================
