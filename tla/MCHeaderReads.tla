--------------------------- MODULE MCHeaderReads ---------------------------
(* A tree of blocks that fork above height 1, so that a rollback can leave a *)
(* gap below the tip: a branch a of two blocks, a branch b of three.         *)
EXTENDS HeaderReads

CONSTANTS g, h1, a2, a3, b2, b3, b4

MCBlock == {g, h1, a2, a3, b2, b3, b4}

MCParent ==
    [b \in MCBlock |-> CASE b = g -> NoBlock
                         [] b = h1 -> g
                         [] b \in {a2, b2} -> h1
                         [] b = a3 -> a2
                         [] b = b3 -> b2
                         [] b = b4 -> b3]

\* Before the node's answers are compared: nothing is under way.
MCQuiet == {"down", "sleep", "tip"}
=============================================================================
