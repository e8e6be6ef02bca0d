---------------------------- MODULE BlockStack -----------------------------
(* What the index promises its readers about the block it stores: seen one   *)
(* database commit at a time it is a chain that only ever grows by a child   *)
(* of its tip or loses its tip.  A commit never skips a height, never        *)
(* replaces a block under another one, and never leaves a block whose        *)
(* parent is not the one below it.                                           *)
EXTENDS Integers

CONSTANTS Block, NoBlock, Parent

VARIABLE stack   \* height -> block

Init == stack = [h \in {} |-> NoBlock]

\* The next free height: 0, or one above a stored block.
NextHeights == {0} \cup {h + 1 : h \in DOMAIN stack}

TopBlock(n) == IF n = 0 THEN NoBlock ELSE stack[n-1]

Push ==
    \E n \in NextHeights, b \in Block :
        /\ DOMAIN stack = 0..(n-1)
        /\ Parent[b] = TopBlock(n)
        /\ stack' = [h \in 0..n |-> IF h = n THEN b ELSE stack[h]]

Pop ==
    \E n \in DOMAIN stack :
        /\ DOMAIN stack = 0..n
        /\ stack' = [h \in 0..(n-1) |-> stack[h]]

Next == Push \/ Pop

Spec == Init /\ [][Next]_stack
=============================================================================
