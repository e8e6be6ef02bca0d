----------------------------- MODULE ChainNode -----------------------------
(* The Miqrochain node (miqrod) as the indexer sees it through JSON-RPC: a   *)
(* tree of blocks and the chain the node currently calls active.  The node   *)
(* is not part of the repository; what it answers to get_block_count,        *)
(* get_block_hash and get_block is modelled from the calls that              *)
(* indexer/block_indexer.py and indexer/reorg_handler.py make.               *)
EXTENDS Integers

CONSTANTS
    Block,       \* the blocks any branch may ever hold, named by their hash
    NoBlock,     \* no block: the previous hash of a genesis block, "no answer"
    Parent,      \* Parent[b]: the block b's prev_hash names
    MaxHeight,   \* bound: no chain of the node is higher than this
    MayShrink    \* may a reorganisation leave the node with a shorter chain?

ASSUME ChainAssumption ==
    /\ NoBlock \notin Block
    /\ Parent \in [Block -> Block \cup {NoBlock}]
    /\ \A b, c \in Block :   \* a network has one genesis block
          Parent[b] = NoBlock /\ Parent[c] = NoBlock => b = c
    /\ MaxHeight \in Nat
    /\ MayShrink \in BOOLEAN

VARIABLE nodeChain   \* height -> block, the node's active chain

-----------------------------------------------------------------------------
(* Tables keyed by height: the node's active chain, the rows of a database   *)
(* table, the header cache.                                                  *)

IsTable(t) == DOMAIN t \subseteq Nat /\ t \in [DOMAIN t -> Block]

EmptyTable == [h \in {} |-> NoBlock]

\* INSERT ... ON CONFLICT (height) DO UPDATE, or an assignment to a dict key.
Put(t, h, b) == [k \in DOMAIN t \cup {h} |-> IF k = h THEN b ELSE t[k]]

\* DELETE ... WHERE height = h, or dict.pop(h, None).
Drop(t, h) == [k \in DOMAIN t \ {h} |-> t[k]]

\* ORDER BY height DESC LIMIT 1; -1 when there is no row.
TipHeight(t) ==
    IF DOMAIN t = {} THEN -1
    ELSE CHOOSE h \in DOMAIN t : \A k \in DOMAIN t : k <= h

\* Every block's prev_hash names the block stored one height below it.
Linked(t) ==
    \A h \in DOMAIN t :
        Parent[t[h]] = IF h = 0 THEN NoBlock ELSE IF h-1 \in DOMAIN t
                                                  THEN t[h-1] ELSE NoBlock

\* The chains the node may be on: genesis first, without gaps, linked.
Chains == UNION {{c \in [0..n -> Block] : Linked(c)} : n \in 0..MaxHeight}

\* t continues s.
Prefix(s, t) == \A h \in DOMAIN s : h \in DOMAIN t /\ t[h] = s[h]

-----------------------------------------------------------------------------
NodeInit == nodeChain \in Chains

\* A block is mined on top of the active chain.
NodeExtend ==
    /\ TipHeight(nodeChain) < MaxHeight
    /\ \E b \in Block :
          /\ Parent[b] = nodeChain[TipHeight(nodeChain)]
          /\ nodeChain' = Put(nodeChain, TipHeight(nodeChain) + 1, b)

\* The node moves to another branch, in one step.  A node that follows the
\* most work normally lands on a chain at least as long; an operator who
\* invalidates a block makes it shorter.
NodeReorg ==
    \E c \in Chains :
        /\ ~Prefix(nodeChain, c)
        /\ MayShrink \/ TipHeight(c) >= TipHeight(nodeChain)
        /\ nodeChain' = c

\* get_block_count.
NodeHeight == TipHeight(nodeChain)

\* get_block_hash(h); NoBlock when the call raises, the height being unknown.
NodeHash(h) == IF h \in DOMAIN nodeChain THEN nodeChain[h] ELSE NoBlock
=============================================================================
