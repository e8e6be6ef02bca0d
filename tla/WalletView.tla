----------------------------- MODULE WalletView ----------------------------
(* What a wallet sees: get_history and get_balance read the database, await, *)
(* and add what the mempool tracker has by then.  The tracker polls one view *)
(* of the node, the indexer follows another, and nothing ties them together: *)
(* a transaction on its way from the mempool into a block, or back out of    *)
(* it, can be in both, or in neither.                                        *)
(*                                                                           *)
(* The indexer is reduced to the transactions of the blocks it has stored.   *)
EXTENDS MempoolTracker

CONSTANTS
    Minable,   \* bound: the transactions that may get into a block
    None       \* no request

ASSUME WalletAssumption == Minable \subseteq Tx /\ None \notin Tx

VARIABLES
    mined,      \* external: transactions in the blocks of the node's chain
    confirmed,  \* transactions in the tables
    asked,      \* a request under way, as it concerns one transaction, or None
    inRows,     \* is that transaction in the rows the database answered with?
    moved,      \* history: what has come to the node's mempool, left it or been
                \* mined since the node gave the list last polled, or at all
                \* before the first one
    failed      \* history: what that poll could not fetch

request == <<asked, inRows>>
walletVars == <<mined, confirmed, moved, failed, request>>
allVars == <<vars, walletVars>>

-----------------------------------------------------------------------------
WalletInit ==
    /\ Init
    /\ mined \in SUBSET (Minable \ nodePool) /\ confirmed = mined
    /\ asked = None /\ inRows = FALSE
    /\ moved = nodePool \cap Minable /\ failed = {}

Moves == moved' = moved \cup (Minable \cap SymDiff(nodePool, nodePool'))

\* External: a block of the node contains t.
NodeMines(t) ==
    /\ t \notin mined
    /\ mined' = mined \cup {t} /\ nodePool' = nodePool \ {t}
    /\ moved' = moved \cup {t}
    /\ UNCHANGED <<tracked, deltas, histogram, pc, todo, affected, answer, reported,
                   confirmed, failed, request>>

\* External: a reorganisation removes that block; the transaction is in the
\* node's mempool again, or is not valid any more.
NodeUnmines(t) ==
    /\ t \in mined
    /\ mined' = mined \ {t}
    /\ nodePool' \in {nodePool, nodePool \cup {t}}
    /\ Moves
    /\ UNCHANGED <<tracked, deltas, histogram, pc, todo, affected, answer, reported,
                   confirmed, failed, request>>

\* External: transactions come to the node's mempool and are dropped.
NodeRelays ==
    /\ NodeMempool
    /\ nodePool' \cap mined = {}
    /\ Moves
    /\ UNCHANGED <<mined, confirmed, failed, request>>

\* index_block_batch and rollback_block commit.
IndexerStores(t) == t \in mined \ confirmed /\ confirmed' = confirmed \cup {t}

IndexerRemoves(t) == t \in confirmed \ mined /\ confirmed' = confirmed \ {t}

Index ==
    /\ \E t \in Minable : IndexerStores(t) \/ IndexerRemoves(t)
    /\ UNCHANGED <<vars, mined, moved, failed, request>>

\* A step of the tracker's task.  The list it polled may be out of date when
\* it is used.
Track ==
    /\ \/ Poll
          /\ moved' = Minable \cap SymDiff(answer, nodePool) /\ failed' = {}
       \/ (PollAsks \/ CallbackOver \/ \E t \in todo : Fetched(t))
          /\ UNCHANGED <<moved, failed>>
       \/ \E t \in todo :
            FetchFails(t) /\ failed' = failed \cup ({t} \cap Minable) /\ UNCHANGED moved
    /\ UNCHANGED <<mined, confirmed, request>>

\* get_history, get_balance: the database answers.
Ask(t) ==
    /\ asked = None
    /\ asked' = t /\ inRows' = (t \in confirmed)
    /\ UNCHANGED <<vars, mined, confirmed, moved, failed>>

\* The handler resumes, and adds the mempool's part without another await.
Reply ==
    /\ asked # None
    /\ asked' = None /\ inRows' = FALSE
    /\ UNCHANGED <<vars, mined, confirmed, moved, failed>>

WalletNext ==
    \/ \E t \in Minable : Ask(t) \/ NodeMines(t) \/ NodeUnmines(t)
    \/ Reply \/ Track \/ Index \/ NodeRelays

WalletSpec == WalletInit /\ [][WalletNext]_allVars

\* The tracker's task gets on, as calls have timeouts; so does the indexer's,
\* of which SyncLoop shows that it follows the node.
WalletFairSpec ==
    WalletSpec /\ WF_allVars(Track) /\ WF_allVars(Index)

-----------------------------------------------------------------------------
\* Types.
WalletTypeOK ==
    /\ TypeOK
    /\ {mined, confirmed, moved, failed} \subseteq SUBSET Minable
    /\ asked \in Minable \cup {None}
    /\ inRows \in BOOLEAN
    /\ mined \cap nodePool = {}

\* Whatever is in the node's mempool since before the list was given that was
\* polled last is shown, or is about to be fetched, or its fetch failed in this
\* poll: no list that is out of date when it is used, no fetch that fails, and no
\* transaction that leaves in between hides another one.
PoolIsShown == nodePool \cap Minable \subseteq tracked \cup todo \cup moved \cup failed

\* What is in both parts is counted twice by get_balance: a confirmed
\* transaction that the tracker still has.  It was mined since the node gave
\* the list that was polled last, so the next poll forgets it, or the node has
\* taken it out of its chain again.
TwiceUntilPoll == inRows /\ asked \in tracked => asked \in moved \/ asked \notin mined

\* A fetch of this step failed.
FetchLost == pc = "fetch" /\ todo' # todo /\ tracked' = tracked

NodeSettled == <>[][nodePool' = nodePool /\ mined' = mined /\ ~FetchLost]_allVars

\* Once the node's chain and mempool stay the same and no call fails, every
\* transaction is in exactly the part it belongs to, and the balance is exact.
ViewConverges == NodeSettled => <>[](tracked = nodePool /\ confirmed = mined)
=============================================================================
