----------------------------- MODULE SyncLoop ------------------------------
(* The block indexer's task: indexer/block_indexer.py driving                *)
(* indexer/reorg_handler.py, with the header cache it maintains and the      *)
(* block-level part of the database it writes.  One action is the code       *)
(* between two awaits of the task; the node moves at any await.              *)
(*                                                                           *)
(* pc           where the task is                                            *)
(*   "down"        the process is not running                                *)
(*   "top"         _sync_loop, before get_block_count                        *)
(*   "tip"         check_for_reorg                                           *)
(*   "walk"        the loop of _find_common_ancestor                         *)
(*   "handle"      handle_reorg, before get_tip_block                        *)
(*   "rollback"    handle_reorg's loop, before dal.rollback_block            *)
(*   "uncache"     rolled back, before remove_from_cache                     *)
(*   "reorgNotify" in the callback of _sync_loop after a reorg               *)
(*   "decide"      sync or sleep                                             *)
(*   "fetch"       _index_block, before its RPC calls                        *)
(*   "commit"      _index_block, before index_block_batch                    *)
(*   "cacheadd"    committed, before add_to_cache                            *)
(*   "notify"      in the callback of _sync_blocks                           *)
(*   "sleep"       asyncio.sleep(poll_interval)                              *)
EXTENDS HeaderStore

CONSTANTS
    MaxReorgDepth,   \* IndexerConfig.reorg_limit
    BatchSize,       \* IndexerConfig.batch_size
    ReorgAt,         \* the values of pc at which the node may reorganise
    Faults           \* which calls may fail, and whether the process may die

FaultKinds == {"rpc", "read", "index", "rollback", "notify", "crash"}

PCs == {"down", "top", "tip", "walk", "handle", "rollback", "uncache",
        "reorgNotify", "decide", "fetch", "commit", "cacheadd", "notify",
        "sleep"}

ASSUME SyncAssumption ==
    /\ MaxReorgDepth \in Nat
    /\ BatchSize \in Nat
    /\ ReorgAt \subseteq PCs
    /\ Faults \subseteq FaultKinds

VARIABLES
    blocks,         \* tables blocks and headers: height -> block
    meta,           \* table metadata: indexed_height, -1 when absent
    indexedHeight,  \* BlockIndexer._indexed_height
    nodeHeight,     \* BlockIndexer._node_height
    pc,
    cursor,         \* the `height` of the loop the task is in
    endHeight,      \* _sync_blocks: end_height
    ancestor,       \* common ancestor height, -1 when none
    steps,          \* _find_common_ancestor: iterations done
    fetched         \* _index_block: the block the node returned

db     == <<blocks, meta>>
store  == <<cache, tipHeight>>
heights == <<indexedHeight, nodeHeight>>
frame  == <<cursor, endHeight, ancestor, steps, fetched>>
vars   == <<nodeChain, db, store, heights, pc, frame>>

\* The task's local variables go out of scope.
FrameGone ==
    /\ cursor' = -1 /\ endHeight' = -1 /\ ancestor' = -1
    /\ steps' = 0 /\ fetched' = NoBlock

Goto(target) == pc' = target /\ FrameGone

-----------------------------------------------------------------------------
Init ==
    /\ NodeInit
    /\ blocks = EmptyTable /\ meta = -1
    /\ StoreEmpty
    /\ indexedHeight = -1 /\ nodeHeight = -1
    /\ pc = "down"
    /\ cursor = -1 /\ endHeight = -1 /\ ancestor = -1
    /\ steps = 0 /\ fetched = NoBlock

\* start: the indexed height from the metadata, the header cache from the
\* headers table, then the loop.
Start ==
    /\ pc = "down"
    /\ indexedHeight' = meta
    /\ LoadCache(blocks)
    /\ Goto("top")
    /\ UNCHANGED <<nodeChain, db, nodeHeight>>

-----------------------------------------------------------------------------
(* _sync_loop and the reorg check.                                           *)

Poll ==
    /\ pc = "top"
    /\ nodeHeight' = NodeHeight
    /\ Goto(IF indexedHeight >= 0 THEN "tip" ELSE "decide")
    /\ UNCHANGED <<nodeChain, db, store, indexedHeight>>

\* Comparing heights where the code compares hashes.
OnNodeChainByHeight(h) == h \in DOMAIN nodeChain

\* node_hash == our_block.hash, for a height we have.
OnNodeChain(h) == NodeHash(h) = blocks[h]

\* check_for_reorg: nothing indexed, or the node has our tip.
TipAgrees ==
    /\ pc = "tip"
    /\ DOMAIN blocks # {} => OnNodeChain(TipHeight(blocks))
    /\ Goto("decide")
    /\ UNCHANGED <<nodeChain, db, store, heights>>

\* check_for_reorg: another block at our tip's height, or none.
TipDiffers ==
    /\ pc = "tip"
    /\ DOMAIN blocks # {}
    /\ ~OnNodeChain(TipHeight(blocks))
    /\ pc' = "walk" /\ cursor' = TipHeight(blocks) /\ steps' = 0
    /\ UNCHANGED <<nodeChain, db, store, heights, endHeight, ancestor, fetched>>

\* One iteration more than the code's range(max_reorg_depth).
WalkGoesOnLonger == steps <= MaxReorgDepth

\* for _ in range(max_reorg_depth): another iteration.
WalkGoesOn == steps < MaxReorgDepth

\* The loop of _find_common_ancestor ran out of iterations: RuntimeError,
\* which _sync_loop answers by sleeping.
WalkExceeded ==
    /\ pc = "walk"
    /\ ~WalkGoesOn
    /\ Goto("sleep")
    /\ UNCHANGED <<nodeChain, db, store, heights>>

WalkDone(height) ==
    /\ pc' = "handle" /\ ancestor' = height
    /\ cursor' = -1 /\ steps' = 0
    /\ UNCHANGED <<nodeChain, db, store, heights, endHeight, fetched>>

WalkGenesis ==
    /\ pc = "walk" /\ WalkGoesOn
    /\ cursor < 0
    /\ WalkDone(-1)

WalkFound ==
    /\ pc = "walk" /\ WalkGoesOn
    /\ cursor \in DOMAIN blocks
    /\ OnNodeChain(cursor)
    /\ WalkDone(cursor)

StepBack ==
    /\ cursor' = cursor - 1 /\ steps' = steps + 1
    /\ UNCHANGED <<nodeChain, db, store, heights, pc, endHeight, ancestor, fetched>>

\* No block of ours at this height, none of the node's, or different ones.
WalkBack ==
    /\ pc = "walk" /\ WalkGoesOn
    /\ cursor >= 0
    /\ cursor \in DOMAIN blocks => ~OnNodeChain(cursor)
    /\ StepBack

-----------------------------------------------------------------------------
(* handle_reorg.                                                             *)

\* get_tip_block; nothing above the ancestor means nothing to roll back, no
\* affected scripthash, and no notification.
HandleReorg ==
    /\ pc = "handle"
    /\ IF TipHeight(blocks) > ancestor
       THEN /\ pc' = "rollback" /\ cursor' = TipHeight(blocks)
            /\ UNCHANGED <<indexedHeight, endHeight, ancestor, steps, fetched>>
       ELSE /\ indexedHeight' = ancestor
            /\ Goto("decide")
    /\ UNCHANGED <<nodeChain, db, store, nodeHeight>>

\* One block too many: the ancestor goes as well.
RollbackBlockInclusive ==
    /\ pc = "rollback" /\ cursor >= ancestor /\ cursor >= 0
    /\ blocks' = Drop(blocks, cursor) /\ meta' = cursor - 1
    /\ pc' = "uncache"
    /\ UNCHANGED <<nodeChain, store, heights, frame>>

\* dal.rollback_block: one transaction.
RollbackBlock ==
    /\ pc = "rollback" /\ cursor > ancestor
    /\ blocks' = Drop(blocks, cursor) /\ meta' = cursor - 1
    /\ pc' = "uncache"
    /\ UNCHANGED <<nodeChain, store, heights, frame>>

Uncache ==
    /\ pc = "uncache"
    /\ RemoveFromCache(cursor)
    /\ cursor' = cursor - 1
    /\ pc' = "rollback"
    /\ UNCHANGED <<nodeChain, db, heights, endHeight, ancestor, steps, fetched>>

\* The loop is done.  The callback runs only when some scripthash was affected.
FinishReorg ==
    /\ pc = "rollback" /\ cursor <= ancestor
    /\ indexedHeight' = ancestor
    /\ \/ Goto("decide")
       \/ /\ pc' = "reorgNotify" /\ cursor' = -1
          /\ UNCHANGED <<endHeight, ancestor, steps, fetched>>
    /\ UNCHANGED <<nodeChain, db, store, nodeHeight>>

\* _on_new_block(reorg_height, "", affected): it asks for the header.
ReorgNotified ==
    /\ pc = "reorgNotify"
    /\ GetHeader(blocks, ancestor)
    /\ Goto("decide")
    /\ UNCHANGED <<nodeChain, db, heights>>

-----------------------------------------------------------------------------
(* _sync_blocks and _index_block.                                            *)

Lower(a, b) == IF a < b THEN a ELSE b

\* Behind the node: the range of the batch (empty when BatchSize is 0).
StartBatch ==
    /\ pc = "decide"
    /\ indexedHeight < nodeHeight
    /\ LET end == Lower(nodeHeight, indexedHeight + BatchSize)
       IN IF indexedHeight + 1 <= end
          THEN /\ cursor' = indexedHeight + 1 /\ endHeight' = end
               /\ pc' = "fetch"
               /\ UNCHANGED <<ancestor, steps, fetched>>
          ELSE Goto("top")
    /\ UNCHANGED <<nodeChain, db, store, heights>>

\* Off by one: one block behind the node counts as synced.
CaughtUpEarly ==
    /\ pc = "decide"
    /\ indexedHeight + 1 >= nodeHeight
    /\ Goto("sleep")
    /\ UNCHANGED <<nodeChain, db, store, heights>>

CaughtUp ==
    /\ pc = "decide"
    /\ indexedHeight >= nodeHeight
    /\ Goto("sleep")
    /\ UNCHANGED <<nodeChain, db, store, heights>>

\* get_block_hash(height), then get_block(hash).
Fetch ==
    /\ pc = "fetch"
    /\ cursor \in DOMAIN nodeChain
    /\ fetched' = NodeHash(cursor)
    /\ pc' = "commit"
    /\ UNCHANGED <<nodeChain, db, store, heights, cursor, endHeight, ancestor, steps>>

\* The node no longer has a block at this height: the call raises.
FetchMissing ==
    /\ pc = "fetch"
    /\ cursor \notin DOMAIN nodeChain
    /\ Goto("sleep")
    /\ UNCHANGED <<nodeChain, db, store, heights>>

\* The metadata row written as if heights counted blocks.
CommitCounts ==
    /\ pc = "commit"
    /\ blocks' = Put(blocks, cursor, fetched) /\ meta' = cursor + 1
    /\ pc' = "cacheadd"
    /\ UNCHANGED <<nodeChain, store, heights, frame>>

\* dal.index_block_batch: one transaction, upserting by height.
Commit ==
    /\ pc = "commit"
    /\ blocks' = Put(blocks, cursor, fetched) /\ meta' = cursor
    /\ pc' = "cacheadd"
    /\ UNCHANGED <<nodeChain, store, heights, frame>>

CacheAdd ==
    /\ pc = "cacheadd"
    /\ AddToCache(cursor, fetched)
    /\ indexedHeight' = cursor
    /\ pc' = "notify"
    /\ UNCHANGED <<nodeChain, db, nodeHeight, frame>>

\* The callback returned.  The progress line divides by the node's height
\* when 1000 divides the block's, so it raises when the node has only genesis.
Notified ==
    /\ pc = "notify"
    /\ GetHeader(blocks, cursor)
    /\ IF cursor < endHeight
       THEN /\ cursor' = cursor + 1 /\ fetched' = NoBlock
            /\ pc' = "fetch"
            /\ UNCHANGED <<endHeight, ancestor, steps>>
       ELSE Goto(IF nodeHeight = 0 THEN "sleep" ELSE "top")
    /\ UNCHANGED <<nodeChain, db, heights>>

Wake ==
    /\ pc = "sleep"
    /\ Goto("top")
    /\ UNCHANGED <<nodeChain, db, store, heights>>

-----------------------------------------------------------------------------
(* Failures.  An exception anywhere in the loop's body ends in the sleep of  *)
(* _sync_loop, except where reorg_handler.py catches it.                     *)

\* get_block_count, get_block_hash or get_block raises.
RpcRaises ==
    /\ "rpc" \in Faults
    /\ pc \in {"top", "fetch"}
    /\ Goto("sleep")
    /\ UNCHANGED <<nodeChain, db, store, heights>>

\* check_for_reorg takes any exception of the RPC for a missing height.
TipRpcRaises ==
    /\ "rpc" \in Faults
    /\ pc = "tip"
    /\ DOMAIN blocks # {}
    /\ pc' = "walk" /\ cursor' = TipHeight(blocks) /\ steps' = 0
    /\ UNCHANGED <<nodeChain, db, store, heights, endHeight, ancestor, fetched>>

\* So does _find_common_ancestor.
WalkRpcRaises ==
    /\ "rpc" \in Faults
    /\ pc = "walk" /\ WalkGoesOn
    /\ cursor \in DOMAIN blocks
    /\ StepBack

\* A SELECT raises.
ReadRaises ==
    /\ "read" \in Faults
    /\ pc \in {"tip", "walk", "handle", "fetch", "notify", "reorgNotify"}
    /\ Goto("sleep")
    /\ UNCHANGED <<nodeChain, db, store, heights>>

\* index_block_batch raises: nothing was committed, or the commit happened
\* and its acknowledgement was lost.
CommitRaises ==
    /\ "index" \in Faults
    /\ pc = "commit"
    /\ \/ UNCHANGED db
       \/ blocks' = Put(blocks, cursor, fetched) /\ meta' = cursor
    /\ Goto("sleep")
    /\ UNCHANGED <<nodeChain, store, heights>>

\* rollback_block raises, likewise.
RollbackRaises ==
    /\ "rollback" \in Faults
    /\ pc = "rollback" /\ cursor > ancestor
    /\ \/ UNCHANGED db
       \/ blocks' = Drop(blocks, cursor) /\ meta' = cursor - 1
    /\ Goto("sleep")
    /\ UNCHANGED <<nodeChain, store, heights>>

\* The callback raises after it asked for the header.
NotifyRaises ==
    /\ "notify" \in Faults
    /\ \/ pc = "notify" /\ GetHeader(blocks, cursor)
       \/ pc = "reorgNotify" /\ GetHeader(blocks, ancestor)
    /\ Goto("sleep")
    /\ UNCHANGED <<nodeChain, db, heights>>

\* The process dies: the database survives, everything else is lost.
Crash ==
    /\ "crash" \in Faults
    /\ pc # "down"
    /\ StoreReset
    /\ indexedHeight' = -1 /\ nodeHeight' = -1
    /\ Goto("down")
    /\ UNCHANGED <<nodeChain, db>>

-----------------------------------------------------------------------------
Reorg == TipAgrees \/ TipDiffers \/ WalkExceeded \/ WalkGenesis \/ WalkFound
         \/ WalkBack \/ HandleReorg \/ RollbackBlock \/ Uncache \/ FinishReorg
         \/ ReorgNotified

Sync == StartBatch \/ CaughtUp \/ Fetch \/ FetchMissing \/ Commit \/ CacheAdd
        \/ Notified

\* What the task does when nothing fails.
Work == Start \/ Poll \/ Reorg \/ Sync \/ Wake

Fault == RpcRaises \/ TipRpcRaises \/ WalkRpcRaises \/ ReadRaises
         \/ CommitRaises \/ RollbackRaises \/ NotifyRaises \/ Crash

NodeMoves ==
    /\ NodeExtend \/ (pc \in ReorgAt /\ NodeReorg)
    /\ UNCHANGED <<db, store, heights, pc, frame>>

Next == Work \/ Fault \/ NodeMoves

Spec == Init /\ [][Next]_vars

\* The event loop keeps running the task: every RPC call has a timeout and
\* every database call returns or raises.
FairSpec == Spec /\ WF_vars(Work)

-----------------------------------------------------------------------------
(* Properties.                                                               *)

\* The values of pc between which no decision rests on an earlier answer of
\* the node: a reorganisation there cannot mislead the batch that follows.
SafePoints == {"down", "sleep", "top", "tip", "walk"}

\* Types of the state.
TypeOK ==
    /\ nodeChain \in Chains
    /\ IsTable(blocks) /\ meta \in Int
    /\ IsTable(cache) /\ tipHeight \in Int
    /\ indexedHeight \in Int /\ nodeHeight \in Int
    /\ pc \in PCs
    /\ cursor \in Int /\ endHeight \in Int /\ ancestor \in Int
    /\ steps \in 0..MaxReorgDepth
    /\ fetched \in Block \cup {NoBlock}

\* The database holds exactly the heights 0..indexed_height, whatever was
\* rolled back, refetched, interrupted by an error or by a crash: neither the
\* upsert of index_block_batch nor the loops around it ever leave a gap.
Contiguous == DOMAIN blocks = 0..meta

\* Every stored block's prev_hash names the stored block below it, although
\* _index_block never compares them: check_for_reorg has to have seen to it.
ChainLinked == Linked(blocks)

\* The header cache only serves rows of the headers table, except for the
\* block whose rollback was committed and whose header is about to be removed.
CacheCoherent ==
    \A h \in DOMAIN cache :
        \/ h \in DOMAIN blocks /\ cache[h] = blocks[h]
        \/ pc = "uncache" /\ h = cursor

\* The tip height the protocol layer computes confirmations from never runs
\* ahead: neither of the indexer's own height nor, but for the moment between
\* a rollback and the removal from the cache, of the database's.  It may fall
\* behind, by a block for each commit whose acknowledgement was lost and which
\* the walk then accepted.
TipNeverAhead ==
    /\ tipHeight <= indexedHeight
    /\ pc # "uncache" => tipHeight <= meta

\* When handle_reorg is called it is about to roll back fewer than reorg_limit
\* heights, whichever calls failed during the walk and whatever gaps an
\* earlier failure left: a misread node costs a bounded part of the index.
RollbackBounded ==
    pc = "handle" => TipHeight(blocks) - ancestor < MaxReorgDepth

\* A committed rollback only ever removes a block the node no longer has on
\* its active chain.
RollbackOnlyOrphans ==
    [][\A h \in DOMAIN blocks :
          h \notin DOMAIN blocks' => NodeHash(h) # blocks[h]]_vars

\* Seen through its commits the index is the abstract stack of blocks.
Stack == INSTANCE BlockStack WITH stack <- blocks

StackSpec == Stack!Spec

\* From some time on the node stays on chain c and no call fails.
Settled(c) == <>[](nodeChain = c) /\ <>[][~Fault]_vars

\* No failed rollback has left, for good, a gap or a height in memory above the
\* database's.  Where no rollback fails neither happens: NoGaps, and outside a
\* rollback the height in memory is the database's, or one less.
Recovers == <>[]Contiguous /\ []<>(indexedHeight <= meta)

\* Once the node settles the index's tip is the node's tip, however often and
\* whenever the node reorganised before.
TipConverges ==
    \A c \in Chains :
        Settled(c) /\ Recovers
            => <>[](/\ DOMAIN blocks # {}
                    /\ TipHeight(blocks) = TipHeight(c)
                    /\ blocks[TipHeight(blocks)] = c[TipHeight(c)])

\* Once the node settles the whole index is the node's chain, and the task
\* knows it.
FullyConverges ==
    \A c \in Chains :
        Settled(c) => <>[](blocks = c /\ indexedHeight = TipHeight(c))

\* An index without orphans inside it gets there: no reorganisation leaves the
\* task believing in a height that it then never fetches.
LinkedConverges ==
    \A c \in Chains :
        Settled(c) /\ Recovers /\ <>[]ChainLinked
            => <>[](blocks = c /\ indexedHeight = TipHeight(c))
=============================================================================
