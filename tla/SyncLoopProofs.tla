--------------------------- MODULE SyncLoopProofs ---------------------------
(* Proofs about SyncLoop for every tree of blocks, every height bound, batch *)
(* size, cache size and reorganisation limit.                                *)
EXTENDS SyncLoop, SetLemmas, FiniteSetTheorems, TLAPS

-----------------------------------------------------------------------------
(* Tables keyed by height.                                                   *)

\* The highest height of a table without gaps.
LEMMA TipOfRange ==
    ASSUME NEW t, NEW n \in Int, n >= -1, DOMAIN t = 0..n
    PROVE  TipHeight(t) = n
<1>1. CASE n = -1
    BY <1>1 DEF TipHeight
<1>2. CASE n >= 0
    <2>1. n \in DOMAIN t /\ \A k \in DOMAIN t : k <= n
        BY <1>2
    <2>2. \A h \in DOMAIN t : (\A k \in DOMAIN t : k <= h) => h = n
        BY <2>1
    <2> QED
        BY <2>1, <2>2 DEF TipHeight
<1> QED
    BY <1>1, <1>2

\* An upsert gives a table whose other rows are unchanged.
LEMMA PutFacts ==
    ASSUME NEW t, IsTable(t), NEW h \in Nat, NEW b \in Block
    PROVE  /\ IsTable(Put(t, h, b))
           /\ DOMAIN Put(t, h, b) = DOMAIN t \cup {h}
           /\ Put(t, h, b)[h] = b
           /\ \A k \in DOMAIN t : k # h => Put(t, h, b)[k] = t[k]
    BY DEF IsTable, Put

\* So does a deletion.
LEMMA DropFacts ==
    ASSUME NEW t, IsTable(t), NEW h
    PROVE  /\ IsTable(Drop(t, h))
           /\ DOMAIN Drop(t, h) = DOMAIN t \ {h}
           /\ \A k \in DOMAIN t \ {h} : Drop(t, h)[k] = t[k]
    BY DEF IsTable, Drop

\* No row is higher than some height; every table of the database is like that.
Bounded(t) == \E n \in Nat : \A h \in DOMAIN t : h <= n

\* The highest height of a table that may have gaps.
LEMMA TipFacts ==
    ASSUME NEW t, IsTable(t), Bounded(t)
    PROVE  /\ TipHeight(t) \in Int /\ TipHeight(t) >= -1
           /\ TipHeight(t) >= 0 <=> DOMAIN t # {}
           /\ DOMAIN t # {} => TipHeight(t) \in DOMAIN t
           /\ \A h \in DOMAIN t : h <= TipHeight(t)
<1>1. CASE DOMAIN t = {}
    BY <1>1 DEF TipHeight
<1>2. CASE DOMAIN t # {}
    <2>1. DOMAIN t \in SUBSET Nat
        BY DEF IsTable
    <2>2. \E m \in DOMAIN t : \A k \in DOMAIN t : k <= m
        BY <1>2, <2>1, GreatestNatural DEF Bounded
    <2>3. TipHeight(t) \in DOMAIN t /\ \A k \in DOMAIN t : k <= TipHeight(t)
        BY <1>2, <2>2 DEF TipHeight
    <2> QED
        BY <1>2, <2>1, <2>3
<1> QED
    BY <1>1, <1>2

\* Upserts and deletions keep a table bounded.
LEMMA BoundedFacts ==
    ASSUME NEW t, IsTable(t), Bounded(t), NEW h
    PROVE  /\ Bounded(Drop(t, h))
           /\ h \in Nat => \A b : Bounded(Put(t, h, b))
<1>1. PICK n \in Nat : \A k \in DOMAIN t : k <= n
    BY DEF Bounded
<1>2. Bounded(Drop(t, h))
    BY <1>1 DEF Bounded, Drop
<1>3. ASSUME NEW b, h \in Nat PROVE Bounded(Put(t, h, b))
    <2>1. DOMAIN Put(t, h, b) = DOMAIN t \cup {h} /\ DOMAIN t \subseteq Nat
        BY DEF Put, IsTable
    <2>2. CASE h <= n
        BY <1>1, <2>1, <2>2 DEF Bounded
    <2>3. CASE n <= h
        BY <1>1, <1>3, <2>1, <2>3 DEF Bounded
    <2> QED
        BY <1>3, <2>2, <2>3
<1> QED
    BY <1>2, <1>3

\* A chain of the node has no gap and a tip.
LEMMA ChainFacts ==
    ASSUME NEW c \in Chains
    PROVE  \E n \in 0..MaxHeight :
               /\ DOMAIN c = 0..n /\ TipHeight(c) = n
               /\ IsTable(c) /\ Linked(c)
<1>1. PICK n \in 0..MaxHeight : c \in [0..n -> Block] /\ Linked(c)
    BY DEF Chains
<1>2. n \in Int /\ n >= -1 /\ DOMAIN c = 0..n
    BY <1>1, ChainAssumption
<1>3. IsTable(c)
    BY <1>1, <1>2 DEF IsTable
<1> QED
    BY <1>1, <1>2, <1>3, TipOfRange

\* Mining a block gives a chain that continues the one before.
LEMMA ExtendFacts ==
    ASSUME nodeChain \in Chains, NodeExtend
    PROVE  nodeChain' \in Chains /\ Prefix(nodeChain, nodeChain')
<1>1. PICK n \in 0..MaxHeight :
          /\ DOMAIN nodeChain = 0..n /\ TipHeight(nodeChain) = n
          /\ IsTable(nodeChain) /\ Linked(nodeChain)
    BY ChainFacts
<1>2. PICK b \in Block : /\ Parent[b] = nodeChain[n]
                         /\ nodeChain' = Put(nodeChain, n + 1, b)
    BY <1>1 DEF NodeExtend
<1>3. n + 1 \in 0..MaxHeight
    BY <1>1, ChainAssumption DEF NodeExtend
<1>4. nodeChain' \in [0..(n+1) -> Block]
    BY <1>1, <1>2, ChainAssumption DEF Put, IsTable
<1>5. Linked(nodeChain')
    <2> SUFFICES ASSUME NEW h \in 0..(n+1)
                 PROVE  Parent[nodeChain'[h]] =
                            IF h = 0 THEN NoBlock ELSE nodeChain'[h-1]
        BY <1>4 DEF Linked
    <2>1. nodeChain'[n+1] = b /\ \A k \in 0..n : nodeChain'[k] = nodeChain[k]
        BY <1>1, <1>2 DEF Put
    <2>2. CASE h = n + 1
        BY <1>2, <2>1, <2>2
    <2>3. CASE h \in 0..n
        <3>1. Parent[nodeChain[h]] =
                  IF h = 0 THEN NoBlock ELSE nodeChain[h-1]
            BY <1>1, <2>3 DEF Linked
        <3>2. h # 0 => h - 1 \in 0..n
            BY <2>3
        <3> QED
            BY <2>1, <2>3, <3>1, <3>2
    <2> QED
        BY <2>2, <2>3
<1>6. Prefix(nodeChain, nodeChain')
    BY <1>1, <1>2 DEF Prefix, Put
<1> QED
    BY <1>3, <1>4, <1>5, <1>6 DEF Chains

-----------------------------------------------------------------------------
(* Types, and what the loops know about the database, whatever fails.        *)

\* The four updates of the header cache keep its type.
LEMMA StoreTyped ==
    ASSUME IsTable(blocks), IsTable(cache), tipHeight \in Int,
           TipHeight(blocks) \in Int
    PROVE  /\ LoadCache(blocks) => IsTable(cache') /\ tipHeight' \in Int
           /\ \A h \in Nat, b \in Block :
                 AddToCache(h, b) => IsTable(cache') /\ tipHeight' \in Int
           /\ \A h \in Int :
                 RemoveFromCache(h) => IsTable(cache') /\ tipHeight' \in Int
           /\ \A h \in Int :
                 GetHeader(blocks, h) => IsTable(cache') /\ tipHeight' \in Int
           /\ StoreReset => IsTable(cache') /\ tipHeight' \in Int
<1>1. /\ IsTable(blocks) /\ IsTable(cache) /\ tipHeight \in Int
      /\ TipHeight(blocks) \in Int
    OBVIOUS
<1>2. LoadCache(blocks) => IsTable(cache') /\ tipHeight' \in Int
    <2> SUFFICES ASSUME LoadCache(blocks), TipHeight(blocks) # -1
                 PROVE  IsTable(cache')
        BY <1>1 DEF LoadCache
    <2>1. PICK L \in SUBSET DOMAIN blocks :
              cache' = [h \in DOMAIN cache \cup L |->
                           IF h \in L THEN blocks[h] ELSE cache[h]]
        BY <1>1 DEF LoadCache
    <2> QED
        BY <1>1, <2>1 DEF IsTable
<1>3. ASSUME NEW h \in Nat, NEW b \in Block, AddToCache(h, b)
      PROVE  IsTable(cache') /\ tipHeight' \in Int
    <2>1. IsTable(Put(cache, h, b))
        BY <1>1, PutFacts
    <2>2. IsTable(Drop(Put(cache, h, b), Oldest(Put(cache, h, b))))
        BY <2>1, DropFacts
    <2> QED
        BY <1>1, <1>3, <2>1, <2>2 DEF AddToCache
<1>4. ASSUME NEW h \in Int, RemoveFromCache(h)
      PROVE  IsTable(cache') /\ tipHeight' \in Int
    <2>1. IsTable(Drop(cache, h))
        BY <1>1, DropFacts
    <2> QED
        BY <1>1, <1>4, <2>1 DEF RemoveFromCache
<1>5. ASSUME NEW h \in Int, GetHeader(blocks, h)
      PROVE  IsTable(cache') /\ tipHeight' \in Int
    <2>1. h \in DOMAIN blocks => IsTable(Put(cache, h, blocks[h]))
        <3> HAVE h \in DOMAIN blocks
        <3>1. h \in Nat /\ blocks[h] \in Block
            BY <1>1 DEF IsTable
        <3> QED
            BY <1>1, <3>1, PutFacts
    <2> QED
        BY <1>1, <1>5, <2>1 DEF GetHeader
<1>6. StoreReset => IsTable(cache') /\ tipHeight' \in Int
    BY DEF StoreReset, EmptyTable, IsTable
<1> QED
    BY <1>2, <1>3, <1>4, <1>5, <1>6

\* What is true at every await although a failed rollback_block may have left
\* gaps and the heights in memory and in the database may have come apart: the
\* task's variables are in range, and while it walks back, and when it starts
\* to roll back, it knows how far below the database's tip it is.
FrameInv ==
    /\ TypeOK
    /\ Bounded(blocks)
    /\ meta >= -1 /\ indexedHeight >= -1
    /\ pc \in {"fetch", "commit", "cacheadd", "notify"} => cursor >= 0
    /\ pc \in {"commit", "cacheadd"} => fetched \in Block
    /\ pc = "walk" => cursor = TipHeight(blocks) - steps /\ cursor >= -1
    /\ pc = "handle" => TipHeight(blocks) - ancestor < MaxReorgDepth
    /\ pc \in {"handle", "rollback", "uncache", "reorgNotify"} => ancestor >= -1

LEMMA FrameInvInit == Init => FrameInv
<1> SUFFICES ASSUME Init PROVE FrameInv
    OBVIOUS
<1>1. IsTable(blocks) /\ IsTable(cache) /\ Bounded(blocks) /\ tipHeight = -1
    BY DEF Init, StoreEmpty, EmptyTable, IsTable, Bounded
<1> QED
    BY <1>1, SyncAssumption DEF Init, NodeInit, FrameInv, TypeOK, PCs

\* What the transactions of the database do to its types.
LEMMA DatabaseTyped ==
    ASSUME IsTable(blocks), Bounded(blocks), cursor \in Int
    PROVE  /\ cursor >= 0 /\ fetched \in Block =>
                 LET t == Put(blocks, cursor, fetched) IN IsTable(t) /\ Bounded(t)
           /\ LET t == Drop(blocks, cursor) IN IsTable(t) /\ Bounded(t)
<1>1. IsTable(Drop(blocks, cursor)) /\ Bounded(Drop(blocks, cursor))
    BY DropFacts, BoundedFacts
<1>2. ASSUME cursor >= 0, fetched \in Block
      PROVE  /\ IsTable(Put(blocks, cursor, fetched))
             /\ Bounded(Put(blocks, cursor, fetched))
    <2>1. cursor \in Nat
        BY <1>2
    <2> QED
        BY <1>2, <2>1, PutFacts, BoundedFacts
<1> QED
    BY <1>1, <1>2

\* Every step keeps it.
LEMMA FrameInvNext ==
    ASSUME FrameInv, [Next]_vars
    PROVE  FrameInv'
<1> USE DEF FrameInv, TypeOK, Goto, FrameGone, db, store, heights, frame, PCs
<1>0. /\ TipHeight(blocks) \in Int /\ TipHeight(blocks) >= -1
      /\ TipHeight(blocks) >= 0 <=> DOMAIN blocks # {}
      /\ SyncAssumption
      /\ UNCHANGED blocks => TipHeight(blocks') = TipHeight(blocks)
      /\ UNCHANGED blocks => Bounded(blocks')
    BY TipFacts, SyncAssumption
<1>1. CASE Start
    BY <1>0, <1>1, StoreTyped DEF Start
<1>2. CASE Poll
    BY <1>0, <1>2, ChainFacts DEF Poll, NodeHeight
<1>3. CASE TipAgrees
    BY <1>0, <1>3 DEF TipAgrees
<1>4. CASE TipDiffers
    BY <1>0, <1>4 DEF TipDiffers
<1>5. CASE WalkExceeded
    BY <1>0, <1>5 DEF WalkExceeded
<1>6. CASE WalkGenesis
    BY <1>0, <1>6 DEF WalkGenesis, WalkDone, WalkGoesOn
<1>7. CASE WalkFound
    BY <1>0, <1>7 DEF WalkFound, WalkDone, WalkGoesOn
<1>8. CASE WalkBack
    BY <1>0, <1>8 DEF WalkBack, StepBack, WalkGoesOn
<1>9. CASE HandleReorg
    BY <1>0, <1>9 DEF HandleReorg
<1>10. CASE RollbackBlock
    BY <1>0, <1>10, DatabaseTyped DEF RollbackBlock
<1>11. CASE Uncache
    BY <1>0, <1>11, StoreTyped DEF Uncache
<1>12. CASE FinishReorg
    BY <1>0, <1>12 DEF FinishReorg
<1>13. CASE ReorgNotified
    BY <1>0, <1>13, StoreTyped DEF ReorgNotified
<1>14. CASE StartBatch
    BY <1>0, <1>14 DEF StartBatch, Lower
<1>15. CASE CaughtUp
    BY <1>0, <1>15 DEF CaughtUp
<1>16. CASE Fetch
    BY <1>0, <1>16, ChainFacts DEF Fetch, NodeHash, IsTable
<1>17. CASE FetchMissing
    BY <1>0, <1>17 DEF FetchMissing
<1>18. CASE Commit
    BY <1>0, <1>18, DatabaseTyped DEF Commit
<1>19. CASE CacheAdd
    BY <1>0, <1>19, StoreTyped DEF CacheAdd
<1>20. CASE Notified
    BY <1>0, <1>20, StoreTyped DEF Notified
<1>21. CASE Wake
    BY <1>0, <1>21 DEF Wake
<1>22. CASE RpcRaises
    BY <1>0, <1>22 DEF RpcRaises
<1>23. CASE TipRpcRaises
    BY <1>0, <1>23 DEF TipRpcRaises
<1>24. CASE WalkRpcRaises
    BY <1>0, <1>24 DEF WalkRpcRaises, StepBack, WalkGoesOn, IsTable
<1>25. CASE ReadRaises
    BY <1>0, <1>25 DEF ReadRaises
<1>26. CASE CommitRaises
    BY <1>0, <1>26, DatabaseTyped DEF CommitRaises
<1>27. CASE RollbackRaises
    BY <1>0, <1>27, DatabaseTyped DEF RollbackRaises
<1>28. CASE NotifyRaises
    BY <1>0, <1>28, StoreTyped DEF NotifyRaises
<1>29. CASE Crash
    BY <1>0, <1>29, StoreTyped DEF Crash
<1>30. CASE NodeMoves
    BY <1>0, <1>30, ExtendFacts DEF NodeMoves, NodeReorg
<1>31. CASE UNCHANGED vars
    BY <1>0, <1>31 DEF vars
<1> QED
    BY <1>1, <1>2, <1>3, <1>4, <1>5, <1>6, <1>7, <1>8, <1>9, <1>10, <1>11, <1>12,
       <1>13, <1>14, <1>15, <1>16, <1>17, <1>18, <1>19, <1>20, <1>21, <1>22, <1>23,
       <1>24, <1>25, <1>26, <1>27, <1>28, <1>29, <1>30, <1>31
    DEF Next, Work, Reorg, Sync, Fault

LEMMA FrameHolds == Spec => []FrameInv
    BY FrameInvInit, FrameInvNext, PTL DEF Spec

\* Type correctness of the indexer's task, for every instance and whatever
\* calls fail.
THEOREM TypeCorrect == Spec => []TypeOK
<1>1. FrameInv => TypeOK
    BY DEF FrameInv
<1> QED
    BY FrameHolds, <1>1, PTL

\* handle_reorg never starts to roll back reorg_limit heights or more, whichever
\* calls failed before, and whatever gaps failed rollbacks left.
THEOREM RollbackIsBounded == Spec => []RollbackBounded
<1>1. FrameInv => RollbackBounded
    BY DEF FrameInv, RollbackBounded
<1> QED
    BY FrameHolds, <1>1, PTL

-----------------------------------------------------------------------------
(* The heights.  indexed_height in memory may lag the metadata row by one,   *)
(* when the acknowledgement of a commit was lost; everything else is exact.  *)

Behind == meta \in {indexedHeight, indexedHeight + 1}

HeightInv ==
    /\ Contiguous
    /\ meta >= -1 /\ indexedHeight >= -1
    /\ pc \in {"top", "tip", "walk", "handle", "decide", "sleep", "fetch",
               "commit"} => Behind
    /\ pc \in {"fetch", "commit", "cacheadd"} => cursor = indexedHeight + 1
    /\ pc = "cacheadd" => cursor = meta
    /\ pc = "notify" => cursor = meta /\ indexedHeight = meta
    /\ pc = "reorgNotify" => ancestor = meta /\ indexedHeight = meta
    /\ pc = "walk" => cursor = meta - steps /\ cursor >= -1
    /\ pc = "handle" => /\ -1 <= ancestor /\ ancestor <= meta
                        /\ meta - ancestor < MaxReorgDepth
    /\ pc = "rollback" => cursor = meta /\ -1 <= ancestor /\ ancestor <= meta
    /\ pc = "uncache" => cursor = meta + 1 /\ -1 <= ancestor /\ ancestor <= meta
    /\ pc \in {"commit", "cacheadd"} => fetched \in Block

HInv == TypeOK /\ HeightInv

\* The initial states satisfy it.
LEMMA HInvInit == Init => HInv
<1> SUFFICES ASSUME Init PROVE HInv
    OBVIOUS
<1>1. DOMAIN blocks = 0..meta
    BY DEF Init, EmptyTable
<1>2. IsTable(blocks) /\ IsTable(cache) /\ tipHeight = -1
    BY DEF Init, StoreEmpty, EmptyTable, IsTable
<1> QED
    BY <1>1, <1>2, SyncAssumption
    DEF Init, NodeInit, HInv, TypeOK, HeightInv, Contiguous, PCs

\* Every step keeps it, as long as no rollback_block fails.
LEMMA HInvNext ==
    ASSUME HInv, [Next]_vars, "rollback" \notin Faults
    PROVE  HInv'
<1> USE DEF HInv, TypeOK, HeightInv, Behind, Contiguous, Goto, FrameGone,
            db, store, heights, frame, PCs
<1>0. /\ TipHeight(blocks) = meta /\ SyncAssumption
      /\ DOMAIN blocks \subseteq Nat
    BY TipOfRange, SyncAssumption DEF IsTable
<1>1. CASE Start
    BY <1>0, <1>1, StoreTyped DEF Start
<1>2. CASE Poll
    BY <1>0, <1>2, ChainFacts DEF Poll, NodeHeight
<1>3. CASE TipAgrees
    BY <1>0, <1>3 DEF TipAgrees
<1>4. CASE TipDiffers
    BY <1>0, <1>4 DEF TipDiffers
<1>5. CASE WalkExceeded
    BY <1>0, <1>5 DEF WalkExceeded
<1>6. CASE WalkGenesis
    BY <1>0, <1>6 DEF WalkGenesis, WalkDone, WalkGoesOn
<1>7. CASE WalkFound
    BY <1>0, <1>7 DEF WalkFound, WalkDone, WalkGoesOn
<1>8. CASE WalkBack
    BY <1>0, <1>8 DEF WalkBack, StepBack, WalkGoesOn
<1>9. CASE HandleReorg
    BY <1>0, <1>9 DEF HandleReorg
<1>10. CASE RollbackBlock
    <2>1. meta >= 0 /\ blocks' = Drop(blocks, meta) /\ meta' = meta - 1
        BY <1>10 DEF RollbackBlock
    <2>2. IsTable(blocks') /\ DOMAIN blocks' = (0..meta) \ {meta}
        BY <2>1, DropFacts
    <2>3. DOMAIN blocks' = 0..meta'
        BY <2>1, <2>2
    <2> QED
        BY <1>0, <1>10, <2>1, <2>2, <2>3 DEF RollbackBlock
<1>11. CASE Uncache
    BY <1>0, <1>11, StoreTyped DEF Uncache
<1>12. CASE FinishReorg
    BY <1>0, <1>12 DEF FinishReorg
<1>13. CASE ReorgNotified
    BY <1>0, <1>13, StoreTyped DEF ReorgNotified
<1>14. CASE StartBatch
    BY <1>0, <1>14 DEF StartBatch, Lower
<1>15. CASE CaughtUp
    BY <1>0, <1>15 DEF CaughtUp
<1>16. CASE Fetch
    BY <1>0, <1>16, ChainFacts DEF Fetch, NodeHash, IsTable
<1>17. CASE FetchMissing
    BY <1>0, <1>17 DEF FetchMissing
<1>18. CASE Commit
    <2>1. /\ cursor \in Nat /\ fetched \in Block /\ meta \in {cursor - 1, cursor}
          /\ blocks' = Put(blocks, cursor, fetched) /\ meta' = cursor
        BY <1>18 DEF Commit
    <2>2. IsTable(blocks') /\ DOMAIN blocks' = (0..meta) \cup {cursor}
        <3>1. IsTable(blocks) /\ DOMAIN blocks = 0..meta
            OBVIOUS
        <3>2. /\ IsTable(Put(blocks, cursor, fetched))
              /\ DOMAIN Put(blocks, cursor, fetched) = DOMAIN blocks \cup {cursor}
            BY ONLY <2>1, <3>1, PutFacts
        <3> QED
            BY <2>1, <3>1, <3>2
    <2>3. DOMAIN blocks' = 0..cursor
        BY <2>1, <2>2
    <2> QED
        BY <1>0, <1>18, <2>1, <2>2, <2>3 DEF Commit
<1>19. CASE CacheAdd
    BY <1>0, <1>19, StoreTyped DEF CacheAdd
<1>20. CASE Notified
    BY <1>0, <1>20, StoreTyped DEF Notified
<1>21. CASE Wake
    BY <1>0, <1>21 DEF Wake
<1>22. CASE RpcRaises
    BY <1>0, <1>22 DEF RpcRaises
<1>23. CASE TipRpcRaises
    BY <1>0, <1>23 DEF TipRpcRaises
<1>24. CASE WalkRpcRaises
    BY <1>0, <1>24 DEF WalkRpcRaises, StepBack, WalkGoesOn
<1>25. CASE ReadRaises
    BY <1>0, <1>25 DEF ReadRaises
<1>26. CASE CommitRaises
    <2> SUFFICES ASSUME blocks' = Put(blocks, cursor, fetched), meta' = cursor
                 PROVE  HInv'
        BY <1>0, <1>26 DEF CommitRaises
    <2>1. /\ cursor \in Nat /\ fetched \in Block /\ meta \in {cursor - 1, cursor}
          /\ blocks' = Put(blocks, cursor, fetched) /\ meta' = cursor
        BY <1>26 DEF CommitRaises
    <2>2. IsTable(blocks') /\ DOMAIN blocks' = (0..meta) \cup {cursor}
        <3>1. IsTable(blocks) /\ DOMAIN blocks = 0..meta
            OBVIOUS
        <3>2. /\ IsTable(Put(blocks, cursor, fetched))
              /\ DOMAIN Put(blocks, cursor, fetched) = DOMAIN blocks \cup {cursor}
            BY ONLY <2>1, <3>1, PutFacts
        <3> QED
            BY <2>1, <3>1, <3>2
    <2>3. DOMAIN blocks' = 0..cursor
        BY <2>1, <2>2
    <2> QED
        BY <1>0, <1>26, <2>1, <2>2, <2>3 DEF CommitRaises
<1>27. CASE RollbackRaises
    BY <1>0, <1>27 DEF RollbackRaises
<1>28. CASE NotifyRaises
    BY <1>0, <1>28, StoreTyped DEF NotifyRaises
<1>29. CASE Crash
    BY <1>0, <1>29, StoreTyped DEF Crash
<1>30. CASE NodeMoves
    BY <1>0, <1>30, ExtendFacts DEF NodeMoves, NodeReorg
<1>31. CASE UNCHANGED vars
    BY <1>31 DEF vars
<1> QED
    BY <1>1, <1>2, <1>3, <1>4, <1>5, <1>6, <1>7, <1>8, <1>9, <1>10, <1>11, <1>12,
       <1>13, <1>14, <1>15, <1>16, <1>17, <1>18, <1>19, <1>20, <1>21, <1>22, <1>23,
       <1>24, <1>25, <1>26, <1>27, <1>28, <1>29, <1>30, <1>31
    DEF Next, Work, Reorg, Sync, Fault

\* The heights and the types hold throughout.
LEMMA HeightsHold ==
    ASSUME "rollback" \notin Faults
    PROVE  Spec => []HInv
<1>1. HInv /\ [Next]_vars => HInv'
    BY HInvNext
<1> QED
    BY HInvInit, <1>1, PTL DEF Spec

\* The stored heights are 0..indexed_height at every moment: through batches,
\* reorganisations, RPC failures, lost acknowledgements of index_block_batch,
\* failing callbacks and crashes; only a failing rollback_block is excluded.
THEOREM NoGaps ==
    ASSUME "rollback" \notin Faults
    PROVE  Spec => []Contiguous
<1>1. HInv => Contiguous
    BY DEF HInv, HeightInv
<1> QED
    BY HeightsHold, <1>1, PTL

-----------------------------------------------------------------------------
(* The header cache.                                                         *)

\* Outside a rollback nothing above indexedHeight is cached: the block whose
\* commit may have been lost is not, so overwriting its row cannot leave a
\* stale header.
CacheInv ==
    /\ CacheCoherent
    /\ pc = "down" => cache = EmptyTable
    /\ pc = "cacheadd" => blocks[cursor] = fetched
    /\ pc \notin {"rollback", "uncache"} =>
          \A h \in DOMAIN cache : h <= indexedHeight

LEMMA CacheInvInit == Init => CacheInv
    BY DEF Init, StoreEmpty, EmptyTable, CacheInv, CacheCoherent

\* What each update of the cache leaves in it: load_cache ...
LEMMA LoadFacts ==
    ASSUME LoadCache(blocks), cache = EmptyTable
    PROVE  \A h \in DOMAIN cache' : h \in DOMAIN blocks /\ cache'[h] = blocks[h]
<1>1. CASE TipHeight(blocks) = -1
    BY <1>1 DEF LoadCache, EmptyTable
<1>2. CASE TipHeight(blocks) # -1
    <2>1. PICK L \in SUBSET DOMAIN blocks :
              cache' = [h \in DOMAIN cache \cup L |->
                           IF h \in L THEN blocks[h] ELSE cache[h]]
        BY <1>2 DEF LoadCache
    <2> QED
        BY <2>1 DEF EmptyTable
<1> QED
    BY <1>1, <1>2

\* ... add_to_cache ...
LEMMA AddFacts ==
    ASSUME NEW k, NEW b, AddToCache(k, b)
    PROVE  \A h \in DOMAIN cache' :
               IF h = k THEN cache'[h] = b
               ELSE h \in DOMAIN cache /\ cache'[h] = cache[h]
    BY DEF AddToCache, Put, Drop

\* ... remove_from_cache ...
LEMMA RemoveFacts ==
    ASSUME NEW k, RemoveFromCache(k)
    PROVE  \A h \in DOMAIN cache' :
               h # k /\ h \in DOMAIN cache /\ cache'[h] = cache[h]
    BY DEF RemoveFromCache, Drop

\* ... and get_header.
LEMMA GetFacts ==
    ASSUME NEW k, GetHeader(blocks, k)
    PROVE  \A h \in DOMAIN cache' :
               \/ h \in DOMAIN cache /\ cache'[h] = cache[h]
               \/ h = k /\ h \in DOMAIN blocks /\ cache'[h] = blocks[h]
    BY DEF GetHeader, Put

\* Every step keeps the cache within the rows of the headers table.
LEMMA CacheInvNext ==
    ASSUME HInv, CacheInv, [Next]_vars, "rollback" \notin Faults
    PROVE  CacheInv'
<1> USE DEF CacheInv, CacheCoherent, Goto, FrameGone, db, store, heights, frame
<1>1. /\ IsTable(blocks) /\ DOMAIN blocks = 0..meta /\ meta \in Int
      /\ indexedHeight \in Int /\ cursor \in Int /\ ancestor \in Int
    BY DEF HInv, TypeOK, HeightInv, Contiguous
<1>2. CASE Start
    BY <1>1, <1>2, LoadFacts DEF Start, HInv, HeightInv, Behind
<1>3. CASE Poll
    BY <1>1, <1>3 DEF Poll
<1>4. CASE TipAgrees
    BY <1>1, <1>4 DEF TipAgrees
<1>5. CASE TipDiffers
    BY <1>1, <1>5 DEF TipDiffers
<1>6. CASE WalkExceeded
    BY <1>1, <1>6 DEF WalkExceeded
<1>7. CASE WalkGenesis
    BY <1>1, <1>7 DEF WalkGenesis, WalkDone
<1>8. CASE WalkFound
    BY <1>1, <1>8 DEF WalkFound, WalkDone
<1>9. CASE WalkBack
    BY <1>1, <1>9 DEF WalkBack, StepBack
<1>10. CASE HandleReorg
    BY <1>1, <1>10, TipOfRange DEF HandleReorg, HInv, HeightInv, Behind
<1>11. CASE RollbackBlock
    <2>1. /\ DOMAIN blocks' = DOMAIN blocks \ {cursor}
          /\ \A h \in DOMAIN blocks' : blocks'[h] = blocks[h]
        BY <1>11 DEF RollbackBlock, Drop
    <2> QED
        BY <1>11, <2>1 DEF RollbackBlock
<1>12. CASE Uncache
    BY <1>1, <1>12, RemoveFacts DEF Uncache
<1>13. CASE FinishReorg
    BY <1>1, <1>13 DEF FinishReorg, HInv, HeightInv, Behind
<1>14. CASE ReorgNotified
    BY <1>1, <1>14, GetFacts DEF ReorgNotified, HInv, HeightInv, Behind
<1>15. CASE StartBatch
    BY <1>1, <1>15 DEF StartBatch
<1>16. CASE CaughtUp
    BY <1>1, <1>16 DEF CaughtUp
<1>17. CASE Fetch
    BY <1>1, <1>17 DEF Fetch
<1>18. CASE FetchMissing
    BY <1>1, <1>18 DEF FetchMissing
<1>19. CASE Commit
    <2>1. /\ DOMAIN blocks' = DOMAIN blocks \cup {cursor}
          /\ blocks'[cursor] = fetched
          /\ \A h \in DOMAIN blocks : h # cursor => blocks'[h] = blocks[h]
        BY <1>19 DEF Commit, Put
    <2>2. \A h \in DOMAIN cache : h # cursor
        BY <1>1, <1>19 DEF Commit, HInv, HeightInv, TypeOK, IsTable
    <2> QED
        BY <1>19, <2>1, <2>2 DEF Commit
<1>20. CASE CacheAdd
    BY <1>1, <1>20, AddFacts DEF CacheAdd, HInv, HeightInv, Behind
<1>21. CASE Notified
    BY <1>1, <1>21, GetFacts DEF Notified, HInv, HeightInv, Behind
<1>22. CASE Wake
    BY <1>1, <1>22 DEF Wake
<1>23. CASE RpcRaises
    BY <1>1, <1>23 DEF RpcRaises
<1>24. CASE TipRpcRaises
    BY <1>1, <1>24 DEF TipRpcRaises
<1>25. CASE WalkRpcRaises
    BY <1>1, <1>25 DEF WalkRpcRaises, StepBack
<1>26. CASE ReadRaises
    BY <1>1, <1>26 DEF ReadRaises
<1>27. CASE CommitRaises
    <2> SUFFICES ASSUME blocks' = Put(blocks, cursor, fetched)
                 PROVE  CacheInv'
        BY <1>27 DEF CommitRaises
    <2>1. /\ DOMAIN blocks' = DOMAIN blocks \cup {cursor}
          /\ blocks'[cursor] = fetched
          /\ \A h \in DOMAIN blocks : h # cursor => blocks'[h] = blocks[h]
        BY <1>27 DEF CommitRaises, Put
    <2>2. \A h \in DOMAIN cache : h # cursor
        BY <1>1, <1>27 DEF CommitRaises, HInv, HeightInv, TypeOK, IsTable
    <2> QED
        BY <1>27, <2>1, <2>2 DEF CommitRaises
<1>28. CASE RollbackRaises
    BY <1>1, <1>28 DEF RollbackRaises
<1>29. CASE NotifyRaises
    BY <1>1, <1>29, GetFacts DEF NotifyRaises, HInv, HeightInv, Behind
<1>30. CASE Crash
    BY <1>1, <1>30 DEF Crash, StoreReset, EmptyTable
<1>31. CASE NodeMoves
    BY <1>31 DEF NodeMoves
<1>32. CASE UNCHANGED vars
    BY <1>32 DEF vars
<1> QED
    BY <1>2, <1>3, <1>4, <1>5, <1>6, <1>7, <1>8, <1>9, <1>10, <1>11, <1>12, <1>13,
       <1>14, <1>15, <1>16, <1>17, <1>18, <1>19, <1>20, <1>21, <1>22, <1>23, <1>24,
       <1>25, <1>26, <1>27, <1>28, <1>29, <1>30, <1>31, <1>32
    DEF Next, Work, Reorg, Sync, Fault

\* Whatever the interleaving, no header of a replaced or removed block is
\* served from the cache once the rollback that removed it has gone on.
THEOREM CacheIsCoherent ==
    ASSUME "rollback" \notin Faults
    PROVE  Spec => []CacheCoherent
<1>1. HInv /\ CacheInv /\ [Next]_vars => CacheInv'
    BY CacheInvNext
<1>2. CacheInv => CacheCoherent
    BY DEF CacheInv
<1> QED
    BY HeightsHold, CacheInvInit, <1>1, <1>2, PTL DEF Spec

-----------------------------------------------------------------------------
(* The chain.  With reorganisations confined to the points where no decision *)
(* of the task is pending, the comparison of check_for_reorg still holds     *)
(* when the next block is stored, which is all that links it to its parent.  *)

AgreedAt(h) == h >= 0 => h \in DOMAIN nodeChain /\ blocks[h] = nodeChain[h]

LinkInv ==
    /\ ChainLinked
    /\ pc \in {"handle", "rollback", "uncache"} => AgreedAt(ancestor)
    /\ pc \in {"decide", "reorgNotify", "fetch", "commit", "cacheadd", "notify"}
          => AgreedAt(meta)
    /\ pc = "commit" => cursor \in DOMAIN nodeChain /\ fetched = nodeChain[cursor]

LEMMA LinkInvInit == Init => LinkInv
    BY DEF Init, EmptyTable, LinkInv, ChainLinked, Linked, AgreedAt

\* Both sides store the same genesis block.
LEMMA GenesisAgreed ==
    ASSUME HInv, LinkInv
    PROVE  AgreedAt(0) \/ meta = -1
<1> SUFFICES ASSUME meta >= 0 PROVE AgreedAt(0)
    BY DEF HInv, TypeOK, HeightInv
<1>1. /\ 0 \in DOMAIN blocks /\ blocks[0] \in Block
      /\ Parent[blocks[0]] = NoBlock
    BY DEF HInv, TypeOK, HeightInv, Contiguous, IsTable, LinkInv, ChainLinked,
           Linked
<1>2. /\ 0 \in DOMAIN nodeChain /\ nodeChain[0] \in Block
      /\ Parent[nodeChain[0]] = NoBlock
    BY ChainFacts DEF HInv, TypeOK, IsTable, Linked
<1> QED
    BY <1>1, <1>2, ChainAssumption DEF AgreedAt

\* The block about to be stored is the child of the one below it, or the very
\* block that is stored already.
LEMMA CommitFacts ==
    ASSUME HInv, LinkInv, pc = "commit"
    PROVE  /\ cursor \in Nat /\ fetched \in Block
           /\ \/ meta = cursor /\ blocks[cursor] = fetched
              \/ meta = cursor - 1
           /\ Parent[fetched] = IF cursor = 0 THEN NoBlock ELSE blocks[cursor - 1]
<1>1. /\ cursor \in Nat /\ fetched \in Block
      /\ meta \in Int /\ meta \in {cursor - 1, cursor}
    BY DEF HInv, TypeOK, HeightInv, Behind
<1>2. AgreedAt(meta) /\ cursor \in DOMAIN nodeChain /\ fetched = nodeChain[cursor]
    BY DEF LinkInv
<1>3. /\ DOMAIN nodeChain \subseteq Nat
      /\ \A h \in DOMAIN nodeChain :
            Parent[nodeChain[h]] = IF h = 0 THEN NoBlock ELSE nodeChain[h-1]
    BY ChainFacts DEF HInv, TypeOK, Linked
<1>4. /\ DOMAIN blocks = 0..meta
      /\ \A h \in DOMAIN blocks :
            Parent[blocks[h]] = IF h = 0 THEN NoBlock ELSE blocks[h-1]
    BY DEF HInv, TypeOK, HeightInv, Contiguous, LinkInv, ChainLinked, Linked
<1>5. CASE meta = cursor
    BY <1>1, <1>2, <1>3, <1>4, <1>5 DEF AgreedAt
<1>6. CASE meta = cursor - 1
    BY <1>1, <1>2, <1>3, <1>6 DEF AgreedAt
<1> QED
    BY <1>1, <1>5, <1>6

\* Storing it keeps the chain linked and agreed with the node.
LEMMA CommitLinks ==
    ASSUME HInv, LinkInv, pc = "commit", blocks' = Put(blocks, cursor, fetched)
    PROVE  /\ ChainLinked'
           /\ cursor \in DOMAIN blocks' /\ blocks'[cursor] = fetched
<1>1. IsTable(blocks) /\ DOMAIN blocks = 0..meta /\ Linked(blocks)
    BY DEF HInv, TypeOK, HeightInv, Contiguous, LinkInv, ChainLinked
<1>2. /\ DOMAIN blocks' = 0..cursor
      /\ blocks'[cursor] = fetched
      /\ \A h \in 0..(cursor-1) : h \in DOMAIN blocks /\ blocks'[h] = blocks[h]
    BY <1>1, CommitFacts DEF Put
<1>3. ASSUME NEW h \in 0..cursor
      PROVE  Parent[blocks'[h]] = IF h = 0 THEN NoBlock ELSE blocks'[h-1]
    <2>1. CASE h = cursor
        BY <1>2, <2>1, CommitFacts
    <2>2. CASE h \in 0..(cursor-1)
        <3>1. /\ h \in DOMAIN blocks /\ cursor \in Nat
              /\ h # 0 => h - 1 \in 0..(cursor-1)
            BY <1>2, <2>2, CommitFacts
        <3>2. Parent[blocks[h]] = IF h = 0 THEN NoBlock ELSE blocks[h-1]
            <4>1. h # 0 => h - 1 \in DOMAIN blocks
                BY <1>2, <3>1
            <4> QED
                BY <1>1, <3>1, <4>1 DEF Linked
        <3> QED
            BY <1>2, <2>2, <3>1, <3>2
    <2> QED
        BY <1>3, <2>1, <2>2, CommitFacts
<1> QED
    BY <1>2, <1>3, CommitFacts DEF ChainLinked, Linked

\* Removing the tip keeps it linked.
LEMMA RollbackLinks ==
    ASSUME HInv, LinkInv, RollbackBlock
    PROVE  ChainLinked' /\ AgreedAt(ancestor)'
<1>1. /\ IsTable(blocks) /\ DOMAIN blocks = 0..meta /\ Linked(blocks)
      /\ meta \in Nat /\ cursor = meta /\ ancestor \in Int /\ ancestor < meta
      /\ AgreedAt(ancestor)
    BY DEF HInv, TypeOK, HeightInv, Contiguous, LinkInv, ChainLinked, RollbackBlock
<1>2. /\ DOMAIN blocks' = 0..(meta-1)
      /\ \A h \in 0..(meta-1) : h \in DOMAIN blocks /\ blocks'[h] = blocks[h]
      /\ UNCHANGED <<nodeChain, ancestor>>
    BY <1>1 DEF RollbackBlock, Drop, frame
<1>3. ASSUME NEW h \in 0..(meta-1)
      PROVE  Parent[blocks'[h]] = IF h = 0 THEN NoBlock ELSE blocks'[h-1]
    <2>1. Parent[blocks[h]] = IF h = 0 THEN NoBlock ELSE blocks[h-1]
        BY <1>1, <1>2, <1>3 DEF Linked
    <2>2. h # 0 => h - 1 \in 0..(meta-1)
        BY <1>1, <1>3
    <2> QED
        BY <1>2, <1>3, <2>1, <2>2
<1> QED
    BY <1>1, <1>2, <1>3 DEF ChainLinked, Linked, AgreedAt

\* An answer equal to our block means the node has it.
LEMMA SameHashAgrees ==
    ASSUME IsTable(blocks), NEW h \in DOMAIN blocks, OnNodeChain(h)
    PROVE  AgreedAt(h)
    BY ChainAssumption DEF IsTable, OnNodeChain, NodeHash, AgreedAt

\* Every step keeps the chain linked, reorganisations being confined.
LEMMA LinkInvNext ==
    ASSUME HInv, LinkInv, [Next]_vars, "rollback" \notin Faults,
           ReorgAt \subseteq SafePoints
    PROVE  LinkInv'
<1> USE DEF LinkInv, Goto, FrameGone, db, store, heights, frame
<1>1. /\ IsTable(blocks) /\ DOMAIN blocks = 0..meta /\ meta \in Int
      /\ TipHeight(blocks) = meta /\ meta >= -1
      /\ indexedHeight \in Int /\ indexedHeight >= -1
      /\ cursor \in Int /\ ancestor \in Int
    BY TipOfRange DEF HInv, TypeOK, HeightInv, Contiguous
<1>2. ASSUME UNCHANGED <<nodeChain, blocks>>
      PROVE  /\ ChainLinked'
             /\ meta' = meta /\ AgreedAt(meta) => AgreedAt(meta)'
             /\ ancestor' = ancestor /\ AgreedAt(ancestor) => AgreedAt(ancestor)'
    BY <1>2 DEF ChainLinked, AgreedAt
<1>3. AgreedAt(0) \/ meta = -1
    BY GenesisAgreed
<1>4. CASE Start
    BY <1>1, <1>2, <1>3, <1>4 DEF Start
<1>5. CASE Poll
    BY <1>1, <1>2, <1>3, <1>5 DEF Poll, AgreedAt, HInv, HeightInv, Behind
<1>6. CASE TipAgrees
    <2>1. AgreedAt(meta)
        BY <1>1, <1>6, SameHashAgrees DEF TipAgrees, AgreedAt
    <2> QED
        BY <1>2, <1>6, <2>1 DEF TipAgrees
<1>7. CASE TipDiffers
    BY <1>1, <1>2, <1>3, <1>7 DEF TipDiffers
<1>8. CASE WalkExceeded
    BY <1>1, <1>2, <1>3, <1>8 DEF WalkExceeded
<1>9. CASE WalkGenesis
    BY <1>1, <1>2, <1>3, <1>9 DEF WalkGenesis, WalkDone, AgreedAt
<1>10. CASE WalkFound
    <2>1. AgreedAt(cursor) /\ ancestor' = cursor /\ UNCHANGED <<nodeChain, blocks>>
        BY <1>1, <1>10, SameHashAgrees DEF WalkFound, WalkDone
    <2> QED
        BY <1>2, <1>10, <2>1 DEF WalkFound, WalkDone, AgreedAt
<1>11. CASE WalkBack
    BY <1>1, <1>2, <1>3, <1>11 DEF WalkBack, StepBack
<1>12. CASE HandleReorg
    BY <1>1, <1>2, <1>3, <1>12 DEF HandleReorg, HInv, HeightInv, Behind, AgreedAt
<1>13. CASE RollbackBlock
    BY <1>1, <1>2, <1>3, <1>13, RollbackLinks DEF RollbackBlock
<1>14. CASE Uncache
    BY <1>1, <1>2, <1>3, <1>14 DEF Uncache
<1>15. CASE FinishReorg
    BY <1>1, <1>2, <1>3, <1>15 DEF FinishReorg, HInv, HeightInv, AgreedAt
<1>16. CASE ReorgNotified
    BY <1>1, <1>2, <1>3, <1>16 DEF ReorgNotified
<1>17. CASE StartBatch
    BY <1>1, <1>2, <1>3, <1>17 DEF StartBatch
<1>18. CASE CaughtUp
    BY <1>1, <1>2, <1>3, <1>18 DEF CaughtUp
<1>19. CASE Fetch
    BY <1>1, <1>2, <1>3, <1>19 DEF Fetch, NodeHash
<1>20. CASE FetchMissing
    BY <1>1, <1>2, <1>3, <1>20 DEF FetchMissing
<1>21. CASE Commit
    <2>1. ChainLinked' /\ cursor \in DOMAIN blocks' /\ blocks'[cursor] = fetched
        BY <1>21, CommitLinks DEF Commit
    <2>2. AgreedAt(meta)'
        BY <1>21, <2>1 DEF Commit, AgreedAt
    <2> QED
        BY <1>21, <2>1, <2>2 DEF Commit
<1>22. CASE CacheAdd
    BY <1>1, <1>2, <1>3, <1>22 DEF CacheAdd
<1>23. CASE Notified
    BY <1>1, <1>2, <1>3, <1>23 DEF Notified
<1>24. CASE Wake
    BY <1>1, <1>2, <1>3, <1>24 DEF Wake
<1>25. CASE RpcRaises
    BY <1>1, <1>2, <1>3, <1>25 DEF RpcRaises
<1>26. CASE TipRpcRaises
    BY <1>1, <1>2, <1>3, <1>26 DEF TipRpcRaises
<1>27. CASE WalkRpcRaises
    BY <1>1, <1>2, <1>3, <1>27 DEF WalkRpcRaises, StepBack
<1>28. CASE ReadRaises
    BY <1>1, <1>2, <1>3, <1>28 DEF ReadRaises
<1>29. CASE CommitRaises
    BY <1>1, <1>2, <1>3, <1>29, CommitLinks DEF CommitRaises
<1>30. CASE RollbackRaises
    BY <1>1, <1>2, <1>3, <1>30 DEF RollbackRaises
<1>31. CASE NotifyRaises
    BY <1>1, <1>2, <1>3, <1>31 DEF NotifyRaises
<1>32. CASE Crash
    BY <1>1, <1>2, <1>3, <1>32 DEF Crash
<1>33. CASE NodeMoves
    <2>1. UNCHANGED <<blocks, meta, pc, cursor, ancestor, fetched>>
        BY <1>33 DEF NodeMoves
    <2>2. CASE NodeExtend
        <3>1. /\ DOMAIN nodeChain \subseteq DOMAIN nodeChain'
              /\ \A h \in DOMAIN nodeChain : nodeChain'[h] = nodeChain[h]
            BY <2>2, ExtendFacts DEF HInv, TypeOK, Prefix
        <3> QED
            BY <2>1, <3>1 DEF AgreedAt, ChainLinked
    <2>3. CASE pc \in ReorgAt
        BY <2>1, <2>3 DEF SafePoints, ChainLinked
    <2> QED
        BY <1>33, <2>2, <2>3 DEF NodeMoves
<1>34. CASE UNCHANGED vars
    BY <1>2, <1>34 DEF vars
<1> QED
    BY <1>4, <1>5, <1>6, <1>7, <1>8, <1>9, <1>10, <1>11, <1>12, <1>13, <1>14, <1>15,
       <1>16, <1>17, <1>18, <1>19, <1>20, <1>21, <1>22, <1>23, <1>24, <1>25, <1>26,
       <1>27, <1>28, <1>29, <1>30, <1>31, <1>32, <1>33, <1>34
    DEF Next, Work, Reorg, Sync, Fault

\* Under that assumption the index is one linked chain at every moment, even
\* though RPC errors may roll back blocks that were not orphaned.
THEOREM IndexIsLinked ==
    ASSUME "rollback" \notin Faults, ReorgAt \subseteq SafePoints
    PROVE  Spec => []ChainLinked
<1>1. HInv /\ LinkInv /\ [Next]_vars => LinkInv'
    BY LinkInvNext
<1>2. LinkInv => ChainLinked
    BY DEF LinkInv
<1> QED
    BY HeightsHold, LinkInvInit, <1>1, <1>2, PTL DEF Spec

-----------------------------------------------------------------------------
(* The index implements the stack of blocks.                                 *)

\* A commit pushes a child of the tip, or rewrites the tip by itself.
LEMMA CommitRefines ==
    ASSUME HInv, LinkInv, pc = "commit", blocks' = Put(blocks, cursor, fetched)
    PROVE  Stack!Next \/ blocks' = blocks
<1>1. IsTable(blocks) /\ DOMAIN blocks = 0..meta /\ meta \in Int /\ meta >= -1
    BY DEF HInv, TypeOK, HeightInv, Contiguous
<1>2. CASE meta = cursor /\ blocks[cursor] = fetched
    BY <1>1, <1>2, CommitFacts DEF Put, IsTable
<1>3. CASE meta = cursor - 1
    <2>1. /\ cursor \in Stack!NextHeights
          /\ DOMAIN blocks = 0..(cursor-1)
          /\ Parent[fetched] = Stack!TopBlock(cursor)
        BY <1>1, <1>3, CommitFacts DEF Stack!NextHeights, Stack!TopBlock
    <2>2. blocks' = [h \in 0..cursor |-> IF h = cursor THEN fetched ELSE blocks[h]]
        <3>1. DOMAIN blocks \cup {cursor} = 0..cursor
            BY <1>1, <1>3, CommitFacts
        <3> QED
            BY <3>1 DEF Put
    <2>3. Stack!Push
        BY <2>1, <2>2, CommitFacts DEF Stack!Push
    <2> QED
        BY <2>3 DEF Stack!Next
<1> QED
    BY <1>2, <1>3, CommitFacts

\* A rollback pops the tip.
LEMMA RollbackRefines ==
    ASSUME HInv, RollbackBlock
    PROVE  Stack!Next
<1>1. /\ DOMAIN blocks = 0..meta /\ meta \in Nat /\ cursor = meta
      /\ blocks' = [h \in DOMAIN blocks \ {meta} |-> blocks[h]]
    BY DEF HInv, TypeOK, HeightInv, Contiguous, RollbackBlock, Drop
<1>2. DOMAIN blocks \ {meta} = 0..(meta-1)
    BY <1>1
<1>3. Stack!Pop
    BY <1>1, <1>2 DEF Stack!Pop
<1> QED
    BY <1>3 DEF Stack!Next

\* Every step of the task is a step of the stack or leaves it alone.
LEMMA StepRefines ==
    ASSUME HInv, LinkInv, [Next]_vars, "rollback" \notin Faults
    PROVE  [Stack!Next]_blocks
<1> USE DEF Goto, FrameGone, db, store, heights, frame
<1>1. CASE Commit
    BY <1>1, CommitRefines DEF Commit
<1>2. CASE CommitRaises
    BY <1>2, CommitRefines DEF CommitRaises
<1>3. CASE RollbackBlock
    BY <1>3, RollbackRefines
<1>4. CASE Start \/ Poll \/ TipAgrees \/ TipDiffers \/ WalkExceeded \/
           WalkGenesis \/ WalkFound \/ WalkBack \/ HandleReorg
           \/ Uncache \/ FinishReorg \/ ReorgNotified
    BY <1>4
    DEF Start, Poll, TipAgrees, TipDiffers, WalkExceeded, WalkGenesis,
        WalkFound, WalkBack, HandleReorg, Uncache, FinishReorg,
        ReorgNotified, WalkDone, StepBack
<1>5. CASE StartBatch \/ CaughtUp \/ Fetch \/ FetchMissing \/ CacheAdd \/
           Notified \/ Wake
    BY <1>5
    DEF StartBatch, CaughtUp, Fetch, FetchMissing, CacheAdd, Notified, Wake
<1>6. CASE RpcRaises \/ TipRpcRaises \/ WalkRpcRaises \/ ReadRaises \/
           RollbackRaises \/ NotifyRaises \/ Crash
    BY <1>6
    DEF RpcRaises, TipRpcRaises, WalkRpcRaises, ReadRaises, RollbackRaises,
        NotifyRaises, Crash, WalkDone, StepBack
<1>7. CASE NodeMoves \/ UNCHANGED vars
    BY <1>7 DEF NodeMoves, vars
<1> QED
    BY <1>1, <1>2, <1>3, <1>4, <1>5, <1>6, <1>7
    DEF Next, Work, Reorg, Sync, Fault

\* Seen through its commits the index is a stack of linked blocks: SyncLoop
\* implements BlockStack.
THEOREM IndexImplementsStack ==
    ASSUME "rollback" \notin Faults, ReorgAt \subseteq SafePoints
    PROVE  Spec => StackSpec
<1>1. Init => Stack!Init
    BY DEF Init, Stack!Init, EmptyTable
<1>2. HInv /\ LinkInv /\ [Next]_vars => [Stack!Next]_blocks
    BY StepRefines
<1>3. HInv /\ LinkInv /\ [Next]_vars => LinkInv'
    BY LinkInvNext
<1> QED
    BY HeightsHold, LinkInvInit, <1>1, <1>2, <1>3, PTL
    DEF Spec, StackSpec, Stack!Spec

-----------------------------------------------------------------------------
(* The tip height of the header store.                                       *)

\* Before the process runs there is none, and while a header waits for its
\* removal it may still be the tip.
TipInv ==
    /\ TipNeverAhead
    /\ pc = "down" => tipHeight = -1
    /\ pc = "uncache" => tipHeight <= cursor

LEMMA TipInvInit == Init => TipInv
    BY DEF Init, StoreEmpty, TipInv, TipNeverAhead

\* Every step keeps it.
LEMMA TipInvNext ==
    ASSUME HInv, TipInv, [Next]_vars, "rollback" \notin Faults
    PROVE  TipInv'
<1> USE DEF TipInv, TipNeverAhead, Goto, FrameGone, db, store, heights, frame
<1>1. /\ TipHeight(blocks) = meta
      /\ meta \in Int /\ tipHeight \in Int /\ indexedHeight \in Int
      /\ cursor \in Int /\ ancestor \in Int
      /\ meta >= -1 /\ indexedHeight >= -1
    BY TipOfRange DEF HInv, TypeOK, HeightInv, Contiguous
<1>2. CASE Start
    BY <1>1, <1>2 DEF Start, LoadCache
<1>3. CASE Poll \/ TipAgrees \/ TipDiffers \/ WalkExceeded \/ WalkGenesis
           \/ WalkFound \/ WalkBack
    BY <1>1, <1>3
    DEF Poll, TipAgrees, TipDiffers, WalkExceeded, WalkGenesis, WalkFound, WalkBack,
        WalkDone, StepBack
<1>4. CASE HandleReorg
    BY <1>1, <1>4 DEF HandleReorg, HInv, HeightInv
<1>5. CASE RollbackBlock
    BY <1>1, <1>5 DEF RollbackBlock, HInv, HeightInv
<1>6. CASE Uncache
    BY <1>1, <1>6 DEF Uncache, RemoveFromCache, HInv, HeightInv
<1>7. CASE FinishReorg
    BY <1>1, <1>7 DEF FinishReorg, HInv, HeightInv
<1>8. CASE ReorgNotified \/ Notified \/ NotifyRaises
    BY <1>1, <1>8 DEF ReorgNotified, Notified, NotifyRaises, GetHeader
<1>9. CASE StartBatch \/ CaughtUp \/ Fetch \/ FetchMissing \/ Wake
    BY <1>1, <1>9 DEF StartBatch, CaughtUp, Fetch, FetchMissing, Wake
<1>10. CASE Commit
    BY <1>1, <1>10 DEF Commit, HInv, HeightInv, Behind
<1>11. CASE CacheAdd
    BY <1>1, <1>11 DEF CacheAdd, AddToCache, HInv, HeightInv
<1>12. CASE RpcRaises \/ TipRpcRaises \/ WalkRpcRaises \/ ReadRaises \/ RollbackRaises
    BY <1>1, <1>12
    DEF RpcRaises, TipRpcRaises, WalkRpcRaises, ReadRaises, RollbackRaises, StepBack
<1>13. CASE CommitRaises
    BY <1>1, <1>13 DEF CommitRaises, HInv, HeightInv, Behind
<1>14. CASE Crash
    BY <1>1, <1>14 DEF Crash, StoreReset
<1>15. CASE NodeMoves \/ UNCHANGED vars
    BY <1>15 DEF NodeMoves, vars
<1> QED
    BY <1>2, <1>3, <1>4, <1>5, <1>6, <1>7, <1>8, <1>9, <1>10, <1>11, <1>12, <1>13, <1>14, <1>15
    DEF Next, Work, Reorg, Sync, Fault

\* The tip height that confirmations are computed from is never above the
\* indexed height, in memory or in the database.
THEOREM TipIsNeverAhead ==
    ASSUME "rollback" \notin Faults
    PROVE  Spec => []TipNeverAhead
<1>1. HInv /\ TipInv /\ [Next]_vars => TipInv'
    BY TipInvNext
<1>2. TipInv => TipNeverAhead
    BY DEF TipInv
<1> QED
    BY HeightsHold, TipInvInit, <1>1, <1>2, PTL DEF Spec

-----------------------------------------------------------------------------
(* What a reorganisation removes.                                            *)

\* Where the node may reorganise without misleading a rollback: before its
\* answers are compared.
QuietPoints == {"down", "sleep", "top", "tip"}

\* No call to the node fails, and it neither goes back to a lower height nor
\* reorganises while the task walks and rolls back.
NodeIsSteady ==
    /\ "rpc" \notin Faults
    /\ ~MayShrink
    /\ ReorgAt \subseteq QuietPoints

\* The node has a block at every stored height, and another one at each that is
\* about to be rolled back.
OrphanInv ==
    /\ DOMAIN blocks \subseteq DOMAIN nodeChain
    /\ pc = "commit" => cursor \in DOMAIN nodeChain
    /\ pc = "walk" =>
           \A h \in DOMAIN blocks : h > cursor => nodeChain[h] # blocks[h]
    /\ pc \in {"handle", "rollback", "uncache"} =>
           \A h \in DOMAIN blocks : h > ancestor => nodeChain[h] # blocks[h]

\* The node's chain never gets shorter, and only grows while the task walks and
\* rolls back.
LEMMA SteadyNode ==
    ASSUME nodeChain \in Chains, NodeIsSteady, NodeMoves
    PROVE  /\ DOMAIN nodeChain \subseteq DOMAIN nodeChain'
           /\ pc \notin QuietPoints => Prefix(nodeChain, nodeChain')
<1>1. CASE NodeExtend
    BY <1>1, ExtendFacts DEF Prefix
<1>2. CASE pc \in ReorgAt /\ NodeReorg
    <2>1. nodeChain' \in Chains /\ TipHeight(nodeChain') >= TipHeight(nodeChain)
        BY <1>2 DEF NodeReorg, NodeIsSteady
    <2>2. PICK n \in 0..MaxHeight : DOMAIN nodeChain = 0..n /\ TipHeight(nodeChain) = n
        BY ChainFacts
    <2>3. PICK m \in 0..MaxHeight : DOMAIN nodeChain' = 0..m /\ TipHeight(nodeChain') = m
        BY <2>1, ChainFacts
    <2>4. m >= n
        BY <2>1, <2>2, <2>3
    <2> QED
        BY <1>2, <2>2, <2>3, <2>4, ChainAssumption DEF NodeIsSteady
<1> QED
    BY <1>1, <1>2 DEF NodeMoves

\* Every step keeps it.
LEMMA OrphanInvNext ==
    ASSUME FrameInv, OrphanInv, NodeIsSteady, [Next]_vars
    PROVE  OrphanInv'
<1> USE DEF OrphanInv, Goto, FrameGone, db, store, heights, frame
<1>1. /\ \A h \in DOMAIN blocks : h \in Nat /\ h <= TipHeight(blocks)
      /\ cursor \in Int /\ ancestor \in Int /\ TipHeight(blocks) \in Int
    BY TipFacts DEF FrameInv, TypeOK, IsTable
<1>2. CASE Start \/ Poll \/ TipAgrees \/ WalkExceeded \/ ReorgNotified \/ StartBatch
           \/ CaughtUp \/ FetchMissing \/ CacheAdd \/ Notified \/ Wake
    BY <1>2
    DEF Start, Poll, TipAgrees, WalkExceeded, ReorgNotified, StartBatch, CaughtUp,
        FetchMissing, CacheAdd, Notified, Wake
<1>3. CASE TipDiffers
    BY <1>1, <1>3 DEF TipDiffers
<1>4. CASE WalkGenesis \/ WalkFound
    BY <1>1, <1>4 DEF WalkGenesis, WalkFound, WalkDone, FrameInv
<1>5. CASE WalkBack
    <2>1. \A h \in DOMAIN blocks : h > cursor - 1 => h > cursor \/ h = cursor
        BY <1>1
    <2> QED
        BY <1>5, <2>1 DEF WalkBack, StepBack, OnNodeChain, NodeHash
<1>6. CASE HandleReorg \/ Uncache \/ FinishReorg
    BY <1>6 DEF HandleReorg, Uncache, FinishReorg
<1>7. CASE RollbackBlock \/ RollbackRaises
    BY <1>7 DEF RollbackBlock, RollbackRaises, Drop
<1>8. CASE Fetch
    BY <1>8 DEF Fetch
<1>9. CASE Commit \/ CommitRaises
    BY <1>9 DEF Commit, CommitRaises, Put
<1>10. CASE RpcRaises \/ TipRpcRaises \/ WalkRpcRaises
    BY <1>10 DEF RpcRaises, TipRpcRaises, WalkRpcRaises, NodeIsSteady
<1>11. CASE ReadRaises \/ NotifyRaises \/ Crash
    BY <1>11 DEF ReadRaises, NotifyRaises, Crash
<1>12. CASE NodeMoves
    BY <1>12, SteadyNode DEF NodeMoves, FrameInv, TypeOK, QuietPoints, Prefix
<1>13. CASE UNCHANGED vars
    BY <1>13 DEF vars
<1> QED
    BY <1>2, <1>3, <1>4, <1>5, <1>6, <1>7, <1>8, <1>9, <1>10, <1>11, <1>12, <1>13
    DEF Next, Work, Reorg, Sync, Fault

\* Only rollback_block removes a block, and the node has another one there.
LEMMA OnlyOrphans ==
    ASSUME FrameInv, OrphanInv, NodeIsSteady, Next,
           NEW h \in DOMAIN blocks, h \notin DOMAIN blocks'
    PROVE  NodeHash(h) # blocks[h]
<1>1. RollbackBlock \/ RollbackRaises
    BY DEF Next, Work, Reorg, Sync, Fault, Start, Poll, TipAgrees, TipDiffers,
           WalkExceeded, WalkGenesis, WalkFound, WalkBack, WalkDone, StepBack,
           HandleReorg, Uncache, FinishReorg, ReorgNotified, StartBatch, CaughtUp,
           Fetch, FetchMissing, Commit, Put, CacheAdd, Notified, Wake, RpcRaises,
           TipRpcRaises, WalkRpcRaises, ReadRaises, CommitRaises, NotifyRaises, Crash,
           NodeMoves, db
<1>2. h = cursor /\ cursor > ancestor /\ pc = "rollback"
    BY <1>1 DEF RollbackBlock, RollbackRaises, Drop, db
<1> QED
    BY <1>2 DEF OrphanInv, NodeHash

\* A rollback never removes a block that the node has on its active chain,
\* also when earlier ones failed, were interrupted, or left gaps.
THEOREM RollbackIsJustified ==
    ASSUME NodeIsSteady
    PROVE  Spec => RollbackOnlyOrphans
<1>1. Init => OrphanInv
    BY DEF Init, EmptyTable, OrphanInv
<1>2. FrameInv /\ OrphanInv /\ [Next]_vars => OrphanInv'
    BY OrphanInvNext
<1>3. FrameInv /\ OrphanInv /\ [Next]_vars =>
        [\A h \in DOMAIN blocks :
            h \notin DOMAIN blocks' => NodeHash(h) # blocks[h]]_vars
    BY OnlyOrphans
<1> QED
    BY FrameHolds, <1>1, <1>2, <1>3, PTL DEF Spec, RollbackOnlyOrphans
=============================================================================
