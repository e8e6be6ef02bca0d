--------------------------- MODULE WalletViewProofs -------------------------
(* Proofs about WalletView, and with it about the tracker, for any number of *)
(* transactions, scripthashes and outputs.                                   *)
EXTENDS WalletView, SetLemmas

-----------------------------------------------------------------------------
(* The tracker.                                                              *)

\* The lists hold each output of a tracked transaction once, and no other.
ListsExact ==
    \A sh \in Script : \A e \in Entry :
        deltas[sh][e] = IF e[1] \in tracked /\ Pays(e, sh) THEN 1 ELSE 0

\* What the poll under way has not touched is as it was last reported.
RestReported ==
    \A sh \in Script : sh \notin affected => reported[sh] = Listing(tracked, sh)

TrackerInv == TypeOK /\ ListsExact /\ RestReported

\* An output that pays sh is one of its entries.
LEMMA EntryOfScript ==
    ASSUME NEW t \in Tx, NEW sh
    PROVE  sh \in Scripts(t) <=> \E e \in Entry : e[1] = t /\ Pays(e, sh)
<1>1. ASSUME NEW i \in DOMAIN Outputs[t], Outputs[t][i].sh = sh
      PROVE  \E e \in Entry : e[1] = t /\ Pays(e, sh)
    <2>1. <<t, i>> \in Entry
        BY DEF Entry
    <2> QED
        BY <1>1, <2>1 DEF Pays
<1>2. ASSUME NEW e \in Entry, e[1] = t, Pays(e, sh)
      PROVE  sh \in Scripts(t)
    <2>1. e[2] \in DOMAIN Outputs[t]
        BY <1>2 DEF Entry
    <2> QED
        BY <1>2, <2>1 DEF Scripts, Pays
<1> QED
    BY <1>1, <1>2 DEF Scripts

LEMMA ScriptsTyped ==
    ASSUME NEW t \in Tx
    PROVE  Scripts(t) \subseteq Script
    BY MempoolAssumption DEF Scripts

\* A step of the poll reports what it touched, at its end.
LEMMA ProceedFacts ==
    ASSUME NEW rest, NEW pool \in SUBSET Tx, NEW touched \in SUBSET Script,
           Proceed(rest, pool, touched), rest \subseteq Tx \ pool,
           reported \in [Script -> SUBSET Tx],
           \A sh \in Script : sh \notin touched => reported[sh] = Listing(pool, sh)
    PROVE  /\ tracked' = pool /\ todo' = rest /\ affected' \subseteq Script
           /\ pc' \in {"sleep", "fetch", "notify"}
           /\ (pc' = "fetch") = (todo' # {})
           /\ pc' # "fetch" => affected' = {}
           /\ reported' \in [Script -> SUBSET Tx]
           /\ RestReported'
<1>1. tracked' = pool /\ todo' = rest
    BY DEF Proceed
<1>2. CASE rest # {}
    BY <1>1, <1>2 DEF Proceed, RestReported, Listing
<1>3. CASE rest = {}
    <2>1. /\ pc' = IF touched = {} THEN "sleep" ELSE "notify"
          /\ affected' = {}
          /\ reported' = [sh \in Script |-> IF sh \in touched THEN Listing(pool, sh)
                                            ELSE reported[sh]]
        BY <1>3 DEF Proceed
    <2>2. \A sh \in Script : reported'[sh] = Listing(pool, sh)
        BY <2>1
    <2>3. reported' \in [Script -> SUBSET Tx]
        BY <2>1 DEF Listing
    <2> QED
        BY <1>1, <1>3, <2>1, <2>2, <2>3 DEF RestReported, Listing
<1> QED
    BY <1>2, <1>3

LEMMA TrackerInit == Init => TrackerInv
<1> SUFFICES ASSUME Init PROVE TrackerInv
    OBVIOUS
<1>1. \A sh \in Script : reported[sh] = {} /\ Listing(tracked, sh) = {}
    BY DEF Init, Listing
<1>2. \A sh \in Script : \A e \in Entry : deltas[sh][e] = 0
    BY DEF Init
<1>3. deltas \in [Script -> [Entry -> Nat]] /\ reported \in [Script -> SUBSET Tx]
    BY DEF Init
<1>4. TypeOK
    BY <1>3 DEF Init, TypeOK
<1> QED
    BY <1>1, <1>2, <1>4 DEF Init, TrackerInv, ListsExact, RestReported

\* Every step of the tracker keeps it.
LEMMA TrackerNext ==
    ASSUME TrackerInv, [Next]_vars
    PROVE  TrackerInv'
<1>1. TypeOK /\ ListsExact /\ RestReported
    BY DEF TrackerInv
<1>2. CASE PollAsks \/ CallbackOver \/ NodeMempool \/ UNCHANGED vars
    <2>1. UNCHANGED <<tracked, deltas, todo, affected, reported>>
        BY <1>2 DEF PollAsks, CallbackOver, NodeMempool, vars
    <2>2. TypeOK'
        BY <1>1, <1>2 DEF PollAsks, CallbackOver, NodeMempool, vars, TypeOK
    <2> QED
        BY <1>1, <2>1, <2>2 DEF TrackerInv, ListsExact, RestReported, Listing
<1>3. CASE Poll
    <2> DEFINE gone == tracked \ answer
    <2>1. /\ pc = "asked" /\ answer' = {} /\ deltas' = RemoveEntries(gone)
          /\ Proceed(answer \ tracked, tracked \ gone, TouchedBy(gone))
          /\ UNCHANGED nodePool
        BY <1>3 DEF Poll, PollFor
    <2>2. ASSUME NEW sh \in Script, sh \notin TouchedBy(gone)
          PROVE  reported[sh] = Listing(tracked \ gone, sh)
        <3>1. reported[sh] = Listing(tracked, sh)
            BY <1>1, <2>1 DEF TypeOK, RestReported
        <3>2. ASSUME NEW t \in gone PROVE sh \notin Scripts(t)
            <4>1. t \in Tx /\ t \in tracked
                BY <1>1 DEF TypeOK
            <4>2. ASSUME NEW e \in Entry, e[1] = t, Pays(e, sh) PROVE FALSE
                BY <1>1, <2>2, <4>1, <4>2 DEF ListsExact, TouchedBy
            <4> QED
                BY <4>1, <4>2, EntryOfScript
        <3> QED
            BY <3>1, <3>2 DEF Listing
    <2>3. TouchedBy(gone) \in SUBSET Script
        BY DEF TouchedBy
    <2>4. /\ tracked \ gone \in SUBSET Tx /\ answer \ tracked \subseteq Tx \ (tracked \ gone)
          /\ reported \in [Script -> SUBSET Tx]
        BY <1>1 DEF TypeOK
    <2>5. ListsExact'
        <3>1. tracked' = tracked \ gone
            BY <2>1 DEF Proceed
        <3> QED
            BY <1>1, <2>1, <3>1 DEF ListsExact, RemoveEntries
    <2>6. deltas' \in [Script -> [Entry -> Nat]]
        BY <1>1, <2>1 DEF RemoveEntries, TypeOK
    <2> HIDE DEF gone
    <2>7. /\ tracked' = tracked \ gone /\ todo' = answer \ tracked
          /\ affected' \subseteq Script /\ pc' \in {"sleep", "fetch", "notify"}
          /\ (pc' = "fetch") = (todo' # {})
          /\ pc' # "fetch" => affected' = {}
          /\ reported' \in [Script -> SUBSET Tx]
          /\ RestReported'
        <3> DEFINE rest == answer \ tracked
                   pool == tracked \ gone
                   touched == TouchedBy(gone)
        <3>1. /\ pool \in SUBSET Tx /\ touched \in SUBSET Script
              /\ rest \subseteq Tx \ pool /\ Proceed(rest, pool, touched)
              /\ reported \in [Script -> SUBSET Tx]
              /\ \A sh \in Script : sh \notin touched => reported[sh] = Listing(pool, sh)
            BY <2>1, <2>2, <2>3, <2>4
        <3> HIDE DEF rest, pool, touched
        <3>2. tracked' = pool /\ todo' = rest /\ affected' \subseteq Script
            BY <3>1, ProceedFacts
        <3> QED
            BY <3>1, <3>2, ProceedFacts DEF rest, pool
    <2>8. TypeOK'
        BY <1>1, <2>1, <2>4, <2>6, <2>7 DEF TypeOK
    <2> QED
        BY <2>5, <2>7, <2>8 DEF TrackerInv
<1>4. ASSUME NEW t \in todo, Fetched(t) PROVE TrackerInv'
    <2>1. t \in Tx \ tracked
        BY <1>1 DEF TypeOK
    <2>2. /\ pc = "fetch" /\ deltas' = AddEntry(t) /\ UNCHANGED <<nodePool, answer>>
          /\ Proceed(todo \ {t}, tracked \cup {t}, affected \cup Scripts(t))
        BY <1>4 DEF Fetched
    <2>3. ASSUME NEW sh \in Script, sh \notin affected \cup Scripts(t)
          PROVE  reported[sh] = Listing(tracked \cup {t}, sh)
        BY <1>1, <2>3 DEF RestReported, Listing
    <2>4. /\ tracked \cup {t} \in SUBSET Tx /\ todo \ {t} \subseteq Tx \ (tracked \cup {t})
          /\ affected \cup Scripts(t) \in SUBSET Script
          /\ reported \in [Script -> SUBSET Tx]
        BY <1>1, <2>1, ScriptsTyped DEF TypeOK
    <2>5. /\ tracked' = tracked \cup {t} /\ todo' = todo \ {t}
          /\ affected' \subseteq Script /\ pc' \in {"sleep", "fetch", "notify"}
          /\ (pc' = "fetch") = (todo' # {})
          /\ pc' # "fetch" => affected' = {}
          /\ reported' \in [Script -> SUBSET Tx]
          /\ RestReported'
        <3> DEFINE rest == todo \ {t}
                   pool == tracked \cup {t}
                   touched == affected \cup Scripts(t)
        <3>1. /\ pool \in SUBSET Tx /\ touched \in SUBSET Script
              /\ rest \subseteq Tx \ pool /\ Proceed(rest, pool, touched)
              /\ reported \in [Script -> SUBSET Tx]
              /\ \A sh \in Script : sh \notin touched => reported[sh] = Listing(pool, sh)
            BY <2>2, <2>3, <2>4
        <3> HIDE DEF rest, pool, touched
        <3>2. tracked' = pool /\ todo' = rest /\ affected' \subseteq Script
            BY <3>1, ProceedFacts
        <3> QED
            BY <3>1, <3>2, ProceedFacts DEF rest, pool
    <2>6. deltas' \in [Script -> [Entry -> Nat]]
        BY <1>1, <2>2 DEF AddEntry, TypeOK
    <2>7. ListsExact'
        BY <1>1, <2>1, <2>2, <2>5 DEF ListsExact, AddEntry
    <2>8. TypeOK'
        BY <1>1, <2>2, <2>4, <2>5, <2>6 DEF TypeOK
    <2> QED
        BY <2>5, <2>7, <2>8 DEF TrackerInv
<1>5. ASSUME NEW t \in todo, FetchFails(t) PROVE TrackerInv'
    <2>1. /\ pc = "fetch" /\ UNCHANGED <<nodePool, deltas, answer>>
          /\ Proceed(todo \ {t}, tracked, affected)
        BY <1>5 DEF FetchFails
    <2>2. /\ tracked \in SUBSET Tx /\ todo \ {t} \subseteq Tx \ tracked
          /\ affected \in SUBSET Script /\ reported \in [Script -> SUBSET Tx]
          /\ \A sh \in Script : sh \notin affected => reported[sh] = Listing(tracked, sh)
        BY <1>1 DEF TypeOK, RestReported
    <2>3. /\ tracked' = tracked /\ todo' = todo \ {t}
          /\ affected' \subseteq Script /\ pc' \in {"sleep", "fetch", "notify"}
          /\ (pc' = "fetch") = (todo' # {})
          /\ pc' # "fetch" => affected' = {}
          /\ reported' \in [Script -> SUBSET Tx]
          /\ RestReported'
        BY <2>1, <2>2, ProceedFacts
    <2>4. TypeOK' /\ ListsExact'
        BY <1>1, <2>1, <2>2, <2>3 DEF TypeOK, ListsExact
    <2> QED
        BY <2>3, <2>4 DEF TrackerInv
<1> QED
    BY <1>2, <1>3, <1>4, <1>5 DEF Next, Work, Fault

-----------------------------------------------------------------------------
(* The wallet's view.                                                        *)

\* What the tracker has, or is about to fetch, although it is in a block got
\* there since the node gave the list.
MovedInv == \A t \in tracked \cup todo : t \in mined => t \in moved

WalletInv ==
    /\ TrackerInv
    /\ WalletTypeOK
    /\ PoolIsShown
    /\ MovedInv

LEMMA WalletInvInit == WalletInit => WalletInv
<1> SUFFICES ASSUME WalletInit PROVE WalletInv
    OBVIOUS
<1>1. TrackerInv
    BY TrackerInit DEF WalletInit
<1>2. WalletTypeOK
    BY <1>1 DEF WalletInit, WalletTypeOK, TrackerInv
<1>3. PoolIsShown /\ MovedInv
    BY DEF WalletInit, Init, PoolIsShown, MovedInv
<1> QED
    BY <1>1, <1>2, <1>3 DEF WalletInv

\* A step that leaves the tracker's own variables alone keeps what is known of
\* them, whatever the node's mempool becomes.
LEMMA TrackerAlone ==
    ASSUME TrackerInv, nodePool' \subseteq Tx,
           UNCHANGED <<tracked, deltas, pc, todo, affected, answer, reported>>
    PROVE  TrackerInv'
    BY DEF TrackerInv, TypeOK, ListsExact, RestReported, Listing

\* The tracker's task changes neither the node nor the tables.  What it holds
\* of mined transactions is what the last list held of them, and what it lacks
\* of the node's mempool is what that list lacked, or what it failed to fetch.
LEMMA TrackKeeps ==
    ASSUME WalletInv, Track
    PROVE  WalletInv'
<1>1. /\ TypeOK /\ MovedInv /\ PoolIsShown /\ TrackerInv
      /\ WalletTypeOK /\ mined \cap nodePool = {}
    BY DEF WalletInv, TrackerInv, WalletTypeOK
<1>2. UNCHANGED <<mined, confirmed, request>>
    BY DEF Track
<1>3. CASE Poll /\ moved' = Minable \cap SymDiff(answer, nodePool) /\ failed' = {}
    <2>1. TrackerInv'
        BY <1>1, <1>3, TrackerNext DEF Next, Work
    <2>2. /\ tracked' = tracked \ (tracked \ answer) /\ todo' = answer \ tracked
          /\ UNCHANGED nodePool
        BY <1>3 DEF Poll, PollFor, Proceed
    <2>3. PoolIsShown'
        BY <1>3, <2>2 DEF PoolIsShown, SymDiff
    <2>4. MovedInv'
        <3>1. \A t \in tracked' \cup todo' : t \in answer
            BY <2>2
        <3>2. \A t \in mined : t \in Minable /\ t \notin nodePool
            BY <1>1 DEF WalletTypeOK
        <3> QED
            BY <1>2, <1>3, <3>1, <3>2 DEF MovedInv, SymDiff
    <2>5. WalletTypeOK'
        BY <1>1, <1>2, <1>3, <2>1, <2>2 DEF WalletTypeOK, TrackerInv, request
    <2> QED
        BY <2>1, <2>3, <2>4, <2>5 DEF WalletInv
<1>4. CASE (PollAsks \/ CallbackOver) /\ UNCHANGED <<moved, failed>>
    <2>1. TrackerInv'
        BY <1>1, <1>4, TrackerNext DEF Next, Work
    <2>2. UNCHANGED <<tracked, todo, nodePool>>
        BY <1>4 DEF PollAsks, CallbackOver
    <2> QED
        BY <1>1, <1>2, <1>4, <2>1, <2>2
        DEF WalletInv, PoolIsShown, MovedInv, WalletTypeOK, TrackerInv, request
<1>5. ASSUME NEW t \in todo, Fetched(t), UNCHANGED <<moved, failed>>
      PROVE  WalletInv'
    <2>1. TrackerInv'
        BY <1>1, <1>5, TrackerNext DEF Next, Work
    <2>2. tracked' = tracked \cup {t} /\ todo' = todo \ {t} /\ UNCHANGED nodePool
        BY <1>5 DEF Fetched, Proceed
    <2> QED
        BY <1>1, <1>2, <1>5, <2>1, <2>2
        DEF WalletInv, PoolIsShown, MovedInv, WalletTypeOK, TrackerInv, request
<1>6. ASSUME NEW t \in todo, FetchFails(t), failed' = failed \cup ({t} \cap Minable),
             UNCHANGED moved
      PROVE  WalletInv'
    <2>1. TrackerInv'
        BY <1>1, <1>6, TrackerNext DEF Next, Fault
    <2>2. tracked' = tracked /\ todo' = todo \ {t} /\ UNCHANGED nodePool
        BY <1>6 DEF FetchFails, Proceed
    <2> QED
        BY <1>1, <1>2, <1>6, <2>1, <2>2
        DEF WalletInv, PoolIsShown, MovedInv, WalletTypeOK, TrackerInv, request
<1> QED
    BY <1>3, <1>4, <1>5, <1>6 DEF Track

\* The node and the indexer leave the tracker alone; what comes to the node's
\* mempool or leaves it has moved.
LEMMA OthersKeep ==
    ASSUME WalletInv,
           Index \/ NodeRelays \/ \E t \in Minable : NodeMines(t) \/ NodeUnmines(t)
    PROVE  WalletInv'
<1>1. TypeOK /\ MovedInv /\ PoolIsShown /\ TrackerInv /\ WalletTypeOK
    BY DEF WalletInv, TrackerInv
<1>2. /\ UNCHANGED <<tracked, deltas, pc, todo, affected, answer, reported>>
      /\ UNCHANGED <<failed, request>>
    BY DEF Index, NodeRelays, NodeMempool, NodeMines, NodeUnmines, vars
<1>3. /\ nodePool' \subseteq Tx /\ mined' \cap nodePool' = {}
      /\ mined' \subseteq Minable /\ confirmed' \subseteq Minable
    BY <1>1, WalletAssumption
    DEF Index, IndexerStores, IndexerRemoves, NodeRelays, NodeMempool, NodeMines,
        NodeUnmines, vars, WalletTypeOK, TypeOK
<1>4. /\ moved \subseteq moved' /\ moved' \subseteq Minable
      /\ Minable \cap (nodePool' \ nodePool) \subseteq moved'
      /\ mined' \ mined \subseteq moved'
    <2>1. moved \subseteq Minable
        BY <1>1 DEF WalletTypeOK
    <2>2. CASE Index
        BY <2>1, <2>2 DEF Index, vars
    <2>3. CASE NodeRelays \/ \E t \in Minable : NodeMines(t) \/ NodeUnmines(t)
        BY <2>1, <2>3 DEF NodeRelays, NodeMines, NodeUnmines, Moves, SymDiff
    <2> QED
        BY <2>2, <2>3
<1>5. TrackerInv'
    BY <1>1, <1>2, <1>3, TrackerAlone
<1>6. PoolIsShown' /\ MovedInv'
    BY <1>1, <1>2, <1>4 DEF PoolIsShown, MovedInv
<1>7. WalletTypeOK'
    BY <1>1, <1>2, <1>3, <1>4, <1>5 DEF WalletTypeOK, TrackerInv, request
<1> QED
    BY <1>5, <1>6, <1>7 DEF WalletInv

LEMMA WalletInvNext ==
    ASSUME WalletInv, [WalletNext]_allVars
    PROVE  WalletInv'
<1>1. TrackerInv /\ WalletTypeOK /\ PoolIsShown /\ MovedInv /\ TypeOK
    BY DEF WalletInv, TrackerInv
<1>2. CASE (\E t \in Minable : Ask(t)) \/ Reply \/ UNCHANGED allVars
    <2>1. UNCHANGED <<vars, mined, confirmed, moved, failed>>
        BY <1>2 DEF Ask, Reply, allVars, walletVars
    <2>2. TrackerInv'
        BY <1>1, <2>1, TrackerNext
    <2>3. asked' \in Minable \cup {None}
        BY <1>1, <1>2 DEF Ask, Reply, allVars, walletVars, request, WalletTypeOK
    <2>4. inRows' \in BOOLEAN
        <3>1. CASE \E t \in Minable : Ask(t)
            <4>1. PICK t \in Minable : inRows' = (t \in confirmed)
                BY <3>1 DEF Ask
            <4>2. (t \in confirmed) \in BOOLEAN
                OBVIOUS
            <4> QED
                BY <4>1, <4>2
        <3>2. CASE Reply \/ UNCHANGED allVars
            BY <1>1, <3>2 DEF Reply, allVars, walletVars, request, WalletTypeOK
        <3> QED
            BY <1>2, <3>1, <3>2
    <2>5. WalletTypeOK' /\ PoolIsShown' /\ MovedInv'
        BY <1>1, <2>1, <2>2, <2>3, <2>4
        DEF vars, WalletTypeOK, TrackerInv, PoolIsShown, MovedInv
    <2> QED
        BY <2>2, <2>5 DEF WalletInv
<1> QED
    BY <1>2, TrackKeeps, OthersKeep DEF WalletNext

LEMMA WalletHolds == WalletSpec => []WalletInv
    BY WalletInvInit, WalletInvNext, PTL DEF WalletSpec

\* Types, and among them that a transaction being fetched is not tracked yet.
THEOREM WalletTypeCorrect == WalletSpec => []WalletTypeOK
<1>1. WalletInv => WalletTypeOK
    BY DEF WalletInv
<1> QED
    BY WalletHolds, <1>1, PTL

\* The unconfirmed balance of every scripthash is the sum over the tracked
\* transactions' outputs that pay to it, at every await of a poll.
THEOREM BalanceIsExact == WalletSpec => []BalanceIsTracked
<1>1. WalletInv => BalanceIsTracked
    <2> SUFFICES ASSUME WalletInv, NEW sh \in Script
                 PROVE  Unconfirmed(sh) =
                            Total([e \in Entry |->
                                      IF e[1] \in tracked /\ Pays(e, sh) THEN 1 ELSE 0])
        BY DEF BalanceIsTracked
    <2>1. deltas[sh] \in [Entry -> Nat]
        BY DEF WalletInv, TrackerInv, TypeOK
    <2>2. deltas[sh] = [e \in Entry |->
                            IF e[1] \in tracked /\ Pays(e, sh) THEN 1 ELSE 0]
        BY <2>1 DEF WalletInv, TrackerInv, ListsExact
    <2> QED
        BY <2>2 DEF Unconfirmed
<1> QED
    BY WalletHolds, <1>1, PTL

\* No entry of a scripthash's mempool comes or goes without a callback that
\* names the scripthash.
THEOREM ChangesAreReported == WalletSpec => []ChangesReported
<1>1. WalletInv => ChangesReported
    BY DEF WalletInv, TrackerInv, TypeOK, RestReported, ChangesReported
<1> QED
    BY WalletHolds, <1>1, PTL

\* What is in the node's mempool since before the list last polled is shown,
\* unless it is being fetched or could not be.
THEOREM PoolIsAlwaysShown == WalletSpec => []PoolIsShown
<1>1. WalletInv => PoolIsShown
    BY DEF WalletInv
<1> QED
    BY WalletHolds, <1>1, PTL

\* A transaction counted twice was mined after the node gave the list that was
\* polled last, or is not in its chain any more.
THEOREM TwiceOnlyUntilPoll == WalletSpec => []TwiceUntilPoll
<1>1. WalletInv => TwiceUntilPoll
    BY DEF WalletInv, MovedInv, TwiceUntilPoll
<1> QED
    BY WalletHolds, <1>1, PTL
-----------------------------------------------------------------------------
(* The fee histogram.                                                        *)

\* The transactions of P in the range of a bucket whose rate is r.
HeldIn(P, r) == {t \in P : Rate[t] <= r /\ r - Rate[t] < BucketWidth}

SizeOf(P) == SumOf(Keep(TxSize, P))

\* The buckets b hold the transactions P, in their ranges, which are apart.
Describes(P, b) ==
    /\ b \in Seq(Nat \X Nat)
    /\ \A i \in 1 .. Len(b) : b[i][2] = SizeOf(HeldIn(P, b[i][1]))
    /\ \A i \in 1 .. Len(b) : \A j \in 1 .. (i - 1) : b[j][1] - b[i][1] >= BucketWidth
    /\ \A t \in P : \E i \in 1 .. Len(b) : t \in HeldIn(P, b[i][1])
    /\ \A i \in 1 .. Len(b) : \E t \in P : Rate[t] = b[i][1]

LEMMA SizeAdds ==
    ASSUME NEW H \in SUBSET Tx, IsFiniteSet(H), NEW t \in Tx \ H
    PROVE  SizeOf(H \cup {t}) = SizeOf(H) + TxSize[t] /\ SizeOf({}) = 0
<1> DEFINE S == H \cup {t}
           f == Keep(TxSize, S)
<1>1. IsFiniteSet(S)
    BY FS_AddElement
<1>2. DOMAIN f = S /\ \A k \in S : f[k] = TxSize[k] /\ f[k] \in Int
    BY MempoolAssumption DEF Keep
<1>3. t \in S /\ S \ {t} = H /\ H \in SUBSET S
    OBVIOUS
<1>4. \A T \in SUBSET S : Keep(f, T) = Keep(TxSize, T)
    BY DEF Keep
<1> HIDE DEF f, S
<1>5. IntColumn(f)
    BY <1>1, <1>2 DEF IntColumn
<1>6. SumOf(Keep(f, S)) = f[t] + SumOf(Keep(f, S \ {t}))
    BY <1>2, <1>3, <1>5, SumRemove
<1>7. SumOf(Keep(f, H)) \in Int /\ SumOf(Keep(f, {})) = 0
    BY <1>2, <1>3, <1>5, SumRemove
<1>8. SizeOf(S) = SumOf(Keep(f, S)) /\ SizeOf(H) = SumOf(Keep(f, H))
      /\ SizeOf({}) = SumOf(Keep(f, {}))
    BY <1>3, <1>4 DEF SizeOf
<1>9. SizeOf(S) = TxSize[t] + SizeOf(H) /\ SizeOf(H) \in Int /\ TxSize[t] \in Int
    BY <1>2, <1>3, <1>6, <1>7, <1>8
<1> QED
    BY <1>7, <1>8, <1>9 DEF S

\* A transaction that pays no more than the others joins the last bucket.
LEMMA JoinDescribes ==
    ASSUME NEW P \in SUBSET Tx, IsFiniteSet(P), NEW t \in Tx \ P,
           \A u \in P : Rate[t] <= Rate[u],
           NEW b, Describes(P, b), b # <<>>, SameBucket(Rate[t], Last(b))
    PROVE  Describes(P \cup {t}, [b EXCEPT ![Len(b)][2] = @ + TxSize[t]])
<1> DEFINE n == Len(b)
           e == [b EXCEPT ![Len(b)][2] = @ + TxSize[t]]
           Q == P \cup {t}
           r(i) == b[i][1]
<1>0. \A u \in Tx : Rate[u] \in Nat /\ TxSize[u] \in Nat
    BY MempoolAssumption
<1>1. b \in Seq(Nat \X Nat) /\ n \in Nat /\ n # 0 /\ DOMAIN b = 1 .. n
    BY DEF Describes
<1>2. \A i \in 1 .. n : b[i] \in Nat \X Nat
    BY <1>1
<1>3. n \in 1 .. n
    BY <1>1
<1>4. \A i \in 1 .. n : r(i) \in Nat
    BY <1>2
<1>5. /\ e \in Seq(Nat \X Nat) /\ Len(e) = n
      /\ \A i \in 1 .. n : i # n => e[i] = b[i]
      /\ e[n][1] = b[n][1] /\ e[n][2] = b[n][2] + TxSize[t]
    <2>1. e = [i \in 1 .. n |-> IF i = n THEN [b[n] EXCEPT ![2] = @ + TxSize[t]] ELSE b[i]]
        BY <1>1
    <2>2. [b[n] EXCEPT ![2] = @ + TxSize[t]] = <<b[n][1], b[n][2] + TxSize[t]>>
        BY <1>2, <1>3
    <2>3. b[n][1] \in Nat /\ b[n][2] \in Nat /\ TxSize[t] \in Nat
        BY <1>0, <1>2, <1>3
    <2>4. e = [i \in 1 .. n |-> IF i = n THEN <<b[n][1], b[n][2] + TxSize[t]>> ELSE b[i]]
        BY <2>1, <2>2
    <2> HIDE DEF e
    <2>5. e[n] = <<b[n][1], b[n][2] + TxSize[t]>> /\ \A i \in 1 .. n : i # n => e[i] = b[i]
        BY <1>3, <2>4
    <2>6. \A i \in 1 .. n : e[i] \in Nat \X Nat
        BY <1>2, <2>3, <2>5, SMTT(30)
    <2>7. e \in [1 .. n -> Nat \X Nat]
        BY <2>4, <2>6
    <2>8. e \in Seq(Nat \X Nat) /\ Len(e) = n
        <3> HIDE DEF n
        <3> QED
            BY <1>1, <2>7
    <2> QED
        BY <2>5, <2>8
<1>6. r(n) - Rate[t] < BucketWidth
    BY DEF SameBucket, Last
<1> HIDE DEF n, e
<1>7. Rate[t] <= r(n)
    BY <1>3 DEF Describes, n
<1>8. \A i \in 1 .. n : i # n => r(i) - r(n) >= BucketWidth
    <2>1. \A i \in 1 .. n : i # n => i \in 1 .. (n - 1)
        BY <1>1
    <2> QED
        BY <1>3, <2>1 DEF Describes, n
<1>9. BucketWidth \in Nat /\ t \in Tx /\ Rate[t] \in Nat
    BY MempoolAssumption, <1>0
<1>10. \A i \in 1 .. n : i # n => r(i) - Rate[t] >= BucketWidth
    <2>1. SUFFICES ASSUME NEW i \in 1 .. n, i # n PROVE r(i) - Rate[t] >= BucketWidth
        OBVIOUS
    <2>2. r(i) - r(n) >= BucketWidth /\ r(i) \in Nat /\ r(n) \in Nat
        BY <1>3, <1>4, <1>8, <2>1
    <2> HIDE DEF r
    <2> QED
        BY <1>7, <1>9, <2>2
<1>11. /\ HeldIn(Q, r(n)) = HeldIn(P, r(n)) \cup {t}
       /\ \A i \in 1 .. n : i # n => HeldIn(Q, r(i)) = HeldIn(P, r(i))
    <2>1. \A x : t \in HeldIn(Q, x) <=> Rate[t] <= x /\ x - Rate[t] < BucketWidth
        BY DEF HeldIn
    <2>2. \A x : \A u \in P : u \in HeldIn(Q, x) <=> u \in HeldIn(P, x)
        BY DEF HeldIn
    <2>3. \A x : HeldIn(Q, x) \subseteq Q /\ HeldIn(P, x) \subseteq P
        BY DEF HeldIn
    <2>4. t \in HeldIn(Q, r(n))
        BY <1>6, <1>7, <2>1
    <2>5. \A i \in 1 .. n : i # n => t \notin HeldIn(Q, r(i))
        <3>1. SUFFICES ASSUME NEW i \in 1 .. n, i # n PROVE ~(r(i) - Rate[t] < BucketWidth)
            BY <2>1
        <3>2. r(i) \in Nat /\ r(i) - Rate[t] >= BucketWidth
            BY <1>4, <1>10, <3>1
        <3> HIDE DEF r
        <3> QED
            BY <1>9, <3>2
    <2>6. \A x : t \in HeldIn(Q, x) => HeldIn(Q, x) = HeldIn(P, x) \cup {t}
        BY <2>2, <2>3
    <2>7. \A x : t \notin HeldIn(Q, x) => HeldIn(Q, x) = HeldIn(P, x)
        BY <2>2, <2>3
    <2> HIDE DEF r, Q
    <2> QED
        BY <2>4, <2>5, <2>6, <2>7
<1>12. \A i \in 1 .. n : e[i][1] = r(i)
    BY <1>5
<1>13. \A i \in 1 .. n : b[i][2] = SizeOf(HeldIn(P, r(i)))
    BY DEF Describes, n
<1>14. e[n][2] = SizeOf(HeldIn(Q, r(n)))
    <2> DEFINE H == HeldIn(P, r(n))
    <2>1. H \in SUBSET P
        BY DEF HeldIn
    <2>2. b[n][2] = SizeOf(H)
        BY <1>3, <1>13
    <2>3. HeldIn(Q, r(n)) = H \cup {t}
        BY <1>11
    <2> HIDE DEF H
    <2>4. IsFiniteSet(H) /\ H \in SUBSET Tx /\ t \in Tx \ H
        BY <2>1, FS_Subset
    <2>5. SizeOf(H \cup {t}) = SizeOf(H) + TxSize[t]
        BY <2>4, SizeAdds
    <2> QED
        BY <1>5, <2>2, <2>3, <2>5
<1>15. \A i \in 1 .. n : e[i][2] = SizeOf(HeldIn(Q, r(i)))
    <2>1. \A i \in 1 .. n : i # n => e[i][2] = SizeOf(HeldIn(Q, r(i)))
        <3> HIDE DEF Q
        <3> QED
            BY <1>5, <1>11, <1>13
    <2> QED
        BY <1>14, <2>1
<1>16. \A i \in 1 .. n : \A j \in 1 .. (i - 1) : e[j][1] - e[i][1] >= BucketWidth
    <2>1. SUFFICES ASSUME NEW i \in 1 .. n, NEW j \in 1 .. (i - 1)
                   PROVE  e[j][1] - e[i][1] >= BucketWidth
        OBVIOUS
    <2>2. j \in 1 .. n
        BY <1>1
    <2>3. r(j) - r(i) >= BucketWidth
        BY DEF Describes, n
    <2>4. e[j][1] = r(j) /\ e[i][1] = r(i)
        BY <1>12, <2>2
    <2> HIDE DEF r
    <2> QED
        BY <2>3, <2>4
<1>17. \A u \in Q : \E i \in 1 .. n : u \in HeldIn(Q, r(i))
    <2>1. \A u \in P : \E i \in 1 .. n : u \in HeldIn(P, r(i))
        BY DEF Describes, n
    <2>2. \A x : HeldIn(P, x) \subseteq HeldIn(Q, x)
        BY DEF HeldIn
    <2>3. t \in HeldIn(Q, r(n))
        BY <1>11
    <2> HIDE DEF r
    <2> QED
        BY <1>3, <2>1, <2>2, <2>3
<1>18. \A i \in 1 .. n : \E u \in Q : Rate[u] = r(i)
    BY DEF Describes, n
<1> HIDE DEF Q, r
<1>19. Describes(Q, e)
    <2>1. e \in Seq(Nat \X Nat) /\ Len(e) = n
        BY <1>5
    <2>2. \A i \in 1 .. n : e[i][2] = SizeOf(HeldIn(Q, e[i][1]))
        BY <1>12, <1>15
    <2>3. \A u \in Q : \E i \in 1 .. n : u \in HeldIn(Q, e[i][1])
        BY <1>12, <1>17
    <2>4. \A i \in 1 .. n : \E u \in Q : Rate[u] = e[i][1]
        BY <1>12, <1>18
    <2> QED
        BY <1>16, <2>1, <2>2, <2>3, <2>4 DEF Describes
<1> QED
    BY <1>19 DEF Q, e, n
\* One that pays too little for the last bucket opens its own.
LEMMA OpenDescribes ==
    ASSUME NEW P \in SUBSET Tx, IsFiniteSet(P), NEW t \in Tx \ P,
           \A u \in P : Rate[t] <= Rate[u],
           NEW b, Describes(P, b), b = <<>> \/ ~SameBucket(Rate[t], Last(b))
    PROVE  Describes(P \cup {t}, Append(b, <<Rate[t], TxSize[t]>>))
<1> DEFINE n == Len(b)
           e == Append(b, <<Rate[t], TxSize[t]>>)
           Q == P \cup {t}
           r(i) == b[i][1]
<1>0. /\ \A u \in Tx : Rate[u] \in Nat /\ TxSize[u] \in Nat
      /\ BucketWidth \in Nat /\ BucketWidth # 0 /\ t \in Tx /\ Rate[t] \in Nat
    BY MempoolAssumption
<1>1. b \in Seq(Nat \X Nat) /\ n \in Nat /\ DOMAIN b = 1 .. n
    BY DEF Describes
<1>2. \A i \in 1 .. n : b[i] \in Nat \X Nat
    BY <1>1
<1>3. \A i \in 1 .. n : r(i) \in Nat
    BY <1>2
<1>4. /\ e \in Seq(Nat \X Nat) /\ Len(e) = n + 1
      /\ \A i \in 1 .. n : e[i] = b[i]
      /\ e[n + 1] = <<Rate[t], TxSize[t]>>
    <2>1. <<Rate[t], TxSize[t]>> \in Nat \X Nat
        BY <1>0
    <2> QED
        BY <1>1, <2>1
<1>5. n # 0 => r(n) - Rate[t] >= BucketWidth
    <2>1. SUFFICES ASSUME n # 0 PROVE r(n) - Rate[t] >= BucketWidth
        OBVIOUS
    <2>2. r(n) \in Nat /\ b # <<>>
        BY <1>1, <1>3, <2>1
    <2>3. ~(r(n) - Rate[t] < BucketWidth)
        BY <2>2 DEF SameBucket, Last
    <2> HIDE DEF r
    <2> QED
        BY <1>0, <2>2, <2>3
<1> HIDE DEF n, e
<1>6. \A i \in 1 .. n : i # n => r(i) - r(n) >= BucketWidth
    <2>1. \A i \in 1 .. n : i # n => i \in 1 .. (n - 1) /\ n \in 1 .. n
        BY <1>1
    <2> QED
        BY <2>1 DEF Describes, n
<1>7. \A i \in 1 .. n : r(i) - Rate[t] >= BucketWidth
    <2>1. SUFFICES ASSUME NEW i \in 1 .. n, i # n PROVE r(i) - Rate[t] >= BucketWidth
        BY <1>1, <1>5
    <2>2. n # 0 /\ n \in 1 .. n
        BY <1>1
    <2>3. r(i) - r(n) >= BucketWidth /\ r(i) \in Nat /\ r(n) \in Nat
        BY <1>3, <1>6, <2>1, <2>2
    <2>4. r(n) - Rate[t] >= BucketWidth
        BY <1>5, <2>2
    <2> HIDE DEF r
    <2> QED
        BY <1>0, <2>3, <2>4
<1>8. \A i \in 1 .. n : HeldIn(Q, r(i)) = HeldIn(P, r(i))
    <2>1. SUFFICES ASSUME NEW i \in 1 .. n PROVE ~(r(i) - Rate[t] < BucketWidth)
        BY DEF HeldIn
    <2>2. r(i) \in Nat /\ r(i) - Rate[t] >= BucketWidth
        BY <1>3, <1>7
    <2> HIDE DEF r
    <2> QED
        BY <1>0, <2>2
<1>9. HeldIn(Q, Rate[t]) = {t}
    <2>1. t \in HeldIn(Q, Rate[t])
        BY <1>0 DEF HeldIn
    <2>2. ASSUME NEW u \in P, u \in HeldIn(Q, Rate[t]) PROVE FALSE
        <3>1. Rate[u] \in Nat /\ Rate[u] <= Rate[t] /\ Rate[t] <= Rate[u]
            BY <1>0, <2>2 DEF HeldIn
        <3>2. Rate[u] = Rate[t]
            BY <1>0, <3>1
        <3>3. PICK i \in 1 .. n : u \in HeldIn(P, r(i))
            BY DEF Describes, n
        <3>4. r(i) - Rate[t] < BucketWidth /\ r(i) \in Nat
            BY <1>3, <3>2, <3>3 DEF HeldIn
        <3>5. r(i) - Rate[t] >= BucketWidth
            BY <1>7
        <3> HIDE DEF r
        <3> QED
            BY <1>0, <3>4, <3>5
    <2>3. HeldIn(Q, Rate[t]) \subseteq P \cup {t}
        BY DEF HeldIn
    <2> HIDE DEF Q
    <2> QED
        BY <2>1, <2>2, <2>3
<1>10. SizeOf({t}) = TxSize[t]
    <2>1. {} \in SUBSET Tx /\ IsFiniteSet({}) /\ t \in Tx \ {}
        BY <1>0, FS_EmptySet
    <2>2. SizeOf({} \cup {t}) = SizeOf({}) + TxSize[t] /\ SizeOf({}) = 0
        BY <2>1, SizeAdds
    <2> QED
        BY <1>0, <2>2
<1>11. \A i \in 1 .. n + 1 : i \in 1 .. n \/ i = n + 1
    BY <1>1
<1>12. \A i \in 1 .. n : e[i][1] = r(i) /\ e[i][2] = SizeOf(HeldIn(P, r(i)))
    BY <1>4 DEF Describes, n
<1>13. e[n + 1][1] = Rate[t] /\ e[n + 1][2] = TxSize[t]
    BY <1>4
<1>14. \A i \in 1 .. n + 1 : e[i][2] = SizeOf(HeldIn(Q, e[i][1]))
    <2>1. \A i \in 1 .. n : e[i][2] = SizeOf(HeldIn(Q, e[i][1]))
        BY <1>8, <1>12
    <2>2. e[n + 1][2] = SizeOf(HeldIn(Q, e[n + 1][1]))
        BY <1>9, <1>10, <1>13
    <2> QED
        BY <1>11, <2>1, <2>2
<1>15. \A i \in 1 .. n + 1 : \A j \in 1 .. (i - 1) : e[j][1] - e[i][1] >= BucketWidth
    <2>1. SUFFICES ASSUME NEW i \in 1 .. n + 1, NEW j \in 1 .. (i - 1)
                   PROVE  e[j][1] - e[i][1] >= BucketWidth
        OBVIOUS
    <2>2. j \in 1 .. n
        BY <1>1
    <2>3. CASE i \in 1 .. n
        <3>1. r(j) - r(i) >= BucketWidth
            BY <2>3 DEF Describes, n
        <3>2. e[j][1] = r(j) /\ e[i][1] = r(i)
            BY <1>12, <2>2, <2>3
        <3> HIDE DEF r
        <3> QED
            BY <3>1, <3>2
    <2>4. CASE i = n + 1
        <3>1. r(j) - Rate[t] >= BucketWidth
            BY <1>7, <2>2
        <3>2. e[j][1] = r(j) /\ e[i][1] = Rate[t]
            BY <1>12, <1>13, <2>2, <2>4
        <3> HIDE DEF r
        <3> QED
            BY <3>1, <3>2
    <2> QED
        BY <1>11, <2>3, <2>4
<1>16. n + 1 \in 1 .. n + 1 /\ \A i \in 1 .. n : i \in 1 .. n + 1
    BY <1>1
<1>17. \A u \in Q : \E i \in 1 .. n + 1 : u \in HeldIn(Q, e[i][1])
    <2>1. \A u \in P : \E i \in 1 .. n : u \in HeldIn(P, r(i))
        BY DEF Describes, n
    <2>2. \A u \in P : \E i \in 1 .. n + 1 : u \in HeldIn(Q, e[i][1])
        BY <1>8, <1>12, <1>16, <2>1
    <2>3. t \in HeldIn(Q, e[n + 1][1])
        BY <1>9, <1>13
    <2> QED
        BY <1>16, <2>2, <2>3
<1>18. \A i \in 1 .. n + 1 : \E u \in Q : Rate[u] = e[i][1]
    <2>1. \A i \in 1 .. n : \E u \in P : Rate[u] = r(i)
        BY DEF Describes, n
    <2>2. \A i \in 1 .. n : \E u \in Q : Rate[u] = e[i][1]
        BY <1>12, <2>1
    <2>3. t \in Q /\ Rate[t] = e[n + 1][1]
        BY <1>13
    <2> HIDE DEF Q
    <2> QED
        BY <1>11, <2>2, <2>3
<1> HIDE DEF Q, r
<1>19. Describes(Q, e)
    BY <1>4, <1>14, <1>15, <1>17, <1>18 DEF Describes
<1> QED
    BY <1>19 DEF Q, e

LEMMA AddDescribes ==
    ASSUME NEW P \in SUBSET Tx, IsFiniteSet(P), NEW t \in Tx \ P,
           \A u \in P : Rate[t] <= Rate[u], NEW b, Describes(P, b)
    PROVE  Describes(P \cup {t}, AddToBuckets(b, t))
<1>1. CASE b # <<>> /\ SameBucket(Rate[t], Last(b))
    BY <1>1, JoinDescribes DEF AddToBuckets
<1>2. CASE ~(b # <<>> /\ SameBucket(Rate[t], Last(b)))
    BY <1>2, OpenDescribes DEF AddToBuckets
<1> QED
    BY <1>1, <1>2

\* g[k] is the buckets after the first k of the entries s, for k up to n.
Filled(s, n, g) ==
    g = [k \in 0 .. n |-> IF k = 0 THEN <<>> ELSE AddToBuckets(g[k - 1], s[k])]

LEMMA FilledExists ==
    ASSUME NEW s, NEW n \in Nat
    PROVE  \E g : Filled(s, n, g)
<1> DEFINE H == {m \in -1 .. n : \E g : Filled(s, m, g)}
<1>1. -1 \in H
    <2>1. -1 \in -1 .. n /\ 0 .. -1 = {}
        OBVIOUS
    <2>2. Filled(s, -1, [k \in {} |-> <<>>])
        BY <2>1 DEF Filled
    <2> QED
        BY <2>1, <2>2
<1>2. ASSUME NEW m \in 0 .. n, m - 1 \in H PROVE m \in H
    <2>1. PICK g : Filled(s, m - 1, g)
        BY <1>2
    <2> DEFINE new == IF m = 0 THEN <<>> ELSE AddToBuckets(g[m - 1], s[m])
               e == [k \in 0 .. m |-> IF k = m THEN new ELSE g[k]]
               next(k) == IF k = 0 THEN <<>> ELSE AddToBuckets(e[k - 1], s[k])
    <2>2. \A k \in 0 .. m : k = m \/ k \in 0 .. (m - 1)
        OBVIOUS
    <2>3. e[m] = new /\ \A k \in 0 .. (m - 1) : e[k] = g[k]
        OBVIOUS
    <2> HIDE DEF e, new
    <2>4. ASSUME NEW k \in 0 .. m PROVE e[k] = next(k)
        <3>1. CASE k = m
            <4>1. m # 0 => m - 1 \in 0 .. (m - 1)
                OBVIOUS
            <4> QED
                BY <2>3, <3>1, <4>1 DEF new
        <3>2. CASE k # m
            <4>1. k \in 0 .. (m - 1) /\ (k # 0 => k - 1 \in 0 .. (m - 1))
                BY <2>2, <3>2
            <4>2. g[k] = IF k = 0 THEN <<>> ELSE AddToBuckets(g[k - 1], s[k])
                BY <2>1, <4>1 DEF Filled
            <4> QED
                BY <2>3, <4>1, <4>2
        <3> QED
            BY <3>1, <3>2
    <2>5. e = [k \in 0 .. m |-> next(k)]
        <3>1. e = [k \in 0 .. m |-> e[k]]
            BY DEF e
        <3> HIDE DEF next
        <3> QED
            BY <2>4, <3>1
    <2>6. Filled(s, m, e)
        BY <2>5 DEF Filled
    <2>7. m \in -1 .. n
        OBVIOUS
    <2> QED
        BY <2>6, <2>7
<1> HIDE DEF H
<1>3. n \in H
    <2>1. n \in Int /\ n >= -1
        OBVIOUS
    <2> QED
        BY <1>1, <1>2, <2>1, Climb
<1> QED
    BY <1>3 DEF H
Higher == {p \in Tx \X Tx : Rate[p[1]] > Rate[p[2]]}

LEMMA HighestRate ==
    ASSUME NEW S \in SUBSET Tx, IsFiniteSet(S), S # {}
    PROVE  \E m \in S : \A u \in S : Rate[u] <= Rate[m]
<1> DEFINE highest(T, m) == m \in T /\ \A u \in T : Rate[u] <= Rate[m]
           Good == {T \in SUBSET S : T = {} \/ \E m \in S : highest(T, m)}
<1>0. \A u \in S : Rate[u] \in Nat
    BY MempoolAssumption
<1>1. ASSUME NEW T \in SUBSET S, \A U \in SUBSET T : U # T => U \in Good
      PROVE  T \in Good
    <2>1. SUFFICES ASSUME T # {} PROVE \E m \in S : highest(T, m)
        OBVIOUS
    <2>2. PICK t \in T : TRUE
        BY <2>1
    <2>3. T \ {t} = {} \/ \E m \in S : highest(T \ {t}, m)
        <3>1. T \ {t} \in Good
            BY <1>1, <2>2
        <3> QED
            BY <3>1
    <2>4. CASE T \ {t} = {}
        <3>1. highest(T, t)
            BY <1>0, <2>2, <2>4
        <3> QED
            BY <2>2, <3>1
    <2>5. ASSUME NEW m \in S, highest(T \ {t}, m) PROVE \E x \in S : highest(T, x)
        <3>1. m \in T /\ \A u \in T : u = t \/ Rate[u] <= Rate[m]
            BY <2>5
        <3>2. CASE Rate[t] <= Rate[m]
            <4>1. highest(T, m)
                BY <3>1, <3>2
            <4> QED
                BY <4>1
        <3>3. CASE ~(Rate[t] <= Rate[m])
            <4>1. \A u \in T : Rate[u] <= Rate[t]
                BY <1>0, <2>2, <3>1, <3>3
            <4> QED
                BY <2>2, <4>1
        <3> QED
            BY <3>2, <3>3
    <2> QED
        BY <2>3, <2>4, <2>5
<1>2. \A T \in SUBSET S : (\A U \in SUBSET T : U # T => U \in Good) => T \in Good
    BY <1>1
<1> HIDE DEF Good
<1>3. S \in Good
    BY <1>2, SubsetInduction
<1> QED
    BY <1>3 DEF Good

LEMMA RatesOrdered ==
    ASSUME NEW S \in SUBSET Tx, IsFiniteSet(S)
    PROVE  Ordering(S, Higher, ByRate(S))
<1> DEFINE s == ByRate(S)
           sorts(x) == /\ x \in [1 .. Cardinality(S) -> S] /\ IsInjective(x)
                       /\ \A i, j \in DOMAIN x : i < j => ~(Rate[x[j]] > Rate[x[i]])
<1>1. PICK x : Ordering(S, Higher, x)
    <2>1. ASSUME NEW T \in SUBSET S, T # {}
          PROVE  \E m \in T : \A r \in T : <<r, m>> \notin Higher
        <3>1. PICK m \in T : \A u \in T : Rate[u] <= Rate[m]
            BY <2>1, FS_Subset, HighestRate
        <3>2. \A u \in T : Rate[u] \in Nat
            BY MempoolAssumption
        <3> QED
            BY <3>1, <3>2 DEF Higher
    <2> QED
        BY <2>1, OrderExists
<1>2. ASSUME NEW y PROVE Ordering(S, Higher, y) <=> sorts(y)
    <2>1. ASSUME y \in [1 .. Cardinality(S) -> S],
                 NEW i \in 1 .. Cardinality(S), NEW j \in 1 .. Cardinality(S)
          PROVE  <<y[j], y[i]>> \in Higher <=> Rate[y[j]] > Rate[y[i]]
        <3>1. y[i] \in Tx /\ y[j] \in Tx
            BY <2>1
        <3> QED
            BY <3>1 DEF Higher
    <2> QED
        BY <2>1 DEF Ordering
<1>3. sorts(x)
    BY <1>1, <1>2
<1>4. s = CHOOSE y \in [1 .. Cardinality(S) -> S] :
              /\ IsInjective(y)
              /\ \A i, j \in DOMAIN y : i < j => ~(Rate[y[j]] > Rate[y[i]])
    BY DEF ByRate, Sorted
<1> HIDE DEF s
<1>5. sorts(s)
    BY <1>3, <1>4
<1> QED
    BY <1>2, <1>5 DEF s

\* The entries one after another, each paying no more than those before it.
LEMMA FilledDescribes ==
    ASSUME NEW S \in SUBSET Tx, IsFiniteSet(S), NEW s, Ordering(S, Higher, s),
           NEW n \in Nat, n = Cardinality(S), NEW g, Filled(s, n, g)
    PROVE  Describes(S, g[n])
<1> DEFINE first(k) == {s[i] : i \in 1 .. k}
           H == {k \in -1 .. n : k = -1 \/ Describes(first(k), g[k])}
<1>1. /\ s \in [1 .. n -> S] /\ \A i, j \in 1 .. n : s[i] = s[j] => i = j
      /\ \A i, j \in 1 .. n : i < j => Rate[s[j]] <= Rate[s[i]]
    <2>1. s \in [1 .. n -> S] /\ \A i, j \in 1 .. n : s[i] = s[j] => i = j
        BY DEF Ordering, IsInjective
    <2>2. \A i, j \in 1 .. n : i < j => <<s[j], s[i]>> \notin Higher
        BY DEF Ordering
    <2>3. ASSUME NEW i \in 1 .. n, NEW j \in 1 .. n, i < j PROVE Rate[s[j]] <= Rate[s[i]]
        <3>1. s[i] \in Tx /\ s[j] \in Tx
            BY <2>1
        <3>2. Rate[s[i]] \in Nat /\ Rate[s[j]] \in Nat
            BY <3>1, MempoolAssumption
        <3>3. ~(Rate[s[j]] > Rate[s[i]])
            BY <2>2, <2>3, <3>1 DEF Higher
        <3> QED
            BY <3>2, <3>3
    <2> QED
        BY <2>1, <2>3
<1>2. /\ g[0] = <<>>
      /\ \A k \in 1 .. n : g[k] = AddToBuckets(g[k - 1], s[k])
    <2>1. \A k \in 0 .. n : g[k] = IF k = 0 THEN <<>> ELSE AddToBuckets(g[k - 1], s[k])
        BY DEF Filled
    <2>2. 0 \in 0 .. n /\ \A k \in 1 .. n : k \in 0 .. n /\ k # 0
        OBVIOUS
    <2> QED
        BY <2>1, <2>2
<1>3. Describes(first(0), g[0])
    <2>1. first(0) = {}
        OBVIOUS
    <2>2. Describes({}, <<>>)
        BY DEF Describes
    <2> QED
        BY <1>2, <2>1, <2>2
<1>4. ASSUME NEW k \in 0 .. n, k - 1 \in H PROVE k \in H
    <2>1. CASE k = 0
        BY <1>3, <2>1
    <2>2. CASE k # 0
        <3>1. k \in 1 .. n /\ k - 1 # -1 /\ k - 1 \in Nat /\ k \in -1 .. n
            BY <2>2
        <3>2. Describes(first(k - 1), g[k - 1])
            BY <1>4, <3>1
        <3>3. \A i \in 1 .. (k - 1) : i \in 1 .. n /\ i < k
            BY <3>1
        <3>4. first(k - 1) \in SUBSET S /\ s[k] \in S /\ s[k] \notin first(k - 1)
            BY <1>1, <3>1, <3>3
        <3>5. \A u \in first(k - 1) : Rate[s[k]] <= Rate[u]
            BY <1>1, <3>1, <3>3
        <3>6. first(k) = first(k - 1) \cup {s[k]}
            <4>1. \A i : i \in 1 .. k <=> i \in 1 .. (k - 1) \/ i = k
                BY <3>1
            <4> QED
                BY <4>1
        <3> HIDE DEF first
        <3>7. IsFiniteSet(first(k - 1))
            BY <3>4, FS_Subset
        <3>8. Describes(first(k - 1) \cup {s[k]}, AddToBuckets(g[k - 1], s[k]))
            BY <3>2, <3>4, <3>5, <3>7, AddDescribes
        <3> QED
            BY <1>2, <3>1, <3>6, <3>8
    <2> QED
        BY <2>1, <2>2
<1>5. -1 \in H
    OBVIOUS
<1> HIDE DEF H
<1>6. n \in H
    <2>1. n \in Int /\ n >= -1
        OBVIOUS
    <2> QED
        BY <1>4, <1>5, <2>1, Climb
<1>7. first(n) = S
    BY <1>1, OrderIsComplete
<1> HIDE DEF first
<1> QED
    BY <1>6, <1>7 DEF H

LEMMA HistogramFilled ==
    ASSUME NEW S \in SUBSET Tx, IsFiniteSet(S)
    PROVE  \E b : /\ Describes(S, b)
                  /\ FeeHistogram(S) = SubSeq(b, 1, IF Len(b) < MaxBuckets THEN Len(b)
                                                    ELSE MaxBuckets)
<1> DEFINE n == Cardinality(S)
           s == ByRate(S)
           g == CHOOSE x : Filled(s, n, x)
<1>1. n \in Nat
    BY FS_CardinalityType
<1>2. Filled(s, n, g)
    <2> HIDE DEF n, s
    <2> QED
        BY <1>1, FilledExists
<1>3. FeeHistogram(S) = SubSeq(g[n], 1, IF Len(g[n]) < MaxBuckets THEN Len(g[n])
                                        ELSE MaxBuckets)
    BY DEF FeeHistogram, Filled
<1>4. Ordering(S, Higher, s)
    BY RatesOrdered
<1> HIDE DEF g, s
<1>5. Describes(S, g[n])
    BY <1>1, <1>2, <1>4, FilledDescribes
<1> QED
    BY <1>3, <1>5
\* What HistogramDescribesPool says of a histogram and the transactions S.
Fits(S, h) ==
    LET Held(i) == {t \in S : Rate[t] <= h[i][1] /\ h[i][1] - Rate[t] < BucketWidth}
        held == UNION {Held(i) : i \in DOMAIN h}
    IN /\ h \in Seq(Nat \X Nat) /\ Len(h) <= MaxBuckets
       /\ \A i \in DOMAIN h :
            /\ h[i][2] = SumOf(Keep(TxSize, Held(i)))
            /\ \A j \in 1 .. (i - 1) : h[j][1] - h[i][1] >= BucketWidth
       /\ \A t \in S \ held : Len(h) = MaxBuckets /\ \A u \in held : Rate[t] < Rate[u]

\* The buckets that are cut off held what pays less.
LEMMA HistogramFits ==
    ASSUME NEW S \in SUBSET Tx, IsFiniteSet(S)
    PROVE  Fits(S, FeeHistogram(S))
<1>1. PICK b : /\ Describes(S, b)
               /\ FeeHistogram(S) = SubSeq(b, 1, IF Len(b) < MaxBuckets THEN Len(b)
                                                 ELSE MaxBuckets)
    BY HistogramFilled
<1> DEFINE n == Len(b)
           k == IF n < MaxBuckets THEN n ELSE MaxBuckets
           h == SubSeq(b, 1, k)
           r(i) == b[i][1]
<1>2. b \in Seq(Nat \X Nat) /\ n \in Nat /\ MaxBuckets \in Nat /\ BucketWidth \in Nat
    BY <1>1, MempoolAssumption DEF Describes
<1>3. k \in 0 .. n /\ k <= MaxBuckets /\ (k # n => k = MaxBuckets)
    BY <1>2
<1> HIDE DEF k
<1>4. h \in Seq(Nat \X Nat) /\ Len(h) = k /\ DOMAIN h = 1 .. k
      /\ \A i \in 1 .. k : h[i] = b[i]
    BY <1>2, <1>3, SMTT(30)
<1>5. \A i \in 1 .. k : i \in 1 .. n
    BY <1>2, <1>3
<1>6. \A i \in 1 .. n : b[i] \in Nat \X Nat /\ r(i) \in Nat
    <2>1. \A i \in 1 .. n : b[i] \in Nat \X Nat
        BY <1>2
    <2> QED
        BY <2>1
<1>7. /\ \A i \in 1 .. n : b[i][2] = SizeOf(HeldIn(S, r(i)))
      /\ \A i \in 1 .. n : \A j \in 1 .. (i - 1) : r(j) - r(i) >= BucketWidth
      /\ \A t \in S : \E i \in 1 .. n : t \in HeldIn(S, r(i))
    BY <1>1 DEF Describes
<1> HIDE DEF h, n
<1> DEFINE Held(i) == {t \in S : Rate[t] <= h[i][1] /\ h[i][1] - Rate[t] < BucketWidth}
           held == UNION {Held(i) : i \in DOMAIN h}
<1>8. \A i \in 1 .. k : Held(i) = HeldIn(S, r(i))
    BY <1>4 DEF HeldIn
<1>9. ASSUME NEW i \in 1 .. k
      PROVE  /\ h[i][2] = SumOf(Keep(TxSize, Held(i)))
             /\ \A j \in 1 .. (i - 1) : h[j][1] - h[i][1] >= BucketWidth
    <2>1. h[i][2] = SumOf(Keep(TxSize, Held(i)))
        <3>1. h[i][2] = SizeOf(HeldIn(S, r(i)))
            BY <1>4, <1>5, <1>7
        <3> QED
            BY <1>8, <3>1 DEF SizeOf
    <2>2. ASSUME NEW j \in 1 .. (i - 1) PROVE h[j][1] - h[i][1] >= BucketWidth
        <3>1. j \in 1 .. k
            BY <1>3
        <3>2. h[j][1] = r(j) /\ h[i][1] = r(i)
            BY <1>4, <3>1
        <3>3. r(j) - r(i) >= BucketWidth
            BY <1>5, <1>7
        <3> HIDE DEF r
        <3> QED
            BY <3>2, <3>3
    <2> QED
        BY <2>1, <2>2
<1>10. ASSUME NEW t \in S, t \notin held
       PROVE  k = MaxBuckets /\ \A u \in held : Rate[t] < Rate[u]
    <2>1. PICK i \in 1 .. n : t \in HeldIn(S, r(i))
        BY <1>7
    <2>2. i \notin 1 .. k
        <3>1. SUFFICES ASSUME i \in 1 .. k PROVE FALSE
            OBVIOUS
        <3>2. t \in Held(i)
            BY ONLY <1>8, <2>1, <3>1
        <3>3. i \in DOMAIN h
            BY <1>4, <3>1
        <3> HIDE DEF Held
        <3>4. t \in held
            BY ONLY <3>2, <3>3 DEF held
        <3> QED
            BY ONLY <1>10, <3>4
    <2>3. k \in Nat /\ i \in Nat /\ k < i /\ k # n
        BY <1>2, <1>3, <2>2
    <2>4. ASSUME NEW u \in held PROVE Rate[t] < Rate[u]
        <3>1. PICK j \in 1 .. k : u \in HeldIn(S, r(j))
            BY <1>4, <1>8
        <3>2. j \in 1 .. (i - 1) /\ j \in 1 .. n
            BY <1>5, <2>3
        <3>3. r(j) - r(i) >= BucketWidth /\ r(j) \in Nat /\ r(i) \in Nat
            BY <1>6, <1>7, <3>2
        <3>4. Rate[t] <= r(i) /\ r(j) - Rate[u] < BucketWidth /\ t \in Tx /\ u \in Tx
            BY <2>1, <3>1 DEF HeldIn
        <3>5. Rate[t] \in Nat /\ Rate[u] \in Nat
            BY <3>4, MempoolAssumption
        <3> HIDE DEF r
        <3> QED
            BY <1>2, <3>3, <3>4, <3>5
    <2> QED
        BY <1>3, <2>3, <2>4
<1> HIDE DEF Held, r
<1>11. Fits(S, h)
    BY <1>3, <1>4, <1>9, <1>10 DEF Fits, Held
<1> QED
    BY <1>1, <1>11 DEF h, k, n

\* The histogram is that of the tracked transactions, which are finitely many,
\* as all lists are from which they come.
HistogramInv ==
    /\ IsFiniteSet(nodePool) /\ IsFiniteSet(answer)
    /\ IsFiniteSet(tracked) /\ IsFiniteSet(todo)
    /\ pc # "fetch" => histogram = FeeHistogram(tracked)

LEMMA HistogramInit == Init => HistogramInv
<1> SUFFICES ASSUME Init PROVE HistogramInv
    OBVIOUS
<1>1. FeeHistogram({}) = <<>>
    <2>1. PICK b : /\ Describes({}, b)
                   /\ FeeHistogram({}) = SubSeq(b, 1, IF Len(b) < MaxBuckets THEN Len(b)
                                                      ELSE MaxBuckets)
        BY FS_EmptySet, HistogramFilled
    <2>2. b \in Seq(Nat \X Nat) /\ \A i \in 1 .. Len(b) : FALSE
        BY <2>1 DEF Describes
    <2>3. Len(b) = 0 /\ b = <<>>
        BY <2>2
    <2>4. SubSeq(b, 1, 0) = <<>> /\ MaxBuckets \in Nat
        BY <2>2, MempoolAssumption
    <2> QED
        BY <2>1, <2>3, <2>4
<1>2. IsFiniteSet({}) /\ IsFiniteSet(nodePool)
    BY FS_EmptySet DEF Init
<1> QED
    BY <1>1, <1>2 DEF Init, HistogramInv

\* A poll ends with the histogram of what it has.
LEMMA ProceedHistogram ==
    ASSUME NEW rest, NEW pool, NEW touched, Proceed(rest, pool, touched),
           IsFiniteSet(rest), IsFiniteSet(pool)
    PROVE  /\ IsFiniteSet(tracked') /\ IsFiniteSet(todo')
           /\ pc' # "fetch" => histogram' = FeeHistogram(tracked')
    BY DEF Proceed

LEMMA HistogramNext ==
    ASSUME TypeOK, HistogramInv, [Next]_vars
    PROVE  HistogramInv'
<1>1. /\ IsFiniteSet(nodePool) /\ IsFiniteSet(answer)
      /\ IsFiniteSet(tracked) /\ IsFiniteSet(todo)
    BY DEF HistogramInv
<1>2. CASE PollAsks \/ CallbackOver \/ UNCHANGED vars
    BY <1>1, <1>2 DEF PollAsks, CallbackOver, vars, HistogramInv
<1>3. CASE NodeMempool
    <2>1. PICK t \in Tx : nodePool' \in {nodePool \cup {t}, nodePool \ {t}}
        BY <1>3 DEF NodeMempool
    <2>2. IsFiniteSet(nodePool \cup {t}) /\ IsFiniteSet(nodePool \ {t})
        BY <1>1, FS_AddElement, FS_RemoveElement
    <2> QED
        BY <1>1, <1>3, <2>1, <2>2 DEF NodeMempool, HistogramInv
<1>4. CASE Poll
    <2> DEFINE rest == answer \ tracked
               pool == tracked \ (tracked \ answer)
               touched == TouchedBy(tracked \ answer)
    <2>1. Proceed(rest, pool, touched) /\ nodePool' = nodePool /\ answer' = {}
        BY <1>4 DEF Poll, PollFor
    <2>2. IsFiniteSet(rest) /\ IsFiniteSet(pool) /\ IsFiniteSet({})
        BY <1>1, FS_Subset, FS_EmptySet
    <2> HIDE DEF rest, pool, touched
    <2> QED
        BY <1>1, <2>1, <2>2, ProceedHistogram DEF HistogramInv
<1>5. ASSUME NEW t \in todo, Fetched(t) \/ FetchFails(t)
      PROVE  HistogramInv'
    <2> DEFINE rest == todo \ {t}
               more == tracked \cup {t}
               touched == affected \cup Scripts(t)
    <2>1. /\ Proceed(rest, more, touched) \/ Proceed(rest, tracked, affected)
          /\ nodePool' = nodePool /\ answer' = answer
        BY <1>5 DEF Fetched, FetchFails
    <2>2. IsFiniteSet(rest) /\ IsFiniteSet(more)
        BY <1>1, FS_Subset, FS_AddElement
    <2> HIDE DEF rest, more, touched
    <2> QED
        BY <1>1, <2>1, <2>2, ProceedHistogram DEF HistogramInv
<1> QED
    BY <1>2, <1>3, <1>4, <1>5 DEF Next, Work, Fault

\* Every step of the others is one of the tracker and its node, or none.
LEMMA WalletSteps ==
    ASSUME [WalletNext]_allVars
    PROVE  [Next]_vars
<1>1. CASE (\E t \in Minable : Ask(t)) \/ Reply \/ Index \/ UNCHANGED allVars
    BY <1>1 DEF Ask, Reply, Index, allVars
<1>2. CASE Track
    BY <1>2 DEF Track, Next, Work, Fault
<1>3. CASE NodeRelays
    BY <1>3 DEF NodeRelays, Next
<1>4. ASSUME NEW t \in Minable, NodeMines(t) \/ NodeUnmines(t) PROVE [Next]_vars
    <2>1. t \in Tx
        BY WalletAssumption
    <2>2. UNCHANGED <<tracked, deltas, histogram, pc, todo, affected, answer, reported>>
        BY <1>4 DEF NodeMines, NodeUnmines
    <2>3. nodePool' = nodePool \/ nodePool' \in {nodePool \cup {t}, nodePool \ {t}}
        BY <1>4 DEF NodeMines, NodeUnmines
    <2> QED
        BY <2>1, <2>2, <2>3 DEF Next, NodeMempool, vars
<1> QED
    BY <1>1, <1>2, <1>3, <1>4 DEF WalletNext

\* Between polls the fee histogram accounts for every tracked transaction once,
\* in the bucket of its rate, or leaves it out for want of buckets.
THEOREM HistogramIsExact == WalletSpec => []HistogramDescribesPool
<1>1. WalletInit => HistogramInv
    BY HistogramInit DEF WalletInit
<1>2. WalletInv /\ HistogramInv /\ [WalletNext]_allVars => HistogramInv'
    BY WalletSteps, HistogramNext DEF WalletInv, TrackerInv
<1>3. WalletInv /\ HistogramInv => HistogramDescribesPool
    <2> SUFFICES ASSUME WalletInv, HistogramInv, pc # "fetch"
                 PROVE  Fits(tracked, histogram)
        BY DEF HistogramDescribesPool, Fits
    <2>1. tracked \in SUBSET Tx
        BY DEF WalletInv, TrackerInv, TypeOK
    <2>2. IsFiniteSet(tracked) /\ histogram = FeeHistogram(tracked)
        BY DEF HistogramInv
    <2> QED
        BY <2>1, <2>2, HistogramFits
<1> QED
    BY WalletHolds, <1>1, <1>2, <1>3, PTL DEF WalletSpec
=============================================================================
