------------------------- MODULE IndexAnswersProofs -------------------------
(* What the handlers make of the tables: the order of a history and the sum  *)
(* of a balance.  Both range over sets of rows of any finite size, and both  *)
(* follow what Grown says of the linked blocks, one block at a time.         *)
EXTENDS IndexQueriesProofs, FiniteSetTheorems

-----------------------------------------------------------------------------
(* Positions.                                                                *)

\* The positions of the i-th transaction of a block.
Slot(i) == i * OutStride .. i * OutStride + OutStride - 1

\* A finite history whose rows stand in the slots of their transactions, which
\* differ within a block.
Placed(d) ==
    /\ IsFiniteSet(DOMAIN d.history)
    /\ \A t \in OnChain(d.blocks) : d.txs[t].index \in Nat
    /\ \A t, u \in OnChain(d.blocks) :
          d.txs[t].height = d.txs[u].height /\ d.txs[t].index = d.txs[u].index => t = u
    /\ \A r \in DOMAIN d.history :
          r = <<r[1], r[2], r[3]>> /\ r[3] \in Slot(d.txs[r[2]].index)

LEMMA SlotsApart ==
    ASSUME NEW i \in Nat, NEW x \in Slot(i)
    PROVE  x \in Nat /\ \A j \in Nat : \A y \in Slot(j) : i < j => x < y
<1>1. OutStride \in Nat
    BY TablesAssumption
<1>2. i * OutStride \in Nat
    BY <1>1
<1>3. x \in Int /\ i * OutStride <= x /\ x <= i * OutStride + OutStride - 1
    BY <1>1, <1>2 DEF Slot
<1>4. ASSUME NEW j \in Nat, NEW y \in Slot(j), i < j PROVE x < y
    <2>1. j * OutStride \in Nat
        BY <1>1
    <2>2. y \in Int /\ j * OutStride <= y
        BY <1>1, <2>1 DEF Slot
    <2>3. i * OutStride + OutStride <= j * OutStride
        <3>1. PICK n \in Nat : j = i + 1 + n
            <4>1. j - i - 1 \in Nat /\ j = i + 1 + (j - i - 1)
                BY <1>4
            <4> QED
                BY <4>1
        <3>2. j * OutStride = i * OutStride + OutStride + n * OutStride
            BY <1>1, <3>1
        <3>3. n * OutStride \in Nat
            BY <1>1
        <3> QED
            BY <1>1, <1>2, <3>2, <3>3
    <2> QED
        BY <1>1, <1>2, <1>3, <2>1, <2>2, <2>3
<1> QED
    BY <1>1, <1>2, <1>3, <1>4

\* A block numbers its transactions.
LEMMA IndexIsPosition ==
    ASSUME NEW chain, NEW b \in Blocks, ValidNext(chain, b)
    PROVE  /\ \A t \in InBlock(b) : IndexOf(b, t) \in DOMAIN b /\ b[IndexOf(b, t)] = t
           /\ \A i \in DOMAIN b : IndexOf(b, b[i]) = i
<1>1. \A t \in InBlock(b) : IndexOf(b, t) \in DOMAIN b /\ b[IndexOf(b, t)] = t
    BY DEF InBlock, IndexOf
<1>2. \A i, j \in DOMAIN b : b[i] = b[j] => i = j
    BY DEF ValidNext
<1> QED
    BY <1>1, <1>2 DEF InBlock

\* The new rows stand in the slots of their transactions.
LEMMA NewKeysPlaced ==
    ASSUME PositionsFit, NEW chain, NEW b \in Blocks, ValidNext(chain, b), NEW w,
           NEW r \in NewKeys(w, b)
    PROVE  r = <<r[1], r[2], r[3]>> /\ r[3] \in Slot(IndexOf(b, r[2]))
<1>0. OutStride \in Nat /\ SpendOffset \in Nat /\ DOMAIN b \subseteq Nat
    BY TablesAssumption, Blocked
<1>1. ASSUME NEW o \in Created(b), r = OutputKey(b, o)
      PROVE  r = <<r[1], r[2], r[3]>> /\ r[3] \in Slot(IndexOf(b, r[2]))
    <2>1. PICK t \in InBlock(b) : \E v \in DOMAIN Outputs[t] : o = <<t, v>>
        BY CreatedIsParsed, InParsed
    <2>2. PICK v \in DOMAIN Outputs[t] : o = <<t, v>>
        BY <2>1
    <2>3. t \in Tx
        BY Blocked
    <2>4. v \in 0 .. OutStride - 1
        BY <2>3 DEF PositionsFit
    <2> DEFINE i == IndexOf(b, t)
    <2>5. i \in Nat
        BY <1>0, IndexIsPosition
    <2>6. r = <<Outputs[t][v].sh, t, i * OutStride + v>>
        BY <1>1, <2>2 DEF OutputKey, OutputPos
    <2> HIDE DEF i
    <2>7. i * OutStride \in Nat
        BY <1>0, <2>5
    <2>8. i * OutStride + v \in Slot(i)
        BY <1>0, <2>4, <2>7 DEF Slot
    <2> QED
        BY <2>6, <2>8 DEF i
<1>2. ASSUME NEW s \in Spends(w, b), r = SpendKey(w, b, s)
      PROVE  r = <<r[1], r[2], r[3]>> /\ r[3] \in Slot(IndexOf(b, r[2]))
    <2>1. PICK i \in DOMAIN b \ {0} : \E k \in DOMAIN Inputs[b[i]] : s = <<i, k>>
        BY InSpends
    <2>2. PICK k \in DOMAIN Inputs[b[i]] : s = <<i, k>>
        BY <2>1
    <2>3. b[i] \in Tx /\ i \in Nat /\ IndexOf(b, b[i]) = i
        BY <1>0, Blocked, IndexIsPosition
    <2>4. k \in 0 .. OutStride - SpendOffset - 1
        BY <2>3 DEF PositionsFit
    <2>5. r = <<r[1], b[i], i * OutStride + SpendOffset + k>>
        BY <1>2, <2>2 DEF SpendKey, SpendPos
    <2>6. i * OutStride \in Nat
        BY <1>0, <2>3
    <2>7. i * OutStride + SpendOffset + k \in Slot(i)
        BY <1>0, <2>4, <2>6 DEF Slot
    <2> QED
        BY <2>3, <2>5, <2>7
<1> QED
    BY <1>1, <1>2 DEF NewKeys

LEMMA ImageIsFinite ==
    ASSUME NEW S, IsFiniteSet(S), NEW g, g = [x \in S |-> g[x]]
    PROVE  IsFiniteSet({g[x] : x \in S})
<1> DEFINE T == {g[x] : x \in S}
<1>1. g \in Surjection(S, T)
    BY DEF Surjection
<1> QED
    BY <1>1, FS_Surjection

LEMMA PairsAreFinite ==
    ASSUME NEW K, IsFiniteSet(K), NEW x
    PROVE  IsFiniteSet({<<x, k>> : k \in K})
<1> DEFINE g == [k \in K |-> <<x, k>>]
<1>1. IsFiniteSet({g[k] : k \in K})
    BY ImageIsFinite
<1> QED
    BY <1>1

\* A block has finitely many outputs and inputs, and so adds finitely many rows.
LEMMA BlockIsFinite ==
    ASSUME NEW b \in Blocks, NEW d
    PROVE  /\ IsFiniteSet(InBlock(b)) /\ IsFiniteSet(OutpointsOf(InBlock(b)))
           /\ IsFiniteSet(Created(b)) /\ IsFiniteSet(Spends(d, b))
           /\ IsFiniteSet(NewKeys(d, b))
<1>1. IsFiniteSet(DOMAIN b) /\ InBlock(b) \subseteq Tx /\ \A i \in DOMAIN b : b[i] \in Tx
    BY LedgerAssumption, Blocked
<1>2. IsFiniteSet(InBlock(b))
    <2>1. b = [i \in DOMAIN b |-> b[i]]
        BY Blocked
    <2> QED
        BY <1>1, <2>1, ImageIsFinite DEF InBlock
<1>3. \A t \in Tx : IsFiniteSet(DOMAIN Outputs[t]) /\ IsFiniteSet(DOMAIN Inputs[t])
    BY LedgerAssumption
<1>4. ASSUME NEW t \in Tx PROVE IsFiniteSet({<<t, v>> : v \in DOMAIN Outputs[t]})
    BY <1>3, PairsAreFinite
<1>5. IsFiniteSet(OutpointsOf(InBlock(b)))
    <2> DEFINE lists == {{<<t, v>> : v \in DOMAIN Outputs[t]} : t \in InBlock(b)}
               g == [t \in InBlock(b) |-> {<<t, v>> : v \in DOMAIN Outputs[t]}]
    <2>1. IsFiniteSet(lists)
        <3>1. IsFiniteSet({g[t] : t \in InBlock(b)})
            BY <1>2, ImageIsFinite
        <3> QED
            BY <3>1
    <2>2. \A T \in lists : IsFiniteSet(T)
        BY <1>1, <1>4
    <2>3. IsFiniteSet(UNION lists)
        <3> HIDE DEF lists
        <3> QED
            BY <2>1, <2>2, FS_UNION
    <2> QED
        BY <2>3 DEF OutpointsOf
<1>6. IsFiniteSet(Created(b))
    <2>1. Created(b) \subseteq OutpointsOf(InBlock(b))
        BY CreatedIsParsed DEF Parsed
    <2> QED
        BY <1>5, <2>1, FS_Subset
<1>7. ASSUME NEW i \in DOMAIN b
      PROVE  IsFiniteSet({<<i, k>> : k \in DOMAIN Inputs[b[i]]})
    <2>1. IsFiniteSet(DOMAIN Inputs[b[i]])
        BY <1>1, <1>3
    <2> QED
        BY <2>1, PairsAreFinite
<1>8. IsFiniteSet(Spends(d, b))
    <2> DEFINE lists == {{<<i, k>> : k \in DOMAIN Inputs[b[i]]} : i \in DOMAIN b}
               g == [i \in DOMAIN b |-> {<<i, k>> : k \in DOMAIN Inputs[b[i]]}]
    <2>1. IsFiniteSet(lists)
        <3>1. IsFiniteSet({g[i] : i \in DOMAIN b})
            BY <1>1, ImageIsFinite
        <3> QED
            BY <3>1
    <2>2. \A T \in lists : IsFiniteSet(T)
        BY <1>7
    <2>3. IsFiniteSet(UNION lists)
        <3> HIDE DEF lists
        <3> QED
            BY <2>1, <2>2, FS_UNION
    <2>4. ASSUME NEW s \in Spends(d, b) PROVE s \in UNION lists
        <3>1. PICK i \in DOMAIN b \ {0} : \E k \in DOMAIN Inputs[b[i]] : s = <<i, k>>
            BY InSpends
        <3>2. s \in {<<i, k>> : k \in DOMAIN Inputs[b[i]]}
            BY <3>1
        <3> QED
            BY <3>2
    <2>5. Spends(d, b) \in SUBSET UNION lists
        BY <2>4
    <2> QED
        BY <2>3, <2>5, FS_Subset
<1>9. IsFiniteSet({OutputKey(b, o) : o \in Created(b)})
    <2> DEFINE g == [o \in Created(b) |-> OutputKey(b, o)]
    <2>1. IsFiniteSet({g[o] : o \in Created(b)})
        BY <1>6, ImageIsFinite
    <2> QED
        BY <2>1
<1>10. IsFiniteSet({SpendKey(d, b, s) : s \in Spends(d, b)})
    <2> DEFINE g == [s \in Spends(d, b) |-> SpendKey(d, b, s)]
    <2>1. IsFiniteSet({g[s] : s \in Spends(d, b)})
        BY <1>8, ImageIsFinite
    <2> QED
        BY <2>1
<1>11. IsFiniteSet(NewKeys(d, b))
    BY <1>9, <1>10, FS_Union DEF NewKeys
<1> QED
    BY <1>2, <1>5, <1>6, <1>8, <1>11

LEMMA NextPlaced ==
    ASSUME PositionsFit, NEW d, Sound(d), Placed(d), NEW b \in Blocks, ValidNext(d.blocks, b),
           NEW w \in Views(d, b), NEW e, e = Index(w, d.meta + 1, b)
    PROVE  Placed(e)
<1>1. HistoryExtends(d, w, b, e)
    BY NextHistoryRows
<1>2. OnChain(e.blocks) = OnChain(d.blocks) \cup InBlock(b) /\ e.meta = d.meta + 1
    BY NextChain DEF Sound
<1>3. /\ \A t \in OnChain(d.blocks) : e.txs[t] = d.txs[t] /\ d.txs[t].height \in 0 .. d.meta
      /\ \A t \in InBlock(b) : e.txs[t].height = e.meta
    <2>1. /\ \A t \in OnChain(d.blocks) : e.txs[t] = d.txs[t]
          /\ \A t \in InBlock(b) : e.txs[t].height = e.meta
        BY NextTxs
    <2>2. \A t \in OnChain(d.blocks) : d.txs[t].height \in 0 .. d.meta
        BY DEF Sound, TxPart
    <2> QED
        BY <2>1, <2>2
<1>4. d.meta \in Int /\ DOMAIN b \subseteq Nat
    BY Blocked DEF Sound, ChainPart
<1>5. \A t \in InBlock(b) : e.txs[t].index = IndexOf(b, t)
    <2>1. e.txs = Upsert(d.txs, [t \in InBlock(b) |->
                     [block |-> b, height |-> d.meta + 1, index |-> IndexOf(b, t)]])
        <3>1. e.txs = Upsert(w.txs, [t \in InBlock(b) |->
                         [block |-> b, height |-> d.meta + 1, index |-> IndexOf(b, t)]])
            BY DEF Index
        <3> QED
            BY <3>1, ViewFields DEF Sound
    <2> QED
        BY <2>1 DEF Upsert
<1>6. \A t \in InBlock(b) : IndexOf(b, t) \in Nat /\ b[IndexOf(b, t)] = t
    BY <1>4, IndexIsPosition
<1>7. IsFiniteSet(DOMAIN e.history)
    <2>1. DOMAIN e.history = DOMAIN d.history \cup NewKeys(w, b)
        BY <1>1 DEF HistoryExtends
    <2>2. IsFiniteSet(DOMAIN d.history) /\ IsFiniteSet(NewKeys(w, b))
        BY BlockIsFinite DEF Placed
    <2> QED
        BY <2>1, <2>2, FS_Union
<1>8. \A t \in OnChain(e.blocks) : e.txs[t].index \in Nat
    BY <1>2, <1>3, <1>5, <1>6 DEF Placed
<1>9. ASSUME NEW t \in OnChain(e.blocks), NEW u \in OnChain(e.blocks),
             e.txs[t].height = e.txs[u].height, e.txs[t].index = e.txs[u].index
      PROVE  t = u
    <2>1. CASE t \in OnChain(d.blocks) /\ u \in OnChain(d.blocks)
        BY <1>3, <1>9, <2>1 DEF Placed
    <2>2. CASE t \in InBlock(b) /\ u \in InBlock(b)
        BY <1>5, <1>6, <1>9, <2>2
    <2>3. CASE t \in OnChain(d.blocks) /\ u \in InBlock(b)
        BY <1>2, <1>3, <1>4, <1>9, <2>3
    <2>4. CASE t \in InBlock(b) /\ u \in OnChain(d.blocks)
        BY <1>2, <1>3, <1>4, <1>9, <2>4
    <2> QED
        BY <1>2, <2>1, <2>2, <2>3, <2>4
<1>10. ASSUME NEW r \in DOMAIN e.history
       PROVE  r = <<r[1], r[2], r[3]>> /\ r[3] \in Slot(e.txs[r[2]].index)
    <2>1. CASE r \in DOMAIN d.history
        <3>1. r[2] \in OnChain(d.blocks)
            BY <2>1 DEF Sound, HistoryPart
        <3> QED
            BY <1>3, <2>1, <3>1 DEF Placed
    <2>2. CASE r \in NewKeys(w, b)
        <3>1. r[2] \in InBlock(b)
            BY <2>2, NewKeysTyped
        <3> QED
            BY <1>5, <2>2, <3>1, NewKeysPlaced
    <2> QED
        BY <1>1, <2>1, <2>2 DEF HistoryExtends
<1> QED
    BY <1>7, <1>8, <1>9, <1>10 DEF Placed

LEMMA EmptyPlaced == Placed(EmptyDb)
<1>1. EmptyDb.history = EmptyRows /\ DOMAIN EmptyRows = {} /\ EmptyDb.blocks = EmptyRows
    BY DEF EmptyDb, EmptyRows
<1>2. OnChain(EmptyDb.blocks) = {}
    BY <1>1 DEF OnChain
<1> QED
    BY <1>1, <1>2, FS_EmptySet DEF Placed

\* What one block keeps, the tables below every height keep.
LEMMA GrownSteps ==
    ASSUME NEW d, NEW n, NEW T, Grown(d, n, T), NEW k \in 0 .. n - 1
    PROVE  LET p == Below(d, k)
               b == d.blocks[k]
           IN /\ Sound(p) /\ b \in Blocks /\ ValidNext(p.blocks, b)
              /\ View(p, b, T) \in Views(p, b)
              /\ Below(d, k + 1) = Index(View(p, b, T), p.meta + 1, b)
<1> DEFINE p == Below(d, k)
           q == Below(d, k + 1)
           b == d.blocks[k]
<1>1. k \in Nat /\ k \in 0 .. n
    BY DEF Grown
<1>2. Sound(p) /\ b \in Blocks /\ ValidNext(p.blocks, b) /\ q = Stored(p, k, b, T)
    BY <1>1 DEF Grown
<1>3. p.meta = k - 1
    BY <1>1, <1>2, BelowChain
<1> HIDE DEF p, q, b
<1>4. p.meta + 1 = k /\ q = Stored(p, p.meta + 1, b, T)
    BY <1>1, <1>2, <1>3
<1>5. View(p, b, T) \in Views(p, b) /\ q = Index(View(p, b, T), p.meta + 1, b)
    BY <1>2, <1>4, StoredIsIndexed
<1> QED
    BY <1>2, <1>5 DEF p, q, b

LEMMA GrownPlaced ==
    ASSUME PositionsFit, NEW d, NEW n, NEW T, Grown(d, n, T)
    PROVE  Placed(Below(d, n))
<1> DEFINE H == {k \in -1 .. n - 1 : Placed(Below(d, k + 1))}
<1>1. n \in Nat /\ n - 1 \in Int /\ n - 1 >= -1 /\ (n - 1) + 1 = n /\ -1 + 1 = 0
    BY DEF Grown
<1>2. -1 \in H
    BY <1>1, EmptyPlaced DEF Grown
<1>3. ASSUME NEW k \in 0 .. n - 1, k - 1 \in H PROVE k \in H
    <2>1. Placed(Below(d, k)) /\ k \in -1 .. n - 1
        <3>1. (k - 1) + 1 = k
            BY <1>1
        <3> QED
            BY <1>1, <1>3, <3>1
    <2>2. Placed(Below(d, k + 1))
        BY <2>1, GrownSteps, NextPlaced
    <2> QED
        BY <2>1, <2>2
<1> HIDE DEF H
<1>4. n - 1 \in H
    BY <1>1, <1>2, <1>3, Climb
<1> QED
    BY <1>1, <1>4 DEF H

-----------------------------------------------------------------------------
(* ORDER BY.                                                                 *)

Numbered(rows, S) == \A r \in S : rows[r].height \in Nat /\ r[3] \in Nat

LEMMA FirstRow ==
    ASSUME NEW rows, NEW S, S # {}, Numbered(rows, S)
    PROVE  \E m \in S : \A r \in S : ~Before(rows, r, m)
<1> DEFINE heights == {rows[r].height : r \in S}
<1>1. PICK h \in heights : \A k \in heights : h <= k
    <2>1. heights \in SUBSET Nat /\ heights # {}
        BY DEF Numbered
    <2> HIDE DEF heights
    <2> QED
        BY <2>1, LeastNatural
<1>2. /\ \A r \in S : rows[r].height \in Nat /\ h <= rows[r].height
      /\ \E r \in S : rows[r].height = h
    BY <1>1 DEF Numbered
<1> DEFINE places == {r[3] : r \in {q \in S : rows[q].height = h}}
<1>3. PICK p \in places : \A k \in places : p <= k
    <2>1. places \in SUBSET Nat /\ places # {}
        BY <1>2 DEF Numbered
    <2> HIDE DEF places
    <2> QED
        BY <2>1, LeastNatural
<1>4. PICK m \in S : rows[m].height = h /\ m[3] = p
    BY <1>3
<1>5. ASSUME NEW r \in S, Before(rows, r, m) PROVE FALSE
    <2>1. rows[r].height \in Nat /\ h \in Nat /\ p \in Nat /\ r[3] \in Nat /\ h <= rows[r].height
        BY <1>2, <1>4 DEF Numbered
    <2>2. rows[r].height = h /\ r[3] < p
        BY <1>4, <1>5, <2>1 DEF Before
    <2>3. r[3] \in places
        BY <2>2
    <2> HIDE DEF places
    <2>4. p <= r[3]
        BY <1>3, <2>3
    <2> QED
        BY <2>1, <2>2, <2>4
<1> QED
    BY <1>5

\* Which rows come before which, as a set of pairs.
Earlier(rows) ==
    {p \in (DOMAIN rows) \X (DOMAIN rows) : Before(rows, p[1], p[2])}

\* The rows that give a transaction its place in the list.
FirstRows(rows) ==
    {r \in DOMAIN rows : \A q \in DOMAIN rows : q[2] = r[2] => ~Before(rows, q, r)}

LEMMA InOrderIsOrdering ==
    ASSUME NEW rows, IsFiniteSet(DOMAIN rows), Numbered(rows, DOMAIN rows)
    PROVE  \E s : /\ Ordering(FirstRows(rows), Earlier(rows), s)
                  /\ InOrder(rows) = [i \in 1 .. Cardinality(FirstRows(rows)) |->
                                        <<s[i][2], rows[s[i]].height>>]
<1> DEFINE first == FirstRows(rows)
           s == CHOOSE x \in [1 .. Cardinality(first) -> first] :
                   /\ IsInjective(x)
                   /\ \A i, j \in DOMAIN x : i < j => ~Before(rows, x[j], x[i])
<1>0. first \subseteq DOMAIN rows
    BY DEF FirstRows
<1> HIDE DEF first
<1>1. PICK x : Ordering(first, Earlier(rows), x)
    <2>1. IsFiniteSet(first)
        BY <1>0, FS_Subset
    <2>2. ASSUME NEW T \in SUBSET first, T # {}
          PROVE  \E m \in T : \A r \in T : <<r, m>> \notin Earlier(rows)
        <3>1. Numbered(rows, T)
            BY <1>0 DEF Numbered
        <3>2. \E m \in T : \A r \in T : ~Before(rows, r, m)
            BY <2>2, <3>1, FirstRow
        <3> QED
            BY <3>2 DEF Earlier
    <2> QED
        BY <2>1, <2>2, OrderExists
<1>2. ASSUME NEW y
      PROVE  Ordering(first, Earlier(rows), y) <=>
                /\ y \in [1 .. Cardinality(first) -> first] /\ IsInjective(y)
                /\ \A i, j \in DOMAIN y : i < j => ~Before(rows, y[j], y[i])
    <2>1. ASSUME y \in [1 .. Cardinality(first) -> first],
                 NEW i \in 1 .. Cardinality(first), NEW j \in 1 .. Cardinality(first)
          PROVE  <<y[j], y[i]>> \in Earlier(rows) <=> Before(rows, y[j], y[i])
        <3>1. y[i] \in DOMAIN rows /\ y[j] \in DOMAIN rows
            BY <1>0, <2>1
        <3> QED
            BY <3>1 DEF Earlier
    <2> QED
        BY <2>1 DEF Ordering
<1>3. /\ s \in [1 .. Cardinality(first) -> first] /\ IsInjective(s)
      /\ \A i, j \in DOMAIN s : i < j => ~Before(rows, s[j], s[i])
    <2>1. /\ x \in [1 .. Cardinality(first) -> first] /\ IsInjective(x)
          /\ \A i, j \in DOMAIN x : i < j => ~Before(rows, x[j], x[i])
        BY <1>1, <1>2
    <2> QED
        BY <2>1
<1>4. InOrder(rows) = [i \in DOMAIN s |-> <<s[i][2], rows[s[i]].height>>]
    BY DEF InOrder, Sorted, FirstRows, first
<1> HIDE DEF s
<1>5. DOMAIN s = 1 .. Cardinality(first) /\ Ordering(first, Earlier(rows), s)
    BY <1>2, <1>3
<1> QED
    BY <1>4, <1>5 DEF first

\* The list of a script is in the order of the chain.
LEMMA StatusOrdered ==
    ASSUME NEW d, Sound(d), Placed(d), NEW sh
    PROVE  LET s == StatusList(d, sh)
           IN \A i, j \in DOMAIN s :
                 i < j => \/ s[i][2] < s[j][2]
                          \/ /\ s[i][2] = s[j][2]
                             /\ d.txs[s[i][1]].index < d.txs[s[j][1]].index
<1> DEFINE rows == HistoryRows(d, sh)
<1>1. /\ DOMAIN rows = {r \in DOMAIN d.history : r[1] = sh}
      /\ \A r \in DOMAIN rows : rows[r] = d.history[r]
    BY DEF HistoryRows, Keep
<1> HIDE DEF rows
<1>2. ASSUME NEW r \in DOMAIN rows
      PROVE  /\ r[1] = sh /\ r = <<r[1], r[2], r[3]>>
             /\ r[2] \in OnChain(d.blocks) /\ rows[r].height = d.txs[r[2]].height
             /\ rows[r].height \in Nat /\ d.txs[r[2]].index \in Nat
             /\ r[3] \in Slot(d.txs[r[2]].index) /\ r[3] \in Nat
    <2>1. r[1] = sh /\ r \in DOMAIN d.history /\ rows[r] = d.history[r]
        BY <1>1
    <2>2. r[2] \in OnChain(d.blocks) /\ d.history[r].height = d.txs[r[2]].height
        BY <2>1 DEF Sound, HistoryPart
    <2>3. d.meta \in Int /\ d.txs[r[2]].height \in 0 .. d.meta
        BY <2>2 DEF Sound, ChainPart, TxPart
    <2>4. r = <<r[1], r[2], r[3]>> /\ r[3] \in Slot(d.txs[r[2]].index) /\ d.txs[r[2]].index \in Nat
        BY <2>1, <2>2 DEF Placed
    <2>5. r[3] \in Nat
        BY <2>4, SlotsApart
    <2> QED
        BY <2>1, <2>2, <2>3, <2>4, <2>5
<1>3. IsFiniteSet(DOMAIN rows) /\ Numbered(rows, DOMAIN rows)
    <2>1. DOMAIN rows \in SUBSET DOMAIN d.history
        BY <1>1
    <2> QED
        BY <1>2, <2>1, FS_Subset DEF Numbered, Placed
<1> DEFINE n == Cardinality(FirstRows(rows))
<1>4. PICK s : /\ Ordering(FirstRows(rows), Earlier(rows), s)
               /\ InOrder(rows) = [i \in 1 .. n |-> <<s[i][2], rows[s[i]].height>>]
    BY <1>3, InOrderIsOrdering
<1>5. ASSUME NEW i \in 1 .. n, NEW j \in 1 .. n, i < j
      PROVE  \/ rows[s[i]].height < rows[s[j]].height
             \/ /\ rows[s[i]].height = rows[s[j]].height
                /\ d.txs[s[i][2]].index < d.txs[s[j][2]].index
    <2> DEFINE p == s[i]
               q == s[j]
    <2>1. p \in FirstRows(rows) /\ q \in FirstRows(rows) /\ p # q /\ ~Before(rows, q, p)
        <3>1. p \in FirstRows(rows) /\ q \in FirstRows(rows) /\ p # q
              /\ <<q, p>> \notin Earlier(rows)
            BY <1>4, <1>5 DEF Ordering, IsInjective
        <3> QED
            BY <3>1 DEF Earlier, FirstRows
    <2> HIDE DEF p, q
    <2>2. p \in DOMAIN rows /\ q \in DOMAIN rows
        BY <2>1 DEF FirstRows
    <2>3. rows[p].height \in Nat /\ rows[q].height \in Nat /\ p[3] \in Nat /\ q[3] \in Nat
        BY <1>2, <2>2
    <2>4. CASE rows[p].height # rows[q].height
        BY <2>1, <2>3, <2>4 DEF Before, p, q
    <2>5. CASE rows[p].height = rows[q].height
        <3>1. p[3] <= q[3]
            BY <2>1, <2>3, <2>5 DEF Before
        <3>2. p[2] # q[2]
            <4>1. SUFFICES ASSUME p[2] = q[2] PROVE FALSE
                OBVIOUS
            <4>2. ~Before(rows, p, q)
                BY <2>1, <2>2, <4>1 DEF FirstRows
            <4>3. p[3] = q[3]
                BY <2>3, <2>5, <3>1, <4>2 DEF Before
            <4>4. p = <<sh, p[2], p[3]>> /\ q = <<sh, q[2], q[3]>>
                BY <1>2, <2>2
            <4> QED
                BY <2>1, <4>1, <4>3, <4>4
        <3> DEFINE x == d.txs[p[2]].index
                   y == d.txs[q[2]].index
        <3>3. x \in Nat /\ y \in Nat /\ p[3] \in Slot(x) /\ q[3] \in Slot(y)
            BY <1>2, <2>2
        <3>4. x # y
            BY <1>2, <2>2, <2>5, <3>2 DEF Placed
        <3>5. ~(y < x)
            BY <2>3, <3>1, <3>3, SlotsApart
        <3>6. x < y
            BY <3>3, <3>4, <3>5
        <3> QED
            BY <2>5, <3>6 DEF p, q
    <2> QED
        BY <2>4, <2>5 DEF p, q
<1> DEFINE list == StatusList(d, sh)
<1>6. list = [i \in 1 .. n |-> <<s[i][2], rows[s[i]].height>>]
    BY <1>4 DEF StatusList, rows
<1> HIDE DEF n, list
<1>7. DOMAIN list = 1 .. n /\ \A i \in 1 .. n : list[i][1] = s[i][2] /\ list[i][2] = rows[s[i]].height
    BY <1>6
<1> QED
    BY <1>5, <1>7 DEF list

\* With nothing but the linked blocks stored, histories and statuses list
\* transactions in the order of the blockchain, as long as the outputs and
\* inputs of one fit into its range of positions.
THEOREM StatusIsInChainOrder ==
    ASSUME PositionsFit
    PROVE  Spec => []StatusInChainOrder
<1>1. TablesInv => StatusInChainOrder
    <2> SUFFICES ASSUME TablesInv, Whole, NEW sh \in Script
                 PROVE  LET s == StatusList(db, sh)
                        IN \A i, j \in DOMAIN s :
                              i < j => \/ s[i][2] < s[j][2]
                                       \/ /\ s[i][2] = s[j][2]
                                          /\ db.txs[s[i][1]].index < db.txs[s[j][1]].index
        BY DEF StatusInChainOrder
    <2> DEFINE p == Below(db, linked)
    <2>1. Sound(p) /\ p.txs = db.txs /\ p.history = db.history
        BY WholeIsBelow
    <2>2. Placed(p)
        BY GrownPlaced DEF TablesInv
    <2> HIDE DEF p
    <2>3. StatusList(p, sh) = StatusList(db, sh)
        BY <2>1 DEF StatusList, HistoryRows
    <2> QED
        BY <2>1, <2>2, <2>3, StatusOrdered
<1> QED
    BY <1>1, TablesHold, PTL

-----------------------------------------------------------------------------
(* Balances and histories, block by block.                                   *)

Values(d) == [o \in DOMAIN d.utxos |-> d.utxos[o].value]

Deltas(d) == [r \in DOMAIN d.history |-> d.history[r].delta]

HistoryOf(d, sh) == {r \in DOMAIN d.history : r[1] = sh}

LEMMA SumsOfTables ==
    ASSUME NEW d, NEW sh
    PROVE  /\ Balance(d, sh) = SumOf(Keep(Values(d), UnspentOf(d, sh)))
           /\ TotalDelta(HistoryRows(d, sh)) = SumOf(Keep(Deltas(d), HistoryOf(d, sh)))
<1>1. [o \in DOMAIN UnspentRows(d, sh) |-> UnspentRows(d, sh)[o].value]
        = Keep(Values(d), UnspentOf(d, sh))
    BY DEF UnspentRows, Keep, Values, UnspentOf
<1>2. [r \in DOMAIN HistoryRows(d, sh) |-> HistoryRows(d, sh)[r].delta]
        = Keep(Deltas(d), HistoryOf(d, sh))
    BY DEF HistoryRows, Keep, Deltas, HistoryOf
<1> QED
    BY <1>1, <1>2 DEF Balance, TotalValue, TotalDelta

\* What a block pays to a script and takes from it.
PaidTo(b, sh) == {o \in Created(b) : Outputs[o[1]][o[2]].sh = sh}

SpendsFrom(d, b, sh) == {s \in Spends(d, b) : d.utxos[SpentOutpoint(b, s)].sh = sh}

TakenFrom(d, b, sh) == {SpentOutpoint(b, s) : s \in SpendsFrom(d, b, sh)}

\* Keys tell outputs, spends, and both apart; no two spends take one output.
LEMMA KeysDiffer ==
    ASSUME PositionsApart, NEW chain, NEW b \in Blocks, ValidNext(chain, b), NEW w
    PROVE  /\ \A o, q \in Created(b) : OutputKey(b, o) = OutputKey(b, q) => o = q
           /\ \A s, r \in Spends(w, b) : SpendKey(w, b, s) = SpendKey(w, b, r) => s = r
           /\ \A o \in Created(b), s \in Spends(w, b) : OutputKey(b, o) # SpendKey(w, b, s)
<1>0. /\ OutStride \in Nat /\ SpendOffset \in Nat
      /\ b \in [DOMAIN b -> Tx] /\ DOMAIN b \subseteq Nat
      /\ \A i, j \in DOMAIN b : b[i] = b[j] => i = j
    BY TablesAssumption, Blocked DEF ValidNext
<1>1. ASSUME NEW o \in Created(b)
      PROVE  \E i \in DOMAIN b : \E v \in DOMAIN Outputs[b[i]] :
                o = <<b[i], v>> /\ v \in Nat /\ IndexOf(b, b[i]) = i
    <2>1. PICK t \in InBlock(b) : \E v \in DOMAIN Outputs[t] : o = <<t, v>>
        BY CreatedIsParsed, InParsed
    <2>2. PICK i \in DOMAIN b : t = b[i]
        BY DEF InBlock
    <2>3. IndexOf(b, b[i]) = i
        BY IndexIsPosition
    <2>4. DOMAIN Outputs[b[i]] \subseteq Nat
        BY <1>0, LedgerAssumption
    <2> QED
        BY <2>1, <2>2, <2>3, <2>4
<1>2. ASSUME NEW s \in Spends(w, b)
      PROVE  \E i \in DOMAIN b : \E k \in DOMAIN Inputs[b[i]] : s = <<i, k>> /\ k \in Nat
    <2>1. PICK i \in DOMAIN b : \E k \in DOMAIN Inputs[b[i]] : s = <<i, k>>
        BY InSpends
    <2>2. DOMAIN Inputs[b[i]] \subseteq Nat
        BY <1>0, LedgerAssumption
    <2> QED
        BY <2>1, <2>2
<1>3. ASSUME NEW i \in DOMAIN b PROVE i * OutStride \in Nat
    BY <1>0
<1>4. ASSUME NEW o \in Created(b), NEW q \in Created(b), OutputKey(b, o) = OutputKey(b, q)
      PROVE  o = q
    <2>1. PICK i \in DOMAIN b, v \in Nat : o = <<b[i], v>> /\ IndexOf(b, b[i]) = i
        BY <1>1
    <2>2. PICK j \in DOMAIN b, u \in Nat : q = <<b[j], u>> /\ IndexOf(b, b[j]) = j
        BY <1>1
    <2>3. b[i] = b[j] /\ i * OutStride + v = j * OutStride + u
        BY <1>4, <2>1, <2>2 DEF OutputKey, OutputPos
    <2>4. i = j
        BY ONLY <2>1, <2>2, <2>3
    <2>5. v = u
        BY ONLY <1>3, <2>1, <2>2, <2>3, <2>4
    <2> QED
        BY <2>1, <2>2, <2>3, <2>5
<1>5. ASSUME NEW s \in Spends(w, b), NEW r \in Spends(w, b),
             SpendKey(w, b, s) = SpendKey(w, b, r)
      PROVE  s = r
    <2>1. b[s[1]] = b[r[1]] /\ SpendPos(s[1], s[2]) = SpendPos(r[1], r[2])
        BY <1>5 DEF SpendKey
    <2> QED
        BY <2>1, SpendsInKeys
<1>6. ASSUME NEW o \in Created(b), NEW s \in Spends(w, b),
             OutputKey(b, o) = SpendKey(w, b, s)
      PROVE  FALSE
    <2>1. PICK i \in DOMAIN b : \E v \in DOMAIN Outputs[b[i]] :
                o = <<b[i], v>> /\ v \in Nat /\ IndexOf(b, b[i]) = i
        BY <1>1
    <2>2. PICK v \in DOMAIN Outputs[b[i]] : o = <<b[i], v>> /\ v \in Nat
        BY <2>1
    <2>3. PICK j \in DOMAIN b : \E k \in DOMAIN Inputs[b[j]] : s = <<j, k>> /\ k \in Nat
        BY <1>2
    <2>4. PICK k \in DOMAIN Inputs[b[j]] : s = <<j, k>> /\ k \in Nat
        BY <2>3
    <2>5. b[i] = b[j] /\ i * OutStride + v = j * OutStride + SpendOffset + k
        BY <1>6, <2>1, <2>2, <2>4 DEF OutputKey, OutputPos, SpendKey, SpendPos
    <2>6. i = j /\ b[i] \in Tx
        BY <1>0, <2>5
    <2>7. v # SpendOffset + k
        BY <2>2, <2>4, <2>6 DEF PositionsApart
    <2> QED
        BY <1>0, <1>3, <2>2, <2>4, <2>5, <2>6, <2>7
<1> QED
    BY <1>4, <1>5, <1>6

LEMMA SpendsDiffer ==
    ASSUME NEW chain, NEW b \in Blocks, ValidNext(chain, b), NEW w
    PROVE  \A s, r \in Spends(w, b) : SpentOutpoint(b, s) = SpentOutpoint(b, r) => s = r
<1>0. DOMAIN b \subseteq Nat /\ \A i \in DOMAIN b : 0 .. i \subseteq DOMAIN b
    BY Blocked
<1>1. ASSUME NEW i \in DOMAIN b, NEW j \in DOMAIN b, i < j,
             NEW k \in DOMAIN Inputs[b[i]], NEW l \in DOMAIN Inputs[b[j]]
      PROVE  Inputs[b[i]][k] # Inputs[b[j]][l]
    <2> DEFINE before == OnChain(chain) \cup {b[x] : x \in 0 .. (j - 1)}
    <2>1. Inputs[b[j]][l] \in InputsOf({b[j]})
        BY InInputs
    <2>2. Inputs[b[j]][l] \notin InputsOf(before)
        BY <2>1 DEF ValidNext, Unspent
    <2>3. i \in 0 .. (j - 1)
        BY <1>0, <1>1
    <2>4. b[i] \in before
        BY <2>3
    <2> HIDE DEF before
    <2>5. Inputs[b[i]][k] \in InputsOf(before)
        BY <2>4, InInputs
    <2> QED
        BY <2>2, <2>5
<1>2. SUFFICES ASSUME NEW s \in Spends(w, b), NEW r \in Spends(w, b),
                      SpentOutpoint(b, s) = SpentOutpoint(b, r)
               PROVE  s = r
    OBVIOUS
<1>3. PICK i \in DOMAIN b : \E k \in DOMAIN Inputs[b[i]] : s = <<i, k>>
    BY InSpends
<1>4. PICK k \in DOMAIN Inputs[b[i]] : s = <<i, k>>
    BY <1>3
<1>5. PICK j \in DOMAIN b : \E l \in DOMAIN Inputs[b[j]] : r = <<j, l>>
    BY InSpends
<1>6. PICK l \in DOMAIN Inputs[b[j]] : r = <<j, l>>
    BY <1>5
<1>7. Inputs[b[i]][k] = Inputs[b[j]][l]
    BY <1>2, <1>4, <1>6 DEF SpentOutpoint
<1>8. i \in Nat /\ j \in Nat
    BY <1>0
<1>9. i = j
    BY <1>1, <1>7, <1>8
<1>10. k = l
    BY <1>7, <1>9 DEF ValidNext
<1> QED
    BY <1>4, <1>6, <1>9, <1>10

\* The deltas of the new rows: what an output pays, and what a spend takes.
LEMMA NewDeltas ==
    ASSUME PositionsApart, NEW chain, NEW b \in Blocks, ValidNext(chain, b), NEW w, NEW h
    PROVE  LET n == NewHistory(w, h, b)
           IN /\ \A o \in Created(b) : n[OutputKey(b, o)].delta = Outputs[o[1]][o[2]].value
              /\ \A s \in Spends(w, b) :
                    n[SpendKey(w, b, s)].delta = -w.utxos[SpentOutpoint(b, s)].value
<1> DEFINE outs == OutputHistory(h, b)
           n == NewHistory(w, h, b)
           output(r) == CHOOSE x \in Created(b) : OutputKey(b, x) = r
<1>1. outs = [r \in {OutputKey(b, o) : o \in Created(b)} |->
                [height |-> h, delta |-> Outputs[output(r)[1]][output(r)[2]].value]]
    BY DEF OutputHistory, OutputKey
<1>2. HistoryValues(n, w, h, b)
    BY NewHistoryValues
<1> HIDE DEF outs, n
<1>3. /\ \A r \in DOMAIN outs : n[r] = outs[r]
      /\ \A s \in Spends(w, b) : SpendKey(w, b, s) \notin DOMAIN outs =>
            n[SpendKey(w, b, s)] = [height |-> h, delta |-> -w.utxos[SpentOutpoint(b, s)].value]
    BY <1>2 DEF HistoryValues, outs
<1>4. ASSUME NEW o \in Created(b)
      PROVE  n[OutputKey(b, o)].delta = Outputs[o[1]][o[2]].value
    <2>1. output(OutputKey(b, o)) = o
        BY KeysDiffer
    <2> HIDE DEF output
    <2>2. OutputKey(b, o) \in DOMAIN outs /\ outs[OutputKey(b, o)].delta = Outputs[o[1]][o[2]].value
        BY <1>1, <2>1
    <2> QED
        BY <1>3, <2>2
<1> HIDE DEF output
<1>5. ASSUME NEW s \in Spends(w, b)
      PROVE  n[SpendKey(w, b, s)].delta = -w.utxos[SpentOutpoint(b, s)].value
    <2>1. \A o \in Created(b) : OutputKey(b, o) # SpendKey(w, b, s)
        BY KeysDiffer
    <2>2. SpendKey(w, b, s) \notin DOMAIN outs
        BY <1>1, <2>1
    <2>3. n[SpendKey(w, b, s)] = [height |-> h, delta |-> -w.utxos[SpentOutpoint(b, s)].value]
        BY ONLY <1>3, <2>2
    <2> QED
        BY ONLY <2>3
<1> QED
    BY <1>4, <1>5 DEF n

\* What Index makes of the columns.
ColumnsExtend(d, w, b, e) ==
    /\ DOMAIN Values(e) = DOMAIN Values(d) \cup Created(b)
    /\ \A o \in DOMAIN Values(d) : Values(e)[o] = Values(d)[o]
    /\ \A o \in Created(b) : Values(e)[o] = Outputs[o[1]][o[2]].value
    /\ DOMAIN Deltas(e) = DOMAIN Deltas(d) \cup NewKeys(w, b)
    /\ \A r \in DOMAIN Deltas(d) : Deltas(e)[r] = Deltas(d)[r]
    /\ \A o \in Created(b) : Deltas(e)[OutputKey(b, o)] = Outputs[o[1]][o[2]].value
    /\ \A s \in Spends(w, b) :
          /\ SpentOutpoint(b, s) \in DOMAIN Values(e)
          /\ Deltas(e)[SpendKey(w, b, s)] = -Values(e)[SpentOutpoint(b, s)]

LEMMA NextColumns ==
    ASSUME PositionsApart, NEW d, Sound(d), NEW b \in Blocks, ValidNext(d.blocks, b),
           NEW w \in Views(d, b), NEW e, e = Index(w, d.meta + 1, b)
    PROVE  ColumnsExtend(d, w, b, e)
<1>1. RowsExtend(d, w, b, e) /\ HistoryExtends(d, w, b, e) /\ Created(b) = Parsed(InBlock(b))
    BY NextRows, NextHistoryRows, CreatedIsParsed
<1>3. /\ DOMAIN e.utxos = DOMAIN d.utxos \cup Created(b)
      /\ DOMAIN e.history = DOMAIN d.history \cup NewKeys(w, b)
      /\ DOMAIN d.history \cap NewKeys(w, b) = {}
    BY <1>1 DEF RowsExtend, HistoryExtends
<1>4. \A o \in DOMAIN d.utxos : e.utxos[o].value = d.utxos[o].value
    BY OldRowFields
<1>5. \A o \in Created(b) : e.utxos[o].value = Outputs[o[1]][o[2]].value
    BY <1>1, NewRowFields
<1>2. ASSUME NEW o \in DOMAIN w.utxos
      PROVE  o \in DOMAIN e.utxos /\ w.utxos[o].value = e.utxos[o].value
    <2>1. CASE o \in DOMAIN d.utxos
        BY <1>3, <1>4, <2>1, ViewRows
    <2>2. CASE o \notin DOMAIN d.utxos
        <3>1. o \in Parsed(InBlock(b)) /\ w.utxos[o] = WithCreated(d, b)[o]
            BY <2>2, ViewRows
        <3>2. w.utxos[o] = CreatedRow(d.meta + 1, b, o)
            BY <2>2, <3>1 DEF WithCreated
        <3>3. d.meta + 1 \in Int
            BY DEF Sound, ChainPart
        <3>4. w.utxos[o].value = Outputs[o[1]][o[2]].value
            BY <3>1, <3>2, <3>3, CreatedRowFields
        <3> QED
            BY <1>1, <1>3, <1>5, <3>1, <3>4
    <2> QED
        BY <2>1, <2>2
<1> DEFINE n == NewHistory(w, e.meta, b)
<1>6. \A r \in NewKeys(w, b) : e.history[r] = n[r]
    <2>1. e.history = InsertNew(d.history, n)
        BY ViewFields DEF Index, Sound
    <2>2. DOMAIN n = NewKeys(w, b)
        BY NewHistoryRows
    <2> HIDE DEF n
    <2> QED
        BY <1>3, <2>1, <2>2 DEF InsertNew
<1>7. /\ \A o \in Created(b) : n[OutputKey(b, o)].delta = Outputs[o[1]][o[2]].value
      /\ \A s \in Spends(w, b) :
            n[SpendKey(w, b, s)].delta = -w.utxos[SpentOutpoint(b, s)].value
    BY NewDeltas
<1>8. /\ \A o \in Created(b) : OutputKey(b, o) \in NewKeys(w, b)
      /\ \A s \in Spends(w, b) : SpendKey(w, b, s) \in NewKeys(w, b)
                                 /\ SpentOutpoint(b, s) \in DOMAIN w.utxos
    BY DEF NewKeys, Spends, SpentOutpoint
<1> HIDE DEF n
<1>9. \A o \in Created(b) : e.history[OutputKey(b, o)].delta = Outputs[o[1]][o[2]].value
    BY <1>6, <1>7, <1>8
<1>10. ASSUME NEW s \in Spends(w, b)
       PROVE  /\ SpentOutpoint(b, s) \in DOMAIN e.utxos
              /\ e.history[SpendKey(w, b, s)].delta = -e.utxos[SpentOutpoint(b, s)].value
              /\ SpendKey(w, b, s) \in DOMAIN e.history
    BY <1>2, <1>3, <1>6, <1>7, <1>8
<1>11. \A r \in DOMAIN d.history : e.history[r] = d.history[r]
    BY <1>1 DEF HistoryExtends
<1> QED
    BY <1>3, <1>4, <1>5, <1>8, <1>9, <1>10, <1>11 DEF ColumnsExtend, Values, Deltas

\* A block's outputs join the unspent ones, and those the parser finds spent
\* leave them.
LEMMA NextUnspent ==
    ASSUME NEW d, Sound(d), NEW b \in Blocks, ValidNext(d.blocks, b),
           NEW w \in Views(d, b), NEW e, e = Index(w, d.meta + 1, b), NEW sh
    PROVE  /\ UnspentOf(e, sh) = (UnspentOf(d, sh) \cup PaidTo(b, sh)) \ TakenFrom(w, b, sh)
           /\ TakenFrom(w, b, sh) \subseteq UnspentOf(d, sh) \cup PaidTo(b, sh)
           /\ DOMAIN d.utxos \cap PaidTo(b, sh) = {}
<1>1. RowsExtend(d, w, b, e) /\ Created(b) = Parsed(InBlock(b))
    BY NextRows, CreatedIsParsed
<1>2. ASSUME NEW o
      PROVE  o \in TakenFrom(w, b, sh) <=>
                o \in DOMAIN w.utxos /\ o \in InputsOf(InBlock(b)) /\ w.utxos[o].sh = sh
    <2>1. o \in TakenFrom(w, b, sh) <=> o \in SpentNow(w, b) /\ w.utxos[o].sh = sh
        BY DEF TakenFrom, SpendsFrom, SpentNow
    <2> QED
        BY <2>1, InSpentNow
<1>3. /\ DOMAIN e.utxos = DOMAIN d.utxos \cup Created(b)
      /\ DOMAIN d.utxos \cap Created(b) = {}
    BY <1>1 DEF RowsExtend
<1>4. ASSUME NEW o \in DOMAIN d.utxos
      PROVE  /\ o \in TakenFrom(w, b, sh) => o \in UnspentOf(d, sh) /\ o \notin UnspentOf(e, sh)
             /\ o \notin TakenFrom(w, b, sh) =>
                   (o \in UnspentOf(e, sh) <=> o \in UnspentOf(d, sh))
    <2>1. o \in DOMAIN w.utxos /\ w.utxos[o].sh = d.utxos[o].sh /\ o \in DOMAIN e.utxos
        BY <1>3, ViewRows
    <2>2. /\ e.utxos[o].sh = d.utxos[o].sh
          /\ o \notin InputsOf(InBlock(b)) => e.utxos[o] = d.utxos[o]
          /\ o \in InputsOf(InBlock(b)) => d.utxos[o].spentBy = NoTx /\ e.utxos[o].spentBy # NoTx
        BY OldRowFields
    <2> QED
        BY <1>2, <2>1, <2>2 DEF UnspentOf
<1>5. ASSUME NEW o \in Created(b)
      PROVE  /\ o \in TakenFrom(w, b, sh) => o \in PaidTo(b, sh) /\ o \notin UnspentOf(e, sh)
             /\ o \notin TakenFrom(w, b, sh) =>
                   (o \in UnspentOf(e, sh) <=> o \in PaidTo(b, sh))
    <2>1. o \in DOMAIN w.utxos => w.utxos[o].sh = Outputs[o[1]][o[2]].sh
        BY ViewRows
    <2>2. /\ e.utxos[o].sh = Outputs[o[1]][o[2]].sh
          /\ o \notin DOMAIN w.utxos \/ o \notin InputsOf(InBlock(b)) =>
                e.utxos[o].spentBy = NoTx
          /\ o \in DOMAIN w.utxos /\ o \in InputsOf(InBlock(b)) =>
                e.utxos[o].spentBy # NoTx
        BY <1>1, NewRowFields
    <2>3. o \in DOMAIN e.utxos
        BY <1>3
    <2> QED
        BY <1>2, <2>1, <2>2, <2>3 DEF UnspentOf, PaidTo
<1>6. /\ UnspentOf(e, sh) \subseteq DOMAIN e.utxos /\ UnspentOf(d, sh) \subseteq DOMAIN d.utxos
      /\ PaidTo(b, sh) \subseteq Created(b)
      /\ TakenFrom(w, b, sh) \subseteq DOMAIN d.utxos \cup Created(b)
    BY <1>1, <1>2, ViewRows DEF UnspentOf, PaidTo
<1>7. ASSUME NEW o
      PROVE  o \in UnspentOf(e, sh) <=>
                (o \in UnspentOf(d, sh) \/ o \in PaidTo(b, sh)) /\ o \notin TakenFrom(w, b, sh)
    BY <1>3, <1>4, <1>5, <1>6
<1>8. TakenFrom(w, b, sh) \subseteq UnspentOf(d, sh) \cup PaidTo(b, sh)
    BY <1>4, <1>5, <1>6
<1> QED
    BY <1>3, <1>6, <1>7, <1>8

\* Its rows join the history.
LEMMA NextHistoryOf ==
    ASSUME NEW d, Sound(d), NEW b \in Blocks, ValidNext(d.blocks, b),
           NEW w \in Views(d, b), NEW e, e = Index(w, d.meta + 1, b), NEW sh
    PROVE  /\ HistoryOf(e, sh) =
                HistoryOf(d, sh) \cup ({OutputKey(b, o) : o \in PaidTo(b, sh)} \cup
                                       {SpendKey(w, b, s) : s \in SpendsFrom(w, b, sh)})
           /\ DOMAIN d.history \cap NewKeys(w, b) = {}
<1>1. /\ DOMAIN e.history = DOMAIN d.history \cup NewKeys(w, b)
      /\ DOMAIN d.history \cap NewKeys(w, b) = {}
    <2>1. HistoryExtends(d, w, b, e)
        BY NextHistoryRows
    <2> QED
        BY <2>1 DEF HistoryExtends
<1>2. /\ \A o : OutputKey(b, o)[1] = Outputs[o[1]][o[2]].sh
      /\ \A s : SpendKey(w, b, s)[1] = w.utxos[SpentOutpoint(b, s)].sh
    BY DEF OutputKey, SpendKey
<1> DEFINE outs == {OutputKey(b, o) : o \in PaidTo(b, sh)}
           ins == {SpendKey(w, b, s) : s \in SpendsFrom(w, b, sh)}
<1>3. ASSUME NEW r
      PROVE  r \in NewKeys(w, b) /\ r[1] = sh <=> r \in outs \/ r \in ins
    <2>1. r \in NewKeys(w, b) <=> \/ \E o \in Created(b) : r = OutputKey(b, o)
                                  \/ \E s \in Spends(w, b) : r = SpendKey(w, b, s)
        BY DEF NewKeys
    <2>2. r \in outs <=> \E o \in Created(b) : r = OutputKey(b, o) /\ Outputs[o[1]][o[2]].sh = sh
        BY DEF PaidTo
    <2>3. r \in ins <=> \E s \in Spends(w, b) :
             r = SpendKey(w, b, s) /\ w.utxos[SpentOutpoint(b, s)].sh = sh
        BY DEF SpendsFrom
    <2> HIDE DEF outs, ins
    <2> QED
        BY <1>2, <2>1, <2>2, <2>3
<1> HIDE DEF outs, ins
<1>4. HistoryOf(e, sh) = HistoryOf(d, sh) \cup (outs \cup ins)
    BY <1>1, <1>3 DEF HistoryOf
<1> QED
    BY <1>1, <1>4 DEF outs, ins

\* Balance and history agree, and their columns can be summed.
Counted(d) ==
    /\ IntColumn(Values(d)) /\ IntColumn(Deltas(d))
    /\ \A sh \in Script : Balance(d, sh) = TotalDelta(HistoryRows(d, sh))

LEMMA NextColumnsSum ==
    ASSUME PositionsApart, NEW d, Sound(d), Counted(d), NEW b \in Blocks,
           ValidNext(d.blocks, b), NEW w \in Views(d, b), NEW e, e = Index(w, d.meta + 1, b)
    PROVE  IntColumn(Values(e)) /\ IntColumn(Deltas(e))
<1>0. ColumnsExtend(d, w, b, e)
    BY NextColumns
<1>1. IsFiniteSet(Created(b)) /\ IsFiniteSet(NewKeys(w, b))
    BY BlockIsFinite
<1>2. \A o \in Created(b) : Outputs[o[1]][o[2]].value \in Nat
    BY CreatedIsParsed, Blocked, ParsedScript
<1>3. IsFiniteSet(DOMAIN Values(e)) /\ IsFiniteSet(DOMAIN Deltas(e))
    <2>1. IsFiniteSet(DOMAIN Values(d)) /\ IsFiniteSet(DOMAIN Deltas(d))
        BY DEF Counted, IntColumn
    <2>2. /\ DOMAIN Values(e) = DOMAIN Values(d) \cup Created(b)
          /\ DOMAIN Deltas(e) = DOMAIN Deltas(d) \cup NewKeys(w, b)
        BY <1>0 DEF ColumnsExtend
    <2>3. /\ IsFiniteSet(DOMAIN Values(d) \cup Created(b))
          /\ IsFiniteSet(DOMAIN Deltas(d) \cup NewKeys(w, b))
        BY <1>1, <2>1, FS_Union
    <2> QED
        BY <2>2, <2>3
<1>4. ASSUME NEW o \in DOMAIN Values(e) PROVE Values(e)[o] \in Int
    BY <1>0, <1>2 DEF Counted, IntColumn, ColumnsExtend
<1>5. ASSUME NEW r \in DOMAIN Deltas(e) PROVE Deltas(e)[r] \in Int
    <2>1. CASE r \in DOMAIN Deltas(d)
        BY <1>0, <2>1 DEF Counted, IntColumn, ColumnsExtend
    <2>2. CASE r \in NewKeys(w, b)
        <3>1. CASE \E o \in Created(b) : r = OutputKey(b, o)
            BY <1>0, <1>2, <3>1 DEF ColumnsExtend
        <3>2. ASSUME NEW s \in Spends(w, b), r = SpendKey(w, b, s)
              PROVE  Deltas(e)[r] \in Int
            <4>1. SpentOutpoint(b, s) \in DOMAIN Values(e)
                BY <1>0 DEF ColumnsExtend
            <4>2. Values(e)[SpentOutpoint(b, s)] \in Int
                BY <1>4, <4>1
            <4> QED
                BY <1>0, <3>2, <4>2 DEF ColumnsExtend
        <3> QED
            BY <2>2, <3>1, <3>2 DEF NewKeys
    <2> QED
        BY <1>0, <2>1, <2>2 DEF ColumnsExtend
<1> QED
    BY <1>3, <1>4, <1>5 DEF IntColumn
\* The columns keep the old rows' values.
LEMMA OldRowsSum ==
    ASSUME NEW f, NEW g, NEW S, \A k \in S : f[k] = g[k]
    PROVE  Keep(f, S) = Keep(g, S)
    BY DEF Keep

\* The rows a block adds to the history of a script.
PaidRows(b, sh) == {OutputKey(b, o) : o \in PaidTo(b, sh)}

TakenRows(w, b, sh) == {SpendKey(w, b, s) : s \in SpendsFrom(w, b, sh)}

\* What a block pays to a script is in its new outputs and in its new rows.
LEMMA PaysWhatItAdds ==
    ASSUME PositionsApart, NEW d, Sound(d), Counted(d), NEW b \in Blocks,
           ValidNext(d.blocks, b), NEW w \in Views(d, b), NEW e, e = Index(w, d.meta + 1, b),
           NEW sh
    PROVE  SumOf(Keep(Deltas(e), PaidRows(b, sh)))
             = SumOf(Keep(Values(e), PaidTo(b, sh)))
<1> DEFINE f == Keep(Values(e), PaidTo(b, sh))
           h == Deltas(e)
           p == [o \in Created(b) |-> OutputKey(b, o)]
<1>0. PaidTo(b, sh) \subseteq Created(b)
    BY DEF PaidTo
<1>1. ColumnsExtend(d, w, b, e) /\ IntColumn(Values(e)) /\ IntColumn(h)
    BY NextColumns, NextColumnsSum
<1>2. DOMAIN f = PaidTo(b, sh) /\ \A o \in PaidTo(b, sh) : f[o] = Values(e)[o]
    BY DEF Keep
<1>3. PaidTo(b, sh) \subseteq DOMAIN Values(e)
    BY <1>0, <1>1 DEF ColumnsExtend
<1>4. IsFiniteSet(PaidTo(b, sh))
    BY <1>0, BlockIsFinite, FS_Subset
<1>5. f = [k \in DOMAIN f |-> f[k]]
    BY DEF Keep
<1>6. \A o \in PaidTo(b, sh) :
         p[o] \in DOMAIN h /\ h[p[o]] = f[o] /\ f[o] \in Int /\ p[o] = OutputKey(b, o)
    <2>1. SUFFICES ASSUME NEW o \in PaidTo(b, sh)
                   PROVE  p[o] \in DOMAIN h /\ h[p[o]] = f[o] /\ f[o] \in Int
                          /\ p[o] = OutputKey(b, o)
        OBVIOUS
    <2>2. o \in Created(b) /\ p[o] = OutputKey(b, o)
        BY <1>0
    <2>3. OutputKey(b, o) \in NewKeys(w, b)
        BY <2>2 DEF NewKeys
    <2>4. OutputKey(b, o) \in DOMAIN h
        BY <1>1, <2>3 DEF ColumnsExtend
    <2>5. h[OutputKey(b, o)] = Values(e)[o]
        BY <1>1, <2>2 DEF ColumnsExtend
    <2>6. Values(e)[o] \in Int
        BY <1>1, <1>3 DEF IntColumn
    <2> HIDE DEF f, h, p
    <2> QED
        BY <1>2, <2>2, <2>4, <2>5, <2>6
<1>7. \A j, k \in PaidTo(b, sh) : p[j] = p[k] => j = k
    BY <1>0, <1>6, KeysDiffer
<1> HIDE DEF f, h, p
<1>8. IntColumn(f)
    BY <1>2, <1>4, <1>6 DEF IntColumn
<1>9. \A k \in DOMAIN f : p[k] \in DOMAIN h /\ h[p[k]] = 1 * f[k]
    BY <1>2, <1>6
<1>10. SumOf(Keep(h, {p[o] : o \in DOMAIN f})) = 1 * SumOf(Keep(f, DOMAIN f))
    <2>1. \A j, k \in DOMAIN f : p[j] = p[k] => j = k
        BY <1>2, <1>7
    <2>2. DOMAIN f \in SUBSET DOMAIN f /\ 1 \in {-1, 1}
        OBVIOUS
    <2> QED
        BY <1>1, <1>8, <1>9, <2>1, <2>2, SumCorresponds
<1>11. {p[o] : o \in DOMAIN f} = PaidRows(b, sh)
    BY <1>2, <1>6 DEF PaidRows
<1>12. Keep(f, DOMAIN f) = f
    BY <1>5, WholeColumn
<1>13. SumOf(f) \in Int
    <2>1. SumOf(Keep(f, DOMAIN f)) \in Int
        BY <1>8, SumRemove
    <2> QED
        BY <1>12, <2>1
<1>14. SumOf(Keep(h, PaidRows(b, sh))) = SumOf(f)
    <2>1. SumOf(Keep(h, PaidRows(b, sh)))
            = 1 * SumOf(Keep(f, DOMAIN f))
        BY ONLY <1>10, <1>11
    <2>2. SumOf(Keep(f, DOMAIN f)) = SumOf(f)
        BY ONLY <1>12
    <2> QED
        BY ONLY <1>13, <2>1, <2>2
<1> QED
    BY <1>14 DEF f, h

\* What it takes from a script is in the outputs it spends and in its new rows.
LEMMA TakesWhatItAdds ==
    ASSUME PositionsApart, NEW d, Sound(d), Counted(d), NEW b \in Blocks,
           ValidNext(d.blocks, b), NEW w \in Views(d, b), NEW e, e = Index(w, d.meta + 1, b),
           NEW sh
    PROVE  SumOf(Keep(Deltas(e), TakenRows(w, b, sh)))
             = -SumOf(Keep(Values(e), TakenFrom(w, b, sh)))
<1> DEFINE f == [s \in SpendsFrom(w, b, sh) |-> Values(e)[SpentOutpoint(b, s)]]
           h == Deltas(e)
           v == Values(e)
           p == [s \in Spends(w, b) |-> SpendKey(w, b, s)]
           q == [s \in Spends(w, b) |-> SpentOutpoint(b, s)]
<1>0. SpendsFrom(w, b, sh) \subseteq Spends(w, b)
    BY DEF SpendsFrom
<1>1. ColumnsExtend(d, w, b, e) /\ IntColumn(h) /\ IntColumn(v)
    BY NextColumns, NextColumnsSum
<1>2. /\ DOMAIN f = SpendsFrom(w, b, sh)
      /\ \A s \in SpendsFrom(w, b, sh) : f[s] = v[SpentOutpoint(b, s)]
    OBVIOUS
<1>4. IsFiniteSet(SpendsFrom(w, b, sh))
    BY <1>0, BlockIsFinite, FS_Subset
<1>5. f = [k \in DOMAIN f |-> f[k]]
    OBVIOUS
<1>6. \A s \in SpendsFrom(w, b, sh) :
         /\ p[s] \in DOMAIN h /\ h[p[s]] = -f[s] /\ f[s] \in Int /\ p[s] = SpendKey(w, b, s)
         /\ q[s] \in DOMAIN v /\ v[q[s]] = f[s] /\ q[s] = SpentOutpoint(b, s)
    <2>1. SUFFICES ASSUME NEW s \in SpendsFrom(w, b, sh)
                   PROVE  /\ p[s] \in DOMAIN h /\ h[p[s]] = -f[s] /\ f[s] \in Int
                          /\ p[s] = SpendKey(w, b, s)
                          /\ q[s] \in DOMAIN v /\ v[q[s]] = f[s] /\ q[s] = SpentOutpoint(b, s)
        OBVIOUS
    <2>2. s \in Spends(w, b) /\ p[s] = SpendKey(w, b, s) /\ q[s] = SpentOutpoint(b, s)
        BY <1>0
    <2>3. SpendKey(w, b, s) \in NewKeys(w, b)
        BY <2>2 DEF NewKeys
    <2>4. SpendKey(w, b, s) \in DOMAIN h
        BY <1>1, <2>3 DEF ColumnsExtend
    <2>5. h[SpendKey(w, b, s)] = -v[SpentOutpoint(b, s)]
        BY <1>1, <2>2 DEF ColumnsExtend
    <2>6. SpentOutpoint(b, s) \in DOMAIN v
        BY <1>1, <2>2 DEF ColumnsExtend
    <2>7. v[SpentOutpoint(b, s)] \in Int
        BY <1>1, <2>6 DEF IntColumn
    <2> HIDE DEF f, h, p, q, v
    <2> QED
        BY <1>2, <2>2, <2>4, <2>5, <2>6, <2>7
<1>7. /\ \A j, k \in SpendsFrom(w, b, sh) : p[j] = p[k] => j = k
      /\ \A j, k \in SpendsFrom(w, b, sh) : q[j] = q[k] => j = k
    <2>1. /\ \A j, k \in Spends(w, b) : SpendKey(w, b, j) = SpendKey(w, b, k) => j = k
          /\ \A j, k \in Spends(w, b) : SpentOutpoint(b, j) = SpentOutpoint(b, k) => j = k
        BY KeysDiffer, SpendsDiffer
    <2> QED
        BY <1>0, <1>6, <2>1
<1> HIDE DEF f, h, p, q, v
<1>8. IntColumn(f)
    BY <1>2, <1>4, <1>6 DEF IntColumn
<1>9. Keep(f, DOMAIN f) = f
    BY <1>5, WholeColumn
<1>10. SumOf(f) \in Int
    <2>1. SumOf(Keep(f, DOMAIN f)) \in Int
        BY <1>8, SumRemove
    <2> QED
        BY <1>9, <2>1
<1>11. SumOf(Keep(h, {p[s] : s \in DOMAIN f})) = -1 * SumOf(f)
    <2>2. \A j, k \in DOMAIN f : p[j] = p[k] => j = k
        BY <1>2, <1>7
    <2>3. DOMAIN f \in SUBSET DOMAIN f
        OBVIOUS
    <2> DEFINE c == -1
    <2>4. c \in {-1, 1} /\ \A k \in DOMAIN f : p[k] \in DOMAIN h /\ h[p[k]] = c * f[k]
        <3>1. ASSUME NEW k \in DOMAIN f PROVE p[k] \in DOMAIN h /\ h[p[k]] = c * f[k]
            <4>1. p[k] \in DOMAIN h /\ h[p[k]] = -f[k] /\ f[k] \in Int
                BY <1>2, <1>6
            <4> QED
                BY <4>1
        <3> QED
            BY <3>1
    <2> HIDE DEF c
    <2>5. SumOf(Keep(h, {p[s] : s \in DOMAIN f})) = c * SumOf(Keep(f, DOMAIN f))
        BY <1>1, <1>8, <2>2, <2>3, <2>4, SumCorresponds
    <2>6. SumOf(Keep(h, {p[s] : s \in DOMAIN f})) = c * SumOf(f)
        BY ONLY <1>9, <2>5
    <2> QED
        BY ONLY <1>10, <2>6 DEF c
<1>12. SumOf(Keep(v, {q[s] : s \in DOMAIN f})) = 1 * SumOf(f)
    <2>1. \A k \in DOMAIN f : q[k] \in DOMAIN v /\ v[q[k]] = 1 * f[k]
        BY <1>2, <1>6
    <2>2. \A j, k \in DOMAIN f : q[j] = q[k] => j = k
        BY <1>2, <1>7
    <2>3. DOMAIN f \in SUBSET DOMAIN f /\ 1 \in {-1, 1}
        OBVIOUS
    <2>4. SumOf(Keep(v, {q[s] : s \in DOMAIN f})) = 1 * SumOf(Keep(f, DOMAIN f))
        BY <1>1, <1>8, <2>1, <2>2, <2>3, SumCorresponds
    <2> QED
        BY <1>9, <2>4
<1>13. /\ {p[s] : s \in DOMAIN f} = TakenRows(w, b, sh)
       /\ {q[s] : s \in DOMAIN f} = TakenFrom(w, b, sh)
    BY <1>2, <1>6 DEF TakenFrom, TakenRows
<1>14. /\ SumOf(Keep(h, TakenRows(w, b, sh))) = -SumOf(f)
       /\ SumOf(Keep(v, TakenFrom(w, b, sh))) = SumOf(f)
    <2>1. SumOf(Keep(h, TakenRows(w, b, sh))) = -1 * SumOf(f)
        BY ONLY <1>11, <1>13
    <2>2. SumOf(Keep(v, TakenFrom(w, b, sh))) = 1 * SumOf(f)
        BY ONLY <1>12, <1>13
    <2> QED
        BY ONLY <1>10, <2>1, <2>2
<1> QED
    BY <1>14 DEF h, v

LEMMA NextCounted ==
    ASSUME PositionsApart, NEW d, Sound(d), Counted(d), NEW b \in Blocks,
           ValidNext(d.blocks, b), NEW w \in Views(d, b), NEW e, e = Index(w, d.meta + 1, b)
    PROVE  Counted(e)
<1>1. ColumnsExtend(d, w, b, e) /\ IntColumn(Values(e)) /\ IntColumn(Deltas(e))
    BY NextColumns, NextColumnsSum
<1>2. ASSUME NEW sh \in Script
      PROVE  Balance(e, sh) = TotalDelta(HistoryRows(e, sh))
    <2> DEFINE taken == TakenFrom(w, b, sh)
               paid == PaidTo(b, sh)
               gross == UnspentOf(d, sh) \cup paid
               kept == gross \ taken
               outs == {OutputKey(b, o) : o \in paid}
               ins == {SpendKey(w, b, s) : s \in SpendsFrom(w, b, sh)}
               old == HistoryOf(d, sh)
               value(S) == SumOf(Keep(Values(e), S))
               delta(S) == SumOf(Keep(Deltas(e), S))
    <2>1. /\ UnspentOf(e, sh) = kept /\ taken \subseteq gross
          /\ DOMAIN d.utxos \cap paid = {}
        BY NextUnspent
    <2>2. HistoryOf(e, sh) = old \cup (outs \cup ins) /\ DOMAIN d.history \cap NewKeys(w, b) = {}
        BY NextHistoryOf
    <2>3. /\ UnspentOf(d, sh) \subseteq DOMAIN d.utxos /\ paid \subseteq Created(b)
          /\ old \subseteq DOMAIN d.history
          /\ outs \subseteq NewKeys(w, b) /\ ins \subseteq NewKeys(w, b)
          /\ outs \cap ins = {}
        <3>1. UnspentOf(d, sh) \subseteq DOMAIN d.utxos /\ paid \subseteq Created(b)
              /\ old \subseteq DOMAIN d.history
            BY DEF UnspentOf, PaidTo, HistoryOf
        <3>2. outs \subseteq NewKeys(w, b) /\ ins \subseteq NewKeys(w, b)
            BY DEF NewKeys, PaidTo, SpendsFrom
        <3>3. outs \cap ins = {}
            <4>1. \A o \in Created(b), s \in Spends(w, b) : OutputKey(b, o) # SpendKey(w, b, s)
                BY KeysDiffer
            <4> QED
                BY <4>1 DEF PaidTo, SpendsFrom
        <3> QED
            BY <3>1, <3>2, <3>3
    <2>4. /\ DOMAIN Values(e) = DOMAIN d.utxos \cup Created(b)
          /\ DOMAIN Deltas(e) = DOMAIN d.history \cup NewKeys(w, b)
          /\ \A o \in DOMAIN d.utxos : Values(e)[o] = Values(d)[o]
          /\ \A r \in DOMAIN d.history : Deltas(e)[r] = Deltas(d)[r]
        <3>1. DOMAIN Values(d) = DOMAIN d.utxos /\ DOMAIN Deltas(d) = DOMAIN d.history
            BY DEF Values, Deltas
        <3> QED
            BY <1>1, <3>1 DEF ColumnsExtend
    <2>5. /\ Balance(e, sh) = value(UnspentOf(e, sh))
          /\ TotalDelta(HistoryRows(e, sh)) = delta(HistoryOf(e, sh))
        BY SumsOfTables
    <2>6. value(UnspentOf(d, sh)) = delta(old)
        <3>1. /\ Balance(d, sh) = SumOf(Keep(Values(d), UnspentOf(d, sh)))
              /\ TotalDelta(HistoryRows(d, sh)) = SumOf(Keep(Deltas(d), old))
            BY SumsOfTables
        <3>2. Balance(d, sh) = TotalDelta(HistoryRows(d, sh))
            BY DEF Counted
        <3>3. Keep(Values(e), UnspentOf(d, sh)) = Keep(Values(d), UnspentOf(d, sh))
            BY <2>3, <2>4, OldRowsSum
        <3>4. Keep(Deltas(e), old) = Keep(Deltas(d), old)
            BY <2>3, <2>4, OldRowsSum
        <3> QED
            BY <3>1, <3>2, <3>3, <3>4
    <2>7. delta(outs) = value(paid)
        <3>1. SumOf(Keep(Deltas(e), PaidRows(b, sh))) = SumOf(Keep(Values(e), PaidTo(b, sh)))
            BY PaysWhatItAdds
        <3> QED
            BY ONLY <3>1 DEF PaidRows
    <2>8. delta(ins) = -value(taken)
        <3>1. SumOf(Keep(Deltas(e), TakenRows(w, b, sh)))
                = -SumOf(Keep(Values(e), TakenFrom(w, b, sh)))
            BY TakesWhatItAdds
        <3> QED
            BY ONLY <3>1 DEF TakenRows
    <2> HIDE DEF taken, paid, outs, ins, old
    <2>9. value(gross) = value(UnspentOf(d, sh)) + value(paid)
        <3> DEFINE before == UnspentOf(d, sh)
        <3>1. before \cap paid = {}
            BY <2>1, <2>3
        <3>2. before \in SUBSET DOMAIN Values(e) /\ paid \in SUBSET DOMAIN Values(e)
            BY <2>3, <2>4
        <3> HIDE DEF before
        <3>3. value(before \cup paid) = value(before) + value(paid)
            BY <1>1, <3>1, <3>2, SumUnion
        <3> QED
            BY <3>3 DEF before
    <2>10. value(gross) = value(kept) + value(taken)
        <3>1. gross = kept \cup taken /\ kept \cap taken = {}
            BY <2>1
        <3>2. kept \in SUBSET DOMAIN Values(e) /\ taken \in SUBSET DOMAIN Values(e)
            BY <2>1, <2>3, <2>4
        <3> HIDE DEF gross, kept
        <3>3. value(kept \cup taken) = value(kept) + value(taken)
            BY <1>1, <3>1, <3>2, SumUnion
        <3> QED
            BY <3>1, <3>3
    <2> HIDE DEF gross
    <2>11. delta(HistoryOf(e, sh)) = delta(old) + delta(outs \cup ins)
        <3> DEFINE new == outs \cup ins
        <3>1. old \cap new = {} /\ HistoryOf(e, sh) = old \cup new
            BY <2>2, <2>3
        <3>2. old \in SUBSET DOMAIN Deltas(e) /\ new \in SUBSET DOMAIN Deltas(e)
            BY <2>3, <2>4
        <3> HIDE DEF new
        <3>3. delta(old \cup new) = delta(old) + delta(new)
            BY <1>1, <3>1, <3>2, SumUnion
        <3> QED
            BY <3>1, <3>3 DEF new
    <2>12. delta(outs \cup ins) = delta(outs) + delta(ins)
        <3>1. outs \in SUBSET DOMAIN Deltas(e) /\ ins \in SUBSET DOMAIN Deltas(e)
            BY <2>3, <2>4
        <3> QED
            BY <1>1, <2>3, <3>1, SumUnion
    <2>13. /\ value(kept) \in Int /\ value(taken) \in Int /\ value(paid) \in Int
           /\ value(UnspentOf(d, sh)) \in Int
        <3>1. /\ kept \in SUBSET DOMAIN Values(e) /\ taken \in SUBSET DOMAIN Values(e)
              /\ paid \in SUBSET DOMAIN Values(e) /\ UnspentOf(d, sh) \in SUBSET DOMAIN Values(e)
            BY <2>1, <2>3, <2>4 DEF kept, gross
        <3> QED
            BY <1>1, <3>1, SumRemove
    <2>14. value(UnspentOf(e, sh)) = value(kept)
        BY <2>1
    <2> HIDE DEF kept, value, delta
    <2>15. Balance(e, sh) = value(UnspentOf(d, sh)) + value(paid) - value(taken)
        BY ONLY <2>5, <2>9, <2>10, <2>13, <2>14
    <2>16. delta(outs \cup ins) = value(paid) - value(taken)
        BY ONLY <2>7, <2>8, <2>12, <2>13
    <2>17. TotalDelta(HistoryRows(e, sh))
             = value(UnspentOf(d, sh)) + (value(paid) - value(taken))
        BY ONLY <2>5, <2>6, <2>11, <2>16
    <2> QED
        BY ONLY <2>13, <2>15, <2>17
<1> QED
    BY <1>1, <1>2 DEF Counted

LEMMA EmptyCounted == Counted(EmptyDb)
<1> DEFINE v == Values(EmptyDb)
           h == Deltas(EmptyDb)
<1>1. DOMAIN EmptyDb.utxos = {} /\ DOMAIN EmptyDb.history = {}
    BY DEF EmptyDb, EmptyRows
<1>2. DOMAIN v = {} /\ DOMAIN h = {}
    BY <1>1 DEF Values, Deltas
<1> HIDE DEF v, h
<1>3. IntColumn(v) /\ IntColumn(h)
    BY <1>2, FS_EmptySet DEF IntColumn
<1>4. ASSUME NEW sh \in Script
      PROVE  Balance(EmptyDb, sh) = TotalDelta(HistoryRows(EmptyDb, sh))
    <2>1. UnspentOf(EmptyDb, sh) = {} /\ HistoryOf(EmptyDb, sh) = {}
        BY <1>1 DEF UnspentOf, HistoryOf
    <2>2. SumOf(Keep(v, {})) = 0 /\ SumOf(Keep(h, {})) = 0
        BY <1>3, SumRemove
    <2> QED
        BY <2>1, <2>2, SumsOfTables DEF v, h
<1> QED
    BY <1>3, <1>4 DEF Counted, v, h

LEMMA GrownCounted ==
    ASSUME PositionsApart, NEW d, NEW n, NEW T, Grown(d, n, T)
    PROVE  Counted(Below(d, n))
<1> DEFINE H == {k \in -1 .. n - 1 : Counted(Below(d, k + 1))}
<1>1. n \in Nat /\ n - 1 \in Int /\ n - 1 >= -1 /\ (n - 1) + 1 = n /\ -1 + 1 = 0
    BY DEF Grown
<1>2. -1 \in H
    BY <1>1, EmptyCounted DEF Grown
<1>3. ASSUME NEW k \in 0 .. n - 1, k - 1 \in H PROVE k \in H
    <2>1. Counted(Below(d, k)) /\ k \in -1 .. n - 1
        <3>1. (k - 1) + 1 = k
            BY <1>1
        <3> QED
            BY <1>1, <1>3, <3>1
    <2>2. Counted(Below(d, k + 1))
        BY <2>1, GrownSteps, NextCounted
    <2> QED
        BY <2>1, <2>2
<1> HIDE DEF H
<1>4. n - 1 \in H
    BY <1>1, <1>2, <1>3, Climb
<1> QED
    BY <1>1, <1>4 DEF H

\* With nothing but the linked blocks stored, the balance of a scripthash,
\* summed over its unspent outputs, is the sum of its history, as long as no
\* spend of a transaction takes the position of one of its outputs: no rollback,
\* no repeated block and no block of another branch, once it is rolled back, has
\* changed one table more than the other.
THEOREM BalanceIsHistory ==
    ASSUME PositionsApart
    PROVE  Spec => []BalanceMatchesHistory
<1>1. TablesInv => BalanceMatchesHistory
    <2> SUFFICES ASSUME TablesInv, Whole, NEW sh \in Script
                 PROVE  Balance(db, sh) = TotalDelta(HistoryRows(db, sh))
        BY DEF BalanceMatchesHistory
    <2> DEFINE p == Below(db, linked)
    <2>1. p.utxos = db.utxos /\ p.history = db.history
        BY WholeIsBelow
    <2>2. Counted(p)
        BY GrownCounted DEF TablesInv
    <2> HIDE DEF p
    <2>3. Balance(p, sh) = Balance(db, sh) /\ HistoryRows(p, sh) = HistoryRows(db, sh)
        BY <2>1 DEF Balance, UnspentRows, UnspentOf, HistoryRows
    <2> QED
        BY <2>2, <2>3 DEF Counted
<1> QED
    BY <1>1, TablesHold, PTL
=============================================================================
