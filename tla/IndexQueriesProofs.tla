------------------------- MODULE IndexQueriesProofs -------------------------
(* Proofs about the tables of the index. Every operation is one function of  *)
(* the database, so the argument is algebra. An operation at a height        *)
(* leaves alone what lies below it (BelowIndex, BelowRollback), whatever     *)
(* else the tables hold; on top of linked blocks, indexing a block once or   *)
(* twice is indexing it once with or without its own outputs in the tables   *)
(* beforehand. Both need what Sound says of the linked part: its rows        *)
(* belong to transactions of its chain, and an output counts as spent only   *)
(* when the chain spends it.                                                 *)
EXTENDS IndexQueries, SetLemmas, TLAPS

\* The outputs of ts whose script the parser understands.
Parsed(ts) == {o \in OutpointsOf(ts) : Outputs[o[1]][o[2]].sh # NoScript}

UtxoRow ==
    [sh : Script, value : Nat, height : Int, coinbase : BOOLEAN,
     spentBy : Tx \cup {NoTx}, spentHeight : Int]

ChainPart(d) ==
    /\ d = [blocks |-> d.blocks, headers |-> d.headers, txs |-> d.txs,
            utxos |-> d.utxos, history |-> d.history, meta |-> d.meta]
    /\ d.meta \in Int /\ d.meta >= -1
    /\ d.blocks \in [0 .. d.meta -> Blocks] /\ d.headers = d.blocks
    /\ InputsOf(OnChain(d.blocks)) \subseteq OutpointsOf(OnChain(d.blocks))

TxPart(d) ==
    /\ d.txs = [t \in OnChain(d.blocks) |-> d.txs[t]]
    /\ \A t \in OnChain(d.blocks) : d.txs[t].height \in 0 .. d.meta

UtxoPart(d) ==
    /\ d.utxos \in [Parsed(OnChain(d.blocks)) -> UtxoRow]
    /\ \A o \in DOMAIN d.utxos :
          /\ d.utxos[o].sh = Outputs[o[1]][o[2]].sh
          /\ d.utxos[o].height = d.txs[o[1]].height
          /\ d.utxos[o].spentHeight \in -1 .. d.meta
          /\ d.utxos[o].spentBy = NoTx <=> d.utxos[o].spentHeight = -1
          /\ o \in Unspent(OnChain(d.blocks)) => d.utxos[o].spentBy = NoTx

HistoryPart(d) ==
    /\ d.history = [r \in DOMAIN d.history |-> d.history[r]]
    /\ \A r \in DOMAIN d.history :
          /\ r[1] \in Script /\ r[2] \in OnChain(d.blocks)
          /\ d.history[r].height = d.txs[r[2]].height
    /\ \A o \in DOMAIN d.utxos :
          d.utxos[o].spentHeight # -1 =>
             \E r \in DOMAIN d.history :
                /\ r[1] = d.utxos[o].sh
                /\ d.history[r].height = d.utxos[o].spentHeight

Sound(d) == ChainPart(d) /\ TxPart(d) /\ UtxoPart(d) /\ HistoryPart(d)

-----------------------------------------------------------------------------
(* What the sets of the model hold.                                          *)

LEMMA Blocked ==
    ASSUME NEW b \in Blocks
    PROVE  /\ b \in [DOMAIN b -> Tx] /\ DOMAIN b \subseteq Nat
           /\ \A i \in DOMAIN b : 0 .. i \subseteq DOMAIN b
           /\ 0 \in DOMAIN b /\ DOMAIN Inputs[b[0]] = {}
           /\ InBlock(b) \subseteq Tx
    BY LedgerAssumption DEF InBlock

LEMMA InInputs ==
    ASSUME NEW ts, NEW o
    PROVE  o \in InputsOf(ts) <=> \E t \in ts : \E k \in DOMAIN Inputs[t] : o = Inputs[t][k]
    BY DEF InputsOf

LEMMA InOutpoints ==
    ASSUME NEW ts, NEW o
    PROVE  o \in OutpointsOf(ts) <=> \E t \in ts : \E v \in DOMAIN Outputs[t] : o = <<t, v>>
    BY DEF OutpointsOf

LEMMA InChain ==
    ASSUME NEW chain, NEW t
    PROVE  t \in OnChain(chain) <=> \E h \in DOMAIN chain : t \in InBlock(chain[h])
    BY DEF OnChain

LEMMA InAtOnce ==
    ASSUME NEW chain, NEW T, NEW o
    PROVE  o \in SpentAtOnce(chain, T) <=>
              \E h \in DOMAIN chain \ T : o \in SpentInside(chain[h])
    BY DEF SpentAtOnce

LEMMA InSpends ==
    ASSUME NEW d, NEW b, NEW s
    PROVE  s \in Spends(d, b) <=>
              \E i \in DOMAIN b \ {0} : \E k \in DOMAIN Inputs[b[i]] :
                 s = <<i, k>> /\ Inputs[b[i]][k] \in DOMAIN d.utxos
    BY DEF Spends

LEMMA CreatedIsParsed ==
    ASSUME NEW b
    PROVE  Created(b) = Parsed(InBlock(b))
    BY DEF Created, Parsed, OutpointsOf

LEMMA InParsed ==
    ASSUME NEW ts, NEW o
    PROVE  o \in Parsed(ts) <=>
              \E t \in ts : \E v \in DOMAIN Outputs[t] :
                 o = <<t, v>> /\ Outputs[t][v].sh # NoScript
<1>1. o \in Parsed(ts) <=> o \in OutpointsOf(ts) /\ Outputs[o[1]][o[2]].sh # NoScript
    BY DEF Parsed
<1> QED
    BY <1>1, InOutpoints

LEMMA ParsedScript ==
    ASSUME NEW ts \in SUBSET Tx, NEW o \in Parsed(ts)
    PROVE  o[1] \in ts /\ Outputs[o[1]][o[2]].sh \in Script /\ Outputs[o[1]][o[2]].value \in Nat
<1>1. PICK t \in ts : \E v \in DOMAIN Outputs[t] :
                          o = <<t, v>> /\ Outputs[t][v].sh # NoScript
    BY InParsed
<1>2. \A v \in DOMAIN Outputs[t] : Outputs[t][v] \in [sh : Script \cup {NoScript}, value : Nat]
    BY LedgerAssumption
<1> QED
    BY <1>1, <1>2

LEMMA ChainIsInTx ==
    ASSUME NEW d, ChainPart(d)
    PROVE  OnChain(d.blocks) \subseteq Tx
    BY Blocked, InChain DEF ChainPart

-----------------------------------------------------------------------------
(* Marking outputs as spent.                                                 *)

\* The spend that marks an output, one of the block's.
Marker(spends, b, o) == CHOOSE s \in {x \in spends : SpentOutpoint(b, x) = o} : TRUE

SpentRow(row, t, h) == [row EXCEPT !.spentBy = t, !.spentHeight = h]

\* The transaction it records.
Spender(d, b, o) == b[Marker(Spends(d, b), b, o)[1]]

SpentNow(d, b) == {SpentOutpoint(b, s) : s \in Spends(d, b)}

LEMMA MarkerSpends ==
    ASSUME NEW d, NEW b, NEW o \in SpentNow(d, b)
    PROVE  /\ Marker(Spends(d, b), b, o) \in Spends(d, b)
           /\ SpentOutpoint(b, Marker(Spends(d, b), b, o)) = o
    BY DEF SpentNow, Marker

LEMMA MarkedRows ==
    ASSUME NEW d, NEW u, NEW h, NEW b
    PROVE  MarkSpent(d, u, h, b) =
              [o \in DOMAIN u |->
                 IF o \notin SpentNow(d, b) THEN u[o]
                 ELSE SpentRow(u[o], Spender(d, b, o), h)]
<1>1. ASSUME NEW o
      PROVE  o \notin SpentNow(d, b) <=> {x \in Spends(d, b) : SpentOutpoint(b, x) = o} = {}
    BY DEF SpentNow
<1> QED
    BY <1>1 DEF MarkSpent, Marker, Spender, SpentRow

\* Of two marks the second counts.
LEMMA MarkedTwice ==
    ASSUME NEW row \in UtxoRow, NEW t, NEW u, NEW h
    PROVE  SpentRow(SpentRow(row, t, h), u, h) = SpentRow(row, u, h)
    BY DEF UtxoRow, SpentRow

\* What is spent has a row, and is an input of a transaction but the coinbase.
LEMMA InSpentNow ==
    ASSUME NEW d, NEW b \in Blocks, NEW o
    PROVE  o \in SpentNow(d, b) <=> o \in DOMAIN d.utxos /\ o \in InputsOf(InBlock(b))
<1>1. ASSUME o \in SpentNow(d, b) PROVE o \in DOMAIN d.utxos /\ o \in InputsOf(InBlock(b))
    <2>1. PICK s \in Spends(d, b) : o = Inputs[b[s[1]]][s[2]]
        BY <1>1 DEF SpentNow, SpentOutpoint
    <2>2. PICK i \in DOMAIN b \ {0} : \E k \in DOMAIN Inputs[b[i]] :
            s = <<i, k>> /\ Inputs[b[i]][k] \in DOMAIN d.utxos
        BY InSpends
    <2> QED
        BY <2>1, <2>2, InInputs DEF InBlock
<1>2. ASSUME o \in DOMAIN d.utxos, o \in InputsOf(InBlock(b)) PROVE o \in SpentNow(d, b)
    <2>1. PICK i \in DOMAIN b : \E k \in DOMAIN Inputs[b[i]] : o = Inputs[b[i]][k]
        BY <1>2, InInputs DEF InBlock
    <2>4. PICK k \in DOMAIN Inputs[b[i]] : o = Inputs[b[i]][k]
        BY <2>1
    <2>2. i # 0
        BY <2>1, Blocked
    <2>3. <<i, k>> \in Spends(d, b)
        BY <1>2, <2>4, <2>2, InSpends
    <2> QED
        BY <2>4, <2>3 DEF SpentNow, SpentOutpoint
<1> QED
    BY <1>1, <1>2

-----------------------------------------------------------------------------
(* What the parser sees: the tables from before the block or, when it parses *)
(* the block once more, those with the block's own outputs.                  *)

Seen(d, h, b) == [d EXCEPT !.utxos = InsertNew(d.utxos, NewUtxos(h, b))]

Views(d, b) == {d, Seen(d, d.meta + 1, b)}

\* The row _parse_transaction writes for an output.
CreatedRow(h, b, o) ==
    [sh |-> Outputs[o[1]][o[2]].sh, value |-> Outputs[o[1]][o[2]].value,
     height |-> h, coinbase |-> o[1] = b[0], spentBy |-> NoTx, spentHeight |-> -1]

LEMMA SpentRowFields ==
    ASSUME NEW row \in UtxoRow, NEW t \in Tx, NEW h \in Int
    PROVE  /\ SpentRow(row, t, h) \in UtxoRow
           /\ SpentRow(row, t, h).sh = row.sh /\ SpentRow(row, t, h).value = row.value
           /\ SpentRow(row, t, h).height = row.height
           /\ SpentRow(row, t, h).coinbase = row.coinbase
           /\ SpentRow(row, t, h).spentBy = t /\ SpentRow(row, t, h).spentHeight = h
    BY DEF UtxoRow, SpentRow

LEMMA CreatedRowFields ==
    ASSUME NEW b \in Blocks, NEW o \in Parsed(InBlock(b)), NEW h \in Int
    PROVE  /\ CreatedRow(h, b, o) \in UtxoRow
           /\ CreatedRow(h, b, o).sh = Outputs[o[1]][o[2]].sh
           /\ CreatedRow(h, b, o).value = Outputs[o[1]][o[2]].value
           /\ CreatedRow(h, b, o).height = h
           /\ CreatedRow(h, b, o).spentBy = NoTx /\ CreatedRow(h, b, o).spentHeight = -1
<1>1. Outputs[o[1]][o[2]].sh \in Script /\ Outputs[o[1]][o[2]].value \in Nat
    BY Blocked, ParsedScript
<1>2. (o[1] = b[0]) \in BOOLEAN
    OBVIOUS
<1> QED
    BY <1>1, <1>2 DEF CreatedRow, UtxoRow

LEMMA ParsedApart ==
    ASSUME NEW d, Sound(d), NEW b \in Blocks, ValidNext(d.blocks, b)
    PROVE  /\ DOMAIN d.utxos = Parsed(OnChain(d.blocks))
           /\ DOMAIN d.utxos \cap Parsed(InBlock(b)) = {}
<1>1. DOMAIN d.utxos = Parsed(OnChain(d.blocks))
    BY DEF Sound, UtxoPart
<1>2. OnChain(d.blocks) \subseteq Tx /\ InBlock(b) \subseteq Tx
    BY ChainIsInTx, Blocked DEF Sound
<1>3. InBlock(b) \cap OnChain(d.blocks) = {}
    BY DEF ValidNext
<1>4. \A o \in DOMAIN d.utxos : o[1] \in OnChain(d.blocks)
    BY <1>1, <1>2, ParsedScript
<1>5. \A o \in Parsed(InBlock(b)) : o[1] \in InBlock(b)
    BY <1>2, ParsedScript
<1> QED
    BY <1>1, <1>3, <1>4, <1>5

\* The outputs of a database together with those of a block.
WithCreated(d, b) ==
    [o \in DOMAIN d.utxos \cup Parsed(InBlock(b)) |->
        IF o \in DOMAIN d.utxos THEN d.utxos[o] ELSE CreatedRow(d.meta + 1, b, o)]

LEMMA InsertIsWithCreated ==
    ASSUME NEW d, NEW b
    PROVE  /\ InsertNew(d.utxos, NewUtxos(d.meta + 1, b)) = WithCreated(d, b)
           /\ InsertNew(WithCreated(d, b), NewUtxos(d.meta + 1, b)) = WithCreated(d, b)
<1>1. NewUtxos(d.meta + 1, b) = [o \in Parsed(InBlock(b)) |-> CreatedRow(d.meta + 1, b, o)]
    BY CreatedIsParsed DEF NewUtxos, CreatedRow
<1>2. InsertNew(d.utxos, NewUtxos(d.meta + 1, b)) = WithCreated(d, b)
    BY <1>1 DEF InsertNew, WithCreated
<1>3. DOMAIN WithCreated(d, b) = DOMAIN d.utxos \cup Parsed(InBlock(b))
    BY DEF WithCreated
<1>4. WithCreated(d, b) = [o \in DOMAIN WithCreated(d, b) |-> WithCreated(d, b)[o]]
    BY DEF WithCreated
<1>5. DOMAIN NewUtxos(d.meta + 1, b) \subseteq DOMAIN WithCreated(d, b)
    BY <1>1, <1>3
<1>6. InsertNew(WithCreated(d, b), NewUtxos(d.meta + 1, b)) = WithCreated(d, b)
    BY <1>4, <1>5 DEF InsertNew
<1> QED
    BY <1>2, <1>6

\* A view differs in the outputs only, by the block's own.
LEMMA ViewFields ==
    ASSUME NEW d, ChainPart(d), NEW b, NEW w \in Views(d, b)
    PROVE  /\ w.blocks = d.blocks /\ w.headers = d.headers /\ w.txs = d.txs
           /\ w.history = d.history /\ w.meta = d.meta
           /\ w.utxos = d.utxos \/ w.utxos = WithCreated(d, b)
           /\ InsertNew(w.utxos, NewUtxos(d.meta + 1, b)) = WithCreated(d, b)
<1>1. w = d \/ w = [d EXCEPT !.utxos = WithCreated(d, b)]
    BY InsertIsWithCreated DEF Views, Seen
<1>2. d = [blocks |-> d.blocks, headers |-> d.headers, txs |-> d.txs,
           utxos |-> d.utxos, history |-> d.history, meta |-> d.meta]
    BY DEF ChainPart
<1> DEFINE u == WithCreated(d, b)
<1> HIDE DEF u
<1>3. CASE w = d
    BY <1>3, InsertIsWithCreated
<1>4. CASE w = [d EXCEPT !.utxos = u]
    <2>1. /\ w.blocks = d.blocks /\ w.headers = d.headers /\ w.txs = d.txs
          /\ w.history = d.history /\ w.meta = d.meta /\ w.utxos = u
        BY <1>2, <1>4
    <2> QED
        BY <2>1, InsertIsWithCreated DEF u
<1> QED
    BY <1>1, <1>3, <1>4 DEF u

LEMMA ViewRows ==
    ASSUME NEW d, Sound(d), NEW b \in Blocks, ValidNext(d.blocks, b), NEW w \in Views(d, b)
    PROVE  /\ DOMAIN d.utxos \subseteq DOMAIN w.utxos
           /\ DOMAIN w.utxos \subseteq DOMAIN d.utxos \cup Parsed(InBlock(b))
           /\ \A o \in DOMAIN d.utxos : w.utxos[o] = d.utxos[o]
           /\ \A o \in DOMAIN w.utxos :
                 /\ w.utxos[o] = WithCreated(d, b)[o] /\ w.utxos[o] \in UtxoRow
                 /\ w.utxos[o].sh = Outputs[o[1]][o[2]].sh
<1>1. w.utxos = d.utxos \/ w.utxos = WithCreated(d, b)
    BY ViewFields DEF Sound
<1>2. d.meta \in Int /\ d.meta + 1 \in Int
    BY DEF Sound, ChainPart
<1>3. \A o \in DOMAIN d.utxos : d.utxos[o] \in UtxoRow /\ d.utxos[o].sh = Outputs[o[1]][o[2]].sh
    BY DEF Sound, UtxoPart
<1>4. \A o \in Parsed(InBlock(b)) :
         /\ CreatedRow(d.meta + 1, b, o) \in UtxoRow
         /\ CreatedRow(d.meta + 1, b, o).sh = Outputs[o[1]][o[2]].sh
    BY <1>2, CreatedRowFields
<1> QED
    BY <1>1, <1>3, <1>4 DEF WithCreated

-----------------------------------------------------------------------------
(* The next block.                                                           *)

LEMMA UnionOfSets ==
    ASSUME NEW A, NEW B
    PROVE  /\ InputsOf(A \cup B) = InputsOf(A) \cup InputsOf(B)
           /\ OutpointsOf(A \cup B) = OutpointsOf(A) \cup OutpointsOf(B)
           /\ Parsed(A \cup B) = Parsed(A) \cup Parsed(B)
<1>1. InputsOf(A \cup B) = InputsOf(A) \cup InputsOf(B)
    BY InInputs
<1>2. OutpointsOf(A \cup B) = OutpointsOf(A) \cup OutpointsOf(B)
    BY InOutpoints
<1> QED
    BY <1>1, <1>2 DEF Parsed

\* A valid block brings new transactions, which spend what nobody has spent.
LEMMA ValidBlock ==
    ASSUME NEW chain, NEW b \in Blocks, ValidNext(chain, b)
    PROVE  /\ InBlock(b) \cap OnChain(chain) = {}
           /\ InputsOf(InBlock(b)) \cap InputsOf(OnChain(chain)) = {}
           /\ InputsOf(InBlock(b)) \subseteq OutpointsOf(OnChain(chain) \cup InBlock(b))
<1>1. ASSUME NEW o \in InputsOf(InBlock(b))
      PROVE  /\ o \notin InputsOf(OnChain(chain))
             /\ o \in OutpointsOf(OnChain(chain) \cup InBlock(b))
    <2>1. PICK i \in DOMAIN b : \E k \in DOMAIN Inputs[b[i]] : o = Inputs[b[i]][k]
        BY InInputs DEF InBlock
    <2>2. o \in InputsOf({b[i]})
        BY <2>1, InInputs
    <2> DEFINE earlier == {b[j] : j \in 0 .. (i - 1)}
    <2>3. o \in OutpointsOf(OnChain(chain) \cup earlier) \ InputsOf(OnChain(chain) \cup earlier)
        BY <2>2 DEF ValidNext, Unspent
    <2>4. earlier \subseteq InBlock(b)
        <3>1. i \in Nat /\ 0 .. i \subseteq DOMAIN b
            BY Blocked
        <3> QED
            BY <3>1 DEF InBlock
    <2> HIDE DEF earlier
    <2>5. o \in OutpointsOf(OnChain(chain) \cup InBlock(b))
        BY <2>3, <2>4, InOutpoints
    <2>6. o \notin InputsOf(OnChain(chain))
        <3>1. InputsOf(OnChain(chain) \cup earlier) = InputsOf(OnChain(chain)) \cup InputsOf(earlier)
            BY UnionOfSets
        <3> QED
            BY <2>3, <3>1
    <2> QED
        BY <2>5, <2>6
<1> QED
    BY <1>1 DEF ValidNext

LEMMA NextChain ==
    ASSUME NEW d, ChainPart(d), NEW b \in Blocks, ValidNext(d.blocks, b),
           NEW w \in Views(d, b), NEW e, e = Index(w, d.meta + 1, b)
    PROVE  /\ ChainPart(e) /\ e.meta = d.meta + 1
           /\ e.blocks[e.meta] = b /\ DOMAIN e.blocks = DOMAIN d.blocks \cup {e.meta}
           /\ \A g \in DOMAIN d.blocks : e.blocks[g] = d.blocks[g]
           /\ OnChain(e.blocks) = OnChain(d.blocks) \cup InBlock(b)
<1>1. /\ e.meta = d.meta + 1 /\ e.headers = e.blocks
      /\ e.blocks = Upsert(d.blocks, [x \in {d.meta + 1} |-> b])
      /\ e = [blocks |-> e.blocks, headers |-> e.headers, txs |-> e.txs,
              utxos |-> e.utxos, history |-> e.history, meta |-> e.meta]
    BY ViewFields DEF Index, ChainPart
<1>2. /\ DOMAIN e.blocks = DOMAIN d.blocks \cup {e.meta}
      /\ e.blocks = [k \in DOMAIN e.blocks |-> e.blocks[k]]
      /\ \A g \in DOMAIN e.blocks : e.blocks[g] = IF g = e.meta THEN b ELSE d.blocks[g]
    BY <1>1 DEF Upsert
<1>3. /\ d.meta \in Int /\ d.meta >= -1 /\ DOMAIN d.blocks = 0 .. d.meta
      /\ \A g \in DOMAIN d.blocks : d.blocks[g] \in Blocks
    BY DEF ChainPart
<1>4. DOMAIN e.blocks = 0 .. e.meta
    <2>1. (0 .. d.meta) \cup {d.meta + 1} = 0 .. (d.meta + 1)
        BY <1>3
    <2> QED
        BY <1>1, <1>2, <1>3, <2>1
<1>5. e.meta \notin DOMAIN d.blocks
    BY <1>1, <1>3
<1>6. \A t : t \in OnChain(e.blocks) <=> t \in OnChain(d.blocks) \/ t \in InBlock(b)
    BY <1>2, <1>5, InChain
<1>7. OnChain(e.blocks) = OnChain(d.blocks) \cup InBlock(b)
    BY <1>6
<1>8. InputsOf(OnChain(e.blocks)) \subseteq OutpointsOf(OnChain(e.blocks))
    <2>1. InputsOf(OnChain(d.blocks)) \subseteq OutpointsOf(OnChain(d.blocks))
        BY DEF ChainPart
    <2>2. InputsOf(InBlock(b)) \subseteq OutpointsOf(OnChain(d.blocks) \cup InBlock(b))
        BY ValidBlock
    <2> DEFINE old == OnChain(d.blocks)
               new == InBlock(b)
    <2>3. /\ InputsOf(old \cup new) = InputsOf(old) \cup InputsOf(new)
          /\ OutpointsOf(old \cup new) = OutpointsOf(old) \cup OutpointsOf(new)
        BY UnionOfSets
    <2> QED
        BY <1>7, <2>1, <2>2, <2>3
<1>9. e.blocks \in [0 .. e.meta -> Blocks]
    <2>1. \A g \in DOMAIN e.blocks : e.blocks[g] \in Blocks
        BY <1>2, <1>3
    <2> QED
        BY <1>2, <1>4, <2>1
<1>10. e.meta \in Int /\ e.meta >= -1
    BY <1>1, <1>3
<1>11. ChainPart(e)
    BY <1>1, <1>8, <1>9, <1>10 DEF ChainPart
<1>12. e.blocks[e.meta] = b /\ \A g \in DOMAIN d.blocks : e.blocks[g] = d.blocks[g]
    BY <1>2, <1>5
<1> QED
    BY <1>1, <1>2, <1>7, <1>11, <1>12

LEMMA NextTxs ==
    ASSUME NEW d, Sound(d), NEW b \in Blocks, ValidNext(d.blocks, b),
           NEW w \in Views(d, b), NEW e, e = Index(w, d.meta + 1, b)
    PROVE  /\ TxPart(e)
           /\ \A t \in OnChain(d.blocks) : e.txs[t] = d.txs[t]
           /\ \A t \in InBlock(b) : e.txs[t].height = e.meta
<1> DEFINE row(t) == [block |-> b, height |-> d.meta + 1, index |-> IndexOf(b, t)]
<1>1. e.txs = Upsert(d.txs, [t \in InBlock(b) |-> row(t)])
    BY ViewFields DEF Index, Sound
<1>2. /\ OnChain(e.blocks) = OnChain(d.blocks) \cup InBlock(b) /\ e.meta = d.meta + 1
      /\ d.meta \in Int /\ d.meta >= -1
    <2>1. ChainPart(d)
        BY DEF Sound
    <2>2. OnChain(e.blocks) = OnChain(d.blocks) \cup InBlock(b) /\ e.meta = d.meta + 1
        BY <2>1, NextChain
    <2> QED
        BY <2>1, <2>2 DEF ChainPart
<1>3. DOMAIN d.txs = OnChain(d.blocks)
    BY DEF Sound, TxPart
<1>4. \A t \in InBlock(b) : row(t).height = e.meta
    BY <1>2
<1> HIDE DEF row
<1>5. /\ e.txs = [t \in OnChain(e.blocks) |-> IF t \in InBlock(b) THEN row(t) ELSE d.txs[t]]
    BY <1>1, <1>2, <1>3 DEF Upsert
<1>6. \A t \in OnChain(d.blocks) : e.txs[t] = d.txs[t] /\ d.txs[t].height \in 0 .. d.meta
    BY <1>2, <1>5, ValidBlock DEF Sound, TxPart
<1>7. \A t \in InBlock(b) : e.txs[t].height = e.meta
    BY <1>2, <1>4, <1>5
<1>8. \A t \in OnChain(e.blocks) : e.txs[t].height \in 0 .. e.meta
    BY <1>2, <1>6, <1>7
<1> QED
    BY <1>5, <1>6, <1>7, <1>8 DEF TxPart

\* What Index makes of the outputs: it adds rows for the block's own and marks
\* rows that were unspent.
RowsExtend(d, w, b, e) ==
    /\ e.utxos = [o \in DOMAIN d.utxos \cup Parsed(InBlock(b)) |-> e.utxos[o]]
    /\ DOMAIN d.utxos \cap Parsed(InBlock(b)) = {}
    /\ \A o \in Parsed(InBlock(b)) : o \notin DOMAIN w.utxos \/ o \notin InputsOf(InBlock(b)) =>
          e.utxos[o] = CreatedRow(e.meta, b, o)
    /\ \A o \in Parsed(InBlock(b)) : o \in DOMAIN w.utxos /\ o \in InputsOf(InBlock(b)) =>
          \E t \in Tx : e.utxos[o] = SpentRow(CreatedRow(e.meta, b, o), t, e.meta)
    /\ \A o \in DOMAIN d.utxos : o \notin InputsOf(InBlock(b)) => e.utxos[o] = d.utxos[o]
    /\ \A o \in DOMAIN d.utxos : o \in InputsOf(InBlock(b)) =>
          /\ d.utxos[o].spentBy = NoTx /\ d.utxos[o].spentHeight = -1
          /\ \E t \in Tx : e.utxos[o] = SpentRow(d.utxos[o], t, e.meta)

LEMMA SpenderTyped ==
    ASSUME NEW w, NEW b \in Blocks, NEW o \in SpentNow(w, b)
    PROVE  Spender(w, b, o) \in Tx
<1>1. Marker(Spends(w, b), b, o) \in Spends(w, b)
    BY MarkerSpends
<1>2. Marker(Spends(w, b), b, o)[1] \in DOMAIN b
    BY <1>1, InSpends
<1> QED
    BY <1>2, Blocked DEF Spender

LEMMA NextRows ==
    ASSUME NEW d, Sound(d), NEW b \in Blocks, ValidNext(d.blocks, b),
           NEW w \in Views(d, b), NEW e, e = Index(w, d.meta + 1, b)
    PROVE  RowsExtend(d, w, b, e)
<1> DEFINE new == WithCreated(d, b)
<1>1. e.utxos = MarkSpent(w, new, d.meta + 1, b) /\ e.meta = d.meta + 1
    BY ViewFields DEF Index, Sound
<1>2. DOMAIN d.utxos = Parsed(OnChain(d.blocks))
    BY DEF Sound, UtxoPart
<1>3. DOMAIN d.utxos \cap Parsed(InBlock(b)) = {}
    BY ParsedApart
<1>5. /\ DOMAIN new = DOMAIN d.utxos \cup Parsed(InBlock(b))
      /\ \A o \in DOMAIN d.utxos : new[o] = d.utxos[o]
      /\ \A o \in Parsed(InBlock(b)) : new[o] = CreatedRow(d.meta + 1, b, o)
    BY <1>3 DEF WithCreated
<1> HIDE DEF new
<1>6. e.utxos = [o \in DOMAIN new |-> IF o \notin SpentNow(w, b) THEN new[o]
                                      ELSE SpentRow(new[o], Spender(w, b, o), d.meta + 1)]
    BY <1>1, MarkedRows
<1>7. \A o \in SpentNow(w, b) : Spender(w, b, o) \in Tx
    BY SpenderTyped
<1>8. \A o \in DOMAIN d.utxos : o \in InputsOf(InBlock(b)) =>
         d.utxos[o].spentBy = NoTx /\ d.utxos[o].spentHeight = -1
    <2>1. SUFFICES ASSUME NEW o \in DOMAIN d.utxos, o \in InputsOf(InBlock(b))
                   PROVE  d.utxos[o].spentBy = NoTx /\ d.utxos[o].spentHeight = -1
        OBVIOUS
    <2>2. o \notin InputsOf(OnChain(d.blocks))
        BY <2>1, ValidBlock
    <2>3. o \in OutpointsOf(OnChain(d.blocks))
        BY <1>2 DEF Parsed
    <2>4. o \in Unspent(OnChain(d.blocks))
        BY <2>2, <2>3 DEF Unspent
    <2> QED
        BY <2>4 DEF Sound, UtxoPart
<1>9. \A o : o \in SpentNow(w, b) <=> o \in DOMAIN w.utxos /\ o \in InputsOf(InBlock(b))
    BY InSpentNow
<1>10. DOMAIN d.utxos \subseteq DOMAIN w.utxos
    BY ViewRows
<1> QED
    BY <1>1, <1>3, <1>5, <1>6, <1>7, <1>8, <1>9, <1>10 DEF RowsExtend

\* The row of an output the block creates.
LEMMA NewRowFields ==
    ASSUME NEW d, Sound(d), NEW b \in Blocks, ValidNext(d.blocks, b),
           NEW w \in Views(d, b), NEW e, e = Index(w, d.meta + 1, b),
           NEW o \in Parsed(InBlock(b))
    PROVE  /\ e.utxos[o] \in UtxoRow /\ e.utxos[o].height = e.meta
           /\ e.utxos[o].sh = Outputs[o[1]][o[2]].sh
           /\ e.utxos[o].value = Outputs[o[1]][o[2]].value
           /\ o \notin DOMAIN w.utxos \/ o \notin InputsOf(InBlock(b)) =>
                 e.utxos[o].spentBy = NoTx /\ e.utxos[o].spentHeight = -1
           /\ o \in DOMAIN w.utxos /\ o \in InputsOf(InBlock(b)) =>
                 e.utxos[o].spentBy # NoTx /\ e.utxos[o].spentHeight = e.meta
<1> DEFINE row == CreatedRow(e.meta, b, o)
<1>1. RowsExtend(d, w, b, e) /\ e.meta \in Int /\ NoTx \notin Tx
    BY NextRows, NextChain, TablesAssumption DEF Sound, ChainPart
<1>2. /\ row \in UtxoRow /\ row.sh = Outputs[o[1]][o[2]].sh
      /\ row.value = Outputs[o[1]][o[2]].value /\ row.height = e.meta
      /\ row.spentBy = NoTx /\ row.spentHeight = -1
    BY <1>1, CreatedRowFields
<1> HIDE DEF row
<1>3. CASE o \notin DOMAIN w.utxos \/ o \notin InputsOf(InBlock(b))
    <2>1. e.utxos[o] = row
        BY <1>1, <1>3 DEF RowsExtend, row
    <2> QED
        BY <1>2, <1>3, <2>1
<1>4. CASE o \in DOMAIN w.utxos /\ o \in InputsOf(InBlock(b))
    <2>1. PICK t \in Tx : e.utxos[o] = SpentRow(row, t, e.meta)
        BY <1>1, <1>4 DEF RowsExtend, row
    <2>2. row \in UtxoRow /\ e.meta \in Int
        BY ONLY <1>1, <1>2
    <2>3. /\ SpentRow(row, t, e.meta) \in UtxoRow /\ SpentRow(row, t, e.meta).sh = row.sh
          /\ SpentRow(row, t, e.meta).value = row.value
          /\ SpentRow(row, t, e.meta).height = row.height
          /\ SpentRow(row, t, e.meta).spentBy = t
          /\ SpentRow(row, t, e.meta).spentHeight = e.meta
        BY ONLY <2>2, SpentRowFields, t \in Tx
    <2> QED
        BY <1>1, <1>2, <1>4, <2>1, <2>3
<1> QED
    BY <1>3, <1>4

\* The row of an output that was there before.
LEMMA OldRowFields ==
    ASSUME NEW d, Sound(d), NEW b \in Blocks, ValidNext(d.blocks, b),
           NEW w \in Views(d, b), NEW e, e = Index(w, d.meta + 1, b),
           NEW o \in DOMAIN d.utxos
    PROVE  /\ e.utxos[o] \in UtxoRow /\ e.utxos[o].height = d.utxos[o].height
           /\ e.utxos[o].sh = d.utxos[o].sh /\ e.utxos[o].value = d.utxos[o].value
           /\ o \notin InputsOf(InBlock(b)) => e.utxos[o] = d.utxos[o]
           /\ o \in InputsOf(InBlock(b)) =>
                 /\ d.utxos[o].spentBy = NoTx /\ d.utxos[o].spentHeight = -1
                 /\ e.utxos[o].spentBy # NoTx /\ e.utxos[o].spentHeight = e.meta
<1> DEFINE row == d.utxos[o]
<1>1. RowsExtend(d, w, b, e) /\ e.meta \in Int /\ NoTx \notin Tx
    BY NextRows, NextChain, TablesAssumption DEF Sound, ChainPart
<1>2. row \in UtxoRow
    BY DEF Sound, UtxoPart
<1>3. CASE o \notin InputsOf(InBlock(b))
    <2>1. e.utxos[o] = row
        BY <1>1, <1>3 DEF RowsExtend
    <2> QED
        BY <1>2, <1>3, <2>1
<1>4. CASE o \in InputsOf(InBlock(b))
    <2>1. /\ row.spentBy = NoTx /\ row.spentHeight = -1
          /\ \E t \in Tx : e.utxos[o] = SpentRow(row, t, e.meta)
        BY <1>1, <1>4 DEF RowsExtend
    <2> HIDE DEF row
    <2>2. PICK t \in Tx : e.utxos[o] = SpentRow(row, t, e.meta)
        BY <2>1
    <2>3. /\ SpentRow(row, t, e.meta) \in UtxoRow /\ SpentRow(row, t, e.meta).sh = row.sh
          /\ SpentRow(row, t, e.meta).value = row.value
          /\ SpentRow(row, t, e.meta).height = row.height
          /\ SpentRow(row, t, e.meta).spentBy = t
          /\ SpentRow(row, t, e.meta).spentHeight = e.meta
        BY <1>1, <1>2, SpentRowFields
    <2> QED
        BY <1>1, <1>2, <1>4, <2>1, <2>2, <2>3 DEF row
<1> QED
    BY <1>3, <1>4

LEMMA NextUtxos ==
    ASSUME NEW d, Sound(d), NEW b \in Blocks, ValidNext(d.blocks, b),
           NEW w \in Views(d, b), NEW e, e = Index(w, d.meta + 1, b)
    PROVE  UtxoPart(e)
<1> DEFINE old == OnChain(d.blocks)
           new == InBlock(b)
<1>1. /\ e.meta = d.meta + 1 /\ d.meta \in Int /\ d.meta >= -1
      /\ OnChain(e.blocks) = old \cup new
    <2>1. ChainPart(d) /\ d.meta \in Int /\ d.meta >= -1
        BY DEF Sound, ChainPart
    <2>2. e.meta = d.meta + 1 /\ OnChain(e.blocks) = old \cup new
        BY <2>1, NextChain
    <2> QED
        BY <2>1, <2>2
<1>2. /\ Parsed(old \cup new) = Parsed(old) \cup Parsed(new)
      /\ InputsOf(old \cup new) = InputsOf(old) \cup InputsOf(new)
    BY UnionOfSets
<1>3. /\ DOMAIN d.utxos = Parsed(old)
      /\ e.utxos = [o \in Parsed(old) \cup Parsed(new) |-> e.utxos[o]]
    BY ParsedApart, NextRows DEF RowsExtend
<1>4. old \subseteq Tx /\ new \subseteq Tx
    BY ChainIsInTx, Blocked DEF Sound
<1>5. /\ \A t \in old : e.txs[t] = d.txs[t]
      /\ \A t \in new : e.txs[t].height = e.meta
    BY NextTxs
<1>6. ASSUME NEW o \in Parsed(new)
      PROVE  /\ e.utxos[o] \in UtxoRow /\ e.utxos[o].sh = Outputs[o[1]][o[2]].sh
             /\ e.utxos[o].height = e.txs[o[1]].height
             /\ e.utxos[o].spentHeight \in -1 .. e.meta
             /\ e.utxos[o].spentBy = NoTx <=> e.utxos[o].spentHeight = -1
             /\ o \notin InputsOf(new) => e.utxos[o].spentBy = NoTx
    <2>1. /\ e.utxos[o] \in UtxoRow /\ e.utxos[o].height = e.meta
          /\ e.utxos[o].sh = Outputs[o[1]][o[2]].sh
          /\ \/ e.utxos[o].spentBy = NoTx /\ e.utxos[o].spentHeight = -1
             \/ /\ o \in InputsOf(new)
                /\ e.utxos[o].spentBy # NoTx /\ e.utxos[o].spentHeight = e.meta
        BY NewRowFields
    <2>2. o[1] \in new
        BY <1>4, ParsedScript
    <2> QED
        BY <1>1, <1>5, <2>1, <2>2
<1>7. ASSUME NEW o \in Parsed(old)
      PROVE  /\ e.utxos[o] \in UtxoRow /\ e.utxos[o].sh = Outputs[o[1]][o[2]].sh
             /\ e.utxos[o].height = e.txs[o[1]].height
             /\ e.utxos[o].spentHeight \in -1 .. e.meta
             /\ e.utxos[o].spentBy = NoTx <=> e.utxos[o].spentHeight = -1
             /\ o \in Unspent(old) /\ o \notin InputsOf(new) => e.utxos[o].spentBy = NoTx
    <2>1. /\ d.utxos[o].sh = Outputs[o[1]][o[2]].sh
          /\ d.utxos[o].height = d.txs[o[1]].height
          /\ d.utxos[o].spentHeight \in -1 .. d.meta
          /\ d.utxos[o].spentBy = NoTx <=> d.utxos[o].spentHeight = -1
          /\ o \in Unspent(old) => d.utxos[o].spentBy = NoTx
        BY <1>3 DEF Sound, UtxoPart
    <2>2. o[1] \in old
        BY <1>4, ParsedScript
    <2>3. /\ e.utxos[o] \in UtxoRow /\ e.utxos[o].height = d.utxos[o].height
          /\ e.utxos[o].sh = d.utxos[o].sh
          /\ o \notin InputsOf(new) => e.utxos[o] = d.utxos[o]
          /\ o \in InputsOf(new) =>
                e.utxos[o].spentBy # NoTx /\ e.utxos[o].spentHeight = e.meta
        BY <1>3, OldRowFields
    <2>4. e.meta # -1 /\ e.meta \in -1 .. e.meta /\ \A n \in -1 .. d.meta : n \in -1 .. e.meta
        BY <1>1
    <2> HIDE DEF old, new
    <2> QED
        BY <1>5, <2>1, <2>2, <2>3, <2>4
<1>8. \A o : o \in Unspent(OnChain(e.blocks)) =>
               o \notin InputsOf(new) /\ (o \in OutpointsOf(old) => o \in Unspent(old))
    BY <1>1, <1>2 DEF Unspent
<1>9. \A o \in Parsed(old) : o \in OutpointsOf(old)
    BY DEF Parsed
<1>10. e.utxos \in [Parsed(OnChain(e.blocks)) -> UtxoRow]
    BY <1>1, <1>2, <1>3, <1>6, <1>7
<1> HIDE DEF old, new
<1>11. ASSUME NEW o \in DOMAIN e.utxos
       PROVE  /\ e.utxos[o].sh = Outputs[o[1]][o[2]].sh
              /\ e.utxos[o].height = e.txs[o[1]].height
              /\ e.utxos[o].spentHeight \in -1 .. e.meta
              /\ e.utxos[o].spentBy = NoTx <=> e.utxos[o].spentHeight = -1
              /\ o \in Unspent(OnChain(e.blocks)) => e.utxos[o].spentBy = NoTx
    <2>1. o \in Parsed(old) \/ o \in Parsed(new)
        BY <1>3, <1>11
    <2> QED
        BY <1>6, <1>7, <1>8, <1>9, <2>1
<1> QED
    BY <1>10, <1>11 DEF UtxoPart

-----------------------------------------------------------------------------
(* The rows of history a block adds.                                         *)

OutputKey(b, o) == <<Outputs[o[1]][o[2]].sh, o[1], OutputPos(IndexOf(b, o[1]), o[2])>>

SpendKey(d, b, s) == <<d.utxos[SpentOutpoint(b, s)].sh, b[s[1]], SpendPos(s[1], s[2])>>

NewKeys(d, b) ==
    {OutputKey(b, o) : o \in Created(b)} \cup {SpendKey(d, b, s) : s \in Spends(d, b)}

LEMMA NewHistoryRows ==
    ASSUME NEW d, NEW h, NEW b
    PROVE  LET n == NewHistory(d, h, b)
           IN n = [r \in NewKeys(d, b) |-> n[r]] /\ \A r \in NewKeys(d, b) : n[r].height = h
<1> DEFINE outs == OutputHistory(h, b)
           ins == SpendHistory(d, h, b)
<1>1. /\ DOMAIN outs = {OutputKey(b, o) : o \in Created(b)}
      /\ \A r \in DOMAIN outs : outs[r].height = h
    BY DEF OutputHistory, OutputKey
<1>2. /\ DOMAIN ins = {SpendKey(d, b, s) : s \in Spends(d, b)}
      /\ \A r \in DOMAIN ins : ins[r].height = h
    BY DEF SpendHistory, SpendKey
<1>3. NewHistory(d, h, b) = InsertNew(outs, ins)
    BY DEF NewHistory
<1> HIDE DEF outs, ins
<1> QED
    BY <1>1, <1>2, <1>3 DEF InsertNew, NewKeys

\* They are of known scripts and of transactions of the block.
LEMMA KeysTyped ==
    ASSUME NEW w, \A o \in DOMAIN w.utxos : w.utxos[o] \in UtxoRow, NEW b \in Blocks,
           NEW r \in NewKeys(w, b)
    PROVE  r[1] \in Script /\ r[2] \in InBlock(b)
<1>1. CASE r \in {OutputKey(b, o) : o \in Created(b)}
    <2>1. PICK o \in Parsed(InBlock(b)) : r = OutputKey(b, o)
        BY <1>1, CreatedIsParsed
    <2>2. o[1] \in InBlock(b) /\ Outputs[o[1]][o[2]].sh \in Script
        BY Blocked, ParsedScript
    <2> QED
        BY <2>1, <2>2 DEF OutputKey
<1>2. CASE r \in {SpendKey(w, b, s) : s \in Spends(w, b)}
    <2>1. PICK s \in Spends(w, b) : r = SpendKey(w, b, s)
        BY <1>2
    <2>2. PICK i \in DOMAIN b \ {0} : \E k \in DOMAIN Inputs[b[i]] :
            s = <<i, k>> /\ Inputs[b[i]][k] \in DOMAIN w.utxos
        BY InSpends
    <2>3. b[s[1]] \in InBlock(b) /\ SpentOutpoint(b, s) \in DOMAIN w.utxos
        BY <2>2 DEF InBlock, SpentOutpoint
    <2>4. w.utxos[SpentOutpoint(b, s)] \in UtxoRow
        BY <2>3
    <2>5. w.utxos[SpentOutpoint(b, s)].sh \in Script
        BY <2>4 DEF UtxoRow
    <2> QED
        BY <2>1, <2>3, <2>5 DEF SpendKey
<1> QED
    BY <1>1, <1>2 DEF NewKeys

LEMMA NewKeysTyped ==
    ASSUME NEW d, Sound(d), NEW b \in Blocks, ValidNext(d.blocks, b), NEW w \in Views(d, b),
           NEW r \in NewKeys(w, b)
    PROVE  r[1] \in Script /\ r[2] \in InBlock(b)
    BY ViewRows, KeysTyped

\* Every spend is in the history of the script it takes from.
LEMMA SpendHasKey ==
    ASSUME NEW d, NEW b, NEW o \in SpentNow(d, b)
    PROVE  \E r \in NewKeys(d, b) : r[1] = d.utxos[o].sh
<1>1. PICK s \in Spends(d, b) : o = SpentOutpoint(b, s)
    BY DEF SpentNow
<1>2. SpendKey(d, b, s)[1] = d.utxos[o].sh
    BY <1>1 DEF SpendKey
<1>3. SpendKey(d, b, s) \in NewKeys(d, b)
    BY <1>1 DEF NewKeys
<1> QED
    BY <1>2, <1>3

\* What Index makes of the history: it adds rows at the height of the block.
HistoryExtends(d, w, b, e) ==
    /\ e.history = [r \in DOMAIN d.history \cup NewKeys(w, b) |-> e.history[r]]
    /\ DOMAIN d.history \cap NewKeys(w, b) = {}
    /\ \A r \in DOMAIN d.history : e.history[r] = d.history[r]
    /\ \A r \in NewKeys(w, b) : e.history[r].height = e.meta

LEMMA NextHistoryRows ==
    ASSUME NEW d, Sound(d), NEW b \in Blocks, ValidNext(d.blocks, b),
           NEW w \in Views(d, b), NEW e, e = Index(w, d.meta + 1, b)
    PROVE  HistoryExtends(d, w, b, e)
<1> DEFINE n == NewHistory(w, e.meta, b)
<1>1. e.history = InsertNew(d.history, n)
    BY ViewFields DEF Index, Sound
<1>2. n = [r \in NewKeys(w, b) |-> n[r]] /\ \A r \in NewKeys(w, b) : n[r].height = e.meta
    BY NewHistoryRows
<1>3. ASSUME NEW r \in DOMAIN d.history PROVE r \notin NewKeys(w, b)
    <2>1. r[2] \in OnChain(d.blocks)
        BY DEF Sound, HistoryPart
    <2>2. r[2] \notin InBlock(b)
        BY <2>1, ValidBlock
    <2> QED
        BY <2>2, NewKeysTyped
<1> HIDE DEF n
<1> QED
    BY <1>1, <1>2, <1>3 DEF InsertNew, HistoryExtends

LEMMA NextHistory ==
    ASSUME NEW d, Sound(d), NEW b \in Blocks, ValidNext(d.blocks, b),
           NEW w \in Views(d, b), NEW e, e = Index(w, d.meta + 1, b)
    PROVE  HistoryPart(e)
<1> HistoryExtends(d, w, b, e)
    BY NextHistoryRows
<1>1. OnChain(e.blocks) = OnChain(d.blocks) \cup InBlock(b)
    <2>1. ChainPart(d)
        BY DEF Sound
    <2> QED
        BY <2>1, NextChain
<1>2. /\ \A t \in OnChain(d.blocks) : e.txs[t] = d.txs[t]
      /\ \A t \in InBlock(b) : e.txs[t].height = e.meta
    BY NextTxs
<1>3. DOMAIN e.history = DOMAIN d.history \cup NewKeys(w, b)
    BY DEF HistoryExtends
<1>4. ASSUME NEW r \in DOMAIN d.history
      PROVE  /\ r[1] \in Script /\ r[2] \in OnChain(e.blocks)
             /\ e.history[r].height = e.txs[r[2]].height
    <2>1. /\ r[1] \in Script /\ r[2] \in OnChain(d.blocks)
          /\ d.history[r].height = d.txs[r[2]].height
        BY DEF Sound, HistoryPart
    <2>2. e.history[r] = d.history[r]
        BY DEF HistoryExtends
    <2> QED
        BY <1>1, <1>2, <2>1, <2>2
<1>5. ASSUME NEW r \in NewKeys(w, b)
      PROVE  /\ r[1] \in Script /\ r[2] \in OnChain(e.blocks)
             /\ e.history[r].height = e.txs[r[2]].height
    <2>1. r[1] \in Script /\ r[2] \in InBlock(b)
        BY NewKeysTyped
    <2>2. e.history[r].height = e.meta
        BY DEF HistoryExtends
    <2> QED
        BY <1>1, <1>2, <2>1, <2>2
<1>6. ASSUME NEW o \in DOMAIN e.utxos, e.utxos[o].spentHeight # -1
      PROVE  \E r \in DOMAIN e.history : /\ r[1] = e.utxos[o].sh
                                         /\ e.history[r].height = e.utxos[o].spentHeight
    <2>1. ASSUME o \in DOMAIN w.utxos, o \in InputsOf(InBlock(b)),
                 e.utxos[o].sh = Outputs[o[1]][o[2]].sh, e.utxos[o].spentHeight = e.meta
          PROVE  \E r \in DOMAIN e.history : /\ r[1] = e.utxos[o].sh
                                             /\ e.history[r].height = e.utxos[o].spentHeight
        <3>1. o \in SpentNow(w, b)
            BY <2>1, InSpentNow
        <3>2. PICK r \in NewKeys(w, b) : r[1] = w.utxos[o].sh
            BY <3>1, SpendHasKey
        <3>3. w.utxos[o].sh = Outputs[o[1]][o[2]].sh
            BY <2>1, ViewRows
        <3>4. e.history[r].height = e.meta
            BY DEF HistoryExtends
        <3> QED
            BY <1>3, <2>1, <3>2, <3>3, <3>4
    <2>2. CASE o \in Parsed(InBlock(b))
        <3>1. /\ e.utxos[o].sh = Outputs[o[1]][o[2]].sh
              /\ o \notin DOMAIN w.utxos \/ o \notin InputsOf(InBlock(b)) =>
                    e.utxos[o].spentHeight = -1
              /\ o \in DOMAIN w.utxos /\ o \in InputsOf(InBlock(b)) =>
                    e.utxos[o].spentHeight = e.meta
            BY <2>2, NewRowFields
        <3> QED
            BY <1>6, <2>1, <3>1
    <2>3. CASE o \in DOMAIN d.utxos
        <3>1. /\ e.utxos[o].sh = d.utxos[o].sh
              /\ o \notin InputsOf(InBlock(b)) => e.utxos[o] = d.utxos[o]
              /\ o \in InputsOf(InBlock(b)) => e.utxos[o].spentHeight = e.meta
            BY <2>3, OldRowFields
        <3>2. o \in DOMAIN w.utxos
            BY <2>3, ViewRows
        <3>3. d.utxos[o].sh = Outputs[o[1]][o[2]].sh
            BY <2>3 DEF Sound, UtxoPart
        <3>4. CASE o \in InputsOf(InBlock(b))
            BY <2>1, <3>1, <3>2, <3>3, <3>4
        <3>5. CASE o \notin InputsOf(InBlock(b))
            <4>1. PICK r \in DOMAIN d.history : /\ r[1] = d.utxos[o].sh
                                                /\ d.history[r].height = d.utxos[o].spentHeight
                BY <1>6, <2>3, <3>1, <3>5 DEF Sound, HistoryPart
            <4>2. e.history[r] = d.history[r]
                BY DEF HistoryExtends
            <4> QED
                BY <1>3, <3>1, <3>5, <4>1, <4>2
        <3> QED
            BY <3>4, <3>5
    <2>4. o \in DOMAIN d.utxos \/ o \in Parsed(InBlock(b))
        <3>1. RowsExtend(d, w, b, e)
            BY NextRows
        <3> QED
            BY <1>6, <3>1 DEF RowsExtend
    <2> QED
        BY <2>2, <2>3, <2>4
<1>7. e.history = [r \in DOMAIN e.history |-> e.history[r]]
    BY DEF HistoryExtends
<1> QED
    BY <1>3, <1>4, <1>5, <1>6, <1>7 DEF HistoryPart

\* A database is sound, and stays so with every block.
LEMMA NextSound ==
    ASSUME NEW d, Sound(d), NEW b \in Blocks, ValidNext(d.blocks, b),
           NEW w \in Views(d, b), NEW e, e = Index(w, d.meta + 1, b)
    PROVE  Sound(e)
<1>1. ChainPart(e)
    <2>1. ChainPart(d)
        BY DEF Sound
    <2> QED
        BY <2>1, NextChain
<1>2. TxPart(e) /\ UtxoPart(e) /\ HistoryPart(e)
    BY NextTxs, NextUtxos, NextHistory
<1> QED
    BY <1>1, <1>2 DEF Sound

LEMMA EmptySound == Sound(EmptyDb)
<1>1. OnChain(EmptyRows) = {} /\ InputsOf({}) = {} /\ OutpointsOf({}) = {} /\ Parsed({}) = {}
    BY DEF OnChain, EmptyRows, InputsOf, OutpointsOf, Parsed
<1>2. /\ EmptyDb = [blocks |-> EmptyRows, headers |-> EmptyRows, txs |-> EmptyRows,
                    utxos |-> EmptyRows, history |-> EmptyRows, meta |-> -1]
    BY DEF EmptyDb
<1>3. DOMAIN EmptyRows = {} /\ 0 .. -1 = {}
    BY DEF EmptyRows
<1>4. EmptyRows = [k \in {} |-> EmptyRows[k]]
    BY DEF EmptyRows
<1>5. EmptyRows \in [0 .. -1 -> Blocks] /\ EmptyRows \in [{} -> UtxoRow]
    BY <1>3, <1>4
<1>6. ChainPart(EmptyDb)
    <2>1. /\ EmptyDb.blocks = EmptyRows /\ EmptyDb.headers = EmptyRows /\ EmptyDb.meta = -1
          /\ EmptyDb.txs = EmptyRows /\ EmptyDb.utxos = EmptyRows
          /\ EmptyDb.history = EmptyRows
        BY <1>2
    <2>2. InputsOf(OnChain(EmptyRows)) \subseteq OutpointsOf(OnChain(EmptyRows))
        BY <1>1
    <2>3. EmptyDb.blocks \in [0 .. EmptyDb.meta -> Blocks]
        BY <1>5, <2>1
    <2> QED
        BY <1>2, <2>1, <2>2, <2>3 DEF ChainPart
<1>7. TxPart(EmptyDb)
    BY <1>1, <1>2, <1>4 DEF TxPart
<1>8. UtxoPart(EmptyDb)
    BY <1>1, <1>2, <1>3, <1>5 DEF UtxoPart
<1>9. HistoryPart(EmptyDb)
    BY <1>2, <1>3, <1>4 DEF HistoryPart
<1> QED
    BY <1>6, <1>7, <1>8, <1>9 DEF Sound

-----------------------------------------------------------------------------
(* Indexing the block at the tip once more.                                  *)

LEMMA UpsertTwice ==
    ASSUME NEW t, NEW new
    PROVE  Upsert(Upsert(t, new), new) = Upsert(t, new)
    BY DEF Upsert

\* Rows that were inserted already are not inserted again.
LEMMA InsertMore ==
    ASSUME NEW t, NEW n, NEW m, DOMAIN n \subseteq DOMAIN m, \A k \in DOMAIN n : n[k] = m[k]
    PROVE  InsertNew(InsertNew(t, n), m) = InsertNew(t, m)
<1> DEFINE u == InsertNew(t, n)
<1>1. /\ DOMAIN u = DOMAIN t \cup DOMAIN n
      /\ \A k \in DOMAIN u : u[k] = IF k \in DOMAIN t THEN t[k] ELSE n[k]
    BY DEF InsertNew
<1> HIDE DEF u
<1>2. DOMAIN u \cup DOMAIN m = DOMAIN t \cup DOMAIN m
    BY <1>1
<1>3. \A k \in DOMAIN t \cup DOMAIN m :
         (IF k \in DOMAIN u THEN u[k] ELSE m[k]) = (IF k \in DOMAIN t THEN t[k] ELSE m[k])
    BY <1>1
<1>4. InsertNew(u, m) = InsertNew(t, m)
    BY <1>2, <1>3 DEF InsertNew
<1> QED
    BY <1>4 DEF u

\* The transaction and the position in the key tell spends apart.
LEMMA SpendsInKeys ==
    ASSUME NEW chain, NEW b \in Blocks, ValidNext(chain, b), NEW v, NEW w,
           NEW s \in Spends(v, b), NEW r \in Spends(w, b),
           b[s[1]] = b[r[1]], SpendPos(s[1], s[2]) = SpendPos(r[1], r[2])
    PROVE  s = r
<1>0. /\ OutStride \in Nat /\ SpendOffset \in Nat
      /\ b \in [DOMAIN b -> Tx] /\ DOMAIN b \subseteq Nat
      /\ \A i, j \in DOMAIN b : b[i] = b[j] => i = j
    BY TablesAssumption, Blocked DEF ValidNext
<1>1. ASSUME NEW x, NEW u, x \in Spends(u, b)
      PROVE  \E i \in DOMAIN b : \E k \in Nat : x = <<i, k>>
    <2>1. PICK i \in DOMAIN b : \E k \in DOMAIN Inputs[b[i]] : x = <<i, k>>
        BY <1>1, InSpends
    <2>2. DOMAIN Inputs[b[i]] \subseteq Nat
        BY <1>0, LedgerAssumption
    <2> QED
        BY <2>1, <2>2
<1>2. PICK i \in DOMAIN b, k \in Nat : s = <<i, k>>
    BY <1>1
<1>3. PICK j \in DOMAIN b, l \in Nat : r = <<j, l>>
    BY <1>1
<1>4. i = j /\ i * OutStride + SpendOffset + k = j * OutStride + SpendOffset + l
    BY <1>0, <1>2, <1>3 DEF SpendPos
<1>5. i * OutStride \in Nat
    BY <1>0
<1>6. k = l
    BY <1>0, <1>4, <1>5
<1> QED
    BY <1>2, <1>3, <1>4, <1>6

\* The rows of history a block adds: one per output and one per spend, but for
\* the spends whose key is that of an output.
HistoryValues(n, v, h, b) ==
    /\ \A r \in DOMAIN OutputHistory(h, b) : n[r] = OutputHistory(h, b)[r]
    /\ \A s \in Spends(v, b) : SpendKey(v, b, s) \notin DOMAIN OutputHistory(h, b) =>
          n[SpendKey(v, b, s)] =
             [height |-> h, delta |-> -v.utxos[SpentOutpoint(b, s)].value]

LEMMA NewHistoryValues ==
    ASSUME NEW chain, NEW b \in Blocks, ValidNext(chain, b), NEW v, NEW h
    PROVE  HistoryValues(NewHistory(v, h, b), v, h, b)
<1> DEFINE outs == OutputHistory(h, b)
           ins == SpendHistory(v, h, b)
           spender(r) == CHOOSE x \in Spends(v, b) : SpendKey(v, b, x) = r
<1>1. ins = [r \in {SpendKey(v, b, s) : s \in Spends(v, b)} |->
                [height |-> h, delta |-> -v.utxos[SpentOutpoint(b, spender(r))].value]]
    BY DEF SpendHistory, SpendKey
<1>2. NewHistory(v, h, b) = InsertNew(outs, ins)
    BY DEF NewHistory
<1>3. ASSUME NEW s \in Spends(v, b) PROVE spender(SpendKey(v, b, s)) = s
    <2> DEFINE x == spender(SpendKey(v, b, s))
    <2>1. x \in Spends(v, b) /\ SpendKey(v, b, x) = SpendKey(v, b, s)
        OBVIOUS
    <2> HIDE DEF x
    <2>2. b[x[1]] = b[s[1]] /\ SpendPos(x[1], x[2]) = SpendPos(s[1], s[2])
        BY <2>1 DEF SpendKey
    <2>3. x = s
        BY <2>1, <2>2, SpendsInKeys
    <2> QED
        BY <2>3 DEF x
<1> HIDE DEF outs, ins, spender
<1>4. /\ DOMAIN ins = {SpendKey(v, b, s) : s \in Spends(v, b)}
      /\ \A s \in Spends(v, b) :
            ins[SpendKey(v, b, s)] =
               [height |-> h, delta |-> -v.utxos[SpentOutpoint(b, s)].value]
    BY <1>1, <1>3
<1>5. /\ \A r \in DOMAIN outs : InsertNew(outs, ins)[r] = outs[r]
      /\ \A r \in DOMAIN ins : r \notin DOMAIN outs => InsertNew(outs, ins)[r] = ins[r]
    BY DEF InsertNew
<1> QED
    BY <1>2, <1>4, <1>5 DEF outs, HistoryValues

\* One output table holds the scripts and values of another.
Contains(v, w) ==
    \A o \in DOMAIN v.utxos :
        /\ o \in DOMAIN w.utxos
        /\ v.utxos[o].sh = w.utxos[o].sh /\ v.utxos[o].value = w.utxos[o].value

\* With more outputs the parser finds more spends, and the same of each.
LEMMA MoreSpends ==
    ASSUME NEW chain, NEW b \in Blocks, ValidNext(chain, b), NEW h,
           NEW v, NEW w, Contains(v, w)
    PROVE  /\ Spends(v, b) \subseteq Spends(w, b)
           /\ NewKeys(v, b) \subseteq NewKeys(w, b)
           /\ \A r \in NewKeys(v, b) : NewHistory(v, h, b)[r] = NewHistory(w, h, b)[r]
<1>1. Spends(v, b) \subseteq Spends(w, b)
    BY InSpends DEF Contains
<1>2. ASSUME NEW s \in Spends(v, b)
      PROVE  /\ SpendKey(v, b, s) = SpendKey(w, b, s)
             /\ v.utxos[SpentOutpoint(b, s)].value = w.utxos[SpentOutpoint(b, s)].value
    <2>1. SpentOutpoint(b, s) \in DOMAIN v.utxos
        BY DEF Spends, SpentOutpoint
    <2> QED
        BY <2>1 DEF Contains, SpendKey
<1>3. NewKeys(v, b) \subseteq NewKeys(w, b)
    BY <1>1, <1>2 DEF NewKeys
<1> DEFINE outs == OutputHistory(h, b)
           m == NewHistory(v, h, b)
           n == NewHistory(w, h, b)
<1>4. DOMAIN outs = {OutputKey(b, o) : o \in Created(b)}
    BY DEF OutputHistory, OutputKey
<1>0. HistoryValues(m, v, h, b) /\ HistoryValues(n, w, h, b)
    BY NewHistoryValues
<1> HIDE DEF outs, m, n
<1>5. /\ \A r \in DOMAIN outs : m[r] = outs[r]
      /\ \A s \in Spends(v, b) : SpendKey(v, b, s) \notin DOMAIN outs =>
            m[SpendKey(v, b, s)] = [height |-> h, delta |-> -v.utxos[SpentOutpoint(b, s)].value]
    BY <1>0 DEF HistoryValues, outs
<1>6. /\ \A r \in DOMAIN outs : n[r] = outs[r]
      /\ \A s \in Spends(w, b) : SpendKey(w, b, s) \notin DOMAIN outs =>
            n[SpendKey(w, b, s)] = [height |-> h, delta |-> -w.utxos[SpentOutpoint(b, s)].value]
    BY <1>0 DEF HistoryValues, outs
<1>7. ASSUME NEW r \in NewKeys(v, b) PROVE m[r] = n[r]
    <2>1. CASE r \in DOMAIN outs
        BY <1>5, <1>6, <2>1
    <2>2. CASE r \notin DOMAIN outs
        <3>1. PICK s \in Spends(v, b) : r = SpendKey(v, b, s)
            BY <1>4, <2>2 DEF NewKeys
        <3>2. m[r] = [height |-> h, delta |-> -v.utxos[SpentOutpoint(b, s)].value]
            BY <1>5, <2>2, <3>1
        <3>3. n[r] = [height |-> h, delta |-> -w.utxos[SpentOutpoint(b, s)].value]
            BY <1>1, <1>2, <1>6, <2>2, <3>1
        <3> QED
            BY <1>2, <3>2, <3>3
    <2> QED
        BY <2>1, <2>2
<1> QED
    BY <1>1, <1>3, <1>7 DEF m, n

\* The fields of what Index makes of a view.
LEMMA IndexFields ==
    ASSUME NEW d, ChainPart(d), NEW b, NEW w \in Views(d, b)
    PROVE  LET h == d.meta + 1
           IN Index(w, h, b) =
                 [blocks  |-> Upsert(d.blocks, [x \in {h} |-> b]),
                  headers |-> Upsert(d.headers, [x \in {h} |-> b]),
                  txs     |-> Upsert(d.txs, [t \in InBlock(b) |->
                                 [block |-> b, height |-> h, index |-> IndexOf(b, t)]]),
                  utxos   |-> MarkSpent(w, WithCreated(d, b), h, b),
                  history |-> InsertNew(d.history, NewHistory(w, h, b)),
                  meta    |-> h]
    BY ViewFields DEF Index

LEMMA SeenIsView ==
    ASSUME NEW d, Sound(d), NEW b \in Blocks, ValidNext(d.blocks, b), NEW w \in Views(d, b)
    PROVE  /\ Seen(d, d.meta + 1, b) \in Views(d, b)
           /\ Seen(d, d.meta + 1, b).utxos = WithCreated(d, b)
           /\ Contains(w, Seen(d, d.meta + 1, b))
<1> DEFINE v == Seen(d, d.meta + 1, b)
<1>1. v \in Views(d, b)
    BY DEF Views
<1>2. v.utxos = WithCreated(d, b)
    <2>1. d = [blocks |-> d.blocks, headers |-> d.headers, txs |-> d.txs,
               utxos |-> d.utxos, history |-> d.history, meta |-> d.meta]
        BY DEF Sound, ChainPart
    <2> QED
        BY <2>1, InsertIsWithCreated DEF Seen
<1> HIDE DEF v
<1>3. DOMAIN v.utxos = DOMAIN d.utxos \cup Parsed(InBlock(b))
    BY <1>2 DEF WithCreated
<1>4. Contains(w, v)
    BY <1>2, <1>3, ViewRows DEF Contains
<1> QED
    BY <1>1, <1>2, <1>4 DEF v

\* Whatever the parser saw before, the second time it finds the block's own
\* outputs, and the tables are what they would be had it seen them at once.
LEMMA SeenTwice ==
    ASSUME NEW d, Sound(d), NEW b \in Blocks, ValidNext(d.blocks, b),
           NEW w \in Views(d, b), NEW e, e = Index(w, d.meta + 1, b)
    PROVE  /\ Index(e, d.meta + 1, b) = Index(Seen(d, d.meta + 1, b), d.meta + 1, b)
           /\ NewKeys(e, b) = NewKeys(Seen(d, d.meta + 1, b), b)
<1> DEFINE h == d.meta + 1
           v == Seen(d, h, b)
           new == WithCreated(d, b)
           blk == [x \in {h} |-> b]
           rows == [t \in InBlock(b) |-> [block |-> b, height |-> h, index |-> IndexOf(b, t)]]
<1>1. ChainPart(d) /\ h \in Int
    BY DEF Sound, ChainPart
<1>2. v \in Views(d, b) /\ v.utxos = new /\ Contains(w, v)
    BY SeenIsView
<1> HIDE DEF v
<1>3. /\ e.blocks = Upsert(d.blocks, blk) /\ e.headers = Upsert(d.headers, blk)
      /\ e.txs = Upsert(d.txs, rows)
      /\ e.utxos = MarkSpent(w, new, h, b)
      /\ e.history = InsertNew(d.history, NewHistory(w, h, b))
    <2>1. e = [blocks |-> Upsert(d.blocks, blk), headers |-> Upsert(d.headers, blk),
               txs |-> Upsert(d.txs, rows), utxos |-> MarkSpent(w, new, h, b),
               history |-> InsertNew(d.history, NewHistory(w, h, b)), meta |-> h]
        BY <1>1, IndexFields
    <2> HIDE DEF h, new, blk, rows
    <2> QED
        BY <2>1
<1>4. Index(v, h, b) =
         [blocks |-> Upsert(d.blocks, blk), headers |-> Upsert(d.headers, blk),
          txs |-> Upsert(d.txs, rows), utxos |-> MarkSpent(v, new, h, b),
          history |-> InsertNew(d.history, NewHistory(v, h, b)), meta |-> h]
    BY <1>1, <1>2, IndexFields
<1>5. Index(e, h, b) =
         [blocks |-> Upsert(e.blocks, blk), headers |-> Upsert(e.headers, blk),
          txs |-> Upsert(e.txs, rows),
          utxos |-> MarkSpent(e, InsertNew(e.utxos, NewUtxos(h, b)), h, b),
          history |-> InsertNew(e.history, NewHistory(e, h, b)), meta |-> h]
    BY DEF Index
<1>6. /\ DOMAIN new = DOMAIN d.utxos \cup Parsed(InBlock(b))
      /\ \A o \in DOMAIN new : new[o] \in UtxoRow
    <2>1. \A o \in DOMAIN v.utxos : v.utxos[o] \in UtxoRow
        BY <1>2, ViewRows
    <2> QED
        BY <1>2, <2>1 DEF WithCreated
<1> HIDE DEF new
<1>7. e.utxos = [o \in DOMAIN new |-> IF o \notin SpentNow(w, b) THEN new[o]
                                      ELSE SpentRow(new[o], Spender(w, b, o), h)]
    BY <1>3, MarkedRows
<1>8. /\ DOMAIN e.utxos = DOMAIN new
      /\ \A o \in DOMAIN new : e.utxos[o].sh = new[o].sh /\ e.utxos[o].value = new[o].value
    <2>1. ASSUME NEW o \in DOMAIN new
          PROVE  e.utxos[o].sh = new[o].sh /\ e.utxos[o].value = new[o].value
        <3>1. CASE o \notin SpentNow(w, b)
            BY <1>7, <3>1
        <3>2. CASE o \in SpentNow(w, b)
            <4>1. Spender(w, b, o) \in Tx /\ new[o] \in UtxoRow
                BY <1>6, <3>2, SpenderTyped
            <4>2. e.utxos[o] = SpentRow(new[o], Spender(w, b, o), h)
                BY <1>7, <3>2
            <4> QED
                BY <1>1, <4>1, <4>2, SpentRowFields
        <3> QED
            BY <3>1, <3>2
    <2> QED
        BY <1>7, <2>1
<1>9. Contains(e, v) /\ Contains(v, e)
    BY <1>2, <1>8 DEF Contains
<1>10. Spends(e, b) = Spends(v, b) /\ NewKeys(e, b) = NewKeys(v, b)
    <2>1. Spends(e, b) \subseteq Spends(v, b) /\ NewKeys(e, b) \subseteq NewKeys(v, b)
        BY <1>9, MoreSpends
    <2>2. Spends(v, b) \subseteq Spends(e, b) /\ NewKeys(v, b) \subseteq NewKeys(e, b)
        BY <1>9, MoreSpends
    <2> QED
        BY <2>1, <2>2
<1>11. NewHistory(e, h, b) = NewHistory(v, h, b)
    <2> DEFINE m == NewHistory(e, h, b)
               n == NewHistory(v, h, b)
    <2>1. m = [r \in NewKeys(e, b) |-> m[r]] /\ n = [r \in NewKeys(v, b) |-> n[r]]
        BY NewHistoryRows
    <2>2. \A r \in NewKeys(e, b) : m[r] = n[r]
        BY <1>9, MoreSpends
    <2> HIDE DEF m, n
    <2>3. m = n
        BY <1>10, <2>1, <2>2
    <2> QED
        BY <2>3 DEF m, n
<1>12. InsertNew(e.history, NewHistory(v, h, b)) = InsertNew(d.history, NewHistory(v, h, b))
    <2> DEFINE m == NewHistory(w, h, b)
               n == NewHistory(v, h, b)
    <2>1. DOMAIN m = NewKeys(w, b) /\ DOMAIN n = NewKeys(v, b)
        BY NewHistoryRows
    <2>2. NewKeys(w, b) \subseteq NewKeys(v, b) /\ \A r \in NewKeys(w, b) : m[r] = n[r]
        BY <1>2, MoreSpends
    <2>3. e.history = InsertNew(d.history, m)
        BY <1>3
    <2> HIDE DEF m, n
    <2>4. InsertNew(e.history, n) = InsertNew(d.history, n)
        BY <2>1, <2>2, <2>3, InsertMore
    <2> QED
        BY <2>4 DEF n
<1>13. InsertNew(e.utxos, NewUtxos(h, b)) = e.utxos
    <2>1. DOMAIN NewUtxos(h, b) = Parsed(InBlock(b))
        BY CreatedIsParsed DEF NewUtxos
    <2>2. DOMAIN NewUtxos(h, b) \subseteq DOMAIN e.utxos
        BY <1>6, <1>8, <2>1
    <2>3. e.utxos = [o \in DOMAIN e.utxos |-> e.utxos[o]]
        BY <1>7
    <2> QED
        BY <2>2, <2>3 DEF InsertNew
<1>14. MarkSpent(e, e.utxos, h, b) = MarkSpent(v, new, h, b)
    <2>1. SpentNow(e, b) = SpentNow(v, b) /\ \A o : Spender(e, b, o) = Spender(v, b, o)
        BY <1>10 DEF SpentNow, Spender
    <2>2. SpentNow(w, b) \subseteq SpentNow(v, b)
        BY <1>2, MoreSpends DEF SpentNow
    <2>3. MarkSpent(e, e.utxos, h, b) =
             [o \in DOMAIN e.utxos |-> IF o \notin SpentNow(v, b) THEN e.utxos[o]
                                       ELSE SpentRow(e.utxos[o], Spender(v, b, o), h)]
        BY <2>1, MarkedRows
    <2>4. MarkSpent(v, new, h, b) =
             [o \in DOMAIN new |-> IF o \notin SpentNow(v, b) THEN new[o]
                                   ELSE SpentRow(new[o], Spender(v, b, o), h)]
        BY MarkedRows
    <2>5. ASSUME NEW o \in DOMAIN new
          PROVE  /\ o \notin SpentNow(v, b) => e.utxos[o] = new[o]
                 /\ SpentRow(e.utxos[o], Spender(v, b, o), h) = SpentRow(new[o], Spender(v, b, o), h)
        <3>1. CASE o \notin SpentNow(w, b)
            BY <1>7, <3>1
        <3>2. CASE o \in SpentNow(w, b)
            <4>1. e.utxos[o] = SpentRow(new[o], Spender(w, b, o), h) /\ new[o] \in UtxoRow
                BY <1>6, <1>7, <3>2
            <4> QED
                BY <2>2, <3>2, <4>1, MarkedTwice
        <3> QED
            BY <3>1, <3>2
    <2> QED
        BY <1>8, <2>3, <2>4, <2>5
<1>15. Upsert(e.blocks, blk) = e.blocks /\ Upsert(e.headers, blk) = e.headers
       /\ Upsert(e.txs, rows) = e.txs
    BY <1>3, UpsertTwice
<1> HIDE DEF h, blk, rows
<1>16. Index(e, h, b) = Index(v, h, b)
    BY <1>3, <1>4, <1>5, <1>11, <1>12, <1>13, <1>14, <1>15
<1> QED
    BY <1>10, <1>16 DEF h, v

\* A block that spends none of its own outputs is indexed alike both times.
LEMMA SeenUnchained ==
    ASSUME NEW d, Sound(d), NEW b \in Blocks, ValidNext(d.blocks, b), SpentInside(b) = {}
    PROVE  Index(Seen(d, d.meta + 1, b), d.meta + 1, b) = Index(d, d.meta + 1, b)
<1> DEFINE h == d.meta + 1
           v == Seen(d, h, b)
           new == WithCreated(d, b)
<1>1. ChainPart(d) /\ d \in Views(d, b)
    BY DEF Sound, Views
<1>2. v \in Views(d, b) /\ v.utxos = new /\ Contains(d, v)
    BY <1>1, SeenIsView
<1> HIDE DEF v
<1>3. DOMAIN v.utxos = DOMAIN d.utxos \cup Parsed(InBlock(b))
    BY <1>2 DEF WithCreated
<1>4. Spends(v, b) = Spends(d, b)
    <2>1. ASSUME NEW i \in DOMAIN b \ {0}, NEW k \in DOMAIN Inputs[b[i]]
          PROVE  Inputs[b[i]][k] \notin Parsed(InBlock(b))
        <3>1. b[i] \in InBlock(b)
            BY DEF InBlock
        <3>2. Inputs[b[i]][k] \in InputsOf(InBlock(b))
            BY <3>1, InInputs
        <3> QED
            BY <3>2 DEF SpentInside, Parsed
    <2>2. Spends(v, b) \subseteq Spends(d, b)
        BY <1>3, <2>1, InSpends
    <2> QED
        BY <1>2, <2>2, MoreSpends
<1>5. SpentNow(v, b) = SpentNow(d, b) /\ \A o : Spender(v, b, o) = Spender(d, b, o)
    BY <1>4 DEF SpentNow, Spender
<1>6. MarkSpent(v, new, h, b) = MarkSpent(d, new, h, b)
    <2>1. MarkSpent(v, new, h, b) =
             [o \in DOMAIN new |-> IF o \notin SpentNow(v, b) THEN new[o]
                                   ELSE SpentRow(new[o], Spender(v, b, o), h)]
        BY MarkedRows
    <2>2. MarkSpent(d, new, h, b) =
             [o \in DOMAIN new |-> IF o \notin SpentNow(d, b) THEN new[o]
                                   ELSE SpentRow(new[o], Spender(d, b, o), h)]
        BY MarkedRows
    <2> HIDE DEF new, h
    <2> QED
        BY <1>5, <2>1, <2>2
<1>7. NewHistory(v, h, b) = NewHistory(d, h, b)
    <2> DEFINE m == NewHistory(d, h, b)
               n == NewHistory(v, h, b)
    <2>1. m = [r \in NewKeys(d, b) |-> m[r]] /\ n = [r \in NewKeys(v, b) |-> n[r]]
        BY NewHistoryRows
    <2>2. NewKeys(d, b) \subseteq NewKeys(v, b) /\ \A r \in NewKeys(d, b) : m[r] = n[r]
        BY <1>2, MoreSpends
    <2>3. NewKeys(v, b) \subseteq NewKeys(d, b)
        <3>1. \A s \in Spends(d, b) : SpendKey(v, b, s) = SpendKey(d, b, s)
            BY <1>2 DEF Contains, SpendKey, Spends, SpentOutpoint
        <3> QED
            BY <1>4, <3>1 DEF NewKeys
    <2> HIDE DEF m, n
    <2>4. m = n
        BY <2>1, <2>2, <2>3
    <2> QED
        BY <2>4 DEF m, n
<1>8. Index(v, h, b) = Index(d, h, b)
    BY <1>1, <1>2, <1>6, <1>7, IndexFields
<1> QED
    BY <1>8 DEF v

-----------------------------------------------------------------------------
(* What an operation makes of tables that hold whatever else: rows of other  *)
(* branches and blocks above a gap.                                          *)

\* Every row has the types of its columns and stands at a stored height.
Rooted(d) ==
    /\ d = [blocks |-> d.blocks, headers |-> d.headers, txs |-> d.txs,
            utxos |-> d.utxos, history |-> d.history, meta |-> d.meta]
    /\ d.meta \in Int /\ DOMAIN d.blocks \subseteq 0 .. d.meta
    /\ d.blocks \in [DOMAIN d.blocks -> Blocks] /\ d.headers = d.blocks
    /\ d.txs = [t \in DOMAIN d.txs |-> d.txs[t]]
    /\ \A t \in DOMAIN d.txs : d.txs[t].height \in DOMAIN d.blocks
    /\ d.utxos \in [DOMAIN d.utxos -> UtxoRow]
    /\ \A o \in DOMAIN d.utxos :
          /\ d.utxos[o].height \in DOMAIN d.blocks
          /\ d.utxos[o].spentHeight \in DOMAIN d.blocks \cup {-1}
          /\ d.utxos[o].spentBy = NoTx <=> d.utxos[o].spentHeight = -1
    /\ d.history = [r \in DOMAIN d.history |-> d.history[r]]
    /\ \A r \in DOMAIN d.history :
          r[1] \in Script /\ d.history[r].height \in DOMAIN d.blocks

UnmarkedRow(row) == [row EXCEPT !.spentBy = NoTx, !.spentHeight = -1]

LEMMA UnmarkedFields ==
    ASSUME NEW row \in UtxoRow
    PROVE  /\ UnmarkedRow(row) \in UtxoRow
           /\ UnmarkedRow(row).sh = row.sh /\ UnmarkedRow(row).height = row.height
           /\ UnmarkedRow(row).spentBy = NoTx /\ UnmarkedRow(row).spentHeight = -1
           /\ row.spentBy = NoTx /\ row.spentHeight = -1 => UnmarkedRow(row) = row
           /\ \A t, h : UnmarkedRow(SpentRow(row, t, h)) = UnmarkedRow(row)
<1>0. NoTx \in Tx \cup {NoTx} /\ -1 \in Int
    OBVIOUS
<1>1. /\ UnmarkedRow(row) \in UtxoRow
      /\ UnmarkedRow(row).sh = row.sh /\ UnmarkedRow(row).height = row.height
      /\ UnmarkedRow(row).spentBy = NoTx /\ UnmarkedRow(row).spentHeight = -1
    <2> DEFINE t == NoTx
               h == -1
    <2>1. UnmarkedRow(row) = [row EXCEPT !.spentBy = t, !.spentHeight = h]
        BY DEF UnmarkedRow
    <2> HIDE DEF t, h
    <2>2. t \in Tx \cup {NoTx} /\ h \in Int
        BY <1>0 DEF t, h
    <2> QED
        BY <2>1, <2>2 DEF UtxoRow, t, h
<1>2. row.spentBy = NoTx /\ row.spentHeight = -1 => UnmarkedRow(row) = row
    BY DEF UtxoRow, UnmarkedRow
<1>3. ASSUME NEW t, NEW h PROVE UnmarkedRow(SpentRow(row, t, h)) = UnmarkedRow(row)
    BY DEF UtxoRow, UnmarkedRow, SpentRow
<1> QED
    BY <1>1, <1>2, <1>3

\* An output's row once the block's outputs are inserted.
RowWith(d, h, b, o) == IF o \in DOMAIN d.utxos THEN d.utxos[o] ELSE CreatedRow(h, b, o)

OutputsAfter(d, h, b, e) ==
    e.utxos = [o \in DOMAIN d.utxos \cup Parsed(InBlock(b)) |->
                 IF o \notin SpentNow(d, b) THEN RowWith(d, h, b, o)
                 ELSE SpentRow(RowWith(d, h, b, o), Spender(d, b, o), h)]

LEMMA IndexedOutputs ==
    ASSUME NEW d, NEW h, NEW b \in Blocks, NEW e, e = Index(d, h, b)
    PROVE  OutputsAfter(d, h, b, e)
<1> DEFINE in == [o \in DOMAIN d.utxos \cup Parsed(InBlock(b)) |-> RowWith(d, h, b, o)]
<1>1. NewUtxos(h, b) = [o \in Parsed(InBlock(b)) |-> CreatedRow(h, b, o)]
    BY CreatedIsParsed DEF NewUtxos, CreatedRow
<1>2. InsertNew(d.utxos, NewUtxos(h, b)) = in
    BY <1>1 DEF InsertNew, RowWith
<1>3. e.utxos = MarkSpent(d, in, h, b)
    BY <1>2 DEF Index
<1>4. MarkSpent(d, in, h, b) =
         [o \in DOMAIN in |-> IF o \notin SpentNow(d, b) THEN in[o]
                              ELSE SpentRow(in[o], Spender(d, b, o), h)]
    BY MarkedRows
<1> QED
    BY <1>3, <1>4 DEF OutputsAfter

HistoryAfter(d, h, b, e) ==
    /\ e.history = [r \in DOMAIN d.history \cup NewKeys(d, b) |-> e.history[r]]
    /\ \A r \in DOMAIN d.history : e.history[r] = d.history[r]
    /\ \A r \in NewKeys(d, b) : r \notin DOMAIN d.history => e.history[r].height = h

LEMMA IndexedHistory ==
    ASSUME NEW d, NEW h, NEW b, NEW e, e = Index(d, h, b)
    PROVE  HistoryAfter(d, h, b, e)
<1> DEFINE n == NewHistory(d, h, b)
<1>1. e.history = InsertNew(d.history, n)
    BY DEF Index
<1>2. n = [r \in NewKeys(d, b) |-> n[r]] /\ \A r \in NewKeys(d, b) : n[r].height = h
    BY NewHistoryRows
<1> HIDE DEF n
<1>3. DOMAIN n = NewKeys(d, b)
    BY <1>2
<1>4. e.history = [r \in DOMAIN d.history \cup NewKeys(d, b) |->
             IF r \in DOMAIN d.history THEN d.history[r] ELSE n[r]]
    BY <1>1, <1>3 DEF InsertNew
<1> QED
    BY <1>2, <1>4 DEF HistoryAfter

TxsAfter(d, h, b, e) ==
    /\ e.txs = [t \in DOMAIN d.txs \cup InBlock(b) |-> e.txs[t]]
    /\ \A t \in DOMAIN d.txs : t \notin InBlock(b) => e.txs[t] = d.txs[t]
    /\ \A t \in InBlock(b) : e.txs[t].height = h

LEMMA IndexedTxs ==
    ASSUME NEW d, NEW h, NEW b, NEW e, e = Index(d, h, b)
    PROVE  TxsAfter(d, h, b, e)
    BY DEF TxsAfter, Index, Upsert

BlocksAfter(d, h, b, e) ==
    /\ e.blocks = [g \in DOMAIN d.blocks \cup {h} |-> IF g = h THEN b ELSE d.blocks[g]]
    /\ e.headers = [g \in DOMAIN d.headers \cup {h} |-> IF g = h THEN b ELSE d.headers[g]]
    /\ e.meta = h
    /\ e = [blocks |-> e.blocks, headers |-> e.headers, txs |-> e.txs,
            utxos |-> e.utxos, history |-> e.history, meta |-> e.meta]

LEMMA IndexedBlocks ==
    ASSUME NEW d, NEW h, NEW b, NEW e, e = Index(d, h, b)
    PROVE  BlocksAfter(d, h, b, e)
    BY DEF BlocksAfter, Index, Upsert

LEMMA RootedIndex ==
    ASSUME NEW d, Rooted(d), NEW h \in Nat, DOMAIN d.blocks \subseteq 0 .. h, NEW b \in Blocks
    PROVE  Rooted(Index(d, h, b))
<1> DEFINE e == Index(d, h, b)
<1>0. e = Index(d, h, b)
    OBVIOUS
<1> HIDE DEF e
<1>1. BlocksAfter(d, h, b, e)
    BY <1>0, IndexedBlocks
<1>2. TxsAfter(d, h, b, e)
    BY <1>0, IndexedTxs
<1>3. HistoryAfter(d, h, b, e)
    BY <1>0, IndexedHistory
<1>4. OutputsAfter(d, h, b, e)
    BY <1>0, IndexedOutputs
<1>5. /\ DOMAIN d.blocks \subseteq DOMAIN e.blocks /\ h \in DOMAIN e.blocks
      /\ DOMAIN e.blocks \subseteq 0 .. e.meta /\ e.meta \in Int
      /\ e.blocks \in [DOMAIN e.blocks -> Blocks] /\ e.headers = e.blocks
    BY <1>1 DEF Rooted, BlocksAfter
<1>6. \A t \in DOMAIN e.txs : e.txs[t].height \in DOMAIN e.blocks
    BY <1>2, <1>5 DEF Rooted, TxsAfter
<1>7. ASSUME NEW r \in DOMAIN e.history
      PROVE  r[1] \in Script /\ e.history[r].height \in DOMAIN e.blocks
    <2>1. \A o \in DOMAIN d.utxos : d.utxos[o] \in UtxoRow
        BY DEF Rooted
    <2>2. r \in NewKeys(d, b) => r[1] \in Script
        BY <2>1, KeysTyped
    <2>3. CASE r \in DOMAIN d.history
        BY <1>3, <1>5, <2>3 DEF Rooted, HistoryAfter
    <2>4. CASE r \notin DOMAIN d.history
        BY <1>3, <1>5, <2>2, <2>4 DEF HistoryAfter
    <2> QED
        BY <2>3, <2>4
<1>8. ASSUME NEW o \in DOMAIN e.utxos
      PROVE  /\ e.utxos[o] \in UtxoRow
             /\ e.utxos[o].height \in DOMAIN e.blocks
             /\ e.utxos[o].spentHeight \in DOMAIN e.blocks \cup {-1}
             /\ e.utxos[o].spentBy = NoTx <=> e.utxos[o].spentHeight = -1
    <2> DEFINE row == RowWith(d, h, b, o)
    <2>1. /\ row \in UtxoRow /\ row.height \in DOMAIN e.blocks
          /\ row.spentHeight \in DOMAIN e.blocks \cup {-1}
          /\ row.spentBy = NoTx <=> row.spentHeight = -1
        <3>1. CASE o \in DOMAIN d.utxos
            <4>1. row = d.utxos[o]
                BY <3>1 DEF RowWith
            <4> QED
                BY <1>5, <3>1, <4>1 DEF Rooted
        <3>2. CASE o \notin DOMAIN d.utxos
            <4>1. row = CreatedRow(h, b, o) /\ o \in Parsed(InBlock(b))
                BY <1>4, <3>2 DEF RowWith, OutputsAfter
            <4> HIDE DEF row
            <4>2. row \in UtxoRow /\ row.height = h /\ row.spentBy = NoTx /\ row.spentHeight = -1
                BY <4>1, CreatedRowFields
            <4> QED
                BY <1>5, <4>2
        <3> QED
            BY <3>1, <3>2
    <2>2. e.utxos[o] = IF o \notin SpentNow(d, b) THEN row ELSE SpentRow(row, Spender(d, b, o), h)
        BY <1>4 DEF OutputsAfter
    <2> HIDE DEF row
    <2>3. CASE o \notin SpentNow(d, b)
        BY <2>1, <2>2, <2>3
    <2>4. CASE o \in SpentNow(d, b)
        <3>1. Spender(d, b, o) \in Tx /\ Spender(d, b, o) # NoTx
            BY <2>4, SpenderTyped, TablesAssumption
        <3>2. /\ e.utxos[o] \in UtxoRow /\ e.utxos[o].height = row.height
              /\ e.utxos[o].spentBy = Spender(d, b, o) /\ e.utxos[o].spentHeight = h
            BY <2>1, <2>2, <2>4, <3>1, SpentRowFields
        <3>3. h # -1
            OBVIOUS
        <3> QED
            BY <1>5, <2>1, <3>1, <3>2, <3>3
    <2> QED
        BY <2>3, <2>4
<1>9. e.utxos \in [DOMAIN e.utxos -> UtxoRow]
    BY <1>4, <1>8 DEF OutputsAfter
<1>10. /\ e.txs = [t \in DOMAIN e.txs |-> e.txs[t]]
       /\ e.history = [r \in DOMAIN e.history |-> e.history[r]]
    BY <1>2, <1>3 DEF HistoryAfter, TxsAfter
<1>11. Rooted(e)
    BY <1>1, <1>5, <1>6, <1>7, <1>8, <1>9, <1>10 DEF Rooted, BlocksAfter
<1> QED
    BY <1>11 DEF e

RolledTables(d, h, e) ==
    /\ e.blocks = [g \in DOMAIN d.blocks \ {h} |-> d.blocks[g]]
    /\ e.headers = [g \in DOMAIN d.headers \ {h} |-> d.headers[g]]
    /\ e.txs = [t \in DOMAIN d.txs \ AtHeight(d.txs, h) |-> d.txs[t]]
    /\ e.utxos = [o \in DOMAIN d.utxos \ AtHeight(d.utxos, h) |->
                    IF d.utxos[o].spentHeight = h
                    THEN UnmarkedRow(d.utxos[o]) ELSE d.utxos[o]]
    /\ e.history = [r \in DOMAIN d.history \ AtHeight(d.history, h) |-> d.history[r]]
    /\ e.meta = h - 1
    /\ e = [blocks |-> e.blocks, headers |-> e.headers, txs |-> e.txs,
            utxos |-> e.utxos, history |-> e.history, meta |-> e.meta]

LEMMA RolledBack ==
    ASSUME NEW d, NEW h, NEW e, e = Rollback(d, h)
    PROVE  RolledTables(d, h, e)
<1>1. Keep(Unspend(d.utxos, h), DOMAIN d.utxos \ AtHeight(d.utxos, h)) =
         [o \in DOMAIN d.utxos \ AtHeight(d.utxos, h) |->
            IF d.utxos[o].spentHeight = h THEN UnmarkedRow(d.utxos[o]) ELSE d.utxos[o]]
    BY DEF Keep, Unspend, UnmarkedRow
<1> QED
    BY <1>1 DEF Rollback, Keep, RolledTables

LEMMA RootedRollback ==
    ASSUME NEW d, Rooted(d), NEW h \in Nat, DOMAIN d.blocks \subseteq 0 .. h
    PROVE  Rooted(Rollback(d, h))
<1> DEFINE e == Rollback(d, h)
<1>0. e = Rollback(d, h)
    OBVIOUS
<1> HIDE DEF e
<1>1. RolledTables(d, h, e)
    BY <1>0, RolledBack
<1>2. /\ DOMAIN e.blocks = DOMAIN d.blocks \ {h} /\ e.blocks \in [DOMAIN e.blocks -> Blocks]
      /\ e.headers = e.blocks
    BY <1>1 DEF Rooted, RolledTables
<1>3. DOMAIN e.blocks \subseteq 0 .. e.meta /\ e.meta \in Int
    <2>1. \A g \in 0 .. h : g # h => g \in 0 .. (h - 1)
        OBVIOUS
    <2> QED
        BY <1>1, <1>2, <2>1 DEF RolledTables
<1>4. \A t \in DOMAIN e.txs : e.txs[t].height \in DOMAIN e.blocks
    BY <1>1, <1>2 DEF Rooted, AtHeight, RolledTables
<1>5. \A r \in DOMAIN e.history : r[1] \in Script /\ e.history[r].height \in DOMAIN e.blocks
    BY <1>1, <1>2 DEF Rooted, AtHeight, RolledTables
<1>6. ASSUME NEW o \in DOMAIN e.utxos
      PROVE  /\ e.utxos[o] \in UtxoRow
             /\ e.utxos[o].height \in DOMAIN e.blocks
             /\ e.utxos[o].spentHeight \in DOMAIN e.blocks \cup {-1}
             /\ e.utxos[o].spentBy = NoTx <=> e.utxos[o].spentHeight = -1
    <2>1. o \in DOMAIN d.utxos /\ d.utxos[o].height # h
        BY <1>1 DEF AtHeight, RolledTables
    <2>2. /\ d.utxos[o] \in UtxoRow /\ d.utxos[o].height \in DOMAIN e.blocks
          /\ d.utxos[o].spentHeight \in DOMAIN d.blocks \cup {-1}
          /\ d.utxos[o].spentBy = NoTx <=> d.utxos[o].spentHeight = -1
        BY <1>2, <2>1 DEF Rooted
    <2>3. CASE d.utxos[o].spentHeight = h
        <3>1. e.utxos[o] = UnmarkedRow(d.utxos[o])
            BY <1>1, <2>3 DEF RolledTables
        <3> QED
            BY <2>2, <3>1, UnmarkedFields
    <2>4. CASE d.utxos[o].spentHeight # h
        <3>1. e.utxos[o] = d.utxos[o]
            BY <1>1, <2>4 DEF RolledTables
        <3> QED
            BY <1>2, <2>2, <2>4, <3>1
    <2> QED
        BY <2>3, <2>4
<1>7. /\ e.utxos \in [DOMAIN e.utxos -> UtxoRow]
      /\ e.txs = [t \in DOMAIN e.txs |-> e.txs[t]]
      /\ e.history = [r \in DOMAIN e.history |-> e.history[r]]
    BY <1>1, <1>6 DEF RolledTables
<1>8. Rooted(e)
    BY <1>1, <1>2, <1>3, <1>4, <1>5, <1>6, <1>7 DEF Rooted, RolledTables
<1> QED
    BY <1>8 DEF e

-----------------------------------------------------------------------------
(* What the scripthashes an operation returns leave out.                     *)

Touched(d, b) ==
    {r[1] : r \in NewKeys(d, b)} \cup {Outputs[o[1]][o[2]].sh : o \in Parsed(InBlock(b))}

LEMMA IndexReports ==
    ASSUME NEW d, NEW h, NEW b
    PROVE  AffectedByIndex(d, h, b) = Touched(d, b)
<1>1. DOMAIN NewHistory(d, h, b) = NewKeys(d, b)
    BY NewHistoryRows
<1> QED
    BY <1>1, CreatedIsParsed DEF AffectedByIndex, ScriptsOf, Touched

LEMMA ReportsTyped ==
    ASSUME NEW d, Rooted(d)
    PROVE  /\ \A b \in Blocks : Touched(d, b) \subseteq Script
           /\ \A h : AffectedByRollback(d, h) \subseteq Script
<1>1. \A o \in DOMAIN d.utxos : d.utxos[o] \in UtxoRow /\ d.utxos[o].sh \in Script
    BY DEF Rooted, UtxoRow
<1>2. ASSUME NEW b \in Blocks PROVE Touched(d, b) \subseteq Script
    <2>1. \A r \in NewKeys(d, b) : r[1] \in Script
        BY <1>1, KeysTyped
    <2>2. \A o \in Parsed(InBlock(b)) : Outputs[o[1]][o[2]].sh \in Script
        BY Blocked, ParsedScript
    <2> QED
        BY <2>1, <2>2 DEF Touched
<1>3. ASSUME NEW h PROVE AffectedByRollback(d, h) \subseteq Script
    <2>1. \A r \in DOMAIN d.history : r[1] \in Script
        BY DEF Rooted
    <2> QED
        BY <1>1, <2>1 DEF AffectedByRollback, AtHeight
<1> QED
    BY <1>2, <1>3

\* What a block does not touch is in the same rows before it and after it.
LEMMA IndexTouches ==
    ASSUME NEW d, Rooted(d), NEW h \in Nat, NEW b \in Blocks, NEW sh, sh \notin Touched(d, b)
    PROVE  /\ HistoryRows(Index(d, h, b), sh) = HistoryRows(d, sh)
           /\ UnspentRows(Index(d, h, b), sh) = UnspentRows(d, sh)
<1> DEFINE e == Index(d, h, b)
<1>0. e = Index(d, h, b)
    OBVIOUS
<1> HIDE DEF e
<1>1. HistoryAfter(d, h, b, e)
    BY <1>0, IndexedHistory
<1>2. OutputsAfter(d, h, b, e)
    BY <1>0, IndexedOutputs
<1>3. HistoryRows(e, sh) = HistoryRows(d, sh)
    <2>1. \A r \in NewKeys(d, b) : r[1] # sh
        BY DEF Touched
    <2>2. DOMAIN e.history = DOMAIN d.history \cup NewKeys(d, b)
        BY <1>1 DEF HistoryAfter
    <2>3. {r \in DOMAIN e.history : r[1] = sh} = {r \in DOMAIN d.history : r[1] = sh}
        BY <2>1, <2>2
    <2> QED
        BY <1>1, <2>3 DEF HistoryRows, Keep, HistoryAfter
<1>4. ASSUME NEW o \in DOMAIN e.utxos
      PROVE  IF o \in DOMAIN d.utxos THEN e.utxos[o].sh = d.utxos[o].sh
             ELSE e.utxos[o].sh # sh
    <2> DEFINE row == RowWith(d, h, b, o)
    <2>1. row \in UtxoRow /\ row.sh = e.utxos[o].sh
        <3>1. row \in UtxoRow
            <4>1. CASE o \in DOMAIN d.utxos
                BY <4>1 DEF RowWith, Rooted
            <4>2. CASE o \notin DOMAIN d.utxos
                <5>1. row = CreatedRow(h, b, o) /\ o \in Parsed(InBlock(b))
                    BY <1>2, <4>2 DEF RowWith, OutputsAfter
                <5> QED
                    BY <5>1, CreatedRowFields
            <4> QED
                BY <4>1, <4>2
        <3> HIDE DEF row
        <3>2. e.utxos[o] = IF o \notin SpentNow(d, b) THEN row ELSE SpentRow(row, Spender(d, b, o), h)
            BY <1>2 DEF row, OutputsAfter
        <3>3. o \in SpentNow(d, b) => SpentRow(row, Spender(d, b, o), h).sh = row.sh
            BY <3>1, SpenderTyped, SpentRowFields
        <3> QED
            BY <3>1, <3>2, <3>3
    <2>2. CASE o \in DOMAIN d.utxos
        BY <2>1, <2>2 DEF RowWith
    <2>3. CASE o \notin DOMAIN d.utxos
        <3>1. row = CreatedRow(h, b, o) /\ o \in Parsed(InBlock(b))
            BY <1>2, <2>3 DEF RowWith, OutputsAfter
        <3>2. row.sh = Outputs[o[1]][o[2]].sh
            BY <3>1, CreatedRowFields
        <3> HIDE DEF row
        <3> QED
            BY <2>1, <2>3, <3>1, <3>2 DEF Touched
    <2> QED
        BY <2>2, <2>3
<1>5. ASSUME NEW o \in DOMAIN d.utxos, d.utxos[o].sh = sh
      PROVE  e.utxos[o] = d.utxos[o]
    <2>1. o \notin SpentNow(d, b)
        <3>1. o \in SpentNow(d, b) => \E r \in NewKeys(d, b) : r[1] = d.utxos[o].sh
            BY SpendHasKey
        <3> QED
            BY <1>5, <3>1 DEF Touched
    <2> QED
        BY <1>2, <2>1 DEF RowWith, OutputsAfter
<1>6. DOMAIN d.utxos \subseteq DOMAIN e.utxos
    BY <1>2 DEF OutputsAfter
<1>7. UnspentOf(e, sh) = UnspentOf(d, sh)
    <2>1. \A o \in UnspentOf(e, sh) : o \in DOMAIN d.utxos /\ d.utxos[o].sh = sh
        BY <1>4 DEF UnspentOf
    <2> QED
        BY <1>5, <1>6, <2>1 DEF UnspentOf
<1>8. \A o \in UnspentOf(d, sh) : e.utxos[o] = d.utxos[o]
    BY <1>5 DEF UnspentOf
<1>9. UnspentRows(e, sh) = UnspentRows(d, sh)
    BY <1>7, <1>8 DEF UnspentRows, Keep
<1> QED
    BY <1>3, <1>9 DEF e

\* What a rollback does not report it leaves alone, as long as the history
\* tells of every spend at the height at which the output is marked.
LEMMA RollbackTouches ==
    ASSUME NEW d, Rooted(d), NEW h \in Nat,
           \A o \in DOMAIN d.utxos : d.utxos[o].spentHeight # -1 =>
              \E r \in DOMAIN d.history :
                 r[1] = d.utxos[o].sh /\ d.history[r].height = d.utxos[o].spentHeight,
           NEW sh, sh \notin AffectedByRollback(d, h)
    PROVE  /\ HistoryRows(Rollback(d, h), sh) = HistoryRows(d, sh)
           /\ UnspentRows(Rollback(d, h), sh) = UnspentRows(d, sh)
<1> DEFINE e == Rollback(d, h)
<1>0. e = Rollback(d, h)
    OBVIOUS
<1> HIDE DEF e
<1>1. RolledTables(d, h, e)
    BY <1>0, RolledBack
<1>2. /\ \A r \in AtHeight(d.history, h) : r[1] # sh
      /\ \A o \in AtHeight(d.utxos, h) : d.utxos[o].sh # sh
    BY DEF AffectedByRollback
<1>3. HistoryRows(e, sh) = HistoryRows(d, sh)
    <2>1. {r \in DOMAIN e.history : r[1] = sh} = {r \in DOMAIN d.history : r[1] = sh}
        BY <1>1, <1>2 DEF RolledTables
    <2> QED
        BY <1>1, <2>1 DEF HistoryRows, Keep, RolledTables
<1>4. ASSUME NEW o \in DOMAIN d.utxos, d.utxos[o].sh = sh
      PROVE  o \in DOMAIN e.utxos /\ e.utxos[o] = d.utxos[o]
    <2>1. o \notin AtHeight(d.utxos, h)
        BY <1>2, <1>4
    <2>2. d.utxos[o].spentHeight # h
        <3>1. ASSUME d.utxos[o].spentHeight = h PROVE FALSE
            <4>1. PICK r \in DOMAIN d.history : r[1] = sh /\ d.history[r].height = h
                BY <1>4, <3>1
            <4> QED
                BY <1>2, <4>1 DEF AtHeight
        <3> QED
            BY <3>1
    <2> QED
        BY <1>1, <2>1, <2>2 DEF RolledTables
<1>5. ASSUME NEW o \in DOMAIN e.utxos
      PROVE  o \in DOMAIN d.utxos /\ e.utxos[o].sh = d.utxos[o].sh
    <2>1. o \in DOMAIN d.utxos /\ d.utxos[o] \in UtxoRow
        BY <1>1 DEF Rooted, RolledTables
    <2> QED
        BY <1>1, <2>1, UnmarkedFields DEF RolledTables
<1>6. UnspentOf(e, sh) = UnspentOf(d, sh)
    BY <1>4, <1>5 DEF UnspentOf
<1>7. \A o \in UnspentOf(d, sh) : e.utxos[o] = d.utxos[o]
    BY <1>4 DEF UnspentOf
<1>8. UnspentRows(e, sh) = UnspentRows(d, sh)
    BY <1>6, <1>7 DEF UnspentRows, Keep
<1> QED
    BY <1>3, <1>8 DEF e

-----------------------------------------------------------------------------
(* What lies below a height no operation at or above it changes.             *)

TablesBelow(d, n, p) ==
    /\ p = [blocks |-> p.blocks, headers |-> p.headers, txs |-> p.txs,
            utxos |-> p.utxos, history |-> p.history, meta |-> p.meta]
    /\ p.blocks = Stem(d.blocks, n) /\ p.headers = Stem(d.headers, n)
    /\ p.txs = [t \in Under(d.txs, n) |-> d.txs[t]]
    /\ p.utxos = [o \in Under(d.utxos, n) |->
                    IF d.utxos[o].spentHeight >= n
                    THEN UnmarkedRow(d.utxos[o]) ELSE d.utxos[o]]
    /\ p.history = [r \in Under(d.history, n) |-> d.history[r]]
    /\ p.meta = n - 1

LEMMA BelowParts ==
    ASSUME NEW d, NEW n, NEW p, p = Below(d, n)
    PROVE  TablesBelow(d, n, p)
    BY DEF TablesBelow, Below, UnmarkedRow, Keep

\* Two databases with the same columns below a height are the same there.
LEMMA BelowSame ==
    ASSUME NEW d, NEW e, NEW n,
           Stem(e.blocks, n) = Stem(d.blocks, n), Stem(e.headers, n) = Stem(d.headers, n),
           Below(e, n).txs = Below(d, n).txs, Below(e, n).utxos = Below(d, n).utxos,
           Below(e, n).history = Below(d, n).history
    PROVE  Below(e, n) = Below(d, n)
<1> DEFINE p == Below(d, n)
           q == Below(e, n)
<1>0. p = Below(d, n) /\ q = Below(e, n)
    OBVIOUS
<1> HIDE DEF p, q
<1>1. TablesBelow(d, n, p)
    BY <1>0, BelowParts
<1>2. TablesBelow(e, n, q)
    BY <1>0, BelowParts
<1>3. q.txs = p.txs /\ q.utxos = p.utxos /\ q.history = p.history
    BY <1>0
<1>4. q = p
    BY <1>1, <1>2, <1>3 DEF TablesBelow
<1> QED
    BY <1>4 DEF p, q

LEMMA BelowIndex ==
    ASSUME NEW d, Rooted(d), NEW n \in Nat, NEW h \in Nat, n <= h, NEW b \in Blocks,
           Sound(Below(d, n)), ValidAbove(Stem(d.blocks, n), b)
    PROVE  Below(Index(d, h, b), n) = Below(d, n)
<1> DEFINE e == Index(d, h, b)
           p == Below(d, n)
           q == Below(e, n)
<1>0. e = Index(d, h, b) /\ p = Below(d, n) /\ q = Below(e, n)
    OBVIOUS
<1> HIDE DEF e, p, q
<1>1. BlocksAfter(d, h, b, e)
    BY <1>0, IndexedBlocks
<1>2. TxsAfter(d, h, b, e)
    BY <1>0, IndexedTxs
<1>3. HistoryAfter(d, h, b, e)
    BY <1>0, IndexedHistory
<1>4. OutputsAfter(d, h, b, e)
    BY <1>0, IndexedOutputs
<1>5. TablesBelow(d, n, p)
    BY <1>0, BelowParts
<1>6. TablesBelow(e, n, q)
    BY <1>0, BelowParts
<1>7. Sound(p) /\ ValidAbove(p.blocks, b)
    BY <1>0, <1>5 DEF TablesBelow
<1>8. ~(h < n)
    OBVIOUS
<1>9. Stem(e.blocks, n) = Stem(d.blocks, n) /\ Stem(e.headers, n) = Stem(d.headers, n)
    <2>1. /\ {g \in DOMAIN e.blocks : g < n} = {g \in DOMAIN d.blocks : g < n}
          /\ {g \in DOMAIN e.headers : g < n} = {g \in DOMAIN d.headers : g < n}
        BY <1>1, <1>8 DEF BlocksAfter
    <2> QED
        BY <1>1, <1>8, <2>1 DEF Stem, Keep, BlocksAfter
<1>10. q.txs = p.txs
    <2>1. ASSUME NEW t \in Under(d.txs, n) PROVE t \notin InBlock(b)
        <3>1. t \in OnChain(p.blocks)
            BY <1>5, <1>7 DEF Sound, TxPart, TablesBelow
        <3> QED
            BY <1>7, <3>1 DEF ValidAbove
    <2>2. Under(e.txs, n) = Under(d.txs, n) /\ \A t \in Under(d.txs, n) : e.txs[t] = d.txs[t]
        BY <1>2, <1>8, <2>1 DEF Under, TxsAfter
    <2> QED
        BY <1>5, <1>6, <2>2 DEF TablesBelow
<1>11. q.history = p.history
    <2>1. Under(e.history, n) = Under(d.history, n)
        BY <1>3, <1>8 DEF Under, HistoryAfter
    <2>2. \A r \in Under(d.history, n) : e.history[r] = d.history[r]
        BY <1>3 DEF Under, HistoryAfter
    <2> QED
        BY <1>5, <1>6, <2>1, <2>2 DEF TablesBelow
<1>12. ASSUME NEW o \in DOMAIN e.utxos
       PROVE  IF o \in DOMAIN d.utxos THEN e.utxos[o].height = d.utxos[o].height
              ELSE e.utxos[o].height = h
    <2> DEFINE row == RowWith(d, h, b, o)
    <2>1. row \in UtxoRow /\ row.height = IF o \in DOMAIN d.utxos THEN d.utxos[o].height ELSE h
        <3>1. CASE o \in DOMAIN d.utxos
            BY <3>1 DEF RowWith, Rooted
        <3>2. CASE o \notin DOMAIN d.utxos
            <4>1. row = CreatedRow(h, b, o) /\ o \in Parsed(InBlock(b))
                BY <1>4, <3>2 DEF RowWith, OutputsAfter
            <4> QED
                BY <3>2, <4>1, CreatedRowFields
        <3> QED
            BY <3>1, <3>2
    <2>2. e.utxos[o] = IF o \notin SpentNow(d, b) THEN row ELSE SpentRow(row, Spender(d, b, o), h)
        BY <1>4 DEF OutputsAfter
    <2> HIDE DEF row
    <2>3. o \in SpentNow(d, b) => SpentRow(row, Spender(d, b, o), h).height = row.height
        BY <2>1, SpenderTyped, SpentRowFields
    <2> QED
        BY <2>1, <2>2, <2>3
<1>13. Under(e.utxos, n) = Under(d.utxos, n)
    <2>1. DOMAIN d.utxos \subseteq DOMAIN e.utxos
        BY <1>4 DEF OutputsAfter
    <2> QED
        BY <1>8, <1>12, <2>1 DEF Under
<1>14. ASSUME NEW o \in Under(d.utxos, n) PROVE q.utxos[o] = p.utxos[o]
    <2> DEFINE row == d.utxos[o]
    <2>1. o \in DOMAIN d.utxos /\ row \in UtxoRow
        BY DEF Under, Rooted
    <2>2. e.utxos[o] = IF o \notin SpentNow(d, b) THEN row ELSE SpentRow(row, Spender(d, b, o), h)
        BY <1>4, <2>1 DEF RowWith, OutputsAfter
    <2>3. /\ p.utxos[o] = IF row.spentHeight >= n THEN UnmarkedRow(row) ELSE row
          /\ q.utxos[o] = IF e.utxos[o].spentHeight >= n THEN UnmarkedRow(e.utxos[o]) ELSE e.utxos[o]
        BY <1>5, <1>6, <1>13 DEF TablesBelow
    <2> HIDE DEF row
    <2>4. CASE o \notin SpentNow(d, b)
        BY <2>2, <2>3, <2>4
    <2>5. CASE o \in SpentNow(d, b)
        <3>1. p.utxos[o].spentBy = NoTx /\ p.utxos[o].spentHeight = -1
            <4>1. o \in InputsOf(InBlock(b))
                BY <2>5, InSpentNow
            <4>2. o \notin InputsOf(OnChain(p.blocks))
                BY <1>7, <4>1 DEF ValidAbove
            <4>3. o \in DOMAIN p.utxos
                BY <1>5 DEF TablesBelow
            <4>4. DOMAIN p.utxos = Parsed(OnChain(p.blocks))
                BY <1>7 DEF Sound, UtxoPart
            <4>5. o \in Unspent(OnChain(p.blocks))
                BY <4>2, <4>3, <4>4 DEF Parsed, Unspent
            <4> QED
                BY <1>7, <4>3, <4>5 DEF Sound, UtxoPart
        <3>2. p.utxos[o] = UnmarkedRow(row)
            BY <2>1, <2>3, <3>1, UnmarkedFields
        <3>3. e.utxos[o] = SpentRow(row, Spender(d, b, o), h) /\ Spender(d, b, o) \in Tx
            BY <2>2, <2>5, SpenderTyped
        <3>4. e.utxos[o].spentHeight = h
            BY <2>1, <3>3, SpentRowFields
        <3>5. q.utxos[o] = UnmarkedRow(e.utxos[o])
            BY <2>3, <3>4
        <3>6. UnmarkedRow(SpentRow(row, Spender(d, b, o), h)) = UnmarkedRow(row)
            BY <2>1, UnmarkedFields
        <3> QED
            BY <3>2, <3>3, <3>5, <3>6
    <2> QED
        BY <2>4, <2>5
<1>15. q.utxos = p.utxos
    BY <1>5, <1>6, <1>13, <1>14 DEF TablesBelow
<1> QED
    BY <1>9, <1>10, <1>11, <1>15, BelowSame DEF e, p, q

LEMMA BelowRollback ==
    ASSUME NEW d, Rooted(d), NEW n \in Nat, NEW h \in Nat, n <= h
    PROVE  Below(Rollback(d, h), n) = Below(d, n)
<1> DEFINE e == Rollback(d, h)
           p == Below(d, n)
           q == Below(e, n)
<1>0. e = Rollback(d, h) /\ p = Below(d, n) /\ q = Below(e, n)
    OBVIOUS
<1> HIDE DEF e, p, q
<1>1. RolledTables(d, h, e)
    BY <1>0, RolledBack
<1>2. TablesBelow(d, n, p)
    BY <1>0, BelowParts
<1>3. TablesBelow(e, n, q)
    BY <1>0, BelowParts
<1>4. ~(h < n) /\ h >= n /\ ~(-1 >= n)
    OBVIOUS
<1>5. Stem(e.blocks, n) = Stem(d.blocks, n) /\ Stem(e.headers, n) = Stem(d.headers, n)
    <2>1. /\ {g \in DOMAIN e.blocks : g < n} = {g \in DOMAIN d.blocks : g < n}
          /\ {g \in DOMAIN e.headers : g < n} = {g \in DOMAIN d.headers : g < n}
        BY <1>1, <1>4 DEF RolledTables
    <2> QED
        BY <1>1, <2>1 DEF Stem, Keep, RolledTables
<1>6. q.txs = p.txs
    <2>1. Under(e.txs, n) = Under(d.txs, n) /\ \A t \in Under(d.txs, n) : e.txs[t] = d.txs[t]
        BY <1>1, <1>4 DEF Under, AtHeight, RolledTables
    <2> QED
        BY <1>2, <1>3, <2>1 DEF TablesBelow
<1>7. q.history = p.history
    <2>1. /\ Under(e.history, n) = Under(d.history, n)
          /\ \A r \in Under(d.history, n) : e.history[r] = d.history[r]
        BY <1>1, <1>4 DEF Under, AtHeight, RolledTables
    <2> QED
        BY <1>2, <1>3, <2>1 DEF TablesBelow
<1>8. \A o \in DOMAIN d.utxos : UnmarkedRow(d.utxos[o]).height = d.utxos[o].height
    BY UnmarkedFields DEF Rooted
<1>9. Under(e.utxos, n) = Under(d.utxos, n)
    BY <1>1, <1>4, <1>8 DEF Under, AtHeight, RolledTables
<1>10. ASSUME NEW o \in Under(d.utxos, n) PROVE q.utxos[o] = p.utxos[o]
    <2> DEFINE row == d.utxos[o]
    <2>1. row \in UtxoRow /\ o \in DOMAIN e.utxos
        BY <1>9 DEF Under, Rooted
    <2>2. e.utxos[o] = IF row.spentHeight = h THEN UnmarkedRow(row) ELSE row
        BY <1>1, <2>1 DEF RolledTables
    <2>3. /\ p.utxos[o] = IF row.spentHeight >= n THEN UnmarkedRow(row) ELSE row
          /\ q.utxos[o] = IF e.utxos[o].spentHeight >= n THEN UnmarkedRow(e.utxos[o]) ELSE e.utxos[o]
        BY <1>2, <1>3, <1>9 DEF TablesBelow
    <2> HIDE DEF row
    <2>4. UnmarkedRow(row).spentHeight = -1
        BY <2>1, UnmarkedFields
    <2> QED
        BY <1>4, <2>2, <2>3, <2>4
<1>11. q.utxos = p.utxos
    BY <1>2, <1>3, <1>9, <1>10 DEF TablesBelow
<1> QED
    BY <1>5, <1>6, <1>7, <1>11, BelowSame DEF e, p, q

\* Below a height above every block there is everything.
LEMMA BelowAll ==
    ASSUME NEW d, Rooted(d), NEW n \in Nat, DOMAIN d.blocks \subseteq 0 .. n - 1
    PROVE  Below(d, n) = [d EXCEPT !.meta = n - 1]
<1> DEFINE p == Below(d, n)
<1>0. p = Below(d, n)
    OBVIOUS
<1> HIDE DEF p
<1>1. TablesBelow(d, n, p)
    BY <1>0, BelowParts
<1>2. \A g \in DOMAIN d.blocks : g \in Int /\ g < n
    OBVIOUS
<1>3. d.headers = d.blocks /\ d.blocks = [g \in DOMAIN d.blocks |-> d.blocks[g]]
    BY DEF Rooted
<1>4. Stem(d.blocks, n) = d.blocks
    <2>1. {g \in DOMAIN d.blocks : g < n} = DOMAIN d.blocks
        BY <1>2
    <2> QED
        BY <1>3, <2>1 DEF Stem, Keep
<1>5. Under(d.txs, n) = DOMAIN d.txs /\ Under(d.history, n) = DOMAIN d.history
    BY <1>2 DEF Under, Rooted
<1>6. Under(d.utxos, n) = DOMAIN d.utxos
    BY <1>2 DEF Under, Rooted
<1>7. \A o \in DOMAIN d.utxos : ~(d.utxos[o].spentHeight >= n)
    <2>1. \A o \in DOMAIN d.utxos : d.utxos[o].spentHeight \in DOMAIN d.blocks \cup {-1}
        BY DEF Rooted
    <2> QED
        BY <1>2, <2>1
<1>8. d.utxos = [o \in DOMAIN d.utxos |-> d.utxos[o]]
    BY DEF Rooted
<1>9. p.utxos = d.utxos
    BY <1>1, <1>6, <1>7, <1>8 DEF TablesBelow
<1>10. p.txs = d.txs /\ p.history = d.history
    BY <1>1, <1>5 DEF Rooted, TablesBelow
<1>11. d = [blocks |-> d.blocks, headers |-> d.headers, txs |-> d.txs,
            utxos |-> d.utxos, history |-> d.history, meta |-> d.meta]
    BY DEF Rooted
<1>12. p = [d EXCEPT !.meta = n - 1]
    BY <1>1, <1>3, <1>4, <1>9, <1>10, <1>11 DEF TablesBelow
<1> QED
    BY <1>12 DEF p


-----------------------------------------------------------------------------
(* What is stored of a block that is indexed once or twice.                  *)

View(d, b, T) == IF d.meta + 1 \in T THEN Seen(d, d.meta + 1, b) ELSE d

LEMMA StoredIsIndexed ==
    ASSUME NEW d, Sound(d), NEW b \in Blocks, ValidNext(d.blocks, b), NEW T
    PROVE  /\ View(d, b, T) \in Views(d, b)
           /\ Stored(d, d.meta + 1, b, T) = Index(View(d, b, T), d.meta + 1, b)
<1> DEFINE h == d.meta + 1
<1>1. d \in Views(d, b) /\ Seen(d, h, b) \in Views(d, b)
    BY DEF Views
<1>2. Index(Index(d, h, b), h, b) = Index(Seen(d, h, b), h, b)
    BY <1>1, SeenTwice
<1>3. Stored(d, h, b, T) = IF h \in T THEN Index(Index(d, h, b), h, b) ELSE Index(d, h, b)
    BY DEF Stored
<1>4. View(d, b, T) = IF h \in T THEN Seen(d, h, b) ELSE d
    BY DEF View
<1> QED
    BY <1>1, <1>2, <1>3, <1>4

LEMMA NextStored ==
    ASSUME NEW d, Sound(d), NEW b \in Blocks, ValidNext(d.blocks, b), NEW T,
           NEW e, e = Stored(d, d.meta + 1, b, T)
    PROVE  /\ Sound(e) /\ e.meta = d.meta + 1 /\ e.blocks[e.meta] = b
           /\ DOMAIN e.blocks = DOMAIN d.blocks \cup {e.meta}
           /\ \A k \in DOMAIN d.blocks : e.blocks[k] = d.blocks[k]
           /\ OnChain(e.blocks) = OnChain(d.blocks) \cup InBlock(b)
<1> DEFINE w == View(d, b, T)
<1>1. w \in Views(d, b) /\ e = Index(w, d.meta + 1, b) /\ ChainPart(d)
    BY StoredIsIndexed DEF Sound
<1> HIDE DEF w
<1>2. Sound(e)
    BY <1>1, NextSound
<1> QED
    BY <1>1, <1>2, NextChain

\* The table knows an output as unspent when the chain does not spend it, and
\* when its own block does and was indexed once.
ExactPart(d, T) ==
    \A o \in DOMAIN d.utxos :
        d.utxos[o].spentBy = NoTx <=>
            o \in Unspent(OnChain(d.blocks)) \cup SpentAtOnce(d.blocks, T)

LEMMA NextExact ==
    ASSUME NEW d, Sound(d), NEW b \in Blocks, ValidNext(d.blocks, b), NEW T, ExactPart(d, T),
           NEW e, e = Stored(d, d.meta + 1, b, T)
    PROVE  ExactPart(e, T)
<1> DEFINE w == View(d, b, T)
           old == OnChain(d.blocks)
           new == InBlock(b)
           h == d.meta + 1
<1>1. w \in Views(d, b) /\ e = Index(w, d.meta + 1, b)
    BY StoredIsIndexed
<1>2. DOMAIN w.utxos \cap Parsed(new) = IF h \in T THEN Parsed(new) ELSE {}
    <2>1. DOMAIN d.utxos \cap Parsed(new) = {}
        BY ParsedApart
    <2>2. Seen(d, h, b).utxos = WithCreated(d, b)
        <3>1. d \in Views(d, b)
            BY DEF Views
        <3> QED
            BY <3>1, SeenIsView
    <2>3. Parsed(new) \subseteq DOMAIN WithCreated(d, b)
        BY DEF WithCreated
    <2> QED
        BY <2>1, <2>2, <2>3 DEF View
<1> HIDE DEF w
<1>3. /\ e.meta = h /\ e.blocks[h] = b /\ DOMAIN e.blocks = DOMAIN d.blocks \cup {h}
      /\ \A k \in DOMAIN d.blocks : e.blocks[k] = d.blocks[k]
      /\ OnChain(e.blocks) = old \cup new
    BY NextStored
<1>4. h \notin DOMAIN d.blocks
    BY DEF Sound, ChainPart
<1>5. /\ InputsOf(old \cup new) = InputsOf(old) \cup InputsOf(new)
      /\ OutpointsOf(old \cup new) = OutpointsOf(old) \cup OutpointsOf(new)
    BY UnionOfSets
<1>6. /\ new \cap old = {} /\ InputsOf(new) \cap InputsOf(old) = {}
      /\ InputsOf(old) \subseteq OutpointsOf(old)
    BY ValidBlock DEF Sound, ChainPart
<1>7. OutpointsOf(new) \cap OutpointsOf(old) = {}
    BY <1>6, InOutpoints
<1>8. SpentInside(b) = OutpointsOf(new) \cap InputsOf(new)
    BY DEF SpentInside
<1>9. SpentAtOnce(d.blocks, T) \subseteq InputsOf(old)
    <2>1. SUFFICES ASSUME NEW o \in SpentAtOnce(d.blocks, T) PROVE o \in InputsOf(old)
        OBVIOUS
    <2>2. PICK k \in DOMAIN d.blocks : o \in SpentInside(d.blocks[k])
        BY InAtOnce
    <2>3. o \in InputsOf(InBlock(d.blocks[k])) /\ InBlock(d.blocks[k]) \subseteq old
        BY <2>2, InChain DEF SpentInside
    <2> QED
        BY <2>3, InInputs
<1>10. ASSUME NEW o
       PROVE  o \in SpentAtOnce(e.blocks, T) <=>
                 o \in SpentAtOnce(d.blocks, T) \/ (h \notin T /\ o \in SpentInside(b))
    BY <1>3, <1>4, InAtOnce
<1>11. /\ DOMAIN d.utxos = Parsed(old)
       /\ DOMAIN e.utxos = Parsed(old) \cup Parsed(new)
    <2>1. RowsExtend(d, w, b, e) /\ DOMAIN d.utxos = Parsed(old)
        BY <1>1, ParsedApart, NextRows
    <2> QED
        BY <2>1 DEF RowsExtend
<1>12. Parsed(old) \subseteq OutpointsOf(old) /\ Parsed(new) \subseteq OutpointsOf(new)
    BY DEF Parsed
<1>13. ASSUME NEW o
       PROVE  o \in Unspent(OnChain(e.blocks)) <=>
                 /\ o \in OutpointsOf(old) \/ o \in OutpointsOf(new)
                 /\ o \notin InputsOf(old) /\ o \notin InputsOf(new)
    BY <1>3, <1>5 DEF Unspent
<1>14. ASSUME NEW o \in Parsed(old)
       PROVE  e.utxos[o].spentBy = NoTx <=>
                 o \in Unspent(OnChain(e.blocks)) \/ o \in SpentAtOnce(e.blocks, T)
    <2>1. d.utxos[o].spentBy = NoTx <=> o \in Unspent(old) \/ o \in SpentAtOnce(d.blocks, T)
        BY <1>11 DEF ExactPart
    <2>2. /\ o \notin InputsOf(new) => e.utxos[o] = d.utxos[o]
          /\ o \in InputsOf(new) => e.utxos[o].spentBy # NoTx
        BY <1>1, <1>11, OldRowFields
    <2>3. o \in OutpointsOf(old) /\ o \notin SpentInside(b)
        BY <1>7, <1>8, <1>12
    <2>4. o \in Unspent(old) <=> o \notin InputsOf(old)
        BY <2>3 DEF Unspent
    <2> HIDE DEF old, new, h
    <2> QED
        BY <1>6, <1>9, <1>10, <1>13, <2>1, <2>2, <2>3, <2>4
<1>15. ASSUME NEW o \in Parsed(new)
       PROVE  e.utxos[o].spentBy = NoTx <=>
                 o \in Unspent(OnChain(e.blocks)) \/ o \in SpentAtOnce(e.blocks, T)
    <2>1. /\ o \notin DOMAIN w.utxos \/ o \notin InputsOf(new) => e.utxos[o].spentBy = NoTx
          /\ o \in DOMAIN w.utxos /\ o \in InputsOf(new) => e.utxos[o].spentBy # NoTx
        BY <1>1, NewRowFields
    <2>2. o \in OutpointsOf(new) /\ o \notin InputsOf(old) /\ o \notin SpentAtOnce(d.blocks, T)
        BY <1>6, <1>7, <1>9, <1>12
    <2>3. o \in DOMAIN w.utxos <=> h \in T
        BY <1>2
    <2> HIDE DEF old, new, h
    <2> QED
        BY <1>8, <1>10, <1>13, <2>1, <2>2, <2>3
<1> HIDE DEF old, new, h
<1> QED
    BY <1>11, <1>14, <1>15 DEF ExactPart

-----------------------------------------------------------------------------
(* The invariant: what the linked blocks have left in the tables is what     *)
(* indexing them one by one leaves, at every height.                         *)

\* The tables below each height up to n come from those below the height before
\* it with its block, indexed twice at the heights of T.
Grown(d, n, T) ==
    /\ n \in Nat /\ Below(d, 0) = EmptyDb
    /\ \A k \in 0 .. n : Sound(Below(d, k)) /\ ExactPart(Below(d, k), T)
    /\ \A k \in 0 .. n - 1 :
          /\ d.blocks[k] \in Blocks /\ ValidNext(Below(d, k).blocks, d.blocks[k])
          /\ Below(d, k + 1) = Stored(Below(d, k), k, d.blocks[k], T)

TablesInv ==
    /\ Rooted(db) /\ affected \subseteq Script
    /\ Grown(db, linked, again) /\ again \subseteq 0 .. linked - 1

LEMMA BelowChain ==
    ASSUME NEW d, NEW k \in Nat, Sound(Below(d, k))
    PROVE  /\ Below(d, k).meta = k - 1 /\ Below(d, k).blocks = Stem(d.blocks, k)
           /\ DOMAIN Stem(d.blocks, k) = 0 .. k - 1 /\ 0 .. k - 1 \subseteq DOMAIN d.blocks
           /\ \A g \in 0 .. k - 1 : Stem(d.blocks, k)[g] = d.blocks[g]
<1> DEFINE p == Below(d, k)
<1>0. p = Below(d, k) /\ Sound(p)
    OBVIOUS
<1> HIDE DEF p
<1>1. TablesBelow(d, k, p)
    BY <1>0, BelowParts
<1>2. p.meta = k - 1 /\ p.blocks = Stem(d.blocks, k)
    BY <1>1 DEF TablesBelow
<1>3. DOMAIN p.blocks = 0 .. p.meta
    BY <1>0 DEF Sound, ChainPart
<1>4. DOMAIN Stem(d.blocks, k) \subseteq DOMAIN d.blocks
    BY DEF Stem, Keep
<1>5. \A g \in DOMAIN Stem(d.blocks, k) : Stem(d.blocks, k)[g] = d.blocks[g]
    BY DEF Stem, Keep
<1> QED
    BY <1>0, <1>2, <1>3, <1>4, <1>5

\* Less of the chain, in tables that are the same below it.
LEMMA GrownKept ==
    ASSUME NEW d, NEW n, NEW T, Grown(d, n, T), NEW m \in 0 .. n,
           NEW e, \A k \in 0 .. m : Below(e, k) = Below(d, k),
           NEW U, \A k \in 0 .. m - 1 : k \in T <=> k \in U
    PROVE  Grown(e, m, U)
<1>1. n \in Nat /\ m \in Nat /\ m <= n /\ 0 \in 0 .. m
    BY DEF Grown
<1>2. \A k \in 0 .. m : k \in 0 .. n /\ k \in Nat
    BY <1>1
<1>3. \A k \in 0 .. m - 1 : k \in 0 .. n - 1 /\ k \in 0 .. m /\ k + 1 \in 0 .. m /\ k \in 0 .. (k + 1) - 1
    BY <1>1
<1>4. Below(e, 0) = EmptyDb
    BY <1>1 DEF Grown
<1>5. ASSUME NEW k \in 0 .. m PROVE Sound(Below(e, k)) /\ ExactPart(Below(e, k), U)
    <2> DEFINE p == Below(d, k)
    <2>1. Sound(p) /\ ExactPart(p, T)
        BY <1>2 DEF Grown
    <2>2. DOMAIN p.blocks = 0 .. k - 1
        BY <1>2, <2>1, BelowChain
    <2>3. \A g \in 0 .. k - 1 : g \in T <=> g \in U
        BY <1>1
    <2> HIDE DEF p
    <2>4. SpentAtOnce(p.blocks, U) = SpentAtOnce(p.blocks, T)
        <3>1. \A o : o \in SpentAtOnce(p.blocks, U) <=> o \in SpentAtOnce(p.blocks, T)
            BY <2>2, <2>3, InAtOnce
        <3> QED
            BY <3>1
    <2>5. Sound(p) /\ ExactPart(p, U)
        BY <2>1, <2>4 DEF ExactPart
    <2> QED
        BY <2>5 DEF p
<1>6. ASSUME NEW k \in 0 .. m - 1
      PROVE  /\ e.blocks[k] \in Blocks /\ ValidNext(Below(e, k).blocks, e.blocks[k])
             /\ Below(e, k + 1) = Stored(Below(e, k), k, e.blocks[k], U)
    <2>1. /\ d.blocks[k] \in Blocks /\ ValidNext(Below(d, k).blocks, d.blocks[k])
          /\ Below(d, k + 1) = Stored(Below(d, k), k, d.blocks[k], T)
        BY <1>3 DEF Grown
    <2>2. Below(e, k) = Below(d, k) /\ Below(e, k + 1) = Below(d, k + 1)
        BY <1>3
    <2>3. e.blocks[k] = d.blocks[k]
        <3>1. Sound(Below(e, k + 1)) /\ Sound(Below(d, k + 1)) /\ k + 1 \in Nat
            BY <1>2, <1>3, <1>5, <2>2
        <3>2. /\ Stem(e.blocks, k + 1)[k] = e.blocks[k]
              /\ Below(e, k + 1).blocks = Stem(e.blocks, k + 1)
            BY <1>3, <3>1, BelowChain
        <3>3. /\ Stem(d.blocks, k + 1)[k] = d.blocks[k]
              /\ Below(d, k + 1).blocks = Stem(d.blocks, k + 1)
            BY <1>3, <3>1, BelowChain
        <3> QED
            BY <2>2, <3>2, <3>3
    <2>4. ASSUME NEW p, NEW b PROVE Stored(p, k, b, T) = Stored(p, k, b, U)
        BY DEF Stored
    <2> QED
        BY <2>1, <2>2, <2>3, <2>4
<1> QED
    BY <1>1, <1>4, <1>5, <1>6 DEF Grown

LEMMA GrownNext ==
    ASSUME NEW d, NEW n, NEW T, Grown(d, n, T), NEW b \in Blocks, d.blocks[n] = b,
           ValidNext(Below(d, n).blocks, b), Below(d, n + 1) = Stored(Below(d, n), n, b, T)
    PROVE  Grown(d, n + 1, T)
<1> DEFINE p == Below(d, n)
           q == Below(d, n + 1)
<1>1. n \in Nat /\ n \in 0 .. n
    BY DEF Grown
<1>2. Sound(p) /\ ExactPart(p, T) /\ p.meta = n - 1 /\ ValidNext(p.blocks, b)
    BY <1>1, BelowChain DEF Grown
<1>3. q = Stored(p, p.meta + 1, b, T)
    BY <1>1, <1>2
<1> HIDE DEF p, q
<1>4. Sound(q)
    BY <1>2, <1>3, NextStored
<1>5. ExactPart(q, T)
    BY <1>2, <1>3, NextExact
<1>6. \A k \in 0 .. n + 1 : k \in 0 .. n \/ k = n + 1
    BY <1>1
<1>7. \A k \in 0 .. (n + 1) - 1 : k \in 0 .. n - 1 \/ k = n
    BY <1>1
<1>8. n + 1 \in Nat
    BY <1>1
<1>9. ASSUME NEW k \in 0 .. n + 1 PROVE Sound(Below(d, k)) /\ ExactPart(Below(d, k), T)
    BY <1>4, <1>5, <1>6 DEF Grown, q
<1>10. ASSUME NEW k \in 0 .. (n + 1) - 1
       PROVE  /\ d.blocks[k] \in Blocks /\ ValidNext(Below(d, k).blocks, d.blocks[k])
              /\ Below(d, k + 1) = Stored(Below(d, k), k, d.blocks[k], T)
    BY <1>7 DEF Grown
<1>11. Below(d, 0) = EmptyDb
    BY DEF Grown
<1> QED
    BY <1>8, <1>9, <1>10, <1>11 DEF Grown

\* Above a shorter chain a block is valid all the more.
LEMMA AboveLess ==
    ASSUME NEW chain, NEW part, OnChain(part) \subseteq OnChain(chain), NEW b,
           ValidAbove(chain, b)
    PROVE  ValidAbove(part, b)
<1>1. InputsOf(OnChain(part)) \subseteq InputsOf(OnChain(chain))
    BY InInputs
<1> QED
    BY <1>1 DEF ValidAbove

LEMMA StemLess ==
    ASSUME NEW chain, NEW n \in Nat, NEW k \in 0 .. n, DOMAIN chain \subseteq Nat
    PROVE  OnChain(Stem(chain, k)) \subseteq OnChain(Stem(chain, n))
<1>1. /\ DOMAIN Stem(chain, k) \subseteq DOMAIN Stem(chain, n)
      /\ \A g \in DOMAIN Stem(chain, k) : Stem(chain, k)[g] = Stem(chain, n)[g]
    BY DEF Stem, Keep
<1> QED
    BY <1>1, InChain

LEMMA NextIsAbove ==
    ASSUME NEW chain, NEW b \in Blocks, ValidNext(chain, b)
    PROVE  ValidAbove(chain, b)
<1>1. /\ InBlock(b) \cap OnChain(chain) = {}
      /\ InputsOf(InBlock(b)) \cap InputsOf(OnChain(chain)) = {}
    BY ValidBlock
<1>2. DOMAIN b \subseteq Nat
    BY Blocked
<1>3. ASSUME NEW i \in DOMAIN b, NEW j \in DOMAIN b, j < i
      PROVE  InputsOf({b[i]}) \cap InputsOf({b[j]}) = {}
    <2> DEFINE before == OnChain(chain) \cup {b[l] : l \in 0 .. (i - 1)}
    <2>1. InputsOf({b[i]}) \cap InputsOf(before) = {}
        BY DEF ValidNext, Unspent
    <2>2. b[j] \in before
        BY <1>2, <1>3
    <2> HIDE DEF before
    <2>3. InputsOf({b[j]}) \subseteq InputsOf(before)
        BY <2>2, InInputs
    <2> QED
        BY <2>1, <2>3
<1>4. \A i, j \in DOMAIN b : i # j => InputsOf({b[i]}) \cap InputsOf({b[j]}) = {}
    <2>1. \A i, j \in DOMAIN b : i # j => i < j \/ j < i
        BY <1>2
    <2> QED
        BY <1>3, <2>1
<1>5. /\ \A i, j \in DOMAIN b : b[i] = b[j] => i = j
      /\ \A i \in DOMAIN b : \A k, l \in DOMAIN Inputs[b[i]] :
            Inputs[b[i]][k] = Inputs[b[i]][l] => k = l
    BY DEF ValidNext
<1> QED
    BY <1>1, <1>4, <1>5 DEF ValidAbove

\* What Index makes does not depend on indexed_height.
LEMMA IndexAlike ==
    ASSUME NEW c, NEW d, NEW h, NEW b, c.blocks = d.blocks, c.headers = d.headers,
           c.txs = d.txs, c.utxos = d.utxos, c.history = d.history
    PROVE  Index(c, h, b) = Index(d, h, b)
<1>1. Spends(c, b) = Spends(d, b)
    BY DEF Spends
<1>2. SpendHistory(c, h, b) = SpendHistory(d, h, b)
    BY <1>1 DEF SpendHistory
<1>3. \A u : MarkSpent(c, u, h, b) = MarkSpent(d, u, h, b)
    BY <1>1 DEF MarkSpent
<1> QED
    BY <1>2, <1>3 DEF Index, NewHistory

LEMMA EmptyRooted == Rooted(EmptyDb) /\ Below(EmptyDb, 0) = EmptyDb
<1>1. /\ EmptyDb.blocks = EmptyRows /\ EmptyDb.headers = EmptyRows /\ EmptyDb.meta = -1
      /\ EmptyDb.txs = EmptyRows /\ EmptyDb.utxos = EmptyRows /\ EmptyDb.history = EmptyRows
      /\ EmptyDb = [blocks |-> EmptyDb.blocks, headers |-> EmptyDb.headers,
                    txs |-> EmptyDb.txs, utxos |-> EmptyDb.utxos,
                    history |-> EmptyDb.history, meta |-> EmptyDb.meta]
    BY DEF EmptyDb
<1>2. DOMAIN EmptyRows = {} /\ EmptyRows = [k \in {} |-> EmptyRows[k]]
    BY DEF EmptyRows
<1>3. EmptyRows \in [{} -> Blocks] /\ EmptyRows \in [{} -> UtxoRow]
    BY <1>2
<1>4. Rooted(EmptyDb)
    BY <1>1, <1>2, <1>3 DEF Rooted
<1>5. Below(EmptyDb, 0) = [EmptyDb EXCEPT !.meta = 0 - 1]
    <2>1. DOMAIN EmptyDb.blocks \subseteq 0 .. 0 - 1 /\ 0 \in Nat
        BY <1>1, <1>2
    <2> QED
        BY <1>4, <2>1, BelowAll
<1>6. [EmptyDb EXCEPT !.meta = 0 - 1] = EmptyDb
    BY DEF EmptyDb
<1> QED
    BY <1>4, <1>5, <1>6

LEMMA TablesInvInit ==
    ASSUME Init
    PROVE  TablesInv
<1>1. db = EmptyDb /\ linked = 0 /\ affected = {} /\ again = {}
    BY DEF Init
<1>2. Rooted(EmptyDb) /\ Below(EmptyDb, 0) = EmptyDb /\ Sound(EmptyDb)
    BY EmptyRooted, EmptySound
<1>3. DOMAIN EmptyDb.utxos = {}
    BY DEF EmptyDb, EmptyRows
<1>4. ExactPart(EmptyDb, {})
    BY <1>3 DEF ExactPart
<1>5. \A k \in 0 .. 0 : k = 0
    OBVIOUS
<1>6. 0 .. 0 - 1 = {} /\ 0 \in Nat
    OBVIOUS
<1>7. Grown(EmptyDb, 0, {})
    BY <1>2, <1>4, <1>5, <1>6 DEF Grown
<1> QED
    BY <1>1, <1>2, <1>7 DEF TablesInv

-----------------------------------------------------------------------------
LEMMA IndexKeeps ==
    ASSUME TablesInv, NEW m \in 0 .. linked, NEW h \in Nat, m <= h, NEW b \in Blocks,
           ValidAbove(Stem(db.blocks, m), b)
    PROVE  \A k \in 0 .. m : Below(Index(db, h, b), k) = Below(db, k)
<1>1. Rooted(db) /\ linked \in Nat /\ DOMAIN db.blocks \subseteq Nat
    BY DEF TablesInv, Grown, Rooted
<1>2. ASSUME NEW k \in 0 .. m PROVE Below(Index(db, h, b), k) = Below(db, k)
    <2>1. k \in Nat /\ k \in 0 .. linked /\ k <= h /\ m \in Nat
        BY <1>1
    <2>2. Sound(Below(db, k))
        BY <2>1 DEF TablesInv, Grown
    <2>3. ValidAbove(Stem(db.blocks, k), b)
        BY <1>1, <2>1, StemLess, AboveLess
    <2> QED
        BY <1>1, <2>1, <2>2, <2>3, BelowIndex
<1> QED
    BY <1>2

\* Nothing but the linked blocks stored, what lies below them is everything.
LEMMA WholeIsBelow ==
    ASSUME TablesInv, Whole
    PROVE  LET p == Below(db, linked)
           IN /\ p.blocks = db.blocks /\ p.headers = db.headers /\ p.txs = db.txs
              /\ p.utxos = db.utxos /\ p.history = db.history /\ p.meta = linked - 1
              /\ Sound(p) /\ ExactPart(p, again)
<1> DEFINE p == Below(db, linked)
<1>1. Rooted(db) /\ linked \in Nat /\ DOMAIN db.blocks \subseteq 0 .. linked - 1
    BY DEF TablesInv, Grown, Whole
<1>2. p = [db EXCEPT !.meta = linked - 1]
    BY <1>1, BelowAll
<1>3. db = [blocks |-> db.blocks, headers |-> db.headers, txs |-> db.txs,
            utxos |-> db.utxos, history |-> db.history, meta |-> db.meta]
    BY <1>1 DEF Rooted
<1>4. linked \in 0 .. linked
    BY <1>1
<1>5. Sound(p) /\ ExactPart(p, again)
    BY <1>4 DEF TablesInv, Grown
<1> HIDE DEF p
<1>6. /\ p.blocks = db.blocks /\ p.headers = db.headers /\ p.txs = db.txs
      /\ p.utxos = db.utxos /\ p.history = db.history /\ p.meta = linked - 1
    BY <1>2, <1>3
<1> QED
    BY <1>5, <1>6 DEF p

\* The tables with one more linked block on top are all of them.
LEMMA IndexedOnTop ==
    ASSUME TablesInv, NEW h \in Nat, DOMAIN db.blocks \subseteq 0 .. h, NEW b \in Blocks,
           NEW e, e = Index(db, h, b)
    PROVE  /\ Rooted(e) /\ e.blocks[h] = b /\ e.meta = h
           /\ Below(e, h + 1) = e
<1>1. Rooted(e)
    BY RootedIndex DEF TablesInv
<1>2. BlocksAfter(db, h, b, e)
    BY IndexedBlocks
<1>3. /\ DOMAIN e.blocks = DOMAIN db.blocks \cup {h} /\ e.blocks[h] = b /\ e.meta = h
      /\ e = [blocks |-> e.blocks, headers |-> e.headers, txs |-> e.txs,
              utxos |-> e.utxos, history |-> e.history, meta |-> e.meta]
    BY <1>2 DEF BlocksAfter
<1>4. DOMAIN e.blocks \subseteq 0 .. (h + 1) - 1 /\ h + 1 \in Nat /\ (h + 1) - 1 = h
    BY <1>3
<1>5. Below(e, h + 1) = [e EXCEPT !.meta = (h + 1) - 1]
    BY <1>1, <1>4, BelowAll
<1>6. [e EXCEPT !.meta = h] = e
    BY <1>3
<1> QED
    BY <1>1, <1>3, <1>4, <1>5, <1>6

LEMMA IndexBlockGrows ==
    ASSUME TablesInv, IndexBlock
    PROVE  TablesInv'
<1>0. Whole /\ linked \in Nat /\ linked' = linked + 1 /\ again' = again
    BY DEF IndexBlock, TablesInv, Grown
<1> PICK b \in Blocks : ValidNext(db.blocks, b) /\ StoreBlock(linked, b)
    BY DEF IndexBlock
<1> DEFINE e == Index(db, linked, b)
           p == Below(db, linked)
<1>1. db' = e /\ affected' = Touched(db, b)
    BY IndexReports DEF StoreBlock
<1>2. DOMAIN db.blocks = 0 .. linked - 1
    BY <1>0 DEF Whole
<1>3. /\ p.blocks = db.blocks /\ p.headers = db.headers /\ p.txs = db.txs
      /\ p.utxos = db.utxos /\ p.history = db.history /\ p.meta = linked - 1
      /\ Sound(p) /\ p.blocks = Stem(db.blocks, linked)
    <2>1. Sound(p)
        BY <1>0, WholeIsBelow
    <2> QED
        BY <1>0, <2>1, WholeIsBelow, BelowChain
<1>4. e = Index(p, linked, b)
    <2>1. /\ p.blocks = db.blocks /\ p.headers = db.headers /\ p.txs = db.txs
          /\ p.utxos = db.utxos /\ p.history = db.history
        BY <1>3
    <2> HIDE DEF p
    <2> QED
        BY <2>1, IndexAlike
<1>5. DOMAIN db.blocks \subseteq 0 .. linked
    BY <1>0, <1>2
<1>6. Rooted(e) /\ e.blocks[linked] = b /\ e.meta = linked /\ Below(e, linked + 1) = e
    BY <1>0, <1>5, IndexedOnTop
<1>7. \A k \in 0 .. linked : Below(e, k) = Below(db, k)
    <2>1. ValidAbove(Stem(db.blocks, linked), b)
        BY <1>3, NextIsAbove
    <2>2. linked \in 0 .. linked /\ linked <= linked
        BY <1>0
    <2> QED
        BY <1>0, <2>1, <2>2, IndexKeeps
<1> HIDE DEF e, p
<1>8. Grown(e, linked, again)
    <2>1. Grown(db, linked, again) /\ linked \in 0 .. linked
        BY <1>0 DEF TablesInv
    <2> QED
        BY <1>7, <2>1, GrownKept
<1>9. Below(e, linked) = p
    BY <1>0, <1>7 DEF p
<1>10. Below(e, linked + 1) = Stored(Below(e, linked), linked, b, again)
    <2>1. linked \notin again
        BY <1>0 DEF TablesInv
    <2> QED
        BY <1>4, <1>6, <1>9, <2>1 DEF Stored
<1>11. Grown(e, linked + 1, again)
    BY <1>3, <1>6, <1>8, <1>9, <1>10, GrownNext
<1>12. again \subseteq 0 .. (linked + 1) - 1
    BY <1>0 DEF TablesInv
<1>13. Touched(db, b) \subseteq Script
    BY ReportsTyped DEF TablesInv
<1> QED
    BY <1>0, <1>1, <1>6, <1>11, <1>12, <1>13 DEF TablesInv

LEMMA ReindexBlockGrows ==
    ASSUME TablesInv, ReindexBlock
    PROVE  TablesInv'
<1> DEFINE h == linked - 1
           b == db.blocks[h]
           e == Index(db, h, b)
           T == again \cup {h}
           p == Below(db, h)
           q == Below(db, linked)
<1>0. /\ Whole /\ linked' = linked /\ again' = T
      /\ linked \in Nat /\ h \in Nat /\ h \in 0 .. linked - 1 /\ h + 1 = linked
      /\ h \in 0 .. linked /\ h \in 0 .. h
    BY DEF ReindexBlock, TablesInv, Grown
<1>1. db' = e /\ affected' = Touched(db, b)
    BY IndexReports DEF ReindexBlock, StoreBlock
<1>2. /\ b \in Blocks /\ ValidNext(p.blocks, b) /\ q = Stored(p, h, b, again) /\ Sound(p)
    BY <1>0 DEF TablesInv, Grown
<1>3. /\ q.blocks = db.blocks /\ q.headers = db.headers /\ q.txs = db.txs
      /\ q.utxos = db.utxos /\ q.history = db.history
    BY <1>0, WholeIsBelow
<1>4. p.meta = h - 1 /\ p.blocks = Stem(db.blocks, h)
    BY <1>0, <1>2, BelowChain
<1>5. DOMAIN db.blocks \subseteq 0 .. h
    BY <1>0 DEF Whole
<1> HIDE DEF b
<1>6. e = Index(q, h, b)
    BY <1>3, IndexAlike
<1>7. Rooted(e) /\ e.blocks[h] = b /\ e.meta = h /\ Below(e, h + 1) = e
    BY <1>0, <1>2, <1>5, IndexedOnTop
<1>8. \A k \in 0 .. h : Below(e, k) = Below(db, k)
    <2>1. ValidAbove(Stem(db.blocks, h), b)
        BY <1>2, <1>4, NextIsAbove
    <2>2. h <= h
        BY <1>0
    <2> QED
        BY <1>0, <1>2, <2>1, <2>2, IndexKeeps
<1> HIDE DEF p, q, e
<1>9. e = Stored(p, h, b, T)
    <2> DEFINE w == View(p, b, again)
               v == Seen(p, p.meta + 1, b)
    <2>1. p.meta + 1 = h
        BY <1>0, <1>4
    <2>2. w \in Views(p, b) /\ q = Index(w, p.meta + 1, b)
        BY <1>2, <2>1, StoredIsIndexed
    <2> HIDE DEF w, h
    <2>3. Index(q, p.meta + 1, b) = Index(v, p.meta + 1, b)
        BY <1>2, <2>2, SeenTwice
    <2>4. Stored(p, p.meta + 1, b, T) = Index(View(p, b, T), p.meta + 1, b)
        BY <1>2, StoredIsIndexed
    <2>5. View(p, b, T) = v
        BY <2>1 DEF View
    <2> QED
        BY <1>6, <2>1, <2>3, <2>4, <2>5
<1>10. Grown(e, h, T)
    <2>1. \A k \in 0 .. h - 1 : k \in again <=> k \in T
        BY <1>0
    <2>2. Grown(db, linked, again)
        BY DEF TablesInv
    <2> HIDE DEF h, T
    <2> QED
        BY <1>0, <1>8, <2>1, <2>2, GrownKept
<1>11. Below(e, h) = p
    BY <1>0, <1>8 DEF p
<1>13. T \subseteq 0 .. linked - 1
    BY <1>0 DEF TablesInv
<1> HIDE DEF h, T
<1>12. Grown(e, h + 1, T)
    BY <1>2, <1>7, <1>9, <1>10, <1>11, GrownNext
<1>14. Touched(db, b) \subseteq Script
    BY <1>2, ReportsTyped DEF TablesInv
<1> QED
    BY <1>0, <1>1, <1>7, <1>12, <1>13, <1>14 DEF TablesInv

LEMMA IndexUnlinkedGrows ==
    ASSUME TablesInv, IndexUnlinked
    PROVE  TablesInv'
<1> PICK h \in 0 .. MaxBlocks - 1, n \in 0 .. linked, b \in Blocks :
        /\ DOMAIN db.blocks \subseteq 0 .. h /\ n <= h
        /\ ValidAbove(Stem(db.blocks, n), b)
        /\ StoreBlock(h, b)
        /\ linked' = n /\ again' = again \cap 0 .. n - 1
    BY DEF IndexUnlinked
<1> DEFINE e == Index(db, h, b)
           T == again \cap 0 .. n - 1
<1>0. h \in Nat
    BY TablesAssumption
<1>1. db' = e /\ affected' = Touched(db, b) /\ linked' = n /\ again' = T
    BY IndexReports DEF StoreBlock
<1>2. Rooted(e)
    BY <1>0, RootedIndex DEF TablesInv
<1>3. \A k \in 0 .. n : Below(e, k) = Below(db, k)
    BY <1>0, IndexKeeps
<1> HIDE DEF e
<1>4. \A k \in 0 .. n - 1 : k \in again <=> k \in T
    OBVIOUS
<1>5. T \subseteq 0 .. n - 1
    OBVIOUS
<1> HIDE DEF T
<1>6. Grown(e, n, T)
    <2>1. Grown(db, linked, again)
        BY DEF TablesInv
    <2> QED
        BY <1>3, <1>4, <2>1, GrownKept
<1>7. Touched(db, b) \subseteq Script
    BY ReportsTyped DEF TablesInv
<1> QED
    BY <1>1, <1>2, <1>5, <1>6, <1>7 DEF TablesInv

LEMMA RollbackShrinks ==
    ASSUME TablesInv, RollbackBlock
    PROVE  TablesInv'
<1> PICK h \in 0 .. db.meta :
        /\ DOMAIN db.blocks \subseteq 0 .. h
        /\ db' = Rollback(db, h)
        /\ affected' = AffectedByRollback(db, h)
        /\ linked' = IF h < linked THEN h ELSE linked
        /\ again' = again \ {h}
    BY DEF RollbackBlock
<1> DEFINE e == Rollback(db, h)
           m == IF h < linked THEN h ELSE linked
           T == again \ {h}
<1>0. h \in Nat /\ linked \in Nat /\ m \in 0 .. linked /\ m <= h
    BY DEF TablesInv, Grown, Rooted
<1>1. Rooted(e)
    BY <1>0, RootedRollback DEF TablesInv
<1>2. \A k \in 0 .. m : Below(e, k) = Below(db, k)
    <2>1. \A k \in 0 .. m : k \in Nat /\ k <= h
        BY <1>0
    <2> HIDE DEF m
    <2> QED
        BY <1>0, <2>1, BelowRollback DEF TablesInv
<1>3. \A k \in 0 .. m - 1 : k \in again <=> k \in T
    BY <1>0
<1>4. T \subseteq 0 .. m - 1
    <2>1. 0 .. linked - 1 \subseteq DOMAIN db.blocks
        <3>1. linked \in 0 .. linked
            BY <1>0
        <3>2. Sound(Below(db, linked))
            BY <3>1 DEF TablesInv, Grown
        <3> QED
            BY <1>0, <3>2, BelowChain
    <2>2. \A k \in 0 .. linked - 1 : k \in 0 .. h
        BY <2>1
    <2>3. again \subseteq 0 .. linked - 1
        BY DEF TablesInv
    <2>4. ASSUME NEW k \in 0 .. linked - 1, k # h PROVE k \in 0 .. m - 1
        BY <1>0, <2>2, <2>4
    <2> QED
        BY <2>3, <2>4
<1>5. db' = e /\ linked' = m /\ again' = T
    OBVIOUS
<1> HIDE DEF e, m, T
<1>6. Grown(e, m, T)
    <2>1. Grown(db, linked, again)
        BY DEF TablesInv
    <2> QED
        BY <1>0, <1>2, <1>3, <2>1, GrownKept
<1>7. affected' \subseteq Script
    BY ReportsTyped DEF TablesInv
<1> QED
    BY <1>1, <1>4, <1>5, <1>6, <1>7 DEF TablesInv

LEMMA TablesHold == Spec => []TablesInv
<1>1. Init => TablesInv
    BY TablesInvInit
<1>2. TablesInv /\ [Next]_vars => TablesInv'
    <2>1. TablesInv /\ UNCHANGED vars => TablesInv'
        BY DEF TablesInv, vars
    <2> QED
        BY <2>1, IndexBlockGrows, ReindexBlockGrows, IndexUnlinkedGrows, RollbackShrinks DEF Next
<1> QED
    BY <1>1, <1>2, PTL DEF Spec

-----------------------------------------------------------------------------
\* Every row stands at a height whose rollback deletes it, whatever blocks were
\* stored over and above one another; with the linked blocks alone, every row of
\* outputs, of history and of transactions is one of a transaction of the chain,
\* at its height.
THEOREM TablesTypeCorrect == Spec => []TypeOK
<1>1. TablesInv => TypeOK
    <2> SUFFICES ASSUME TablesInv PROVE TypeOK
        OBVIOUS
    <2>1. /\ DOMAIN db.blocks \subseteq 0..db.meta /\ db.headers = db.blocks
          /\ \A h \in DOMAIN db.blocks : db.blocks[h] \in Blocks
          /\ \A t \in DOMAIN db.txs : db.txs[t].height \in DOMAIN db.blocks
          /\ \A r \in DOMAIN db.history :
                r[1] \in Script /\ db.history[r].height \in DOMAIN db.blocks
        BY DEF TablesInv, Rooted
    <2>2. \A o \in DOMAIN db.utxos :
             /\ db.utxos[o].sh \in Script /\ db.utxos[o].height \in DOMAIN db.blocks
             /\ db.utxos[o].spentHeight \in DOMAIN db.blocks \cup {-1}
             /\ db.utxos[o].spentBy = NoTx <=> db.utxos[o].spentHeight = -1
        BY DEF TablesInv, Rooted, UtxoRow
    <2>3. /\ affected \subseteq Script /\ again \subseteq 0 .. linked - 1
          /\ 0 .. linked - 1 \subseteq DOMAIN db.blocks
        <3>1. linked \in Nat /\ linked \in 0 .. linked
            BY DEF TablesInv, Grown
        <3>2. Sound(Below(db, linked))
            BY <3>1 DEF TablesInv, Grown
        <3> QED
            BY <3>1, <3>2, BelowChain DEF TablesInv
    <2>4. ASSUME Whole
          PROVE  /\ DOMAIN db.txs = OnChain(db.blocks)
                 /\ \A o \in DOMAIN db.utxos :
                       o[1] \in DOMAIN db.txs /\ db.utxos[o].height = db.txs[o[1]].height
                 /\ \A r \in DOMAIN db.history : db.history[r].height = db.txs[r[2]].height
        <3> DEFINE p == Below(db, linked)
        <3>1. /\ p.blocks = db.blocks /\ p.txs = db.txs /\ p.utxos = db.utxos
              /\ p.history = db.history /\ Sound(p)
            BY <2>4, WholeIsBelow
        <3> HIDE DEF p
        <3>2. ChainPart(p) /\ TxPart(p) /\ UtxoPart(p) /\ HistoryPart(p)
            BY <3>1 DEF Sound
        <3>3. DOMAIN p.txs = OnChain(p.blocks)
            BY <3>2 DEF TxPart
        <3>4. \A o \in DOMAIN p.utxos : o[1] \in OnChain(p.blocks)
            BY <3>2, ChainIsInTx, ParsedScript DEF UtxoPart
        <3>5. \A o \in DOMAIN p.utxos : p.utxos[o].height = p.txs[o[1]].height
            BY <3>2 DEF UtxoPart
        <3>6. \A r \in DOMAIN p.history : p.history[r].height = p.txs[r[2]].height
            BY <3>2 DEF HistoryPart
        <3> QED
            BY <3>1, <3>3, <3>4, <3>5, <3>6
    <2> QED
        BY <2>1, <2>2, <2>3, <2>4 DEF TypeOK
<1> QED
    BY <1>1, TablesHold, PTL

Unfolds(f, chain, n, T) ==
    f = [h \in -1 .. n |-> IF h = -1 THEN EmptyDb ELSE Stored(f[h-1], h, chain[h], T)]

\* Two functions that grow a chain by the same rule agree everywhere: there
\* is no least height at which they differ.
LEMMA FreshIsUnique ==
    ASSUME NEW chain, NEW n \in Int, n >= -1, NEW f, NEW T, Unfolds(f, chain, n, T)
    PROVE  FreshIndex(chain, n, T) = f[n]
<1> DEFINE fresh == CHOOSE g : Unfolds(g, chain, n, T)
           differ == {k \in 0 .. n + 1 : fresh[k - 1] # f[k - 1]}
<1>1. Unfolds(fresh, chain, n, T)
    OBVIOUS
<1>2. FreshIndex(chain, n, T) = fresh[n]
    BY DEF FreshIndex, Unfolds
<1> HIDE DEF fresh
<1>3. differ = {}
    <2>1. SUFFICES ASSUME differ # {} PROVE FALSE
        OBVIOUS
    <2>2. PICK m \in differ : \A k \in differ : m <= k
        <3>1. differ \in SUBSET Nat
            OBVIOUS
        <3> HIDE DEF differ
        <3> QED
            BY <2>1, <3>1, LeastNatural
    <2>3. m \in 0 .. n + 1 /\ fresh[m - 1] # f[m - 1]
        OBVIOUS
    <2>4. CASE m = 0
        BY <1>1, <2>3, <2>4 DEF Unfolds
    <2>5. CASE m # 0
        <3>1. m - 1 \in 0 .. n + 1 /\ m - 1 \in -1 .. n /\ m - 1 # -1 /\ ~(m <= m - 1)
            BY <2>3, <2>5
        <3>2. fresh[(m - 1) - 1] = f[(m - 1) - 1]
            BY <2>2, <3>1
        <3>3. /\ fresh[m - 1] = Stored(fresh[(m - 1) - 1], m - 1, chain[m - 1], T)
              /\ f[m - 1] = Stored(f[(m - 1) - 1], m - 1, chain[m - 1], T)
            BY <1>1, <3>1 DEF Unfolds
        <3> QED
            BY <2>3, <3>2, <3>3
    <2> QED
        BY <2>4, <2>5
<1>4. n + 1 \in 0 .. n + 1 /\ (n + 1) - 1 = n
    OBVIOUS
<1> QED
    BY <1>2, <1>3, <1>4

\* What a block that spends none of its own outputs leaves does not tell how
\* often it was stored.
LEMMA StoredAlike ==
    ASSUME NEW p, Sound(p), NEW b \in Blocks, ValidNext(p.blocks, b), NEW T, NEW U,
           p.meta + 1 \in U <=> p.meta + 1 \in T /\ SpentInside(b) # {}
    PROVE  Stored(p, p.meta + 1, b, T) = Stored(p, p.meta + 1, b, U)
<1> DEFINE h == p.meta + 1
<1>1. CASE SpentInside(b) # {}
    BY <1>1 DEF Stored
<1>2. CASE SpentInside(b) = {}
    <2>1. ASSUME NEW S PROVE Stored(p, h, b, S) = Index(p, h, b)
        <3>1. Stored(p, h, b, S) = Index(View(p, b, S), h, b)
            BY StoredIsIndexed
        <3>2. Index(Seen(p, h, b), h, b) = Index(p, h, b)
            BY <1>2, SeenUnchained
        <3> QED
            BY <3>1, <3>2 DEF View
    <2> QED
        BY <2>1
<1> QED
    BY <1>1, <1>2

\* Through whatever blocks, reorganisations, repeated blocks and blocks of other
\* branches the index got here, below its linked tip it holds what a fresh sync
\* of the linked blocks would have written.
THEOREM ReorgIsFreshSync == Spec => []ReorgEqualsFresh
<1>1. TablesInv => ReorgEqualsFresh
    <2> SUFFICES ASSUME TablesInv PROVE ReorgEqualsFresh
        OBVIOUS
    <2> DEFINE found == {h \in again : SpentInside(db.blocks[h]) # {}}
               chain == db.blocks
               n == linked - 1
               f == [h \in -1 .. n |-> Below(db, h + 1)]
    <2>1. linked \in Nat /\ n \in Int /\ n >= -1 /\ Grown(db, linked, again)
        BY DEF TablesInv, Grown
    <2>2. ASSUME NEW h \in 0 .. n
          PROVE  f[h] = Stored(f[h-1], h, chain[h], found)
        <3> DEFINE p == Below(db, h)
        <3>1. h \in Nat /\ h \in 0 .. linked /\ h \in 0 .. linked - 1 /\ (h - 1) + 1 = h
              /\ h - 1 \in -1 .. n /\ h \in -1 .. n
            BY <2>1
        <3>2. f[h] = Below(db, h + 1) /\ f[h-1] = p
            BY <3>1
        <3>3. /\ chain[h] \in Blocks /\ ValidNext(p.blocks, chain[h]) /\ Sound(p)
              /\ Below(db, h + 1) = Stored(p, h, chain[h], again)
            BY <2>1, <3>1 DEF Grown
        <3>4. p.meta = h - 1
            BY <3>1, <3>3, BelowChain
        <3>5. h \in found <=> h \in again /\ SpentInside(chain[h]) # {}
            OBVIOUS
        <3> HIDE DEF p, f, found, n
        <3>6. p.meta + 1 = h
            BY <3>1, <3>4
        <3> HIDE DEF chain
        <3>7. Stored(p, h, chain[h], again) = Stored(p, h, chain[h], found)
            BY <3>3, <3>5, <3>6, StoredAlike
        <3> QED
            BY <3>2, <3>3, <3>7
    <2>3. f[-1] = EmptyDb
        <3>1. f[-1] = Below(db, -1 + 1) /\ -1 + 1 = 0
            BY <2>1
        <3> QED
            BY <2>1, <3>1 DEF Grown
    <2>4. f[n] = Below(db, linked)
        BY <2>1
    <2>5. f = [h \in -1 .. n |-> f[h]]
        OBVIOUS
    <2>6. \A h \in -1 .. n : h # -1 => h \in 0 .. n
        BY <2>1
    <2> HIDE DEF f, found, n
    <2>7. Unfolds(f, chain, n, found)
        BY <2>2, <2>3, <2>5, <2>6 DEF Unfolds
    <2>8. FreshIndex(chain, n, found) = f[n]
        BY <2>1, <2>7, FreshIsUnique
    <2> QED
        BY <2>4, <2>8 DEF ReorgEqualsFresh, found, n
<1> QED
    BY <1>1, TablesHold, PTL

\* With nothing but the linked blocks stored, listunspent answers with the
\* unspent outputs of the chain, and with those a block creates and spends
\* itself as long as it was indexed once.
THEOREM UnspentIsExactUpToChained == Spec => []UnspentUpToChained
<1>1. TablesInv => UnspentUpToChained
    <2> SUFFICES ASSUME TablesInv, Whole, NEW sh \in Script
                 PROVE  UnspentOf(db, sh) =
                          {o \in Unspent(OnChain(db.blocks)) \cup SpentAtOnce(db.blocks, again) :
                             Outputs[o[1]][o[2]].sh = sh}
        BY DEF UnspentUpToChained
    <2> DEFINE p == Below(db, linked)
               chain == p.blocks
               at == SpentAtOnce(chain, again)
    <2>1. p.blocks = db.blocks /\ p.utxos = db.utxos /\ Sound(p) /\ ExactPart(p, again)
        BY WholeIsBelow
    <2> HIDE DEF p
    <2>2. UtxoPart(p)
        BY <2>1 DEF Sound
    <2>3. sh # NoScript
        BY TablesAssumption
    <2>4. at \subseteq OutpointsOf(OnChain(chain))
        <3>1. SUFFICES ASSUME NEW o \in at PROVE o \in OutpointsOf(OnChain(chain))
            OBVIOUS
        <3>2. PICK h \in DOMAIN chain : o \in OutpointsOf(InBlock(chain[h]))
            BY InAtOnce DEF SpentInside
        <3>3. InBlock(chain[h]) \subseteq OnChain(chain)
            BY InChain
        <3> QED
            BY <3>2, <3>3, InOutpoints
    <2>5. Unspent(OnChain(chain)) \subseteq OutpointsOf(OnChain(chain))
        BY DEF Unspent
    <2>6. \A o \in OutpointsOf(OnChain(chain)) :
             Outputs[o[1]][o[2]].sh = sh => o \in DOMAIN p.utxos
        BY <2>2, <2>3 DEF UtxoPart, Parsed
    <2>7. \A o \in DOMAIN p.utxos :
             /\ p.utxos[o].sh = Outputs[o[1]][o[2]].sh
             /\ p.utxos[o].spentBy = NoTx <=> o \in Unspent(OnChain(chain)) \cup at
        BY <2>1, <2>2 DEF UtxoPart, ExactPart
    <2> HIDE DEF chain, at
    <2>8. {o \in DOMAIN p.utxos : p.utxos[o].sh = sh /\ p.utxos[o].spentBy = NoTx} =
             {o \in Unspent(OnChain(chain)) \cup at : Outputs[o[1]][o[2]].sh = sh}
        BY <2>4, <2>5, <2>6, <2>7
    <2> QED
        BY <2>1, <2>8 DEF UnspentOf, chain, at
<1> QED
    BY <1>1, TablesHold, PTL

\* Whoever's answers a block changes, of whichever branch, or the undoing of a
\* linked block, is among those to notify.
THEOREM AffectedIsComplete == Spec => AffectedComplete
<1> DEFINE Same(sh) == /\ StatusList(db, sh)' = StatusList(db, sh)
                       /\ UnspentRows(db, sh)' = UnspentRows(db, sh)
                       /\ Balance(db, sh)' = Balance(db, sh)
           Rows(d, e, sh) == /\ HistoryRows(d, sh) = HistoryRows(e, sh)
                             /\ UnspentRows(d, sh) = UnspentRows(e, sh)
<1>1. ASSUME NEW sh, Rows(db', db, sh) PROVE Same(sh)
    BY <1>1 DEF StatusList, Balance
<1>2. ASSUME TablesInv, NEW h \in Nat, NEW b \in Blocks, StoreBlock(h, b),
             NEW sh \in Script, sh \notin affected'
      PROVE  Rows(db', db, sh)
    <2>1. db' = Index(db, h, b) /\ sh \notin Touched(db, b)
        BY <1>2, IndexReports DEF StoreBlock
    <2> QED
        BY <1>2, <2>1, IndexTouches DEF TablesInv
<1>3. ASSUME TablesInv, Next, RollbackBlock => Whole, NEW sh \in Script, sh \notin affected'
      PROVE  Rows(db', db, sh)
    <2>1. CASE IndexBlock
        <3>1. linked \in Nat
            BY <1>3 DEF TablesInv, Grown
        <3> QED
            BY <1>2, <1>3, <2>1, <3>1 DEF IndexBlock
    <2>2. CASE ReindexBlock
        <3>1. linked - 1 \in Nat /\ linked - 1 \in 0 .. linked - 1
            BY <1>3, <2>2 DEF ReindexBlock, TablesInv, Grown
        <3>2. db.blocks[linked - 1] \in Blocks
            BY <1>3, <3>1 DEF TablesInv, Grown
        <3>3. StoreBlock(linked - 1, db.blocks[linked - 1])
            BY <2>2 DEF ReindexBlock
        <3> QED
            BY <1>2, <1>3, <3>1, <3>2, <3>3
    <2>3. CASE IndexUnlinked
        <3>1. PICK h \in 0 .. MaxBlocks - 1, n \in 0 .. linked, b \in Blocks : StoreBlock(h, b)
            BY <2>3 DEF IndexUnlinked
        <3>2. h \in Nat
            BY TablesAssumption
        <3> QED
            BY <1>2, <1>3, <3>1, <3>2
    <2>4. CASE RollbackBlock
        <3>1. PICK h \in 0 .. db.meta :
                 db' = Rollback(db, h) /\ affected' = AffectedByRollback(db, h)
            BY <2>4 DEF RollbackBlock
        <3>2. h \in Nat /\ Rooted(db)
            BY <1>3 DEF TablesInv, Rooted
        <3>3. \A o \in DOMAIN db.utxos : db.utxos[o].spentHeight # -1 =>
                 \E r \in DOMAIN db.history :
                    r[1] = db.utxos[o].sh /\ db.history[r].height = db.utxos[o].spentHeight
            <4> DEFINE p == Below(db, linked)
            <4>1. p.utxos = db.utxos /\ p.history = db.history /\ Sound(p)
                BY <1>3, <2>4, WholeIsBelow
            <4> HIDE DEF p
            <4> QED
                BY <4>1 DEF Sound, HistoryPart
        <3>4. sh \notin AffectedByRollback(db, h)
            BY <1>3, <3>1
        <3> QED
            BY <3>1, <3>2, <3>3, <3>4, RollbackTouches
    <2> QED
        BY <1>3, <2>1, <2>2, <2>3, <2>4 DEF Next
<1>4. TablesInv /\ [Next]_vars =>
        [(RollbackBlock => Whole) =>
            \A sh \in Script :
               \/ sh \in affected'
               \/ /\ StatusList(db, sh)' = StatusList(db, sh)
                  /\ UnspentRows(db, sh)' = UnspentRows(db, sh)
                  /\ Balance(db, sh)' = Balance(db, sh)]_vars
    BY <1>1, <1>3
<1> QED
    BY <1>4, TablesHold, PTL DEF Spec, AffectedComplete
=============================================================================
