---------------------------- MODULE IndexQueries ----------------------------
(* What the protocol handlers read back from the tables for one scripthash   *)
(* (the SELECTs of db/dal.py behind get_balance, get_history, listunspent    *)
(* and subscribe), and the properties of the tables that these answers rely  *)
(* on.                                                                       *)
EXTENDS IndexTables

\* get_utxos_for_scripthash, spent ones excluded.
UnspentOf(d, sh) ==
    {o \in DOMAIN d.utxos : d.utxos[o].sh = sh /\ d.utxos[o].spentBy = NoTx}

UnspentRows(d, sh) == Keep(d.utxos, UnspentOf(d, sh))

TotalValue(rows) == SumOf([o \in DOMAIN rows |-> rows[o].value])

TotalDelta(rows) == SumOf([r \in DOMAIN rows |-> rows[r].delta])

\* get_balance_for_scripthash.
Balance(d, sh) == TotalValue(UnspentRows(d, sh))

HistoryRows(d, sh) == Keep(d.history, {r \in DOMAIN d.history : r[1] = sh})

\* ORDER BY height, tx_pos.
Before(rows, r1, r2) ==
    \/ rows[r1].height < rows[r2].height
    \/ rows[r1].height = rows[r2].height /\ r1[3] < r2[3]

\* The first row of each transaction, in the order of the query.
InOrder(rows) ==
    LET first == {r \in DOMAIN rows :
                     \A q \in DOMAIN rows : q[2] = r[2] => ~Before(rows, q, r)}
        order == Sorted(first, LAMBDA r1, r2 : Before(rows, r1, r2))
    IN [i \in DOMAIN order |-> <<order[i][2], rows[order[i]].height>>]

\* The list hashed by get_scripthash_status and answered by get_history.
StatusList(d, sh) == InOrder(HistoryRows(d, sh))

-----------------------------------------------------------------------------
(* Properties.                                                               *)

\* Every row stands at a height that has a block, which deletes the row when it
\* is rolled back.  Nothing but linked blocks stored, the tables describe one
\* another: keys and references agree.
TypeOK ==
    /\ DOMAIN db.blocks \subseteq 0..db.meta /\ db.headers = db.blocks
    /\ \A h \in DOMAIN db.blocks : db.blocks[h] \in Blocks
    /\ \A t \in DOMAIN db.txs : db.txs[t].height \in DOMAIN db.blocks
    /\ \A o \in DOMAIN db.utxos :
          /\ db.utxos[o].sh \in Script /\ db.utxos[o].height \in DOMAIN db.blocks
          /\ db.utxos[o].spentHeight \in DOMAIN db.blocks \cup {-1}
          /\ db.utxos[o].spentBy = NoTx <=> db.utxos[o].spentHeight = -1
    /\ \A r \in DOMAIN db.history :
          r[1] \in Script /\ db.history[r].height \in DOMAIN db.blocks
    /\ affected \subseteq Script
    /\ 0 .. linked - 1 \subseteq DOMAIN db.blocks /\ again \subseteq 0 .. linked - 1
    /\ Whole =>
          /\ DOMAIN db.txs = OnChain(db.blocks)
          /\ \A o \in DOMAIN db.utxos :
                o[1] \in DOMAIN db.txs /\ db.utxos[o].height = db.txs[o[1]].height
          /\ \A r \in DOMAIN db.history : db.history[r].height = db.txs[r[2]].height

\* The outputs a block creates and spends itself.
SpentInside(b) == OutpointsOf(InBlock(b)) \cap InputsOf(InBlock(b))

\* A block at one of the heights of repeated is indexed twice.
Stored(d, h, b, repeated) ==
    LET once == Index(d, h, b) IN IF h \in repeated THEN Index(once, h, b) ELSE once

\* Indexing the stored chain from nothing.
FreshIndex(chain, top, repeated) ==
    LET fresh[h \in -1..top] ==
            IF h = -1 THEN EmptyDb ELSE Stored(fresh[h-1], h, chain[h], repeated)
    IN fresh[top]

\* The rows below height n.
Under(rows, n) == {k \in DOMAIN rows : rows[k].height < n}

\* What the tables would hold were the blocks from height n up rolled back.
Below(d, n) ==
    [blocks  |-> Stem(d.blocks, n),
     headers |-> Stem(d.headers, n),
     txs     |-> Keep(d.txs, Under(d.txs, n)),
     utxos   |-> [o \in Under(d.utxos, n) |->
                     IF d.utxos[o].spentHeight >= n
                     THEN [d.utxos[o] EXCEPT !.spentBy = NoTx, !.spentHeight = -1]
                     ELSE d.utxos[o]],
     history |-> Keep(d.history, Under(d.history, n)),
     meta    |-> n - 1]

\* Whatever was rolled back, written twice, or written over and above them by
\* blocks of another branch, the linked blocks have left in every table what a
\* fresh sync of them would write, and rolling back the rest gets it back.  Only
\* a block that spends its own outputs tells whether it was indexed once or more
\* often: the second time the parser finds them.
ReorgEqualsFresh ==
    LET found == {h \in again : SpentInside(db.blocks[h]) # {}}
    IN Below(db, linked) = FreshIndex(db.blocks, linked - 1, found)

\* The confirmed balance of a scripthash is the sum of its history: two tables
\* written by different statements and undone by different statements agree.
BalanceMatchesHistory ==
    Whole => \A sh \in Script : Balance(db, sh) = TotalDelta(HistoryRows(db, sh))

\* "Get unspent outputs for a scripthash": exactly the outputs of the chain
\* that no transaction of the chain spends.
UnspentExact ==
    Whole => \A sh \in Script :
        UnspentOf(db, sh) =
            {o \in Unspent(OnChain(db.blocks)) : Outputs[o[1]][o[2]].sh = sh}

\* The outputs that blocks of the chain create and spend themselves, but for
\* the blocks at the heights of repeated.
SpentAtOnce(chain, repeated) ==
    UNION {SpentInside(chain[h]) : h \in DOMAIN chain \ repeated}

\* Those are the only outputs listunspent is wrong about, until their block is
\* indexed again: no rollback forgets to give an output back, none gives back
\* what another block spent, and none leaves an output of an orphan.
UnspentUpToChained ==
    Whole => \A sh \in Script :
        UnspentOf(db, sh) =
            {o \in Unspent(OnChain(db.blocks)) \cup SpentAtOnce(db.blocks, again) :
                Outputs[o[1]][o[2]].sh = sh}

\* The outputs of a transaction fit below the positions of the next one, and
\* its spends between its own outputs and those: with the code's 1000 and 500,
\* at most 1000 outputs and 500 inputs.
PositionsFit ==
    \A t \in Tx :
        /\ DOMAIN Outputs[t] \subseteq 0 .. OutStride - 1
        /\ DOMAIN Inputs[t] \subseteq 0 .. OutStride - SpendOffset - 1

\* No spend of a transaction has the position of one of its outputs, which the
\* primary key would take for one row: fewer than 501 outputs are enough.
PositionsApart ==
    \A t \in Tx : \A v \in DOMAIN Outputs[t] : \A k \in DOMAIN Inputs[t] :
        v # SpendOffset + k

\* Clients hash the history in blockchain order, so get_history and the status
\* must list the transactions by height and, within a block, by position.
StatusInChainOrder ==
    Whole => \A sh \in Script :
        LET s == StatusList(db, sh)
        IN \A i, j \in DOMAIN s :
              i < j => \/ s[i][2] < s[j][2]
                       \/ /\ s[i][2] = s[j][2]
                          /\ db.txs[s[i][1]].index < db.txs[s[j][1]].index

\* No answer to a client about a scripthash changes without the scripthash
\* being in the set the operation returns, which is what subscribers are
\* notified from.  A rollback owes it only when nothing but linked blocks is
\* stored: the history of a spend keeps the height it was first written with.
AffectedComplete ==
    [][(RollbackBlock => Whole) =>
          \A sh \in Script :
             \/ sh \in affected'
             \/ /\ StatusList(db, sh)' = StatusList(db, sh)
                /\ UnspentRows(db, sh)' = UnspentRows(db, sh)
                /\ Balance(db, sh)' = Balance(db, sh)]_vars
=============================================================================
