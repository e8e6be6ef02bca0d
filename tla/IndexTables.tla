---------------------------- MODULE IndexTables ----------------------------
(* The tables of the index, row by row: what BlockIndexer._index_block and   *)
(* _parse_transaction compute from a block, what DAL.index_block_batch       *)
(* writes and what DAL.rollback_block undoes (db/dal.py).  Each is one       *)
(* database transaction issued by the indexer's only task (see SyncLoop), so *)
(* each is one step here.  A block is the list of its transactions, a list   *)
(* being a function on 0..n-1 as the code's enumerate() numbers it; its      *)
(* hash is the block itself.                                                 *)
EXTENDS Integers, Columns

CONSTANTS
    Blocks,        \* the blocks the node may serve: lists of transactions
    Tx, NoTx,      \* transaction ids; NULL in spent_by_txid
    Script,        \* scripthashes
    NoScript,      \* the scripthash of an output the parser skips
    Outputs,       \* Outputs[t]: list of [sh, value]
    Inputs,        \* Inputs[t]: list of outpoints <<txid, vout>>
    OutStride,     \* tx_pos of an output: tx_idx * OutStride + vout
    SpendOffset,   \* tx_pos of a spend: tx_idx * OutStride + SpendOffset + vin
    MaxBlocks,     \* bound: blocks on the chain
    MaxUnlinked    \* bound: blocks stored out of line before they are gone

ASSUME TablesAssumption ==
    /\ NoTx \notin Tx /\ NoScript \notin Script
    /\ OutStride \in Nat /\ SpendOffset \in Nat /\ MaxBlocks \in Nat
    /\ MaxUnlinked \in Nat

\* A block has a coinbase, whose input is no outpoint of the chain; lists are
\* finite and numbered.
ASSUME LedgerAssumption ==
    /\ \A b \in Blocks :
          /\ b \in [DOMAIN b -> Tx] /\ DOMAIN b \subseteq Nat /\ IsFiniteSet(DOMAIN b)
          /\ \A i \in DOMAIN b : 0 .. i \subseteq DOMAIN b
          /\ 0 \in DOMAIN b /\ DOMAIN Inputs[b[0]] = {}
    /\ \A t \in Tx :
          /\ IsFiniteSet(DOMAIN Outputs[t]) /\ DOMAIN Outputs[t] \subseteq Nat
          /\ IsFiniteSet(DOMAIN Inputs[t]) /\ DOMAIN Inputs[t] \subseteq Nat
          /\ \A v \in DOMAIN Outputs[t] :
                Outputs[t][v] \in [sh : Script \cup {NoScript}, value : Nat]

VARIABLES
    db,         \* the six tables
    affected    \* the scripthashes the last operation returned

\* History variables, read by no operation.
VARIABLES
    linked,     \* so many blocks, from genesis up, were each indexed on top of
                \* the one before it and have not been written over since
    again,      \* the heights of these whose block was indexed twice
    unlinked    \* blocks stored out of line since there were none

vars == <<db, affected, linked, again, unlinked>>

-----------------------------------------------------------------------------
(* Tables as functions from the primary key to the row.                      *)

EmptyRows == [k \in {} |-> NoTx]

\* INSERT ... ON CONFLICT DO NOTHING.
InsertNew(t, new) ==
    [k \in DOMAIN t \cup DOMAIN new |-> IF k \in DOMAIN t THEN t[k] ELSE new[k]]

\* INSERT ... ON CONFLICT DO UPDATE.
Upsert(t, new) ==
    [k \in DOMAIN t \cup DOMAIN new |-> IF k \in DOMAIN new THEN new[k] ELSE t[k]]

EmptyDb ==
    [blocks  |-> EmptyRows,   \* height -> block
     headers |-> EmptyRows,   \* height -> block
     txs     |-> EmptyRows,   \* txid -> row of transactions
     utxos   |-> EmptyRows,   \* <<txid, vout>> -> row of utxos
     history |-> EmptyRows,   \* <<scripthash, txid, tx_pos>> -> row
     meta    |-> -1]          \* indexed_height

-----------------------------------------------------------------------------
(* _parse_transaction.                                                       *)

IndexOf(b, t) == CHOOSE i \in DOMAIN b : b[i] = t

InBlock(b) == {b[i] : i \in DOMAIN b}

\* Outputs whose script the parser understands.
Created(b) ==
    {o \in UNION {{<<t, v>> : v \in DOMAIN Outputs[t]} : t \in InBlock(b)} :
        Outputs[o[1]][o[2]].sh # NoScript}

NewUtxos(h, b) ==
    [o \in Created(b) |->
        [sh |-> Outputs[o[1]][o[2]].sh, value |-> Outputs[o[1]][o[2]].value,
         height |-> h, coinbase |-> o[1] = b[0],
         spentBy |-> NoTx, spentHeight |-> -1]]

\* <<tx_idx, vin_idx>> of the inputs whose outpoint has a row when the block
\* is parsed, which is before any of its own outputs is inserted.
Spends(d, b) ==
    {s \in UNION {{<<i, k>> : k \in DOMAIN Inputs[b[i]]} : i \in DOMAIN b \ {0}} :
        Inputs[b[s[1]]][s[2]] \in DOMAIN d.utxos}

SpentOutpoint(b, s) == Inputs[b[s[1]]][s[2]]

\* Numbering outputs by their position in the transaction alone.
OutputPosFlat(i, v) == v

OutputPos(i, v) == i * OutStride + v

SpendPos(i, k) == i * OutStride + SpendOffset + k

OutputHistory(h, b) ==
    LET key(o) == <<Outputs[o[1]][o[2]].sh, o[1], OutputPos(IndexOf(b, o[1]), o[2])>>
    IN [r \in {key(o) : o \in Created(b)} |->
           LET o == CHOOSE x \in Created(b) : key(x) = r
           IN [height |-> h, delta |-> Outputs[o[1]][o[2]].value]]

SpendHistory(d, h, b) ==
    LET row(s) == d.utxos[SpentOutpoint(b, s)]
        key(s) == <<row(s).sh, b[s[1]], SpendPos(s[1], s[2])>>
    IN [r \in {key(s) : s \in Spends(d, b)} |->
           LET s == CHOOSE x \in Spends(d, b) : key(x) = r
           IN [height |-> h, delta |-> -row(s).value]]

\* A transaction's outputs are listed before its spends, and the insert keeps
\* the first of two rows with one key.
NewHistory(d, h, b) == InsertNew(OutputHistory(h, b), SpendHistory(d, h, b))

ScriptsOf(rows) == {r[1] : r \in DOMAIN rows}

\* Notifying the receivers only.
AffectedByIndexOutputs(d, h, b) == {Outputs[o[1]][o[2]].sh : o \in Created(b)}

\* The set _index_block returns.
AffectedByIndex(d, h, b) ==
    {Outputs[o[1]][o[2]].sh : o \in Created(b)} \cup ScriptsOf(NewHistory(d, h, b))

-----------------------------------------------------------------------------
(* DAL.index_block_batch and DAL.rollback_block.                             *)

\* Spends inserted as history only.
MarkSpentNever(d, u, h, b) == u

\* UPDATE utxos SET is_spent, spent_by_txid, spent_height.
MarkSpent(d, u, h, b) ==
    LET spender(o) == {s \in Spends(d, b) : SpentOutpoint(b, s) = o}
    IN [o \in DOMAIN u |->
           IF spender(o) = {} THEN u[o]
           ELSE [u[o] EXCEPT !.spentBy = b[(CHOOSE s \in spender(o) : TRUE)[1]],
                             !.spentHeight = h]]

Index(d, h, b) ==
    [blocks  |-> Upsert(d.blocks, [x \in {h} |-> b]),
     headers |-> Upsert(d.headers, [x \in {h} |-> b]),
     txs     |-> Upsert(d.txs, [t \in InBlock(b) |->
                    [block |-> b, height |-> h, index |-> IndexOf(b, t)]]),
     utxos   |-> MarkSpent(d, InsertNew(d.utxos, NewUtxos(h, b)), h, b),
     history |-> InsertNew(d.history, NewHistory(d, h, b)),
     meta    |-> h]

\* Deleting without giving back what the block spent.
UnspendNothing(u, h) == u

\* UPDATE utxos SET is_spent = FALSE ... WHERE spent_height = h.
Unspend(u, h) ==
    [o \in DOMAIN u |->
        IF u[o].spentHeight = h
        THEN [u[o] EXCEPT !.spentBy = NoTx, !.spentHeight = -1] ELSE u[o]]

\* Rolling back to height h by deleting what is above it keeps h's own rows.
AboveHeight(rows, h) == {k \in DOMAIN rows : rows[k].height > h}

AtHeight(rows, h) == {k \in DOMAIN rows : rows[k].height = h}

Rollback(d, h) ==
    [blocks  |-> Keep(d.blocks, DOMAIN d.blocks \ {h}),
     headers |-> Keep(d.headers, DOMAIN d.headers \ {h}),
     txs     |-> Keep(d.txs, DOMAIN d.txs \ AtHeight(d.txs, h)),
     utxos   |-> Keep(Unspend(d.utxos, h), DOMAIN d.utxos \ AtHeight(d.utxos, h)),
     history |-> Keep(d.history, DOMAIN d.history \ AtHeight(d.history, h)),
     meta    |-> h - 1]

\* Scripthashes of the outputs the block created, and nothing else.
AffectedByRollbackUtxos(d, h) == {d.utxos[o].sh : o \in AtHeight(d.utxos, h)}

\* The set rollback_block returns.
AffectedByRollback(d, h) ==
    {r[1] : r \in AtHeight(d.history, h)}
    \cup {d.utxos[o].sh : o \in AtHeight(d.utxos, h)}

-----------------------------------------------------------------------------
(* What a node accepts on top of a chain (consensus, outside this program):  *)
(* new transactions that spend existing outputs nobody has spent, each once. *)

OnChain(chain) == UNION {InBlock(chain[h]) : h \in DOMAIN chain}

InputsOf(ts) == UNION {{Inputs[t][k] : k \in DOMAIN Inputs[t]} : t \in ts}

OutpointsOf(ts) == UNION {{<<t, v>> : v \in DOMAIN Outputs[t]} : t \in ts}

\* The unspent outputs after the transactions ts.
Unspent(ts) == OutpointsOf(ts) \ InputsOf(ts)

ValidNext(chain, b) ==
    /\ \A i, j \in DOMAIN b : b[i] = b[j] => i = j
    /\ InBlock(b) \cap OnChain(chain) = {}
    /\ \A i \in DOMAIN b : \A k, l \in DOMAIN Inputs[b[i]] :
          Inputs[b[i]][k] = Inputs[b[i]][l] => k = l
    /\ \A i \in DOMAIN b :
          LET before == OnChain(chain) \cup {b[j] : j \in 0..(i-1)}
          IN InputsOf({b[i]}) \subseteq Unspent(before)

\* What holds of a block whichever blocks lie between it and chain, when the
\* node has both on one branch.
ValidAbove(chain, b) ==
    /\ \A i, j \in DOMAIN b : b[i] = b[j] => i = j
    /\ InBlock(b) \cap OnChain(chain) = {}
    /\ \A i \in DOMAIN b : \A k, l \in DOMAIN Inputs[b[i]] :
          Inputs[b[i]][k] = Inputs[b[i]][l] => k = l
    /\ \A i, j \in DOMAIN b : i # j => InputsOf({b[i]}) \cap InputsOf({b[j]}) = {}
    /\ InputsOf(InBlock(b)) \cap InputsOf(OnChain(chain)) = {}

-----------------------------------------------------------------------------
\* Nothing is stored but the linked blocks.
Whole == DOMAIN db.blocks = 0 .. linked - 1

\* The blocks below height n.
Stem(chain, n) == Keep(chain, {h \in DOMAIN chain : h < n})

Init == db = EmptyDb /\ affected = {} /\ linked = 0 /\ again = {} /\ unlinked = 0

StoreBlock(h, b) ==
    /\ db' = Index(db, h, b)
    /\ affected' = AffectedByIndex(db, h, b)

\* The next block of the branch whose blocks are stored.
IndexBlock ==
    /\ Whole /\ linked < MaxBlocks
    /\ \E b \in Blocks : ValidNext(db.blocks, b) /\ StoreBlock(linked, b)
    /\ linked' = linked + 1
    /\ UNCHANGED <<again, unlinked>>

\* The acknowledgement of the last commit was lost: the indexer fetches the
\* height again, and stores the same block over its own rows.
ReindexBlock ==
    /\ Whole /\ linked > 0
    /\ StoreBlock(linked - 1, db.blocks[linked - 1])
    /\ again' = again \cup {linked - 1}
    /\ UNCHANGED <<linked, unlinked>>

\* _index_block stores what the node answers for the height and compares no
\* prev_hash: a block of a branch that leaves the stored one at height n, when
\* the node reorganised since check_reorg, or the block over the one whose
\* commit was not acknowledged; and a block above a gap, when a rollback failed.
IndexUnlinked ==
    /\ unlinked < MaxUnlinked /\ unlinked' = unlinked + 1
    /\ \E h \in 0 .. MaxBlocks - 1, n \in 0 .. linked, b \in Blocks :
          /\ DOMAIN db.blocks \subseteq 0 .. h /\ n <= h
          /\ ValidAbove(Stem(db.blocks, n), b)
          /\ StoreBlock(h, b)
          /\ linked' = n /\ again' = again \cap 0 .. n - 1

\* From the highest stored block down.
RollbackBlock ==
    \E h \in 0 .. db.meta :
        /\ DOMAIN db.blocks \subseteq 0 .. h
        /\ db' = Rollback(db, h)
        /\ affected' = AffectedByRollback(db, h)
        /\ linked' = IF h < linked THEN h ELSE linked
        /\ again' = again \ {h}
        /\ unlinked' = IF Whole' THEN 0 ELSE unlinked

Next == IndexBlock \/ ReindexBlock \/ IndexUnlinked \/ RollbackBlock

Spec == Init /\ [][Next]_vars
=============================================================================
