# Rythmicd in TLA+

Rythmicd (`rythmicd/`) is an Electrum-style index server for the Miqrochain
node *miqrod*: one task follows the node's chain into PostgreSQL, a second one
follows its mempool, and a TCP server answers wallets from both.  This
directory specifies the parts of it whose correctness depends on order, failure
and reorganisation, model-checks them with TLC and proves their safety
properties with TLAPS: every invariant of the passing runs is a theorem.

    tlc -workers 2 -config SyncSafe.cfg MCSyncLoop
    tlc -workers 2 -config HeaderReads.cfg MCHeaderReads
    tlc -workers 2 -config TablesReorg.cfg MCIndexTables
    tlc -workers 2 -config WalletView.cfg MCWalletView
    tlc -workers 2 -config Notifications.cfg MCNotifications
    tlc -workers 2 -config Lifecycle.cfg Lifecycle
    tlapm SyncLoopProofs.tla

(and `tlapm` likewise for each of the proof modules in section 4).

## 1. The system

Everything runs on one asyncio event loop: a step of a component is the code
between two `await`s, and anything else may run at an `await`.

| Component | State | Operations | What is hard |
|---|---|---|---|
| Block indexer, `indexer/block_indexer.py` | `_indexed_height`, `_node_height`, the position of its only task | `start`, `_sync_loop`, `_sync_blocks`, `_index_block`, `_parse_transaction`, `stop` | the node moves between any two awaits; each RPC, read, commit and callback may fail; the process may die |
| Reorg handler, `indexer/reorg_handler.py` | none of its own | `check_for_reorg`, `_find_common_ancestor`, `handle_reorg` | it walks and rolls back height by height, deciding from answers that may be stale or missing |
| Header store, `headers/header_store.py` | `_cache`, `_tip_height` | `load_cache`, `add_to_cache`, `remove_from_cache`, `get_header(s)`, codec | a cache beside the database, written by the indexer and filled by readers |
| Data access layer, `db/dal.py` | tables blocks, headers, transactions, utxos, scripthash_history, metadata | `index_block_batch`, `rollback_block` (one database transaction each), queries | undoing exactly what was done; two tables that must tell the same story |
| Mempool tracker, `indexer/mempool_tracker.py` | transactions, deltas per scripthash, fee histogram | `_update_mempool` every poll, queries | a poll is many awaits; its view and the database's change at different moments |
| Protocol server, `protocol/server.py` | sessions, their subscriptions | connect, read loop, dispatch, `notify_*`, close | notifications iterate over sessions that come and go; limits |
| Protocol handlers, `protocol/handlers.py` | none | one method per request | a request reads the database, the cache and the mempool at different moments |
| RPC client, `rpc/miq_rpc_client.py` | session, request id | `call` with retries and back-off | what is retried and what a caller makes of the error |
| Lifecycle, `main.py` | the components, the shutdown event | `start`, `stop`, `run_server`, `_on_new_block`, `_on_mempool_change` | a signal during `start`; a step of `stop` that raises; the pool closed under tasks that are not waited for |
| Scripthash and address utilities, `scripthash/` | none | Base58Check, scriptPubKey, SHA256 | pure |
| Settings, models, logging | configuration, rows, output | parsing and formatting | pure |

How they interact.  The indexer calls the RPC client, the reorg handler, the
DAL and the header store, and after each block calls back `_on_new_block` in
`main.py`, which asks the header store for the header and the server to notify
sessions; the mempool tracker calls back `_on_mempool_change` likewise.
Handlers read the DAL, the header store and the mempool tracker.  The node is
outside: it is seen through `get_block_count`, `get_block_hash`, `get_block`,
`get_raw_mempool` and `get_transaction_info`.

What makes each one correct:

* indexer and reorg handler: the stored heights are exactly
  `0..indexed_height`; stored blocks are linked; only orphans are rolled back,
  and a bounded number of them; once the node settles the index becomes its
  chain.
* header store: a cached header is the stored one; the tip height is the
  indexer's.
* tables: after any history of blocks, repetitions, blocks of other branches and
  rollbacks, what linked blocks left in them is what a fresh sync writes;
  balance, history and unspent outputs agree; every change is reported as
  affected.
* mempool tracker: deltas are exactly those of the tracked transactions; the
  set of tracked transactions follows the node's; no transaction is lost
  because one fetch failed.
* server: every subscriber hears of every change, in an order that ends with
  the latest; a session that leaves leaves nothing behind; limits hold.
* RPC client: a call returns, raises, or is tried at most `max_retries` times,
  and what a broadcast reports is what the node did.
* lifecycle: a signal ends the process, with everything closed and no database
  operation cut short.
* wallet's view: what a client is told of a script joins a confirmed and an
  unconfirmed part that are read at different moments; each follows the node, and
  what is counted twice is counted twice until the next poll only.

PROJECT.json lists the hazards behind these, each at its line.

## 2. Modules

| Module | What it is |
|---|---|
| `ChainNode` | External. The node: a tree of blocks and the chain it calls active. Blocks are named by their hash, so comparing hashes is comparing blocks. Also the tables by height (`Put`, `Drop`, `TipHeight`) used by the others. |
| `HeaderStore` | The header cache and each operation the indexer's task performs on it. |
| `SyncLoop` | The indexer's task, with the reorg handler, the header store and the block-level database: one action per stretch of code between two awaits, one action per way a call fails. |
| `BlockStack` | Abstract: the index is a stack of linked blocks, changed by pushing a child of the tip and popping the tip. |
| `Columns` | What statements and loops do with many rows at once: selecting, summing and sorting. |
| `IndexTables` | The tables row by row: what a block becomes, what a rollback undoes. |
| `IndexQueries` | The SELECTs behind the protocol's answers for a scripthash, and the properties of the tables. |
| `HeaderReads` | Requests that read the header store as tasks beside the indexer's: `SyncLoop` with readers. |
| `Notifications` | Sessions, subscriptions, and the callbacks of the indexer and the mempool tracker that walk over them. |
| `MempoolTracker` | The poll of the mempool with its fetches, the unconfirmed balances and the fee histogram. |
| `WalletView` | The tracker, the indexer reduced to the transactions it stored, and a request that reads one, then the other. |
| `RpcClient` | `call` with its retries, for several callers, and the session beneath them. |
| `Lifecycle` | `start`, `stop` and signals, with the tasks and calls they meet: `RpcClient` with the process around it. |
| `SyncLoopProofs`, `HeaderReadsProofs`, `IndexQueriesProofs`, `WalletViewProofs`, `LifecycleProofs`, `NotificationsProofs` | Theorems about the module each is named for. |
| `IndexAnswersProofs` | Theorems about the order of a history and the sum of a balance, on top of `IndexQueriesProofs`. |
| `SetLemmas` | Lemmas about finite sets: least and greatest naturals, sorting, sums; the proofs use them in the place of induction. |
| `MCSyncLoop`, `MCHeaderReads`, `MCIndexTables`, `MCNotifications`, `MCMempoolTracker`, `MCWalletView` | Small instances. `Lifecycle` is its own: its constants are plain sets. |

### SyncLoop

`blocks` stands for the tables blocks and headers, which every statement
changes together; `meta` for the row `indexed_height`; `cache`, `tipHeight` for
the header store; `indexedHeight`, `nodeHeight` for the indexer's fields; `pc`,
`cursor`, `endHeight`, `ancestor`, `steps`, `fetched` for where the task is and
its local variables.  The comment at the head of the module lists the values of
`pc` with the code each stands for.  The two database operations are
transactions, so each is one step; `rollback_block` and `remove_from_cache`, or
`index_block_batch` and `add_to_cache`, are separated by an await and are two.
A hit in `get_header` and the database answer of a miss are one step because
the indexer's task is the only writer of what is read.

A call that raises is an action: `RpcRaises`, `ReadRaises`, `CommitRaises` and
`RollbackRaises` (each also with the commit done and its acknowledgement lost),
`NotifyRaises`, and the two places where the reorg handler swallows the
exception (`TipRpcRaises`, `WalkRpcRaises`).  `Crash` keeps the database and
loses the rest.  The constant `Faults` says which of them an instance allows,
`ReorgAt` at which points of the task the node may reorganise.

One detail of the progress message is control: it divides by the node's height
(`block_indexer.py:178`), so with a node that has only its genesis block the
loop raises after indexing it (`Notified`).

### HeaderReads

`HeaderReads` extends `SyncLoop`, so an indexer's step and a request's step
interleave on one database and one cache.  A hit costs no await and is part of
the step before it (`Continue`); a miss is `Select`, when the database answers,
and later `Fill`, when the handler resumes, looks whether the height is recent
and writes the cache, whatever happened in between.  Three history variables say
when a property may fail: `disturbed` marks a request during which a stored
block was replaced or removed, or which was given the header of one,
`doubtful` the heights at which a stale header was put into the cache or
outlived its block, and `drifted` says that a lost acknowledgement left the
cached tip height off by more than one.  All are needed: without the first TLC shows
a range that spans a rollback, without the second a header that was left
behind, without the third a cache that grows on.

### IndexTables

A block is a list of transactions; its hash is the block itself.  The constants
`Outputs` and `Inputs` give each transaction's outputs and the outpoints it
spends.  `Index` and `Rollback` are the two database transactions as functions
of the tables, including the order of statements, `DO NOTHING` against
`DO UPDATE`, the look-up of inputs before the block's own outputs exist, and
the `tx_pos` arithmetic.  `ValidNext` is what consensus lets a block contain.

Four actions store and remove blocks.  `IndexBlock` is the next block of the
branch that is stored.  `ReindexBlock` is the second indexing of a height after
a lost acknowledgement, when the node answers with the same block.
`IndexUnlinked` is everything else `_index_block` stores, for it compares no
`prev_hash`: after a reorganisation that the check did not see, a block of
another branch above an orphan; after a lost acknowledgement, another block at
the height that is stored already, whose block and header it replaces while the
rest of the orphan's rows stay (`DO NOTHING`); after a failed rollback, a block
above a gap.  `ValidAbove` is what such a block has in common with the lower
part of the stored chain (`Stem`) that the node still has.  `RollbackBlock`
takes the highest stored block away.

Three history variables say where a database came from.  `linked` counts the
blocks from genesis up that were each indexed on top of the one before and not
written over since; `again` holds the heights among these that were indexed
twice; `unlinked` counts, for the bound, blocks stored out of line.  With such
blocks stored, the tables are a mixture and no fresh sync would write them: the
properties then say that the blocks from `linked` up are all that is wrong, so
that rolling those back (`Below`) gives what a fresh sync of the others writes.
Answers to clients are specified when nothing else is stored (`Whole`).

`LedgerAssumption` says what a block is: a finite list of transactions, the first of
which spends no outpoint of the chain, each with finite lists of outputs and
inputs.  In `IndexQueries` an answer is computed
from the rows of its scripthash alone (`UnspentRows`, `HistoryRows`), as the
SELECTs do.  Left out:
fees, sizes and raw bytes of transactions, `pkh`, and the conversion of amounts.

### Notifications

The chain is reduced to a counter of commits, `version`; a status is the
version that last touched the script's history, a header the version whose tip
it is, so "older" and "newer" can be said of what a client receives.  Each of
the two tasks has a position `pc`, the scripts still to tell of (`todo`), the
status in hand (`script`, `value`) and its iterator over the dictionary of
sessions, which is CPython's (`pyproject.toml` requires 3.11 or later).

A dictionary keeps its entries in the order of insertion, and a deletion leaves
a hole among them: `slot` is a session's place, `entries` how many places are
taken, holes included.  An iterator remembers a place (`pos`), the number of keys
there were when it started (`size`), and how many of these are still to come
(`left`).  A step raises "dictionary changed size during iteration" when the
number of keys is another one, the last step included, and "dictionary keys
changed during iteration" when it meets one more entry than it expected, as
happens when one session left behind it and another joined in front
(`IteratorValid`).  The loop looks at every session and awaits at subscribers only, so
one action goes to the next subscriber in reach (`InReach`) or to the end.  An
insertion that finds no room for a new entry moves the entries together in a
new table; when it does depends on everything that was ever in the dictionary,
so `Insert` may do so at any time.  The iterator keeps its place, and sessions
that moved behind it are not visited: nothing raises, and the history
variable `skipped` tells.  An exception leaves the callback; the task is
`"failed"` until its loop has logged it and goes on (`NextRound`).

A send always gives other tasks a turn here, in the program
it may.  `get_header` and `get_tip_header` are hits, no database call fails,
and the server is not stopped.  `CloseClient` waits for the request being
served, for `_client_loop` does not read meanwhile.

### MempoolTracker

A poll is `PollAsks` (the node answers), `Poll` (the ids arrive; what is gone
is forgotten), one `Fetched` or `FetchFails` for each new id in any order, and
the callback.  `answer` is the list on its way: the node's mempool and the
index may move between the answer and its use.  `tracked` and `deltas` are the
two dictionaries of `MempoolState` (a node's mempool is finite, `Init`), a list of `deltas` being the number of
times each output occurs in it (nothing depends on its order); `Outputs` gives
a transaction's outputs that have a `pkh`, `Rate` and `TxSize` what the histogram uses.  `nodePool` is
the node's mempool, which changes between any two steps.  `reported` is a
history variable: what `get_mempool` listed for a scripthash when it was last
handed to the callback; whether the callback then reaches the subscribers is
the subject of `Notifications`.  A failed `get_raw_mempool` changes nothing and
is not an action.  Inputs of mempool transactions are ignored, as the code does
(`mempool_tracker.py:230`), and the order of a listing is left out.

### WalletView

Composes the tracker with an indexer of which only the set of stored
transactions is left (`confirmed`), following a node that mines and unmines
(`mined`).  `Ask` is the moment the database answers `get_history` or
`get_balance`, `Reply` the moment the handler adds what the tracker has then;
between them anything may happen.  A request is followed for one transaction at
a time, which loses nothing as its parts are sets.  `moved` and `failed` are
history variables of a poll: which transactions have come, left or been mined
since the node gave the list that was polled last, and which of that list could
not be fetched.

### RpcClient and Lifecycle

`RpcClient` has one action per way an attempt ends: the result, an `RPCError`
(never retried), an `aiohttp.ClientError` (retried after a delay, until
`max_retries`), the session's total timeout (a `TimeoutError`, which is not a
`ClientError`: not retried).  A session closed beneath a call breaks the
attempt that is out; the next attempt raises a `RuntimeError`, or an
`AttributeError` once `_session` is `None`.  For a broadcast the node's side is
kept: whether it has accepted the transaction, and whether an answer was lost.
The node refuses a broadcast in one of two forms: as an error, which `call`
raises, or as a result without a txid ("Result containing txid or error",
`miq_rpc_client.py:258`), which `call` returns and the handler turns into an
answer with an empty txid (`ReturnedEmpty`).

`Lifecycle` has one place per await of `start`, a task per signal that runs
`stop` on its own (`asyncio.create_task`), and `start`'s own `stop` when it
fails.  The two background tasks are reduced to what shutdown meets: a loop
that looks at `_running` at its top only, with calls and database operations
in any order.  `pool.close()` waits until connections are back, so it ends only
when no task is in a database operation; the handlers' own connections are left
out, and can only make it wait longer.  A listening socket that `start` opens
after a `stop` closed the others stays open (`Bound`, `TlsBound`).

## 3. Runs

| Run | Instance | Shows |
|---|---|---|
| `SyncSafe` | 7 blocks: genesis and two branches of three; cache of 2, batch of 2, reorg_limit 3; the node may shrink; it reorganises at `SafePoints`; every failure except a failed rollback | `Contiguous`, `ChainLinked`, `CacheCoherent`, `TipNeverAhead`, `RollbackBounded`, `StackSpec` (refinement of `BlockStack`) |
| `HeaderReads` | 7 blocks that fork above height 1, into branches of two and three; cache, batch and limit as above; one reader asking for one or two headers, the tip or a transaction; no RPC failure, no shrinking, reorganisations before the check; failed rollbacks included | `RollbackOnlyOrphans`, `StaleOnlyByRace`, `RangeLinks`, `CacheBounded`, `ConfirmationsNearTip` |
| `SyncLive` | reorganisations anywhere, shrinking, crashes; RPC, callback and rollback failures; reorg_limit 5, deeper than any fork | `TipConverges`, `LinkedConverges` under fairness |
| `TablesReorg` | three coinbases, three transfers between two scripthashes, chained or not, up to 3 heights, every valid order; every block may be indexed again, and up to two blocks of other branches are stored above or over the linked ones, above gaps too | `ReorgEqualsFresh`, `BalanceMatchesHistory`, `UnspentUpToChained`, `StatusInChainOrder`, `AffectedComplete` |
| `Notifications` | three sessions of which two are connected at a time and the third subscribes to nothing; one script, one commit that may be a block or a rollback, mempool polls at any time | `HeadersInOrder`, and under fairness `HeadersLearn`, `SubscriberLearnsUnlessChurned` |
| `WalletView` | three transactions that come and go, of which two are mined and unmined; two scripthashes, one bucket | `BalanceIsTracked`, `HistogramDescribesPool`, `ChangesReported`, `PoolIsShown`, `TwiceUntilPoll`, and `ViewConverges` under fairness |
| `Lifecycle` | two signals, two attempts per call, four callers; every await of `start` and `stop` may raise | `ExitReleases`, `ExitCutsNoCommit`, `SuccessIsTrue`, `FailureIsTrueUnlessLost`, and `SignalEnds` under fairness |
| `BugMidBatchReorg` | reorganisations anywhere, no failure | violates `FullyConverges` |
| `BugRpcRollback` | RPC failures, node on one chain at the time of the check | violates `RollbackOnlyOrphans` |
| `BugRollbackGap` | `rollback_block` may raise | violates `Contiguous` |
| `BugChainedSpend` | chained transactions in one block | violates `UnspentExact` |
| `BugSessionChurn` | the first two sessions of `Notifications` | violates `SubscriberLearns` |

**Bounds.**  `MaxHeight` 3 and two branches from genesis give forks of every
depth up to 3, a switch there and back, chains longer and shorter than the
index, and reorganisations down to genesis (not of genesis: a network has one).
A cache (of 1 in
`SyncLive`, which says nothing of it) and a batch of 2 make eviction, refills
and batch boundaries happen at these heights.  The reorg limit is at or above
the deepest fork according to what a run asks; with a failing RPC the walk runs
into either.  `MaxBlocks` 3 in the tables lets a transfer, a
chained transfer and two rollbacks meet in every order, and `MaxUnlinked` 2 puts
a block of another branch over a stored one and another above that, or above a
gap; the count starts again when nothing but linked blocks is left.  The two
scripthashes suffice for payments to self, to another and to an unparsed script.
In `Notifications` one commit is enough for a callback, because the indexer
starts the next only when the callback is over; the requests and polls that meet
it can begin before it and end after it.  With three sessions on two connections
one can leave and another join while the loop awaits a send, which keeps the
number of keys, and the table can be rebuilt then; the third needs no
subscriptions of its own to disturb the others.  In `WalletView` the
rates 7, 6 and 4 with a bucket of 2 (0.5 in the code) give entries in one
bucket, an entry exactly a width away, and a bucket that is cut off; one
transaction pays a scripthash the same amount twice, one pays nobody.  With one
bucket at most the cut happens in nearly every state; that between two neighbouring
buckets no transaction is left out is then said of no state, and is what the
theorem `HistogramIsExact` adds.  Two minable transactions let one be mined, dropped
or fail to be fetched while the other stays.
In `HeaderReads` one reader is enough because readers meet only in the cache,
which the indexer's task disturbs as well; four heights above genesis with a
cache of two give hits and misses in one range, a range that ends above the
tip, and fills that grow the cache past its size: to four headers, which is the
most `CacheBounded` allows.  The fork is above height 1 because the overflow
takes a rollback that leaves a gap above cached heights, and requests that fill
it later.  In `Lifecycle` two signals let one `stop`
begin, end or raise at any point of another and of `start`'s own; two attempts
give a first, a repeated and a last one.  `CHECK_DEADLOCK FALSE` there, and
nowhere else, because the process exits.

**Fairness.**  `FairSpec` adds weak fairness of the task's normal steps, and
nothing about failures or the node.  The event loop always resumes a task whose
await completed; an RPC call completes because the HTTP session has a total
timeout and `max_retries` bounds the attempts, and a database call returns or
raises.  The convergence properties are conditional: from some time on the node
stays on one chain and no call fails (`Settled`), and no failed rollback has
left its mark for good (`Recovers`; without failed rollbacks it always holds).
`Notifications` assumes weak fairness of each task's and each request's steps: a database call returns,
and a send completes, which holds as long as a client reads or loses its
connection (`drain` has no timeout; a client that does neither holds up the
callback and the indexer with it).  Clients, blocks and polls are not fair.
`WalletView` assumes weak fairness of the tracker's task and of the indexer's
steps, the latter being what `SyncLive` shows, and for convergence a node whose
chain and mempool stay and fetches that succeed from some time on.  `Lifecycle`
assumes that `start` goes on, that database operations and attempts of a call
end (command timeout, session timeout), and that some `stop` goes on as long as
one can.  The last is an assumption about clients too: `server.stop` waits for
transports to close, and a client that does not read can hold it up.  Signals,
tasks' loops and clients are not fair.

**What the violations mean.**  Each is a disagreement between the code and a
line of its documentation, quoted in PROJECT.json.

* The check looks at the tip only, once per batch.  A reorganisation after it
  stores a new-branch block on an orphan; the tips then agree and the orphan
  stays.  The batch never compares `prev_hash`.  `SyncSafe` shows that this is
  the only way: with reorganisations confined to the time up to the end of the
  walk the index is always linked.
* Any exception of the RPC client in the check counts as "the node does not
  have this height".  A call that fails for the tip and another in the walk are
  enough to roll back a block of the node's chain.
* `_indexed_height` is set after `handle_reorg` returns; if it raises, the
  stale height survives and, the tips agreeing, the next block goes above a gap.
* An output spent in its own block is never found by the parser.
* The notification loops iterate over the live dictionary of sessions across
  an await.  A client that comes or goes ends the callback with a RuntimeError,
  and the block counts as indexed.  `SubscriberLearnsUnlessChurned` shows that,
  while calls succeed, a notification is lost in one other way only, by the same
  iterator: an insertion rebuilds the table and moves a session behind it, which
  raises nothing.

Further facts from the models:

* The cached tip height never runs ahead (`TipNeverAhead`), but it may fall
  behind: after a lost acknowledgement and a failed tip check, the walk accepts
  the block that was committed, and confirmations are short until the next
  block.
* A failed rollback does not only leave gaps, it can stop the index for good:
  with the last stored block rolled back, the check has nothing to compare; if
  the height in memory, or in the metadata row above a gap, is the node's, the
  heights agree and nothing is ever fetched.  This is why the convergence
  properties have the premise `Recovers`.
* Reindexing a block that spends its own outputs finds them, which the first
  indexing did not: it writes the history rows of the spends, and marks the
  outputs as spent.  Once more changes nothing (`ReorgEqualsFresh`).
* The first iteration of the walk is spent on the tip, so the deepest
  reorganisation handled is one below `reorg_limit` (`RollbackBounded`, proved);
  a deeper one is refused on every poll.  `config.yaml.example:67` calls
  the setting "Maximum reorg depth to handle".
* `get_header` fills the cache after an await, with the row it read before: a
  header of a block rolled back meanwhile stays in the cache until the indexer
  next touches that height.
* `header_store.py:110` calls `cache_size` the "Maximum headers to cache in
  memory".  Adding a header evicts at most one and a fill evicts none, so the
  cache can hold half that number more: an eviction removes the lowest height,
  and a rollback followed by blocks that find the cache full leaves gaps below
  the tip, which requests fill.  `CacheBounded` (proved) says that this, the
  block being committed, and headers that outlived a rollback are all, as long
  as the cached tip height keeps up with the database.  Lost acknowledgements
  and failed rollbacks can make it lag by more, every height above it is
  "recent" then, and what requests have filled in stays: each new block evicts
  one header, until the process restarts.
* Confirmations are within one of what the database says, unless a rollback
  came in between or failed half way before.
* After a lost acknowledgement and a reorganisation, the height is indexed again
  with another block.  `index_block_batch` replaces the block and the header, and
  keeps the orphan's transactions, outputs, history and spent marks beside the
  new block's.  Until that height is rolled back balances are wrong;
  the rollback takes the rows of both and undoes the spends of both
  (`ReorgEqualsFresh`), and nothing but a rollback does.  While the tips agree none comes.
* When a block of another branch contains a transaction that is stored already,
  its history keeps the old height and the spent mark gets the new one.  Rolling
  the new block back then gives the output back without reporting its
  scripthash.  This is why `AffectedComplete` asks of a rollback that nothing
  but linked blocks is stored; what stores a block always reports.
* `get_balance` counts a transaction twice from its block's commit to the
  tracker's next complete poll.  A transaction that is confirmed between the two
  reads of `get_history` can be missing from both, since the rows are older than
  the block and the tracker may have dropped it by the time the handler resumes.
  No property says otherwise; `PoolIsShown` says that the tracker itself
  overlooks nothing that stays in the node's mempool.
* A broadcast whose request or answer was lost may be reported as failed
  although the node accepted it: the repetition is refused as known.
* A refusal that the node puts into the result is answered as a success with an
  empty txid (or the word None, for `null`), where `handlers.py:506` says
  "Returns: txid".  `SuccessIsTrue` is therefore about answers with a txid,
  and `FailureIsTrueUnlessLost` counts an empty one as a failure.
* A signal during `start` runs a `stop` that does not see what is started
  after it.  The process still exits, for the event is set, but with the pool,
  the session or the socket left to the interpreter, and possibly in the middle
  of a commit (which PostgreSQL then rolls back).
* A `stop` that raises sets no event: unless another signal's `stop` gets
  through, the process waits for ever.

Found by reading, and outside the runs: `block_indexer.py:380` numbers history
rows with an offset of 500 that its comment explains by "Spends after outputs",
which a transaction of more than 500 outputs breaks: a spend and an output of
one script can then have one key, of which the insert keeps the output
(`PositionsApart` excludes it from the theorem about balances).  A notification for the
mempool carries a status computed from the database alone, which the mempool
does not change.  `docs/ARCHITECTURE.md:109` calls the header
cache an LRU; it evicts the lowest height, whatever was read last.
`block_indexer.py:19` imports `pkh_to_scripthash_hex` from
`rythmicd.scripthash`, whose `__init__.py` does not export it, so the module
does not load as committed; the models take the redefinition eight lines below,
which is what the code goes on to use.

## 4. Proofs

Every invariant that a passing run checks is a theorem here, and so are
the action property `RollbackOnlyOrphans`, `AffectedComplete` and the refinement.  Each
holds for all values of the constants that satisfy the modules'
named assumptions: every tree of blocks, height bound, cache, batch and reorg
limit; any number of requests, sessions, scripthashes, transactions, signals
and retries.

| Theorem | Property | Also assumes |
|---|---|---|
| **SyncLoopProofs** | | |
| `TypeCorrect` | `TypeOK` | |
| `RollbackIsBounded` | `RollbackBounded` | |
| `NoGaps` | `Contiguous` | no failed rollback |
| `CacheIsCoherent` | `CacheCoherent` | no failed rollback |
| `TipIsNeverAhead` | `TipNeverAhead` | no failed rollback |
| `IndexIsLinked` | `ChainLinked` | no failed rollback, `ReorgAt \subseteq SafePoints` |
| `IndexImplementsStack` | `Stack!Spec` | no failed rollback, `ReorgAt \subseteq SafePoints` |
| `RollbackIsJustified` | `RollbackOnlyOrphans` | `NodeIsSteady` |
| **HeaderReadsProofs** | | |
| `ReadsTypeCorrect` | `ReadsTypeOK` | |
| `CacheIsStaleOnlyByRace` | `StaleOnlyByRace` | |
| `RangesLink` | `RangeLinks` | |
| `RollbackIsBoundedBesideReads` | `RollbackBounded` | |
| `RollbackIsJustifiedBesideReads` | `RollbackOnlyOrphans` | `NodeIsSteady` |
| `CacheIsBounded` | `CacheBounded` | |
| `CacheStaysBounded` | its bound without `drifted` | no failed rollback, `NodeIsSteady` |
| `AnswersAreLinked` | `AnswersLink` | no failed rollback, `ReorgAt \subseteq SafePoints` |
| `ConfirmationsAreNear` | `ConfirmationsNearTip` | no failed rollback, `NodeIsSteady` |
| **IndexQueriesProofs** | | |
| `TablesTypeCorrect` | `TypeOK` | |
| `ReorgIsFreshSync` | `ReorgEqualsFresh` | |
| `UnspentIsExactUpToChained` | `UnspentUpToChained` | |
| `AffectedIsComplete` | `AffectedComplete` | |
| **IndexAnswersProofs** | | |
| `StatusIsInChainOrder` | `StatusInChainOrder` | `PositionsFit` |
| `BalanceIsHistory` | `BalanceMatchesHistory` | `PositionsApart` |
| **WalletViewProofs** | | |
| `WalletTypeCorrect` | `WalletTypeOK` | |
| `BalanceIsExact` | `BalanceIsTracked` | |
| `HistogramIsExact` | `HistogramDescribesPool` | |
| `ChangesAreReported` | `ChangesReported` | |
| `PoolIsAlwaysShown` | `PoolIsShown` | |
| `TwiceOnlyUntilPoll` | `TwiceUntilPoll` | |
| **LifecycleProofs** | | |
| `LifeTypeCorrect` | `LifeTypeOK` | |
| `ExitIsClean` | `ExitReleases` | |
| `ExitIsBetweenCommits` | `ExitCutsNoCommit` | |
| `BroadcastSuccessIsTrue` | `SuccessIsTrue` | |
| `BroadcastFailureIsTrue` | `FailureIsTrueUnlessLost` | |
| **NotificationsProofs** | | |
| `NotesTypeCorrect` | `TypeOK` | |
| `HeadersAreInOrder` | `HeadersInOrder` | |

**The assumptions.**  "No failed rollback" is `"rollback" \notin Faults`, and
`ReorgAt \subseteq SafePoints` confines reorganisations to the time up to the
end of the walk; `BugRollbackGap` and `BugMidBatchReorg` are what happens
without them.  `NodeIsSteady` says that no RPC call fails, that the node's
height does not fall, and that it does not reorganise between the check's
answers and the end of the rollback; without it a rollback of the node's own
blocks is what `BugRpcRollback` shows.  `PositionsFit` and `PositionsApart` are
about `tx_pos`, which is `1000 * tx_idx + vout` for an output and
`1000 * tx_idx + 500 + vin` for a spend: the first says that no position reaches
the next transaction's (at most 1000 outputs and 500 inputs), the second that no
spend has the position of an output of its transaction (500 outputs at most
always satisfy it).  Nothing in the code enforces either, and without them the
properties are false.  A transaction spends an outpoint once, as
consensus requires (`ValidNext`).  Nothing is assumed of the other
failures: crashes, lost acknowledgements, reads and callbacks that raise.

**SyncLoop.**  `FrameInv` types the state and bounds the walk whatever fails: in
the walk `cursor` is the stored tip less the steps taken, and the ancestor it
hands on is fewer than `MaxReorgDepth` blocks below that tip.  `HInv`
is about heights: the domain of `blocks` is `0..meta` and each local variable of
the task stands in a fixed relation to `meta` at each value of `pc`.  Outside
the rollback loop `meta` is `indexedHeight`, or one more when the
acknowledgement of a commit was lost; in the walk `cursor + steps = meta`, in
the rollback loop `cursor = meta` (one more once the row is gone and the cache
is not), in the batch `cursor = indexedHeight + 1`.  `Contiguous` is one of its
conjuncts but is not inductive by itself: that a commit does not leave a gap
follows from where `cursor` stands.  `CacheInv` adds the header cache to it,
`TipInv` the cached tip height.  `LinkInv` says that the stored chain is linked
and, in the states between the end of the walk and the next poll, that the
stored block below the one being fetched is on the node's chain; a fetched block
is then a child of the tip because both are on one chain.  `OrphanInv` says that
a steady node has another block at every height about to be rolled back.
Lemmas about tables (`PutFacts`, `DropFacts`, `TipOfRange`), about chains
(`ChainFacts`, `ExtendFacts`) and about the store (`AddFacts`, `LoadFacts`, ...)
carry the data; `CommitRefines` and `RollbackRefines` show that the two database
steps are `Push` and `Pop` and all others stutter.

**HeaderReads.**  A request changes nothing but the cache, so every step is one
of `SyncLoop`'s or leaves the database alone (`ReadsStep`), and the invariants
above that do not speak of the cache carry over.  `RequestInv` says what a
request's local variables mean: the headers got so far are, while nothing
disturbed it, those stored at the heights below the next one, and the row in
hand is the stored one.  `CacheReadInv` is `StaleOnlyByRace` with the facts that
make it inductive: a fill puts a stale header only where `doubtful` says so.
`NearInv` relates the cached tip to the stored one at each place of the task.

The bound on the cache is about the shape of the set of cached heights, for
counting them alone is not inductive.  `WellFilled` calls a height old that is
so far below the tip that no fill would add it again.  It says that above a cached height
nothing is missing from `CacheSize` heights on, up to the tip; hence above the
lowest old height there are as many cached ones that are not old as there are
old ones, and an eviction that leaves the cache full leaves at most half of
it old (`HalfOld`).  Fills add no old height (`FillShape`), what the
indexer adds or removes is the tip or the height above it (`AtTheTip`), and so
the cache holds no more than its size in recent heights, half its size in old
ones, one block being committed, and doubtful ones (`ShapeBounds`).  `TipsInv`
and `TipNear` say where the tip height is relative to the database and the
indexer whatever fails; `NeverDrifts` that it stays near if no rollback fails.

**The tables.**  Each operation is one function of the tables, so the proof is
algebra on `Index` and `Rollback`.  It has two halves.

The first is about any database the program can make, of whatever mixture of
branches.  `Rooted` says that every row stands at a height that has a block, and a
mark of a spend too.
Storing a block at the top or above, and rolling the top back, keep it
(`RootedIndex`, `RootedRollback`) and change nothing below their height:
`BelowIndex` and `BelowRollback` say that `Below(db, n)`, the tables with
everything from height `n` up rolled back, stays the same.  `IndexTouches` shows
that a block changes no row of a scripthash it does not report, also when it is
stored over another one, and `RollbackTouches` that its rollback does not either
where each spend has its history at the height of its mark, which `Sound` implies.

The second is about linked blocks.  `Sound` describes their database: every row
is of a transaction of its chain, at its height, and an output counts as spent
only when the chain spends it.  What differs when a block is indexed again is
what its parser sees: the tables from before the block, or (`Seen`) those with
the block's own outputs; `Views` are the two.  `SeenTwice` shows that indexing a
block again, from whichever view it was indexed before, is indexing it once from
the second one, so that a third time changes nothing; `SeenUnchained` that
without spends inside the block both views lead to one database.  From either
view a block keeps `Sound` (`NextSound`).  A database of linked blocks is the last
of a row of databases, each the one before it with one block more, indexed once or,
at the heights in `again`, twice (`Grown`).

The inductive invariant `TablesInv` joins them: the database is rooted, and
`Below(db, linked)` is grown.  A linked block makes the row longer
(`IndexBlockGrows`), a repetition changes its last step (`ReindexBlockGrows`), a
block of another branch shortens it to where the branches part and nothing else
(`IndexUnlinkedGrows`), and a rollback below the linked blocks' top takes its
last step back (`RollbackShrinks`).  `WholeIsBelow` is why the answers need no
`Below`: with nothing else stored it is the database.  `ExactPart`, which outputs
count as unspent, goes along the row.  That such a row is what the recursive
`FreshIndex` computes is shown by the least height at which they would differ
(`FreshIsUnique`).

**The answers.**  Both theorems of `IndexAnswersProofs` go along the same row of
databases (`GrownSteps`): what one block keeps, every database of the row has.
`Placed` says that the history's rows stand in the slot of positions of their
transaction, so that height and position order rows as height and index order
transactions (`StatusOrdered`); that a finite set can be put in order at all,
which is what makes the `CHOOSE` in `Sorted` mean something, is `OrderExists`.
`Counted` says that balance and history agree: a block's new outputs are worth
what their history rows add (`PaysWhatItAdds`), and the rows of its spends
take what the outputs they spend are worth (`TakesWhatItAdds`).  The correspondence
between rows and outputs is where `PositionsApart` is needed (`KeysDiffer`).

**Sums and sorting.**  `SetLemmas` shows what a sum and an order are without the
library's induction theorems: strict inclusion of finite sets is well-founded,
so a set of naturals has a least element (`LeastNatural`), and a set of subsets
that holds every subset whose own smaller subsets it holds has the whole set in
it (`SubsetInduction`, about a set in the place of an operator).
From it come that a sum exists and is the same in every order (`SumsExist`,
`SumsAgree`), that it splits (`SumUnion`), and that a one-to-one
correspondence keeps it (`SumCorresponds`).

**WalletView.**  `ListsExact` is the heart of the tracker's part: the lists hold
each output of a tracked transaction once and nothing else, at every await of
the poll; a sum over one list is then a sum over the other (no fold has to be
unfolded).  `RestReported` says that what the poll under way has not touched is
as last reported.  The histogram is a loop over the sorted
entries; `Describes` says what the buckets are after a part of it: in order, each
with the sizes of exactly the entries read so far that are within a width of
its rate, every entry in one.  An entry joins the last bucket (`JoinDescribes`) or
opens one (`OpenDescribes`), and the loop reaches its end (`FilledDescribes`, by
climbing along the recursive function); the cut then leaves out the
lowest rates (`HistogramFits`).  `HistogramInv` adds that the pools are finite.
`PoolIsShown` is inductive beside the types: a poll accounts for each transaction
of its list, a fetch moves one from `todo` to `tracked` or `failed`, and what the
node does meanwhile is in `moved`.  `MovedInv` says why a transaction can be in both
views: what the tracker has, or is about to fetch, and is mined was mined since the list.

**Lifecycle.**  `LifeInv` has a part per actor: `RpcInv` for calls (what a
broadcaster has heard, and the answer it
got, decide what the node has unless a request was given up), `StartInv` for what exists at
each place of `start`, `TaskInv` for what no task does
once the pool or the process is gone, `StopInv` for what each `stop` has closed
at each of its places, `ExitInv` for why the process may exit.  Only
a signal during `start`, or a `stop` that raised (`spoiled`), weakens the last
two.

**Notifications.**  `NotesInv` adds to the types that no session has a header
newer than the header store's tip, which with `tip <= version` puts replies and
notifications in order; that the sets counted are finite; and that a status in
hand has a script.  `ReachFacts` says that the next subscriber is a session with a
place, and that an iterator that got there expects no fewer keys than none.

**Only model-checked.**

* Liveness (`TipConverges`, `LinkedConverges`, `ViewConverges`, `SignalEnds`,
  `HeadersLearn`, `SubscriberLearnsUnlessChurned`): fairness and ENABLED are out
  of the prover's reach.

## 5. What is left

* The step lemmas behind the liveness properties, which the fairness argument
  could rest on once a prover accepts ENABLED.

### Not modelled

* Settings, logging, command line: configuration and output, no behaviour.
* Scripthash and address utilities: the program uses one function of them, a
  hash of fixed bytes, for which the models take the script's name.
  Base58Check has no caller outside the tests.
* The byte layout of headers and the conversion of amounts: opaque values.
  `deserialize_header` has no caller.
* The single-row helpers of the DAL: no caller in the program; SQL types and
  indexes.
* Parsing of messages, batches of requests, TLS and socket I/O of the server:
  they decide whether a request exists, which the models leave open; and its
  idle timeout, one more reason for a session to close.
* Handlers that answer with constants or with arithmetic on the tracked
  transactions (`server.*`, `relayfee`, `estimatefee`, `get_stats`), and merkle
  proofs, which the code does not compute.
* The handlers' database connections during shutdown (see `Lifecycle`).
