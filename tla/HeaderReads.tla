----------------------------- MODULE HeaderReads ----------------------------
(* The protocol's requests that read the header store, as tasks of their own *)
(* beside the indexer's: blockchain.headers.subscribe, block.header and      *)
(* block.headers, and the confirmations of a verbose transaction.get.  A     *)
(* miss is two steps: the database answers, and later the handler, resumed   *)
(* once its connection went back to the pool, fills the cache.               *)
(*                                                                           *)
(* at   where a request is                                                   *)
(*   "idle"     no request                                                   *)
(*   "select"   awaiting the row of height next, a miss                      *)
(*   "row"      the database answered with row                               *)
(*   "answer"   the headers got are on their way to the client               *)
(*   "confirm"  a transaction's row, of height next, is on its way; the tip  *)
(*              height is read when it arrives                               *)
EXTENDS SyncLoop, Sequences

CONSTANTS
    Reader,     \* requests that may be under way at once
    MaxCount    \* bound: the most headers asked for, 2016 in the code

ASSUME ReadsAssumption == MaxCount \in Nat \ {0}

VARIABLES
    at, next, last, got, row,  \* a request: its place, heights, headers so far
    disturbed,  \* history: was a stored block replaced or removed, or an
                \* orphan's header served, since the request began?
    doubtful,   \* history: heights whose cached header was stale when it was
                \* put there, or survived the rollback of its block
    drifted     \* history: did a commit or a rollback whose acknowledgement
                \* was lost leave the tip height off by more than one?

request == <<at, next, last, got, row>>
history == <<disturbed, doubtful, drifted>>
allVars == <<vars, request, history>>

-----------------------------------------------------------------------------
ReadsInit ==
    /\ Init
    /\ at = [r \in Reader |-> "idle"]
    /\ next = [r \in Reader |-> 0] /\ last = [r \in Reader |-> 0]
    /\ got = [r \in Reader |-> <<>>]
    /\ row = [r \in Reader |-> NoBlock]
    /\ disturbed = [r \in Reader |-> FALSE]
    /\ doubtful = {} /\ drifted = FALSE

\* The database holds block b at height h.
Stored(h, b) == h \in DOMAIN blocks /\ blocks[h] = b

\* The first height from h on that c does not hold, or the one after `to`.
FirstMiss(c, h, to) ==
    CHOOSE m \in h .. to + 1 :
        /\ h .. m - 1 \subseteq DOMAIN c
        /\ m = to + 1 \/ m \notin DOMAIN c

\* The loop of get_headers from height h, over the hits that need no await.
Continue(r, c, h, to, headers) ==
    LET miss == FirstMiss(c, h, to)
    IN /\ at' = [at EXCEPT ![r] = IF miss > to THEN "answer" ELSE "select"]
       /\ next' = [next EXCEPT ![r] = miss]
       /\ last' = [last EXCEPT ![r] = to]
       /\ got' = [got EXCEPT ![r] = headers \o [i \in 1 .. miss - h |-> c[h + i - 1]]]
       /\ row' = [row EXCEPT ![r] = NoBlock]
       /\ disturbed' = [disturbed EXCEPT
            ![r] = @ \/ \E k \in h .. miss - 1 : ~Stored(k, c[k])]

\* Mutant: the range includes its end.
AskHeadersOneMore(r) ==
    /\ at[r] = "idle" /\ pc # "down"
    /\ \E h \in 0 .. MaxHeight, count \in 1 .. MaxCount :
          Continue(r, cache, h, h + count, <<>>)
    /\ UNCHANGED <<vars, doubtful, drifted>>

\* block.headers, and block.header with a count of one.
AskHeaders(r) ==
    /\ at[r] = "idle" /\ pc # "down"
    /\ \E h \in 0 .. MaxHeight, count \in 1 .. MaxCount :
          Continue(r, cache, h, h + count - 1, <<>>)
    /\ UNCHANGED <<vars, doubtful, drifted>>

\* headers.subscribe: get_tip_header, when there is a tip.
AskTip(r) ==
    /\ at[r] = "idle" /\ pc # "down"
    /\ tipHeight >= 0
    /\ Continue(r, cache, tipHeight, tipHeight, <<>>)
    /\ UNCHANGED <<vars, doubtful, drifted>>

\* Mutant: the height looked up is the last of the range.
SelectLast(r) ==
    /\ at[r] = "select"
    /\ at' = [at EXCEPT ![r] = "row"]
    /\ row' = [row EXCEPT ![r] = IF last[r] \in DOMAIN blocks
                                 THEN blocks[last[r]] ELSE NoBlock]
    /\ UNCHANGED <<vars, next, last, got, history>>

\* get_header_by_height, in the database.
Select(r) ==
    /\ at[r] = "select"
    /\ at' = [at EXCEPT ![r] = "row"]
    /\ row' = [row EXCEPT ![r] = IF next[r] \in DOMAIN blocks
                                 THEN blocks[next[r]] ELSE NoBlock]
    /\ UNCHANGED <<vars, next, last, got, history>>

\* Mutant: every header read is cached, however old.
RecentAnyhow(h) == h >= 0

\* height > self._tip_height - self._cache_size, of the tip at the time.
Recent(h) == h > tipHeight - CacheSize

\* get_header resumes with a row: the cache is filled if the height is recent,
\* whatever it holds by now, and the loop goes on.
Fill(r) ==
    LET h == next[r] IN
    /\ at[r] = "row" /\ row[r] # NoBlock
    /\ cache' = IF Recent(h) THEN Put(cache, h, row[r]) ELSE cache
    /\ doubtful' = IF ~Recent(h) THEN doubtful
                   ELSE IF Stored(h, row[r]) THEN doubtful \ {h}
                   ELSE doubtful \cup {h}
    /\ Continue(r, cache', h + 1, last[r], Append(got[r], row[r]))
    /\ UNCHANGED <<nodeChain, db, tipHeight, heights, pc, frame, drifted>>

\* No row: the loop stops and the answer is what it got so far.
Missing(r) ==
    /\ at[r] = "row" /\ row[r] = NoBlock
    /\ at' = [at EXCEPT ![r] = "answer"]
    /\ UNCHANGED <<vars, next, last, got, row, history>>

\* transaction.get: the row of a transaction stored at some height.
AskTransaction(r) ==
    /\ at[r] = "idle" /\ pc # "down"
    /\ at' = [at EXCEPT ![r] = "confirm"]
    /\ \E h \in DOMAIN blocks : next' = [next EXCEPT ![r] = h]
    /\ UNCHANGED <<vars, last, got, row, history>>

\* tip_height - tx.block_height + 1, if the request were answered now.
Confirmations(r) == tipHeight - next[r] + 1

RequestGone(r) ==
    /\ at' = [at EXCEPT ![r] = "idle"]
    /\ next' = [next EXCEPT ![r] = 0] /\ last' = [last EXCEPT ![r] = 0]
    /\ got' = [got EXCEPT ![r] = <<>>]
    /\ row' = [row EXCEPT ![r] = NoBlock]
    /\ disturbed' = [disturbed EXCEPT ![r] = FALSE]

Reply(r) ==
    /\ at[r] \in {"answer", "confirm"}
    /\ RequestGone(r)
    /\ UNCHANGED <<vars, doubtful, drifted>>

\* The SELECT raises, and the client gets an error.
SelectRaises(r) ==
    /\ "read" \in Faults
    /\ at[r] = "select"
    /\ RequestGone(r)
    /\ UNCHANGED <<vars, doubtful, drifted>>

-----------------------------------------------------------------------------
\* Heights whose stored block a step removes or replaces.
Gone == {h \in DOMAIN blocks : h \notin DOMAIN blocks' \/ blocks'[h] # blocks[h]}

\* A step of the indexer or of the node, beside the requests.
Index ==
    /\ Next
    /\ drifted' = (/\ pc' # "down"
                   /\ drifted \/ TipHeight(blocks') - tipHeight' \notin -1 .. 1)
    /\ IF pc' = "down" /\ pc # "down"
       THEN /\ at' = [r \in Reader |-> "idle"]
            /\ next' = [r \in Reader |-> 0] /\ last' = [r \in Reader |-> 0]
            /\ got' = [r \in Reader |-> <<>>]
            /\ row' = [r \in Reader |-> NoBlock]
            /\ disturbed' = [r \in Reader |-> FALSE]
            /\ doubtful' = {}
       ELSE /\ UNCHANGED request
            /\ disturbed' = [r \in Reader |->
                  at[r] # "idle" /\ (disturbed[r] \/ Gone # {})]
            /\ doubtful' = IF pc \in {"uncache", "cacheadd"} /\ pc' # pc
                           THEN doubtful \ {cursor}
                           ELSE IF pc' = "uncache" THEN doubtful
                           ELSE doubtful \cup (Gone \cap DOMAIN cache)

Read(r) == AskHeaders(r) \/ AskTip(r) \/ Select(r) \/ Fill(r) \/ Missing(r)
           \/ AskTransaction(r) \/ Reply(r) \/ SelectRaises(r)

ReadsNext == Index \/ \E r \in Reader : Read(r)

ReadsSpec == ReadsInit /\ [][ReadsNext]_allVars

-----------------------------------------------------------------------------
\* Types of the requests' state; no answer is longer than what was asked for.
ReadsTypeOK ==
    /\ TypeOK
    /\ at \in [Reader -> {"idle", "select", "row", "answer", "confirm"}]
    /\ next \in [Reader -> Nat] /\ last \in [Reader -> Nat]
    /\ got \in [Reader -> Seq(Block)]
    /\ \A r \in Reader : Len(got[r]) <= MaxCount
    /\ row \in [Reader -> Block \cup {NoBlock}]
    /\ disturbed \in [Reader -> BOOLEAN]
    /\ doubtful \subseteq Nat /\ drifted \in BOOLEAN

\* With requests filling the cache behind the indexer's back, a cached header
\* that is not the stored one came there in one of two ways: a request read
\* the row before its block was rolled back and filled the cache afterwards,
\* or the rollback was committed and its acknowledgement lost.  Either is
\* repaired when the indexer adds or removes a header at that height.
StaleOnlyByRace ==
    \A h \in DOMAIN cache :
        \/ Stored(h, cache[h])
        \/ pc = "uncache" /\ h = cursor
        \/ h \in doubtful

\* block.headers puts an answer together height by height, from the cache and
\* the database, while the indexer commits: what it returns links, unless a
\* stored block was removed or replaced meanwhile.
RangeLinks ==
    \A r \in Reader : ~disturbed[r] /\ ChainLinked =>
        \A i \in 2 .. Len(got[r]) : Parent[got[r][i]] = got[r][i - 1]

\* add_to_cache evicts one header for each it adds, a fill evicts none, and a
\* rollback leaves gaps that requests fill later: still the cache holds half its
\* size more at most, the block being committed, and what outlived a rollback -
\* as long as the tip height keeps up with the database.
CacheBounded ==
    ~drifted =>
        2 * Cardinality(DOMAIN cache) <= 3 * CacheSize + 2 + 2 * Cardinality(doubtful)

\* The confirmations of a transaction are computed from its row and from a
\* tip height read later, which the indexer lowers and raises after it changed
\* the database.  While no block is rolled back in between, they differ by one
\* at most from what the database says, so a stored transaction never has a
\* negative number of them - unless a rollback failed half way before.
ConfirmationsNearTip ==
    \A r \in Reader :
        at[r] = "confirm" /\ ~disturbed[r] /\ Contiguous /\ doubtful = {} =>
            Confirmations(r) - (TipHeight(blocks) - next[r] + 1) \in -1 .. 1
=============================================================================
