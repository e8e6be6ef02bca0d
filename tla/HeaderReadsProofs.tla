-------------------------- MODULE HeaderReadsProofs -------------------------
(* Proofs about HeaderReads for any number of requests of any length, beside *)
(* an indexer of which any call may fail.                                    *)
EXTENDS HeaderReads, SyncLoopProofs, SequenceTheorems

-----------------------------------------------------------------------------
(* One request.                                                              *)

\* The headers got are those of the stored blocks below height h.
GotStored(headers, h) ==
    \A i \in 1 .. Len(headers) : Stored(h - Len(headers) + i - 1, headers[i])

RequestOK(r) ==
    /\ at[r] \in {"idle", "confirm"} => got[r] = <<>>
    /\ at[r] \in {"select", "row"} =>
           next[r] <= last[r] /\ Len(got[r]) + last[r] - next[r] < MaxCount
    /\ at[r] \in {"select", "row", "answer"} /\ ~disturbed[r] => GotStored(got[r], next[r])
    /\ at[r] = "row" /\ ~disturbed[r] /\ row[r] # NoBlock => Stored(next[r], row[r])

RequestInv == \A r \in Reader : RequestOK(r)

\* The types of the requests, apart from what they leave in the cache.
RequestTyped ==
    /\ at \in [Reader -> {"idle", "select", "row", "answer", "confirm"}]
    /\ next \in [Reader -> Nat] /\ last \in [Reader -> Nat]
    /\ got \in [Reader -> Seq(Block)]
    /\ \A r \in Reader : Len(got[r]) <= MaxCount
    /\ row \in [Reader -> Block \cup {NoBlock}]
    /\ disturbed \in [Reader -> BOOLEAN]

\* A step of request r leaves the others alone.
OthersKept(r) ==
    \A q \in Reader : q # r =>
        /\ at'[q] = at[q] /\ next'[q] = next[q] /\ last'[q] = last[q]
        /\ got'[q] = got[q] /\ row'[q] = row[q] /\ disturbed'[q] = disturbed[q]

\* A cached header is the stored one, or it is known why it is not.
CacheReadInv ==
    /\ StaleOnlyByRace
    /\ pc = "down" => cache = EmptyTable /\ \A r \in Reader : at[r] = "idle"
    /\ pc = "cacheadd" => Stored(cursor, fetched)

ReadsInv == FrameInv /\ ReadsTypeOK /\ RequestInv /\ CacheReadInv

-----------------------------------------------------------------------------
(* The loop of get_headers.                                                  *)

\* It goes over a run of cached heights.
LEMMA FirstMissFacts ==
    ASSUME NEW c, NEW h \in Nat, NEW to \in Nat, h <= to + 1
    PROVE  /\ FirstMiss(c, h, to) \in h .. to + 1
           /\ h .. FirstMiss(c, h, to) - 1 \subseteq DOMAIN c
<1> DEFINE Ends == {m \in h .. to + 1 : m = to + 1 \/ m \notin DOMAIN c}
<1>1. PICK m \in Ends : \A k \in Ends : m <= k
    <2>1. Ends \in SUBSET Nat /\ to + 1 \in Ends
        OBVIOUS
    <2> HIDE DEF Ends
    <2> QED
        BY <2>1, LeastNatural
<1>2. h .. m - 1 \subseteq DOMAIN c
    <2> SUFFICES ASSUME NEW k \in h .. m - 1, k \notin DOMAIN c PROVE FALSE
        OBVIOUS
    <2>1. k \in Ends
        BY <1>1
    <2> QED
        BY <1>1, <2>1
<1> QED
    BY <1>1, <1>2 DEF FirstMiss

\* A function on an interval from 1 is a sequence.
LEMMA FunctionIsSeq ==
    ASSUME NEW S, NEW n \in Nat, NEW f \in [1 .. n -> S]
    PROVE  f \in Seq(S) /\ Len(f) = n
<1>1. f \in Seq(S)
    BY SeqDef
<1>2. Len(f) \in Nat /\ 1 .. Len(f) = 1 .. n
    BY <1>1, LenProperties
<1> QED
    BY <1>1, <1>2

\* What the loop leaves for its request; it touches no other.
LEMMA ContinueFacts ==
    ASSUME RequestTyped, NEW r \in Reader, NEW c, IsTable(c), NEW h \in Nat, NEW to \in Nat,
           h <= to + 1, NEW headers \in Seq(Block),
           Len(headers) + to - h < MaxCount,
           ~disturbed[r] => GotStored(headers, h),
           Continue(r, c, h, to, headers), UNCHANGED blocks
    PROVE  RequestTyped' /\ RequestOK(r)' /\ OthersKept(r)
<1> DEFINE miss == FirstMiss(c, h, to)
           hits == [i \in 1 .. miss - h |-> c[h + i - 1]]
<1>1. miss \in h .. to + 1 /\ h .. miss - 1 \subseteq DOMAIN c
    <2> HIDE DEF hits
    <2> QED
        BY ONLY FirstMissFacts, h \in Nat, to \in Nat, h <= to + 1
<1>2. /\ at' = [at EXCEPT ![r] = IF miss > to THEN "answer" ELSE "select"]
      /\ next' = [next EXCEPT ![r] = miss]
      /\ last' = [last EXCEPT ![r] = to]
      /\ got' = [got EXCEPT ![r] = headers \o hits]
      /\ row' = [row EXCEPT ![r] = NoBlock]
      /\ disturbed' = [disturbed EXCEPT
            ![r] = @ \/ \E k \in h .. miss - 1 : ~Stored(k, c[k])]
    BY DEF Continue
<1> HIDE DEF miss
<1>3. miss \in Nat /\ h <= miss /\ miss <= to + 1 /\ miss - h \in Nat
    BY <1>1
<1>4. \A i \in 1 .. miss - h : h + i - 1 \in DOMAIN c /\ c[h + i - 1] \in Block
    <2> TAKE i \in 1 .. miss - h
    <2>1. h + i - 1 \in h .. miss - 1
        BY <1>3
    <2> QED
        BY <1>1, <2>1 DEF IsTable
<1>5. hits \in Seq(Block) /\ Len(hits) = miss - h
    <2>1. hits \in [1 .. miss - h -> Block]
        BY <1>4
    <2> HIDE DEF hits
    <2> QED
        BY <1>3, <2>1, FunctionIsSeq
<1>6. \A i \in 1 .. miss - h : hits[i] = c[h + i - 1]
    OBVIOUS
<1> HIDE DEF hits
<1> DEFINE both == headers \o hits
           size == Len(headers)
<1>7. /\ both \in Seq(Block)
      /\ Len(both) = size + Len(hits)
      /\ \A i \in 1 .. size + Len(hits) :
            both[i] = IF i <= size THEN headers[i] ELSE hits[i - size]
    BY <1>5, ConcatProperties
<1>8. size \in Nat
    BY LenProperties
<1>9. got' = [got EXCEPT ![r] = both]
    BY <1>2
<1>10. Len(headers) = size /\ size + to - h < MaxCount
    OBVIOUS
<1> HIDE DEF both, size
<1>11. ASSUME ~disturbed[r], \A k \in h .. miss - 1 : Stored(k, c[k])
       PROVE  GotStored(both, miss)
    <2> SUFFICES ASSUME NEW i \in 1 .. size + (miss - h)
                 PROVE  Stored(h - size + i - 1, both[i])
        BY <1>3, <1>5, <1>7, <1>8 DEF GotStored
    <2>1. CASE i <= size
        BY <1>3, <1>5, <1>7, <1>8, <1>10, <1>11, <2>1 DEF GotStored
    <2>2. CASE i > size
        <3>1. i - size \in 1 .. miss - h /\ h - size + i - 1 \in h .. miss - 1
            BY <1>3, <1>8, <2>2
        <3>2. both[i] = c[h + (i - size) - 1]
            BY <1>3, <1>5, <1>6, <1>7, <1>8, <2>2, <3>1
        <3>3. h + (i - size) - 1 = h - size + i - 1
            BY <1>8
        <3> QED
            BY <1>11, <3>1, <3>2, <3>3
    <2> QED
        BY <1>8, <2>1, <2>2
<1>12. /\ at'[r] = IF miss > to THEN "answer" ELSE "select"
       /\ next'[r] = miss /\ last'[r] = to /\ got'[r] = both /\ row'[r] = NoBlock
       /\ disturbed'[r] = (disturbed[r] \/ \E k \in h .. miss - 1 : ~Stored(k, c[k]))
    BY <1>2, <1>9 DEF RequestTyped
<1>13. ~disturbed'[r] => GotStored(got[r], next[r])'
    BY <1>11, <1>12, <1>3 DEF GotStored, Stored
<1>14. RequestOK(r)'
    <2>1. at'[r] = "select" => miss <= to /\ Len(both) + to - miss < MaxCount
        BY <1>3, <1>5, <1>7, <1>8, <1>10, <1>12, ReadsAssumption
    <2> QED
        BY <1>12, <1>13, <2>1 DEF RequestOK
<1>15. Len(both) <= MaxCount
    BY <1>3, <1>5, <1>7, <1>8, <1>10, ReadsAssumption
<1>16. OthersKept(r)
    BY <1>2, <1>9 DEF RequestTyped, OthersKept
<1>17. /\ at' \in [Reader -> {"idle", "select", "row", "answer", "confirm"}]
       /\ next' \in [Reader -> Nat] /\ last' \in [Reader -> Nat]
       /\ got' \in [Reader -> Seq(Block)]
       /\ row' \in [Reader -> Block \cup {NoBlock}]
       /\ disturbed' \in [Reader -> BOOLEAN]
    BY <1>2, <1>3, <1>7, <1>9 DEF RequestTyped
<1>18. \A q \in Reader : Len(got'[q]) <= MaxCount
    BY <1>12, <1>15, <1>16 DEF RequestTyped, OthersKept
<1> QED
    BY <1>14, <1>16, <1>17, <1>18 DEF RequestTyped

-----------------------------------------------------------------------------
(* The steps of a request.                                                   *)

\* What a step of a request has to see to.
LEMMA ReadStepKeeps ==
    ASSUME ReadsInv, NEW r \in Reader,
           UNCHANGED <<nodeChain, db, tipHeight, heights, pc, frame, drifted>>,
           RequestTyped', RequestOK(r)', OthersKept(r), pc # "down",
           IsTable(cache'), doubtful' \subseteq Nat, StaleOnlyByRace'
    PROVE  ReadsInv'
<1>1. FrameInv'
    BY DEF ReadsInv, FrameInv, TypeOK, Bounded, db, heights, frame
<1>2. ReadsTypeOK'
    <2>1. drifted' \in BOOLEAN
        BY DEF ReadsInv, ReadsTypeOK
    <2> QED
        BY <1>1, <2>1 DEF FrameInv, ReadsTypeOK, RequestTyped
<1>3. RequestInv'
    BY DEF ReadsInv, RequestInv, RequestOK, OthersKept, GotStored, Stored, db
<1>4. CacheReadInv'
    BY DEF ReadsInv, CacheReadInv, Stored, db, frame
<1> QED
    BY <1>1, <1>2, <1>3, <1>4 DEF ReadsInv

\* A row found in the database is the next header, and may be cached.
LEMMA FillKeeps ==
    ASSUME ReadsInv, NEW r \in Reader, Fill(r)
    PROVE  ReadsInv'
<1> DEFINE height == next[r]
           longer == Append(got[r], row[r])
<1>1. /\ RequestTyped /\ RequestOK(r) /\ doubtful \subseteq Nat /\ IsTable(cache)
      /\ tipHeight \in Int /\ StaleOnlyByRace
      /\ pc = "down" => at[r] = "idle"
    BY DEF ReadsInv, ReadsTypeOK, TypeOK, RequestTyped, RequestInv, CacheReadInv
<1>2. /\ at[r] = "row" /\ row[r] # NoBlock
      /\ cache' = IF Recent(height) THEN Put(cache, height, row[r]) ELSE cache
      /\ doubtful' = IF ~Recent(height) THEN doubtful
                     ELSE IF Stored(height, row[r]) THEN doubtful \ {height}
                     ELSE doubtful \cup {height}
      /\ Continue(r, cache', height + 1, last[r], longer)
      /\ UNCHANGED <<nodeChain, db, tipHeight, heights, pc, frame, drifted>>
    BY DEF Fill
<1>3. /\ height \in Nat /\ last[r] \in Nat /\ row[r] \in Block /\ got[r] \in Seq(Block)
      /\ height <= last[r] /\ Len(got[r]) + last[r] - height < MaxCount
      /\ ~disturbed[r] => GotStored(got[r], height) /\ Stored(height, row[r])
    BY <1>1, <1>2 DEF RequestTyped, RequestOK
<1>4. /\ longer \in Seq(Block) /\ Len(longer) = Len(got[r]) + 1
      /\ \A i \in 1 .. Len(got[r]) : longer[i] = got[r][i]
      /\ longer[Len(got[r]) + 1] = row[r] /\ Len(got[r]) \in Nat
    BY <1>3, AppendProperties, LenProperties
<1> HIDE DEF height, longer
<1>5. ~disturbed[r] => GotStored(longer, height + 1)
    <2> SUFFICES ASSUME ~disturbed[r] PROVE GotStored(longer, height + 1)
        OBVIOUS
    <2>1. ASSUME NEW i \in 1 .. Len(longer)
          PROVE  Stored((height + 1) - Len(longer) + i - 1, longer[i])
        <3>1. (height + 1) - Len(longer) + i - 1 = height - Len(got[r]) + i - 1
            BY <1>3, <1>4
        <3>2. CASE i = Len(got[r]) + 1
            <4>1. height - Len(got[r]) + i - 1 = height
                BY <1>3, <1>4, <3>2
            <4> QED
                BY <1>3, <1>4, <3>1, <3>2, <4>1
        <3>3. CASE i \in 1 .. Len(got[r])
            BY <1>3, <1>4, <3>1, <3>3 DEF GotStored
        <3> QED
            BY <1>4, <3>2, <3>3
    <2> QED
        BY <2>1 DEF GotStored
<1>6. /\ IsTable(cache') /\ UNCHANGED blocks
      /\ height + 1 \in Nat /\ height + 1 <= last[r] + 1
      /\ Len(longer) + last[r] - (height + 1) < MaxCount
    <2>1. IsTable(Put(cache, height, row[r]))
        BY <1>1, <1>3, PutFacts
    <2>2. IsTable(cache') /\ UNCHANGED blocks
        BY <1>1, <1>2, <2>1 DEF db
    <2>3. Len(got[r]) \in Nat /\ MaxCount \in Int
        BY <1>3, ReadsAssumption
    <2>4. Len(longer) + last[r] - (height + 1) = Len(got[r]) + last[r] - height
        <3>1. \A n \in Nat : (n + 1) + last[r] - (height + 1) = n + last[r] - height
            BY <1>3
        <3> HIDE DEF longer
        <3> QED
            BY <1>4, <2>3, <3>1
    <2>5. height + 1 \in Nat /\ height + 1 <= last[r] + 1
        BY <1>3
    <2> QED
        BY <1>3, <2>2, <2>4, <2>5
<1>7. RequestTyped' /\ RequestOK(r)' /\ OthersKept(r)
    BY <1>1, <1>2, <1>3, <1>4, <1>5, <1>6, ContinueFacts
<1>8. StaleOnlyByRace'
    <2>1. /\ UNCHANGED <<blocks, pc, cursor>>
          /\ \A h \in DOMAIN cache' :
                 \/ h \in DOMAIN cache /\ cache'[h] = cache[h] /\ h # height
                 \/ h = height /\ Recent(height) /\ cache'[h] = row[r]
                 \/ cache' = cache /\ ~Recent(height)
        BY <1>2 DEF Put, db, frame
    <2>2. ASSUME NEW h \in DOMAIN cache'
          PROVE  Stored(h, cache'[h]) \/ (pc = "uncache" /\ h = cursor) \/ h \in doubtful'
        <3>1. CASE h \in DOMAIN cache /\ cache'[h] = cache[h] /\ h # height
            BY <1>1, <1>2, <3>1 DEF StaleOnlyByRace
        <3>2. CASE h = height /\ Recent(height) /\ cache'[h] = row[r]
            BY <1>2, <3>2
        <3>3. CASE cache' = cache /\ ~Recent(height)
            BY <1>1, <1>2, <2>2, <3>3 DEF StaleOnlyByRace
        <3> QED
            BY <2>1, <2>2, <3>1, <3>2, <3>3
    <2> QED
        BY <2>1, <2>2 DEF StaleOnlyByRace, Stored
<1> QED
    BY <1>1, <1>2, <1>3, <1>6, <1>7, <1>8, ReadStepKeeps

\* Every step of a request keeps the invariant.
LEMMA ReadKeeps ==
    ASSUME ReadsInv, NEW r \in Reader, Read(r)
    PROVE  ReadsInv'
<1>1. /\ RequestTyped /\ RequestOK(r) /\ doubtful \subseteq Nat /\ IsTable(cache)
      /\ tipHeight \in Int /\ StaleOnlyByRace /\ IsTable(blocks)
      /\ pc = "down" => at[r] = "idle"
    BY DEF ReadsInv, ReadsTypeOK, TypeOK, RequestTyped, RequestInv, CacheReadInv
<1>2. <<>> \in Seq(Block) /\ Len(<<>>) = 0 /\ \A h : GotStored(<<>>, h)
    BY EmptySeq DEF GotStored
<1>3. UNCHANGED <<vars, doubtful, drifted>> =>
          /\ UNCHANGED <<nodeChain, db, tipHeight, heights, pc, frame, drifted>>
          /\ UNCHANGED blocks
          /\ IsTable(cache') /\ doubtful' \subseteq Nat /\ StaleOnlyByRace'
    BY <1>1 DEF vars, store, db, frame, StaleOnlyByRace, Stored
<1>4. CASE AskHeaders(r)
    <2>1. PICK h \in 0 .. MaxHeight, count \in 1 .. MaxCount :
              Continue(r, cache, h, h + count - 1, <<>>)
        BY <1>4 DEF AskHeaders
    <2>2. /\ h \in Nat /\ h + count - 1 \in Nat /\ h <= h + count - 1 + 1
          /\ 0 + (h + count - 1) - h < MaxCount
        BY ReadsAssumption, ChainAssumption
    <2>3. RequestTyped' /\ RequestOK(r)' /\ OthersKept(r)
        BY <1>1, <1>2, <1>3, <1>4, <2>1, <2>2, ContinueFacts DEF AskHeaders
    <2> QED
        BY <1>3, <1>4, <2>3, ReadStepKeeps DEF AskHeaders
<1>5. CASE AskTip(r)
    <2>1. /\ tipHeight \in Nat /\ tipHeight <= tipHeight + 1
          /\ 0 + tipHeight - tipHeight < MaxCount
        BY <1>1, <1>5, ReadsAssumption DEF AskTip
    <2>2. RequestTyped' /\ RequestOK(r)' /\ OthersKept(r)
        BY <1>1, <1>2, <1>3, <1>5, <2>1, ContinueFacts DEF AskTip
    <2> QED
        BY <1>3, <1>5, <2>2, ReadStepKeeps DEF AskTip
<1>6. CASE Select(r)
    <2>1. UNCHANGED <<vars, doubtful, drifted, next, last, got, disturbed>>
        BY <1>6 DEF Select, history
    <2>2. OthersKept(r)
        BY <1>6, <2>1 DEF Select, OthersKept, RequestTyped
    <2>3. RequestTyped'
        BY <1>1, <1>6, <2>1 DEF Select, RequestTyped, IsTable
    <2>4. RequestOK(r)'
        BY <1>1, <1>6, <2>1 DEF Select, RequestOK, RequestTyped, GotStored, Stored, vars, db
    <2> QED
        BY <1>1, <1>3, <1>6, <2>1, <2>2, <2>3, <2>4, ReadStepKeeps DEF Select
<1>7. CASE Fill(r)
    BY <1>7, FillKeeps
<1>8. CASE Missing(r)
    <2>1. UNCHANGED <<vars, doubtful, drifted, next, last, got, row, disturbed>>
        BY <1>8 DEF Missing, history
    <2>2. OthersKept(r)
        BY <1>8, <2>1 DEF Missing, OthersKept, RequestTyped
    <2>3. RequestTyped'
        BY <1>1, <1>8, <2>1 DEF Missing, RequestTyped
    <2>4. RequestOK(r)'
        BY <1>1, <1>8, <2>1 DEF Missing, RequestOK, RequestTyped, GotStored, Stored, vars, db
    <2> QED
        BY <1>1, <1>3, <1>8, <2>1, <2>2, <2>3, <2>4, ReadStepKeeps DEF Missing
<1>9. CASE AskTransaction(r)
    <2>1. UNCHANGED <<vars, doubtful, drifted, last, got, row, disturbed>>
        BY <1>9 DEF AskTransaction, history
    <2>2. OthersKept(r)
        BY <1>9, <2>1 DEF AskTransaction, OthersKept, RequestTyped
    <2>3. RequestTyped'
        BY <1>1, <1>9, <2>1 DEF AskTransaction, RequestTyped, IsTable
    <2>4. RequestOK(r)'
        BY <1>1, <1>9, <2>1 DEF AskTransaction, RequestOK, RequestTyped
    <2> QED
        BY <1>1, <1>3, <1>9, <2>1, <2>2, <2>3, <2>4, ReadStepKeeps DEF AskTransaction
<1>10. CASE Reply(r) \/ SelectRaises(r)
    <2>1. UNCHANGED <<vars, doubtful, drifted>> /\ RequestGone(r) /\ at[r] # "idle"
        BY <1>10 DEF Reply, SelectRaises
    <2>2. OthersKept(r)
        BY <2>1 DEF RequestGone, OthersKept, RequestTyped
    <2>3. RequestTyped'
        BY <1>1, <1>2, <2>1, ReadsAssumption DEF RequestGone, RequestTyped
    <2>4. RequestOK(r)'
        BY <1>1, <2>1 DEF RequestGone, RequestOK, RequestTyped
    <2> QED
        BY <1>1, <1>3, <2>1, <2>2, <2>3, <2>4, ReadStepKeeps
<1> QED
    BY <1>4, <1>5, <1>6, <1>7, <1>8, <1>9, <1>10 DEF Read

-----------------------------------------------------------------------------
(* The steps of the indexer and of the node.                                 *)

\* A step that removes and replaces no block keeps what was stored.
LEMMA StoredKept ==
    ASSUME Gone = {}, NEW h, NEW b, Stored(h, b)
    PROVE  Stored(h, b)'
    BY DEF Gone, Stored

\* The requests: when a block goes they know, and when the process dies so do
\* they.
LEMMA IndexKeepsRequests ==
    ASSUME ReadsInv, Index
    PROVE  RequestTyped' /\ RequestInv' /\ (pc' = "down" => \A r \in Reader : at'[r] = "idle")
<1>1. /\ RequestTyped /\ RequestInv
      /\ pc = "down" => \A r \in Reader : at[r] = "idle"
    BY DEF ReadsInv, ReadsTypeOK, RequestTyped, CacheReadInv
<1>2. CASE pc' = "down" /\ pc # "down"
    <2>1. <<>> \in Seq(Block) /\ Len(<<>>) = 0
        BY EmptySeq
    <2>2. /\ at' = [r \in Reader |-> "idle"]
          /\ next' = [r \in Reader |-> 0] /\ last' = [r \in Reader |-> 0]
          /\ got' = [r \in Reader |-> <<>>]
          /\ row' = [r \in Reader |-> NoBlock]
          /\ disturbed' = [r \in Reader |-> FALSE]
        BY <1>2 DEF Index
    <2>3. RequestTyped'
        BY <2>1, <2>2, ReadsAssumption DEF RequestTyped
    <2>4. RequestInv'
        BY <2>2 DEF RequestInv, RequestOK
    <2> QED
        BY <2>2, <2>3, <2>4
<1>3. CASE ~(pc' = "down" /\ pc # "down")
    <2>1. /\ UNCHANGED request
          /\ disturbed' = [r \in Reader |->
                at[r] # "idle" /\ (disturbed[r] \/ Gone # {})]
        BY <1>3 DEF Index
    <2>2. RequestTyped'
        BY <1>1, <2>1 DEF RequestTyped, request
    <2>3. ASSUME NEW r \in Reader PROVE RequestOK(r)'
        <3>1. RequestOK(r) /\ UNCHANGED request
            BY <1>1, <2>1 DEF RequestInv
        <3>2. CASE disturbed'[r] \/ at[r] = "idle"
            BY <3>1, <3>2 DEF RequestOK, request
        <3>3. CASE ~disturbed'[r] /\ at[r] # "idle"
            <4>1. ~disturbed[r] /\ Gone = {}
                BY <2>1, <3>3
            <4> QED
                BY <3>1, <4>1, StoredKept DEF RequestOK, GotStored, request
        <3> QED
            BY <3>2, <3>3
    <2> QED
        BY <1>1, <1>3, <2>1, <2>2, <2>3 DEF RequestInv, request
<1> QED
    BY <1>2, <1>3

\* The cache: what a step leaves in it is stored, or known to be doubtful.
LEMMA IndexKeepsCache ==
    ASSUME ReadsInv, Index, pc' # "down"
    PROVE  StaleOnlyByRace' /\ doubtful' \subseteq Nat /\ (pc' = "cacheadd" => Stored(cursor, fetched)')
<1> USE DEF Goto, FrameGone, db, store, heights, frame
<1>1. /\ StaleOnlyByRace /\ doubtful \subseteq Nat
      /\ pc = "down" => cache = EmptyTable
      /\ pc = "cacheadd" => Stored(cursor, fetched)
      /\ IsTable(cache) /\ pc \in PCs
    BY DEF ReadsInv, CacheReadInv, ReadsTypeOK, TypeOK
<1>2. doubtful' = IF pc \in {"uncache", "cacheadd"} /\ pc' # pc
                  THEN doubtful \ {cursor}
                  ELSE IF pc' = "uncache" THEN doubtful
                  ELSE doubtful \cup (Gone \cap DOMAIN cache)
    BY DEF Index
<1>3. doubtful' \subseteq Nat
    BY <1>1, <1>2 DEF IsTable
<1>4. CASE Start
    BY <1>1, <1>3, <1>4, LoadFacts DEF Start, StaleOnlyByRace, Stored
<1>5. CASE Commit
    <2>1. pc = "commit" /\ pc' = "cacheadd" /\ blocks' = Put(blocks, cursor, fetched)
          /\ UNCHANGED <<cache, cursor, fetched>>
        BY <1>5 DEF Commit
    <2>2. Stored(cursor, fetched)'
        BY <2>1 DEF Put, Stored
    <2>3. StaleOnlyByRace'
        BY <1>1, <1>2, <2>1 DEF StaleOnlyByRace, Stored, Gone
    <2> QED
        BY <1>3, <2>2, <2>3
<1>6. CASE CacheAdd
    BY <1>1, <1>2, <1>3, <1>6, AddFacts DEF CacheAdd, StaleOnlyByRace, Stored
<1>7. CASE RollbackBlock
    BY <1>1, <1>2, <1>3, <1>7 DEF RollbackBlock, StaleOnlyByRace, Stored, Drop
<1>8. CASE Uncache
    BY <1>1, <1>2, <1>3, <1>8, RemoveFacts DEF Uncache, StaleOnlyByRace, Stored
<1>9. CASE ReorgNotified \/ Notified \/ NotifyRaises
    <2>1. /\ UNCHANGED blocks /\ pc \in {"notify", "reorgNotify"}
          /\ pc' \notin {"uncache", "cacheadd"}
          /\ GetHeader(blocks, cursor) \/ GetHeader(blocks, ancestor)
        BY <1>9 DEF ReorgNotified, Notified, NotifyRaises
    <2>2. \A h \in DOMAIN cache' :
              \/ h \in DOMAIN cache /\ cache'[h] = cache[h]
              \/ h \in DOMAIN blocks /\ cache'[h] = blocks[h]
        BY <2>1, GetFacts
    <2> QED
        BY <1>1, <1>2, <1>3, <2>1, <2>2 DEF StaleOnlyByRace, Stored
<1>10. CASE CommitRaises \/ RollbackRaises
    <2>1. /\ UNCHANGED cache /\ pc \in {"commit", "rollback"} /\ pc' = "sleep"
        BY <1>10 DEF CommitRaises, RollbackRaises
    <2> QED
        BY <1>1, <1>2, <1>3, <2>1 DEF StaleOnlyByRace, Stored, Gone
<1>11. CASE NodeMoves \/ UNCHANGED vars
    <2>1. UNCHANGED <<cache, blocks, pc, cursor, fetched>>
        BY <1>11 DEF NodeMoves, vars
    <2> QED
        BY <1>1, <1>2, <1>3, <2>1 DEF StaleOnlyByRace, Stored
<1>12. CASE /\ UNCHANGED <<cache, blocks>>
            /\ pc \notin {"uncache", "cacheadd"} /\ pc' \notin {"uncache", "cacheadd"}
    BY <1>1, <1>2, <1>3, <1>12 DEF StaleOnlyByRace, Stored
<1>13. CASE Poll \/ TipAgrees \/ TipDiffers \/ WalkExceeded \/ WalkGenesis \/ WalkFound
            \/ WalkBack \/ HandleReorg \/ FinishReorg
    BY <1>12, <1>13
    DEF Poll, TipAgrees, TipDiffers, WalkExceeded, WalkGenesis, WalkFound, WalkBack,
        WalkDone, StepBack, HandleReorg, FinishReorg
<1>14. CASE StartBatch \/ CaughtUp \/ Fetch \/ FetchMissing \/ Wake
            \/ RpcRaises \/ TipRpcRaises \/ WalkRpcRaises \/ ReadRaises
    BY <1>12, <1>14
    DEF StartBatch, CaughtUp, Fetch, FetchMissing, Wake, RpcRaises, TipRpcRaises,
        WalkRpcRaises, StepBack, ReadRaises
<1> QED
    BY <1>4, <1>5, <1>6, <1>7, <1>8, <1>9, <1>10, <1>11, <1>13, <1>14
    DEF Index, Next, Work, Reorg, Sync, Fault, Crash

-----------------------------------------------------------------------------
(* The invariant holds.                                                      *)

LEMMA ReadsInvInit == ReadsInit => ReadsInv
<1> SUFFICES ASSUME ReadsInit PROVE ReadsInv
    OBVIOUS
<1>1. FrameInv /\ TypeOK
    BY FrameInvInit DEF ReadsInit, FrameInv
<1>2. \A r \in Reader : /\ at[r] = "idle" /\ next[r] = 0 /\ last[r] = 0
                        /\ got[r] = <<>> /\ row[r] = NoBlock /\ disturbed[r] = FALSE
    BY DEF ReadsInit
<1>3. <<>> \in Seq(Block) /\ Len(<<>>) = 0
    BY EmptySeq
<1>4. /\ at \in [Reader -> {"idle", "select", "row", "answer", "confirm"}]
      /\ next \in [Reader -> Nat] /\ last \in [Reader -> Nat]
      /\ got \in [Reader -> Seq(Block)]
      /\ row \in [Reader -> Block \cup {NoBlock}]
      /\ disturbed \in [Reader -> BOOLEAN]
    BY <1>3 DEF ReadsInit
<1>5. ReadsTypeOK
    <2>1. drifted \in BOOLEAN /\ doubtful \subseteq Nat
        BY DEF ReadsInit
    <2> QED
        BY <1>1, <1>2, <1>3, <1>4, <2>1, ReadsAssumption DEF ReadsTypeOK
<1>6. RequestInv
    BY <1>2 DEF RequestInv, RequestOK
<1>7. CacheReadInv
    BY <1>2 DEF ReadsInit, Init, StoreEmpty, EmptyTable, CacheReadInv, StaleOnlyByRace
<1> QED
    BY <1>1, <1>5, <1>6, <1>7 DEF ReadsInv

LEMMA ReadsInvNext ==
    ASSUME ReadsInv, [ReadsNext]_allVars
    PROVE  ReadsInv'
<1>1. CASE \E r \in Reader : Read(r)
    BY <1>1, ReadKeeps
<1>2. CASE Index
    <2>1. FrameInv'
        BY <1>2, FrameInvNext DEF ReadsInv, Index
    <2>2. RequestTyped' /\ RequestInv' /\ (pc' = "down" => \A r \in Reader : at'[r] = "idle")
        BY <1>2, IndexKeepsRequests
    <2>0. drifted' \in BOOLEAN
        BY <1>2 DEF Index
    <2>3. CASE pc' = "down"
        <3>1. Crash \/ (pc = "down" /\ UNCHANGED <<cache, blocks>>)
            BY <1>2, <2>3
            DEF Index, Next, Work, Reorg, Sync, Fault, Start, Poll, TipAgrees, TipDiffers,
                WalkExceeded, WalkGenesis, WalkFound, WalkBack, WalkDone, StepBack,
                HandleReorg, RollbackBlock, Uncache, FinishReorg, ReorgNotified,
                StartBatch, CaughtUp, Fetch, FetchMissing, Commit, CacheAdd, Notified,
                Wake, RpcRaises, TipRpcRaises, WalkRpcRaises, ReadRaises, CommitRaises,
                RollbackRaises, NotifyRaises, NodeMoves, Goto, db, store
        <3>2. cache' = EmptyTable
            BY <3>1 DEF Crash, StoreReset, ReadsInv, CacheReadInv
        <3>3. doubtful' \subseteq Nat
            BY <1>2, <2>3, <3>1
            DEF Index, Gone, Crash, ReadsInv, ReadsTypeOK, TypeOK, IsTable
        <3> QED
            BY <2>0, <2>1, <2>2, <2>3, <3>2, <3>3
            DEF ReadsInv, ReadsTypeOK, RequestTyped, FrameInv, CacheReadInv,
                StaleOnlyByRace, EmptyTable
    <2>4. CASE pc' # "down"
        BY <1>2, <2>0, <2>1, <2>2, <2>4, IndexKeepsCache
        DEF ReadsInv, ReadsTypeOK, RequestTyped, FrameInv, CacheReadInv
    <2> QED
        BY <2>3, <2>4
<1>3. CASE UNCHANGED allVars
    <2>1. FrameInv'
        BY <1>3, FrameInvNext DEF allVars, ReadsInv
    <2> QED
        BY <1>3, <2>1
        DEF allVars, vars, request, history, db, store, frame, ReadsInv, ReadsTypeOK,
            FrameInv, RequestInv, RequestOK, GotStored, Stored, CacheReadInv,
            StaleOnlyByRace
<1> QED
    BY <1>1, <1>2, <1>3 DEF ReadsNext

LEMMA ReadsHold == ReadsSpec => []ReadsInv
    BY ReadsInvInit, ReadsInvNext, PTL DEF ReadsSpec

\* No answer is longer than what was asked for, and everything has its type.
THEOREM ReadsTypeCorrect == ReadsSpec => []ReadsTypeOK
<1>1. ReadsInv => ReadsTypeOK
    BY DEF ReadsInv
<1> QED
    BY ReadsHold, <1>1, PTL

\* A stale header in the cache came there by one of the two known races,
\* however many requests fill the cache beside the indexer.
THEOREM CacheIsStaleOnlyByRace == ReadsSpec => []StaleOnlyByRace
<1>1. ReadsInv => StaleOnlyByRace
    BY DEF ReadsInv, CacheReadInv
<1> QED
    BY ReadsHold, <1>1, PTL

\* Headers next to each other in an answer are stored next to each other.
LEMMA GotLinks ==
    ASSUME ReadsInv
    PROVE  RangeLinks
<1> SUFFICES ASSUME NEW r \in Reader, ~disturbed[r], ChainLinked,
                    NEW i \in 2 .. Len(got[r])
             PROVE  Parent[got[r][i]] = got[r][i - 1]
    BY DEF RangeLinks
<1>1. RequestOK(r) /\ RequestTyped /\ IsTable(blocks)
    BY DEF ReadsInv, ReadsTypeOK, TypeOK, RequestTyped, RequestInv
<1>2. Len(got[r]) \in Nat /\ next[r] \in Nat /\ got[r] # <<>>
    BY <1>1, LenProperties, EmptySeq DEF RequestTyped
<1>3. GotStored(got[r], next[r])
    BY <1>1, <1>2 DEF RequestOK, RequestTyped
<1> DEFINE height == next[r] - Len(got[r]) + i - 1
<1>4. Stored(height, got[r][i])
    BY <1>2, <1>3 DEF GotStored
<1>5. i - 1 \in 1 .. Len(got[r]) /\ height - 1 = next[r] - Len(got[r]) + (i - 1) - 1
    BY <1>2
<1>6. Stored(height - 1, got[r][i - 1])
    BY <1>3, <1>5 DEF GotStored
<1> HIDE DEF height
<1>7. height # 0
    BY <1>1, <1>6 DEF Stored, IsTable
<1> QED
    BY <1>4, <1>6, <1>7 DEF ChainLinked, Linked, Stored

\* What block.headers returns links, although it was read height by height
\* while the indexer committed, unless a stored block went meanwhile.
THEOREM RangesLink == ReadsSpec => []RangeLinks
    BY ReadsHold, GotLinks, PTL

-----------------------------------------------------------------------------
(* The indexer beside the requests: they change nothing but the cache, so    *)
(* what SyncLoopProofs shows of the database and of the heights still holds. *)

LEMMA ReadsStep ==
    ASSUME [ReadsNext]_allVars
    PROVE  \/ [Next]_vars
           \/ (\E r \in Reader : Read(r)) /\ UNCHANGED <<nodeChain, db, tipHeight, heights, pc, frame>>
    BY DEF ReadsNext, Index, Read, AskHeaders, AskTip, Select, Fill, Missing, AskTransaction,
           Reply, SelectRaises, allVars, vars, store

\* The invariants of the heights, of the links, and of what is rolled back.
LEMMA BesideReads ==
    ASSUME ReadsInv, ReadsInv', [ReadsNext]_allVars
    PROVE  /\ HInv /\ "rollback" \notin Faults => HInv'
           /\ HInv /\ LinkInv /\ "rollback" \notin Faults /\ ReorgAt \subseteq SafePoints
                => LinkInv'
           /\ OrphanInv /\ NodeIsSteady => OrphanInv'
<1>1. CASE [Next]_vars
    BY <1>1, HInvNext, LinkInvNext, OrphanInvNext DEF ReadsInv
<1>2. CASE UNCHANGED <<nodeChain, db, tipHeight, heights, pc, frame>>
    <2>1. TypeOK'
        BY DEF ReadsInv, ReadsTypeOK
    <2>2. UNCHANGED <<nodeChain, blocks, meta, indexedHeight, pc, cursor, ancestor, steps, fetched>>
        BY <1>2 DEF db, heights, frame
    <2>3. HInv => HInv'
        BY <2>1, <2>2 DEF HInv, HeightInv, Contiguous, Behind
    <2>4. LinkInv => LinkInv'
        BY <2>2 DEF LinkInv, ChainLinked, AgreedAt
    <2>5. OrphanInv => OrphanInv'
        BY <2>2 DEF OrphanInv
    <2> QED
        BY <2>3, <2>4, <2>5
<1> QED
    BY <1>1, <1>2, ReadsStep

\* handle_reorg starts to roll back fewer than reorg_limit heights, also with
\* requests under way.
THEOREM RollbackIsBoundedBesideReads == ReadsSpec => []RollbackBounded
<1>1. ReadsInv => RollbackBounded
    BY DEF ReadsInv, FrameInv, RollbackBounded
<1> QED
    BY ReadsHold, <1>1, PTL

\* And removes no block that the node has on its active chain.
THEOREM RollbackIsJustifiedBesideReads ==
    ASSUME NodeIsSteady
    PROVE  ReadsSpec => RollbackOnlyOrphans
<1>1. ReadsInit => OrphanInv
    BY DEF ReadsInit, Init, EmptyTable, OrphanInv
<1>2. ReadsInv /\ ReadsInv' /\ OrphanInv /\ [ReadsNext]_allVars => OrphanInv'
    BY BesideReads
<1>3. ReadsInv /\ OrphanInv /\ [ReadsNext]_allVars =>
        [\A h \in DOMAIN blocks :
            h \notin DOMAIN blocks' => NodeHash(h) # blocks[h]]_vars
    BY ReadsStep, OnlyOrphans DEF ReadsInv, db
<1> QED
    BY ReadsHold, <1>1, <1>2, <1>3, PTL DEF ReadsSpec, RollbackOnlyOrphans

\* Consecutive headers of an undisturbed answer link.
AnswersLink ==
    \A r \in Reader : ~disturbed[r] =>
        \A i \in 2 .. Len(got[r]) : Parent[got[r][i]] = got[r][i - 1]

\* Where the index is one linked chain, every answer of block.headers is a
\* piece of it, unless a stored block went while it was put together.
THEOREM AnswersAreLinked ==
    ASSUME "rollback" \notin Faults, ReorgAt \subseteq SafePoints
    PROVE  ReadsSpec => []AnswersLink
<1>1. ReadsInit => HInv /\ LinkInv
    BY HInvInit, LinkInvInit DEF ReadsInit
<1>2. /\ ReadsInv /\ ReadsInv' /\ HInv /\ LinkInv /\ [ReadsNext]_allVars
            => HInv' /\ LinkInv'
    BY BesideReads
<1>3. ReadsInv /\ LinkInv => AnswersLink
    BY GotLinks DEF LinkInv, RangeLinks, AnswersLink
<1> QED
    BY ReadsHold, <1>1, <1>2, <1>3, PTL DEF ReadsSpec

-----------------------------------------------------------------------------
(* The tip height and the confirmations computed from it.                    *)

\* Unless the task rolls back, the tip height is the indexed height; while it
\* does, one header or none is still to be removed.  The walk never accepts the
\* tip it set out from, so at least one block is rolled back.
NearInv ==
    /\ pc = "down" => tipHeight = -1
    /\ pc \notin {"down", "rollback", "uncache"} => tipHeight = indexedHeight
    /\ pc = "walk" /\ steps = 0 => cursor >= 0 /\ nodeChain[cursor] # blocks[cursor]
    /\ pc = "handle" => ancestor < meta
    /\ pc = "rollback" => tipHeight = cursor \/ (tipHeight = cursor - 1 /\ cursor > ancestor)
    /\ pc = "uncache" => tipHeight \in {cursor, cursor - 1}

LEMMA NearInvNext ==
    ASSUME HInv, OrphanInv, NearInv, [Next]_vars, NodeIsSteady, "rollback" \notin Faults
    PROVE  NearInv'
<1> USE DEF NearInv, Goto, FrameGone, db, store, heights, frame
<1>1. /\ TipHeight(blocks) = meta /\ DOMAIN blocks = 0 .. meta
      /\ meta \in Int /\ tipHeight \in Int /\ indexedHeight \in Int
      /\ cursor \in Int /\ ancestor \in Int /\ steps \in Nat
      /\ meta >= -1 /\ indexedHeight >= -1 /\ HeightInv
    BY TipOfRange, SyncAssumption DEF HInv, TypeOK, HeightInv, Contiguous
<1>2. CASE Start
    BY <1>1, <1>2 DEF Start, LoadCache
<1>3. CASE Poll \/ TipAgrees \/ WalkExceeded
    BY <1>1, <1>3 DEF Poll, TipAgrees, WalkExceeded
<1>4. CASE TipDiffers
    <2>1. meta >= 0 /\ nodeChain[meta] # blocks[meta]
        BY <1>1, <1>4 DEF TipDiffers, OnNodeChain, NodeHash, OrphanInv
    <2> QED
        BY <1>1, <1>4, <2>1 DEF TipDiffers
<1>5. CASE WalkGenesis
    BY <1>1, <1>5 DEF WalkGenesis, WalkDone, HeightInv
<1>6. CASE WalkFound
    <2>1. steps # 0
        BY <1>1, <1>6 DEF WalkFound, OnNodeChain, NodeHash, OrphanInv
    <2> QED
        BY <1>1, <1>6, <2>1 DEF WalkFound, WalkDone, HeightInv
<1>7. CASE WalkBack
    BY <1>1, <1>7 DEF WalkBack, StepBack
<1>8. CASE HandleReorg
    BY <1>1, <1>8 DEF HandleReorg, HeightInv, Behind
<1>9. CASE RollbackBlock
    BY <1>1, <1>9 DEF RollbackBlock
<1>10. CASE Uncache
    BY <1>1, <1>10 DEF Uncache, RemoveFromCache
<1>11. CASE FinishReorg
    BY <1>1, <1>11 DEF FinishReorg, HeightInv
<1>12. CASE ReorgNotified \/ Notified \/ NotifyRaises
    BY <1>1, <1>12 DEF ReorgNotified, Notified, NotifyRaises, GetHeader
<1>13. CASE StartBatch \/ CaughtUp \/ Fetch \/ FetchMissing \/ Wake \/ Commit
    BY <1>1, <1>13 DEF StartBatch, CaughtUp, Fetch, FetchMissing, Wake, Commit
<1>14. CASE CacheAdd
    BY <1>1, <1>14 DEF CacheAdd, AddToCache, HeightInv
<1>15. CASE RpcRaises \/ TipRpcRaises \/ WalkRpcRaises \/ RollbackRaises
    BY <1>15 DEF RpcRaises, TipRpcRaises, WalkRpcRaises, RollbackRaises, NodeIsSteady
<1>16. CASE ReadRaises \/ CommitRaises \/ Crash
    BY <1>1, <1>16 DEF ReadRaises, CommitRaises, Crash, StoreReset
<1>17. CASE NodeMoves
    <2>1. pc \notin QuietPoints => Prefix(nodeChain, nodeChain')
        BY <1>17, SteadyNode DEF HInv, TypeOK
    <2>2. pc = "walk" /\ steps = 0 => cursor \in DOMAIN nodeChain
        BY <1>1 DEF HeightInv, OrphanInv
    <2> QED
        BY <1>1, <1>17, <2>1, <2>2 DEF NodeMoves, QuietPoints, Prefix
<1>18. CASE UNCHANGED vars
    BY <1>18 DEF vars
<1> QED
    BY <1>2, <1>3, <1>4, <1>5, <1>6, <1>7, <1>8, <1>9, <1>10, <1>11, <1>12, <1>13,
       <1>14, <1>15, <1>16, <1>17, <1>18
    DEF Next, Work, Reorg, Sync, Fault

\* Whenever the reply is computed, the tip height is the database's give or
\* take one.
LEMMA NearTip ==
    ASSUME HInv, NearInv, ReadsInv
    PROVE  ConfirmationsNearTip
<1> SUFFICES ASSUME NEW r \in Reader, at[r] = "confirm"
             PROVE  Confirmations(r) - (TipHeight(blocks) - next[r] + 1) \in -1 .. 1
    BY DEF ConfirmationsNearTip
<1>0. next[r] \in Int /\ CacheReadInv
    BY DEF ReadsInv, ReadsTypeOK
<1>1. TipHeight(blocks) = meta /\ meta \in Int /\ tipHeight \in Int /\ pc # "down"
    BY <1>0, TipOfRange DEF HInv, TypeOK, HeightInv, Contiguous, CacheReadInv
<1>2. tipHeight - meta \in -1 .. 1
    BY <1>1 DEF HInv, TypeOK, HeightInv, Behind, NearInv, PCs
<1> QED
    BY <1>0, <1>1, <1>2 DEF Confirmations

\* The confirmations in a reply are right give or take one, for every number
\* of requests and any sequence of reorganisations that the node completes
\* between polls: a stored transaction never has a negative number of them.
THEOREM ConfirmationsAreNear ==
    ASSUME NodeIsSteady, "rollback" \notin Faults
    PROVE  ReadsSpec => []ConfirmationsNearTip
<1>1. ReadsInit => HInv /\ OrphanInv /\ NearInv
    BY HInvInit
    DEF ReadsInit, Init, StoreEmpty, EmptyTable, OrphanInv, NearInv
<1>2. ReadsInv /\ ReadsInv' /\ HInv /\ OrphanInv /\ [ReadsNext]_allVars
        => HInv' /\ OrphanInv'
    BY BesideReads
<1>3. HInv /\ OrphanInv /\ NearInv /\ [ReadsNext]_allVars => NearInv'
    BY ReadsStep, NearInvNext DEF NearInv, db, heights, frame
<1>4. ReadsInv /\ HInv /\ NearInv => ConfirmationsNearTip
    BY NearTip
<1> QED
    BY ReadsHold, <1>1, <1>2, <1>3, <1>4, PTL DEF ReadsSpec
-----------------------------------------------------------------------------
(* How many headers the cache holds.  C is the set of cached heights.        *)

\* The cached heights that a fill would no longer add.
OldOf(C, tip) == {x \in C : x + CacheSize <= tip}

\* Between a cached height and the tip only CacheSize - 1 heights can be missing,
\* those right above it; and the old heights are at most half the cache's size.
WellFilled(C, tip) ==
    /\ \A x \in C : \A k \in Nat : x + CacheSize <= k /\ k <= tip => k \in C
    /\ 2 * Cardinality(OldOf(C, tip)) <= CacheSize

LEMMA SubsetSize ==
    ASSUME NEW T, IsFiniteSet(T), NEW S \in SUBSET T
    PROVE  /\ IsFiniteSet(S) /\ Cardinality(S) \in Nat /\ Cardinality(T) \in Nat
           /\ Cardinality(S) <= Cardinality(T)
    BY FS_Subset, FS_CardinalityType

LEMMA UnionSize ==
    ASSUME NEW S, NEW T, IsFiniteSet(S), IsFiniteSet(T)
    PROVE  /\ IsFiniteSet(S \cup T) /\ Cardinality(S \cup T) \in Nat
           /\ Cardinality(S) \in Nat /\ Cardinality(T) \in Nat
           /\ Cardinality(S \cup T) <= Cardinality(S) + Cardinality(T)
           /\ S \cap T = {} => Cardinality(S \cup T) = Cardinality(S) + Cardinality(T)
<1>1. /\ IsFiniteSet(S \cup T)
      /\ Cardinality(S \cup T) = Cardinality(S) + Cardinality(T) - Cardinality(S \cap T)
    BY FS_Union
<1>2. /\ Cardinality(S) \in Nat /\ Cardinality(T) \in Nat /\ Cardinality(S \cup T) \in Nat
      /\ Cardinality(S \cap T) \in Nat
    BY <1>1, FS_Intersection, FS_CardinalityType
<1>3. S \cap T = {} => Cardinality(S \cap T) = 0
    BY FS_EmptySet
<1> QED
    BY <1>1, <1>2, <1>3

\* A fill adds no old height.
LEMMA FillShape ==
    ASSUME NEW C \in SUBSET Nat, NEW tip \in Int, WellFilled(C, tip),
           NEW h \in Nat, h > tip - CacheSize
    PROVE  WellFilled(C \cup {h}, tip)
<1>1. OldOf(C \cup {h}, tip) = OldOf(C, tip)
    BY CacheAssumption DEF OldOf
<1>2. \A x \in C \cup {h} : \A k \in Nat :
          x + CacheSize <= k /\ k <= tip => k \in C \cup {h}
    BY CacheAssumption DEF WellFilled
<1> QED
    BY <1>1, <1>2 DEF WellFilled

\* remove_from_cache, at the tip or above it.
LEMMA RemoveShape ==
    ASSUME NEW C \in SUBSET Nat, IsFiniteSet(C), NEW tip \in Int, WellFilled(C, tip),
           NEW h \in {tip, tip + 1}
    PROVE  WellFilled(C \ {h}, IF h = tip THEN h - 1 ELSE tip)
<1> DEFINE low == IF h = tip THEN h - 1 ELSE tip
<1>1. OldOf(C \ {h}, low) \subseteq OldOf(C, tip) /\ IsFiniteSet(OldOf(C, tip))
    <2>1. OldOf(C, tip) \subseteq C
        BY DEF OldOf
    <2>2. OldOf(C \ {h}, low) \subseteq OldOf(C, tip)
        <3> SUFFICES ASSUME NEW x \in C, x + CacheSize <= low PROVE x + CacheSize <= tip
            BY DEF OldOf
        <3> QED
            BY CacheAssumption
    <2> QED
        BY <2>1, <2>2, SubsetSize
<1>2. /\ Cardinality(OldOf(C \ {h}, low)) <= Cardinality(OldOf(C, tip))
      /\ Cardinality(OldOf(C \ {h}, low)) \in Nat /\ Cardinality(OldOf(C, tip)) \in Nat
    BY <1>1, SubsetSize
<1>3. \A x \in C \ {h} : \A k \in Nat :
          x + CacheSize <= k /\ k <= low => k \in C \ {h}
    BY CacheAssumption DEF WellFilled
<1> QED
    BY <1>2, <1>3, CacheAssumption DEF WellFilled

\* A cache that needs no eviction: above its lowest old height there are as many
\* recent ones as there can be old ones.
LEMMA HalfOld ==
    ASSUME NEW C \in SUBSET Nat, IsFiniteSet(C), NEW tip \in Int,
           Cardinality(C) <= CacheSize,
           \A x \in C : \A k \in Nat : x + CacheSize <= k /\ k <= tip => k \in C
    PROVE  2 * Cardinality(OldOf(C, tip)) <= CacheSize
<1> DEFINE old == OldOf(C, tip)
<1>1. old \subseteq C /\ IsFiniteSet(old) /\ Cardinality(old) \in Nat
    <2>1. old \subseteq C
        BY DEF OldOf
    <2> QED
        BY <2>1, SubsetSize
<1>2. CASE old = {}
    BY <1>2, FS_EmptySet, CacheAssumption
<1>3. CASE old # {}
    <2>1. PICK m \in old : \A k \in old : m <= k
        <3>1. old \in SUBSET Nat
            BY <1>1
        <3> HIDE DEF old
        <3> QED
            BY <1>3, <3>1, LeastNatural
    <2> DEFINE bottom == m + CacheSize
               recent == bottom .. tip
               n == tip - bottom + 1
    <2>2. m \in Nat /\ bottom \in Nat /\ bottom <= tip /\ n \in Nat /\ CacheSize \in Nat
        BY <2>1, CacheAssumption DEF OldOf
    <2>3. recent \subseteq C
        BY <1>1, <2>1, <2>2
    <2>4. IsFiniteSet(recent) /\ Cardinality(recent) = n
        <3> HIDE DEF bottom
        <3> QED
            BY <2>2, FS_Interval
    <2>5. old \subseteq m .. tip - CacheSize
        <3> SUFFICES ASSUME NEW x \in old PROVE x \in m .. tip - CacheSize
            OBVIOUS
        <3>1. x \in Nat /\ m <= x /\ x + CacheSize <= tip
            BY <2>1 DEF OldOf
        <3> QED
            BY <2>2, <3>1
    <2>6. Cardinality(old) <= n
        <3>1. /\ IsFiniteSet(m .. tip - CacheSize)
              /\ Cardinality(m .. tip - CacheSize) = n
            <4>1. tip - CacheSize \in Int /\ m <= tip - CacheSize
                  /\ (tip - CacheSize) - m + 1 = n
                BY <2>2
            <4> HIDE DEF n
            <4> QED
                BY <2>2, <4>1, FS_Interval
        <3> HIDE DEF old, n
        <3> QED
            BY <2>5, <3>1, SubsetSize
    <2>7. n <= CacheSize
        <3> HIDE DEF recent, n
        <3>1. Cardinality(recent) <= Cardinality(C) /\ Cardinality(C) \in Nat
            BY <2>3, SubsetSize
        <3> QED
            BY <2>2, <2>4, <3>1
    <2>8. old \cap recent = {}
        <3>1. tip - CacheSize < bottom
            BY <2>2, <2>7
        <3> QED
            BY <2>2, <2>5, <3>1
    <2>9. Cardinality(old) + n <= Cardinality(C) /\ Cardinality(C) \in Nat
        <3> HIDE DEF old, recent, n
        <3>1. Cardinality(old \cup recent) = Cardinality(old) + n
            BY <1>1, <2>4, <2>8, UnionSize
        <3>2. old \cup recent \subseteq C
            BY <1>1, <2>3
        <3> QED
            BY <3>1, <3>2, SubsetSize
    <2>10. 2 * Cardinality(old) <= Cardinality(C)
        <3> HIDE DEF old, n, bottom
        <3> QED
            BY <1>1, <2>2, <2>6, <2>9
    <2> QED
        BY <1>1, <2>2, <2>9, <2>10
<1> QED
    BY <1>2, <1>3

\* add_to_cache, of the tip or of the height above it: when it evicts, the
\* height that goes is an old one if any is left.
LEMMA AddShape ==
    ASSUME NEW C \in SUBSET Nat, IsFiniteSet(C), NEW tip \in Int, WellFilled(C, tip),
           NEW h \in Nat, h \in {tip, tip + 1},
           NEW D, NEW o \in C \cup {h}, \A k \in C \cup {h} : o <= k,
           D = IF Cardinality(C \cup {h}) > CacheSize THEN (C \cup {h}) \ {o} ELSE C \cup {h}
    PROVE  WellFilled(D, h)
<1> DEFINE full == C \cup {h}
           old == OldOf(C, tip)
<1>1. /\ full \in SUBSET Nat /\ IsFiniteSet(full) /\ Cardinality(full) \in Nat
      /\ CacheSize \in Nat /\ o \in Nat
    <2>1. IsFiniteSet(full)
        BY FS_AddElement
    <2> QED
        BY <2>1, FS_CardinalityType, CacheAssumption
<1>2. \A x \in full : \A k \in Nat : x + CacheSize <= k /\ k <= h => k \in full
    BY <1>1 DEF WellFilled
<1>3. CASE Cardinality(full) <= CacheSize
    <2>1. D = full
        BY <1>1, <1>3
    <2> HIDE DEF full
    <2>2. 2 * Cardinality(OldOf(full, h)) <= CacheSize
        BY <1>1, <1>2, <1>3, HalfOld
    <2> QED
        BY <1>2, <2>1, <2>2 DEF WellFilled
<1>4. CASE Cardinality(full) > CacheSize
    <2>1. D = full \ {o}
        BY <1>4
    <2>2. \A x \in D : \A k \in Nat : x + CacheSize <= k /\ k <= h => k \in D
        BY <1>1, <1>2, <2>1
    <2>3. IsFiniteSet(old) /\ Cardinality(old) \in Nat /\ 2 * Cardinality(old) <= CacheSize
        <3>1. old \subseteq C
            BY DEF OldOf
        <3> QED
            BY <3>1, SubsetSize DEF WellFilled
    <2>4. CASE OldOf(D, h) = {}
        <3>1. Cardinality({}) = 0
            BY FS_EmptySet
        <3>2. 2 * Cardinality(OldOf(D, h)) <= CacheSize
            BY <1>1, <2>4, <3>1
        <3> QED
            BY <2>2, <3>2 DEF WellFilled
    <2>5. CASE OldOf(D, h) # {}
        <3>1. PICK x \in OldOf(D, h) : TRUE
            BY <2>5
        <3>2. x \in full /\ x # o /\ o < x /\ x + CacheSize <= h
            BY <1>1, <2>1, <3>1 DEF OldOf
        <3>3. o + CacheSize < h /\ o \in C
            BY <1>1, <3>2
        <3>4. o \in old /\ o # h - CacheSize
            BY <1>1, <3>3 DEF OldOf
        <3>5. OldOf(D, h) \subseteq (old \ {o}) \cup {h - CacheSize}
            <4> SUFFICES ASSUME NEW y \in D, y + CacheSize <= h, y # h - CacheSize
                         PROVE  y \in C /\ y + CacheSize <= tip /\ y # o
                BY <1>1, <2>1 DEF OldOf
            <4>1. y \in full /\ y # o /\ y \in Nat /\ y + CacheSize < h
                BY <1>1, <2>1
            <4> QED
                BY <1>1, <4>1
        <3> HIDE DEF old, full
        <3>6. /\ IsFiniteSet(old \ {o}) /\ Cardinality(old \ {o}) = Cardinality(old) - 1
            BY <2>3, <3>4, FS_RemoveElement
        <3> DEFINE rest == old \ {o}
                   entered == {h - CacheSize}
                   cover == rest \cup entered
        <3>7. IsFiniteSet(rest) /\ Cardinality(rest) + 1 = Cardinality(old)
            BY <2>3, <3>6
        <3>8. IsFiniteSet(entered) /\ Cardinality(entered) = 1
            BY FS_Singleton
        <3>10. OldOf(D, h) \subseteq cover
            BY <3>5
        <3> HIDE DEF rest, entered
        <3>11. /\ IsFiniteSet(cover) /\ Cardinality(cover) \in Nat
               /\ Cardinality(cover) <= Cardinality(old)
            BY <3>7, <3>8, UnionSize
        <3> HIDE DEF cover
        <3>12. /\ Cardinality(OldOf(D, h)) <= Cardinality(old)
               /\ Cardinality(OldOf(D, h)) \in Nat
            <4>1. /\ Cardinality(OldOf(D, h)) <= Cardinality(cover)
                  /\ Cardinality(OldOf(D, h)) \in Nat
                BY <3>10, <3>11, SubsetSize
            <4> QED
                BY <2>3, <3>11, <4>1
        <3>9. 2 * Cardinality(OldOf(D, h)) <= CacheSize
            BY <1>1, <2>3, <3>12
        <3> QED
            BY <2>2, <3>9 DEF WellFilled
    <2> QED
        BY <2>4, <2>5
<1> QED
    BY <1>1, <1>3, <1>4

\* load_cache, into an empty cache.
LEMMA LoadShape ==
    ASSUME NEW C \in SUBSET Nat, NEW tip \in Int, \A x \in C : x + CacheSize > tip
    PROVE  WellFilled(C, tip)
<1>1. OldOf(C, tip) = {}
    <2> SUFFICES ASSUME NEW x \in C, x + CacheSize <= tip PROVE FALSE
        BY DEF OldOf
    <2> QED
        BY CacheAssumption
<1>2. Cardinality({}) = 0
    BY FS_EmptySet
<1>3. ASSUME NEW x \in C, NEW k \in Nat, x + CacheSize <= k, k <= tip PROVE FALSE
    BY <1>3, CacheAssumption
<1> QED
    BY <1>1, <1>2, <1>3, CacheAssumption DEF WellFilled

\* Half the size of old heights, the size of recent ones, the height above the
\* tip, and the doubtful.
LEMMA ShapeBounds ==
    ASSUME NEW C \in SUBSET Nat, IsFiniteSet(C), NEW tip \in Int, WellFilled(C, tip),
           NEW D, IsFiniteSet(D), \A x \in C : x > tip + 1 => x \in D
    PROVE  2 * Cardinality(C) <= 3 * CacheSize + 2 + 2 * Cardinality(D)
<1> DEFINE old == OldOf(C, tip)
           recent == tip - CacheSize + 1 .. tip + 1
<1>1. /\ IsFiniteSet(old) /\ Cardinality(old) \in Nat
      /\ 2 * Cardinality(old) <= CacheSize /\ CacheSize \in Nat
    <2>1. old \subseteq C
        BY DEF OldOf
    <2> QED
        BY <2>1, SubsetSize, CacheAssumption DEF WellFilled
<1>2. IsFiniteSet(recent) /\ Cardinality(recent) = CacheSize + 1
    <2>1. /\ tip - CacheSize + 1 \in Int /\ tip + 1 \in Int
          /\ ~(tip - CacheSize + 1 > tip + 1)
          /\ (tip + 1) - (tip - CacheSize + 1) + 1 = CacheSize + 1
        BY <1>1
    <2> QED
        BY <2>1, FS_Interval
<1>3. C \subseteq (old \cup recent) \cup D
    BY <1>1 DEF OldOf
<1> HIDE DEF old, recent
<1>4. /\ IsFiniteSet(old \cup recent) /\ Cardinality(old \cup recent) \in Nat
      /\ Cardinality(old \cup recent) <= Cardinality(old) + (CacheSize + 1)
    BY <1>1, <1>2, UnionSize
<1>5. /\ IsFiniteSet((old \cup recent) \cup D) /\ Cardinality(D) \in Nat
      /\ Cardinality((old \cup recent) \cup D) <= Cardinality(old \cup recent) + Cardinality(D)
    BY <1>4, UnionSize
<1>6. /\ Cardinality(C) <= Cardinality((old \cup recent) \cup D)
      /\ Cardinality(C) \in Nat /\ Cardinality((old \cup recent) \cup D) \in Nat
    BY <1>3, <1>5, SubsetSize
<1> QED
    BY <1>1, <1>4, <1>5, <1>6
-----------------------------------------------------------------------------
(* Where the tip height is, next to the database's and to the indexer's.     *)

LEMMA TipOfPut ==
    ASSUME NEW t, IsTable(t), Bounded(t), NEW h \in Nat, NEW b \in Block
    PROVE  TipHeight(Put(t, h, b)) = IF h > TipHeight(t) THEN h ELSE TipHeight(t)
<1> DEFINE u == Put(t, h, b)
<1>1. IsTable(u) /\ Bounded(u) /\ DOMAIN u = DOMAIN t \cup {h}
    BY PutFacts, BoundedFacts
<1> HIDE DEF u
<1>2. /\ TipHeight(u) \in DOMAIN u /\ TipHeight(u) \in Int
      /\ \A k \in DOMAIN u : k <= TipHeight(u)
    BY <1>1, TipFacts
<1>3. /\ TipHeight(t) \in Int /\ TipHeight(t) >= -1
      /\ TipHeight(t) >= 0 => TipHeight(t) \in DOMAIN t
      /\ \A k \in DOMAIN t : k <= TipHeight(t)
    BY TipFacts
<1>4. TipHeight(u) = IF h > TipHeight(t) THEN h ELSE TipHeight(t)
    BY <1>1, <1>2, <1>3
<1> QED
    BY <1>4 DEF u

LEMMA TipOfDrop ==
    ASSUME NEW t, IsTable(t), Bounded(t), NEW h \in Nat
    PROVE  /\ TipHeight(Drop(t, h)) \in Int
           /\ TipHeight(Drop(t, h)) <= TipHeight(t)
           /\ h >= TipHeight(t) => TipHeight(Drop(t, h)) < h
<1> DEFINE u == Drop(t, h)
<1>1. IsTable(u) /\ Bounded(u) /\ DOMAIN u = DOMAIN t \ {h}
    BY DropFacts, BoundedFacts
<1> HIDE DEF u
<1>2. /\ TipHeight(u) \in Int /\ TipHeight(u) >= -1
      /\ TipHeight(u) >= 0 => TipHeight(u) \in DOMAIN u
    BY <1>1, TipFacts
<1>3. /\ TipHeight(t) \in Int /\ TipHeight(t) >= -1
      /\ \A k \in DOMAIN t : k <= TipHeight(t)
    BY TipFacts
<1>4. /\ TipHeight(u) \in Int /\ TipHeight(u) <= TipHeight(t)
      /\ h >= TipHeight(t) => TipHeight(u) < h
    BY <1>1, <1>2, <1>3
<1> QED
    BY <1>4 DEF u

\* Whatever fails, and whatever gaps that leaves: the database is at most a
\* block above the indexer, and a rollback starts at the database's tip.
TipsInv ==
    /\ pc = "down" => tipHeight = -1
    /\ TipHeight(blocks) <= meta
    /\ pc # "down" => TipHeight(blocks) <= indexedHeight + 1
    /\ pc \in {"fetch", "commit", "cacheadd"} => cursor = indexedHeight + 1
    /\ pc = "notify" => cursor = indexedHeight
    /\ pc = "rollback" => cursor >= TipHeight(blocks)
    /\ pc = "uncache" => cursor > TipHeight(blocks)

LEMMA TipsInvNext ==
    ASSUME FrameInv, TipsInv, [Next]_vars
    PROVE  TipsInv'
<1> USE DEF TipsInv, Goto, FrameGone, db, store, heights, frame
<1>1. /\ IsTable(blocks) /\ Bounded(blocks) /\ TipHeight(blocks) \in Int
      /\ meta \in Int /\ indexedHeight \in Int /\ cursor \in Int /\ ancestor \in Int
      /\ TipHeight(blocks) >= -1 /\ indexedHeight >= -1
      /\ pc \in {"handle", "rollback", "uncache", "reorgNotify"} => ancestor >= -1
      /\ pc \in {"commit", "cacheadd"} => cursor \in Nat /\ fetched \in Block
    BY TipFacts DEF FrameInv, TypeOK
<1>2. UNCHANGED blocks => TipHeight(blocks') = TipHeight(blocks)
    OBVIOUS
<1>3. CASE Start
    BY <1>1, <1>2, <1>3 DEF Start
<1>4. CASE HandleReorg
    BY <1>1, <1>2, <1>4 DEF HandleReorg
<1>5. ASSUME pc = "rollback", cursor > ancestor, NEW t, t = Drop(blocks, cursor)
      PROVE  TipHeight(t) \in Int /\ TipHeight(t) < cursor /\ TipHeight(t) <= TipHeight(blocks)
    <2>1. cursor \in Nat
        BY <1>1, <1>5
    <2> QED
        BY <1>1, <1>5, <2>1, TipOfDrop
<1>6. CASE RollbackBlock
    BY <1>1, <1>5, <1>6 DEF RollbackBlock
<1>7. CASE RollbackRaises
    BY <1>1, <1>2, <1>5, <1>7 DEF RollbackRaises
<1>8. CASE Uncache
    BY <1>1, <1>2, <1>8 DEF Uncache
<1>9. CASE FinishReorg
    BY <1>1, <1>2, <1>9 DEF FinishReorg
<1>10. ASSUME pc = "commit", NEW t, t = Put(blocks, cursor, fetched)
       PROVE  TipHeight(t) = cursor
    <2>1. TipHeight(t) = IF cursor > TipHeight(blocks) THEN cursor ELSE TipHeight(blocks)
        BY <1>1, <1>10, TipOfPut
    <2> QED
        BY <1>1, <1>10, <2>1
<1>11. CASE Commit
    BY <1>1, <1>10, <1>11 DEF Commit
<1>12. CASE CommitRaises
    BY <1>1, <1>2, <1>10, <1>12 DEF CommitRaises
<1>13. CASE CacheAdd
    BY <1>1, <1>2, <1>13 DEF CacheAdd
<1>14. CASE Notified
    BY <1>1, <1>2, <1>14 DEF Notified, GetHeader
<1>15. CASE Poll \/ TipAgrees \/ TipDiffers \/ WalkExceeded \/ WalkGenesis \/ WalkFound
            \/ WalkBack \/ ReorgNotified
    BY <1>1, <1>2, <1>15
    DEF Poll, TipAgrees, TipDiffers, WalkExceeded, WalkGenesis, WalkFound, WalkBack,
        WalkDone, StepBack, ReorgNotified
<1>16. CASE StartBatch \/ CaughtUp \/ Fetch \/ FetchMissing \/ Wake
    BY <1>1, <1>2, <1>16 DEF StartBatch, CaughtUp, Fetch, FetchMissing, Wake
<1>17. CASE RpcRaises \/ TipRpcRaises \/ WalkRpcRaises \/ ReadRaises \/ NotifyRaises
    BY <1>1, <1>2, <1>17
    DEF RpcRaises, TipRpcRaises, WalkRpcRaises, StepBack, ReadRaises, NotifyRaises
<1>18. CASE Crash
    BY <1>1, <1>2, <1>18 DEF Crash, StoreReset
<1>19. CASE NodeMoves \/ UNCHANGED vars
    BY <1>1, <1>2, <1>19 DEF NodeMoves, vars
<1> QED
    BY <1>3, <1>4, <1>6, <1>7, <1>8, <1>9, <1>11, <1>12, <1>13, <1>14, <1>15, <1>16,
       <1>17, <1>18, <1>19
    DEF Next, Work, Reorg, Sync, Fault

\* As long as the tip height is off by one at most it is not ahead of the
\* indexer by more, and what a rollback uncaches is the tip or just above it.
TipNear ==
    ~drifted /\ pc # "down" =>
        /\ TipHeight(blocks) - tipHeight \in -1 .. 1
        /\ tipHeight <= indexedHeight + 1
        /\ pc \in {"rollback", "uncache"} => cursor <= tipHeight + 1

\* What the indexer adds or removes is the tip, or the height above it.
LEMMA AtTheTip ==
    ASSUME ReadsInv, TipsInv, TipNear, ~drifted, pc \in {"uncache", "cacheadd"}
    PROVE  cursor \in {tipHeight, tipHeight + 1}
<1>1. /\ IsTable(blocks) /\ Bounded(blocks) /\ tipHeight \in Int /\ cursor \in Int
      /\ TipHeight(blocks) \in Int /\ \A h \in DOMAIN blocks : h <= TipHeight(blocks)
      /\ indexedHeight \in Int /\ CacheReadInv
    BY TipFacts DEF ReadsInv, FrameInv, TypeOK
<1>2. /\ TipHeight(blocks) - tipHeight \in -1 .. 1
      /\ tipHeight <= indexedHeight + 1
      /\ pc = "uncache" => cursor <= tipHeight + 1
    BY DEF TipNear
<1>3. CASE pc = "uncache"
    BY <1>1, <1>2, <1>3 DEF TipsInv
<1>4. CASE pc = "cacheadd"
    <2>1. cursor <= TipHeight(blocks)
        BY <1>1, <1>4 DEF CacheReadInv, Stored
    <2> QED
        BY <1>1, <1>2, <1>4, <2>1 DEF TipsInv
<1> QED
    BY <1>3, <1>4

LEMMA TipNearNext ==
    ASSUME ReadsInv, TipsInv, TipNear, Index
    PROVE  TipNear'
<1> USE DEF Goto, FrameGone, db, store, heights, frame
<1> SUFFICES ASSUME ~drifted', pc' # "down"
             PROVE  /\ TipHeight(blocks') - tipHeight' \in -1 .. 1
                    /\ tipHeight' <= indexedHeight' + 1
                    /\ pc' \in {"rollback", "uncache"} => cursor' <= tipHeight' + 1
    BY DEF TipNear
<1>1. ~drifted /\ TipHeight(blocks') - tipHeight' \in -1 .. 1 /\ Next
    BY DEF Index
<1>2. /\ TipHeight(blocks) \in Int /\ tipHeight \in Int /\ cursor \in Int
      /\ indexedHeight \in Int /\ ancestor \in Int /\ meta \in Int /\ meta >= -1
    BY TipFacts DEF ReadsInv, FrameInv, TypeOK
<1>3. pc # "down" =>
          /\ TipHeight(blocks) - tipHeight \in -1 .. 1
          /\ tipHeight <= indexedHeight + 1
          /\ pc \in {"rollback", "uncache"} => cursor <= tipHeight + 1
    BY <1>1 DEF TipNear
<1>4. pc \in {"uncache", "cacheadd"} => cursor \in {tipHeight, tipHeight + 1}
    BY <1>1, AtTheTip
<1>5. CASE Start
    BY <1>1, <1>2, <1>5 DEF Start, LoadCache, TipsInv
<1>6. CASE HandleReorg
    BY <1>1, <1>2, <1>3, <1>6 DEF HandleReorg
<1>7. CASE RollbackBlock
    BY <1>1, <1>2, <1>3, <1>7 DEF RollbackBlock
<1>8. CASE Uncache
    BY <1>1, <1>2, <1>3, <1>4, <1>8 DEF Uncache, RemoveFromCache
<1>9. CASE FinishReorg
    BY <1>1, <1>2, <1>3, <1>9 DEF FinishReorg, TipsInv
<1>10. CASE CacheAdd
    BY <1>1, <1>2, <1>3, <1>4, <1>10 DEF CacheAdd, AddToCache
<1>11. CASE ReorgNotified \/ Notified \/ NotifyRaises
    BY <1>1, <1>2, <1>3, <1>11 DEF ReorgNotified, Notified, NotifyRaises, GetHeader
<1>12. CASE /\ UNCHANGED <<tipHeight, indexedHeight>> /\ pc # "down"
            /\ pc' \notin {"rollback", "uncache"} \/ UNCHANGED <<pc, cursor>>
    BY <1>1, <1>2, <1>3, <1>12
<1>13. CASE Poll \/ TipAgrees \/ TipDiffers \/ WalkExceeded \/ WalkGenesis \/ WalkFound
            \/ WalkBack
    BY <1>12, <1>13
    DEF Poll, TipAgrees, TipDiffers, WalkExceeded, WalkGenesis, WalkFound, WalkBack,
        WalkDone, StepBack
<1>14. CASE StartBatch \/ CaughtUp \/ Fetch \/ FetchMissing \/ Wake \/ Commit
    BY <1>12, <1>14 DEF StartBatch, CaughtUp, Fetch, FetchMissing, Wake, Commit
<1>15. CASE RpcRaises \/ TipRpcRaises \/ WalkRpcRaises \/ ReadRaises \/ CommitRaises
            \/ RollbackRaises
    BY <1>12, <1>15
    DEF RpcRaises, TipRpcRaises, WalkRpcRaises, StepBack, ReadRaises, CommitRaises,
        RollbackRaises
<1>16. CASE NodeMoves
    BY <1>12, <1>16 DEF NodeMoves
<1> QED
    BY <1>1, <1>5, <1>6, <1>7, <1>8, <1>9, <1>10, <1>11, <1>13, <1>14, <1>15, <1>16
    DEF Next, Work, Reorg, Sync, Fault, Crash
-----------------------------------------------------------------------------
(* The bound on the cache.                                                   *)

ShapeInv ==
    /\ IsFiniteSet(DOMAIN cache) /\ IsFiniteSet(doubtful)
    /\ ~drifted => WellFilled(DOMAIN cache, tipHeight)

\* A fill by a request, or by the indexer's own callback.
LEMMA FillKeepsShape ==
    ASSUME NEW C \in SUBSET Nat, IsFiniteSet(C), NEW D, NEW tip \in Int, NEW h,
           D = C \/ (D = C \cup {h} /\ h \in Nat /\ h > tip - CacheSize)
    PROVE  IsFiniteSet(D) /\ (WellFilled(C, tip) => WellFilled(D, tip))
    BY FS_AddElement, FillShape

LEMMA ReadKeepsShape ==
    ASSUME ReadsInv, ShapeInv, NEW r \in Reader, Read(r)
    PROVE  ShapeInv'
<1>1. /\ DOMAIN cache \in SUBSET Nat /\ tipHeight \in Int /\ next[r] \in Nat
      /\ IsFiniteSet(DOMAIN cache) /\ IsFiniteSet(doubtful)
    BY DEF ReadsInv, ReadsTypeOK, TypeOK, IsTable, ShapeInv
<1>2. CASE Fill(r)
    <2>1. /\ \/ DOMAIN cache' = DOMAIN cache
             \/ DOMAIN cache' = DOMAIN cache \cup {next[r]} /\ next[r] > tipHeight - CacheSize
          /\ UNCHANGED <<tipHeight, drifted>>
          /\ doubtful' \in {doubtful, doubtful \ {next[r]}, doubtful \cup {next[r]}}
        BY <1>2 DEF Fill, Recent, Put
    <2>2. IsFiniteSet(doubtful')
        BY <1>1, <2>1, FS_AddElement, FS_RemoveElement
    <2>3. /\ IsFiniteSet(DOMAIN cache')
          /\ WellFilled(DOMAIN cache, tipHeight) => WellFilled(DOMAIN cache', tipHeight)
        BY <1>1, <2>1, FillKeepsShape
    <2> QED
        BY <2>1, <2>2, <2>3 DEF ShapeInv
<1>3. CASE UNCHANGED <<cache, tipHeight, doubtful, drifted>>
    BY <1>3 DEF ShapeInv
<1> QED
    BY <1>2, <1>3
    DEF Read, AskHeaders, AskTip, Select, Missing, AskTransaction, Reply, SelectRaises,
        vars, store, history

\* The least cached height is the one that add_to_cache evicts.
LEMMA OldestFacts ==
    ASSUME NEW t, IsTable(t), DOMAIN t # {}
    PROVE  Oldest(t) \in DOMAIN t /\ \A k \in DOMAIN t : Oldest(t) <= k
<1>1. \E h \in DOMAIN t : \A k \in DOMAIN t : h <= k
    BY LeastNatural DEF IsTable
<1> QED
    BY <1>1 DEF Oldest

LEMMA IndexKeepsShape ==
    ASSUME ReadsInv, ReadsInv', TipsInv, TipNear, ShapeInv, Index
    PROVE  ShapeInv'
<1> USE DEF Goto, FrameGone, db, store, heights, frame
<1>1. /\ DOMAIN cache \in SUBSET Nat /\ tipHeight \in Int /\ cursor \in Int
      /\ IsTable(cache) /\ IsTable(blocks) /\ CacheSize \in Nat
      /\ pc = "cacheadd" => cursor \in Nat
      /\ pc = "down" => cache = EmptyTable
      /\ pc' = "down" => cache' = EmptyTable
      /\ TipHeight(blocks) \in Int
      /\ IsFiniteSet(DOMAIN cache) /\ IsFiniteSet(doubtful) /\ Next
    <2>1. TypeOK /\ Bounded(blocks) /\ ShapeInv /\ CacheReadInv /\ CacheReadInv' /\ FrameInv
        BY DEF ReadsInv, FrameInv
    <2>2. IsTable(blocks) /\ TipHeight(blocks) \in Int
        BY <2>1, TipFacts DEF TypeOK
    <2>3. DOMAIN cache \in SUBSET Nat /\ IsTable(cache) /\ cursor \in Int /\ tipHeight \in Int
        BY <2>1 DEF TypeOK, IsTable
    <2> QED
        BY <2>1, <2>2, <2>3, CacheAssumption DEF FrameInv, CacheReadInv, ShapeInv, Index
<1>2. ~drifted' /\ pc' # "down" => ~drifted
    BY DEF Index
<1>3. IsFiniteSet(doubtful')
    <2>1. IsFiniteSet(doubtful \ {cursor})
        BY <1>1, FS_RemoveElement, FS_Subset
    <2>2. IsFiniteSet(doubtful \cup (Gone \cap DOMAIN cache)) /\ IsFiniteSet({})
        BY <1>1, FS_Union, FS_Subset, FS_EmptySet
    <2> QED
        BY <1>1, <2>1, <2>2 DEF Index
<1>4. CASE pc' = "down"
    <2>1. DOMAIN cache' = {}
        BY <1>1, <1>4 DEF EmptyTable
    <2>2. tipHeight' \in Int
        BY DEF ReadsInv, ReadsTypeOK, TypeOK
    <2>3. WellFilled({}, tipHeight')
        BY <2>2, LoadShape
    <2> QED
        BY <1>3, <2>1, <2>3, FS_EmptySet DEF ShapeInv
<1>5. ASSUME IsFiniteSet(DOMAIN cache'),
             ~drifted /\ WellFilled(DOMAIN cache, tipHeight) => WellFilled(DOMAIN cache', tipHeight'),
             pc' # "down"
      PROVE  ShapeInv'
    BY <1>2, <1>3, <1>5 DEF ShapeInv
<1>6. CASE pc' # "down" /\ Start
    <2> DEFINE low == IF TipHeight(blocks) - CacheSize + 1 > 0
                      THEN TipHeight(blocks) - CacheSize + 1 ELSE 0
    <2>1. DOMAIN cache = {}
        BY <1>1, <1>6 DEF Start, EmptyTable
    <2>2. CASE UNCHANGED <<cache, tipHeight>>
        BY <1>1, <1>5, <1>6, <2>2
    <2>3. CASE ~UNCHANGED <<cache, tipHeight>>
        <3>1. /\ tipHeight' = TipHeight(blocks)
              /\ DOMAIN cache' = {h \in DOMAIN blocks : low <= h /\ h < low + CacheSize}
            BY <1>6, <2>1, <2>3 DEF Start, LoadCache
        <3>2. low \in Nat
            BY <1>1
        <3> HIDE DEF low
        <3>3. IsFiniteSet(DOMAIN cache')
            <4>1. DOMAIN cache' \subseteq low .. low + CacheSize
                BY <1>1, <3>1, <3>2 DEF IsTable
            <4>2. IsFiniteSet(low .. low + CacheSize)
                BY <1>1, <3>2, FS_Interval
            <4> QED
                BY <4>1, <4>2, FS_Subset
        <3>4. WellFilled(DOMAIN cache', tipHeight')
            <4>1. DOMAIN cache' \in SUBSET Nat /\ \A x \in DOMAIN cache' : x + CacheSize > tipHeight'
                BY <1>1, <3>1, <3>2 DEF IsTable, low
            <4> QED
                BY <1>1, <3>1, <4>1, LoadShape
        <3> QED
            BY <1>5, <1>6, <3>3, <3>4
    <2> QED
        BY <2>2, <2>3
<1>7. CASE pc' # "down" /\ CacheAdd
    <2> DEFINE full == Put(cache, cursor, fetched)
               oldest == Oldest(full)
    <2>1. /\ DOMAIN full = DOMAIN cache \cup {cursor} /\ DOMAIN full # {}
          /\ cursor \in Nat /\ IsTable(full)
        <3>1. fetched \in Block /\ cursor \in Nat
            BY <1>1, <1>7 DEF CacheAdd, ReadsInv, FrameInv
        <3>2. DOMAIN full = DOMAIN cache \cup {cursor} /\ IsTable(full)
            BY <1>1, <3>1, PutFacts
        <3> QED
            BY <3>1, <3>2
    <2>2. oldest \in DOMAIN full /\ \A k \in DOMAIN full : oldest <= k
        BY <2>1, OldestFacts
    <2>3. /\ DOMAIN cache' = IF Cardinality(DOMAIN full) > CacheSize
                             THEN DOMAIN full \ {oldest} ELSE DOMAIN full
          /\ tipHeight' = IF cursor > tipHeight THEN cursor ELSE tipHeight
        BY <1>7 DEF CacheAdd, AddToCache, Drop
    <2>4. IsFiniteSet(DOMAIN cache')
        <3> HIDE DEF full, oldest
        <3>1. IsFiniteSet(DOMAIN full) /\ DOMAIN cache' \subseteq DOMAIN full
            BY <1>1, <2>1, <2>3, FS_AddElement
        <3> QED
            BY <3>1, FS_Subset
    <2>5. ASSUME ~drifted, WellFilled(DOMAIN cache, tipHeight)
          PROVE  WellFilled(DOMAIN cache', tipHeight')
        <3>1. cursor \in {tipHeight, tipHeight + 1}
            BY <1>7, <2>5, AtTheTip DEF CacheAdd
        <3>2. tipHeight' = cursor
            BY <1>1, <2>3, <3>1
        <3> HIDE DEF full, oldest
        <3>3. WellFilled(DOMAIN cache', cursor)
            BY <1>1, <2>1, <2>2, <2>3, <2>5, <3>1, AddShape
        <3> QED
            BY <3>2, <3>3
    <2> QED
        BY <1>5, <1>7, <2>4, <2>5
<1>8. CASE pc' # "down" /\ Uncache
    <2>1. /\ DOMAIN cache' = DOMAIN cache \ {cursor} /\ pc = "uncache"
          /\ tipHeight' = IF cursor = tipHeight THEN cursor - 1 ELSE tipHeight
        BY <1>8 DEF Uncache, RemoveFromCache, Drop
    <2>2. IsFiniteSet(DOMAIN cache')
        BY <1>1, <2>1, FS_Subset
    <2>3. ASSUME ~drifted, WellFilled(DOMAIN cache, tipHeight)
          PROVE  WellFilled(DOMAIN cache', tipHeight')
        BY <1>1, <2>1, <2>3, AtTheTip, RemoveShape
    <2> QED
        BY <1>5, <1>8, <2>2, <2>3
<1>9. CASE pc' # "down" /\ (ReorgNotified \/ Notified \/ NotifyRaises)
    <2>1. PICK h \in {cursor, ancestor} : GetHeader(blocks, h)
        BY <1>9 DEF ReorgNotified, Notified, NotifyRaises
    <2>2. /\ UNCHANGED tipHeight
          /\ \/ DOMAIN cache' = DOMAIN cache
             \/ /\ DOMAIN cache' = DOMAIN cache \cup {h}
                /\ h \in Nat /\ h > tipHeight - CacheSize
        BY <1>1, <2>1 DEF GetHeader, Put, IsTable
    <2>3. /\ IsFiniteSet(DOMAIN cache')
          /\ WellFilled(DOMAIN cache, tipHeight) => WellFilled(DOMAIN cache', tipHeight)
        BY <1>1, <2>2, FillKeepsShape
    <2> QED
        BY <1>5, <1>9, <2>2, <2>3
<1>10. CASE pc' # "down" /\ UNCHANGED <<cache, tipHeight>>
    BY <1>1, <1>5, <1>10
<1> QED
    BY <1>1, <1>4, <1>6, <1>7, <1>8, <1>9, <1>10
    DEF Next, Work, Reorg, Sync, Fault, Crash, NodeMoves, Poll, TipAgrees, TipDiffers,
        WalkExceeded, WalkGenesis, WalkFound, WalkBack, WalkDone, StepBack, HandleReorg,
        RollbackBlock, FinishReorg, StartBatch, CaughtUp, Fetch, FetchMissing, Commit,
        Wake, RpcRaises, TipRpcRaises, WalkRpcRaises, ReadRaises, CommitRaises,
        RollbackRaises

CacheSizeInv == TipsInv /\ TipNear /\ ShapeInv

LEMMA CacheSizeInvNext ==
    ASSUME ReadsInv, ReadsInv', CacheSizeInv, [ReadsNext]_allVars
    PROVE  CacheSizeInv'
<1> USE DEF CacheSizeInv
<1>1. CASE Index
    <2>1. TipsInv'
        BY <1>1, TipsInvNext DEF Index, ReadsInv
    <2> QED
        BY <1>1, <2>1, TipNearNext, IndexKeepsShape
<1>2. CASE \E r \in Reader : Read(r)
    <2>1. PICK r \in Reader : Read(r)
        BY <1>2
    <2>2. UNCHANGED <<blocks, meta, tipHeight, indexedHeight, pc, cursor, drifted>>
        BY <2>1
        DEF Read, AskHeaders, AskTip, Select, Fill, Missing, AskTransaction, Reply,
            SelectRaises, history, vars, db, store, heights, frame
    <2>3. TipsInv' /\ TipNear'
        BY <2>2 DEF TipsInv, TipNear
    <2> QED
        BY <2>1, <2>3, ReadKeepsShape
<1>3. CASE UNCHANGED allVars
    BY <1>3
    DEF TipsInv, TipNear, ShapeInv, allVars, history, vars, db, store, heights, frame
<1> QED
    BY <1>1, <1>2, <1>3 DEF ReadsNext

LEMMA SizeBounded ==
    ASSUME ReadsInv, CacheSizeInv
    PROVE  CacheBounded
<1> SUFFICES ASSUME ~drifted
             PROVE  2 * Cardinality(DOMAIN cache) <=
                        3 * CacheSize + 2 + 2 * Cardinality(doubtful)
    BY DEF CacheBounded
<1>1. /\ DOMAIN cache \in SUBSET Nat /\ IsFiniteSet(DOMAIN cache) /\ tipHeight \in Int
      /\ WellFilled(DOMAIN cache, tipHeight) /\ IsFiniteSet(doubtful)
      /\ IsTable(blocks) /\ Bounded(blocks) /\ cursor \in Int /\ CacheReadInv
    BY DEF ReadsInv, FrameInv, TypeOK, IsTable, CacheSizeInv, ShapeInv
<1>2. ASSUME NEW x \in DOMAIN cache, x > tipHeight + 1 PROVE x \in doubtful
    <2>1. pc # "down"
        BY <1>1 DEF CacheReadInv, EmptyTable
    <2>2. TipHeight(blocks) <= tipHeight + 1 /\ (pc = "uncache" => cursor <= tipHeight + 1)
        <3>1. TipHeight(blocks) \in Int
            BY <1>1, TipFacts
        <3> QED
            BY <1>1, <2>1, <3>1 DEF CacheSizeInv, TipNear
    <2>3. x \in DOMAIN blocks => x <= TipHeight(blocks) /\ TipHeight(blocks) \in Int
        BY <1>1, TipFacts
    <2>4. x \notin DOMAIN blocks /\ ~(pc = "uncache" /\ x = cursor)
        BY <1>1, <1>2, <2>2, <2>3
    <2> QED
        BY <1>1, <2>4 DEF CacheReadInv, StaleOnlyByRace, Stored
<1> QED
    BY <1>1, <1>2, ShapeBounds

\* The header cache outgrows its size by half at most, by the block being
\* committed, and by the headers that outlived the rollback of their blocks:
\* for every size, every number of requests and whatever calls fail, as long as
\* the tip height keeps up with the database.
THEOREM CacheIsBounded == ReadsSpec => []CacheBounded
<1>1. ReadsInit => CacheSizeInv
    <2> SUFFICES ASSUME ReadsInit PROVE CacheSizeInv
        OBVIOUS
    <2>1. /\ DOMAIN cache = {} /\ DOMAIN blocks = {} /\ doubtful = {}
          /\ tipHeight = -1 /\ meta = -1 /\ pc = "down"
        BY DEF ReadsInit, Init, StoreEmpty, EmptyTable
    <2>2. TipHeight(blocks) = -1
        BY <2>1 DEF TipHeight
    <2>3. WellFilled({}, -1)
        BY LoadShape
    <2> QED
        BY <2>1, <2>2, <2>3, FS_EmptySet DEF CacheSizeInv, TipsInv, TipNear, ShapeInv
<1>2. ReadsInv /\ ReadsInv' /\ CacheSizeInv /\ [ReadsNext]_allVars => CacheSizeInv'
    BY CacheSizeInvNext
<1>3. ReadsInv /\ CacheSizeInv => CacheBounded
    BY SizeBounded
<1> QED
    BY ReadsHold, <1>1, <1>2, <1>3, PTL DEF ReadsSpec

\* With no failed rollback the tip height always keeps up.
LEMMA NeverDrifts ==
    ASSUME HInv, HInv', NearInv', ReadsInv', ~drifted, [ReadsNext]_allVars
    PROVE  ~drifted'
<1>1. /\ TipHeight(blocks') = meta' /\ meta' \in Int /\ tipHeight' \in Int
      /\ indexedHeight' \in Int /\ cursor' \in Int /\ ancestor' \in Int /\ pc' \in PCs
    <2>1. (TipHeight(blocks) = meta)' /\ TypeOK'
        BY TipOfRange DEF HInv, HeightInv, TypeOK, Contiguous
    <2> QED
        BY <2>1 DEF TypeOK
<1>2. pc' # "down" => TipHeight(blocks') - tipHeight' \in -1 .. 1
    <2> DEFINE m == meta'
               t == tipHeight'
               i == indexedHeight'
               c == cursor'
    <2>1. TipHeight(blocks') = m /\ m \in Int /\ t \in Int /\ i \in Int /\ c \in Int
        BY <1>1
    <2>2. CASE pc' \in {"rollback", "uncache"}
        <3>1. c = m \/ c = m + 1
            BY <2>2 DEF HInv, HeightInv
        <3>2. t = c \/ t = c - 1
            BY <2>2 DEF NearInv
        <3> HIDE DEF m, t, i, c
        <3>3. m - t \in -1 .. 1
            BY ONLY <2>1, <3>1, <3>2
        <3> QED
            BY <2>1, <3>3 DEF t
    <2>3. CASE pc' \notin {"down", "rollback", "uncache"}
        <3>1. t = i
            BY <2>3 DEF NearInv
        <3>2. m = i \/ m = i + 1
            <4>1. CASE pc' \in {"cacheadd", "notify", "reorgNotify"}
                BY <1>1, <4>1 DEF HInv, HeightInv
            <4>2. CASE pc' \in {"top", "tip", "walk", "handle", "decide", "sleep", "fetch",
                                "commit"}
                BY <4>2 DEF HInv, HeightInv, Behind
            <4> QED
                BY <1>1, <2>3, <4>1, <4>2 DEF PCs
        <3> HIDE DEF m, t, i, c
        <3>3. m - t \in -1 .. 1
            BY ONLY <2>1, <3>1, <3>2
        <3> QED
            BY <2>1, <3>3 DEF t
    <2> QED
        BY <2>2, <2>3
<1>3. CASE Index
    BY <1>2, <1>3 DEF Index
<1>4. CASE UNCHANGED drifted
    BY <1>4
<1> QED
    BY <1>3, <1>4
    DEF ReadsNext, Read, AskHeaders, AskTip, Select, Fill, Missing, AskTransaction, Reply,
        SelectRaises, allVars, history

\* Without the provision: where no rollback fails and the node reorganises
\* between polls only, whatever reads, commits and callbacks fail.
THEOREM CacheStaysBounded ==
    ASSUME NodeIsSteady, "rollback" \notin Faults
    PROVE  ReadsSpec => [](2 * Cardinality(DOMAIN cache) <=
                               3 * CacheSize + 2 + 2 * Cardinality(doubtful))
<1>1. ReadsInit => HInv /\ OrphanInv /\ NearInv /\ ~drifted
    BY HInvInit
    DEF ReadsInit, Init, StoreEmpty, EmptyTable, OrphanInv, NearInv
<1>2. ReadsInv /\ ReadsInv' /\ HInv /\ OrphanInv /\ [ReadsNext]_allVars
        => HInv' /\ OrphanInv'
    BY BesideReads
<1>3. HInv /\ OrphanInv /\ NearInv /\ [ReadsNext]_allVars => NearInv'
    BY ReadsStep, NearInvNext DEF NearInv, db, heights, frame
<1>4. HInv /\ HInv' /\ NearInv' /\ ReadsInv' /\ ~drifted /\ [ReadsNext]_allVars => ~drifted'
    BY NeverDrifts
<1>5. CacheBounded /\ ~drifted => 2 * Cardinality(DOMAIN cache) <=
                                      3 * CacheSize + 2 + 2 * Cardinality(doubtful)
    BY DEF CacheBounded
<1> QED
    BY ReadsHold, CacheIsBounded, <1>1, <1>2, <1>3, <1>4, <1>5, PTL DEF ReadsSpec
=============================================================================
