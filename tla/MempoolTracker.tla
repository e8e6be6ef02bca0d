--------------------------- MODULE MempoolTracker --------------------------
(* The mempool tracker's task (indexer/mempool_tracker.py): every poll asks  *)
(* the node for its transaction ids, forgets those that are gone, fetches    *)
(* the new ones one await at a time, and calls back with the scripthashes    *)
(* touched.  Queries read its state at any of these awaits.                  *)
(*                                                                           *)
(* pc: "sleep" between polls; "asked" while the node's answer is on its way; *)
(* "fetch" in the loop over new_txids; "notify" awaiting the callback.       *)
EXTENDS Integers, SequencesExt, Columns

CONSTANTS
    Tx,            \* transactions
    Script,        \* scripthashes
    Outputs,       \* tx -> sequence of [sh, value], the outputs with a pkh
    Rate,          \* tx -> fee rate, in units that make it an integer
    TxSize,        \* tx -> size
    BucketWidth,   \* 0.5 in the units of Rate
    MaxBuckets     \* 20

ASSUME MempoolAssumption ==
    /\ \A t \in Tx : \A i \in DOMAIN Outputs[t] :
        /\ Outputs[t][i].sh \in Script
        /\ Outputs[t][i].value \in Nat
    /\ Rate \in [Tx -> Nat] /\ TxSize \in [Tx -> Nat]
    /\ BucketWidth \in Nat \ {0} /\ MaxBuckets \in Nat

VARIABLES
    nodePool,    \* external: the node's mempool
    tracked,     \* keys of MempoolState.transactions
    deltas,      \* MempoolState.scripthash_deltas: how often each output is in
                 \* the list of a scripthash, never for a missing key
    histogram,   \* MempoolState.fee_histogram
    pc, todo, affected,  \* the task: its place, new_txids left, what it touched
    answer,      \* node_txids, while the answer is on its way
    reported     \* script -> what get_mempool listed when it was last in a callback

vars == <<nodePool, tracked, deltas, histogram, pc, todo, affected, answer,
          reported>>

-----------------------------------------------------------------------------
(* Entries and what they add to a scripthash.                                *)

Scripts(t) == {Outputs[t][i].sh : i \in DOMAIN Outputs[t]}

\* An output of a transaction: what an entry of the lists stands for, which is
\* its txid and its value.
Entry == UNION {{t} \X DOMAIN Outputs[t] : t \in Tx}

Pays(e, sh) == Outputs[e[1]][e[2]].sh = sh

AddEntry(t) ==
    [sh \in Script |-> [e \in Entry |->
        IF e[1] = t /\ Pays(e, sh) THEN deltas[sh][e] + 1 ELSE deltas[sh][e]]]

\* Mutant: list.remove, which takes away one entry only.
RemoveEntriesOnce(gone) ==
    [sh \in Script |->
        LET mine == {e \in Entry : e[1] \in gone /\ deltas[sh][e] > 0}
        IN IF mine = {} THEN deltas[sh]
           ELSE [deltas[sh] EXCEPT ![CHOOSE e \in mine : TRUE] = @ - 1]]

RemoveEntries(gone) ==
    [sh \in Script |-> [e \in Entry |-> IF e[1] \in gone THEN 0 ELSE deltas[sh][e]]]

TouchedBy(gone) ==
    {sh \in Script : \E e \in Entry : e[1] \in gone /\ deltas[sh][e] > 0}

\* The sum over a list.
Total(list) == MapThenSumSet(LAMBDA e : list[e] * Outputs[e[1]][e[2]].value, Entry)

\* get_scripthash_unconfirmed_balance
Unconfirmed(sh) == Total(deltas[sh])

\* get_scripthash_mempool
Listing(pool, sh) == {t \in pool : sh \in Scripts(t)}

-----------------------------------------------------------------------------
(* The fee histogram: a bucket is <<rate of its first entry, total size>>.   *)

\* Mutant: the next bucket starts one unit late.
SameBucketWider(rate, bucket) == bucket[1] - rate <= BucketWidth

SameBucket(rate, bucket) == bucket[1] - rate < BucketWidth

AddToBuckets(buckets, t) ==
    IF buckets # <<>> /\ SameBucket(Rate[t], Last(buckets))
    THEN [buckets EXCEPT ![Len(buckets)][2] = @ + TxSize[t]]
    ELSE Append(buckets, <<Rate[t], TxSize[t]>>)

\* The sort, highest rate first.  The order of equal rates shows in no bucket.
ByRate(pool) == Sorted(pool, LAMBDA t, u : Rate[t] > Rate[u])

FeeHistogram(pool) ==
    LET entries == ByRate(pool)
        buckets[n \in 0 .. Cardinality(pool)] ==
            IF n = 0 THEN <<>> ELSE AddToBuckets(buckets[n - 1], entries[n])
        all == buckets[Cardinality(pool)]
    IN SubSeq(all, 1, IF Len(all) < MaxBuckets THEN Len(all) ELSE MaxBuckets)

-----------------------------------------------------------------------------
Init ==
    /\ nodePool \in SUBSET Tx /\ IsFiniteSet(nodePool)
    /\ tracked = {} /\ histogram = <<>>
    /\ deltas = [sh \in Script |-> [e \in Entry |-> 0]]
    /\ pc = "sleep" /\ todo = {} /\ affected = {} /\ answer = {}
    /\ reported = [sh \in Script |-> {}]

\* What is left of the poll: the next fetch, or the histogram and the callback.
Proceed(rest, pool, touched) ==
    /\ todo' = rest
    /\ tracked' = pool
    /\ IF rest # {}
       THEN /\ pc' = "fetch" /\ affected' = touched
            /\ UNCHANGED <<histogram, reported>>
       ELSE /\ histogram' = FeeHistogram(pool)
            /\ pc' = IF touched = {} THEN "sleep" ELSE "notify"
            /\ affected' = {}
            /\ reported' = [sh \in Script |-> IF sh \in touched
                                              THEN Listing(pool, sh)
                                              ELSE reported[sh]]

\* get_raw_mempool: what the node has when it answers.  A call that fails
\* changes nothing.
PollAsks ==
    /\ pc = "sleep"
    /\ pc' = "asked"
    /\ answer' = nodePool
    /\ UNCHANGED <<nodePool, tracked, deltas, histogram, todo, affected, reported>>

\* The answer arrives: the transactions in gone are forgotten, those in new are
\* fetched.
PollFor(new, gone) ==
    /\ pc = "asked"
    /\ answer' = {}
    /\ deltas' = RemoveEntries(gone)
    /\ Proceed(new, tracked \ gone, TouchedBy(gone))
    /\ UNCHANGED nodePool

\* Mutant: everything in the node's mempool counts as new.
PollAll == PollFor(answer, tracked \ answer)

\* Mutant: what is gone is forgotten only when something is new.
PollWhenGrown ==
    PollFor(answer \ tracked, IF answer \subseteq tracked THEN {} ELSE tracked \ answer)

\* Mutant: a list as long as the last one is taken for the same.
PollIfCountDiffers ==
    PollFor(IF Cardinality(answer) = Cardinality(tracked) THEN {} ELSE answer \ tracked,
            tracked \ answer)

Poll == PollFor(answer \ tracked, tracked \ answer)

Fetched(t) ==
    /\ pc = "fetch"
    /\ deltas' = AddEntry(t)
    /\ Proceed(todo \ {t}, tracked \cup {t}, affected \cup Scripts(t))
    /\ UNCHANGED <<nodePool, answer>>

\* Mutant: an exception of a fetch ends the poll.
FetchFailsAll(t) ==
    /\ pc = "fetch"
    /\ pc' = "sleep" /\ todo' = {} /\ affected' = {}
    /\ UNCHANGED <<nodePool, tracked, deltas, histogram, answer, reported>>

\* Both calls raise, or the answer is empty or cannot be parsed.
FetchFails(t) ==
    /\ pc = "fetch"
    /\ Proceed(todo \ {t}, tracked, affected)
    /\ UNCHANGED <<nodePool, deltas, answer>>

\* It returned, or raised and the polling loop logged it.
CallbackOver ==
    /\ pc = "notify"
    /\ pc' = "sleep"
    /\ UNCHANGED <<nodePool, tracked, deltas, histogram, todo, affected, answer,
                   reported>>

\* External: the node takes in, mines, drops or gets back a transaction.
NodeMempool ==
    /\ \E t \in Tx : nodePool' \in {nodePool \cup {t}, nodePool \ {t}}
    /\ UNCHANGED <<tracked, deltas, histogram, pc, todo, affected, answer, reported>>

Work == PollAsks \/ Poll \/ (\E t \in todo : Fetched(t)) \/ CallbackOver

Fault == \E t \in todo : FetchFails(t)

Next == Work \/ Fault \/ NodeMempool

Spec == Init /\ [][Next]_vars

-----------------------------------------------------------------------------
TypeOK ==
    /\ nodePool \subseteq Tx /\ tracked \subseteq Tx
    /\ deltas \in [Script -> [Entry -> Nat]]
    /\ pc \in {"sleep", "asked", "fetch", "notify"}
    /\ answer \subseteq Tx
    /\ todo \subseteq Tx \ tracked
    /\ affected \subseteq Script
    /\ reported \in [Script -> SUBSET Tx]
    /\ (pc = "fetch") = (todo # {})
    /\ pc # "fetch" => affected = {}

(* At every await, the unconfirmed balance of a scripthash is what the       *)
(* tracked transactions pay to it, however they came and went: adding and    *)
(* removing entry by entry loses no output and counts none twice.            *)
BalanceIsTracked ==
    \A sh \in Script :
        Unconfirmed(sh) =
            Total([e \in Entry |-> IF e[1] \in tracked /\ Pays(e, sh) THEN 1 ELSE 0])

(* Between polls the fee histogram describes the tracked transactions: of at *)
(* most MaxBuckets buckets the rates fall by a bucket's width at least, each *)
(* holds the sizes of exactly the transactions within that width below its   *)
(* rate, and those left out for want of buckets all pay less than the ones   *)
(* that are in.                                                              *)
HistogramDescribesPool ==
    pc # "fetch" =>
        LET Held(i) == {t \in tracked : /\ Rate[t] <= histogram[i][1]
                                        /\ histogram[i][1] - Rate[t] < BucketWidth}
            held == UNION {Held(i) : i \in DOMAIN histogram}
        IN /\ histogram \in Seq(Nat \X Nat) /\ Len(histogram) <= MaxBuckets
           /\ \A i \in DOMAIN histogram :
                /\ histogram[i][2] = SumOf(Keep(TxSize, Held(i)))
                /\ \A j \in 1 .. (i - 1) :
                    histogram[j][1] - histogram[i][1] >= BucketWidth
           /\ \A t \in tracked \ held :
                /\ Len(histogram) = MaxBuckets
                /\ \A u \in held : Rate[t] < Rate[u]

(* Between polls, what get_mempool lists for a scripthash is what it listed  *)
(* when the scripthash was last handed to the callback: no entry comes or    *)
(* goes unreported, also when other fetches of the same poll fail.           *)
ChangesReported ==
    pc # "fetch" => \A sh \in Script : reported[sh] = Listing(tracked, sh)
=============================================================================
