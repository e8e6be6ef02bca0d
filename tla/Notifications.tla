--------------------------- MODULE Notifications ---------------------------
(* What subscribers are told (protocol/server.py, protocol/handlers.py,      *)
(* main.py).  Two tasks notify: the indexer after each block or              *)
(* reorganisation and the mempool tracker after a poll.  Both walk over the  *)
(* session table and await a send to each subscriber; meanwhile sessions     *)
(* connect, leave, subscribe and unsubscribe.                                *)
(*                                                                           *)
(* Every commit that changes the chain has a number, its version.  The       *)
(* status of a script is the version that last touched its history, a        *)
(* header is the version whose tip it is.                                    *)
(*                                                                           *)
(* pc of a task:                                                             *)
(*   "idle"        before the next block, or between polls                   *)
(*   "committed"   index_block_batch committed, its answer not yet seen      *)
(*   "rolling"     rollback_block committed, its answer not yet seen         *)
(*   "rolled"      in the loop of handle_reorg, a height undone              *)
(*   "header"      in the loop of notify_new_block                           *)
(*   "status"      notify_scripthashes awaits a status from the database     *)
(*   "send"        in the loop of notify_scripthash                          *)
(*   "failed"      an exception has reached the task's own loop              *)
EXTENDS Integers, FiniteSets, FiniteSetsExt

CONSTANTS
    Script,             \* scripthashes
    Changes,            \* the sets of scripts a block or a poll may touch
    MaxConnections,     \* ServerConfig.max_connections
    MaxSubscriptions,   \* ServerConfig.max_subscriptions_per_client
    MaxVersion,         \* bound: commits
    MaxSessions,        \* bound: sessions that ever connect
    Quiet               \* sessions that subscribe to nothing

ASSUME NotificationsAssumption ==
    /\ Changes \subseteq SUBSET Script
    /\ {MaxConnections, MaxSubscriptions, MaxVersion, MaxSessions} \subseteq Nat

VARIABLES
    version,     \* commits so far
    status,      \* database: script -> version that last touched it
    tip,         \* header store: the version its tip shows
    connected,   \* sessions that ever connected
    slot,        \* RythmiumServer._clients: session -> its place among the
                 \* entries of the dictionary, 0 when it has none
    entries,     \* entries of the dictionary, the deleted ones included
    headers,     \* sessions with subscribed_headers
    subs,        \* session -> its subscribed_scripthashes
    request,     \* session -> the subscribe request it is served
    told,        \* session -> script -> the status it was sent last
    toldHeader,  \* session -> the header it was sent last
    pc, affected, todo, script, value,  \* per task: see Tasks
    pos, size, left,  \* per task: its iterator over the dictionary
    skipped      \* history variable: the tasks whose iterator an entry not yet
                 \* met has moved behind

chain == <<version, status, tip>>
clients == <<connected, slot, entries>>
sessions == <<clients, headers, subs, request, told, toldHeader>>
iterator == <<pos, size, left, skipped>>
loop == <<todo, script, value, iterator>>
vars == <<chain, sessions, pc, affected, loop>>

Tasks == {"indexer", "mempool"}

\* Sessions are numbered in the order they connect, which is the order of their
\* entries.
Session == 1 .. MaxSessions

open == {s \in Session : slot[s] # 0}

Version == 0 .. MaxVersion
Nothing == -1

NoRequest == [script |-> "none", answer |-> Nothing]

PCs == {"idle", "committed", "rolling", "rolled", "header", "status", "send",
        "failed"}

TypeOK ==
    /\ version \in Version /\ status \in [Script -> Version]
    /\ tip \in Version /\ tip <= version
    /\ connected \in 0 .. MaxSessions
    /\ entries \in 0 .. connected /\ slot \in [Session -> 0 .. entries]
    /\ open \subseteq 1 .. connected /\ headers \subseteq open
    /\ subs \in [Session -> SUBSET Script]
    /\ \A s \in Session \ open : subs[s] = {} /\ request[s] = NoRequest
    /\ \A s \in Session : Cardinality(subs[s]) <= MaxSubscriptions
    /\ Cardinality(open) <= MaxConnections
    /\ told \in [Session -> [Script -> Version \cup {Nothing}]]
    /\ toldHeader \in [Session -> Version \cup {Nothing}]
    /\ pc \in [Tasks -> PCs] /\ pc["mempool"] \in {"idle", "status", "send", "failed"}
    /\ affected \subseteq Script
    /\ todo \in [Tasks -> SUBSET Script]
    /\ \A t \in Tasks : pc[t] = "send" => value[t] \in Version
    /\ pos \in [Tasks -> 0 .. MaxSessions]
    /\ size \in [Tasks -> 0 .. MaxConnections]
    /\ left \in [Tasks -> 0 .. MaxConnections]
    /\ skipped \subseteq Tasks

Init ==
    /\ version = 0 /\ status = [x \in Script |-> 0] /\ tip = 0
    /\ connected = 0 /\ slot = [s \in Session |-> 0] /\ entries = 0 /\ headers = {}
    /\ subs = [s \in Session |-> {}]
    /\ request = [s \in Session |-> NoRequest]
    /\ told = [s \in Session |-> [x \in Script |-> Nothing]]
    /\ toldHeader = [s \in Session |-> Nothing]
    /\ pc = [t \in Tasks |-> "idle"] /\ affected = {}
    /\ todo = [t \in Tasks |-> {}]
    /\ script = [t \in Tasks |-> "none"]
    /\ value = [t \in Tasks |-> Nothing]
    /\ pos = [t \in Tasks |-> 0]
    /\ size = [t \in Tasks |-> 0]
    /\ left = [t \in Tasks |-> 0]
    /\ skipped = {}

-----------------------------------------------------------------------------
(* The indexer commits a block, or undoes some; then the callback runs.      *)

ChainChanges(changed) ==
    /\ version < MaxVersion
    /\ version' = version + 1
    /\ status' = [x \in Script |-> IF x \in changed THEN version + 1
                                   ELSE status[x]]
    /\ UNCHANGED <<tip, sessions, loop>>

IndexBlock(changed) ==
    /\ pc["indexer"] = "idle"
    /\ ChainChanges(changed)
    /\ affected' = changed
    /\ pc' = [pc EXCEPT !["indexer"] = "committed"]

RollBackBlock(changed) ==
    /\ pc["indexer"] \in {"idle", "rolled"}
    /\ ChainChanges(changed)
    /\ affected' = affected \cup changed
    /\ pc' = [pc EXCEPT !["indexer"] = "rolling"]

\* main.py then asks the header store for the header of the height, a hit.
StartCallback == pc' = [pc EXCEPT !["indexer"] = "header"]

\* Mutant: add_to_cache left out.
IndexedUncached ==
    /\ pc["indexer"] = "committed"
    /\ StartCallback
    /\ UNCHANGED <<chain, sessions, affected, loop>>

\* Mutant: no callback for a block that touches no subscribed script.
IndexedQuietly ==
    /\ pc["indexer"] = "committed"
    /\ tip' = version
    /\ LET quiet == affected \cap UNION {subs[s] : s \in open} = {} IN
        /\ pc' = [pc EXCEPT !["indexer"] = IF quiet THEN "idle" ELSE "header"]
        /\ affected' = IF quiet THEN {} ELSE affected
    /\ UNCHANGED <<version, status, sessions, loop>>

Indexed ==
    /\ pc["indexer"] = "committed"
    /\ tip' = version
    /\ StartCallback
    /\ UNCHANGED <<version, status, sessions, affected, loop>>

RolledBack ==
    /\ pc["indexer"] = "rolling"
    /\ tip' = version
    /\ pc' = [pc EXCEPT !["indexer"] = "rolled"]
    /\ UNCHANGED <<version, status, sessions, affected, loop>>

\* A reorganisation that touched no script is not reported.
ReorgHandled ==
    /\ pc["indexer"] = "rolled"
    /\ IF affected = {} THEN pc' = [pc EXCEPT !["indexer"] = "idle"]
                        ELSE StartCallback
    /\ UNCHANGED <<chain, sessions, affected, loop>>

-----------------------------------------------------------------------------
(* The loops over the session table.  An iterator over a dictionary notes    *)
(* how many keys there are, compares at every step, the last one included,   *)
(* and also raises when it meets more entries than there were keys.  It      *)
(* keeps an index: when an insertion finds the table full of deleted entries *)
(* and rebuilds it without them, what moves behind the index is not visited. *)

Ahead(t) == {s \in Session : slot[s] > pos[t]}

SizeKept(t) == pos[t] = 0 \/ Cardinality(open) = size[t]

Left(t) == IF pos[t] = 0 THEN Cardinality(open) ELSE left[t]

\* How many entries the iterator meets up to that of session s.
Upto(t, s) == Cardinality({q \in 1 .. s : slot[q] > pos[t]})

Subscribed == UNION {subs[s] : s \in open}

Wanted(t) ==
    IF pc[t] = "header" THEN headers ELSE {s \in Session : script[t] \in subs[s]}

\* The subscribers the iterator gets to.
InReach(t) == {s \in Wanted(t) : slot[s] > pos[t] /\ Upto(t, s) <= Left(t)}

IteratorValid(t) ==
    SizeKept(t) /\ (InReach(t) # {} \/ Cardinality(Ahead(t)) <= Left(t))

StepTo(t, s) ==
    /\ pos' = [pos EXCEPT ![t] = slot[s]]
    /\ size' = [size EXCEPT ![t] = Cardinality(open)]
    /\ left' = [left EXCEPT ![t] = Left(t) - Upto(t, s)]
    /\ UNCHANGED skipped

\* The local variables of a loop are dead once it ends.
LoopOver(t, next) ==
    /\ pc' = [pc EXCEPT ![t] = next]
    /\ pos' = [pos EXCEPT ![t] = 0]
    /\ size' = [size EXCEPT ![t] = 0]
    /\ left' = [left EXCEPT ![t] = 0]
    /\ skipped' = skipped \ {t}

HeaderSent ==
    /\ pc["indexer"] = "header" /\ IteratorValid("indexer")
    /\ InReach("indexer") # {}
    /\ LET s == Min(InReach("indexer")) IN
        /\ StepTo("indexer", s)
        /\ toldHeader' = [toldHeader EXCEPT ![s] = version]
    /\ UNCHANGED <<chain, clients, headers, subs, request, told, pc, affected,
                   todo, script, value>>

\* Mutant: without subscribers of headers the callback returns early.
HeadersSentOrNone ==
    /\ pc["indexer"] = "header" /\ IteratorValid("indexer")
    /\ InReach("indexer") = {}
    /\ LET mine == IF headers = {} THEN {} ELSE affected \cap Subscribed IN
        /\ LoopOver("indexer", IF mine = {} THEN "idle" ELSE "status")
        /\ todo' = [todo EXCEPT !["indexer"] = mine]
    /\ affected' = {}
    /\ UNCHANGED <<chain, sessions, script, value>>

\* The scripts to tell of are fixed here, before the first status is read.
HeadersSent ==
    /\ pc["indexer"] = "header" /\ IteratorValid("indexer")
    /\ InReach("indexer") = {}
    /\ LET mine == affected \cap Subscribed IN
        /\ LoopOver("indexer", IF mine = {} THEN "idle" ELSE "status")
        /\ todo' = [todo EXCEPT !["indexer"] = mine]
    /\ affected' = {}
    /\ UNCHANGED <<chain, sessions, script, value>>

MempoolChanged(changed) ==
    /\ pc["mempool"] = "idle"
    /\ LET mine == changed \cap Subscribed IN
        /\ pc' = [pc EXCEPT !["mempool"] = IF mine = {} THEN "idle" ELSE "status"]
        /\ todo' = [todo EXCEPT !["mempool"] = mine]
    /\ UNCHANGED <<chain, sessions, affected, script, value, iterator>>

\* A status is what the database holds now, and is used when it arrives.
StatusRead(t) ==
    /\ pc[t] = "status"
    /\ \E x \in todo[t] :
        /\ todo' = [todo EXCEPT ![t] = @ \ {x}]
        /\ script' = [script EXCEPT ![t] = x]
        /\ value' = [value EXCEPT ![t] = status[x]]
    /\ pc' = [pc EXCEPT ![t] = "send"]
    /\ UNCHANGED <<chain, sessions, affected, iterator>>

StatusSent(t) ==
    /\ pc[t] = "send" /\ IteratorValid(t)
    /\ InReach(t) # {}
    /\ LET s == Min(InReach(t)) IN
        /\ StepTo(t, s)
        /\ told' = [told EXCEPT ![s][script[t]] = value[t]]
    /\ UNCHANGED <<chain, clients, headers, subs, request, toldHeader, pc,
                   affected, todo, script, value>>

NoStatus(t) ==
    /\ script' = [script EXCEPT ![t] = "none"]
    /\ value' = [value EXCEPT ![t] = Nothing]

StatusLoopEnds(t) ==
    /\ pc[t] = "send" /\ IteratorValid(t)
    /\ InReach(t) = {}
    /\ LoopOver(t, IF todo[t] = {} THEN "idle" ELSE "status")
    /\ NoStatus(t)
    /\ UNCHANGED <<chain, sessions, affected, todo>>

\* RuntimeError: dictionary changed size, or keys changed, during iteration.  It
\* leaves the callback.
IterationRaises(t) ==
    /\ pc[t] \in {"header", "send"} /\ ~IteratorValid(t)
    /\ LoopOver(t, "failed")
    /\ NoStatus(t)
    /\ todo' = [todo EXCEPT ![t] = {}]
    /\ affected' = IF t = "indexer" THEN {} ELSE affected
    /\ UNCHANGED <<chain, sessions>>

\* The loop of the task logs it and goes on with its next round.
NextRound(t) ==
    /\ pc[t] = "failed"
    /\ pc' = [pc EXCEPT ![t] = "idle"]
    /\ UNCHANGED <<chain, sessions, affected, loop>>

-----------------------------------------------------------------------------
(* Sessions.  One request of a session is served at a time, and its loop     *)
(* notices that the peer left only when it reads again.                      *)

\* The new entry is the last; it may take a rebuilt table to hold it, the room
\* in the old one being used up by deleted entries.
Insert(s, rebuilt) ==
    LET place(q) == IF rebuilt THEN Cardinality({u \in open : u <= q}) ELSE slot[q]
        last == 1 + IF rebuilt THEN Cardinality(open) ELSE entries
    IN /\ entries' = last
       /\ slot' = [q \in Session |->
                     IF q = s THEN last ELSE IF q \in open THEN place(q) ELSE 0]
       /\ skipped' = skipped \cup
                        {t \in Tasks : \E q \in Ahead(t) : slot'[q] <= pos[t]}

Connect ==
    /\ connected < MaxSessions
    /\ Cardinality(open) < MaxConnections
    /\ connected' = connected + 1
    /\ \E rebuilt \in BOOLEAN : Insert(connected + 1, rebuilt)
    /\ UNCHANGED <<chain, headers, subs, request, told, toldHeader, pc,
                   affected, todo, script, value, pos, size, left>>

Serving(s) == s \in open /\ request[s] = NoRequest

Departs(s) ==
    /\ slot' = [slot EXCEPT ![s] = 0]
    /\ headers' = headers \ {s}
    /\ subs' = [subs EXCEPT ![s] = {}]
    /\ told' = [told EXCEPT ![s] = [x \in Script |-> Nothing]]
    /\ toldHeader' = [toldHeader EXCEPT ![s] = Nothing]
    /\ UNCHANGED <<chain, connected, entries, request, pc, affected, loop>>

\* Mutant: the session closes while its request is being served.
CloseClientAtOnce(s) == s \in open /\ Departs(s)

CloseClient(s) == Serving(s) /\ Departs(s)

HeadersSubscribe(s) ==
    /\ Serving(s) /\ s \notin Quiet
    /\ headers' = headers \cup {s}
    /\ toldHeader' = [toldHeader EXCEPT ![s] = tip]
    /\ UNCHANGED <<chain, clients, subs, request, told, pc, affected,
                   loop>>

\* The subscription counts from here on; the status is read after it.
ScripthashSubscribe(s, x) ==
    /\ Serving(s) /\ s \notin Quiet
    /\ Cardinality(subs[s]) < MaxSubscriptions
    /\ subs' = [subs EXCEPT ![s] = @ \cup {x}]
    /\ request' = [request EXCEPT ![s] = [script |-> x, answer |-> Nothing]]
    /\ UNCHANGED <<chain, clients, headers, told, toldHeader, pc,
                   affected, loop>>

SubscribeRead(s) ==
    /\ request[s] # NoRequest /\ request[s].answer = Nothing
    /\ request' = [request EXCEPT ![s].answer = status[request[s].script]]
    /\ UNCHANGED <<chain, clients, headers, subs, told, toldHeader, pc,
                   affected, loop>>

SubscribeReply(s) ==
    /\ request[s] # NoRequest /\ request[s].answer # Nothing
    /\ told' = [told EXCEPT ![s][request[s].script] = request[s].answer]
    /\ request' = [request EXCEPT ![s] = NoRequest]
    /\ UNCHANGED <<chain, clients, headers, subs, toldHeader, pc,
                   affected, loop>>

ScripthashUnsubscribe(s, x) ==
    /\ Serving(s) /\ x \in subs[s]
    /\ subs' = [subs EXCEPT ![s] = @ \ {x}]
    /\ told' = [told EXCEPT ![s][x] = Nothing]
    /\ UNCHANGED <<chain, clients, headers, request, toldHeader, pc,
                   affected, loop>>

-----------------------------------------------------------------------------
IndexerStep ==
    \/ Indexed \/ RolledBack \/ ReorgHandled
    \/ HeaderSent \/ HeadersSent

Notify(t) ==
    \/ StatusRead(t) \/ StatusSent(t) \/ StatusLoopEnds(t)
    \/ IterationRaises(t) \/ NextRound(t)

Serve(s) == SubscribeRead(s) \/ SubscribeReply(s)

Client(s) ==
    \/ CloseClient(s)
    \/ HeadersSubscribe(s)
    \/ \E x \in Script : ScripthashSubscribe(s, x) \/ ScripthashUnsubscribe(s, x)

Next ==
    \/ \E changed \in Changes :
        IndexBlock(changed) \/ RollBackBlock(changed) \/ MempoolChanged(changed)
    \/ IndexerStep
    \/ \E t \in Tasks : Notify(t)
    \/ Connect
    \/ \E s \in Session : Serve(s) \/ Client(s)

Spec == Init /\ [][Next]_vars

\* An awaited database call and a send to a client that reads complete.
Fairness ==
    /\ WF_vars(IndexerStep \/ Notify("indexer"))
    /\ WF_vars(Notify("mempool"))
    /\ \A s \in Session \ Quiet : WF_vars(Serve(s))

FairSpec == Spec /\ Fairness

-----------------------------------------------------------------------------
\* The indexer's walk has raised because sessions came or went, or the table
\* was rebuilt under it and somebody it had not visited moved behind.
Churned == pc["indexer"] = "failed" \/ "indexer" \in skipped

JustCommitted == pc["indexer"] \in {"committed", "rolling"}

\* Version v has just reached the database, or s has just asked.
MustLearn(s, x, v) ==
    /\ x \in subs[s] /\ status[x] = v /\ told[s][x] < v
    /\ JustCommitted \/ request[s] = [script |-> x, answer |-> Nothing]

Learned(s, x, v) == x \notin subs[s] \/ told[s][x] >= v

(* A subscriber of a script is sent every status, or a later one: whether it *)
(* subscribed before the commit, while the callback was at work, or between  *)
(* the choice of the scripts to tell of and the reading of their status.     *)
SubscriberLearns ==
    \A s \in Session \ Quiet, x \in Script, v \in 1 .. MaxVersion :
        MustLearn(s, x, v) ~> Learned(s, x, v)

(* The same, but for callbacks that die because the session table changed    *)
(* under the loop.                                                           *)
SubscriberLearnsUnlessChurned ==
    \A s \in Session \ Quiet, x \in Script, v \in 1 .. MaxVersion :
        MustLearn(s, x, v) ~> (Learned(s, x, v) \/ Churned)

(* A session subscribed to headers is sent every new tip, or a later one,    *)
(* unless the loop died.                                                     *)
HeadersLearn ==
    \A s \in Session \ Quiet, v \in 1 .. MaxVersion :
        (JustCommitted /\ s \in headers /\ version = v /\ toldHeader[s] < v)
            ~> (s \notin headers \/ toldHeader[s] >= v \/ Churned)

(* A session never gets a header older than one it already has, from the     *)
(* reply to its subscription or from a notification.                         *)
HeadersInOrder ==
    [][\A s \in open \cap open' : toldHeader'[s] >= toldHeader[s]]_vars
=============================================================================
