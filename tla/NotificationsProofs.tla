------------------------- MODULE NotificationsProofs ------------------------
(* Proofs about Notifications for any number of sessions, scripts and        *)
(* commits.                                                                  *)
EXTENDS Notifications, SetLemmas

-----------------------------------------------------------------------------
(* The invariant.                                                            *)

\* The status a task is about to send, and the reply a session waits for, are
\* of the script they say.
ValuesTyped ==
    /\ script \in [Tasks -> Script \cup {"none"}]
    /\ value \in [Tasks -> Version \cup {Nothing}]
    /\ \A t \in Tasks : pc[t] = "send" => script[t] \in Script /\ value[t] \in Version
    /\ request \in [Session -> [script : Script \cup {"none"},
                                answer : Version \cup {Nothing}]]
    /\ \A s \in Session : request[s] # NoRequest => request[s].script \in Script

\* Sets that are counted are finite.
CountsFinite == \A s \in Session : IsFiniteSet(subs[s])

\* The header store shows the last version unless a commit is unacknowledged,
\* and nobody was told of a later one than it shows.
HeadersBehindTip ==
    /\ pc["indexer"] \notin {"committed", "rolling"} => tip = version
    /\ \A s \in Session : toldHeader[s] <= tip

NotesInv == TypeOK /\ ValuesTyped /\ CountsFinite /\ HeadersBehindTip

-----------------------------------------------------------------------------
LEMMA NotesInvInit == Init => NotesInv
<1> SUFFICES ASSUME Init PROVE NotesInv
    OBVIOUS
<1>1. /\ MaxConnections \in Nat /\ MaxSubscriptions \in Nat /\ MaxVersion \in Nat
      /\ MaxSessions \in Nat
    BY NotificationsAssumption
<1>2. IsFiniteSet({}) /\ Cardinality({}) = 0
    BY FS_EmptySet
<1>3. /\ status \in [Script -> Version] /\ subs \in [Session -> SUBSET Script]
      /\ pc \in [Tasks -> PCs] /\ todo \in [Tasks -> SUBSET Script]
      /\ pos \in [Tasks -> 0 .. MaxSessions] /\ size \in [Tasks -> 0 .. MaxConnections]
      /\ left \in [Tasks -> 0 .. MaxConnections]
    BY <1>1 DEF Init, Version, PCs
<1>4. /\ told \in [Session -> [Script -> Version \cup {Nothing}]]
      /\ toldHeader \in [Session -> Version \cup {Nothing}]
    BY DEF Init
<1>5. \A s \in Session : /\ subs[s] = {} /\ request[s] = NoRequest
                         /\ toldHeader[s] = Nothing
    BY DEF Init
<1>6. \A t \in Tasks : pc[t] = "idle"
    BY DEF Init
<1>7. TypeOK
    <2>1. pc["mempool"] \in {"idle", "status", "send", "failed"}
        BY <1>6 DEF Tasks
    <2>2. version \in Version /\ tip \in Version /\ tip <= version
        BY <1>1 DEF Init, Version
    <2>3. connected \in 0 .. MaxSessions /\ open \subseteq 1 .. connected /\ headers \subseteq open
          /\ affected \subseteq Script /\ Cardinality(open) <= MaxConnections
          /\ entries \in 0 .. connected /\ slot \in [Session -> 0 .. entries]
          /\ skipped \subseteq Tasks
        <3>1. open = {}
            BY DEF Init, open
        <3> QED
            BY <1>1, <1>2, <3>1 DEF Init
    <2>4. \A s \in Session : Cardinality(subs[s]) <= MaxSubscriptions
        BY <1>1, <1>2, <1>5
    <2> QED
        BY <1>3, <1>4, <1>5, <1>6, <2>1, <2>2, <2>3, <2>4 DEF TypeOK
<1>8. ValuesTyped
    <2>1. NoRequest \in [script : Script \cup {"none"}, answer : Version \cup {Nothing}]
        BY DEF NoRequest
    <2>2. request \in [Session -> [script : Script \cup {"none"},
                                   answer : Version \cup {Nothing}]]
        BY <2>1 DEF Init
    <2>3. script \in [Tasks -> Script \cup {"none"}] /\ value \in [Tasks -> Version \cup {Nothing}]
        BY DEF Init
    <2> QED
        BY <1>5, <1>6, <2>2, <2>3 DEF ValuesTyped
<1>9. CountsFinite
    BY <1>2, <1>5 DEF CountsFinite
<1>10. HeadersBehindTip
    BY <1>5 DEF Init, HeadersBehindTip, Nothing
<1> QED
    BY <1>7, <1>8, <1>9, <1>10 DEF NotesInv

-----------------------------------------------------------------------------
(* Its parts, by the variables they speak of.                                *)

ChainPart == version \in Version /\ status \in [Script -> Version]
             /\ tip \in Version /\ tip <= version

SessionPart ==
    /\ connected \in 0 .. MaxSessions
    /\ entries \in 0 .. connected /\ slot \in [Session -> 0 .. entries]
    /\ open \subseteq 1 .. connected /\ headers \subseteq open
    /\ subs \in [Session -> SUBSET Script]
    /\ \A s \in Session \ open : subs[s] = {} /\ request[s] = NoRequest
    /\ \A s \in Session : IsFiniteSet(subs[s]) /\ Cardinality(subs[s]) <= MaxSubscriptions
    /\ Cardinality(open) <= MaxConnections
    /\ request \in [Session -> [script : Script \cup {"none"},
                                answer : Version \cup {Nothing}]]
    /\ \A s \in Session : request[s] # NoRequest => request[s].script \in Script

ToldPart ==
    /\ told \in [Session -> [Script -> Version \cup {Nothing}]]
    /\ toldHeader \in [Session -> Version \cup {Nothing}]

TaskPart ==
    /\ pc \in [Tasks -> PCs] /\ pc["mempool"] \in {"idle", "status", "send", "failed"}
    /\ affected \subseteq Script
    /\ todo \in [Tasks -> SUBSET Script]
    /\ script \in [Tasks -> Script \cup {"none"}]
    /\ value \in [Tasks -> Version \cup {Nothing}]
    /\ \A t \in Tasks : pc[t] = "send" => script[t] \in Script /\ value[t] \in Version
    /\ pos \in [Tasks -> 0 .. MaxSessions]
    /\ size \in [Tasks -> 0 .. MaxConnections] /\ left \in [Tasks -> 0 .. MaxConnections]
    /\ skipped \subseteq Tasks

LEMMA Parts ==
    /\ NotesInv <=> ChainPart /\ SessionPart /\ ToldPart /\ TaskPart /\ HeadersBehindTip
    /\ NotesInv' <=> ChainPart' /\ SessionPart' /\ ToldPart' /\ TaskPart'
                     /\ HeadersBehindTip'
    BY DEF NotesInv, TypeOK, ValuesTyped, CountsFinite, ChainPart, SessionPart, ToldPart,
           TaskPart

\* The constants' types, and what a loop over the open sessions picks.
LEMMA Typing ==
    /\ MaxConnections \in Nat /\ MaxSubscriptions \in Nat /\ MaxVersion \in Nat
    /\ MaxSessions \in Nat
    /\ "indexer" \in Tasks /\ "mempool" \in Tasks
    BY NotificationsAssumption DEF Tasks

\* The size of the session table.
LEMMA OpenFinite ==
    ASSUME SessionPart
    PROVE  /\ IsFiniteSet(open) /\ Cardinality(open) \in 0 .. MaxConnections
           /\ Cardinality(open) <= connected
<1>1. connected \in Nat /\ open \in SUBSET (1 .. connected)
    BY Typing DEF SessionPart
<1>2. IsFiniteSet(1 .. connected) /\ Cardinality(1 .. connected) = connected
    BY <1>1, FS_Interval
<1>3. IsFiniteSet(open) /\ Cardinality(open) <= connected
    BY <1>1, <1>2, FS_Subset
<1>4. Cardinality(open) \in Nat
    BY <1>3, FS_CardinalityType
<1>5. Cardinality(open) <= MaxConnections
    BY DEF SessionPart
<1> QED
    BY <1>3, <1>4, <1>5, Typing

\* The open sessions do not depend on where their entries stand.
LEMMA OpenSame ==
    ASSUME slot' = slot
    PROVE  open' = open
    BY DEF open

\* Where the iterator of a loop goes next.
LEMMA ReachFacts ==
    ASSUME SessionPart, TaskPart, NEW t \in Tasks, InReach(t) # {},
           NEW s, s = Min(InReach(t)), StepTo(t, s)
    PROVE  /\ s \in Session
           /\ pos' \in [Tasks -> 0 .. MaxSessions]
           /\ size' \in [Tasks -> 0 .. MaxConnections]
           /\ left' \in [Tasks -> 0 .. MaxConnections] /\ skipped' = skipped
<1>1. InReach(t) \in SUBSET Nat /\ InReach(t) \subseteq Session
    <2>1. headers \subseteq Session /\ Session \subseteq Nat
        BY Typing DEF SessionPart, Session, open
    <2> QED
        BY <2>1 DEF InReach, Wanted
<1>2. \E m \in InReach(t) : \A k \in InReach(t) : m <= k
    BY <1>1, LeastNatural
<1>3. s \in InReach(t)
    BY <1>2 DEF Min
<1>4. s \in Session /\ s \in Nat
    BY <1>1, <1>3
<1>5. slot[s] \in 0 .. MaxSessions
    BY <1>4, Typing DEF SessionPart
<1>6. Upto(t, s) \in Nat /\ Upto(t, s) <= Left(t)
    <2> DEFINE met == {q \in 1 .. s : slot[q] > pos[t]}
    <2>1. IsFiniteSet(1 .. s)
        BY <1>4, FS_Interval
    <2>2. IsFiniteSet(met)
        BY <2>1, FS_Subset
    <2>3. Cardinality(met) \in Nat
        BY <2>2, FS_CardinalityType
    <2> QED
        BY <1>3, <2>3 DEF InReach, Upto
<1>7. Cardinality(open) \in 0 .. MaxConnections
    BY OpenFinite
<1>8. Left(t) \in 0 .. MaxConnections
    BY <1>7 DEF Left, TaskPart
<1>9. Left(t) - Upto(t, s) \in 0 .. MaxConnections
    BY <1>6, <1>8, Typing
<1> QED
    BY <1>4, <1>5, <1>7, <1>9 DEF StepTo, TaskPart

-----------------------------------------------------------------------------
(* The indexer and the callbacks.                                            *)

LEMMA ChainStepKeeps ==
    ASSUME NotesInv, NEW changed \in Changes, IndexBlock(changed) \/ RollBackBlock(changed)
    PROVE  NotesInv'
<1>1. /\ ChainPart /\ SessionPart /\ ToldPart /\ TaskPart /\ HeadersBehindTip
      /\ changed \subseteq Script
    BY Parts, NotificationsAssumption
<1>2. /\ version < MaxVersion /\ version' = version + 1
      /\ status' = [x \in Script |-> IF x \in changed THEN version + 1 ELSE status[x]]
      /\ UNCHANGED <<tip, sessions, loop>>
      /\ affected' \subseteq Script
      /\ \/ pc' = [pc EXCEPT !["indexer"] = "committed"]
         \/ pc' = [pc EXCEPT !["indexer"] = "rolling"]
    BY <1>1 DEF IndexBlock, RollBackBlock, ChainChanges, TaskPart
<1>3. ChainPart'
    BY <1>1, <1>2, Typing DEF ChainPart, Version
<1>4. SessionPart' /\ ToldPart'
    BY <1>1, <1>2 DEF sessions, clients, open, SessionPart, ToldPart
<1>5. TaskPart'
    BY <1>1, <1>2, Typing DEF loop, iterator, TaskPart, PCs
<1>6. HeadersBehindTip'
    BY <1>1, <1>2, Typing DEF sessions, HeadersBehindTip, TaskPart
<1> QED
    BY <1>3, <1>4, <1>5, <1>6, Parts

LEMMA IndexerStepKeeps ==
    ASSUME NotesInv, Indexed \/ RolledBack \/ ReorgHandled
    PROVE  NotesInv'
<1>1. ChainPart /\ SessionPart /\ ToldPart /\ TaskPart /\ HeadersBehindTip
    BY Parts
<1>2. /\ UNCHANGED <<version, status, sessions, affected, loop>>
      /\ \E p \in {"header", "rolled", "idle"} : pc' = [pc EXCEPT !["indexer"] = p]
      /\ tip' = version \/ (tip' = tip /\ pc["indexer"] = "rolled")
    BY DEF Indexed, RolledBack, ReorgHandled, StartCallback, chain
<1>3. ChainPart' /\ SessionPart' /\ ToldPart'
    BY <1>1, <1>2 DEF sessions, clients, open, ChainPart, SessionPart, ToldPart, Version
<1>4. TaskPart'
    BY <1>1, <1>2, Typing DEF loop, iterator, TaskPart, PCs
<1>5. \A s \in Session : toldHeader'[s] <= tip'
    BY <1>1, <1>2 DEF sessions, HeadersBehindTip, ChainPart, ToldPart, Version, Nothing
<1>6. HeadersBehindTip'
    BY <1>1, <1>2, <1>5 DEF HeadersBehindTip
<1> QED
    BY <1>3, <1>4, <1>6, Parts

LEMMA HeaderSentKeeps ==
    ASSUME NotesInv, HeaderSent
    PROVE  NotesInv'
<1>1. ChainPart /\ SessionPart /\ ToldPart /\ TaskPart /\ HeadersBehindTip
    BY Parts
<1> DEFINE s == Min(InReach("indexer"))
<1>2. /\ pc["indexer"] = "header" /\ InReach("indexer") # {}
      /\ StepTo("indexer", s)
      /\ toldHeader' = [toldHeader EXCEPT ![s] = version]
      /\ UNCHANGED <<chain, clients, headers, subs, request, told, pc, affected,
                     todo, script, value>>
    BY DEF HeaderSent
<1> HIDE DEF s
<1>3. /\ s \in Session /\ pos' \in [Tasks -> 0 .. MaxSessions]
      /\ size' \in [Tasks -> 0 .. MaxConnections]
      /\ left' \in [Tasks -> 0 .. MaxConnections] /\ skipped' = skipped
    BY <1>1, <1>2, ReachFacts, Typing DEF s
<1>4. ChainPart' /\ SessionPart'
    BY <1>1, <1>2 DEF chain, clients, open, ChainPart, SessionPart
<1>5. ToldPart'
    BY <1>1, <1>2 DEF ToldPart, ChainPart
<1>6. TaskPart'
    BY <1>1, <1>2, <1>3 DEF TaskPart
<1>7. HeadersBehindTip'
    BY <1>1, <1>2 DEF chain, HeadersBehindTip, ChainPart, ToldPart, Version
<1> QED
    BY <1>4, <1>5, <1>6, <1>7, Parts

\* The steps of the callbacks that only move their task.
LEMMA LoopStepKeeps ==
    ASSUME NotesInv, TaskPart', UNCHANGED <<chain, sessions>>,
           pc'["indexer"] \in {"committed", "rolling"} \/ tip = version
    PROVE  NotesInv'
    BY Parts DEF chain, sessions, clients, open, ChainPart, SessionPart, ToldPart, HeadersBehindTip

LEMMA HeadersSentKeeps ==
    ASSUME NotesInv, HeadersSent
    PROVE  NotesInv'
<1>1. TaskPart /\ HeadersBehindTip
    BY Parts
<1> DEFINE mine == affected \cap Subscribed
<1>2. /\ pc["indexer"] = "header"
      /\ pc' = [pc EXCEPT !["indexer"] = IF mine = {} THEN "idle" ELSE "status"]
      /\ pos' = [pos EXCEPT !["indexer"] = 0]
      /\ size' = [size EXCEPT !["indexer"] = 0]
      /\ left' = [left EXCEPT !["indexer"] = 0] /\ skipped' = skipped \ {"indexer"}
      /\ todo' = [todo EXCEPT !["indexer"] = mine]
      /\ affected' = {} /\ UNCHANGED <<chain, sessions, script, value>>
    BY DEF HeadersSent, LoopOver
<1>3. mine \subseteq Script
    BY <1>1 DEF TaskPart
<1> HIDE DEF mine
<1>4. TaskPart'
    BY <1>1, <1>2, <1>3, Typing DEF TaskPart, PCs
<1>5. tip = version
    BY <1>1, <1>2 DEF HeadersBehindTip
<1> QED
    BY <1>2, <1>4, <1>5, LoopStepKeeps

LEMMA MempoolChangedKeeps ==
    ASSUME NotesInv, NEW changed \in Changes, MempoolChanged(changed)
    PROVE  NotesInv'
<1>1. TaskPart /\ HeadersBehindTip /\ changed \subseteq Script
    BY Parts, NotificationsAssumption
<1> DEFINE mine == changed \cap Subscribed
<1>2. /\ pc' = [pc EXCEPT !["mempool"] = IF mine = {} THEN "idle" ELSE "status"]
      /\ todo' = [todo EXCEPT !["mempool"] = mine]
      /\ UNCHANGED <<chain, sessions, affected, script, value, pos, size, left, skipped>>
    BY DEF MempoolChanged, iterator
<1>3. mine \subseteq Script
    BY <1>1
<1> HIDE DEF mine
<1>4. TaskPart'
    BY <1>1, <1>2, <1>3, Typing DEF TaskPart, PCs
<1>5. pc'["indexer"] = pc["indexer"]
    BY <1>1, <1>2, Typing DEF TaskPart
<1> QED
    BY <1>1, <1>2, <1>4, <1>5, LoopStepKeeps DEF HeadersBehindTip

LEMMA NotifyKeeps ==
    ASSUME NotesInv, NEW t \in Tasks, Notify(t)
    PROVE  NotesInv'
<1>1. ChainPart /\ SessionPart /\ ToldPart /\ TaskPart /\ HeadersBehindTip
    BY Parts
<1>2. CASE StatusRead(t)
    <2>1. PICK x \in todo[t] : /\ todo' = [todo EXCEPT ![t] = @ \ {x}]
                               /\ script' = [script EXCEPT ![t] = x]
                               /\ value' = [value EXCEPT ![t] = status[x]]
        BY <1>2 DEF StatusRead
    <2>2. /\ pc[t] = "status" /\ pc' = [pc EXCEPT ![t] = "send"]
          /\ UNCHANGED <<chain, sessions, affected, pos, size, left, skipped>>
        BY <1>2 DEF StatusRead, iterator
    <2>3. x \in Script /\ status[x] \in Version
        BY <1>1 DEF TaskPart, ChainPart
    <2>4. TaskPart'
        BY <1>1, <2>1, <2>2, <2>3, Typing DEF TaskPart, PCs
    <2>5. pc["indexer"] \in {"committed", "rolling"} => pc'["indexer"] \in {"committed", "rolling"}
        BY <1>1, <2>2, Typing DEF TaskPart
    <2> QED
        BY <1>1, <2>2, <2>4, <2>5, LoopStepKeeps DEF HeadersBehindTip
<1>3. CASE StatusSent(t)
    <2> DEFINE s == Min(InReach(t))
    <2>1. /\ pc[t] = "send" /\ InReach(t) # {} /\ StepTo(t, s)
          /\ told' = [told EXCEPT ![s][script[t]] = value[t]]
          /\ UNCHANGED <<chain, clients, headers, subs, request, toldHeader, pc,
                         affected, todo, script, value>>
        BY <1>3 DEF StatusSent
    <2> HIDE DEF s
    <2>2. /\ s \in Session /\ pos' \in [Tasks -> 0 .. MaxSessions]
          /\ size' \in [Tasks -> 0 .. MaxConnections]
          /\ left' \in [Tasks -> 0 .. MaxConnections] /\ skipped' = skipped
        BY <1>1, <2>1, ReachFacts DEF s
    <2>3. ChainPart' /\ SessionPart' /\ HeadersBehindTip'
        BY <1>1, <2>1 DEF chain, clients, open, ChainPart, SessionPart, HeadersBehindTip
    <2>4. script[t] \in Script /\ value[t] \in Version
        BY <1>1, <2>1 DEF TaskPart
    <2>5. ToldPart'
        BY <1>1, <2>1, <2>2, <2>4 DEF ToldPart
    <2>6. TaskPart'
        BY <1>1, <2>1, <2>2 DEF TaskPart
    <2> QED
        BY <2>3, <2>5, <2>6, Parts
<1>4. CASE StatusLoopEnds(t) \/ IterationRaises(t)
    <2>1. /\ \E next \in {"idle", "status", "failed"} : LoopOver(t, next)
          /\ pc[t] \in {"header", "send"} /\ NoStatus(t)
          /\ todo' = todo \/ todo' = [todo EXCEPT ![t] = {}]
          /\ affected' \in {{}, affected} /\ UNCHANGED <<chain, sessions>>
        BY <1>4 DEF StatusLoopEnds, IterationRaises
    <2>2. PICK next \in {"idle", "status", "failed"} :
             /\ pc' = [pc EXCEPT ![t] = next]
             /\ pos' = [pos EXCEPT ![t] = 0] /\ size' = [size EXCEPT ![t] = 0]
             /\ left' = [left EXCEPT ![t] = 0] /\ skipped' = skipped \ {t}
        BY <2>1 DEF LoopOver
    <2>3. TaskPart'
        BY <1>1, <2>1, <2>2, Typing DEF NoStatus, TaskPart, PCs
    <2>4. pc["indexer"] \in {"committed", "rolling"} => pc'["indexer"] \in {"committed", "rolling"}
        BY <1>1, <2>1, <2>2, Typing DEF TaskPart
    <2> QED
        BY <1>1, <2>1, <2>3, <2>4, LoopStepKeeps DEF HeadersBehindTip
<1>5. CASE NextRound(t)
    <2>1. /\ pc[t] = "failed" /\ pc' = [pc EXCEPT ![t] = "idle"]
          /\ UNCHANGED <<chain, sessions, affected, loop>>
        BY <1>5 DEF NextRound
    <2>2. TaskPart'
        BY <1>1, <2>1, Typing DEF loop, iterator, TaskPart, PCs
    <2>3. pc["indexer"] \in {"committed", "rolling"} => pc'["indexer"] \in {"committed", "rolling"}
        BY <1>1, <2>1, Typing DEF TaskPart
    <2> QED
        BY <1>1, <2>1, <2>2, <2>3, LoopStepKeeps DEF HeadersBehindTip
<1> QED
    BY <1>2, <1>3, <1>4, <1>5 DEF Notify

-----------------------------------------------------------------------------
(* The sessions.                                                             *)

\* A step of a session has to see to its own variables only.
LEMMA SessionStepKeeps ==
    ASSUME NotesInv, UNCHANGED <<chain, pc, affected, todo, script, value, pos, size, left>>,
           skipped' \subseteq Tasks,
           SessionPart', ToldPart', \A s \in Session : toldHeader'[s] <= tip
    PROVE  NotesInv'
    BY Parts DEF chain, ChainPart, TaskPart, HeadersBehindTip

LEMMA LoopKept ==
    ASSUME NotesInv, UNCHANGED loop
    PROVE  UNCHANGED <<todo, script, value, pos, size, left>> /\ skipped' \subseteq Tasks
    BY Parts DEF loop, iterator, TaskPart

LEMMA ConnectKeeps ==
    ASSUME NotesInv, Connect
    PROVE  NotesInv'
<1>1. SessionPart /\ ToldPart /\ TaskPart /\ HeadersBehindTip
    BY Parts
<1> DEFINE new == connected + 1
<1> PICK rebuilt \in BOOLEAN : Insert(new, rebuilt)
    BY DEF Connect
<1> DEFINE place(q) == IF rebuilt THEN Cardinality({u \in open : u <= q}) ELSE slot[q]
           last == 1 + IF rebuilt THEN Cardinality(open) ELSE entries
<1>2. /\ connected < MaxSessions /\ Cardinality(open) < MaxConnections
      /\ connected' = new /\ entries' = last
      /\ slot' = [q \in Session |->
                    IF q = new THEN last ELSE IF q \in open THEN place(q) ELSE 0]
      /\ skipped' = skipped \cup {t \in Tasks : \E q \in Ahead(t) : slot'[q] <= pos[t]}
      /\ UNCHANGED <<chain, headers, subs, request, told, toldHeader, pc, affected,
                     todo, script, value, pos, size, left>>
    BY DEF Connect, Insert
<1>3. /\ IsFiniteSet(open) /\ Cardinality(open) \in Nat /\ Cardinality(open) <= connected
    BY <1>1, OpenFinite
<1>4. /\ connected \in Nat /\ entries \in Nat /\ entries <= connected
      /\ new \in Session /\ new \notin open /\ open \subseteq Session
    BY <1>1, <1>2, Typing DEF SessionPart, Session
<1>5. /\ last \in Nat /\ last # 0 /\ last <= new
    BY <1>3, <1>4
<1>6. ASSUME NEW q \in open PROVE place(q) \in 1 .. last
    <2>1. CASE ~rebuilt
        BY <1>1, <1>4, <2>1 DEF SessionPart, open
    <2>2. CASE rebuilt
        <3> DEFINE upto == {u \in open : u <= q}
        <3>1. upto \subseteq open /\ q \in upto
            BY <1>4, Typing DEF Session
        <3>2. IsFiniteSet(upto) /\ Cardinality(upto) <= Cardinality(open)
            BY <1>3, <3>1, FS_Subset
        <3>3. Cardinality(upto) \in Nat /\ Cardinality(upto) # 0
            BY <3>1, <3>2, FS_CardinalityType, FS_EmptySet
        <3> HIDE DEF upto
        <3> QED
            BY <1>3, <2>2, <3>2, <3>3 DEF upto
    <2> QED
        BY <2>1, <2>2
<1> HIDE DEF place, last
<1>7. slot' \in [Session -> 0 .. entries']
    BY <1>2, <1>5, <1>6
<1>8. open' = open \cup {new}
    BY <1>2, <1>4, <1>5, <1>6 DEF open
<1>9. Cardinality(open') <= MaxConnections
    <2>1. Cardinality(open \cup {new}) = Cardinality(open) + 1
        BY <1>3, <1>4, FS_AddElement
    <2> QED
        BY <1>2, <1>3, <1>8, <2>1, Typing
<1>10. /\ connected' \in 0 .. MaxSessions /\ open' \subseteq 1 .. connected'
       /\ entries' \in 0 .. connected'
    <2>1. connected' \in 0 .. MaxSessions
        BY <1>2, <1>4, Typing
    <2>2. entries' \in 0 .. connected'
        BY <1>2, <1>4, <1>5
    <2>3. open \subseteq 1 .. connected
        BY <1>1 DEF SessionPart
    <2>4. \A q \in 1 .. connected : q \in 1 .. new
        BY <1>4
    <2>5. new \in 1 .. new /\ connected' = new
        BY <1>2, <1>4
    <2>6. open' \subseteq 1 .. connected'
        BY ONLY <1>8, <2>3, <2>4, <2>5
    <2> QED
        BY <2>1, <2>2, <2>6
<1>11. SessionPart'
    BY <1>1, <1>2, <1>7, <1>8, <1>9, <1>10 DEF SessionPart
<1>12. skipped' \subseteq Tasks
    BY <1>1, <1>2 DEF TaskPart
<1> QED
    BY <1>1, <1>2, <1>11, <1>12, SessionStepKeeps DEF ToldPart, HeadersBehindTip

LEMMA ServeKeeps ==
    ASSUME NotesInv, NEW s \in Session, Serve(s)
    PROVE  NotesInv'
<1>1. ChainPart /\ SessionPart /\ ToldPart /\ HeadersBehindTip
    BY Parts
<1>2. s \in open /\ request[s].script \in Script /\ request[s] # NoRequest
    BY <1>1 DEF Serve, SubscribeRead, SubscribeReply, SessionPart
<1>3. CASE SubscribeRead(s)
    <2>1. /\ request' = [request EXCEPT ![s].answer = status[request[s].script]]
          /\ UNCHANGED <<chain, clients, headers, subs, told, toldHeader, pc,
                         affected, loop>>
        BY <1>3 DEF SubscribeRead
    <2>2. status[request[s].script] \in Version
        BY <1>1, <1>2 DEF ChainPart
    <2>3. request' \in [Session -> [script : Script \cup {"none"},
                                    answer : Version \cup {Nothing}]]
        BY <1>1, <2>1, <2>2 DEF SessionPart
    <2>4. \A q \in Session : q # s => request'[q] = request[q]
        BY <1>1, <2>1 DEF SessionPart
    <2>5. request'[s].script = request[s].script
        BY <1>1, <2>1 DEF SessionPart
    <2>6. SessionPart'
        BY <1>1, <1>2, <2>1, <2>3, <2>4, <2>5 DEF SessionPart, clients, open
    <2> QED
        BY <1>1, <2>1, <2>6, LoopKept, SessionStepKeeps DEF ToldPart, HeadersBehindTip
<1>4. CASE SubscribeReply(s)
    <2>1. /\ request[s].answer # Nothing
          /\ told' = [told EXCEPT ![s][request[s].script] = request[s].answer]
          /\ request' = [request EXCEPT ![s] = NoRequest]
          /\ UNCHANGED <<chain, clients, headers, subs, toldHeader, pc, affected,
                         loop>>
        BY <1>4 DEF SubscribeReply
    <2>2. request[s].answer \in Version
        BY <1>1, <2>1 DEF SessionPart
    <2>3. NoRequest \in [script : Script \cup {"none"}, answer : Version \cup {Nothing}]
        BY DEF NoRequest
    <2>4. SessionPart'
        BY <1>1, <1>2, <2>1, <2>3 DEF SessionPart, clients, open
    <2>5. ToldPart'
        BY <1>1, <1>2, <2>1, <2>2 DEF ToldPart
    <2> QED
        BY <1>1, <2>1, <2>4, <2>5, LoopKept, SessionStepKeeps DEF HeadersBehindTip
<1> QED
    BY <1>3, <1>4 DEF Serve

LEMMA ClientKeeps ==
    ASSUME NotesInv, NEW s \in Session, Client(s)
    PROVE  NotesInv'
<1>1. ChainPart /\ SessionPart /\ ToldPart /\ HeadersBehindTip
    BY Parts
<1>2. s \in open /\ request[s] = NoRequest
    BY DEF Client, CloseClient, HeadersSubscribe, ScripthashSubscribe,
           ScripthashUnsubscribe, Serving
<1>3. CASE CloseClient(s)
    <2>1. Departs(s)
        BY <1>3 DEF CloseClient
    <2>2. Cardinality(open') <= MaxConnections
        <3>1. IsFiniteSet(open) /\ Cardinality(open) \in Nat
            BY <1>1, OpenFinite
        <3>2. Cardinality(open \ {s}) = Cardinality(open) - 1
            BY <1>2, <3>1, FS_RemoveElement
        <3>3. Cardinality(open) <= MaxConnections /\ open' = open \ {s}
            BY <1>1, <1>2, <2>1 DEF SessionPart, Departs, open
        <3> QED
            BY <3>1, <3>2, <3>3, Typing
    <2>3. IsFiniteSet({}) /\ Cardinality({}) <= MaxSubscriptions
        BY FS_EmptySet, Typing
    <2>4. SessionPart'
        BY <1>1, <1>2, <2>1, <2>2, <2>3 DEF Departs, SessionPart, open
    <2>5. ToldPart'
        BY <1>1, <2>1 DEF Departs, ToldPart
    <2>6. \A q \in Session : toldHeader'[q] <= tip
        BY <1>1, <2>1 DEF Departs, ToldPart, HeadersBehindTip, ChainPart, Nothing, Version
    <2> QED
        BY <2>1, <2>4, <2>5, <2>6, LoopKept, SessionStepKeeps DEF Departs
<1>4. CASE HeadersSubscribe(s)
    <2>1. SessionPart'
        BY <1>1, <1>2, <1>4 DEF HeadersSubscribe, SessionPart, clients, open
    <2>2. ToldPart'
        BY <1>1, <1>4 DEF HeadersSubscribe, ToldPart, ChainPart
    <2>3. \A q \in Session : toldHeader'[q] <= tip
        BY <1>1, <1>4 DEF HeadersSubscribe, ToldPart, HeadersBehindTip, ChainPart, Version
    <2> QED
        BY <1>4, <2>1, <2>2, <2>3, LoopKept, SessionStepKeeps DEF HeadersSubscribe
<1>5. ASSUME NEW x \in Script, ScripthashSubscribe(s, x) PROVE NotesInv'
    <2>1. /\ Cardinality(subs[s]) < MaxSubscriptions
          /\ subs' = [subs EXCEPT ![s] = subs[s] \cup {x}]
          /\ request' = [request EXCEPT ![s] = [script |-> x, answer |-> Nothing]]
          /\ UNCHANGED <<chain, clients, headers, told, toldHeader, pc, affected,
                         loop>>
        BY <1>5 DEF ScripthashSubscribe
    <2>2. IsFiniteSet(subs[s]) /\ Cardinality(subs[s]) \in Nat
        BY <1>1, FS_CardinalityType DEF SessionPart
    <2>3. /\ IsFiniteSet(subs[s] \cup {x})
          /\ Cardinality(subs[s] \cup {x}) <= MaxSubscriptions
        <3>1. /\ IsFiniteSet(subs[s] \cup {x})
              /\ \/ Cardinality(subs[s] \cup {x}) = Cardinality(subs[s])
                 \/ Cardinality(subs[s] \cup {x}) = Cardinality(subs[s]) + 1
            BY <2>2, FS_AddElement
        <3> QED
            BY <2>1, <2>2, <3>1, Typing
    <2>4. /\ subs' \in [Session -> SUBSET Script]
          /\ \A q \in Session : IsFiniteSet(subs'[q]) /\ Cardinality(subs'[q]) <= MaxSubscriptions
        BY <1>1, <2>1, <2>3 DEF SessionPart
    <2>5. /\ request' \in [Session -> [script : Script \cup {"none"},
                                       answer : Version \cup {Nothing}]]
          /\ \A q \in Session : request'[q] # NoRequest => request'[q].script \in Script
          /\ \A q \in Session \ open : subs'[q] = {} /\ request'[q] = NoRequest
        BY <1>1, <1>2, <2>1 DEF SessionPart
    <2>6. SessionPart'
        BY <1>1, <2>1, <2>4, <2>5 DEF SessionPart, clients, open
    <2> QED
        BY <1>1, <2>1, <2>6, LoopKept, SessionStepKeeps DEF ToldPart, HeadersBehindTip
<1>6. ASSUME NEW x \in Script, ScripthashUnsubscribe(s, x) PROVE NotesInv'
    <2>1. /\ subs' = [subs EXCEPT ![s] = subs[s] \ {x}]
          /\ told' = [told EXCEPT ![s][x] = Nothing]
          /\ UNCHANGED <<chain, clients, headers, request, toldHeader, pc,
                         affected, loop>>
        BY <1>6 DEF ScripthashUnsubscribe
    <2>2. IsFiniteSet(subs[s]) /\ Cardinality(subs[s]) \in Nat
        BY <1>1, FS_CardinalityType DEF SessionPart
    <2>3. /\ IsFiniteSet(subs[s] \ {x})
          /\ Cardinality(subs[s] \ {x}) <= MaxSubscriptions
        <3>1. /\ IsFiniteSet(subs[s] \ {x})
              /\ Cardinality(subs[s] \ {x}) = Cardinality(subs[s]) - 1
            BY <1>6, <2>2, FS_RemoveElement DEF ScripthashUnsubscribe
        <3>2. Cardinality(subs[s]) <= MaxSubscriptions
            BY <1>1 DEF SessionPart
        <3> QED
            BY <2>2, <3>1, <3>2, Typing
    <2>4. SessionPart'
        BY <1>1, <1>2, <2>1, <2>3 DEF SessionPart, clients, open
    <2>5. ToldPart'
        BY <1>1, <2>1 DEF ToldPart
    <2> QED
        BY <1>1, <2>1, <2>4, <2>5, LoopKept, SessionStepKeeps DEF HeadersBehindTip
<1> QED
    BY <1>3, <1>4, <1>5, <1>6 DEF Client

-----------------------------------------------------------------------------
LEMMA NotesInvNext ==
    ASSUME NotesInv, [Next]_vars
    PROVE  NotesInv'
<1>1. CASE UNCHANGED vars
    BY <1>1, Parts
    DEF vars, chain, sessions, clients, open, loop, iterator, ChainPart, SessionPart, ToldPart, TaskPart,
        HeadersBehindTip
<1>2. CASE Next
    BY <1>2, ChainStepKeeps, IndexerStepKeeps, HeaderSentKeeps, HeadersSentKeeps,
       MempoolChangedKeeps, NotifyKeeps, ConnectKeeps, ServeKeeps, ClientKeeps
    DEF Next, IndexerStep
<1> QED
    BY <1>1, <1>2

LEMMA NotesHold == Spec => []NotesInv
    BY NotesInvInit, NotesInvNext, PTL DEF Spec

\* Types, and the limits on connections and subscriptions.
THEOREM NotesTypeCorrect == Spec => []TypeOK
<1>1. NotesInv => TypeOK
    BY DEF NotesInv
<1> QED
    BY NotesHold, <1>1, PTL

\* A notification shows the version, a reply the tip; neither is behind what
\* a session has, and whoever leaves has nothing any more.
LEMMA ToldHeaderGrows ==
    ASSUME NotesInv, [Next]_vars, NEW s \in open \cap open'
    PROVE  toldHeader'[s] >= toldHeader[s]
<1>1. /\ s \in Session /\ toldHeader \in [Session -> Version \cup {Nothing}]
      /\ toldHeader[s] <= tip /\ tip <= version /\ tip \in Int /\ version \in Int
      /\ toldHeader[s] \in Int
    <2>1. ChainPart /\ ToldPart /\ HeadersBehindTip /\ SessionPart
        BY Parts
    <2>2. s \in Session
        BY DEF open
    <2>3. tip <= version /\ tip \in Int /\ version \in Int
        BY <2>1, Typing DEF ChainPart, Version
    <2>4. toldHeader \in [Session -> Version \cup {Nothing}]
        BY <2>1 DEF ToldPart
    <2>5. toldHeader[s] <= tip
        BY <2>1, <2>2 DEF HeadersBehindTip
    <2>6. toldHeader[s] \in Version \cup {Nothing}
        BY <2>2, <2>4
    <2>7. toldHeader[s] \in Int
        BY <2>6, Typing DEF Version, Nothing
    <2> QED
        BY <2>2, <2>3, <2>4, <2>5, <2>7
<1>2. CASE toldHeader' = toldHeader
    BY <1>1, <1>2
<1>3. CASE HeaderSent
    <2>1. PICK q : toldHeader' = [toldHeader EXCEPT ![q] = version]
        BY <1>3 DEF HeaderSent
    <2> QED
        BY <1>1, <2>1
<1>4. ASSUME NEW q \in Session, HeadersSubscribe(q) PROVE toldHeader'[s] >= toldHeader[s]
    BY <1>1, <1>4 DEF HeadersSubscribe
<1>5. ASSUME NEW q \in Session, CloseClient(q) PROVE toldHeader'[s] >= toldHeader[s]
    <2>1. s # q /\ toldHeader' = [toldHeader EXCEPT ![q] = Nothing]
        BY <1>1, <1>5, Parts DEF CloseClient, Departs, SessionPart, open
    <2> QED
        BY <1>1, <2>1
<1>6. Next => \/ toldHeader' = toldHeader \/ HeaderSent
              \/ \E q \in Session : HeadersSubscribe(q) \/ CloseClient(q)
    BY DEF Next, IndexBlock, RollBackBlock, MempoolChanged, ChainChanges, IndexerStep,
           Indexed, RolledBack, ReorgHandled, HeadersSent, Notify, StatusRead,
           StatusSent, StatusLoopEnds, IterationRaises, NextRound, Connect, Serve, SubscribeRead,
           SubscribeReply, Client, ScripthashSubscribe, ScripthashUnsubscribe, sessions
<1>7. UNCHANGED vars => toldHeader' = toldHeader
    BY DEF vars, sessions
<1> QED
    BY <1>2, <1>3, <1>4, <1>5, <1>6, <1>7

\* No session gets a header older than one it has, from a reply or from a
\* notification, whatever the interleaving of commits, callbacks and requests.
THEOREM HeadersAreInOrder == Spec => HeadersInOrder
<1>1. NotesInv /\ [Next]_vars =>
        [\A s \in open \cap open' : toldHeader'[s] >= toldHeader[s]]_vars
    BY ToldHeaderGrows
<1> QED
    BY NotesHold, <1>1, PTL DEF Spec, HeadersInOrder
=============================================================================
