--------------------------- MODULE LifecycleProofs --------------------------
(* Proofs about Lifecycle, and with it about RpcClient, for every set of     *)
(* signals and every number of retries.                                      *)
EXTENDS Lifecycle, TLAPS

-----------------------------------------------------------------------------
(* The calls.  What a broadcaster's call has heard and given up on decides   *)
(* whether the node has its transaction.                                     *)

CallTypeOK ==
    /\ call \in [Caller -> {"idle", "posted", "waiting", "returned", "empty", "raised"}]
    /\ attempt \in [Caller -> Nat]
    /\ heard \in [Caller -> {"nothing", "ok", "refused", "error"}]
    /\ accepted \subseteq Broadcaster /\ lost \subseteq Broadcaster

\* A repetition is within the retries, and one more is left while waiting.
AttemptInv ==
    \A c \in Caller :
        /\ attempt[c] > 0 => attempt[c] < MaxRetries
        /\ call[c] = "waiting" => attempt[c] < MaxRetries - 1

BroadcastInv ==
    \A c \in Broadcaster :
        /\ heard[c] # "nothing" => call[c] = "posted"
        /\ heard[c] = "ok" \/ call[c] = "returned" => c \in accepted
        /\ c \in accepted /\ c \notin lost => heard[c] = "ok" \/ call[c] = "returned"
        /\ call[c] = "idle" => c \notin accepted /\ c \notin lost

RpcInv == CallTypeOK /\ AttemptInv /\ BroadcastInv

-----------------------------------------------------------------------------
(* The parts.                                                                *)

\* What start() has constructed and started by when.
StartInv ==
    /\ main \in {"boot", "info", "pool", "migrate", "load"} => task["mempool"] = "none"
    /\ main \in {"boot", "info", "pool", "migrate", "load", "height"} =>
           task["indexer"] = "none"
    /\ main \in {"height", "bind", "tls", "wait"} => built
    /\ listening => built /\ main \in {"tls", "wait", "failed", "exited"}
    /\ ~built => \A x \in DOMAIN running : ~running[x]

\* No connection is in use once the pool is gone, and no task is left after
\* the exit.
TaskInv ==
    /\ pool = "none" => \A t \in Task : task[t] # "db"
    /\ main = "exited" =>
           /\ \A t \in Task : task[t] \in {"none", "ended"}
           /\ \A c \in Caller : call[c] = "idle"

\* What a stop() has closed by when, if nothing is started after it: always
\* for the one of a failed start(), and for a signal's unless spoiled.
StopInv ==
    \A s \in Stopper : s = "main" \/ ~spoiled =>
        /\ stop[s] # "no" => main \in {"wait", "failed", "exited"}
        /\ stop[s] \in {"rpc", "pool", "done"} =>
               ~listening /\ \A x \in DOMAIN running : ~running[x]
        /\ stop[s] \in {"pool", "done"} => session = "none"
        /\ stop[s] = "done" => pool = "none"

\* Why the process may exit.
ExitInv ==
    /\ stop["main"] # "no" => main \in {"failed", "exited"}
    /\ \A s \in Stopper : stop[s] = "raised" => spoiled
    /\ over \/ (main = "exited" /\ ~spoiled) => \E s \in Stopper : stop[s] = "done"

LifeInv == LifeTypeOK /\ RpcInv /\ StartInv /\ TaskInv /\ StopInv /\ ExitInv

-----------------------------------------------------------------------------
(* The steps of a call keep RpcInv.                                          *)

\* A call leaves its place for another one, with nothing heard: what has to
\* hold of the new place and attempt.
LEMMA MoveFacts ==
    ASSUME CallTypeOK, AttemptInv, NEW c \in Caller,
           NEW place \in {"idle", "posted", "waiting", "returned", "empty", "raised"},
           NEW n \in Nat, Move(c, place, n),
           n > 0 => n < MaxRetries,
           place = "waiting" => n < MaxRetries - 1
    PROVE  /\ call' \in [Caller -> {"idle", "posted", "waiting", "returned", "empty", "raised"}]
           /\ attempt' \in [Caller -> Nat]
           /\ heard' \in [Caller -> {"nothing", "ok", "refused", "error"}]
           /\ AttemptInv'
           /\ call'[c] = place /\ heard'[c] = "nothing"
           /\ \A d \in Caller : d # c => call'[d] = call[d] /\ heard'[d] = heard[d]
    BY DEF CallTypeOK, AttemptInv, Move

\* A new call.
LEMMA CallWithKeeps ==
    ASSUME RpcInv, NEW c \in Caller, NEW current, CallWith(c, current)
    PROVE  RpcInv'
<1>1. PICK place \in {"posted", "raised"} : Move(c, place, 0)
    BY DEF CallWith, Post
<1>2. /\ CallTypeOK' /\ AttemptInv'
      /\ call'[c] = place /\ heard'[c] = "nothing"
      /\ \A d \in Caller : d # c => call'[d] = call[d] /\ heard'[d] = heard[d]
    BY <1>1, MoveFacts DEF RpcInv, CallTypeOK, CallWith
<1>3. BroadcastInv'
    BY <1>1, <1>2, RpcAssumption DEF RpcInv, BroadcastInv, CallWith
<1> QED
    BY <1>2, <1>3 DEF RpcInv

\* The caller takes the outcome.
LEMMA FinishKeeps ==
    ASSUME RpcInv, NEW c \in Caller, Finish(c)
    PROVE  RpcInv'
<1>1. /\ CallTypeOK' /\ AttemptInv'
      /\ call'[c] = "idle" /\ heard'[c] = "nothing"
      /\ \A d \in Caller : d # c => call'[d] = call[d] /\ heard'[d] = heard[d]
    BY MoveFacts DEF RpcInv, CallTypeOK, Finish
<1>2. BroadcastInv'
    BY <1>1, RpcAssumption DEF RpcInv, BroadcastInv, Finish
<1> QED
    BY <1>1, <1>2 DEF RpcInv

\* A step of a call under way.
LEMMA CallStepKeeps ==
    ASSUME RpcInv, NEW c \in Caller, CallStep(c)
    PROVE  RpcInv' /\ UNCHANGED session
<1> USE DEF RpcInv
<1>1. CASE NodeExecutes(c)
    <2>1. CallTypeOK' /\ AttemptInv' /\ UNCHANGED session
        BY <1>1 DEF NodeExecutes, CallTypeOK, AttemptInv
    <2>2. BroadcastInv'
        BY <1>1 DEF NodeExecutes, CallTypeOK, BroadcastInv
    <2> QED
        BY <2>1, <2>2
<1>2. CASE Returned(c)
    <2>1. /\ CallTypeOK' /\ AttemptInv' /\ UNCHANGED session
          /\ call'[c] = "returned" /\ heard'[c] = "nothing"
          /\ \A d \in Caller : d # c => call'[d] = call[d] /\ heard'[d] = heard[d]
        BY <1>2, MoveFacts DEF Returned, CallTypeOK
    <2>2. BroadcastInv'
        BY <1>2, <2>1, RpcAssumption DEF Returned, Answered, BroadcastInv
    <2> QED
        BY <2>1, <2>2
<1>3. CASE ReturnedEmpty(c) \/ Refused(c)
    <2>1. /\ CallTypeOK' /\ AttemptInv' /\ UNCHANGED session
          /\ call'[c] \in {"empty", "raised"} /\ heard'[c] = "nothing"
          /\ \A d \in Caller : d # c => call'[d] = call[d] /\ heard'[d] = heard[d]
        BY <1>3, MoveFacts DEF ReturnedEmpty, Refused, CallTypeOK
    <2>2. call[c] = "posted" /\ (c \in Broadcaster => heard[c] \in {"refused", "error"})
        BY <1>3 DEF ReturnedEmpty, Refused, Answered
    <2>3. UNCHANGED <<accepted, lost>>
        BY <1>3 DEF ReturnedEmpty, Refused
    <2>4. BroadcastInv'
        BY <2>1, <2>2, <2>3, RpcAssumption DEF BroadcastInv
    <2> QED
        BY <2>1, <2>4
<1>4. CASE Breaks(c) \/ TimesOut(c)
    <2>1. GiveUp(c) /\ call[c] = "posted"
        BY <1>4 DEF Breaks, TimesOut
    <2>2. PICK place \in {"waiting", "raised"}, n \in Nat :
              /\ Move(c, place, n)
              /\ n > 0 => n < MaxRetries
              /\ place = "waiting" => n < MaxRetries - 1
        <3>1. attempt[c] \in Nat /\ (attempt[c] > 0 => attempt[c] < MaxRetries)
            BY DEF CallTypeOK, AttemptInv
        <3> QED
            BY <1>4, <3>1 DEF Breaks, TimesOut, RetriesLeft
    <2>3. /\ CallTypeOK' /\ AttemptInv' /\ UNCHANGED session
          /\ call'[c] = place /\ heard'[c] = "nothing"
          /\ \A d \in Caller : d # c => call'[d] = call[d] /\ heard'[d] = heard[d]
        BY <2>1, <2>2, MoveFacts DEF GiveUp, CallTypeOK
    <2>4. BroadcastInv'
        BY <2>1, <2>2, <2>3, RpcAssumption DEF GiveUp, BroadcastInv
    <2> QED
        BY <2>3, <2>4
<1>5. CASE Resend(c)
    <2>1. call[c] = "waiting" /\ UNCHANGED <<session, accepted, lost>>
        BY <1>5 DEF Resend
    <2>2. PICK place \in {"posted", "raised"}, n \in Nat :
              Move(c, place, n) /\ (n > 0 => n < MaxRetries)
        <3>1. attempt[c] \in Nat /\ attempt[c] < MaxRetries - 1
            BY <2>1 DEF CallTypeOK, AttemptInv
        <3>2. attempt[c] + 1 \in Nat /\ attempt[c] + 1 < MaxRetries
            BY <3>1, RpcAssumption
        <3> QED
            BY <1>5, <3>2 DEF Resend, Post
    <2>3. /\ CallTypeOK' /\ AttemptInv'
          /\ call'[c] = place /\ heard'[c] = "nothing"
          /\ \A d \in Caller : d # c => call'[d] = call[d] /\ heard'[d] = heard[d]
        BY <2>1, <2>2, MoveFacts DEF CallTypeOK
    <2>4. BroadcastInv'
        BY <2>1, <2>2, <2>3, RpcAssumption DEF BroadcastInv
    <2> QED
        BY <2>1, <2>3, <2>4
<1> QED
    BY <1>1, <1>2, <1>3, <1>4, <1>5 DEF CallStep, AttemptEnds

\* The end of the process ends every call.
LEMMA ExitKeeps ==
    ASSUME RpcInv, MainExits
    PROVE  RpcInv'
    BY RpcAssumption, LifeAssumption
    DEF RpcInv, CallTypeOK, AttemptInv, BroadcastInv, MainExits

\* A step that leaves the calls alone.
LEMMA CallsUnchanged ==
    ASSUME RpcInv, UNCHANGED <<call, attempt, heard, accepted, lost>>
    PROVE  RpcInv'
    BY DEF RpcInv, CallTypeOK, AttemptInv, BroadcastInv

-----------------------------------------------------------------------------
(* The parts of stop().                                                      *)

\* What has been closed by a stop() that has got to `place`.
Closed(place) ==
    /\ place \in {"rpc", "pool", "done"} =>
           ~listening /\ \A x \in DOMAIN running : ~running[x]
    /\ place \in {"pool", "done"} => session = "none"
    /\ place = "done" => pool = "none"

\* The flags that stop() works on.
FlagsOK(flags) ==
    /\ flags \in [Task \cup {"server"} -> BOOLEAN]
    /\ ~built => \A x \in DOMAIN flags : ~flags[x]

\* A stop() gets to a place, with everything before it closed if that is to be
\* expected; nothing that was closed or told to end is opened or started.
Advances(s, place) ==
    /\ place \in {"server", "rpc", "pool", "done"}
    /\ stop' = [stop EXCEPT ![s] = place]
    /\ s = "main" \/ ~spoiled => Closed(place)'
    /\ running' \in [Task \cup {"server"} -> BOOLEAN]
    /\ \A x \in DOMAIN running : ~running[x] => ~running'[x]
    /\ session' \in {session, "closed", "none"} /\ (session = "none" => session' = "none")
    /\ pool' \in {pool, "closing", "none"} /\ (pool = "none" => pool' = "none")
    /\ over' = (over \/ place = "done")

\* The end of stop(), from the tasks on.
LEMMA StopTasksFacts ==
    ASSUME LifeTypeOK, NEW s \in Stopper, NEW flags, FlagsOK(flags),
           \A x \in DOMAIN running : ~running[x] => ~flags[x],
           StopTasks(s, flags), ~listening'
    PROVE  /\ \E place \in {"rpc", "pool", "done"} : Advances(s, place)
           /\ pool' \in {pool, "closing"}
<1>1. /\ running' \in [Task \cup {"server"} -> BOOLEAN]
      /\ \A x \in DOMAIN running' : ~running'[x]
      /\ \A x \in DOMAIN running : ~running[x] => ~running'[x]
    BY DEF StopTasks, FlagsOK, LifeTypeOK
<1>2. over \in BOOLEAN
    BY DEF LifeTypeOK
<1> QED
    BY <1>1, <1>2 DEF StopTasks, StopConnections, StopPool, Goes, Closed, Advances

\* stop() up to its first await.
LEMMA StopBeginsFacts ==
    ASSUME LifeTypeOK, StartInv, NEW s \in Stopper,
           StopBegins(s), UNCHANGED <<built, listening>>
    PROVE  /\ \E place \in {"server", "rpc", "pool", "done"} : Advances(s, place)
           /\ pool' \in {pool, "closing"}
<1> DEFINE flags == IF built THEN [running EXCEPT !["server"] = FALSE] ELSE running
<1>1. FlagsOK(flags) /\ \A x \in DOMAIN running : ~running[x] => ~flags[x]
    BY DEF LifeTypeOK, StartInv, FlagsOK
<1>2. over \in BOOLEAN
    BY DEF LifeTypeOK
<1>3. CASE built /\ listening
    <2>1. /\ stop' = [stop EXCEPT ![s] = "server"] /\ running' = flags
          /\ UNCHANGED <<session, pool, over>>
        BY <1>3 DEF StopBegins, Goes
    <2>2. Advances(s, "server")
        BY <1>1, <1>2, <2>1 DEF Advances, Closed, FlagsOK
    <2> QED
        BY <2>1, <2>2
<1>4. CASE ~(built /\ listening)
    <2>1. StopTasks(s, flags) /\ ~listening'
        BY <1>4 DEF StopBegins, StartInv
    <2> HIDE DEF flags
    <2> QED
        BY <1>1, <2>1, StopTasksFacts
<1> QED
    BY <1>3, <1>4

\* What a stop() that gets on leaves to show of the invariant.
LEMMA AdvanceKeeps ==
    ASSUME LifeInv, NEW s \in Stopper, NEW place, Advances(s, place),
           stop[s] # "done", main # "exited", main' \in {main, "failed"},
           s = "main" => main' = "failed",
           s # "main" /\ ~spoiled' => main' \in {"wait", "failed"},
           ~listening => ~listening', spoiled => spoiled'
    PROVE  /\ stop' \in [Stopper -> {"no", "server", "rpc", "pool", "done", "raised"}]
           /\ session' \in {"none", "open", "closed"}
           /\ pool' \in {"none", "open", "closing"}
           /\ over' \in BOOLEAN
           /\ StopInv' /\ ExitInv'
<1> USE DEF LifeInv
<1>1. /\ stop' \in [Stopper -> {"no", "server", "rpc", "pool", "done", "raised"}]
      /\ session' \in {"none", "open", "closed"}
      /\ pool' \in {"none", "open", "closing"}
      /\ over' \in BOOLEAN
      /\ DOMAIN running' = DOMAIN running
    BY DEF Advances, LifeTypeOK, RpcTypeOK
<1>2. stop'[s] = place /\ \A z \in Stopper : z # s => stop'[z] = stop[z]
    BY DEF Advances, LifeTypeOK
<1>3. StopInv'
    <2> SUFFICES ASSUME NEW z \in Stopper, z = "main" \/ ~spoiled'
                 PROVE  (stop'[z] # "no" => main' \in {"wait", "failed", "exited"})
                        /\ Closed(stop[z])'
        BY DEF StopInv, Closed
    <2>1. CASE z = s
        BY <1>2, <2>1 DEF Advances, Closed
    <2>2. CASE z # s
        <3>1. /\ stop[z] # "no" => main \in {"wait", "failed", "exited"}
              /\ Closed(stop[z])
            BY DEF StopInv, Closed
        <3> QED
            BY <1>1, <1>2, <2>2, <3>1 DEF Advances, Closed
    <2> QED
        BY <2>1, <2>2
<1>4. ExitInv'
    <2>1. stop'["main"] # "no" => main' \in {"failed", "exited"}
        BY <1>2 DEF ExitInv, Stopper
    <2>2. \A z \in Stopper : stop'[z] = "raised" => spoiled'
        BY <1>2 DEF ExitInv, Advances
    <2>3. over' => \E z \in Stopper : stop'[z] = "done"
        BY <1>2 DEF ExitInv, Advances
    <2> QED
        BY <2>1, <2>2, <2>3 DEF ExitInv
<1> QED
    BY <1>1, <1>3, <1>4

-----------------------------------------------------------------------------
(* The actions, a lemma for each group of them.                              *)

\* The steps of the stop()s, and a signal.
LEMMA StopKeeps ==
    ASSUME LifeInv, NEW s \in Stopper, main # "exited",
           \/ StopStep(s) \/ StopRaises(s)
           \/ s \in Signal /\ SignalArrives(s)
    PROVE  LifeInv'
<1> USE DEF LifeInv
<1>1. RpcInv' /\ UNCHANGED <<main, task, built, call>>
    <2>1. UNCHANGED <<call, attempt, heard, accepted, lost>>
        BY DEF StopStep, ServerStopped, SessionClosed, PoolClosed, PoolClosedIf,
               StopRaises, SignalArrives, rpcVars
    <2>2. UNCHANGED <<main, task, built>>
        BY DEF StopStep, ServerStopped, SessionClosed, PoolClosed, PoolClosedIf,
               StopRaises, SignalArrives
    <2> QED
        BY <2>1, <2>2, CallsUnchanged
<1>2. CASE ~StopRaises(s)
    <2>1. /\ \E place \in {"server", "rpc", "pool", "done"} : Advances(s, place)
          /\ pool' = "none" => pool = "none" \/ Released
          /\ ~listening => ~listening'
          /\ listening' => listening
          /\ listening' \in BOOLEAN
        <3>1. CASE ServerStopped(s)
            <4>1. FlagsOK(running)
                BY DEF LifeTypeOK, StartInv, FlagsOK
            <4> QED
                BY <3>1, <4>1, StopTasksFacts DEF ServerStopped, LifeTypeOK
        <3>2. CASE SessionClosed(s)
            <4>1. (s = "main" \/ ~spoiled => Closed(stop[s])) /\ over \in BOOLEAN
                BY DEF StopInv, Closed, LifeTypeOK
            <4>2. /\ UNCHANGED <<running, listening>> /\ session' = "none"
                  /\ stop[s] = "rpc"
                BY <3>2 DEF SessionClosed
            <4>3. CASE pool = "none"
                <5>1. /\ UNCHANGED pool /\ over'
                      /\ stop' = [stop EXCEPT ![s] = "done"]
                    BY <3>2, <4>3 DEF SessionClosed, StopPool, Goes
                <5>2. Advances(s, "done")
                    BY <4>1, <4>2, <4>3, <5>1 DEF Closed, Advances, LifeTypeOK
                <5> QED
                    BY <4>2, <4>3, <5>1, <5>2 DEF LifeTypeOK
            <4>4. CASE pool # "none"
                <5>1. /\ pool' = "closing" /\ UNCHANGED over
                      /\ stop' = [stop EXCEPT ![s] = "pool"]
                    BY <3>2, <4>4 DEF SessionClosed, StopPool, Goes
                <5>2. Advances(s, "pool")
                    BY <4>1, <4>2, <4>4, <5>1 DEF Closed, Advances, LifeTypeOK
                <5> QED
                    BY <4>2, <4>4, <5>1, <5>2 DEF LifeTypeOK
            <4> QED
                BY <4>3, <4>4
        <3>3. CASE PoolClosed(s)
            <4>1. (s = "main" \/ ~spoiled => Closed(stop[s])) /\ over \in BOOLEAN
                BY DEF StopInv, Closed, LifeTypeOK
            <4>2. /\ UNCHANGED <<running, listening, session>> /\ pool' = "none"
                  /\ stop[s] = "pool" /\ stop' = [stop EXCEPT ![s] = "done"] /\ over'
                  /\ Released
                BY <3>3 DEF PoolClosed, PoolClosedIf, Goes, rpcVars
            <4> QED
                BY <4>1, <4>2 DEF Closed, Advances, LifeTypeOK
        <3>4. CASE s \in Signal /\ SignalArrives(s)
            BY <3>4, StopBeginsFacts DEF SignalArrives, LifeTypeOK
        <3> QED
            BY <1>2, <3>1, <3>2, <3>3, <3>4 DEF StopStep
    <2>2. PICK place \in {"server", "rpc", "pool", "done"} : Advances(s, place)
        BY <2>1
    <2>3. /\ stop[s] # "done" /\ (spoiled => spoiled') /\ spoiled' \in BOOLEAN
          /\ s = "main" => main = "failed"
          /\ s # "main" /\ ~spoiled' => main \in {"wait", "failed"}
        <3>1. CASE s \in Signal /\ SignalArrives(s)
            BY <3>1, LifeAssumption DEF SignalArrives, LifeTypeOK
        <3>2. CASE StopStep(s)
            <4>1. stop[s] \in {"server", "rpc", "pool"} /\ UNCHANGED spoiled
                BY <3>2 DEF StopStep, ServerStopped, SessionClosed, PoolClosed, PoolClosedIf
            <4> QED
                BY <4>1 DEF ExitInv, StopInv, LifeTypeOK
        <3> QED
            BY <1>2, <3>1, <3>2
    <2>4. /\ stop' \in [Stopper -> {"no", "server", "rpc", "pool", "done", "raised"}]
          /\ session' \in {"none", "open", "closed"}
          /\ pool' \in {"none", "open", "closing"}
          /\ over' \in BOOLEAN
          /\ StopInv' /\ ExitInv'
        BY <1>1, <2>1, <2>2, <2>3, AdvanceKeeps
    <2>5. LifeTypeOK'
        BY <1>1, <2>1, <2>2, <2>3, <2>4
        DEF LifeTypeOK, RpcTypeOK, RpcInv, CallTypeOK, AttemptInv, Advances
    <2>6. StartInv'
        BY <1>1, <2>1, <2>2, <2>5 DEF StartInv, LifeTypeOK, Advances
    <2>7. TaskInv'
        BY <1>1, <2>1 DEF TaskInv, Released
    <2> QED
        BY <1>1, <2>4, <2>5, <2>6, <2>7
<1>3. CASE StopRaises(s)
    <2>1. /\ stop[s] \in {"server", "rpc", "pool"} /\ spoiled'
          /\ stop' = [stop EXCEPT ![s] = "raised"]
          /\ UNCHANGED <<session, running, listening, pool, over>>
        BY <1>3 DEF StopRaises, Goes, rpcVars
    <2>2. LifeTypeOK'
        BY <1>1, <2>1 DEF LifeTypeOK, RpcTypeOK, RpcInv, CallTypeOK, AttemptInv
    <2>3. StartInv' /\ TaskInv'
        BY <1>1, <2>1 DEF StartInv, TaskInv
    <2>4. /\ stop'[s] = "raised"
          /\ \A z \in Stopper : z # s => stop'[z] = stop[z]
        BY <2>1 DEF LifeTypeOK
    <2>5. StopInv'
        BY <1>1, <2>1, <2>4 DEF StopInv
    <2>6. ExitInv'
        BY <1>1, <2>1, <2>4 DEF ExitInv, Stopper
    <2> QED
        BY <1>1, <2>2, <2>3, <2>5, <2>6
<1> QED
    BY <1>2, <1>3

Starting == {"boot", "info", "pool", "migrate", "load", "height", "bind", "tls"}

\* While start() goes on, no stop() that counts has begun.
LEMMA StartKeepsStops ==
    ASSUME LifeInv, main \in Starting, main' # "exited", UNCHANGED <<stop, over, spoiled>>
    PROVE  StopInv' /\ ExitInv'
<1>1. \A s \in Stopper : s = "main" \/ ~spoiled => stop[s] = "no"
    BY DEF LifeInv, StopInv, Starting
<1>2. stop["main"] = "no"
    BY <1>1 DEF Stopper
<1> QED
    BY <1>1, <1>2 DEF LifeInv, StopInv, ExitInv

\* An exception in start().
LEMMA FailKeeps ==
    ASSUME LifeInv, Fail, main \in Starting, UNCHANGED <<task, built, listening, spoiled>>,
           RpcInv', \A t \in Task : call'[t] # "idle" => call[t] # "idle"
    PROVE  LifeInv'
<1> USE DEF LifeInv
<1>1. main' = "failed" /\ StopBegins("main") /\ "main" \in Stopper
    BY DEF Fail, Stopper
<1>2. /\ \E place \in {"server", "rpc", "pool", "done"} : Advances("main", place)
      /\ pool' \in {pool, "closing"}
    BY <1>1, StopBeginsFacts
<1>3. PICK place \in {"server", "rpc", "pool", "done"} : Advances("main", place)
    BY <1>2
<1>4. stop["main"] = "no" /\ main # "exited"
    BY <1>1 DEF StopInv, Starting
<1>5. /\ stop' \in [Stopper -> {"no", "server", "rpc", "pool", "done", "raised"}]
      /\ session' \in {"none", "open", "closed"}
      /\ pool' \in {"none", "open", "closing"}
      /\ over' \in BOOLEAN
      /\ StopInv' /\ ExitInv'
    BY <1>1, <1>3, <1>4, AdvanceKeeps
<1>6. LifeTypeOK'
    BY <1>1, <1>3, <1>5
    DEF LifeTypeOK, RpcTypeOK, RpcInv, CallTypeOK, AttemptInv, Advances
<1>7. StartInv'
    BY <1>1, <1>3, <1>6 DEF StartInv, LifeTypeOK, Advances
<1>8. TaskInv'
    BY <1>1, <1>2 DEF TaskInv
<1> QED
    BY <1>5, <1>6, <1>7, <1>8

\* start(), and the exit.
LEMMA StartStepKeeps ==
    ASSUME LifeInv, StartStep
    PROVE  LifeInv'
<1> USE DEF LifeInv
<1>1. CASE Boot
    <2>1. "start" \in Caller /\ main \in Starting
        BY <1>1, LifeAssumption DEF LifeCaller, Boot, Starting
    <2>2. RpcInv' /\ \A t \in Task : call'[t] = call[t]
        BY <1>1, <2>1, CallWithKeeps, LifeAssumption
        DEF Boot, CallWith, Post, Move, CallTypeOK, RpcInv, LifeCaller, Task
    <2>3. StopInv' /\ ExitInv'
        BY <1>1, <2>1, StartKeepsStops DEF Boot
    <2>4. LifeTypeOK'
        BY <1>1, <2>2 DEF Boot, LifeTypeOK, RpcTypeOK, RpcInv, CallTypeOK, AttemptInv
    <2>5. StartInv' /\ TaskInv'
        BY <1>1 DEF Boot, StartInv, TaskInv
    <2> QED
        BY <2>2, <2>3, <2>4, <2>5
<1>2. CASE InfoAnswered
    <2>1. "start" \in Caller /\ main \in Starting
        BY <1>2, LifeAssumption DEF LifeCaller, InfoAnswered, Starting
    <2>2. RpcInv' /\ \A t \in Task : call'[t] = call[t]
        BY <1>2, <2>1, FinishKeeps, LifeAssumption
        DEF InfoAnswered, Finish, Move, CallTypeOK, RpcInv, LifeCaller, Task
    <2>3. CASE Fail
        BY <1>2, <2>1, <2>2, <2>3, FailKeeps DEF InfoAnswered
    <2>4. CASE ~Fail
        <3>1. /\ main = "info" /\ main' = "pool"
              /\ UNCHANGED <<session, stop, running, pool, over, task, built,
                             listening, spoiled>>
            BY <1>2, <2>4 DEF InfoAnswered
        <3>2. StopInv' /\ ExitInv'
            BY <2>1, <3>1, StartKeepsStops
        <3>3. LifeTypeOK'
            BY <2>2, <3>1 DEF LifeTypeOK, RpcTypeOK, RpcInv, CallTypeOK, AttemptInv
        <3>4. StartInv' /\ TaskInv'
            BY <3>1 DEF StartInv, TaskInv
        <3> QED
            BY <2>2, <3>2, <3>3, <3>4
    <2> QED
        BY <2>3, <2>4
<1>3. CASE PoolMade
    <2>1. main \in Starting /\ UNCHANGED <<session, call, attempt, heard, accepted, lost>>
        BY <1>3 DEF PoolMade, Starting, rpcVars
    <2>2. RpcInv'
        BY <2>1, CallsUnchanged
    <2>3. StopInv' /\ ExitInv'
        BY <1>3, <2>1, StartKeepsStops DEF PoolMade
    <2>4. LifeTypeOK' /\ StartInv' /\ TaskInv'
        BY <1>3, <2>1 DEF PoolMade, LifeTypeOK, RpcTypeOK, StartInv, TaskInv
    <2> QED
        BY <2>2, <2>3, <2>4
<1>4. CASE Migrated
    <2>1. main \in Starting /\ UNCHANGED <<call, task, built, listening, spoiled>>
        BY <1>4 DEF Migrated, NeedsPool, Starting
    <2>2. RpcInv'
        BY <1>4, CallsUnchanged DEF Migrated
    <2>3. CASE Fail
        BY <2>1, <2>2, <2>3, FailKeeps
    <2>4. CASE ~Fail
        <3>1. main' = "load" /\ UNCHANGED <<stop, session, running, pool, over>>
            BY <1>4, <2>4 DEF Migrated, NeedsPool
        <3>2. StopInv' /\ ExitInv'
            BY <2>1, <3>1, StartKeepsStops
        <3>3. LifeTypeOK'
            BY <2>1, <2>2, <3>1 DEF LifeTypeOK, RpcTypeOK, RpcInv, CallTypeOK, AttemptInv
        <3>4. StartInv' /\ TaskInv'
            BY <1>4, <2>1, <3>1 DEF StartInv, TaskInv, Migrated, NeedsPool
        <3> QED
            BY <2>2, <3>2, <3>3, <3>4
    <2> QED
        BY <2>3, <2>4
<1>5. CASE Loaded
    <2>1. /\ main = "load" /\ main \in Starting /\ built'
          /\ task' = [task EXCEPT !["mempool"] = "top"]
          /\ task["mempool"] = "none" /\ task["indexer"] = "none"
          /\ UNCHANGED <<call, attempt, heard, accepted, lost, listening, spoiled>>
        BY <1>5 DEF Loaded, Starting, StartInv
    <2>2. RpcInv'
        BY <2>1, CallsUnchanged
    <2>3. /\ task' \in [Task -> {"none", "top", "rpc", "db", "ended"}]
          /\ \A t \in Task : call'[t] # "idle" => task'[t] = "rpc"
          /\ \A t \in Task : task'[t] # "db"
          /\ task'["indexer"] = "none"
        BY <2>1 DEF LifeTypeOK, Task
    <2>4. CASE pool = "open"
        <3>1. /\ main' = "height"
              /\ running' = [running EXCEPT !["mempool"] = TRUE, !["indexer"] = TRUE]
              /\ UNCHANGED <<stop, session, pool, over>>
            BY <1>5, <2>4 DEF Loaded
        <3>2. StopInv' /\ ExitInv'
            BY <2>1, <3>1, StartKeepsStops
        <3>3. LifeTypeOK'
            BY <2>1, <2>2, <2>3, <3>1
            DEF LifeTypeOK, RpcTypeOK, RpcInv, CallTypeOK, AttemptInv
        <3>4. StartInv' /\ TaskInv'
            BY <2>1, <2>3, <3>1 DEF StartInv, TaskInv
        <3> QED
            BY <2>2, <3>2, <3>3, <3>4
    <2>5. CASE pool # "open"
        <3>1. /\ main' = "failed" /\ StopConnections("main")
              /\ running' = [x \in DOMAIN running |-> FALSE]
              /\ "main" \in Stopper
            BY <1>5, <2>5 DEF Loaded, Stopper
        <3>2. ~listening'
            BY <2>1 DEF StartInv
        <3>3. \E place \in {"rpc", "pool", "done"} : Advances("main", place)
            BY <3>1, <3>2
            DEF StopConnections, StopPool, Goes, Advances, Closed, LifeTypeOK
        <3>4. PICK place \in {"rpc", "pool", "done"} : Advances("main", place)
            BY <3>3
        <3>5. stop["main"] = "no" /\ main # "exited"
            BY <2>1, <3>1 DEF StopInv, Starting
        <3>6. /\ stop' \in [Stopper -> {"no", "server", "rpc", "pool", "done", "raised"}]
              /\ session' \in {"none", "open", "closed"}
              /\ pool' \in {"none", "open", "closing"}
              /\ over' \in BOOLEAN
              /\ StopInv' /\ ExitInv'
            BY <2>1, <3>1, <3>4, <3>5, AdvanceKeeps
        <3>7. LifeTypeOK'
            BY <2>1, <2>2, <2>3, <3>1, <3>4, <3>6
            DEF LifeTypeOK, RpcTypeOK, RpcInv, CallTypeOK, AttemptInv, Advances
        <3>8. StartInv' /\ TaskInv'
            BY <2>1, <2>3, <3>1 DEF StartInv, TaskInv
        <3> QED
            BY <2>2, <3>6, <3>7, <3>8
    <2> QED
        BY <2>4, <2>5
<1>6. CASE HeightKnown
    <2>1. /\ main = "height" /\ main \in Starting /\ main' = "bind"
          /\ task' = [task EXCEPT !["indexer"] = "top"]
          /\ task["indexer"] = "none"
          /\ running' = [running EXCEPT !["server"] = TRUE]
          /\ UNCHANGED <<session, call, attempt, heard, accepted, lost, stop, built,
                         listening, pool, over, spoiled>>
        BY <1>6 DEF HeightKnown, Starting, StartInv, rpcVars
    <2>2. RpcInv'
        BY <2>1, CallsUnchanged
    <2>3. /\ task' \in [Task -> {"none", "top", "rpc", "db", "ended"}]
          /\ \A t \in Task : call'[t] # "idle" => task'[t] = "rpc"
          /\ \A t \in Task : task'[t] = "db" => task[t] = "db"
        BY <2>1 DEF LifeTypeOK, Task
    <2>4. StopInv' /\ ExitInv'
        BY <2>1, StartKeepsStops
    <2>5. LifeTypeOK'
        BY <2>1, <2>3 DEF LifeTypeOK, RpcTypeOK
    <2>6. StartInv' /\ TaskInv'
        BY <2>1, <2>3 DEF StartInv, TaskInv
    <2> QED
        BY <2>2, <2>4, <2>5, <2>6
<1>7. CASE Bound \/ TlsBound
    <2>1. /\ main \in {"bind", "tls"} /\ main \in Starting /\ main' \in {"tls", "wait"}
          /\ listening' \in BOOLEAN
          /\ UNCHANGED <<session, call, attempt, heard, accepted, lost, stop, task,
                         built, running, pool, over, spoiled>>
        BY <1>7 DEF Bound, TlsBound, Starting, LifeTypeOK, rpcVars
    <2>2. RpcInv'
        BY <2>1, CallsUnchanged
    <2>3. StopInv' /\ ExitInv'
        BY <2>1, StartKeepsStops
    <2>4. LifeTypeOK' /\ StartInv' /\ TaskInv'
        BY <2>1 DEF LifeTypeOK, RpcTypeOK, StartInv, TaskInv
    <2> QED
        BY <2>2, <2>3, <2>4
<1>8. CASE MainExits
    <2>1. /\ main \in {"wait", "failed"} /\ main' = "exited"
          /\ \/ over
             \/ main = "failed" /\ stop["main"] \in {"done", "raised"}
          /\ task' = [t \in Task |-> IF task[t] = "none" THEN "none" ELSE "ended"]
          /\ call' = [c \in Caller |-> "idle"]
          /\ UNCHANGED <<session, stop, built, running, listening, pool, over, spoiled>>
        BY <1>8 DEF MainExits
    <2>2. RpcInv'
        BY <1>8, ExitKeeps
    <2>3. Task \subseteq Caller /\ "main" \in Stopper
        BY LifeAssumption DEF LifeCaller, Stopper
    <2>4. LifeTypeOK'
        BY <2>1, <2>2, <2>3
        DEF LifeTypeOK, RpcTypeOK, RpcInv, CallTypeOK, AttemptInv
    <2>5. StartInv' /\ TaskInv' /\ StopInv'
        BY <2>1, <2>3 DEF StartInv, TaskInv, StopInv
    <2>6. ExitInv'
        BY <2>1, <2>3 DEF ExitInv
    <2> QED
        BY <2>2, <2>4, <2>5, <2>6
<1>9. CASE \E place \in {"pool", "migrate", "load", "height", "bind", "tls"} :
               StepFails(place)
    <2>1. /\ main \in Starting /\ Fail
          /\ UNCHANGED <<call, attempt, heard, accepted, lost, task, built, listening,
                         spoiled>>
        BY <1>9 DEF StepFails, Starting
    <2> QED
        BY <2>1, CallsUnchanged, FailKeeps
<1> QED
    BY <1>1, <1>2, <1>3, <1>4, <1>5, <1>6, <1>7, <1>8, <1>9 DEF StartStep

\* The tasks and the clients.
LEMMA TaskStepKeeps ==
    ASSUME LifeInv,
           \/ \E t \in Task : TaskStep(t)
           \/ Broadcast \/ Replied
           \/ \E c \in Caller : CallStep(c) /\ UNCHANGED lifeVars
    PROVE  LifeInv'
<1> USE DEF LifeInv
<1>1. /\ UNCHANGED <<session, main, stop, built, running, listening, pool, over, spoiled>>
      /\ RpcInv'
    <2>1. CASE \E t \in Task : TaskStep(t)
        <3>1. PICK t \in Task : TaskStep(t)
            BY <2>1
        <3>2. t \in Caller
            BY LifeAssumption DEF LifeCaller
        <3>3. UNCHANGED <<session, main, stop, built, running, listening, pool, over,
                          spoiled>>
            BY <3>1 DEF TaskStep, Top, TaskAnswered, DbDone, CallsNode, rpcVars
        <3>4. CallWith(t, session) \/ Finish(t) \/ UNCHANGED rpcVars
            BY <3>1 DEF TaskStep, Top, TaskAnswered, DbDone, CallsNode
        <3> QED
            BY <3>2, <3>3, <3>4, CallWithKeeps, FinishKeeps, CallsUnchanged DEF rpcVars
    <2>2. CASE Broadcast \/ Replied
        <3>1. "client" \in Caller
            BY LifeAssumption DEF LifeCaller
        <3> QED
            BY <2>2, <3>1, CallWithKeeps, FinishKeeps DEF Broadcast, Replied, lifeVars
    <2>3. CASE \E c \in Caller : CallStep(c) /\ UNCHANGED lifeVars
        BY <2>3, CallStepKeeps DEF lifeVars
    <2> QED
        BY <2>1, <2>2, <2>3
<1>2. /\ task' \in [Task -> {"none", "top", "rpc", "db", "ended"}]
      /\ \A t \in Task : call'[t] # "idle" => task'[t] = "rpc"
      /\ \A t \in Task : task'[t] = "db" => task[t] = "db" \/ pool = "open"
      /\ main # "exited"
      /\ \A t \in Task : task[t] = "none" => task'[t] = "none"
    <2>1. CASE \E t \in Task : TaskStep(t)
        <3>1. PICK t \in Task : TaskStep(t)
            BY <2>1
        <3>2. Task \subseteq Caller
            BY LifeAssumption DEF LifeCaller
        <3>3. task[t] \in {"top", "rpc", "db"} /\ main # "exited"
            BY <3>1 DEF TaskStep, Top, TaskAnswered, DbDone, TaskInv
        <3>4. PICK place \in {"top", "rpc", "db", "ended"} :
                  /\ task' = [task EXCEPT ![t] = place]
                  /\ place = "db" => pool = "open"
                  /\ place # "rpc" => call'[t] = "idle"
                  /\ \A u \in Task : u # t => call'[u] = call[u]
            <4>1. CASE Top(t)
                <5>1. call[t] = "idle"
                    BY <4>1 DEF Top, LifeTypeOK
                <5> QED
                    BY <3>2, <4>1, <5>1
                    DEF Top, CallsNode, CallWith, Post, Move, RpcInv, CallTypeOK, rpcVars
            <4>2. CASE TaskAnswered(t)
                BY <3>2, <4>2 DEF TaskAnswered, Finish, Move, RpcInv, CallTypeOK
            <4>3. CASE DbDone(t)
                <5>1. call[t] = "idle"
                    BY <4>3 DEF DbDone, LifeTypeOK
                <5> QED
                    BY <3>2, <4>3, <5>1
                    DEF DbDone, CallsNode, CallWith, Post, Move, RpcInv, CallTypeOK, rpcVars
            <4> QED
                BY <3>1, <4>1, <4>2, <4>3 DEF TaskStep
        <3> QED
            BY <3>2, <3>3, <3>4 DEF LifeTypeOK
    <2>2. CASE Broadcast \/ Replied
        <3>1. /\ "client" \in Caller /\ "client" \notin Task /\ Task \subseteq Caller
              /\ UNCHANGED task
            BY <2>2, LifeAssumption DEF LifeCaller, Task, Broadcast, Replied, lifeVars
        <3>2. main # "exited"
            BY <2>2, <3>1 DEF Broadcast, Replied, TaskInv
        <3>3. \A t \in Task : call'[t] = call[t]
            BY <2>2, <3>1
            DEF Broadcast, Replied, CallWith, Post, Finish, Move, RpcInv, CallTypeOK
        <3> QED
            BY <3>1, <3>2, <3>3 DEF LifeTypeOK
    <2>3. CASE \E c \in Caller : CallStep(c) /\ UNCHANGED lifeVars
        <3>1. PICK c \in Caller : CallStep(c) /\ UNCHANGED lifeVars
            BY <2>3
        <3>2. call[c] # "idle"
            BY <3>1 DEF CallStep, AttemptEnds, NodeExecutes, Returned, ReturnedEmpty, Refused, Answered,
                        Breaks, TimesOut, Resend
        <3>3. \A d \in Caller : d # c => call'[d] = call[d]
            BY <3>1
            DEF CallStep, AttemptEnds, NodeExecutes, Returned, ReturnedEmpty, Refused, Breaks, TimesOut,
                Resend, Post, Move, RpcInv, CallTypeOK
        <3>4. main # "exited" /\ UNCHANGED task /\ Task \subseteq Caller
            BY <3>1, <3>2, LifeAssumption DEF TaskInv, LifeCaller, lifeVars
        <3> QED
            BY <3>2, <3>3, <3>4 DEF LifeTypeOK
    <2> QED
        BY <2>1, <2>2, <2>3
<1>3. LifeTypeOK'
    BY <1>1, <1>2 DEF LifeTypeOK, RpcTypeOK, RpcInv, CallTypeOK, AttemptInv
<1>4. StartInv' /\ TaskInv'
    BY <1>1, <1>2 DEF StartInv, TaskInv, Task
<1>5. StopInv' /\ ExitInv'
    BY <1>1 DEF StopInv, ExitInv
<1> QED
    BY <1>1, <1>3, <1>4, <1>5

-----------------------------------------------------------------------------
(* The theorems.                                                             *)

\* LifeInv holds at the start.
LEMMA LifeInvInit == Init => LifeInv
<1> SUFFICES ASSUME Init PROVE LifeInv
    OBVIOUS
<1>1. /\ session = "none" /\ accepted = {} /\ lost = {}
      /\ \A c \in Caller : call[c] = "idle" /\ attempt[c] = 0 /\ heard[c] = "nothing"
    BY DEF Init, RpcInit
<1>2. /\ call \in [Caller -> {"idle", "posted", "waiting", "returned", "empty", "raised"}]
      /\ attempt \in [Caller -> Nat]
      /\ heard \in [Caller -> {"nothing", "ok", "refused", "error"}]
    BY DEF Init, RpcInit
<1>3. RpcInv
    BY <1>1, <1>2, RpcAssumption DEF RpcInv, CallTypeOK, AttemptInv, BroadcastInv
<1>4. RpcTypeOK
    BY <1>1, <1>2 DEF RpcTypeOK
<1>5. LifeTypeOK
    <2>1. \A t \in Task : call[t] = "idle"
        BY <1>1, LifeAssumption DEF LifeCaller
    <2> QED
        BY <1>4, <2>1 DEF Init, LifeTypeOK
<1>6. StartInv /\ TaskInv /\ StopInv /\ ExitInv
    BY DEF Init, StartInv, TaskInv, StopInv, ExitInv, Task, Stopper
<1> QED
    BY <1>3, <1>5, <1>6 DEF LifeInv

\* Every step keeps it.
LEMMA LifeInvNext == LifeInv /\ [Next]_all => LifeInv'
<1> SUFFICES ASSUME LifeInv, [Next]_all PROVE LifeInv'
    OBVIOUS
<1>1. CASE StartStep
    BY <1>1, StartStepKeeps
<1>2. CASE \/ \E t \in Task : TaskStep(t)
           \/ Broadcast \/ Replied
           \/ \E c \in Caller : CallStep(c) /\ UNCHANGED lifeVars
    BY <1>2, TaskStepKeeps
<1>3. CASE \E s \in Signal : SignalArrives(s)
    <2>1. PICK s \in Signal : SignalArrives(s)
        BY <1>3
    <2>2. s \in Stopper /\ main # "exited"
        BY <2>1 DEF Stopper, SignalArrives
    <2> QED
        BY <2>1, <2>2, StopKeeps
<1>4. CASE \E s \in Stopper : main # "exited" /\ (StopStep(s) \/ StopRaises(s))
    BY <1>4, StopKeeps
<1>5. CASE UNCHANGED all
    BY <1>5
    DEF all, rpcVars, lifeVars, LifeInv, LifeTypeOK, RpcTypeOK, RpcInv, CallTypeOK,
        AttemptInv, BroadcastInv, StartInv, TaskInv, StopInv, ExitInv
<1> QED
    BY <1>1, <1>2, <1>3, <1>4, <1>5 DEF Next

\* So it always holds.
LEMMA LifeInvHolds == Spec => []LifeInv
    BY LifeInvInit, LifeInvNext, PTL DEF Spec

\* Type correctness of the client and of the parts, with it that no task has
\* a call under way unless it waits for it.
THEOREM LifeTypeCorrect == Spec => []LifeTypeOK
<1>1. LifeInv => LifeTypeOK
    BY DEF LifeInv
<1> QED
    BY <1>1, LifeInvHolds, PTL

\* transaction.broadcast never reports a success that is none, however often
\* the request was repeated, and however many retries there are.
THEOREM BroadcastSuccessIsTrue == Spec => []SuccessIsTrue
<1>1. LifeInv => SuccessIsTrue
    BY DEF LifeInv, RpcInv, BroadcastInv, SuccessIsTrue
<1> QED
    BY <1>1, LifeInvHolds, PTL

\* And a failure only for a transaction that the node refused, unless the
\* client gave up on one of its requests.
THEOREM BroadcastFailureIsTrue == Spec => []FailureIsTrueUnlessLost
<1>1. LifeInv => FailureIsTrueUnlessLost
    BY DEF LifeInv, RpcInv, BroadcastInv, FailureIsTrueUnlessLost
<1> QED
    BY <1>1, LifeInvHolds, PTL

\* The process leaves nothing open when it exits, however many signals came,
\* and wherever start() failed.
THEOREM ExitIsClean == Spec => []ExitReleases
<1>1. LifeInv => ExitReleases
    <2> SUFFICES ASSUME LifeInv, main = "exited", ~spoiled \/ stop["main"] = "done"
                 PROVE  /\ session = "none" /\ pool = "none" /\ ~listening
                        /\ \A x \in DOMAIN running : ~running[x]
        BY DEF ExitReleases
    <2>1. \E s \in Stopper : (s = "main" \/ ~spoiled) /\ stop[s] = "done"
        BY DEF LifeInv, ExitInv, Stopper
    <2> QED
        BY <2>1 DEF LifeInv, StopInv
<1> QED
    BY <1>1, LifeInvHolds, PTL

\* And it cuts no database operation of the indexer or the tracker short.
THEOREM ExitIsBetweenCommits == Spec => ExitCutsNoCommit
<1>1. LifeInv /\ [Next]_all =>
        [main' = "exited" /\ (~spoiled \/ stop["main"] = "done") =>
            \A t \in Task : task[t] # "db"]_all
    <2> SUFFICES ASSUME LifeInv, Next, main' = "exited",
                        ~spoiled \/ stop["main"] = "done"
                 PROVE  \A t \in Task : task[t] # "db"
        OBVIOUS
    <2>1. CASE main = "exited"
        BY <2>1 DEF LifeInv, TaskInv
    <2>2. CASE main # "exited"
        <3>1. MainExits
            BY <2>2
            DEF Next, StartStep, Boot, InfoAnswered, PoolMade, Migrated, NeedsPool, Loaded,
                HeightKnown, Bound, TlsBound, StepFails, Fail, TaskStep, Top,
                TaskAnswered, DbDone, Broadcast, Replied, SignalArrives, StopStep,
                ServerStopped, SessionClosed, PoolClosed, PoolClosedIf, StopRaises,
                lifeVars
        <3>2. \E s \in Stopper : (s = "main" \/ ~spoiled) /\ stop[s] = "done"
            BY <3>1 DEF MainExits, LifeInv, ExitInv, Stopper
        <3> QED
            BY <3>2 DEF LifeInv, StopInv, TaskInv
    <2> QED
        BY <2>1, <2>2
<1> QED
    BY <1>1, LifeInvHolds, PTL DEF Spec, ExitCutsNoCommit
=============================================================================
