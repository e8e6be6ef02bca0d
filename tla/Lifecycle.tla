------------------------------ MODULE Lifecycle -----------------------------
(* main.py: Rythmicd.start, stop and run_server, the parts they start and    *)
(* stop, and signals at any moment.  Each signal makes a task of its own     *)
(* that runs stop(), beside start() and beside each other.                   *)
(*                                                                           *)
(* main   "boot"     before start()                                          *)
(*        "info"     awaiting get_blockchain_info                            *)
(*        "pool"     awaiting create_pool                                    *)
(*        "migrate"  awaiting the schema                                     *)
(*        "load"     awaiting the header cache                               *)
(*        "height"   in indexer.start, awaiting the database                 *)
(*        "bind"     awaiting start_server for TCP                           *)
(*        "tls"      awaiting start_server for TLS, if it is configured      *)
(*        "wait"     in wait_for_shutdown                                    *)
(*        "failed"   start() raised and awaits its own stop()                *)
(*        "exited"   the process is gone                                     *)
(* stop   per task running stop(): "no", awaiting "server", "rpc" or "pool", *)
(*        "done", "raised"                                                   *)
(* task   of the tracker and the indexer: "none", "top" of the loop, in an   *)
(*        "rpc" call, in a "db" operation, "ended"                           *)
EXTENDS RpcClient

CONSTANTS Signal

Task == {"mempool", "indexer"}

\* Who calls the node: start(), the two tasks, a client's broadcast.
LifeCaller == Task \cup {"start", "client"}

Stopper == Signal \cup {"main"}

ASSUME LifeAssumption ==
    /\ Caller = LifeCaller /\ Broadcaster = {"client"}
    /\ "main" \notin Signal

VARIABLES
    main, stop, task,
    built,      \* are indexer, tracker and server constructed?
    running,    \* the _running flags of the tasks and of the server
    listening,  \* is the socket open?
    pool,       \* _pool: "none", "open", or "closing" until it is set to None
    over,       \* _shutdown_event
    spoiled     \* history: a signal came while start() was under way, or a
                \* stop() raised

lifeVars == <<main, stop, task, built, running, listening, pool, over, spoiled>>
all == <<rpcVars, lifeVars>>

-----------------------------------------------------------------------------
Init ==
    /\ RpcInit
    /\ main = "boot"
    /\ stop = [s \in Stopper |-> "no"]
    /\ task = [t \in Task |-> "none"]
    /\ running = [x \in Task \cup {"server"} |-> FALSE]
    /\ built = FALSE /\ listening = FALSE
    /\ pool = "none"
    /\ over = FALSE /\ spoiled = FALSE

-----------------------------------------------------------------------------
(* stop().                                                                   *)

Goes(s, place) == stop' = [stop EXCEPT ![s] = place]

\* The last part: the pool, which closes when its connections are released.
StopPool(s) ==
    IF pool = "none"
    THEN Goes(s, "done") /\ over' = TRUE /\ UNCHANGED pool
    ELSE Goes(s, "pool") /\ pool' = "closing" /\ UNCHANGED over

\* Before it the RPC session.
StopConnections(s) ==
    IF session = "none"
    THEN StopPool(s) /\ UNCHANGED session
    ELSE Goes(s, "rpc") /\ session' = "closed" /\ UNCHANGED <<pool, over>>

\* And before that the tasks, which are not waited for.
StopTasks(s, flags) ==
    /\ running' = IF built THEN [x \in DOMAIN flags |-> FALSE] ELSE flags
    /\ StopConnections(s)

\* Up to the first await: server.stop() has clients or a socket to wait for
\* only once it listens.
StopBegins(s) ==
    LET flags == IF built THEN [running EXCEPT !["server"] = FALSE] ELSE running
    IN IF built /\ listening
       THEN Goes(s, "server") /\ running' = flags /\ UNCHANGED <<session, pool, over>>
       ELSE StopTasks(s, flags)

ServerStopped(s) ==
    /\ stop[s] = "server"
    /\ listening' = FALSE
    /\ StopTasks(s, running)
    /\ UNCHANGED <<call, attempt, heard, accepted, lost,
                   main, task, built, spoiled>>

SessionClosed(s) ==
    /\ stop[s] = "rpc"
    /\ session' = "none"
    /\ StopPool(s)
    /\ UNCHANGED <<call, attempt, heard, accepted, lost,
                   main, task, built, running, listening, spoiled>>

PoolClosedIf(s, ready) ==
    /\ stop[s] = "pool"
    /\ ready
    /\ pool' = "none"
    /\ Goes(s, "done") /\ over' = TRUE
    /\ UNCHANGED <<rpcVars, main, task, built, running, listening, spoiled>>

\* Every connection was released.
Released ==
    /\ \A t \in Task : task[t] # "db"
    /\ main \notin {"migrate", "load", "height"}

\* Mutant: the connections are cut.
PoolCut(s) == PoolClosedIf(s, TRUE)

\* Mutant: the event is not set at the end.
PoolClosedSilently(s) ==
    /\ stop[s] = "pool" /\ Released
    /\ pool' = "none"
    /\ Goes(s, "done")
    /\ UNCHANGED <<rpcVars, main, task, built, running, listening, over, spoiled>>

PoolClosed(s) == PoolClosedIf(s, Released)

\* One of the awaits of stop() raises; what follows it is not done.
StopRaises(s) ==
    /\ stop[s] \in {"server", "rpc", "pool"}
    /\ Goes(s, "raised")
    /\ spoiled' = TRUE
    /\ UNCHANGED <<rpcVars, main, task, built, running, listening, pool, over>>

\* SIGTERM or SIGINT, once for each member of Signal.
SignalArrives(s) ==
    /\ stop[s] = "no"
    /\ main \notin {"boot", "exited"}
    /\ StopBegins(s)
    /\ spoiled' = (spoiled \/ main \notin {"wait", "failed"})
    /\ UNCHANGED <<call, attempt, heard, accepted, lost,
                   main, task, built, listening>>

-----------------------------------------------------------------------------
(* start().                                                                  *)

Boot ==
    /\ main = "boot"
    /\ main' = "info"
    /\ session' = "open"
    /\ CallWith("start", "open")
    /\ UNCHANGED <<stop, task, built, running, listening, pool, over, spoiled>>

\* Mutant: the exception leaves start() at once.
FailWithoutStop ==
    /\ main' = "exited"
    /\ UNCHANGED <<stop, session, running, pool, over>>

\* except Exception: await self.stop(), then raise.
Fail ==
    /\ main' = "failed"
    /\ StopBegins("main")

InfoAnswered ==
    /\ main = "info"
    /\ Finish("start") /\ UNCHANGED session
    /\ IF call["start"] = "returned"
       THEN main' = "pool" /\ UNCHANGED <<stop, running, pool, over>>
       ELSE call["start"] = "raised" /\ Fail
    /\ UNCHANGED <<task, built, listening, spoiled>>

\* The await of start() at `place` raises.
StepFails(place) ==
    /\ main = place
    /\ Fail
    /\ UNCHANGED <<call, attempt, heard, accepted, lost,
                   task, built, listening, spoiled>>

\* start() goes on with the database if the pool still gives connections.
NeedsPool(from, to) ==
    /\ main = from
    /\ IF pool = "open" THEN main' = to /\ UNCHANGED <<stop, session, running, pool, over>>
       ELSE Fail

PoolMade ==
    /\ main = "pool"
    /\ main' = "migrate"
    /\ pool' = "open"
    /\ UNCHANGED <<rpcVars, stop, task, built, running, listening, over, spoiled>>

Migrated ==
    /\ NeedsPool("migrate", "load")
    /\ UNCHANGED <<call, attempt, heard, accepted, lost,
                   task, built, listening, spoiled>>

\* The parts are constructed, the tracker's task starts, and indexer.start()
\* asks for the indexed height, all without an await.
Loaded ==
    /\ main = "load"
    /\ built' = TRUE
    /\ task' = [task EXCEPT !["mempool"] = "top"]
    /\ IF pool = "open"
       THEN /\ main' = "height"
            /\ running' = [running EXCEPT !["mempool"] = TRUE, !["indexer"] = TRUE]
            /\ UNCHANGED <<stop, session, pool, over>>
       ELSE /\ main' = "failed"
            /\ running' = [x \in DOMAIN running |-> FALSE]
            /\ StopConnections("main")
    /\ UNCHANGED <<call, attempt, heard, accepted, lost, listening, spoiled>>

\* The height and the headers are there: the indexer's task starts, and
\* server.start() sets its flag.
HeightKnown ==
    /\ main = "height"
    /\ main' = "bind"
    /\ task' = [task EXCEPT !["indexer"] = "top"]
    /\ running' = [running EXCEPT !["server"] = TRUE]
    /\ UNCHANGED <<rpcVars, stop, built, listening, pool, over, spoiled>>

Bound ==
    /\ main = "bind"
    /\ main' \in {"tls", "wait"}
    /\ listening' = TRUE
    /\ UNCHANGED <<rpcVars, stop, task, built, running, pool, over, spoiled>>

TlsBound ==
    /\ main = "tls"
    /\ main' = "wait"
    /\ listening' = TRUE
    /\ UNCHANGED <<rpcVars, stop, task, built, running, pool, over, spoiled>>

\* run_server returns or exits, and asyncio.run cancels what is left.
MainExits ==
    /\ \/ main = "wait" /\ over
       \/ main = "failed" /\ stop["main"] \in {"done", "raised"}
    /\ main' = "exited"
    /\ task' = [t \in Task |-> IF task[t] = "none" THEN "none" ELSE "ended"]
    /\ call' = [c \in Caller |-> "idle"] /\ heard' = [c \in Caller |-> "nothing"]
    /\ attempt' = [c \in Caller |-> 0] /\ accepted' = {} /\ lost' = {}
    /\ UNCHANGED <<session, stop, built, running, listening, pool, over, spoiled>>

StartStep ==
    \/ Boot \/ InfoAnswered \/ PoolMade \/ Migrated \/ Loaded \/ HeightKnown
    \/ Bound \/ TlsBound \/ MainExits
    \/ \E place \in {"pool", "migrate", "load", "height", "bind", "tls"} : StepFails(place)

-----------------------------------------------------------------------------
(* The tasks, reduced to what shutdown meets: a loop that checks _running at *)
(* its top only, with RPC calls and database operations in any order.        *)

\* The next call of the task.
CallsNode(t) ==
    /\ CallWith(t, session)
    /\ task' = [task EXCEPT ![t] = "rpc"]
    /\ UNCHANGED <<session, running>>

Top(t) ==
    /\ task[t] = "top"
    /\ IF running[t] THEN CallsNode(t)
       ELSE /\ task' = [task EXCEPT ![t] = "ended"]
            /\ UNCHANGED <<rpcVars, running>>
    /\ UNCHANGED <<main, stop, built, listening, pool, over, spoiled>>

\* The result is used in the database, or the iteration is over; so it is
\* when the call, or the pool, raises.
TaskAnswered(t) ==
    /\ task[t] = "rpc"
    /\ call[t] \in {"returned", "raised"}
    /\ Finish(t)
    /\ \E place \in {"top"} \cup (IF call[t] = "returned" /\ pool = "open"
                                  THEN {"db"} ELSE {}) :
          task' = [task EXCEPT ![t] = place]
    /\ UNCHANGED <<session, main, stop, built, running, listening, pool, over, spoiled>>

\* A database operation ends or raises; a batch goes on without a look at
\* _running.
DbDone(t) ==
    /\ task[t] = "db"
    /\ \/ CallsNode(t)
       \/ task' = [task EXCEPT ![t] = "top"] /\ UNCHANGED <<rpcVars, running>>
    /\ UNCHANGED <<main, stop, built, listening, pool, over, spoiled>>

TaskStep(t) == Top(t) \/ TaskAnswered(t) \/ DbDone(t)

\* A client's transaction.broadcast; messages already read are handled also
\* after server.stop() began.
Broadcast ==
    /\ listening /\ main # "exited"
    /\ CallWith("client", session)
    /\ UNCHANGED <<session, lifeVars>>

Replied ==
    /\ call["client"] \in {"returned", "empty", "raised"}
    /\ Finish("client")
    /\ UNCHANGED <<session, lifeVars>>

-----------------------------------------------------------------------------
StopStep(s) == ServerStopped(s) \/ SessionClosed(s) \/ PoolClosed(s)

Next ==
    \/ StartStep
    \/ \E t \in Task : TaskStep(t)
    \/ Broadcast \/ Replied
    \/ \E c \in Caller : CallStep(c) /\ UNCHANGED lifeVars
    \/ \E s \in Signal : SignalArrives(s)
    \/ \E s \in Stopper : main # "exited" /\ (StopStep(s) \/ StopRaises(s))

\* start() goes on; one of the stop()s goes on as long as one can: closing
\* clients, session and pool ends, or raises; so do database operations, by
\* their command timeout, and attempts of a call, by the session's.
Fairness ==
    /\ WF_all(StartStep)
    /\ WF_all(\E s \in Stopper : main # "exited" /\ StopStep(s))
    /\ WF_all(\E t \in Task : DbDone(t))
    /\ WF_all((AttemptEnds("start") \/ Resend("start")) /\ UNCHANGED lifeVars)

Spec == Init /\ [][Next]_all /\ Fairness

-----------------------------------------------------------------------------
\* Types.
LifeTypeOK ==
    /\ RpcTypeOK
    /\ main \in {"boot", "info", "pool", "migrate", "load", "height", "bind", "tls",
                 "wait", "failed", "exited"}
    /\ stop \in [Stopper -> {"no", "server", "rpc", "pool", "done", "raised"}]
    /\ task \in [Task -> {"none", "top", "rpc", "db", "ended"}]
    /\ running \in [Task \cup {"server"} -> BOOLEAN]
    /\ pool \in {"none", "open", "closing"}
    /\ {built, listening, over, spoiled} \subseteq BOOLEAN
    /\ \A t \in Task : call[t] # "idle" => task[t] = "rpc"

\* The process does not exit with something open: whether start() failed at any
\* of its steps, or signals came while it ran, the socket, the session and the
\* pool are closed by then and every loop is told to end.  The exceptions are
\* a stop() that raised, and a signal during start(), whose stop() misses what
\* is started after it.
ExitReleases ==
    main = "exited" /\ (~spoiled \/ stop["main"] = "done") =>
        /\ session = "none" /\ pool = "none"
        /\ ~listening
        /\ \A x \in DOMAIN running : ~running[x]

\* Nor does it exit while the indexer or the tracker is in the middle of a
\* database operation, with the same exceptions: a commit is never cut short.
ExitCutsNoCommit ==
    [][main' = "exited" /\ (~spoiled \/ stop["main"] = "done") =>
          \A t \in Task : task[t] # "db"]_all

\* Signals end the process, whenever they come and however some of their
\* stop()s fail, unless all of them raise: nothing then sets the event that
\* wait_for_shutdown waits for.
SignalEnds ==
    (\E s \in Signal : stop[s] # "no")
        ~> \/ main = "exited"
           \/ \A s \in Signal : stop[s] \in {"no", "raised"}
=============================================================================
