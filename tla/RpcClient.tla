------------------------------ MODULE RpcClient -----------------------------
(* rpc/miq_rpc_client.py: MiqRPCClient.call with its retries, for callers    *)
(* that each have one call under way at most, and the HTTP session that      *)
(* start() opens and stop() closes beneath them.  A call repeats its request *)
(* after an aiohttp.ClientError only.  The node, and what the network does   *)
(* to requests and answers, are external.                                    *)
(*                                                                           *)
(* call   "idle"      no call                                                *)
(*        "posted"    a request is out                                       *)
(*        "waiting"   backing off after a ClientError                        *)
(*        "returned"  call() returned a result; of a broadcast, the txid     *)
(*        "empty"     call() returned a result of a broadcast without a txid *)
(*        "raised"    call() raised                                          *)
EXTENDS Integers

CONSTANTS
    Caller,        \* the tasks that call
    Broadcaster,   \* those whose call is sendrawtransaction
    MaxRetries     \* RPCConfig.max_retries: attempts, the first one included

ASSUME RpcAssumption ==
    /\ Broadcaster \subseteq Caller
    /\ MaxRetries \in Nat

VARIABLES
    session,   \* _session: "none", "open", or "closed" until it is set to None
    call,
    attempt,   \* the loop variable of call(), 0 outside it
    heard,     \* the node's verdict on the broadcast that is out: "ok", its
               \* txid; "refused", a result that has an error in its place;
               \* "error", a JSON-RPC error or another HTTP status
    accepted,  \* broadcasters whose transaction the node has accepted
    lost       \* history: broadcasters that gave up on a request of this call

rpcVars == <<session, call, attempt, heard, accepted, lost>>

-----------------------------------------------------------------------------
RpcInit ==
    /\ session = "none"
    /\ call = [c \in Caller |-> "idle"]
    /\ attempt = [c \in Caller |-> 0]
    /\ heard = [c \in Caller |-> "nothing"]
    /\ accepted = {} /\ lost = {}

\* The call moves to `place` in its n-th repetition; no answer is awaited any
\* more, or not yet.
Move(c, place, n) ==
    /\ call' = [call EXCEPT ![c] = place]
    /\ attempt' = [attempt EXCEPT ![c] = n]
    /\ heard' = [heard EXCEPT ![c] = "nothing"]

\* session.post: a closed session raises a RuntimeError, None an
\* AttributeError, and neither is a ClientError.
Post(c, usable, n) ==
    IF usable THEN Move(c, "posted", n) ELSE Move(c, "raised", 0)

\* call(): "RPC client not started", no attempt at all, or the first request.
CallWith(c, current) ==
    /\ call[c] = "idle"
    /\ Post(c, current = "open" /\ MaxRetries > 0, 0)
    /\ UNCHANGED <<accepted, lost>>

\* External: the node executes the request.  It accepts a transaction, or
\* refuses it, as one it already has, in one of two forms: "Result containing
\* txid or error".  When it answers any other request makes no difference.
NodeExecutes(c) ==
    /\ c \in Broadcaster
    /\ call[c] = "posted" /\ heard[c] = "nothing"
    /\ \E verdict \in {"ok", "refused", "error"} :
        /\ heard' = [heard EXCEPT ![c] = verdict]
        /\ accepted' = IF verdict = "ok" THEN accepted \cup {c} ELSE accepted
    /\ UNCHANGED <<session, call, attempt, lost>>

\* The verdict is there to be read.
Answered(c, verdict) ==
    /\ call[c] = "posted"
    /\ c \in Broadcaster => heard[c] = verdict

\* Mutant: the result does not leave the loop.
ReturnedGoesOn(c) ==
    /\ Answered(c, "ok")
    /\ IF attempt[c] + 1 < MaxRetries THEN Move(c, "waiting", attempt[c])
       ELSE Move(c, "returned", 0)
    /\ UNCHANGED <<session, accepted, lost>>

Returned(c) ==
    /\ Answered(c, "ok")
    /\ Move(c, "returned", 0)
    /\ UNCHANGED <<session, accepted, lost>>

\* A result without a txid is a result to call(), and the handler answers the
\* client with an empty txid ("None" for null) instead of an error.
ReturnedEmpty(c) ==
    /\ c \in Broadcaster /\ Answered(c, "refused")
    /\ Move(c, "empty", 0)
    /\ UNCHANGED <<session, accepted, lost>>

\* An RPCError: the node's error, a status other than 200, or 401.
Refused(c) ==
    /\ Answered(c, "error")
    /\ Move(c, "raised", 0)
    /\ UNCHANGED <<session, accepted, lost>>

\* The request that is out is given up: its answer, if any, is lost.  (The
\* node may still execute it; no property speaks of what it does then.)
GiveUp(c) ==
    /\ lost' = lost \cup ({c} \cap Broadcaster)
    /\ UNCHANGED <<session, accepted>>

\* Mutant: one attempt too many.
RetriesLeftOneMore(c) == attempt[c] < MaxRetries

RetriesLeft(c) == attempt[c] < MaxRetries - 1

\* Mutant: the last failed attempt ends the call without an error.
BreaksQuietly(c) ==
    /\ call[c] = "posted"
    /\ IF RetriesLeft(c) THEN Move(c, "waiting", attempt[c]) ELSE Move(c, "returned", 0)
    /\ GiveUp(c)

\* aiohttp.ClientError: the connection is refused, breaks or is closed under
\* the request, or the answer does not call itself JSON.
Breaks(c) ==
    /\ call[c] = "posted"
    /\ IF RetriesLeft(c) THEN Move(c, "waiting", attempt[c]) ELSE Move(c, "raised", 0)
    /\ GiveUp(c)

\* The session's total timeout: a TimeoutError, which is no ClientError.
TimesOut(c) ==
    /\ call[c] = "posted"
    /\ Move(c, "raised", 0)
    /\ GiveUp(c)

\* The delay is over.
Resend(c) ==
    /\ call[c] = "waiting"
    /\ Post(c, session = "open", attempt[c] + 1)
    /\ UNCHANGED <<session, accepted, lost>>

\* The caller takes the outcome and forgets the call.
Finish(c) ==
    /\ Move(c, "idle", 0)
    /\ accepted' = accepted \ {c} /\ lost' = lost \ {c}

\* An attempt comes to its end, by the total timeout at the latest.
AttemptEnds(c) ==
    Returned(c) \/ ReturnedEmpty(c) \/ Refused(c) \/ Breaks(c) \/ TimesOut(c)

CallStep(c) == NodeExecutes(c) \/ AttemptEnds(c) \/ Resend(c)

-----------------------------------------------------------------------------
RpcTypeOK ==
    /\ session \in {"none", "open", "closed"}
    /\ call \in [Caller -> {"idle", "posted", "waiting", "returned", "empty",
                         "raised"}]
    /\ attempt \in [Caller -> Nat]
    /\ \A c \in Caller : attempt[c] > 0 => attempt[c] < MaxRetries
    /\ heard \in [Caller -> {"nothing", "ok", "refused", "error"}]
    /\ accepted \subseteq Broadcaster /\ lost \subseteq Broadcaster

\* A client that is answered with the txid of its broadcast can rely on it: the
\* node accepted the transaction, however many attempts it took and whatever was
\* lost in between.
SuccessIsTrue ==
    \A c \in Broadcaster : call[c] = "returned" => c \in accepted

\* Nor has the node accepted a broadcast that is answered with an error or with
\* an empty txid, unless the client gave up on one of its requests: the node may
\* have accepted that one, and refused the repetition as a transaction it has.
FailureIsTrueUnlessLost ==
    \A c \in Broadcaster :
        call[c] \in {"raised", "empty"} /\ c \notin lost => c \notin accepted
=============================================================================
