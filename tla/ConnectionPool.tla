--------------------------- MODULE ConnectionPool ---------------------------
(***************************************************************************)
(* core/connection_pool.py: the RouterOS connections shared by the worker  *)
(* threads of the bot.  Each router has a queue of idle connections        *)
(* (maxsize MaxConns) and a counter, active_counts, of the connections     *)
(* created for it.  A thread takes an idle connection after its health     *)
(* check, creates one while the counter is below the limit, or waits for   *)
(* the queue.                                                              *)
(*                                                                         *)
(* One action is one critical section of self._lock, or one blocking call  *)
(* outside it (connect, q.get, future.result).  The outcome of everything  *)
(* a router answers is a choice.                                           *)
(***************************************************************************)
EXTENDS Integers, FiniteSets

CONSTANTS
    Threads,    \* threads of the pool of utils/async_blocking.py
    Routers,    \* router keys
    Conns,      \* identities of librouteros Api objects, recycled when unreferenced
    MaxConns,   \* MAX_CONNECTIONS_PER_ROUTER
    NoRouter, NoConn

ASSUME ThreadsAssumption == IsFiniteSet(Threads)
ASSUME RoutersAssumption == NoRouter \notin Routers
ASSUME ConnsAssumption   == IsFiniteSet(Conns) /\ NoConn \notin Conns
ASSUME MaxConnsAssumption == MaxConns \in Nat \ {0}

VARIABLES
    pooled,     \* pooled[r]: router_key in self.pools
    idle,       \* idle[r]: the connections in the queue self.pools[r]
    count,      \* count[r]: self.active_counts[r], 0 while absent
    sock,       \* sock[c]: the router c is open to, NoRouter when closed
    pc,         \* where the thread is in get_connection, reconnect, release
    rt,         \* router_key of the thread's call
    conn,       \* local variable api of the thread
    orphan,     \* orphan[t]: the queue t waits on is no longer in self.pools
    closing,    \* progress of close_all
    toClose     \* keys close_all has still to close

poolVars   == <<pooled, idle, count, sock>>
threadVars == <<pc, rt, conn, orphan>>
closeVars  == <<closing, toClose>>
vars == <<poolVars, threadVars, closeVars>>

(* "out": no call; "waiting": in q.get; "creating": connecting on a slot it counted;       *)
(* "checking": in future.result; "stale": the check failed or timed out;   *)
(* "replacing": connecting after it gave its slot up; "held": owns the     *)
(* connection; "retry": the attempt failed, reconnect may follow.          *)
PCs == {"out", "waiting", "creating", "checking", "stale", "replacing", "held", "retry"}

hcDown == closing = "down"     \* _health_check_executor_shutdown

Live(r) == {c \in Conns : sock[c] = r}

Init ==
    /\ pooled = [r \in Routers |-> FALSE]
    /\ idle = [r \in Routers |-> {}]
    /\ count = [r \in Routers |-> 0]
    /\ sock = [c \in Conns |-> NoRouter]
    /\ pc = [t \in Threads |-> "out"]
    /\ rt = [t \in Threads |-> NoRouter]
    /\ conn = [t \in Threads |-> NoConn]
    /\ orphan = [t \in Threads |-> FALSE]
    /\ closing = "open"
    /\ toClose = {}

-----------------------------------------------------------------------------
(* The counter: the guarded decrement of the error paths, and the bare one *)
(* that raises KeyError (and changes nothing) after close_all cleared it.  *)

GuardedDec(r) == [count EXCEPT ![r] = IF @ > 0 THEN @ - 1 ELSE @]

BareDec(r) == [count EXCEPT ![r] = IF pooled[r] THEN @ - 1 ELSE @]

Goto(t, where) == pc' = [pc EXCEPT ![t] = where]

(* Ending a call: the thread is back in its caller, or about to retry.     *)
Leave(t, where) ==
    /\ Goto(t, where)
    /\ rt' = [rt EXCEPT ![t] = IF where = "retry" THEN @ ELSE NoRouter]

-----------------------------------------------------------------------------
(* get_connection, first critical section: reserve a slot ...              *)
ReserveSlot(t, r) ==
    /\ pc[t] = "out"
    /\ idle[r] = {}
    /\ count[r] < MaxConns
    /\ pooled' = [pooled EXCEPT ![r] = TRUE]
    /\ count' = [count EXCEPT ![r] = @ + 1]
    /\ Goto(t, "creating")
    /\ rt' = [rt EXCEPT ![t] = r]
    /\ UNCHANGED <<idle, sock, conn, orphan, closeVars>>

(* ... or decide to take from the queue.                                   *)
StartWaiting(t, r) ==
    /\ pc[t] = "out"
    /\ ~(idle[r] = {} /\ count[r] < MaxConns)
    /\ Goto(t, "waiting")
    /\ rt' = [rt EXCEPT ![t] = r]
    /\ orphan' = [orphan EXCEPT ![t] = FALSE]
    /\ UNCHANGED <<poolVars, conn, closeVars>>

(* _connect_with_retry for a counted slot (get_connection or reconnect).   *)
CreateOk(t, c) ==
    /\ pc[t] = "creating"
    /\ sock[c] = NoRouter
    /\ sock' = [sock EXCEPT ![c] = rt[t]]
    /\ conn' = [conn EXCEPT ![t] = c]
    /\ Goto(t, "held")
    /\ UNCHANGED <<pooled, idle, count, rt, orphan, closeVars>>

(* Mutant: the slot of a failed connect is not given back.                 *)
CreateFailKeepsSlot(t) ==
    /\ pc[t] = "creating"
    /\ Leave(t, "out")
    /\ UNCHANGED <<poolVars, conn, orphan, closeVars>>

(* A connection error may be retried, RouterNotFoundError and the KeyError *)
(* of a cleared counter are not.                                           *)
CreateFail(t) ==
    /\ pc[t] = "creating"
    /\ count' = BareDec(rt[t])
    /\ \E where \in IF pooled[rt[t]] THEN {"out", "retry"} ELSE {"out"} : Leave(t, where)
    /\ UNCHANGED <<pooled, idle, sock, conn, orphan, closeVars>>

(* q.get returned, and the health check is submitted: the check is skipped *)
(* once its executor is shut down.                                         *)
TakeIdle(t, c) ==
    /\ pc[t] = "waiting"
    /\ ~orphan[t]
    /\ c \in idle[rt[t]]
    /\ idle' = [idle EXCEPT ![rt[t]] = @ \ {c}]
    /\ conn' = [conn EXCEPT ![t] = c]
    /\ IF hcDown
       THEN Goto(t, "held")
       ELSE Goto(t, "checking")
    /\ UNCHANGED <<pooled, count, sock, rt, orphan, closeVars>>

(* q.get raised queue.Empty, reported as TimeoutError (an OSError).        *)
WaitTimeout(t) ==
    /\ pc[t] = "waiting"
    /\ orphan[t] \/ idle[rt[t]] = {}
    /\ Leave(t, "retry")
    /\ UNCHANGED <<poolVars, conn, orphan, closeVars>>

-----------------------------------------------------------------------------
(* The health check.  api.path(..)("print") is a generator that no one    *)
(* iterates: the job sends nothing to the router, so its result says       *)
(* nothing of the connection and it ends as soon as a worker runs it ...   *)
CheckPasses(t) ==
    /\ pc[t] = "checking"
    /\ Goto(t, "held")
    /\ UNCHANGED <<poolVars, rt, conn, orphan, closeVars>>

(* ... and the check can only fail by the wait for it, when the executor's *)
(* thread does not come to run within _HEALTH_CHECK_TIMEOUT.               *)
CheckTimesOut(t) ==
    /\ pc[t] = "checking"
    /\ Goto(t, "stale")
    /\ UNCHANGED <<poolVars, rt, conn, orphan, closeVars>>

(* Mutant: the stale connection is dropped without close().                *)
DiscardUnclosed(t) ==
    /\ pc[t] = "stale"
    /\ count' = GuardedDec(rt[t])
    /\ conn' = [conn EXCEPT ![t] = NoConn]
    /\ Goto(t, "replacing")
    /\ UNCHANGED <<pooled, idle, sock, rt, orphan, closeVars>>

(* The stale connection is uncounted and closed.                           *)
Discard(t) ==
    /\ pc[t] = "stale"
    /\ count' = GuardedDec(rt[t])
    /\ sock' = [sock EXCEPT ![conn[t]] = NoRouter]
    /\ conn' = [conn EXCEPT ![t] = NoConn]
    /\ Goto(t, "replacing")
    /\ UNCHANGED <<pooled, idle, rt, orphan, closeVars>>

(* Its replacement: counted again without looking at the limit.  After     *)
(* close_all the increment raises KeyError and the connection is lost.     *)
ReplaceOk(t, c) ==
    /\ pc[t] = "replacing"
    /\ sock[c] = NoRouter
    /\ sock' = [sock EXCEPT ![c] = rt[t]]
    /\ IF pooled[rt[t]]
       THEN /\ count' = [count EXCEPT ![rt[t]] = @ + 1]
            /\ conn' = [conn EXCEPT ![t] = c]
            /\ Goto(t, "held") /\ UNCHANGED rt
       ELSE Leave(t, "out") /\ UNCHANGED <<count, conn>>
    /\ UNCHANGED <<pooled, idle, orphan, closeVars>>

ReplaceFail(t) ==
    /\ pc[t] = "replacing"
    /\ \E where \in {"out", "retry"} : Leave(t, where)
    /\ UNCHANGED <<poolVars, conn, orphan, closeVars>>

-----------------------------------------------------------------------------
(* release_connection(broken=True): the command failed on the connection.  *)
ReleaseBroken(t) ==
    /\ pc[t] = "held"
    /\ count' = GuardedDec(rt[t])
    /\ sock' = [sock EXCEPT ![conn[t]] = NoRouter]
    /\ conn' = [conn EXCEPT ![t] = NoConn]
    /\ \E where \in {"out", "retry"} : Leave(t, where)
    /\ UNCHANGED <<pooled, idle, orphan, closeVars>>

(* Mutant: put without the bound of the queue.                             *)
PutUnbounded(t) ==
    /\ pc[t] = "held"
    /\ idle' = [idle EXCEPT ![rt[t]] = @ \cup {conn[t]}]
    /\ conn' = [conn EXCEPT ![t] = NoConn]
    /\ Leave(t, "out")
    /\ UNCHANGED <<pooled, count, sock, orphan, closeVars>>

(* Mutant: the release of a finally block that also covers the acquire.    *)
ReleaseUnacquired(t) ==
    /\ pc[t] \in {"held", "retry"}
    /\ idle' = [idle EXCEPT ![rt[t]] = @ \cup {conn[t]}]
    /\ conn' = [conn EXCEPT ![t] = NoConn]
    /\ Leave(t, "out")
    /\ UNCHANGED <<pooled, count, sock, orphan, closeVars>>

(* Mutant: on queue.Full the connection is uncounted but not closed.       *)
ReleaseFullUnclosed(t) ==
    /\ pc[t] = "held"
    /\ LET r == rt[t]
           full == Cardinality(idle[r]) >= MaxConns
       IN  /\ idle' = [idle EXCEPT ![r] = IF pooled[r] /\ ~full THEN @ \cup {conn[t]} ELSE @]
           /\ count' = [count EXCEPT ![r] = IF pooled[r] /\ full THEN @ - 1 ELSE @]
    /\ conn' = [conn EXCEPT ![t] = NoConn]
    /\ Leave(t, "out")
    /\ UNCHANGED <<pooled, sock, orphan, closeVars>>

(* release_connection(broken=False): back to the queue; when it is full    *)
(* the connection is closed and uncounted; when close_all removed the      *)
(* queue nothing is done.                                                  *)
Release(t) ==
    /\ pc[t] = "held"
    /\ LET r == rt[t]
           full == Cardinality(idle[r]) >= MaxConns
       IN  /\ idle' = [idle EXCEPT ![r] = IF pooled[r] /\ ~full THEN @ \cup {conn[t]} ELSE @]
           /\ sock' = [sock EXCEPT ![conn[t]] = IF pooled[r] /\ full THEN NoRouter ELSE @]
           /\ count' = [count EXCEPT ![r] = IF pooled[r] /\ full THEN @ - 1 ELSE @]
    /\ conn' = [conn EXCEPT ![t] = NoConn]
    /\ Leave(t, "out")
    /\ UNCHANGED <<pooled, orphan, closeVars>>

-----------------------------------------------------------------------------
(* reconnect, called by the second and third attempt of a command.         *)

(* Mutant: the idle connection is read but not taken from the queue.       *)
ReconnectPeek(t, c) ==
    /\ pc[t] = "retry"
    /\ count[rt[t]] >= MaxConns
    /\ c \in idle[rt[t]]
    /\ conn' = [conn EXCEPT ![t] = c]
    /\ Goto(t, "held")
    /\ UNCHANGED <<poolVars, rt, orphan, closeVars>>

(* At the limit: an idle connection is handed out unchecked ...            *)
ReconnectReuse(t, c) ==
    /\ pc[t] = "retry"
    /\ count[rt[t]] >= MaxConns
    /\ c \in idle[rt[t]]
    /\ idle' = [idle EXCEPT ![rt[t]] = @ \ {c}]
    /\ conn' = [conn EXCEPT ![t] = c]
    /\ Goto(t, "held")
    /\ UNCHANGED <<pooled, count, sock, rt, orphan, closeVars>>

(* ... and without one the counter is pinned to the limit.                 *)
ReconnectPinned(t) ==
    /\ pc[t] = "retry"
    /\ count[rt[t]] >= MaxConns
    /\ idle[rt[t]] = {}
    /\ count' = [count EXCEPT ![rt[t]] = MaxConns]
    /\ Goto(t, "creating")
    /\ UNCHANGED <<pooled, idle, sock, rt, conn, orphan, closeVars>>

(* Below the limit a slot is counted, idle connections or not.             *)
ReconnectNew(t) ==
    /\ pc[t] = "retry"
    /\ count[rt[t]] < MaxConns
    /\ pooled' = [pooled EXCEPT ![rt[t]] = TRUE]
    /\ count' = [count EXCEPT ![rt[t]] = @ + 1]
    /\ Goto(t, "creating")
    /\ UNCHANGED <<idle, sock, rt, conn, orphan, closeVars>>

(* The last attempt failed: the error reaches the caller.                  *)
GiveUp(t) ==
    /\ pc[t] = "retry"
    /\ Leave(t, "out")
    /\ UNCHANGED <<poolVars, conn, orphan, closeVars>>

-----------------------------------------------------------------------------
(* close_all, at the end of the process.                                   *)

CloseAll ==
    /\ closing = "open"
    /\ closing' = "draining"
    /\ toClose' = {r \in Routers : pooled[r]}
    /\ UNCHANGED <<poolVars, threadVars>>

(* close_connection: every idle connection is closed and uncounted.        *)
CloseConnection(r) ==
    /\ r \in toClose
    /\ toClose' = toClose \ {r}
    /\ LET n == Cardinality(idle[r])
       IN  count' = [count EXCEPT ![r] = IF @ <= 0 THEN @ ELSE IF n > @ THEN 0 ELSE @ - n]
    /\ sock' = [c \in Conns |-> IF c \in idle[r] THEN NoRouter ELSE sock[c]]
    /\ idle' = [idle EXCEPT ![r] = {}]
    /\ UNCHANGED <<pooled, threadVars, closing>>

(* pools.clear() and active_counts.clear(): a waiter keeps the old queue,  *)
(* a connection returned since the drain is dropped with it.               *)
ClearPools ==
    /\ closing = "draining"
    /\ toClose = {}
    /\ closing' = "cleared"
    /\ pooled' = [r \in Routers |-> FALSE]
    /\ idle' = [r \in Routers |-> {}]
    /\ count' = [r \in Routers |-> 0]
    /\ orphan' = [t \in Threads |-> orphan[t] \/ pc[t] = "waiting"]
    /\ UNCHANGED <<sock, pc, rt, conn, toClose>>

(* shutdown(cancel_futures=True): a thread whose job had not run yet gets  *)
(* CancelledError, and one that had read the flag but not yet submitted    *)
(* its job a RuntimeError; get_connection handles neither.                 *)
ShutdownExecutor ==
    /\ closing = "cleared"
    /\ closing' = "down"
    /\ \E cancelled \in SUBSET {t \in Threads : pc[t] = "checking"} :
          /\ pc' = [t \in Threads |-> IF t \in cancelled THEN "out" ELSE pc[t]]
          /\ rt' = [t \in Threads |-> IF t \in cancelled THEN NoRouter ELSE rt[t]]
          /\ conn' = [t \in Threads |-> IF t \in cancelled THEN NoConn ELSE conn[t]]
    /\ UNCHANGED <<poolVars, orphan, toClose>>

-----------------------------------------------------------------------------
ThreadStep(t) ==
    \/ \E r \in Routers : ReserveSlot(t, r) \/ StartWaiting(t, r)
    \/ \E c \in Conns : CreateOk(t, c) \/ TakeIdle(t, c) \/ ReplaceOk(t, c) \/ ReconnectReuse(t, c)
    \/ CreateFail(t) \/ WaitTimeout(t)
    \/ CheckPasses(t) \/ CheckTimesOut(t) \/ Discard(t) \/ ReplaceFail(t)
    \/ ReleaseBroken(t) \/ Release(t)
    \/ ReconnectPinned(t) \/ ReconnectNew(t) \/ GiveUp(t)

Next ==
    \/ \E t \in Threads : ThreadStep(t)
    \/ CloseAll \/ (\E r \in Routers : CloseConnection(r)) \/ ClearPools \/ ShutdownExecutor

Spec == Init /\ [][Next]_vars

-----------------------------------------------------------------------------
(* Slots of r: calls of threads that hold, or are creating, a connection   *)
(* which the counter has been told of.                                     *)
Counted == {"creating", "checking", "stale", "held"}

Holders(r) == {t \in Threads : rt[t] = r /\ pc[t] \in Counted}

(* A thread in a call has a router, and has a connection exactly between   *)
(* getting it and giving it up.                                            *)
Coherent ==
    \A t \in Threads :
        /\ rt[t] = NoRouter <=> pc[t] = "out"
        /\ conn[t] = NoConn <=> pc[t] \notin {"checking", "stale", "held"}

TypeOK ==
    /\ pooled \in [Routers -> BOOLEAN]
    /\ idle \in [Routers -> SUBSET Conns]
    /\ count \in [Routers -> Int]
    /\ sock \in [Conns -> Routers \cup {NoRouter}]
    /\ pc \in [Threads -> PCs]
    /\ rt \in [Threads -> Routers \cup {NoRouter}]
    /\ conn \in [Threads -> Conns \cup {NoConn}]
    /\ orphan \in [Threads -> BOOLEAN]
    /\ closing \in {"open", "draining", "cleared", "down"}
    /\ toClose \in SUBSET Routers
    /\ Coherent

(* The queue is bounded and holds live connections of its own router only: *)
(* whatever the interleaving of release, drain and reconnect, get never    *)
(* hands out a connection that was closed or belongs to another router     *)
(* (put_nowait and the closes at lines 214-218, 252-268, 313-325).         *)
PoolSound ==
    \A r \in Routers :
        /\ Cardinality(idle[r]) <= MaxConns
        /\ \A c \in idle[r] : sock[c] = r

(* A connection is in the queue or with one thread, never with two: what a *)
(* command relies on between _connection_ctx's acquire and release.        *)
ExclusiveLease ==
    /\ \A t \in Threads : conn[t] # NoConn =>
          /\ sock[conn[t]] = rt[t]
          /\ \A r \in Routers : conn[t] \notin idle[r]
    /\ \A t, u \in Threads : conn[t] = conn[u] /\ conn[t] # NoConn => t = u

(* The counter never claims a slot that no connection, idle, in use or     *)
(* being created, stands for: every error path gives its slot back, so a   *)
(* router cannot become unreachable because its counter leaked to the      *)
(* limit (lines 189-192, 214-216, 252-268, 299-302, 324-325).              *)
NoPhantomSlot ==
    ~hcDown => \A r \in Routers : count[r] <= Cardinality(idle[r]) + Cardinality(Holders(r))

(* Until close_all, every connection still open to a router is reachable:  *)
(* in a queue or in the hands of a thread that will release it.            *)
NoLeakedSocket ==
    closing = "open" =>
        \A c \in Conns : sock[c] # NoRouter =>
            (\E r \in Routers : c \in idle[r]) \/ (\E t \in Threads : conn[t] = c)

(* The pool implements ConnectionLease: every step of a thread, of the     *)
(* health check or of close_all is a lease step or changes no lease.       *)
leaseOf == [c \in Conns |->
    IF \E t \in Threads : conn[t] = c THEN CHOOSE t \in Threads : conn[t] = c
    ELSE IF \E r \in Routers : c \in idle[r] THEN "pooled"
    ELSE IF sock[c] = NoRouter THEN "closed" ELSE "lost"]

ASSUME LeaseAssumption == {"pooled", "closed", "lost"} \cap Threads = {}

Lease == INSTANCE ConnectionLease WITH lease <- leaseOf, serving <- closing = "open"

ImplementsLease == Lease!Spec
=============================================================================
