------------------------- MODULE DroppedConnections -------------------------
(***************************************************************************)
(* ConnectionPool beside routers that close connections on their own: an   *)
(* idle time-out, a reboot, a lost link.  The pool is not told; what the   *)
(* health check of get_connection is for is to find out.  A connection     *)
(* that drops while a thread has it fails that thread's command, which     *)
(* ConnectionPool covers (ReleaseBroken): here it drops while idle.        *)
(***************************************************************************)
EXTENDS ConnectionPool

VARIABLE dropped    \* connections the router closed while they were idle

dropVars == <<vars, dropped>>

DropInit == Init /\ dropped = {}

(* The router closes its end of an idle connection.                        *)
RouterDrops(c) ==
    /\ \E r \in Routers : c \in idle[r]
    /\ dropped' = dropped \cup {c}
    /\ UNCHANGED vars

(* A step of the pool: what it closes is no longer open on one side only,  *)
(* and what it opens was closed before.                                    *)
PoolStep == Next /\ dropped' = {c \in dropped : sock'[c] # NoRouter}

DropNext == PoolStep \/ \E c \in Conns : RouterDrops(c)

DropSpec == DropInit /\ [][DropNext]_dropVars

-----------------------------------------------------------------------------
(* tests/core/test_connection_pool.py:174, 190, 223: the health check      *)
(* discards a pooled connection that has gone stale and reconnects, so no  *)
(* connection that dropped in the queue passes the check.                  *)
StaleDiscarded ==
    [][\A t \in Threads : pc[t] = "checking" /\ conn[t] \in dropped => pc'[t] # "held"]_dropVars
=============================================================================
