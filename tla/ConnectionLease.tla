--------------------------- MODULE ConnectionLease ---------------------------
(***************************************************************************)
(* What a command relies on: a connection is leased to one thread at a     *)
(* time, passes from one thread to another only through the pool, and is   *)
(* never forgotten while open, unless the pool is being shut down.         *)
(***************************************************************************)
CONSTANTS Threads, Conns

VARIABLES
    lease,      \* lease[c]: the thread that has c, or "pooled", "closed", "lost"
    serving     \* FALSE from the moment close_all starts

vars == <<lease, serving>>

Leased == {lease[c] : c \in Conns} \cap Threads

Init == lease = [c \in Conns |-> "closed"] /\ serving = TRUE

(* A thread without a connection opens one or takes one from the pool.     *)
Acquire(c) == lease[c] \in {"closed", "pooled"} /\ lease'[c] \in Threads \ Leased

(* The thread returns its connection or closes it.                         *)
GiveBack(c) == lease[c] \in Threads /\ lease'[c] \in {"pooled", "closed"}

Drain(c) == lease[c] = "pooled" /\ lease'[c] = "closed"

Lose(c) == lease'[c] = "lost"

(* A thread's step concerns one connection.                               *)
Use ==
    \E c \in Conns :
        /\ Acquire(c) \/ GiveBack(c)
        /\ \A d \in Conns \ {c} : lease'[d] = lease[d]
        /\ UNCHANGED serving

(* Shutting down closes the pooled connections and may lose others.        *)
Shutdown ==
    /\ ~serving /\ ~serving'
    /\ \A c \in Conns : lease'[c] = lease[c] \/ Drain(c) \/ Lose(c)

Stop == serving /\ ~serving' /\ UNCHANGED lease

Next == Use \/ Shutdown \/ Stop

Spec == Init /\ [][Next]_vars
=============================================================================
