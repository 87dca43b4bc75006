------------------------ MODULE ConnectionPoolProofs ------------------------
(***************************************************************************)
(* What holds of ConnectionPool for any threads, routers and limit.        *)
(***************************************************************************)
EXTENDS ConnectionPool, FiniteSetTheorems, TLAPS

(* The end of a call (Leave) keeps the types of pc and rt: every exit of   *)
(* get_connection, reconnect and release.                                  *)
LEMMA LeaveType ==
    ASSUME pc \in [Threads -> PCs], rt \in [Threads -> Routers \cup {NoRouter}],
           NEW t \in Threads, NEW where \in {"out", "retry"}, Leave(t, where)
    PROVE  pc' \in [Threads -> PCs] /\ rt' \in [Threads -> Routers \cup {NoRouter}]
BY DEF Leave, Goto, PCs

(* The counter stays an integer through its two decrements.                *)
LEMMA DecType ==
    ASSUME count \in [Routers -> Int], NEW r
    PROVE  GuardedDec(r) \in [Routers -> Int] /\ BareDec(r) \in [Routers -> Int]
<1>1. CASE r \in Routers
  BY <1>1 DEF GuardedDec, BareDec
<1>2. CASE r \notin Routers
  <2>1. GuardedDec(r) = count /\ BareDec(r) = count
    BY <1>2 DEF GuardedDec, BareDec
  <2> QED
    BY <2>1
<1> QED
  BY <1>1, <1>2

-----------------------------------------------------------------------------
LEMMA TypeInit == Init => TypeOK
<1> SUFFICES ASSUME Init PROVE TypeOK
  OBVIOUS
<1> QED
  BY RoutersAssumption, ConnsAssumption DEF Init, TypeOK, Coherent, PCs

LEMMA TypeNext == TypeOK /\ [Next]_vars => TypeOK'
<1> SUFFICES ASSUME TypeOK, [Next]_vars PROVE TypeOK'
  OBVIOUS
<1> USE RoutersAssumption, ConnsAssumption
    DEF TypeOK, Coherent, Goto, closeVars, poolVars, threadVars
<1>1. ASSUME NEW t \in Threads, NEW r \in Routers, ReserveSlot(t, r) PROVE TypeOK'
  BY <1>1 DEF ReserveSlot, PCs
<1>2. ASSUME NEW t \in Threads, NEW r \in Routers, StartWaiting(t, r) PROVE TypeOK'
  BY <1>2 DEF StartWaiting, PCs
<1>3. ASSUME NEW t \in Threads, NEW c \in Conns, CreateOk(t, c) PROVE TypeOK'
  BY <1>3 DEF CreateOk, PCs
<1>4. ASSUME NEW t \in Threads, CreateFail(t) PROVE TypeOK'
  <2>1. PICK where \in {"out", "retry"} : Leave(t, where)
    BY <1>4 DEF CreateFail
  <2>2. pc' \in [Threads -> PCs] /\ rt' \in [Threads -> Routers \cup {NoRouter}]
    BY <2>1, LeaveType
  <2>3. count' \in [Routers -> Int]
    BY <1>4, DecType DEF CreateFail
  <2>4. Coherent'
    BY <1>4, <2>1 DEF CreateFail, Leave
  <2> QED
    BY <1>4, <2>2, <2>3, <2>4 DEF CreateFail
<1>5. ASSUME NEW t \in Threads, NEW c \in Conns, TakeIdle(t, c) PROVE TypeOK'
  <2>1. idle' \in [Routers -> SUBSET Conns] /\ conn' \in [Threads -> Conns \cup {NoConn}]
    BY <1>5 DEF TakeIdle
  <2>2. pc' = [pc EXCEPT ![t] = "held"] \/ pc' = [pc EXCEPT ![t] = "checking"]
    BY <1>5 DEF TakeIdle
  <2>3. pc' \in [Threads -> PCs] /\ Coherent'
    BY <1>5, <2>2 DEF TakeIdle, PCs
  <2>4. UNCHANGED <<pooled, count, sock, rt, orphan, closing, toClose>>
    BY <1>5 DEF TakeIdle
  <2> QED
    BY <2>1, <2>3, <2>4
<1>6. ASSUME NEW t \in Threads, WaitTimeout(t) PROVE TypeOK'
  BY <1>6, LeaveType DEF Leave, WaitTimeout
<1>7. ASSUME NEW t \in Threads, CheckPasses(t) PROVE TypeOK'
  BY <1>7 DEF CheckPasses, PCs
<1>8. ASSUME NEW t \in Threads, CheckTimesOut(t) PROVE TypeOK'
  BY <1>8 DEF CheckTimesOut, PCs
<1>10. ASSUME NEW t \in Threads, Discard(t) PROVE TypeOK'
  BY <1>10, DecType DEF Discard, PCs
<1>11. ASSUME NEW t \in Threads, NEW c \in Conns, ReplaceOk(t, c) PROVE TypeOK'
  <2>2. CASE pooled[rt[t]]
    <3>1. rt[t] \in Routers
      BY <1>11 DEF ReplaceOk
    <3>2. count' \in [Routers -> Int] /\ sock' \in [Conns -> Routers \cup {NoRouter}]
      BY <1>11, <2>2, <3>1 DEF ReplaceOk
    <3>4. pc[t] = "replacing" /\ rt' = rt /\ pc' = [pc EXCEPT ![t] = "held"]
          /\ conn' = [conn EXCEPT ![t] = c]
      BY <1>11, <2>2 DEF ReplaceOk
    <3>3. pc' \in [Threads -> PCs] /\ conn' \in [Threads -> Conns \cup {NoConn}] /\ Coherent'
      BY <3>4 DEF PCs
    <3>5. UNCHANGED <<pooled, idle, orphan, closing, toClose>>
      BY <1>11 DEF ReplaceOk
    <3> QED
      BY <3>2, <3>3, <3>4, <3>5
  <2>3. CASE ~pooled[rt[t]]
    <3>1. pc[t] = "replacing" /\ Leave(t, "out")
          /\ UNCHANGED <<count, conn, pooled, idle, orphan, closeVars>>
      BY <1>11, <2>3 DEF ReplaceOk
    <3>2. rt[t] \in Routers /\ sock' = [sock EXCEPT ![c] = rt[t]]
      BY <1>11, <3>1 DEF ReplaceOk
    <3>3. sock' \in [Conns -> Routers \cup {NoRouter}]
      BY <3>2
    <3>4. pc' \in [Threads -> PCs] /\ rt' \in [Threads -> Routers \cup {NoRouter}]
      BY <3>1, LeaveType
    <3>5. Coherent'
      BY <3>1, <3>4 DEF Leave, Goto
    <3> QED
      BY <3>1, <3>3, <3>4, <3>5
  <2> QED
    BY <2>2, <2>3
<1>12. ASSUME NEW t \in Threads, ReplaceFail(t) PROVE TypeOK'
  BY <1>12, LeaveType DEF Leave, ReplaceFail
<1>13. ASSUME NEW t \in Threads, ReleaseBroken(t) PROVE TypeOK'
  BY <1>13, LeaveType, DecType DEF Leave, ReleaseBroken
<1>14. ASSUME NEW t \in Threads, Release(t) PROVE TypeOK'
  <2>1. pc' \in [Threads -> PCs] /\ rt' \in [Threads -> Routers \cup {NoRouter}]
    BY <1>14, LeaveType DEF Leave, Release
  <2>2. rt[t] \in Routers /\ conn[t] \in Conns
    BY <1>14 DEF Release
  <2>3. idle' \in [Routers -> SUBSET Conns]
    BY <1>14, <2>2 DEF Release
  <2>4. sock' \in [Conns -> Routers \cup {NoRouter}] /\ count' \in [Routers -> Int]
    BY <1>14, <2>2 DEF Release
  <2>5. Coherent'
    BY <1>14 DEF Release, Leave
  <2> QED
    BY <1>14, <2>1, <2>3, <2>4, <2>5 DEF Release
<1>15. ASSUME NEW t \in Threads, NEW c \in Conns, ReconnectReuse(t, c) PROVE TypeOK'
  BY <1>15 DEF ReconnectReuse, PCs
<1>16. ASSUME NEW t \in Threads, ReconnectPinned(t) PROVE TypeOK'
  BY <1>16, MaxConnsAssumption DEF ReconnectPinned, PCs
<1>17. ASSUME NEW t \in Threads, ReconnectNew(t) PROVE TypeOK'
  BY <1>17 DEF ReconnectNew, PCs
<1>18. ASSUME NEW t \in Threads, GiveUp(t) PROVE TypeOK'
  BY <1>18, LeaveType DEF Leave, GiveUp
<1>19. CASE CloseAll
  BY <1>19 DEF CloseAll
<1>20. ASSUME NEW r \in Routers, CloseConnection(r) PROVE TypeOK'
  <2>1. idle[r] \subseteq Conns /\ Cardinality(idle[r]) \in Nat
    BY ConnsAssumption, FS_Subset, FS_CardinalityType
  <2> QED
    BY <1>20, <2>1 DEF CloseConnection
<1>21. CASE ClearPools
  BY <1>21 DEF ClearPools
<1>22. CASE ShutdownExecutor
  <2>1. PICK cancelled \in SUBSET {t \in Threads : pc[t] = "checking"} :
          /\ pc' = [t \in Threads |-> IF t \in cancelled THEN "out" ELSE pc[t]]
          /\ rt' = [t \in Threads |-> IF t \in cancelled THEN NoRouter ELSE rt[t]]
          /\ conn' = [t \in Threads |-> IF t \in cancelled THEN NoConn ELSE conn[t]]
    BY <1>22 DEF ShutdownExecutor
  <2> QED
    BY <1>22, <2>1 DEF ShutdownExecutor, PCs
<1>23. CASE UNCHANGED vars
  BY <1>23 DEF vars
<1> QED
  BY <1>1, <1>2, <1>3, <1>4, <1>5, <1>6, <1>7, <1>8, <1>10, <1>11, <1>12, <1>13,
     <1>14, <1>15, <1>16, <1>17, <1>18, <1>19, <1>20, <1>21, <1>22, <1>23
  DEF Next, ThreadStep

(* Type correctness, through every interleaving of threads and close_all.  *)
THEOREM TypeCorrect == Spec => []TypeOK
<1>1. Init => TypeOK
  BY TypeInit
<1>2. TypeOK /\ [Next]_vars => TypeOK'
  BY TypeNext
<1> QED
  BY <1>1, <1>2, PTL DEF Spec

-----------------------------------------------------------------------------
(* The invariant behind the leases: PoolSound and ExclusiveLease are       *)
(* inductive together.  A connection given back is open to the router of   *)
(* its thread (ExclusiveLease), so what enters a queue is sound; what      *)
(* leaves a queue is open (PoolSound) and was with nobody.                 *)
LeaseInv == TypeOK /\ PoolSound /\ ExclusiveLease

LEMMA LeaseInit == Init => LeaseInv
<1> SUFFICES ASSUME Init PROVE LeaseInv
  OBVIOUS
<1>1. TypeOK
  BY TypeInit
<1>2. PoolSound
  BY FS_EmptySet, MaxConnsAssumption DEF Init, PoolSound
<1>3. ExclusiveLease
  BY DEF Init, ExclusiveLease
<1> QED
  BY <1>1, <1>2, <1>3 DEF LeaseInv

(* The part of LeaseInv that speaks of leases.                             *)
LeaseTypes ==
    /\ idle \in [Routers -> SUBSET Conns]
    /\ sock \in [Conns -> Routers \cup {NoRouter}]
    /\ pc \in [Threads -> PCs]
    /\ rt \in [Threads -> Routers \cup {NoRouter}]
    /\ conn \in [Threads -> Conns \cup {NoConn}]

LeaseState == LeaseTypes /\ Coherent /\ PoolSound /\ ExclusiveLease

LEMMA LeaseInvState == LeaseInv => LeaseState
BY DEF LeaseInv, LeaseState, LeaseTypes, TypeOK

LEMMA Absent == NoConn \notin Conns /\ NoRouter \notin Routers
BY ConnsAssumption, RoutersAssumption

LEMMA IdleFinite ==
    ASSUME LeaseTypes, NEW r \in Routers
    PROVE  IsFiniteSet(idle[r]) /\ Cardinality(idle[r]) \in Nat
BY ConnsAssumption, FS_Subset, FS_CardinalityType DEF LeaseTypes

LEMMA FewerIdle ==
    ASSUME LeaseState, NEW r \in Routers, NEW c \in idle[r]
    PROVE  /\ Cardinality(idle[r] \ {c}) = Cardinality(idle[r]) - 1
           /\ Cardinality(idle[r] \ {c}) <= MaxConns
<1>1. IsFiniteSet(idle[r]) /\ Cardinality(idle[r]) \in Nat
  BY IdleFinite DEF LeaseState
<1>2. Cardinality(idle[r] \ {c}) = Cardinality(idle[r]) - 1
  BY <1>1, FS_RemoveElement
<1>3. Cardinality(idle[r]) <= MaxConns
  BY DEF LeaseState, PoolSound
<1> QED
  BY <1>1, <1>2, <1>3, MaxConnsAssumption

(* What a thread has is open, to the router of its call, and not queued.   *)
LEMMA HeldConn ==
    ASSUME LeaseState, NEW t \in Threads, pc[t] \in {"checking", "stale", "held"}
    PROVE  /\ conn[t] \in Conns /\ rt[t] \in Routers /\ sock[conn[t]] = rt[t]
           /\ \A r \in Routers : conn[t] \notin idle[r]
           /\ \A u \in Threads : conn[u] = conn[t] => u = t
BY Absent DEF LeaseState, LeaseTypes, Coherent, ExclusiveLease

(* Connecting: the thread gets a connection that was closed, hence neither *)
(* queued nor leased (CreateOk, ReplaceOk).                                *)
LEMMA ConnectStep ==
    ASSUME LeaseState, NEW t \in Threads, NEW c \in Conns,
           pc[t] \in {"creating", "replacing"}, sock[c] = NoRouter,
           sock' = [sock EXCEPT ![c] = rt[t]],
           conn' = [conn EXCEPT ![t] = c] \/ conn' = conn, idle' = idle,
           \A u \in Threads : conn'[u] # NoConn => rt'[u] = rt[u]
    PROVE  PoolSound' /\ ExclusiveLease'
<1> USE Absent DEF LeaseState, LeaseTypes, Coherent
<1>1. \A r \in Routers : c \notin idle[r]
  BY DEF PoolSound
<1>2. \A u \in Threads : conn[u] # c
  BY DEF ExclusiveLease
<1>3. PoolSound'
  BY <1>1 DEF PoolSound
<1>4. \A u \in Threads : conn'[u] = conn[u] \/ (u = t /\ conn'[u] = c)
  <2>1. CASE conn' = conn
    BY <2>1
  <2>2. CASE conn' = [conn EXCEPT ![t] = c]
    BY <2>2
  <2> QED
    BY <2>1, <2>2
<1>5. \A u \in Threads : conn[u] # NoConn => conn[u] \in Conns /\ sock'[conn[u]] = rt[u]
  BY <1>2 DEF ExclusiveLease
<1>6. sock'[c] = rt[t]
  OBVIOUS
<1>7. ASSUME NEW u \in Threads, conn'[u] # NoConn
      PROVE  sock'[conn'[u]] = rt'[u] /\ \A r \in Routers : conn'[u] \notin idle'[r]
  <2>1. rt'[u] = rt[u]
    BY <1>7
  <2>2. CASE conn'[u] = conn[u]
    BY <1>5, <1>7, <2>1, <2>2 DEF ExclusiveLease
  <2>3. CASE u = t /\ conn'[u] = c
    BY <1>1, <1>6, <2>1, <2>3
  <2> QED
    BY <1>4, <2>2, <2>3
<1>8. ASSUME NEW u \in Threads, NEW v \in Threads, conn'[u] = conn'[v], conn'[u] # NoConn
      PROVE  u = v
  BY <1>2, <1>4, <1>8 DEF ExclusiveLease
<1>9. ExclusiveLease'
  BY <1>7, <1>8 DEF ExclusiveLease
<1> QED
  BY <1>3, <1>9

(* Taking from the queue (TakeIdle, ReconnectReuse).                       *)
LEMMA TakeStep ==
    ASSUME LeaseState, NEW t \in Threads, NEW c \in Conns,
           pc[t] \in {"waiting", "retry"}, c \in idle[rt[t]],
           idle' = [idle EXCEPT ![rt[t]] = @ \ {c}],
           conn' = [conn EXCEPT ![t] = c], sock' = sock, rt' = rt
    PROVE  PoolSound' /\ ExclusiveLease'
<1> USE Absent DEF LeaseState, LeaseTypes, Coherent
<1>1. rt[t] \in Routers /\ sock[c] = rt[t]
  BY DEF PoolSound
<1>2. \A r \in Routers : c \notin idle'[r]
  BY <1>1 DEF PoolSound
<1>3. \A u \in Threads : conn[u] # c
  BY <1>1 DEF ExclusiveLease
<1>4. Cardinality(idle[rt[t]] \ {c}) <= MaxConns
  BY <1>1, FewerIdle
<1>5. PoolSound'
  BY <1>1, <1>4 DEF PoolSound
<1>6. \A u \in Threads : conn'[u] = IF u = t THEN c ELSE conn[u]
  OBVIOUS
<1>7. \A u \in Threads, r \in Routers : conn[u] # NoConn => conn[u] \notin idle'[r]
  BY <1>1 DEF ExclusiveLease
<1>8. ExclusiveLease'
  BY <1>1, <1>2, <1>3, <1>6, <1>7 DEF ExclusiveLease
<1> QED
  BY <1>5, <1>8

(* Closing one's own connection (Discard, ReleaseBroken).                  *)
LEMMA CloseStep ==
    ASSUME LeaseState, NEW t \in Threads, pc[t] \in {"stale", "held"},
           sock' = [sock EXCEPT ![conn[t]] = NoRouter],
           conn' = [conn EXCEPT ![t] = NoConn], idle' = idle,
           \A u \in Threads : u # t => rt'[u] = rt[u]
    PROVE  PoolSound' /\ ExclusiveLease'
<1>1. /\ conn[t] \in Conns /\ \A r \in Routers : conn[t] \notin idle[r]
      /\ \A u \in Threads : conn[u] = conn[t] => u = t
  BY HeldConn
<1> USE Absent DEF LeaseState, LeaseTypes, Coherent
<1>2. PoolSound'
  BY <1>1 DEF PoolSound
<1>3. ExclusiveLease'
  BY <1>1 DEF ExclusiveLease
<1> QED
  BY <1>2, <1>3

(* Giving a connection back (Release): into the queue of its router if     *)
(* there is room, else closed; after ClearPools it is neither.             *)
LEMMA ReleaseStep ==
    ASSUME LeaseState, NEW t \in Threads, Release(t)
    PROVE  PoolSound' /\ ExclusiveLease'
<1>1. /\ conn[t] \in Conns /\ rt[t] \in Routers /\ sock[conn[t]] = rt[t]
      /\ \A r \in Routers : conn[t] \notin idle[r]
      /\ \A u \in Threads : conn[u] = conn[t] => u = t
  BY HeldConn DEF Release
<1>2. /\ conn' = [conn EXCEPT ![t] = NoConn]
      /\ \A u \in Threads : u # t => rt'[u] = rt[u]
  BY DEF Release, Leave, LeaseState, LeaseTypes
<1>3. \A u \in Threads : conn'[u] # NoConn => u # t /\ conn'[u] = conn[u] /\ conn[u] # conn[t]
  BY <1>1, <1>2 DEF LeaseState, LeaseTypes
<1>4. CASE pooled[rt[t]] /\ Cardinality(idle[rt[t]]) < MaxConns
  <2>1. idle' = [idle EXCEPT ![rt[t]] = @ \cup {conn[t]}] /\ sock' = sock
    <3>1. Cardinality(idle[rt[t]]) \in Nat
      BY <1>1, IdleFinite DEF LeaseState
    <3>2. ~(Cardinality(idle[rt[t]]) >= MaxConns)
      BY <1>4, <3>1, MaxConnsAssumption
    <3>3. idle' = [idle EXCEPT ![rt[t]] = @ \cup {conn[t]}]
      BY <1>4, <3>2 DEF Release
    <3>4. sock' = [sock EXCEPT ![conn[t]] = @]
      BY <1>4, <3>2 DEF Release
    <3>5. sock' = sock
      BY <1>1, <3>4 DEF LeaseState, LeaseTypes
    <3> QED
      BY <3>3, <3>5
  <2>2. Cardinality(idle[rt[t]] \cup {conn[t]}) <= MaxConns
    <3>1. IsFiniteSet(idle[rt[t]]) /\ Cardinality(idle[rt[t]]) \in Nat
      BY <1>1, IdleFinite DEF LeaseState
    <3>2. Cardinality(idle[rt[t]] \cup {conn[t]}) = Cardinality(idle[rt[t]]) + 1
      BY <1>1, <3>1, FS_AddElement
    <3> QED
      BY <1>4, <3>1, <3>2, MaxConnsAssumption
  <2>3. PoolSound'
    BY <1>1, <2>1, <2>2 DEF PoolSound, LeaseState, LeaseTypes
  <2>4. ExclusiveLease'
    BY <1>1, <1>2, <1>3, <2>1 DEF ExclusiveLease, LeaseState, LeaseTypes
  <2> QED
    BY <2>3, <2>4
<1>5. CASE ~(pooled[rt[t]] /\ Cardinality(idle[rt[t]]) < MaxConns)
  <2>1. idle' = idle
    <3>1. Cardinality(idle[rt[t]]) \in Nat
      BY <1>1, IdleFinite DEF LeaseState
    <3>2. ~(pooled[rt[t]] /\ ~(Cardinality(idle[rt[t]]) >= MaxConns))
      BY <1>5, <3>1, MaxConnsAssumption
    <3>3. idle' = [idle EXCEPT ![rt[t]] = @]
      BY <3>2 DEF Release
    <3> QED
      BY <1>1, <3>3 DEF LeaseState, LeaseTypes
  <2>2. \A c \in Conns : c # conn[t] => sock'[c] = sock[c]
    BY DEF Release, LeaseState, LeaseTypes
  <2>3. PoolSound'
    BY <1>1, <2>1, <2>2 DEF PoolSound, LeaseState, LeaseTypes
  <2>4. ExclusiveLease'
    BY <1>1, <1>2, <1>3, <2>1, <2>2 DEF ExclusiveLease, LeaseState, LeaseTypes
  <2> QED
    BY <2>3, <2>4
<1> QED
  BY <1>4, <1>5

(* close_connection closes what is queued for one router, and what is      *)
(* queued is leased to nobody.                                             *)
LEMMA DrainStep ==
    ASSUME LeaseState, NEW r \in Routers, CloseConnection(r)
    PROVE  PoolSound' /\ ExclusiveLease'
<1>1. /\ sock' = [c \in Conns |-> IF c \in idle[r] THEN NoRouter ELSE sock[c]]
      /\ idle' = [idle EXCEPT ![r] = {}] /\ rt' = rt /\ conn' = conn
  BY DEF CloseConnection, threadVars
<1>2. PoolSound'
  <2>1. \A q \in Routers : idle'[q] = IF q = r THEN {} ELSE idle[q]
    BY <1>1 DEF LeaseState, LeaseTypes
  <2>2. \A q \in Routers : Cardinality(idle'[q]) <= MaxConns
    BY <2>1, FS_EmptySet, MaxConnsAssumption DEF LeaseState, PoolSound
  <2>3. \A q \in Routers : q # r => \A c \in idle[q] : c \notin idle[r]
    BY DEF LeaseState, PoolSound
  <2>4. \A q \in Routers : \A c \in idle'[q] : sock'[c] = q
    BY <1>1, <2>1, <2>3 DEF LeaseState, LeaseTypes, PoolSound
  <2> QED
    BY <2>2, <2>4 DEF PoolSound
<1>3. ExclusiveLease'
  BY <1>1 DEF LeaseState, LeaseTypes, ExclusiveLease
<1> QED
  BY <1>2, <1>3

(* Steps that move no connection.                                          *)
LEMMA QuietStep ==
    ASSUME LeaseState, idle' = idle, sock' = sock, conn' = conn,
           \A u \in Threads : conn[u] # NoConn => rt'[u] = rt[u]
    PROVE  PoolSound' /\ ExclusiveLease'
BY DEF LeaseState, PoolSound, ExclusiveLease

LEMMA LeaseNext == LeaseInv /\ [Next]_vars => (PoolSound /\ ExclusiveLease)'
<1> SUFFICES ASSUME LeaseInv, [Next]_vars PROVE PoolSound' /\ ExclusiveLease'
  OBVIOUS
<1>0. LeaseState
  BY LeaseInvState
<1> USE DEF Goto, closeVars, poolVars, threadVars
<1>1. ASSUME NEW t \in Threads, NEW r \in Routers, ReserveSlot(t, r) \/ StartWaiting(t, r)
      PROVE  PoolSound' /\ ExclusiveLease'
  <2>1. idle' = idle /\ sock' = sock /\ conn' = conn /\ pc[t] = "out" /\ rt' = [rt EXCEPT ![t] = r]
    BY <1>1 DEF ReserveSlot, StartWaiting
  <2>2. conn[t] = NoConn
    BY <1>0, <2>1 DEF LeaseState, Coherent
  <2> QED
    BY <1>0, <2>1, <2>2, QuietStep DEF LeaseState, LeaseTypes
<1>2. ASSUME NEW t \in Threads, NEW c \in Conns, CreateOk(t, c)
      PROVE  PoolSound' /\ ExclusiveLease'
  BY <1>0, <1>2, ConnectStep DEF CreateOk
<1>3. ASSUME NEW t \in Threads, CreateFail(t) \/ WaitTimeout(t) \/ ReplaceFail(t) \/ GiveUp(t)
      PROVE  PoolSound' /\ ExclusiveLease'
  <2>1. /\ idle' = idle /\ sock' = sock /\ conn' = conn
        /\ pc[t] \in {"creating", "waiting", "replacing", "retry"}
        /\ \A u \in Threads : u # t => rt'[u] = rt[u]
    BY <1>0, <1>3 DEF CreateFail, WaitTimeout, ReplaceFail, GiveUp, Leave, LeaseState, LeaseTypes
  <2>2. conn[t] = NoConn
    BY <1>0, <2>1 DEF LeaseState, Coherent
  <2> QED
    BY <1>0, <2>1, <2>2, QuietStep
<1>4. ASSUME NEW t \in Threads, NEW c \in Conns, TakeIdle(t, c) \/ ReconnectReuse(t, c)
      PROVE  PoolSound' /\ ExclusiveLease'
  BY <1>0, <1>4, TakeStep DEF TakeIdle, ReconnectReuse
<1>5. ASSUME NEW t \in Threads, NEW c \in Conns, ReplaceOk(t, c)
      PROVE  PoolSound' /\ ExclusiveLease'
  <2>1. /\ pc[t] = "replacing" /\ sock[c] = NoRouter /\ idle' = idle
        /\ sock' = [sock EXCEPT ![c] = rt[t]]
    BY <1>5 DEF ReplaceOk
  <2>2. CASE pooled[rt[t]]
    <3>1. conn' = [conn EXCEPT ![t] = c] /\ rt' = rt
      BY <1>5, <2>2 DEF ReplaceOk
    <3> QED
      BY <1>0, <2>1, <3>1, ConnectStep
  <2>3. CASE ~pooled[rt[t]]
    <3>1. conn' = conn /\ rt' = [rt EXCEPT ![t] = NoRouter]
      BY <1>5, <2>3 DEF ReplaceOk, Leave
    <3>2. conn[t] = NoConn
      BY <1>0, <2>1 DEF LeaseState, Coherent
    <3>3. \A u \in Threads : conn'[u] # NoConn => rt'[u] = rt[u]
      BY <1>0, <3>1, <3>2 DEF LeaseState, LeaseTypes
    <3> QED
      BY <1>0, <2>1, <3>1, <3>3, ConnectStep
  <2> QED
    BY <2>2, <2>3
<1>6. ASSUME NEW t \in Threads, Discard(t) \/ ReleaseBroken(t)
      PROVE  PoolSound' /\ ExclusiveLease'
  <2>1. /\ pc[t] \in {"stale", "held"} /\ idle' = idle
        /\ sock' = [sock EXCEPT ![conn[t]] = NoRouter]
        /\ conn' = [conn EXCEPT ![t] = NoConn]
    BY <1>6 DEF Discard, ReleaseBroken
  <2>2. \A u \in Threads : u # t => rt'[u] = rt[u]
    BY <1>0, <1>6 DEF Discard, ReleaseBroken, Leave, LeaseState, LeaseTypes
  <2> QED
    BY <1>0, <2>1, <2>2, CloseStep
<1>7. ASSUME NEW t \in Threads, Release(t)
      PROVE  PoolSound' /\ ExclusiveLease'
  BY <1>0, <1>7, ReleaseStep
<1>8. ASSUME NEW r \in Routers, CloseConnection(r)
      PROVE  PoolSound' /\ ExclusiveLease'
  BY <1>0, <1>8, DrainStep
<1>9. CASE ClearPools
  <2>1. /\ idle' = [r \in Routers |-> {}] /\ sock' = sock /\ conn' = conn /\ rt' = rt
    BY <1>9 DEF ClearPools
  <2>2. PoolSound'
    BY <2>1, FS_EmptySet, MaxConnsAssumption DEF PoolSound
  <2>3. ExclusiveLease'
    BY <1>0, <2>1 DEF LeaseState, ExclusiveLease
  <2> QED
    BY <2>2, <2>3
<1>10. CASE ShutdownExecutor
  <2>1. /\ idle' = idle /\ sock' = sock
        /\ \A t \in Threads : conn'[t] = NoConn \/ (conn'[t] = conn[t] /\ rt'[t] = rt[t])
    BY <1>10 DEF ShutdownExecutor
  <2> QED
    BY <1>0, <2>1 DEF LeaseState, PoolSound, ExclusiveLease
<1>11. ASSUME NEW t \in Threads, CheckPasses(t) \/ CheckTimesOut(t) \/ ReconnectPinned(t) \/ ReconnectNew(t)
       PROVE  PoolSound' /\ ExclusiveLease'
  BY <1>0, <1>11, QuietStep DEF CheckPasses, CheckTimesOut, ReconnectPinned, ReconnectNew
<1>12. CASE CloseAll
  BY <1>0, <1>12, QuietStep DEF CloseAll
<1>13. CASE UNCHANGED vars
  BY <1>0, <1>13, QuietStep DEF vars
<1> QED
  BY <1>1, <1>2, <1>3, <1>4, <1>5, <1>6, <1>7, <1>8, <1>9, <1>10, <1>11, <1>12, <1>13
  DEF Next, ThreadStep

(* Every connection is queued for its own router or leased to one thread,  *)
(* for any number of threads, whatever fails and whenever the pool closes. *)
LEMMA LeaseAlways == Spec => []LeaseInv
<1>1. Init => LeaseInv
  BY LeaseInit
<1>2. LeaseInv /\ [Next]_vars => LeaseInv'
  BY TypeNext, LeaseNext DEF LeaseInv
<1> QED
  BY <1>1, <1>2, PTL DEF Spec

(* get_connection and reconnect never hand out a closed connection or one  *)
(* of another router, and no queue outgrows MAX_CONNECTIONS_PER_ROUTER.    *)
THEOREM PoolSafety == Spec => []PoolSound
<1>1. LeaseInv => PoolSound
  BY DEF LeaseInv
<1> QED
  BY <1>1, LeaseAlways, PTL

(* No connection is ever with two threads, or with one and in a queue.     *)
THEOREM LeaseSafety == Spec => []ExclusiveLease
<1>1. LeaseInv => ExclusiveLease
  BY DEF LeaseInv
<1> QED
  BY <1>1, LeaseAlways, PTL

-----------------------------------------------------------------------------
(* The counter against what it counts.  Used(r) moves with the counter:    *)
(* each action changes one thread's membership of Holders, or one queue.   *)
Used(r) == Cardinality(idle[r]) + Cardinality(Holders(r))

Accounted == \A r \in Routers : count[r] <= Used(r)

One(b) == IF b THEN 1 ELSE 0

LEMMA HoldersFinite == \A r : IsFiniteSet(Holders(r)) /\ Cardinality(Holders(r)) \in Nat
<1>1. \A r : Holders(r) \subseteq Threads
  BY DEF Holders
<1> QED
  BY <1>1, ThreadsAssumption, FS_Subset, FS_CardinalityType

LEMMA HoldersFinitePrime ==
    \A r : IsFiniteSet(Holders(r)') /\ Cardinality(Holders(r)') \in Nat
<1>1. \A r : Holders(r)' \subseteq Threads
  BY DEF Holders
<1> QED
  BY <1>1, ThreadsAssumption, FS_Subset, FS_CardinalityType

(* One thread moves: the holders of a router gain or lose at most it.      *)
LEMMA HoldersMove ==
    ASSUME NEW t \in Threads, NEW r,
           \A u \in Threads : u # t => pc'[u] = pc[u] /\ rt'[u] = rt[u]
    PROVE  Cardinality(Holders(r)')
             = Cardinality(Holders(r)) + One(t \in Holders(r)') - One(t \in Holders(r))
<1>1. IsFiniteSet(Holders(r)) /\ Cardinality(Holders(r)) \in Nat
  BY HoldersFinite
<1>2. CASE t \in Holders(r)'
  <2>1. Holders(r)' = Holders(r) \cup {t}
    BY <1>2 DEF Holders
  <2> QED
    BY <1>1, <1>2, <2>1, FS_AddElement DEF One
<1>3. CASE t \notin Holders(r)'
  <2>1. Holders(r)' = Holders(r) \ {t}
    BY <1>3 DEF Holders
  <2>2. Cardinality(Holders(r) \ {t})
          = IF t \in Holders(r) THEN Cardinality(Holders(r)) - 1 ELSE Cardinality(Holders(r))
    BY <1>1, FS_RemoveElement
  <2> QED
    BY <1>1, <1>3, <2>1, <2>2 DEF One
<1> QED
  BY <1>2, <1>3

(* The counter of the thread's router rises by no more than its holders,   *)
(* or claims nothing, and the queues do not change: every step but takes,  *)
(* releases and drains.                                                    *)
LEMMA SlotStep ==
    ASSUME LeaseState, Accounted, count \in [Routers -> Int], count' \in [Routers -> Int],
           NEW t \in Threads, idle' = idle,
           \A u \in Threads : u # t => pc'[u] = pc[u] /\ rt'[u] = rt[u],
           \A r \in Routers :
               \/ count'[r] <= 0
               \/ count'[r] - count[r] <= One(t \in Holders(r)') - One(t \in Holders(r))
    PROVE  Accounted'
<1> SUFFICES ASSUME NEW r \in Routers PROVE count'[r] <= Used(r)'
  BY DEF Accounted
<1>1. Cardinality(idle[r]) \in Nat /\ Cardinality(Holders(r)) \in Nat
  BY IdleFinite, HoldersFinite DEF LeaseState
<1>2. Cardinality(Holders(r)')
        = Cardinality(Holders(r)) + One(t \in Holders(r)') - One(t \in Holders(r))
  BY HoldersMove
<1>3. count[r] <= Cardinality(idle[r]) + Cardinality(Holders(r))
  BY DEF Accounted, Used
<1>4. One(t \in Holders(r)') \in Int /\ One(t \in Holders(r)) \in Int
  BY DEF One
<1>5. Used(r)' = Cardinality(idle[r]) + Cardinality(Holders(r)')
  BY DEF Used
<1>6. count[r] \in Int /\ count'[r] \in Int /\ Cardinality(Holders(r)') \in Nat
  BY HoldersFinitePrime
<1> QED
  BY <1>1, <1>2, <1>3, <1>4, <1>5, <1>6

(* Taking from the queue or giving back to it moves a connection between   *)
(* the two terms of Used, the counter stays.                               *)
LEMMA TakeAccounted ==
    ASSUME LeaseState, Accounted, NEW t \in Threads, NEW c \in Conns,
           pc[t] \in {"waiting", "retry"}, c \in idle[rt[t]],
           idle' = [idle EXCEPT ![rt[t]] = @ \ {c}], count' = count, rt' = rt,
           pc'[t] \in {"checking", "held"}, \A u \in Threads : u # t => pc'[u] = pc[u]
    PROVE  Accounted'
<1> SUFFICES ASSUME NEW r \in Routers PROVE count'[r] <= Used(r)'
  BY DEF Accounted
<1>1. Cardinality(idle[r]) \in Nat /\ Cardinality(Holders(r)) \in Nat
  BY IdleFinite, HoldersFinite DEF LeaseState
<1>2. Cardinality(Holders(r)')
        = Cardinality(Holders(r)) + One(t \in Holders(r)') - One(t \in Holders(r))
  BY HoldersMove
<1>3. One(t \in Holders(r)) = 0
  BY DEF One, Holders, Counted
<1>4. rt[t] \in Routers
  BY Absent DEF LeaseState, LeaseTypes, Coherent
<1>5. CASE r = rt[t]
  <2>1. One(t \in Holders(r)') = 1
    BY <1>5 DEF One, Holders, Counted
  <2>2. Cardinality(idle'[r]) = Cardinality(idle[r]) - 1
    <3>1. idle'[r] = idle[r] \ {c}
      BY <1>4, <1>5 DEF LeaseState, LeaseTypes
    <3> QED
      BY <1>5, <3>1, FewerIdle
  <2>3. count[r] <= Cardinality(idle[r]) + Cardinality(Holders(r))
    BY DEF Accounted, Used
  <2>4. Used(r)' = Cardinality(idle'[r]) + Cardinality(Holders(r)')
    BY DEF Used
  <2>5. Used(r)' = Cardinality(idle[r]) + Cardinality(Holders(r))
    BY <1>1, <1>2, <1>3, <2>1, <2>2, <2>4
  <2> QED
    BY <2>3, <2>5
<1>6. CASE r # rt[t]
  <2>1. One(t \in Holders(r)') = 0
    BY <1>6 DEF One, Holders
  <2>2. idle'[r] = idle[r]
    BY <1>6 DEF LeaseState, LeaseTypes
  <2>3. Used(r)' = Used(r)
    BY <1>1, <1>2, <1>3, <2>1, <2>2 DEF Used
  <2> QED
    BY <2>3 DEF Accounted
<1> QED
  BY <1>5, <1>6

(* Without an entry in self.pools the counter is absent, that is 0.        *)
Cleared == \A r \in Routers : ~pooled[r] => count[r] <= 0

LEMMA ReleaseAccounted ==
    ASSUME LeaseState, Accounted, Cleared, count \in [Routers -> Int], NEW t \in Threads, Release(t)
    PROVE  Accounted'
<1> SUFFICES ASSUME NEW r \in Routers PROVE count'[r] <= Used(r)'
  BY DEF Accounted
<1>1. IsFiniteSet(idle[r]) /\ Cardinality(idle[r]) \in Nat /\ Cardinality(Holders(r)) \in Nat
  BY IdleFinite, HoldersFinite DEF LeaseState
<1>2. pc[t] = "held" /\ rt[t] \in Routers /\ conn[t] \notin idle[rt[t]]
  BY HeldConn DEF Release
<1>3. \A u \in Threads : u # t => pc'[u] = pc[u] /\ rt'[u] = rt[u]
  BY DEF Release, Leave, Goto, LeaseState, LeaseTypes
<1>4. pc'[t] = "out" /\ rt'[t] = NoRouter
  BY DEF Release, Leave, Goto, LeaseState, LeaseTypes
<1>5. Cardinality(Holders(r)')
        = Cardinality(Holders(r)) + One(t \in Holders(r)') - One(t \in Holders(r))
  BY <1>3, HoldersMove
<1>6. One(t \in Holders(r)') = 0
  BY <1>4, Absent DEF One, Holders
<1>7. count[r] <= Cardinality(idle[r]) + Cardinality(Holders(r))
  BY DEF Accounted, Used
<1>8. Used(r)' = Cardinality(idle'[r]) + Cardinality(Holders(r)')
  BY DEF Used
<1>9. CASE r # rt[t]
  <2>1. One(t \in Holders(r)) = 0
    BY <1>9 DEF One, Holders
  <2>2. idle'[r] = idle[r] /\ count'[r] = count[r]
    BY <1>9 DEF Release, LeaseState, LeaseTypes
  <2> QED
    BY <1>1, <1>5, <1>6, <1>7, <1>8, <2>1, <2>2
<1>10. CASE r = rt[t] /\ pooled[r]
  <2>1. One(t \in Holders(r)) = 1
    BY <1>2, <1>10 DEF One, Holders, Counted
  <2>2. CASE Cardinality(idle[r]) >= MaxConns
    <3>1. idle'[r] = idle[r] /\ count'[r] = count[r] - 1
      BY <1>10, <2>2 DEF Release, LeaseState, LeaseTypes
    <3> QED
      BY <1>1, <1>5, <1>6, <1>7, <1>8, <2>1, <3>1
  <2>3. CASE ~(Cardinality(idle[r]) >= MaxConns)
    <3>1. idle'[r] = idle[r] \cup {conn[t]} /\ count'[r] = count[r]
      BY <1>10, <2>3 DEF Release, LeaseState, LeaseTypes
    <3>2. Cardinality(idle[r] \cup {conn[t]}) = Cardinality(idle[r]) + 1
      BY <1>1, <1>2, <1>10, FS_AddElement
    <3> QED
      BY <1>1, <1>5, <1>6, <1>7, <1>8, <2>1, <3>1, <3>2
  <2> QED
    BY <2>2, <2>3
<1>11. CASE r = rt[t] /\ ~pooled[r]
  <2>1. count'[r] <= 0
    BY <1>11 DEF Release, LeaseState, LeaseTypes, Cleared
  <2>2. Cardinality(idle'[r]) \in Nat /\ Cardinality(Holders(r)') \in Nat
    <3>1. idle'[r] = idle[r]
      BY <1>11 DEF Release, LeaseState, LeaseTypes
    <3> QED
      BY <1>1, <3>1, HoldersFinitePrime
  <2>3. count'[r] \in Int
    BY <1>11 DEF Release, LeaseState, LeaseTypes
  <2> QED
    BY <1>8, <2>1, <2>2, <2>3
<1> QED
  BY <1>9, <1>10, <1>11

LEMMA DrainAccounted ==
    ASSUME LeaseState, Accounted, count \in [Routers -> Int],
           NEW q \in Routers, CloseConnection(q)
    PROVE  Accounted'
<1> SUFFICES ASSUME NEW r \in Routers PROVE count'[r] <= Used(r)'
  BY DEF Accounted
<1>1. Cardinality(idle[r]) \in Nat /\ Cardinality(Holders(r)) \in Nat
  BY IdleFinite, HoldersFinite DEF LeaseState
<1>2. pc' = pc /\ rt' = rt
  BY DEF CloseConnection, threadVars
<1>3. Holders(r)' = Holders(r)
  BY <1>2 DEF Holders
<1>4. count[r] \in Int /\ count[r] <= Cardinality(idle[r]) + Cardinality(Holders(r))
  BY DEF Accounted, Used
<1>5. Used(r)' = Cardinality(idle'[r]) + Cardinality(Holders(r))
  BY <1>3 DEF Used
<1>6. CASE r = q
  <2>1. idle'[r] = {}
    BY <1>6 DEF CloseConnection, LeaseState, LeaseTypes
  <2>2. count'[r] = IF count[r] <= 0 THEN count[r]
                    ELSE IF Cardinality(idle[r]) > count[r] THEN 0 ELSE count[r] - Cardinality(idle[r])
    BY <1>6 DEF CloseConnection
  <2>3. Used(r)' = Cardinality(Holders(r))
    BY <1>1, <1>5, <2>1, FS_EmptySet
  <2> QED
    BY <1>1, <1>4, <2>2, <2>3
<1>7. CASE r # q
  <2>1. idle'[r] = idle[r] /\ count'[r] = count[r]
    BY <1>7 DEF CloseConnection, LeaseState, LeaseTypes
  <2> QED
    BY <1>4, <1>5, <2>1
<1> QED
  BY <1>6, <1>7

LEMMA ClearedInit == Init => Cleared
BY DEF Init, Cleared

LEMMA ClearedNext == TypeOK /\ Cleared /\ [Next]_vars => Cleared'
<1> SUFFICES ASSUME TypeOK, Cleared, [Next]_vars, NEW r \in Routers, ~pooled'[r]
             PROVE  count'[r] <= 0
  BY DEF Cleared
<1>0. count \in [Routers -> Int] /\ pooled \in [Routers -> BOOLEAN]
  BY DEF TypeOK
<1> USE <1>0 DEF Cleared, Goto, closeVars, poolVars, threadVars
<1>1. ASSUME NEW t \in Threads, ThreadStep(t) PROVE count'[r] <= 0
  <2>1. ASSUME NEW q \in Routers, ReserveSlot(t, q) \/ StartWaiting(t, q) PROVE count'[r] <= 0
    BY <2>1 DEF ReserveSlot, StartWaiting
  <2>2. ASSUME NEW c \in Conns, CreateOk(t, c) \/ TakeIdle(t, c) \/ ReconnectReuse(t, c)
        PROVE  count'[r] <= 0
    BY <2>2 DEF CreateOk, TakeIdle, ReconnectReuse
  <2>3. ASSUME NEW c \in Conns, ReplaceOk(t, c) PROVE count'[r] <= 0
    BY <2>3 DEF ReplaceOk
  <2>4. CASE CreateFail(t)
    BY <2>4 DEF CreateFail, BareDec
  <2>5. CASE WaitTimeout(t) \/ CheckPasses(t) \/ CheckTimesOut(t) \/ ReplaceFail(t) \/ GiveUp(t)
    BY <2>5 DEF WaitTimeout, CheckPasses, CheckTimesOut, ReplaceFail, GiveUp
  <2>6. CASE Discard(t) \/ ReleaseBroken(t)
    BY <2>6 DEF Discard, ReleaseBroken, GuardedDec
  <2>7. CASE Release(t)
    BY <2>7 DEF Release
  <2>8. CASE ReconnectPinned(t)
    BY <2>8, MaxConnsAssumption DEF ReconnectPinned
  <2>9. CASE ReconnectNew(t)
    BY <2>9 DEF ReconnectNew
  <2> QED
    BY <1>1, <2>1, <2>2, <2>3, <2>4, <2>5, <2>6, <2>7, <2>8, <2>9 DEF ThreadStep
<1>2. CASE CloseAll \/ ShutdownExecutor
  BY <1>2 DEF CloseAll, ShutdownExecutor
<1>3. ASSUME NEW q \in Routers, CloseConnection(q) PROVE count'[r] <= 0
  BY <1>3 DEF CloseConnection
<1>4. CASE ClearPools
  BY <1>4 DEF ClearPools
<1>5. CASE UNCHANGED vars
  BY <1>5 DEF vars
<1> QED
  BY <1>1, <1>2, <1>3, <1>4, <1>5 DEF Next

SlotInv == LeaseInv /\ Cleared /\ NoPhantomSlot

LEMMA SlotNext == SlotInv /\ [Next]_vars => NoPhantomSlot'
<1> SUFFICES ASSUME SlotInv, [Next]_vars, ~hcDown' PROVE Accounted'
  BY DEF NoPhantomSlot, Accounted, Used
<1>0. LeaseState /\ count \in [Routers -> Int] /\ count' \in [Routers -> Int]
  BY LeaseInvState, TypeNext DEF SlotInv, LeaseInv, TypeOK
<1>a. ~hcDown /\ ~ShutdownExecutor
  <2>1. ASSUME NEW t \in Threads, ThreadStep(t) PROVE closing' = closing
    BY <2>1 DEF ThreadStep, closeVars, ReserveSlot, StartWaiting, CreateOk, CreateFail, TakeIdle,
       WaitTimeout, CheckPasses, CheckTimesOut, Discard, ReplaceOk, ReplaceFail, ReleaseBroken, Release,
       ReconnectReuse, ReconnectPinned, ReconnectNew, GiveUp
  <2>2. CASE UNCHANGED vars
    BY <2>2 DEF hcDown, ShutdownExecutor, vars, closeVars
  <2>3. CASE CloseAll \/ (\E q \in Routers : CloseConnection(q)) \/ ClearPools
    BY <2>3 DEF hcDown, ShutdownExecutor, CloseAll, CloseConnection, ClearPools
  <2>4. ~ShutdownExecutor
    BY DEF hcDown, ShutdownExecutor
  <2> QED
    BY <2>1, <2>2, <2>3, <2>4 DEF hcDown, Next
<1>b. Accounted /\ Cleared
  BY <1>a DEF SlotInv, NoPhantomSlot, Accounted, Used
<1>c. pc \in [Threads -> PCs] /\ rt \in [Threads -> Routers \cup {NoRouter}] /\ Coherent
  BY <1>0 DEF LeaseState, LeaseTypes
<1> USE <1>0, <1>b, <1>c DEF Goto, Counted, Holders, One
<1>1. ASSUME NEW t \in Threads, NEW q \in Routers, ReserveSlot(t, q) PROVE Accounted'
  BY <1>1, Absent, SlotStep DEF ReserveSlot, Coherent
<1>2. ASSUME NEW t \in Threads, NEW q \in Routers, StartWaiting(t, q) PROVE Accounted'
  BY <1>2, Absent, SlotStep DEF StartWaiting, Coherent, poolVars
<1>3. ASSUME NEW t \in Threads, NEW c \in Conns, CreateOk(t, c) PROVE Accounted'
  BY <1>3, SlotStep DEF CreateOk
<1>4. ASSUME NEW t \in Threads, CreateFail(t) PROVE Accounted'
  <2>1. /\ idle' = idle /\ count' = BareDec(rt[t]) /\ pc[t] = "creating"
        /\ \A u \in Threads : u # t => pc'[u] = pc[u] /\ rt'[u] = rt[u]
        /\ pc'[t] \in {"out", "retry"}
    BY <1>4 DEF CreateFail, Leave
  <2>2. \A r \in Routers : t \notin Holders(r)' /\ (t \in Holders(r) <=> rt[t] = r)
    BY <2>1
  <2>3. ASSUME NEW r \in Routers
        PROVE  \/ count'[r] <= 0
               \/ count'[r] - count[r] <= One(t \in Holders(r)') - One(t \in Holders(r))
    <3>1. One(t \in Holders(r)') = 0 /\ One(t \in Holders(r)) = IF rt[t] = r THEN 1 ELSE 0
      BY <2>2
    <3>2. CASE rt[t] = r /\ pooled[r]
      <4>1. count'[r] = count[r] - 1
        BY <2>1, <3>2 DEF BareDec
      <4> QED
        BY <3>1, <3>2, <4>1
    <3>3. CASE ~(rt[t] = r /\ pooled[r])
      <4>1. count'[r] = count[r]
        BY <2>1, <3>3 DEF BareDec
      <4>2. rt[t] = r => count[r] <= 0
        BY <3>3 DEF Cleared
      <4> QED
        BY <3>1, <3>3, <4>1, <4>2
    <3> QED
      BY <3>2, <3>3
  <2> HIDE DEF One, Holders
  <2> QED
    BY <2>1, <2>3, SlotStep
<1>5. ASSUME NEW t \in Threads, WaitTimeout(t) \/ ReplaceFail(t) \/ GiveUp(t)
      PROVE  Accounted'
  BY <1>5, SlotStep DEF WaitTimeout, ReplaceFail, GiveUp, Leave, poolVars
<1>6. ASSUME NEW t \in Threads, NEW c \in Conns, TakeIdle(t, c) \/ ReconnectReuse(t, c)
      PROVE  Accounted'
  BY <1>6, TakeAccounted DEF TakeIdle, ReconnectReuse
<1>7. ASSUME NEW t \in Threads, CheckPasses(t) \/ CheckTimesOut(t) PROVE Accounted'
  BY <1>7, SlotStep DEF CheckPasses, CheckTimesOut, poolVars
<1>8. ASSUME NEW t \in Threads, Discard(t) \/ ReleaseBroken(t) PROVE Accounted'
  <2>1. /\ idle' = idle /\ count' = GuardedDec(rt[t]) /\ pc[t] \in {"stale", "held"}
        /\ \A u \in Threads : u # t => pc'[u] = pc[u] /\ rt'[u] = rt[u]
        /\ pc'[t] \in {"replacing", "out", "retry"}
    BY <1>8 DEF Discard, ReleaseBroken, Leave
  <2>2. \A r \in Routers : t \notin Holders(r)' /\ (t \in Holders(r) <=> rt[t] = r)
    BY <2>1
  <2>3. ASSUME NEW r \in Routers
        PROVE  \/ count'[r] <= 0
               \/ count'[r] - count[r] <= One(t \in Holders(r)') - One(t \in Holders(r))
    <3>1. One(t \in Holders(r)') = 0 /\ One(t \in Holders(r)) = IF rt[t] = r THEN 1 ELSE 0
      BY <2>2
    <3>2. count'[r] = IF r = rt[t] /\ count[r] > 0 THEN count[r] - 1 ELSE count[r]
      BY <2>1 DEF GuardedDec
    <3> QED
      BY <3>1, <3>2
  <2> HIDE DEF One, Holders
  <2> QED
    BY <2>1, <2>3, SlotStep
<1>9. ASSUME NEW t \in Threads, NEW c \in Conns, ReplaceOk(t, c) PROVE Accounted'
  BY <1>9, SlotStep DEF ReplaceOk, Leave
<1>10. ASSUME NEW t \in Threads, Release(t) PROVE Accounted'
  BY <1>10, ReleaseAccounted
<1>11. ASSUME NEW t \in Threads, ReconnectPinned(t) \/ ReconnectNew(t) PROVE Accounted'
  BY <1>11, MaxConnsAssumption, SlotStep DEF ReconnectPinned, ReconnectNew
<1>13. CASE CloseAll
  BY <1>13 DEF CloseAll, Accounted, Used, poolVars, threadVars
<1>14. ASSUME NEW q \in Routers, CloseConnection(q) PROVE Accounted'
  BY <1>14, DrainAccounted
<1>15. CASE ClearPools
  <2>1. \A r \in Routers : count'[r] = 0 /\ idle'[r] = {}
    BY <1>15 DEF ClearPools
  <2> HIDE DEF Holders
  <2>2. \A r \in Routers : Used(r)' \in Nat
    BY <2>1, FS_EmptySet, HoldersFinitePrime DEF Used
  <2> QED
    BY <2>1, <2>2 DEF Accounted
<1>16. CASE UNCHANGED vars
  BY <1>16 DEF vars, Accounted, Used, poolVars, threadVars
<1> QED
  BY <1>a, <1>1, <1>2, <1>3, <1>4, <1>5, <1>6, <1>7, <1>8, <1>9, <1>10, <1>11, <1>13,
     <1>14, <1>15, <1>16 DEF Next, ThreadStep

(* Every slot the counter claims is a connection or one being created, so  *)
(* no failure of connect, health check or command can use up a router's    *)
(* slots for good.                                                         *)
THEOREM NoSlotLost == Spec => []NoPhantomSlot
<1>1. Init => SlotInv
  <2>1. ASSUME Init PROVE NoPhantomSlot
    <3>1. LeaseTypes
      BY <2>1, LeaseInit, LeaseInvState DEF LeaseState
    <3>2. \A r \in Routers : Cardinality(idle[r]) \in Nat /\ Cardinality(Holders(r)) \in Nat
      BY <3>1, IdleFinite, HoldersFinite
    <3>3. \A r \in Routers : count[r] = 0
      BY <2>1 DEF Init
    <3> QED
      BY <3>2, <3>3 DEF NoPhantomSlot
  <2> QED
    BY <2>1, LeaseInit, ClearedInit DEF SlotInv
<1>2. SlotInv /\ [Next]_vars => SlotInv'
  BY TypeNext, LeaseNext, ClearedNext, SlotNext DEF SlotInv, LeaseInv
<1>3. SlotInv => NoPhantomSlot
  BY DEF SlotInv
<1> QED
  BY <1>1, <1>2, <1>3, PTL DEF Spec

-----------------------------------------------------------------------------
(* No socket is leaked.  Until close_all every router of a call is pooled, *)
(* so a release puts its connection back or closes it; a router that is    *)
(* not pooled has no idle connections and a counter that claims none.      *)
InUse(c) == (\E r \in Routers : c \in idle[r]) \/ (\E t \in Threads : conn[t] = c)

PooledInv ==
    closing = "open" =>
        /\ toClose = {}
        /\ \A r \in Routers : ~pooled[r] => idle[r] = {} /\ count[r] <= 0
        /\ \A t \in Threads : rt[t] # NoRouter => pooled[rt[t]]

LEMMA PooledInit == Init => PooledInv
BY DEF Init, PooledInv

(* No step opens the pool again, and in an open pool none is being closed. *)
LEMMA StillOpen ==
    ASSUME PooledInv, [Next]_vars, closing' = "open"
    PROVE  /\ closing = "open" /\ toClose = {} /\ toClose' = {}
           /\ ~CloseAll /\ ~ClearPools /\ ~ShutdownExecutor
           /\ \A r \in Routers : ~CloseConnection(r)
<1> USE DEF PooledInv, closeVars
<1>1. ~CloseAll /\ ~ClearPools /\ ~ShutdownExecutor
  BY DEF CloseAll, ClearPools, ShutdownExecutor
<1>2. ASSUME NEW r \in Routers, CloseConnection(r) PROVE FALSE
  BY <1>2 DEF CloseConnection
<1>3. ASSUME NEW t \in Threads, ThreadStep(t) PROVE UNCHANGED closeVars
  BY <1>3 DEF ThreadStep, ReserveSlot, StartWaiting, CreateOk, TakeIdle, ReplaceOk,
     ReconnectReuse, CreateFail, WaitTimeout, CheckPasses, CheckTimesOut, Discard, ReplaceFail, ReleaseBroken,
     Release, ReconnectPinned, ReconnectNew, GiveUp
<1>5. UNCHANGED closeVars
  BY <1>1, <1>2, <1>3 DEF Next, vars
<1> QED
  BY <1>1, <1>2, <1>5

LEMMA PooledNext == LeaseInv /\ PooledInv /\ [Next]_vars => PooledInv'
<1> SUFFICES ASSUME LeaseInv, PooledInv, [Next]_vars, closing' = "open"
             PROVE  /\ \A r \in Routers : ~pooled'[r] => idle'[r] = {} /\ count'[r] <= 0
                    /\ \A t \in Threads : rt'[t] # NoRouter => pooled'[rt'[t]]
  BY StillOpen DEF PooledInv
<1> DEFINE Goal == /\ \A r \in Routers : ~pooled'[r] => idle'[r] = {} /\ count'[r] <= 0
                   /\ \A t \in Threads : rt'[t] # NoRouter => pooled'[rt'[t]]
<1>0. /\ closing = "open"
      /\ \A r \in Routers : ~pooled[r] => idle[r] = {} /\ count[r] <= 0
      /\ \A t \in Threads : rt[t] # NoRouter => pooled[rt[t]]
  BY StillOpen DEF PooledInv
<1>t. /\ pooled \in [Routers -> BOOLEAN] /\ idle \in [Routers -> SUBSET Conns]
      /\ count \in [Routers -> Int] /\ rt \in [Threads -> Routers \cup {NoRouter}]
      /\ \A t \in Threads : rt[t] = NoRouter <=> pc[t] = "out"
  BY DEF LeaseInv, TypeOK, Coherent
<1> USE RoutersAssumption, MaxConnsAssumption
    DEF Goto, Leave, closeVars, poolVars, threadVars
<1>1. ASSUME NEW t \in Threads, NEW r \in Routers, ReserveSlot(t, r) \/ StartWaiting(t, r)
      PROVE  Goal
  <2>1. pooled'[r]
    BY <1>0, <1>1, <1>t DEF ReserveSlot, StartWaiting
  <2> QED
    BY <1>0, <1>1, <1>t, <2>1 DEF ReserveSlot, StartWaiting
<1>2. ASSUME NEW t \in Threads, NEW c \in Conns,
             CreateOk(t, c) \/ TakeIdle(t, c) \/ ReconnectReuse(t, c)
      PROVE  Goal
  <2>1. pooled' = pooled /\ count' = count /\ rt' = rt
    BY <1>2 DEF CreateOk, TakeIdle, ReconnectReuse
  <2>2. idle' = idle \/ idle' = [idle EXCEPT ![rt[t]] = @ \ {c}]
    BY <1>2 DEF CreateOk, TakeIdle, ReconnectReuse
  <2>3. \A r \in Routers : idle'[r] \subseteq idle[r]
    BY <1>t, <2>2
  <2> QED
    BY <1>0, <2>1, <2>3
<1>3. ASSUME NEW t \in Threads, NEW c \in Conns, ReplaceOk(t, c) PROVE Goal
  BY <1>0, <1>3, <1>t DEF ReplaceOk
<1>4. ASSUME NEW t \in Threads,
             CreateFail(t) \/ WaitTimeout(t) \/ ReplaceFail(t) \/ GiveUp(t) \/ CheckPasses(t) \/ CheckTimesOut(t)
      PROVE  Goal
  <2>1. CASE CreateFail(t) \/ CheckPasses(t) \/ CheckTimesOut(t)
    BY <1>0, <1>t, <2>1 DEF CreateFail, CheckPasses, CheckTimesOut, BareDec
  <2>2. CASE WaitTimeout(t) \/ ReplaceFail(t) \/ GiveUp(t)
    BY <1>0, <1>t, <2>2 DEF WaitTimeout, ReplaceFail, GiveUp, BareDec
  <2> QED
    BY <1>4, <2>1, <2>2
<1>5. ASSUME NEW t \in Threads, Discard(t) \/ ReleaseBroken(t) PROVE Goal
  BY <1>0, <1>5, <1>t DEF Discard, ReleaseBroken, GuardedDec
<1>6. ASSUME NEW t \in Threads, Release(t) PROVE Goal
  BY <1>0, <1>6, <1>t DEF Release
<1>7. ASSUME NEW t \in Threads, ReconnectPinned(t) \/ ReconnectNew(t) PROVE Goal
  BY <1>0, <1>7, <1>t DEF ReconnectPinned, ReconnectNew
<1>8. CASE UNCHANGED vars
  BY <1>0, <1>8 DEF vars
<1> QED
  BY StillOpen, <1>1, <1>2, <1>3, <1>4, <1>5, <1>6, <1>7, <1>8 DEF Next, ThreadStep

(* What a thread's step does to the connections in use.                    *)
LEMMA InUseMoves ==
    ASSUME LeaseState, NEW t \in Threads, NEW c \in Conns, conn[t] = NoConn,
           conn' = [conn EXCEPT ![t] = c],
           \A r \in Routers : \A d \in idle[r] : d = c \/ d \in idle'[r]
    PROVE  InUse(c)' /\ \A d \in Conns : InUse(d) => InUse(d)'
BY Absent DEF LeaseState, LeaseTypes, InUse

LEMMA InUseEnds ==
    ASSUME LeaseState, NEW t \in Threads, conn' = [conn EXCEPT ![t] = NoConn],
           \A r \in Routers : idle[r] \subseteq idle'[r]
    PROVE  \A d \in Conns : InUse(d) /\ d # conn[t] => InUse(d)'
BY Absent DEF LeaseState, LeaseTypes, InUse

LEMMA LeakNext == LeaseInv /\ PooledInv /\ NoLeakedSocket /\ [Next]_vars => NoLeakedSocket'
<1> SUFFICES ASSUME LeaseInv, PooledInv, NoLeakedSocket, [Next]_vars, closing' = "open"
             PROVE  \A c \in Conns : sock'[c] # NoRouter => InUse(c)'
  BY DEF NoLeakedSocket, InUse
<1> DEFINE Goal == \A c \in Conns : sock'[c] # NoRouter => InUse(c)'
<1>0. LeaseState /\ \A c \in Conns : sock[c] # NoRouter => InUse(c)
  BY LeaseInvState, StillOpen DEF NoLeakedSocket, InUse
<1>p. \A t \in Threads : rt[t] # NoRouter => pooled[rt[t]]
  BY StillOpen DEF PooledInv
<1>t. /\ sock \in [Conns -> Routers \cup {NoRouter}] /\ conn \in [Threads -> Conns \cup {NoConn}]
      /\ idle \in [Routers -> SUBSET Conns]
      /\ \A t \in Threads : /\ rt[t] = NoRouter <=> pc[t] = "out"
                            /\ conn[t] = NoConn <=> pc[t] \notin {"checking", "stale", "held"}
  BY <1>0 DEF LeaseState, LeaseTypes, Coherent
<1> USE DEF Goto, closeVars, poolVars, threadVars
<1>1. ASSUME idle' = idle, sock' = sock, conn' = conn PROVE Goal
  BY <1>0, <1>1 DEF InUse
<1>2. ASSUME NEW t \in Threads, NEW c \in Conns, CreateOk(t, c) \/ ReplaceOk(t, c) PROVE Goal
  <2>1. /\ conn[t] = NoConn /\ idle' = idle /\ sock' = [sock EXCEPT ![c] = rt[t]]
        /\ conn' = [conn EXCEPT ![t] = c]
    BY <1>2, <1>t, <1>p DEF CreateOk, ReplaceOk
  <2>2. InUse(c)' /\ \A d \in Conns : InUse(d) => InUse(d)'
    BY <1>0, <2>1, InUseMoves
  <2> QED
    BY <1>0, <1>t, <2>1, <2>2
<1>3. ASSUME NEW t \in Threads, NEW c \in Conns, TakeIdle(t, c) \/ ReconnectReuse(t, c) PROVE Goal
  <2>1. /\ conn[t] = NoConn /\ idle' = [idle EXCEPT ![rt[t]] = @ \ {c}] /\ sock' = sock
        /\ conn' = [conn EXCEPT ![t] = c]
    BY <1>3, <1>t DEF TakeIdle, ReconnectReuse
  <2>2. \A r \in Routers : \A d \in idle[r] : d = c \/ d \in idle'[r]
    BY <1>t, <2>1
  <2>3. InUse(c)' /\ \A d \in Conns : InUse(d) => InUse(d)'
    BY <1>0, <2>1, <2>2, InUseMoves
  <2> QED
    BY <1>0, <2>1, <2>3
<1>4. ASSUME NEW t \in Threads, Discard(t) \/ ReleaseBroken(t) PROVE Goal
  <2>1. /\ idle' = idle /\ conn' = [conn EXCEPT ![t] = NoConn]
        /\ sock' = [sock EXCEPT ![conn[t]] = NoRouter]
    BY <1>4 DEF Discard, ReleaseBroken
  <2>2. \A d \in Conns : InUse(d) /\ d # conn[t] => InUse(d)'
    BY <1>0, <2>1, InUseEnds
  <2> QED
    BY <1>0, <1>t, <2>1, <2>2
<1>5. ASSUME NEW t \in Threads, Release(t) PROVE Goal
  <2>1. /\ rt[t] \in Routers /\ pooled[rt[t]] /\ conn[t] \in Conns
        /\ conn' = [conn EXCEPT ![t] = NoConn]
    BY <1>5, <1>p, <1>t, <1>0, HeldConn DEF Release
  <2>2. CASE Cardinality(idle[rt[t]]) >= MaxConns
    <3>1. /\ idle' = [idle EXCEPT ![rt[t]] = @] /\ sock' = [sock EXCEPT ![conn[t]] = NoRouter]
      BY <1>5, <2>1, <2>2 DEF Release
    <3>2. \A d \in Conns : InUse(d) /\ d # conn[t] => InUse(d)'
      BY <1>0, <1>t, <2>1, <3>1, InUseEnds
    <3> QED
      BY <1>0, <1>t, <2>1, <3>1, <3>2
  <2>3. CASE ~(Cardinality(idle[rt[t]]) >= MaxConns)
    <3>1. idle' = [idle EXCEPT ![rt[t]] = @ \cup {conn[t]}] /\ sock' = [sock EXCEPT ![conn[t]] = @]
      BY <1>5, <2>1, <2>3 DEF Release
    <3>2. \A d \in Conns : InUse(d) /\ d # conn[t] => InUse(d)'
      BY <1>0, <1>t, <2>1, <3>1, InUseEnds
    <3>3. conn[t] \in idle'[rt[t]]
      BY <1>t, <2>1, <3>1
    <3>4. sock' = sock
      BY <1>t, <3>1
    <3>5. ASSUME NEW d \in Conns, sock'[d] # NoRouter PROVE InUse(d)'
      <4>1. InUse(d)
        BY <1>0, <3>4, <3>5
      <4>2. CASE d = conn[t]
        BY <2>1, <3>3, <4>2 DEF InUse
      <4> QED
        BY <3>2, <4>1, <4>2
    <3> QED
      BY <3>5
  <2> QED
    BY <2>2, <2>3
<1>6. ASSUME NEW t \in Threads, NEW r \in Routers, ReserveSlot(t, r) \/ StartWaiting(t, r) PROVE Goal
  BY <1>1, <1>6 DEF ReserveSlot, StartWaiting
<1>7. ASSUME NEW t \in Threads,
             \/ CreateFail(t) \/ WaitTimeout(t) \/ ReplaceFail(t) \/ GiveUp(t) \/ CheckPasses(t) \/ CheckTimesOut(t)
             \/ ReconnectPinned(t) \/ ReconnectNew(t)
      PROVE  Goal
  BY <1>1, <1>7 DEF CreateFail, WaitTimeout, ReplaceFail, GiveUp, CheckPasses, CheckTimesOut, ReconnectPinned,
     ReconnectNew
<1>8. CASE UNCHANGED vars
  BY <1>1, <1>8 DEF vars
<1> QED
  BY StillOpen, <1>2, <1>3, <1>4, <1>5, <1>6, <1>7, <1>8 DEF Next, ThreadStep

(* Whatever fails, an open connection stays within reach until close_all.  *)
THEOREM SocketsReachable == Spec => []NoLeakedSocket
<1>1. Init => PooledInv /\ NoLeakedSocket
  BY PooledInit DEF Init, NoLeakedSocket
<1>2. LeaseInv /\ PooledInv /\ NoLeakedSocket /\ [Next]_vars => (PooledInv /\ NoLeakedSocket)'
  BY PooledNext, LeakNext
<1> QED
  BY <1>1, <1>2, LeaseAlways, PTL DEF Spec

-----------------------------------------------------------------------------
(* MAX_CONNECTIONS_PER_ROUTER is no limit of the connections open to a     *)
(* router: replacements and retries are counted without looking at it.     *)
(* What the queue's size bounds are the idle ones, so that until close_all *)
(* the others are at most one for each call in progress.                   *)
OpenBounded ==
    closing = "open" =>
        \A r \in Routers : Cardinality(Live(r)) <= MaxConns + Cardinality(Holders(r))

LEMMA OpenIsIdleOrHeld ==
    ASSUME LeaseState, NoLeakedSocket, closing = "open", NEW r \in Routers
    PROVE  Cardinality(Live(r)) <= MaxConns + Cardinality(Holders(r))
<1> DEFINE lent == Live(r) \ idle[r]
           holder == [c \in lent |-> CHOOSE t \in Threads : conn[t] = c]
<1>1. \A c \in lent : \E t \in Threads : conn[t] = c
  <2> SUFFICES ASSUME NEW c \in lent PROVE \E t \in Threads : conn[t] = c
    OBVIOUS
  <2>1. c \in Conns /\ sock[c] = r /\ sock[c] # NoRouter
    BY Absent DEF Live
  <2>2. ASSUME NEW q \in Routers, c \in idle[q] PROVE FALSE
    <3>1. sock[c] = q
      BY <2>2 DEF LeaseState, PoolSound
    <3> QED
      BY <2>1, <2>2, <3>1
  <2> QED
    BY <2>1, <2>2 DEF NoLeakedSocket
<1>2. \A c \in lent : holder[c] \in Threads /\ conn[holder[c]] = c
  BY <1>1
<1> HIDE DEF holder
<1>3. \A c \in lent : holder[c] \in Holders(r)
  <2> SUFFICES ASSUME NEW c \in lent PROVE holder[c] \in Holders(r)
    OBVIOUS
  <2>1. c \in Conns /\ sock[c] = r /\ conn[holder[c]] # NoConn
    BY <1>2, Absent DEF Live
  <2>2. rt[holder[c]] = r
    BY <1>2, <2>1 DEF LeaseState, ExclusiveLease
  <2>3. pc[holder[c]] \in {"checking", "stale", "held"}
    BY <1>2, <2>1 DEF LeaseState, Coherent
  <2> QED
    BY <1>2, <2>2, <2>3 DEF Holders, Counted
<1>4. holder \in [lent -> Holders(r)] /\ \A c, d \in lent : holder[c] = holder[d] => c = d
  BY <1>2, <1>3 DEF holder
<1>5. holder \in Injection(lent, Holders(r))
  BY <1>4 DEF Injection, IsInjective
<1>6. IsFiniteSet(lent) /\ Cardinality(lent) <= Cardinality(Holders(r))
  BY <1>5, HoldersFinite, FS_Injection
<1> HIDE DEF lent
<1>7. IsFiniteSet(idle[r]) /\ Cardinality(idle[r]) \in Nat /\ Cardinality(idle[r]) <= MaxConns
  BY IdleFinite DEF LeaseState, PoolSound
<1>8. /\ IsFiniteSet(idle[r] \cup lent)
      /\ Cardinality(idle[r] \cup lent) =
           Cardinality(idle[r]) + Cardinality(lent) - Cardinality(idle[r] \cap lent)
  BY <1>6, <1>7, FS_Union
<1>9. Cardinality(idle[r] \cap lent) \in Nat /\ Cardinality(lent) \in Nat
  BY <1>6, <1>7, FS_Intersection, FS_CardinalityType
<1>10. Live(r) \in SUBSET (idle[r] \cup lent)
  BY DEF lent
<1>11. /\ Cardinality(Live(r)) <= Cardinality(idle[r] \cup lent)
       /\ Cardinality(Live(r)) \in Nat
  BY <1>8, <1>10, FS_Subset, FS_CardinalityType
<1>12. Cardinality(idle[r] \cup lent) <= MaxConns + Cardinality(Holders(r))
  BY <1>6, <1>7, <1>8, <1>9, HoldersFinite, MaxConnsAssumption
<1> QED
  BY <1>7, <1>8, <1>9, <1>11, <1>12, HoldersFinite, MaxConnsAssumption

(* Whatever fails and is retried, a router has no more connections open    *)
(* than the idle ones of a full queue and one per call in progress.        *)
THEOREM OvershootBounded == Spec => []OpenBounded
<1>1. LeaseInv /\ NoLeakedSocket => OpenBounded
  BY LeaseInvState, OpenIsIdleOrHeld DEF OpenBounded
<1> QED
  BY <1>1, LeaseAlways, SocketsReachable, PTL

-----------------------------------------------------------------------------
(* The refinement.  LeaseVal is leaseOf[c] as a function of the variables. *)
LeaseVal(c, cn, id, sk) ==
    IF \E t \in Threads : cn[t] = c THEN CHOOSE t \in Threads : cn[t] = c
    ELSE IF \E r \in Routers : c \in id[r] THEN "pooled"
    ELSE IF sk[c] = NoRouter THEN "closed" ELSE "lost"

LEMMA LeaseValues ==
    \A c \in Conns : /\ leaseOf[c] = LeaseVal(c, conn, idle, sock)
                     /\ leaseOf'[c] = LeaseVal(c, conn', idle', sock')
BY DEF leaseOf, LeaseVal

LEMMA Lent ==
    ASSUME NEW c, NEW cn, NEW id, NEW sk, NEW t \in Threads, cn[t] = c,
           \A u \in Threads : cn[u] = c => u = t
    PROVE  LeaseVal(c, cn, id, sk) = t
BY DEF LeaseVal

LEMMA NotLent ==
    ASSUME NEW c, NEW cn, NEW id, NEW sk, \A u \in Threads : cn[u] # c
    PROVE  LeaseVal(c, cn, id, sk) = IF \E r \in Routers : c \in id[r] THEN "pooled"
                                     ELSE IF sk[c] = NoRouter THEN "closed" ELSE "lost"
BY DEF LeaseVal

(* A connection that changes neither hands nor queue keeps its lease.      *)
LEMMA LeaseKept ==
    ASSUME ExclusiveLease, ExclusiveLease', NEW c \in Conns,
           \A u \in Threads : conn'[u] = c <=> conn[u] = c,
           (\E r \in Routers : c \in idle'[r]) <=> (\E r \in Routers : c \in idle[r]),
           sock'[c] = NoRouter <=> sock[c] = NoRouter
    PROVE  leaseOf'[c] = leaseOf[c]
<1>1. CASE \E t \in Threads : conn[t] = c
  <2>1. PICK t \in Threads : conn[t] = c
    BY <1>1
  <2>2. \A u \in Threads : (conn[u] = c => u = t) /\ (conn'[u] = c => u = t)
    BY <2>1, Absent DEF ExclusiveLease
  <2> QED
    BY <2>1, <2>2, LeaseValues, Lent
<1>2. CASE \A u \in Threads : conn[u] # c
  <2>1. \A u \in Threads : conn'[u] # c
    BY <1>2
  <2> QED
    BY <1>2, <2>1, LeaseValues, NotLent
<1> QED
  BY <1>1, <1>2

(* Connecting and taking from the queue are leases to the thread.          *)
LEMMA Acquires ==
    ASSUME LeaseState, ExclusiveLease', NEW t \in Threads, NEW c \in Conns,
           conn[t] = NoConn, conn' = [conn EXCEPT ![t] = c],
           \A u \in Threads : conn[u] # c,
           sock[c] = NoRouter \/ \E r \in Routers : c \in idle[r],
           \A d \in Conns \ {c} :
               /\ (\E r \in Routers : d \in idle'[r]) <=> (\E r \in Routers : d \in idle[r])
               /\ sock'[d] = sock[d],
           closing' = closing
    PROVE  Lease!Use
<1> USE Absent, LeaseAssumption DEF LeaseState, LeaseTypes
<1>1. leaseOf[c] \in {"closed", "pooled"}
  BY LeaseValues, NotLent
<1>2. leaseOf'[c] = t
  <2>1. conn'[t] = c /\ \A u \in Threads : conn'[u] = c => u = t
    OBVIOUS
  <2>2. LeaseVal(c, conn', idle', sock') = t
    BY <2>1 DEF LeaseVal
  <2> QED
    BY <2>2, LeaseValues
<1>3. \A d \in Conns : leaseOf[d] # t
  <2> SUFFICES ASSUME NEW d \in Conns PROVE leaseOf[d] # t
    OBVIOUS
  <2>1. CASE \E u \in Threads : conn[u] = d
    <3>1. PICK u \in Threads : conn[u] = d
      BY <2>1
    <3>2. \A v \in Threads : conn[v] = d => v = u
      BY <3>1 DEF ExclusiveLease
    <3>3. LeaseVal(d, conn, idle, sock) = u
      BY <3>1, <3>2 DEF LeaseVal
    <3>4. conn[t] # d
      BY Absent
    <3> QED
      BY <3>1, <3>3, <3>4, LeaseValues
  <2>2. CASE \A u \in Threads : conn[u] # d
    <3>1. leaseOf[d] \in {"pooled", "closed", "lost"}
      BY <2>2, LeaseValues, NotLent
    <3> QED
      BY <3>1
  <2> QED
    BY <2>1, <2>2
<1>4. t \in Threads \ Lease!Leased
  BY <1>3 DEF Lease!Leased
<1>5. ASSUME NEW d \in Conns \ {c} PROVE leaseOf'[d] = leaseOf[d]
  <2>1. \A u \in Threads : conn'[u] = d <=> conn[u] = d
    OBVIOUS
  <2> QED
    BY <2>1, LeaseKept
<1>6. Lease!Acquire(c)
  BY <1>1, <1>2, <1>4 DEF Lease!Acquire
<1> QED
  BY <1>5, <1>6 DEF Lease!Use

(* What a thread gives up is in a queue or closed.                         *)
LEMMA GivesBack ==
    ASSUME LeaseState, ExclusiveLease', NEW t \in Threads,
           conn[t] \in Conns, conn' = [conn EXCEPT ![t] = NoConn],
           sock'[conn[t]] = NoRouter \/ \E r \in Routers : conn[t] \in idle'[r],
           \A d \in Conns \ {conn[t]} :
               /\ (\E r \in Routers : d \in idle'[r]) <=> (\E r \in Routers : d \in idle[r])
               /\ sock'[d] = sock[d],
           closing' = closing
    PROVE  Lease!Use
<1> USE Absent DEF LeaseState, LeaseTypes
<1>1. \A u \in Threads : conn[u] = conn[t] => u = t
  BY DEF ExclusiveLease
<1>2. leaseOf[conn[t]] = t
  <2>1. LeaseVal(conn[t], conn, idle, sock) = t
    BY <1>1 DEF LeaseVal
  <2> QED
    BY <2>1, LeaseValues
<1>3. \A u \in Threads : conn'[u] # conn[t]
  BY <1>1
<1>4. leaseOf'[conn[t]] \in {"pooled", "closed"}
  <2>1. LeaseVal(conn[t], conn', idle', sock') =
           IF \E r \in Routers : conn[t] \in idle'[r] THEN "pooled"
           ELSE IF sock'[conn[t]] = NoRouter THEN "closed" ELSE "lost"
    BY <1>3 DEF LeaseVal
  <2> QED
    BY <2>1, LeaseValues
<1>5. ASSUME NEW d \in Conns \ {conn[t]} PROVE leaseOf'[d] = leaseOf[d]
  <2>1. \A u \in Threads : conn'[u] = d <=> conn[u] = d
    OBVIOUS
  <2> QED
    BY <2>1, LeaseKept
<1>6. Lease!GiveBack(conn[t])
  BY <1>2, <1>4 DEF Lease!GiveBack
<1> QED
  BY <1>5, <1>6 DEF Lease!Use

(* Once close_all has begun, each connection stays, is closed or is lost.  *)
LEMMA Goes ==
    ASSUME closing # "open", closing' # "open",
           \A c \in Conns : \/ leaseOf'[c] = leaseOf[c] \/ leaseOf'[c] = "lost"
                            \/ leaseOf[c] = "pooled" /\ leaseOf'[c] = "closed"
    PROVE  Lease!Shutdown
BY DEF Lease!Shutdown, Lease!Drain, Lease!Lose

(* A late reconnect or release after close_all loses its connection.       *)
LEMMA LateLoss ==
    ASSUME LeaseInv, PooledInv, ExclusiveLease', NEW t \in Threads, rt[t] # NoRouter,
           ~pooled[rt[t]], closing' = closing,
           NEW c \in Conns, \A u \in Threads : conn'[u] # c,
           \A r \in Routers : c \notin idle'[r], sock'[c] # NoRouter,
           \A d \in Conns \ {c} : /\ \A u \in Threads : conn'[u] = d <=> conn[u] = d
                                  /\ sock'[d] = sock[d],
           idle' = idle
    PROVE  Lease!Shutdown
<1>1. closing # "open" /\ closing' # "open"
  BY DEF PooledInv
<1>2. leaseOf'[c] = "lost"
  BY LeaseValues DEF LeaseVal
<1>3. ASSUME NEW d \in Conns \ {c} PROVE leaseOf'[d] = leaseOf[d]
  BY LeaseKept DEF LeaseInv
<1> QED
  BY <1>1, <1>2, <1>3, Goes

LEMMA LeaseReleased ==
    ASSUME LeaseInv, PooledInv, ExclusiveLease', NEW t \in Threads, Release(t)
    PROVE  Lease!Use \/ Lease!Shutdown
<1> USE DEF LeaseState, LeaseTypes
<1>0. LeaseState /\ closing' = closing /\ conn' = [conn EXCEPT ![t] = NoConn] /\ conn[t] \in Conns
      /\ rt[t] \in Routers /\ sock[conn[t]] = rt[t] /\ \A r \in Routers : conn[t] \notin idle[r]
  BY LeaseInvState, HeldConn DEF Release, closeVars
<1>1. CASE pooled[rt[t]] /\ Cardinality(idle[rt[t]]) >= MaxConns
  <2>1. idle' = [idle EXCEPT ![rt[t]] = @] /\ sock' = [sock EXCEPT ![conn[t]] = NoRouter]
    BY <1>1 DEF Release
  <2>2. idle' = idle
    BY <1>0, <2>1
  <2> QED
    BY <1>0, <2>1, <2>2, GivesBack
<1>2. CASE pooled[rt[t]] /\ ~(Cardinality(idle[rt[t]]) >= MaxConns)
  <2>1. idle' = [idle EXCEPT ![rt[t]] = @ \cup {conn[t]}] /\ sock' = [sock EXCEPT ![conn[t]] = @]
    BY <1>2 DEF Release
  <2>2. sock' = sock /\ conn[t] \in idle'[rt[t]]
    BY <1>0, <2>1
  <2>3. \A d \in Conns \ {conn[t]}, r \in Routers : d \in idle'[r] <=> d \in idle[r]
    BY <1>0, <2>1
  <2> QED
    BY <1>0, <2>2, <2>3, GivesBack
<1>3. CASE ~pooled[rt[t]]
  <2>1. idle' = [idle EXCEPT ![rt[t]] = @] /\ sock' = [sock EXCEPT ![conn[t]] = @]
    BY <1>3 DEF Release
  <2>2. idle' = idle /\ sock' = sock
    BY <1>0, <2>1
  <2>3. \A u \in Threads : conn[u] = conn[t] <=> u = t
    BY <1>0, HeldConn DEF Release
  <2>4. \A u \in Threads : conn'[u] # conn[t]
    BY <1>0, <2>3, Absent
  <2>5. \A d \in Conns \ {conn[t]}, u \in Threads : conn'[u] = d <=> conn[u] = d
    BY <1>0, Absent
  <2> QED
    BY <1>0, <1>3, <2>2, <2>4, <2>5, Absent, LateLoss
<1> QED
  BY <1>1, <1>2, <1>3

LEMMA LeaseDrained ==
    ASSUME LeaseInv, PooledInv, ExclusiveLease', NEW r \in Routers, CloseConnection(r)
    PROVE  Lease!Shutdown
<1> USE DEF LeaseState, LeaseTypes
<1>0. /\ LeaseState /\ closing # "open" /\ closing' # "open"
      /\ sock' = [c \in Conns |-> IF c \in idle[r] THEN NoRouter ELSE sock[c]]
      /\ idle' = [idle EXCEPT ![r] = {}] /\ conn' = conn
  BY LeaseInvState DEF CloseConnection, PooledInv, threadVars
<1>1. ASSUME NEW c \in Conns, c \in idle[r] PROVE leaseOf[c] = "pooled" /\ leaseOf'[c] = "closed"
  <2>1. \A u \in Threads : conn[u] # c
    BY <1>0, <1>1, Absent DEF ExclusiveLease
  <2>2. \A q \in Routers : c \notin idle'[q]
    BY <1>0, <1>1 DEF PoolSound
  <2>3. sock'[c] = NoRouter
    BY <1>0, <1>1
  <2> QED
    BY <1>0, <1>1, <2>1, <2>2, <2>3, LeaseValues DEF LeaseVal
<1>2. ASSUME NEW c \in Conns, c \notin idle[r] PROVE leaseOf'[c] = leaseOf[c]
  <2>1. (\E q \in Routers : c \in idle'[q]) <=> (\E q \in Routers : c \in idle[q])
    BY <1>0, <1>2
  <2> QED
    BY <1>0, <1>2, <2>1, LeaseKept
<1> QED
  BY <1>0, <1>1, <1>2, Goes

LEMMA LeaseCleared ==
    ASSUME LeaseInv, ExclusiveLease', ClearPools
    PROVE  Lease!Shutdown
<1> USE DEF LeaseState, LeaseTypes
<1>0. /\ LeaseState /\ closing # "open" /\ closing' # "open"
      /\ idle' = [r \in Routers |-> {}] /\ sock' = sock /\ conn' = conn
  BY LeaseInvState DEF ClearPools
<1>1. ASSUME NEW c \in Conns, NEW r \in Routers, c \in idle[r] PROVE leaseOf'[c] = "lost"
  <2>1. \A u \in Threads : conn[u] # c
    BY <1>0, <1>1, Absent DEF ExclusiveLease
  <2>2. sock[c] # NoRouter
    BY <1>0, <1>1, Absent DEF PoolSound
  <2> QED
    BY <1>0, <2>1, <2>2, LeaseValues DEF LeaseVal
<1>2. ASSUME NEW c \in Conns, \A r \in Routers : c \notin idle[r] PROVE leaseOf'[c] = leaseOf[c]
  BY <1>0, <1>2, LeaseKept
<1> QED
  BY <1>0, <1>1, <1>2, Goes

LEMMA LeaseCancelled ==
    ASSUME LeaseInv, ExclusiveLease', ShutdownExecutor
    PROVE  Lease!Shutdown
<1> USE DEF LeaseState, LeaseTypes
<1>0. /\ LeaseState /\ closing # "open" /\ closing' # "open" /\ idle' = idle /\ sock' = sock
      /\ \A t \in Threads : conn'[t] = conn[t] \/ conn'[t] = NoConn
  BY LeaseInvState DEF ShutdownExecutor, poolVars
<1>1. ASSUME NEW c \in Conns, NEW t \in Threads, conn[t] = c, conn'[t] = NoConn
      PROVE  leaseOf'[c] = "lost"
  <2>1. /\ \A r \in Routers : c \notin idle[r]
        /\ \A u \in Threads : conn'[u] # c
        /\ sock[c] # NoRouter
    BY <1>0, <1>1, Absent DEF ExclusiveLease, Coherent
  <2> QED
    BY <1>0, <2>1, LeaseValues DEF LeaseVal
<1>2. ASSUME NEW c \in Conns, \A t \in Threads : conn[t] = c => conn'[t] = c
      PROVE  leaseOf'[c] = leaseOf[c]
  <2>1. \A t \in Threads : conn'[t] = c <=> conn[t] = c
    BY <1>0, <1>2, Absent
  <2> QED
    BY <1>0, <2>1, LeaseKept
<1> QED
  BY <1>0, <1>1, <1>2, Absent, Goes

(* Every step is one of the lease or leaves the leases alone.              *)
LEMMA LeaseStep == LeaseInv /\ PooledInv /\ [Next]_vars => [Lease!Next]_(Lease!vars)
<1> SUFFICES ASSUME LeaseInv, PooledInv, [Next]_vars PROVE [Lease!Next]_(Lease!vars)
  OBVIOUS
<1>0. /\ LeaseState /\ LeaseTypes /\ ExclusiveLease'
      /\ \A t \in Threads : /\ rt[t] = NoRouter <=> pc[t] = "out"
                            /\ conn[t] = NoConn <=> pc[t] \notin {"checking", "stale", "held"}
  BY LeaseInvState, LeaseNext DEF LeaseState, Coherent
<1>q. ASSUME conn' = conn, idle' = idle, sock' = sock, closing' = closing PROVE UNCHANGED Lease!vars
  BY <1>q DEF leaseOf, Lease!vars
<1>n. Lease!Use \/ Lease!Shutdown => Lease!Next
  BY DEF Lease!Next
<1> USE DEF Goto, closeVars, poolVars, threadVars
<1>1. ASSUME NEW t \in Threads, NEW c \in Conns, CreateOk(t, c) PROVE Lease!Use
  <2>1. /\ conn[t] = NoConn /\ conn' = [conn EXCEPT ![t] = c] /\ sock[c] = NoRouter
        /\ sock' = [sock EXCEPT ![c] = rt[t]] /\ idle' = idle /\ closing' = closing
    BY <1>0, <1>1 DEF CreateOk
  <2>2. /\ \A u \in Threads : conn[u] # c
        /\ \A d \in Conns \ {c} : sock'[d] = sock[d]
    BY <1>0, <2>1, Absent DEF LeaseState, LeaseTypes, ExclusiveLease, Coherent
  <2> QED
    BY <1>0, <2>1, <2>2, Acquires
<1>2. ASSUME NEW t \in Threads, NEW c \in Conns, TakeIdle(t, c) \/ ReconnectReuse(t, c)
      PROVE  Lease!Use
  <2>1. /\ conn[t] = NoConn /\ conn' = [conn EXCEPT ![t] = c] /\ sock' = sock
        /\ rt[t] \in Routers /\ c \in idle[rt[t]]
        /\ idle' = [idle EXCEPT ![rt[t]] = @ \ {c}] /\ closing' = closing
    BY <1>0, <1>2 DEF TakeIdle, ReconnectReuse, LeaseTypes
  <2>2. \A u \in Threads : conn[u] # c
    BY <1>0, <2>1, Absent DEF LeaseState, ExclusiveLease
  <2>3. \A d \in Conns \ {c}, r \in Routers : d \in idle'[r] <=> d \in idle[r]
    BY <1>0, <2>1 DEF LeaseTypes
  <2> QED
    BY <1>0, <2>1, <2>2, <2>3, Acquires
<1>3. ASSUME NEW t \in Threads, NEW c \in Conns, ReplaceOk(t, c)
      PROVE  Lease!Use \/ Lease!Shutdown
  <2>1. /\ conn[t] = NoConn /\ rt[t] # NoRouter /\ sock[c] = NoRouter
        /\ sock' = [sock EXCEPT ![c] = rt[t]] /\ idle' = idle /\ closing' = closing
    BY <1>0, <1>3 DEF ReplaceOk
  <2>2. /\ \A u \in Threads : conn[u] # c
        /\ \A r \in Routers : c \notin idle[r]
        /\ \A d \in Conns \ {c} : sock'[d] = sock[d]
        /\ sock'[c] = rt[t]
    BY <1>0, <2>1, Absent DEF LeaseState, LeaseTypes, ExclusiveLease, Coherent, PoolSound
  <2>3. CASE pooled[rt[t]]
    <3>1. conn' = [conn EXCEPT ![t] = c]
      BY <1>3, <2>3 DEF ReplaceOk
    <3> QED
      BY <1>0, <2>1, <2>2, <3>1, Acquires
  <2>4. CASE ~pooled[rt[t]]
    <3>1. conn' = conn
      BY <1>3, <2>4 DEF ReplaceOk
    <3> QED
      BY <1>0, <2>1, <2>2, <2>4, <3>1, LateLoss
  <2> QED
    BY <2>3, <2>4
<1>4. ASSUME NEW t \in Threads, Discard(t) \/ ReleaseBroken(t) PROVE Lease!Use
  <2>1. /\ conn[t] \in Conns /\ conn' = [conn EXCEPT ![t] = NoConn] /\ idle' = idle
        /\ sock' = [sock EXCEPT ![conn[t]] = NoRouter] /\ closing' = closing
    BY <1>0, <1>4, HeldConn DEF Discard, ReleaseBroken
  <2>2. sock'[conn[t]] = NoRouter /\ \A d \in Conns \ {conn[t]} : sock'[d] = sock[d]
    BY <1>0, <2>1 DEF LeaseTypes
  <2> QED
    BY <1>0, <2>1, <2>2, GivesBack
<1>5. ASSUME NEW t \in Threads, Release(t) PROVE Lease!Use \/ Lease!Shutdown
  BY <1>0, <1>5, LeaseReleased
<1>6. ASSUME NEW t \in Threads, NEW r \in Routers, ReserveSlot(t, r) \/ StartWaiting(t, r)
      PROVE  UNCHANGED Lease!vars
  BY <1>6, <1>q DEF ReserveSlot, StartWaiting
<1>7. ASSUME NEW t \in Threads,
             \/ CreateFail(t) \/ WaitTimeout(t) \/ ReplaceFail(t) \/ GiveUp(t) \/ CheckPasses(t) \/ CheckTimesOut(t)
             \/ ReconnectPinned(t) \/ ReconnectNew(t)
      PROVE  UNCHANGED Lease!vars
  BY <1>7, <1>q DEF CreateFail, WaitTimeout, ReplaceFail, GiveUp, CheckPasses, CheckTimesOut, ReconnectPinned,
     ReconnectNew
<1>8. CASE UNCHANGED vars
  BY <1>8, <1>q DEF vars
<1>9. CASE CloseAll
  <2>1. conn' = conn /\ idle' = idle /\ sock' = sock /\ closing = "open" /\ closing' # "open"
    BY <1>9 DEF CloseAll
  <2>2. leaseOf' = leaseOf
    BY <2>1 DEF leaseOf
  <2> QED
    BY <2>1, <2>2 DEF Lease!Next, Lease!Stop
<1>10. ASSUME NEW r \in Routers, CloseConnection(r) PROVE Lease!Shutdown
  BY <1>0, <1>10, LeaseDrained
<1>11. CASE ClearPools \/ ShutdownExecutor
  BY <1>0, <1>11, <1>n, LeaseCleared, LeaseCancelled
<1> QED
  BY <1>n, <1>1, <1>2, <1>3, <1>4, <1>5, <1>6, <1>7, <1>8, <1>9, <1>10, <1>11 DEF Next, ThreadStep

(* The pool is a lease for any number of threads: a connection passes from *)
(* one thread to another through the pool alone, and none is lost before   *)
(* close_all, whatever connects, checks and commands fail.                 *)
THEOREM PoolIsLease == Spec => ImplementsLease
<1>1. Init => Lease!Init
  <2> SUFFICES ASSUME Init PROVE Lease!Init
    OBVIOUS
  <2>1. \A c \in Conns : leaseOf[c] = "closed"
    BY Absent, LeaseValues DEF LeaseVal, Init
  <2>2. leaseOf = [c \in Conns |-> leaseOf[c]]
    BY DEF leaseOf
  <2> QED
    BY <2>1, <2>2 DEF Init, Lease!Init
<1>2. Init => LeaseInv /\ PooledInv
  BY LeaseInit, PooledInit
<1>3. LeaseInv /\ PooledInv /\ [Next]_vars => (LeaseInv /\ PooledInv)'
  BY TypeNext, LeaseNext, PooledNext DEF LeaseInv
<1> QED
  BY <1>1, <1>2, <1>3, LeaseStep, PTL DEF Spec, ImplementsLease, Lease!Spec
=============================================================================
