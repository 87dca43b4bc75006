--------------------------- MODULE RouterCommand ---------------------------
(***************************************************************************)
(* The execution template of core/mikrotik_api.py for one router: the      *)
(* write lock, the circuit breaker, the rate limiter and the retry loop,   *)
(* as the threads that run commands go through them.  The breaker and the  *)
(* requests it admits are CircuitBreaker's, whose functions and variables  *)
(* these steps use; the connection pool appears as the errors it raises.   *)
(***************************************************************************)
EXTENDS CircuitBreaker, Integers

CONSTANTS
    NoCaller,
    Tries,          \* 1 + len(_RETRY_DELAYS)
    MinInterval     \* _MIN_INTERVAL, in ticks

ASSUME NoCallerAssumption == NoCaller \notin Requests
ASSUME TriesAssumption == Tries \in Nat \ {0}
ASSUME MinIntervalAssumption == MinInterval \in Nat \ {0}

VARIABLES
    pc,             \* pc[p]: where thread p is in its command
    kind,           \* kind[p]: the entry point p came through
    attempt,        \* attempt[p]: the loop variable
    cmdLock,        \* owner of _cmd_locks[router_key]
    ahead,          \* _last_api_call - now
    wait            \* wait[p]: what is left of p's sleep in _throttle

commandVars == <<breaker, request, trialGap, pc, kind, attempt, cmdLock, ahead, wait>>

(* execute and execute_long of a read-only or another verb,                *)
(* execute_non_blocking (of system/reboot), check_connection_health.       *)
Kinds == {"read", "write", "oneway", "probe"}

Locked == {"write", "oneway"}

Guarded == {"read", "write"}

LastAttempt == Tries - 1

(* What the attempt ends with: a result; a TrapError ("already have ..."); *)
(* one of NON_RETRYABLE_ERRORS; a connection error of the pool or of the   *)
(* socket; an exception that is none of these.                             *)
Results == {"ok", "rejected", "invalid", "unreachable", "unexpected"}

Retryable == {"rejected", "unreachable"}

-----------------------------------------------------------------------------
Goto(p, l) == pc' = [pc EXCEPT ![p] = l]

Report(p, outcome) ==
    /\ request' = [request EXCEPT ![p] = "none"]
    /\ breaker' = CASE outcome \in {"ok", "invalid"} -> Succeeded(breaker)
                    [] outcome \in Retryable         -> Failed(breaker)
                    [] outcome = "unexpected"        -> breaker

(* The command returns or raises; `finally` releases the write lock.       *)
Finish(p) ==
    /\ Goto(p, "idle")
    /\ kind' = [kind EXCEPT ![p] = "none"]
    /\ attempt' = [attempt EXCEPT ![p] = 0]
    /\ cmdLock' = IF cmdLock = p THEN NoCaller ELSE cmdLock

Start(p, k) ==
    /\ pc[p] = "idle"
    /\ kind' = [kind EXCEPT ![p] = k]
    /\ Goto(p, CASE k \in Locked  -> "locking"
                 [] k = "read"    -> "asking"
                 [] k = "probe"   -> "throttling")
    /\ UNCHANGED <<breaker, request, trialGap, attempt, cmdLock, ahead, wait>>

TakeLock(p) ==
    /\ pc[p] = "locking"
    /\ cmdLock' = p
    /\ Goto(p, IF kind[p] = "write" THEN "asking" ELSE "ready")
    /\ UNCHANGED <<breaker, request, trialGap, kind, attempt, ahead, wait>>

(* Mutant: two threads each create the lock of the router.                 *)
AcquireOwnLock(p) == TakeLock(p)

AcquireLock(p) == cmdLock = NoCaller /\ TakeLock(p)

Admitted(p) ==
    /\ pc[p] = "asking"
    /\ Admits(breaker)
    /\ breaker' = Attempt(breaker)
    /\ request' = [request EXCEPT ![p] = IF breaker.state = "CLOSED" THEN "normal" ELSE "trial"]
    /\ trialGap' = IF breaker.state = "CLOSED" THEN trialGap ELSE 0
    /\ Goto(p, "throttling")
    /\ UNCHANGED <<kind, attempt, cmdLock, ahead, wait>>

Refusal(p) ==
    /\ pc[p] = "asking"
    /\ ~Admits(breaker)
    /\ breaker' = Attempt(breaker)
    /\ UNCHANGED <<request, trialGap, ahead, wait>>

(* Mutant: before_request raises outside the try that releases the lock.   *)
RefusedHoldingLock(p) ==
    /\ Refusal(p)
    /\ Goto(p, "idle")
    /\ kind' = [kind EXCEPT ![p] = "none"]
    /\ UNCHANGED <<attempt, cmdLock>>

(* CircuitBreakerOpenError.                                                *)
Refused(p) == Refusal(p) /\ Finish(p)

Sleep == IF MinInterval + ahead > 0 THEN MinInterval + ahead ELSE 0

Book(p, last) ==
    /\ pc[p] = "throttling"
    /\ ahead' = last
    /\ wait' = [wait EXCEPT ![p] = Sleep]
    /\ Goto(p, "asleep")
    /\ UNCHANGED <<breaker, request, trialGap, kind, attempt, cmdLock>>

(* Mutant: the time of the call is recorded, not the time it will be made. *)
ThrottleFromNow(p) == Book(p, 0)

(* The critical section of _rate_lock: a slot is booked ...                *)
Throttle(p) == Book(p, Sleep)

(* ... and slept for, without the lock.                                    *)
Wake(p) ==
    /\ pc[p] = "asleep"
    /\ wait[p] = 0
    /\ Goto(p, "ready")
    /\ UNCHANGED <<breaker, request, trialGap, kind, attempt, cmdLock, ahead, wait>>

(* get_connection or reconnect returned: the command is on its way.        *)
Send(p) ==
    /\ pc[p] = "ready"
    /\ Goto(p, "sent")
    /\ UNCHANGED <<breaker, request, trialGap, kind, attempt, cmdLock, ahead, wait>>

(* What p's attempt may end with: the pool itself answers nothing.         *)
Ends(p, outcome) ==
    \/ pc[p] = "sent"
    \/ pc[p] = "ready" /\ outcome \in {"unreachable", "unexpected"}

Again(p, outcome) ==
    /\ Ends(p, outcome)
    /\ kind[p] \in Guarded
    /\ outcome \in Retryable
    /\ attempt[p] < LastAttempt
    /\ attempt' = [attempt EXCEPT ![p] = @ + 1]
    /\ Goto(p, "ready")
    /\ UNCHANGED <<trialGap, kind, ahead, wait>>

(* Mutant: the lock is let go while the caller waits to retry.             *)
RetryUnlocked(p, outcome) ==
    /\ Again(p, outcome)
    /\ cmdLock' = IF cmdLock = p THEN NoCaller ELSE cmdLock
    /\ UNCHANGED <<breaker, request>>

(* Mutant: every failed attempt is reported.                               *)
RetryReported(p, outcome) ==
    /\ Again(p, outcome)
    /\ Report(p, outcome)
    /\ UNCHANGED cmdLock

(* The next round of the loop, after its delay, with the lock still held   *)
(* and without booking a slot again.                                       *)
Retry(p, outcome) == Again(p, outcome) /\ UNCHANGED <<breaker, request, cmdLock>>

(* The command's result, its last error, or one that is not retried.       *)
Conclude(p, outcome) ==
    /\ Ends(p, outcome)
    /\ kind[p] \in Guarded
    /\ outcome \in Retryable => attempt[p] = LastAttempt
    /\ Report(p, outcome)
    /\ Finish(p)
    /\ UNCHANGED <<trialGap, ahead, wait>>

(* _execute_non_blocking_locked and check_connection_health: one attempt,  *)
(* every error swallowed, nothing reported to the breaker.                 *)
ConcludeUnguarded(p, outcome) ==
    /\ Ends(p, outcome)
    /\ kind[p] \notin Guarded
    /\ Finish(p)
    /\ UNCHANGED <<breaker, request, trialGap, ahead, wait>>

CommandTick ==
    /\ Tick
    /\ ahead' = IF ahead > -MinInterval THEN ahead - 1 ELSE ahead
    /\ wait' = [p \in Requests |-> IF wait[p] > 0 THEN wait[p] - 1 ELSE 0]
    /\ UNCHANGED <<pc, kind, attempt, cmdLock>>

CommandInit ==
    /\ Init
    /\ pc = [p \in Requests |-> "idle"]
    /\ kind = [p \in Requests |-> "none"]
    /\ attempt = [p \in Requests |-> 0]
    /\ cmdLock = NoCaller
    /\ ahead = -MinInterval
    /\ wait = [p \in Requests |-> 0]

(* The steps of a command under way, except waiting for the write lock.    *)
Advance(p) ==
    \/ Admitted(p) \/ Refused(p) \/ Throttle(p) \/ Wake(p) \/ Send(p)
    \/ \E outcome \in Results :
          Retry(p, outcome) \/ Conclude(p, outcome) \/ ConcludeUnguarded(p, outcome)

CommandNext ==
    \/ \E p \in Requests : (\E k \in Kinds : Start(p, k)) \/ AcquireLock(p) \/ Advance(p)
    \/ CommandTick

(* Every wait in a command has a timeout, and clocks go on.                *)
CommandFairness == WF_commandVars(CommandTick) /\ \A p \in Requests : WF_commandVars(Advance(p))

CommandSpec == CommandInit /\ [][CommandNext]_commandVars
FairCommandSpec == CommandSpec /\ CommandFairness
-----------------------------------------------------------------------------
Places == {"idle", "locking", "asking", "throttling", "asleep", "ready", "sent"}

(* p is between taking the write lock and giving it back.                  *)
InSection(p) == kind[p] \in Locked /\ pc[p] \notin {"idle", "locking"}

(* The write lock is owned from its acquisition to the end of the command, *)
(* the breaker's answer held from before_request to the report.            *)
Coherent ==
    \A p \in Requests :
        /\ kind[p] = "none" <=> pc[p] = "idle"
        /\ pc[p] = "locking" => kind[p] \in Locked
        /\ pc[p] = "asking" => kind[p] \in Guarded
        /\ cmdLock = p <=> InSection(p)
        /\ request[p] # "none" <=>
              kind[p] \in Guarded /\ pc[p] \in {"throttling", "asleep", "ready", "sent"}

CommandTypeOK ==
    /\ TypeOK
    /\ pc \in [Requests -> Places]
    /\ kind \in [Requests -> Kinds \union {"none"}]
    /\ attempt \in [Requests -> 0..LastAttempt]
    /\ cmdLock \in Requests \union {NoCaller}
    /\ ahead \in Int
    /\ wait \in [Requests -> Nat]
    /\ Coherent

(* mikrotik_api.py:43-45: a write never runs concurrently with another     *)
(* write to the router.  It holds over the whole retry loop, delays        *)
(* included, and between execute and execute_non_blocking.                 *)
WritesSerialised == \A p, q \in Requests : InSection(p) /\ InSection(q) => p = q

(* "100ms between the commands of one router" (line 34), for the first     *)
(* attempts: the slots booked by sleeping callers are an interval apart,   *)
(* and no later caller can book one before them.                           *)
SlotsApart ==
    \A p \in Requests : pc[p] = "asleep" /\ wait[p] > 0 =>
        /\ wait[p] <= ahead
        /\ \A q \in Requests \ {p} : pc[q] = "asleep" /\ wait[q] > 0 =>
              \/ wait[p] >= wait[q] + MinInterval
              \/ wait[q] >= wait[p] + MinInterval

(* To the breaker a command is one request, however often it is retried:   *)
(* it asks once and reports at most once (lines 321, 343-373).             *)
ImplementsBreaker == Spec

(* Whatever a command ends with, refusal included, it gives the write lock *)
(* back (lines 310-315, 406-411).                                          *)
WriteLockReleased == \A p \in Requests : cmdLock = p ~> cmdLock # p
=============================================================================
