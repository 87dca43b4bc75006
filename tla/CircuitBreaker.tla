--------------------------- MODULE CircuitBreaker ---------------------------
(***************************************************************************)
(* core/circuit_breaker.py, for one router key (the keys share nothing),   *)
(* and the requests that use it as MikrotikAPI._execute_locked does:       *)
(* before_request, then at most one report.  A request whose exception is  *)
(* none of the connection errors reports nothing.                          *)
(*                                                                         *)
(* time.monotonic() appears as the ages of the two timestamps, which       *)
(* saturate at ResetTimeout: the code compares them with nothing else.     *)
(***************************************************************************)
EXTENDS Naturals

CONSTANTS
    Requests,       \* threads that call _execute_locked
    Monitor,        \* those whose calls recur: the watchdog job
    Threshold,      \* failure_threshold
    ResetTimeout    \* reset_timeout, in ticks

ASSUME MonitorAssumption == Monitor \subseteq Requests
ASSUME ThresholdAssumption == Threshold \in Nat \ {0}
ASSUME ResetTimeoutAssumption == ResetTimeout \in Nat \ {0}

VARIABLES
    breaker,        \* the entries of the key in the five dictionaries
    request,        \* request[p]: "none", or how it was admitted
    trialGap        \* time since a trial was last admitted (history)

vars == <<breaker, request, trialGap>>

States == {"CLOSED", "OPEN", "HALF_OPEN"}

Ages == 0..ResetTimeout

Older(age) == IF age < ResetTimeout THEN age + 1 ELSE age

(* failures is told apart up to the threshold it is compared with;         *)
(* sinceFailure is the age of _last_failure_time (0.0 at first, long ago), *)
(* trialAge of _trial_started_at.                                          *)
Breakers == [state : States, failures : 0..Threshold, sinceFailure : Ages,
             inTrial : BOOLEAN, trialAge : Ages]

Fresh == [state |-> "CLOSED", failures |-> 0, sinceFailure |-> ResetTimeout,
          inTrial |-> FALSE, trialAge |-> 0]

-----------------------------------------------------------------------------
(* The critical sections of self._lock, as functions of the entries.       *)

Admits(b) ==
    \/ b.state = "CLOSED"
    \/ b.state = "OPEN" /\ b.sinceFailure = ResetTimeout
    \/ b.state = "HALF_OPEN" /\ ~b.inTrial

NoTrial(b) == [b EXCEPT !.inTrial = FALSE, !.trialAge = 0]

Claimed(b) == [b EXCEPT !.inTrial = TRUE, !.trialAge = 0]

Opened(b) == [b EXCEPT !.state = "OPEN", !.sinceFailure = 0]

Leaked(b) == b.state = "HALF_OPEN" /\ b.inTrial /\ b.trialAge = ResetTimeout

(* Mutant: the trial slot is not claimed at the transition.                *)
AttemptUnclaimed(b) ==
    CASE b.state = "OPEN" /\ Admits(b)      -> [b EXCEPT !.state = "HALF_OPEN"]
      [] b.state = "HALF_OPEN" /\ Admits(b) -> b
      [] Leaked(b)                          -> Opened(NoTrial(b))
      [] OTHER                              -> b

(* Mutant: a trial that never reports keeps its slot.                      *)
AttemptKeepsLeak(b) ==
    IF b.state # "CLOSED" /\ Admits(b) THEN Claimed([b EXCEPT !.state = "HALF_OPEN"]) ELSE b

(* _can_attempt: what before_request leaves behind, admitted or not.       *)
Attempt(b) ==
    CASE b.state # "CLOSED" /\ Admits(b) -> Claimed([b EXCEPT !.state = "HALF_OPEN"])
      [] Leaked(b)                       -> Opened(NoTrial(b))
      [] OTHER                           -> b

(* on_success closes the circuit whichever request reports it.             *)
Succeeded(b) == [NoTrial(b) EXCEPT !.failures = 0, !.state = "CLOSED"]

Counted(b) == [b EXCEPT !.failures = IF @ < Threshold THEN @ + 1 ELSE @]

(* Mutant: the circuit opens one failure too late.                         *)
FailedLate(b) ==
    CASE b.state = "HALF_OPEN" -> [Opened(NoTrial(b)) EXCEPT !.failures = 0]
      [] b.state = "CLOSED" /\ b.failures = Threshold -> Opened(b)
      [] OTHER -> Counted(b)

(* Mutant: a failed trial leaves its claim behind.                         *)
FailedKeepsTrial(b) ==
    CASE b.state = "HALF_OPEN" -> [Opened(b) EXCEPT !.failures = 0]
      [] b.state = "CLOSED" /\ Counted(b).failures = Threshold -> Opened(Counted(b))
      [] OTHER -> Counted(b)

(* on_failure; while open, late failures are counted but do not postpone   *)
(* the end of the window.                                                  *)
Failed(b) ==
    CASE b.state = "HALF_OPEN" -> [Opened(NoTrial(b)) EXCEPT !.failures = 0]
      [] b.state = "CLOSED" /\ Counted(b).failures = Threshold -> Opened(Counted(b))
      [] OTHER -> Counted(b)

-----------------------------------------------------------------------------
Init ==
    /\ breaker = Fresh
    /\ request = [p \in Requests |-> "none"]
    /\ trialGap = ResetTimeout

(* before_request: admitted, on trial unless the circuit is closed ...     *)
Begin(p) ==
    /\ request[p] = "none"
    /\ Admits(breaker)
    /\ breaker' = Attempt(breaker)
    /\ request' = [request EXCEPT ![p] = IF breaker.state = "CLOSED" THEN "normal" ELSE "trial"]
    /\ trialGap' = IF breaker.state = "CLOSED" THEN trialGap ELSE 0

(* ... or CircuitBreakerOpenError.                                         *)
ShortCircuit(p) ==
    /\ request[p] = "none"
    /\ ~Admits(breaker)
    /\ breaker' = Attempt(breaker)
    /\ UNCHANGED <<request, trialGap>>

(* The request ends and reports, or an exception escapes unreported.       *)
End(p, outcome) ==
    /\ request[p] # "none"
    /\ request' = [request EXCEPT ![p] = "none"]
    /\ breaker' = CASE outcome = "success"    -> Succeeded(breaker)
                    [] outcome = "failure"    -> Failed(breaker)
                    [] outcome = "unreported" -> breaker
    /\ UNCHANGED trialGap

Outcomes == {"success", "failure", "unreported"}

(* reset(), the manual reset.                                              *)
Reset ==
    /\ breaker' = Fresh
    /\ UNCHANGED <<request, trialGap>>

Tick ==
    /\ breaker' = [breaker EXCEPT
                     !.sinceFailure = Older(@),
                     !.trialAge = IF breaker.inTrial THEN Older(@) ELSE @]
    /\ trialGap' = Older(trialGap)
    /\ UNCHANGED request

Next ==
    \/ \E p \in Requests :
          Begin(p) \/ ShortCircuit(p) \/ \E outcome \in Outcomes : End(p, outcome)
    \/ Reset
    \/ Tick

(* Time passes; the requests of the watchdog recur, and each of them ends  *)
(* because every call it makes has a timeout.                              *)
Fairness ==
    /\ WF_vars(Tick)
    /\ \A p \in Monitor :
          /\ WF_vars(Begin(p) \/ ShortCircuit(p))
          /\ WF_vars(\E outcome \in Outcomes : End(p, outcome))

Spec == Init /\ [][Next]_vars
FairSpec == Spec /\ Fairness

-----------------------------------------------------------------------------
(* A trial is claimed exactly while the circuit is half-open, so the last  *)
(* branch of _can_attempt (lines 102-104) is never reached.                *)
TypeOK ==
    /\ breaker \in Breakers
    /\ request \in [Requests -> {"none", "normal", "trial"}]
    /\ trialGap \in Ages
    /\ breaker.state = "HALF_OPEN" <=> breaker.inTrial

(* Whatever order concurrent requests report in, the circuit is never      *)
(* closed with as many failures as the threshold since the last success.   *)
ClosedBelowThreshold == breaker.state = "CLOSED" => breaker.failures < Threshold

(* "Prevents retry storms" (circuit_breaker.py:3): trials are admitted at  *)
(* least reset_timeout apart, however requests fail, succeed late or leak. *)
NoRetryStorm ==
    [][\A p \in Requests :
          request[p] = "none" /\ request'[p] = "trial" => trialGap = ResetTimeout]_vars

(* "So the circuit is not wedged in HALF_OPEN forever" (line 88), nor in   *)
(* OPEN: as long as the watchdog keeps asking, each of them ends.          *)
NeverWedged ==
    /\ breaker.state = "OPEN" ~> breaker.state # "OPEN"
    /\ breaker.state = "HALF_OPEN" ~> breaker.state # "HALF_OPEN"
=============================================================================
