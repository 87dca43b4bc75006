------------------------ MODULE RouterCommandProofs ------------------------
(***************************************************************************)
(* What holds of the circuit breaker for any requests, threshold and       *)
(* timeout, and of the commands that use it for any number of tries and    *)
(* interval.                                                               *)
(***************************************************************************)
EXTENDS RouterCommand, TLAPS

(* While the circuit is open, the failure that opened it is no older than  *)
(* the last trial: this is what spaces trials once their reports come late *)
(* or from other requests.                                                 *)
WindowAfterTrial == breaker.state = "OPEN" => breaker.sinceFailure <= trialGap

BreakerInv == TypeOK /\ ClosedBelowThreshold /\ WindowAfterTrial

LEMMA OlderType ==
    ASSUME NEW a \in Ages
    PROVE  Older(a) \in Ages /\ a <= Older(a)
BY ResetTimeoutAssumption DEF Older, Ages

LEMMA OlderMonotonic ==
    ASSUME NEW a \in Ages, NEW b \in Ages, a <= b
    PROVE  Older(a) <= Older(b)
BY ResetTimeoutAssumption DEF Older, Ages

(* The functions of the entries (_can_attempt, on_success, on_failure),     *)
(* field by field, and which entries they leave.                           *)
Claims(b) == (b.state = "HALF_OPEN") <=> b.inTrial

LEMMA BreakerFields ==
    ASSUME NEW b \in Breakers
    PROVE  /\ b.state \in States
           /\ b.failures \in 0..Threshold
           /\ b.sinceFailure \in Ages
           /\ b.inTrial \in BOOLEAN
           /\ b.trialAge \in Ages
BY DEF Breakers

LEMMA AgesBounds == 0 \in Ages /\ ResetTimeout \in Ages
BY ResetTimeoutAssumption DEF Ages

LEMMA ClaimedFacts ==
    ASSUME NEW b \in Breakers
    PROVE  /\ Claimed([b EXCEPT !.state = "HALF_OPEN"]) \in Breakers
           /\ Claimed([b EXCEPT !.state = "HALF_OPEN"]).state = "HALF_OPEN"
           /\ Claims(Claimed([b EXCEPT !.state = "HALF_OPEN"]))
BY AgesBounds DEF Claimed, Breakers, States, Claims

LEMMA OpenedFacts ==
    ASSUME NEW b \in Breakers
    PROVE  /\ Opened(b) \in Breakers
           /\ Opened(b).state = "OPEN"
           /\ Opened(b).sinceFailure = 0
           /\ Opened(b).failures = b.failures
           /\ Opened(b).inTrial = b.inTrial
BY AgesBounds DEF Opened, Breakers, States

LEMMA NoTrialFacts ==
    ASSUME NEW b \in Breakers
    PROVE  /\ NoTrial(b) \in Breakers
           /\ NoTrial(b).inTrial = FALSE
           /\ NoTrial(b).state = b.state
BY AgesBounds DEF NoTrial, Breakers

LEMMA CountedFacts ==
    ASSUME NEW b \in Breakers
    PROVE  /\ Counted(b) \in Breakers
           /\ Counted(b).state = b.state
           /\ Counted(b).inTrial = b.inTrial
           /\ Counted(b).sinceFailure = b.sinceFailure
<1> DEFINE n == IF b.failures < Threshold THEN b.failures + 1 ELSE b.failures
<1>1. n \in 0..Threshold
  BY BreakerFields, ThresholdAssumption
<1>2. Counted(b) = [b EXCEPT !.failures = n]
  BY DEF Counted
<1> HIDE DEF n
<1> QED
  BY <1>1, <1>2 DEF Breakers

LEMMA AttemptFacts ==
    ASSUME NEW b \in Breakers, Claims(b)
    PROVE  /\ Attempt(b) \in Breakers
           /\ Claims(Attempt(b))
           /\ b.state # "CLOSED" /\ Admits(b) => Attempt(b).state = "HALF_OPEN"
           /\ b.state = "CLOSED" => Attempt(b) = b
           /\ ~(b.state # "CLOSED" /\ Admits(b)) =>
                 \/ Attempt(b) = b
                 \/ Attempt(b).state = "OPEN" /\ Attempt(b).sinceFailure = 0
<1>1. CASE b.state # "CLOSED" /\ Admits(b)
  <2>1. ~Leaked(b)
    BY <1>1, BreakerFields DEF Leaked, Admits
  <2>2. Attempt(b) = Claimed([b EXCEPT !.state = "HALF_OPEN"])
    BY <1>1, <2>1 DEF Attempt
  <2> QED
    BY <1>1, <2>2, ClaimedFacts
<1>2. CASE ~(b.state # "CLOSED" /\ Admits(b)) /\ Leaked(b)
  <2>1. Attempt(b) = Opened(NoTrial(b))
    BY <1>2 DEF Attempt
  <2>2. NoTrial(b) \in Breakers /\ NoTrial(b).inTrial = FALSE
    BY NoTrialFacts
  <2>3. /\ Attempt(b) \in Breakers /\ Attempt(b).state = "OPEN"
        /\ Attempt(b).sinceFailure = 0 /\ Attempt(b).inTrial = FALSE
    BY <2>1, <2>2, OpenedFacts
  <2>4. b.state # "CLOSED"
    BY <1>2 DEF Leaked
  <2> QED
    BY <1>2, <2>3, <2>4 DEF Claims
<1>3. CASE ~(b.state # "CLOSED" /\ Admits(b)) /\ ~Leaked(b)
  <2>1. Attempt(b) = b
    BY <1>3 DEF Attempt
  <2> QED
    BY <1>3, <2>1
<1> QED
  BY <1>1, <1>2, <1>3

LEMMA SucceededFacts ==
    ASSUME NEW b \in Breakers
    PROVE  /\ Succeeded(b) \in Breakers
           /\ Succeeded(b).state = "CLOSED"
           /\ Succeeded(b).failures = 0
           /\ Claims(Succeeded(b))
<1>1. NoTrial(b) \in Breakers /\ NoTrial(b).inTrial = FALSE
  BY NoTrialFacts
<1>2. 0 \in 0..Threshold
  BY ThresholdAssumption
<1> QED
  BY <1>1, <1>2 DEF Succeeded, Breakers, States, Claims

LEMMA FailedFacts ==
    ASSUME NEW b \in Breakers, Claims(b)
    PROVE  /\ Failed(b) \in Breakers
           /\ Claims(Failed(b))
           /\ Failed(b).state = "CLOSED" => Failed(b).failures < Threshold
           /\ Failed(b).state = "OPEN" =>
                 \/ Failed(b).sinceFailure = 0
                 \/ b.state = "OPEN" /\ Failed(b).sinceFailure = b.sinceFailure
<1>1. /\ Counted(b) \in Breakers /\ Counted(b).state = b.state
      /\ Counted(b).inTrial = b.inTrial /\ Counted(b).sinceFailure = b.sinceFailure
  BY CountedFacts
<1>2. CASE b.state = "HALF_OPEN"
  <2>1. Failed(b) = [Opened(NoTrial(b)) EXCEPT !.failures = 0]
    BY <1>2 DEF Failed
  <2>2. NoTrial(b) \in Breakers /\ NoTrial(b).inTrial = FALSE
    BY NoTrialFacts
  <2>3. /\ Opened(NoTrial(b)) \in Breakers /\ Opened(NoTrial(b)).state = "OPEN"
        /\ Opened(NoTrial(b)).sinceFailure = 0 /\ Opened(NoTrial(b)).inTrial = FALSE
    BY <2>2, OpenedFacts
  <2>4. 0 \in 0..Threshold
    BY ThresholdAssumption
  <2>5. /\ Failed(b) \in Breakers /\ Failed(b).state = "OPEN"
        /\ Failed(b).sinceFailure = 0 /\ Failed(b).inTrial = FALSE
    BY <2>1, <2>3, <2>4 DEF Breakers
  <2> QED
    BY <2>5 DEF Claims
<1>3. CASE b.state = "CLOSED" /\ Counted(b).failures = Threshold
  <2>1. Failed(b) = Opened(Counted(b))
    BY <1>3 DEF Failed
  <2>2. /\ Failed(b) \in Breakers /\ Failed(b).state = "OPEN"
        /\ Failed(b).sinceFailure = 0 /\ Failed(b).inTrial = b.inTrial
    BY <1>1, <2>1, OpenedFacts
  <2> QED
    BY <1>3, <2>2 DEF Claims
<1>4. CASE b.state # "HALF_OPEN" /\ ~(b.state = "CLOSED" /\ Counted(b).failures = Threshold)
  <2>1. Failed(b) = Counted(b)
    BY <1>4 DEF Failed
  <2>2. Counted(b).failures \in 0..Threshold
    BY <1>1, BreakerFields
  <2>3. Failed(b).state = "CLOSED" => Failed(b).failures < Threshold
    BY <1>1, <1>4, <2>1, <2>2, ThresholdAssumption
  <2> QED
    BY <1>1, <1>4, <2>1, <2>3 DEF Claims
<1> QED
  BY <1>2, <1>3, <1>4

-----------------------------------------------------------------------------
LEMMA BreakerInvInit == Init => BreakerInv
BY ThresholdAssumption, ResetTimeoutAssumption
DEF Init, BreakerInv, TypeOK, ClosedBelowThreshold, WindowAfterTrial, Fresh, Breakers, States, Ages

LEMMA BreakerInvNext == BreakerInv /\ [Next]_vars => BreakerInv'
<1> SUFFICES ASSUME BreakerInv, [Next]_vars PROVE BreakerInv'
  OBVIOUS
<1>0. /\ breaker \in Breakers /\ Claims(breaker)
      /\ trialGap \in Ages
      /\ request \in [Requests -> {"none", "normal", "trial"}]
  BY DEF BreakerInv, TypeOK, Claims
<1>1. ASSUME NEW p \in Requests, Begin(p) PROVE BreakerInv'
  <2>1. breaker' = Attempt(breaker) /\ Admits(breaker)
    BY <1>1 DEF Begin
  <2>2. TypeOK'
    BY <1>0, <1>1, <2>1, AttemptFacts, ResetTimeoutAssumption DEF Begin, BreakerInv, TypeOK, Claims, Ages
  <2>3. breaker'.state # "OPEN"
    BY <1>0, <2>1, AttemptFacts DEF Admits
  <2>4. ClosedBelowThreshold'
    BY <1>0, <2>1, AttemptFacts DEF BreakerInv, ClosedBelowThreshold
  <2> QED
    BY <2>2, <2>3, <2>4 DEF BreakerInv, WindowAfterTrial
<1>2. ASSUME NEW p \in Requests, ShortCircuit(p) PROVE BreakerInv'
  <2>1. breaker' = Attempt(breaker) /\ trialGap' = trialGap /\ request' = request
    BY <1>2 DEF ShortCircuit
  <2>2. TypeOK'
    BY <1>0, <2>1, AttemptFacts DEF BreakerInv, TypeOK, Claims
  <2>3. ClosedBelowThreshold'
    BY <1>0, <2>1, AttemptFacts DEF BreakerInv, ClosedBelowThreshold
  <2>4. WindowAfterTrial'
    BY <1>0, <2>1, AttemptFacts DEF BreakerInv, WindowAfterTrial, Ages
  <2> QED
    BY <2>2, <2>3, <2>4 DEF BreakerInv
<1>3. ASSUME NEW p \in Requests, NEW outcome \in Outcomes, End(p, outcome) PROVE BreakerInv'
  <2>1. request' \in [Requests -> {"none", "normal", "trial"}] /\ trialGap' = trialGap
    BY <1>3 DEF End, BreakerInv, TypeOK
  <2>2. CASE outcome = "success"
    <3>1. breaker' = Succeeded(breaker)
      BY <1>3, <2>2 DEF End
    <3> QED
      BY <1>0, <2>1, <3>1, SucceededFacts, ThresholdAssumption
      DEF BreakerInv, TypeOK, Claims, ClosedBelowThreshold, WindowAfterTrial
  <2>3. CASE outcome = "failure"
    <3>1. breaker' = Failed(breaker)
      BY <1>3, <2>3 DEF End
    <3>2. TypeOK' /\ ClosedBelowThreshold'
      BY <1>0, <2>1, <3>1, FailedFacts DEF BreakerInv, TypeOK, Claims, ClosedBelowThreshold
    <3>3. WindowAfterTrial'
      BY <1>0, <2>1, <3>1, FailedFacts DEF BreakerInv, WindowAfterTrial, Ages
    <3> QED
      BY <3>2, <3>3 DEF BreakerInv
  <2>4. CASE outcome = "unreported"
    <3>1. breaker' = breaker
      BY <1>3, <2>4 DEF End
    <3> QED
      BY <2>1, <3>1 DEF BreakerInv, TypeOK, Claims, ClosedBelowThreshold, WindowAfterTrial
  <2> QED
    BY <2>2, <2>3, <2>4 DEF Outcomes
<1>4. CASE Reset
  BY <1>0, <1>4, ThresholdAssumption, ResetTimeoutAssumption
  DEF Reset, BreakerInv, TypeOK, ClosedBelowThreshold, WindowAfterTrial, Fresh, Breakers, States, Ages
<1>5. CASE Tick
  <2>1. /\ breaker'.state = breaker.state /\ breaker'.failures = breaker.failures
        /\ breaker'.inTrial = breaker.inTrial
        /\ breaker'.sinceFailure = Older(breaker.sinceFailure)
        /\ trialGap' = Older(trialGap) /\ request' = request
    BY <1>0, <1>5 DEF Tick, Breakers
  <2>2. breaker' \in Breakers
    <3>1. Older(breaker.sinceFailure) \in Ages /\ Older(breaker.trialAge) \in Ages
      BY <1>0, OlderType DEF Breakers
    <3> QED
      BY <1>0, <1>5, <3>1 DEF Tick, Breakers
  <2>3. breaker.sinceFailure \in Ages /\ trialGap' \in Ages
    BY <1>0, <2>1, OlderType DEF Breakers
  <2>4. TypeOK'
    BY <1>0, <2>1, <2>2, <2>3 DEF BreakerInv, TypeOK, Claims
  <2>5. ClosedBelowThreshold'
    BY <2>1 DEF BreakerInv, ClosedBelowThreshold
  <2>6. WindowAfterTrial'
    BY <1>0, <2>1, <2>3, OlderMonotonic DEF BreakerInv, WindowAfterTrial
  <2> QED
    BY <2>4, <2>5, <2>6 DEF BreakerInv
<1>6. CASE UNCHANGED vars
  BY <1>6 DEF vars, BreakerInv, TypeOK, ClosedBelowThreshold, WindowAfterTrial
<1> QED
  BY <1>1, <1>2, <1>3, <1>4, <1>5, <1>6 DEF Next

(* Types, and: the circuit is half-open exactly while a trial is claimed.  *)
THEOREM BreakerTypeCorrect == Spec => []TypeOK
<1>1. BreakerInv => TypeOK
  BY DEF BreakerInv
<1> QED
  BY <1>1, BreakerInvInit, BreakerInvNext, PTL DEF Spec

(* The circuit never stays closed at the threshold, in any order of        *)
(* reports of concurrent requests.                                         *)
THEOREM OpensAtThreshold == Spec => []ClosedBelowThreshold
<1>1. BreakerInv => ClosedBelowThreshold
  BY DEF BreakerInv
<1> QED
  BY <1>1, BreakerInvInit, BreakerInvNext, PTL DEF Spec

(* Trials are at least reset_timeout apart: a router that is down gets one *)
(* request per window, whatever the other requests report.                 *)
THEOREM TrialsSpaced == Spec => NoRetryStorm
<1>1. BreakerInv /\ [Next]_vars =>
        [\A p \in Requests :
            request[p] = "none" /\ request'[p] = "trial" => trialGap = ResetTimeout]_vars
  <2> SUFFICES ASSUME BreakerInv, Next, NEW p \in Requests, request[p] = "none", request'[p] = "trial"
               PROVE  trialGap = ResetTimeout
    BY DEF vars
  <2>0. /\ request \in [Requests -> {"none", "normal", "trial"}] /\ trialGap \in Ages
        /\ breaker.state = "HALF_OPEN" <=> breaker.inTrial
    BY DEF BreakerInv, TypeOK, Claims
  <2>1. PICK q \in Requests : Begin(q)
    BY <2>0 DEF Next, ShortCircuit, End, Reset, Tick
  <2>2. breaker.state # "CLOSED"
    BY <2>0, <2>1 DEF Begin
  <2>3. breaker.state = "OPEN" /\ breaker.sinceFailure = ResetTimeout
    BY <2>0, <2>1, <2>2 DEF Begin, Admits
  <2> QED
    BY <2>0, <2>3, ResetTimeoutAssumption DEF BreakerInv, WindowAfterTrial, Ages
<1> QED
  BY <1>1, BreakerInvInit, BreakerInvNext, PTL DEF Spec, NoRetryStorm

(* A failure that is reported while the circuit is open, by a request      *)
(* admitted before, does not restart the window: a router with many users  *)
(* is tried again as soon as one with few (on_failure).                    *)
WindowNotPostponed ==
    [][breaker.state = "OPEN" /\ breaker'.state = "OPEN" =>
          breaker'.sinceFailure >= breaker.sinceFailure]_vars

THEOREM LateFailuresKeepWindow == Spec => WindowNotPostponed
<1>1. BreakerInv /\ [Next]_vars =>
        [breaker.state = "OPEN" /\ breaker'.state = "OPEN" =>
            breaker'.sinceFailure >= breaker.sinceFailure]_vars
  <2> SUFFICES ASSUME BreakerInv, Next, breaker.state = "OPEN", breaker'.state = "OPEN"
               PROVE  breaker'.sinceFailure >= breaker.sinceFailure
    BY DEF vars
  <2>0. breaker \in Breakers /\ Claims(breaker) /\ breaker.sinceFailure \in Ages
    BY BreakerFields DEF BreakerInv, TypeOK, Claims
  <2>1. breaker.sinceFailure \in Nat
    BY <2>0 DEF Ages
  <2>2. ASSUME NEW p \in Requests, Begin(p) \/ ShortCircuit(p) PROVE breaker' = breaker
    <3>1. breaker' = Attempt(breaker)
      BY <2>2 DEF Begin, ShortCircuit
    <3>2. ~Admits(breaker)
      BY <2>0, <3>1, AttemptFacts
    <3>3. ~Leaked(breaker)
      BY DEF Leaked
    <3> QED
      BY <3>1, <3>2, <3>3 DEF Attempt
  <2>3. ASSUME NEW p \in Requests, NEW outcome \in Outcomes, End(p, outcome)
        PROVE  breaker'.sinceFailure = breaker.sinceFailure
    <3>1. CASE outcome = "success"
      <4>1. breaker' = Succeeded(breaker)
        BY <2>3, <3>1 DEF End
      <4> QED
        BY <2>0, <4>1, SucceededFacts
    <3>2. CASE outcome = "failure"
      <4>1. breaker' = Failed(breaker)
        BY <2>3, <3>2 DEF End
      <4>2. Failed(breaker) = Counted(breaker)
        BY DEF Failed
      <4> QED
        BY <2>0, <4>1, <4>2, CountedFacts
    <3>3. CASE outcome = "unreported"
      BY <2>3, <3>3 DEF End
    <3> QED
      BY <3>1, <3>2, <3>3 DEF Outcomes
  <2>4. ~Reset
    BY DEF Reset, Fresh
  <2>5. ASSUME Tick PROVE breaker'.sinceFailure >= breaker.sinceFailure
    <3>1. breaker'.sinceFailure = Older(breaker.sinceFailure)
      BY <2>0, <2>5 DEF Tick, Breakers
    <3>2. Older(breaker.sinceFailure) \in Nat /\ breaker.sinceFailure <= Older(breaker.sinceFailure)
      BY <2>0, OlderType DEF Ages
    <3> QED
      BY <2>1, <3>1, <3>2
  <2> QED
    BY <2>1, <2>2, <2>3, <2>4, <2>5 DEF Next
<1> QED
  BY <1>1, BreakerInvInit, BreakerInvNext, PTL DEF Spec, WindowNotPostponed

-----------------------------------------------------------------------------
(* The part of CommandTypeOK the threads keep, whatever the breaker does.  *)
ThreadsOK ==
    /\ request \in [Requests -> {"none", "normal", "trial"}]
    /\ pc \in [Requests -> Places]
    /\ kind \in [Requests -> Kinds \union {"none"}]
    /\ attempt \in [Requests -> 0..LastAttempt]
    /\ cmdLock \in Requests \union {NoCaller}
    /\ ahead \in Int
    /\ wait \in [Requests -> Nat]

CommandInv == ThreadsOK /\ Coherent

LEMMA CommandInvInit == CommandInit => CommandInv
<1> SUFFICES ASSUME CommandInit PROVE CommandInv
  OBVIOUS
<1>1. request = [p \in Requests |-> "none"]
  BY DEF CommandInit, Init
<1>2. -MinInterval \in Int /\ 0 \in 0..LastAttempt
  BY MinIntervalAssumption, TriesAssumption DEF LastAttempt
<1>3. ThreadsOK
  BY <1>1, <1>2 DEF CommandInit, ThreadsOK, Places, Kinds
<1>4. Coherent
  BY <1>1, NoCallerAssumption DEF CommandInit, Coherent, InSection, Guarded
<1> QED
  BY <1>3, <1>4 DEF CommandInv

(* The type of an ended command: the lock is not p's any more.             *)
LEMMA FinishFacts ==
    ASSUME CommandInv, NEW p \in Requests, Finish(p)
    PROVE  /\ pc' = [pc EXCEPT ![p] = "idle"]
           /\ kind' = [kind EXCEPT ![p] = "none"]
           /\ attempt' \in [Requests -> 0..LastAttempt]
           /\ cmdLock' \in Requests \union {NoCaller}
           /\ \A q \in Requests : cmdLock' = q <=> (cmdLock = q /\ q # p)
BY NoCallerAssumption, TriesAssumption DEF Finish, Goto, CommandInv, ThreadsOK, LastAttempt

LEMMA FinishKeepsInv ==
    ASSUME CommandInv, NEW p \in Requests, Finish(p),
           request' = [request EXCEPT ![p] = "none"],
           UNCHANGED <<ahead, wait>>
    PROVE  CommandInv'
<1>1. ThreadsOK'
  BY FinishFacts DEF CommandInv, ThreadsOK, Places
<1>2. Coherent'
  BY FinishFacts DEF CommandInv, ThreadsOK, Coherent, InSection
<1> QED
  BY <1>1, <1>2 DEF CommandInv

LEMMA CommandInvNext == CommandInv /\ [CommandNext]_commandVars => CommandInv'
<1> SUFFICES ASSUME CommandInv, [CommandNext]_commandVars PROVE CommandInv'
  OBVIOUS
<1>1. ASSUME NEW p \in Requests, NEW k \in Kinds, Start(p, k) PROVE CommandInv'
  <2>1. ThreadsOK'
    BY <1>1 DEF Start, Goto, CommandInv, ThreadsOK, Places, Kinds, Locked
  <2>2. Coherent'
    BY <1>1 DEF Start, Goto, CommandInv, ThreadsOK, Coherent, InSection, Kinds, Locked, Guarded
  <2> QED
    BY <2>1, <2>2 DEF CommandInv
<1>2. ASSUME NEW p \in Requests, AcquireLock(p) PROVE CommandInv'
  <2>1. ThreadsOK'
    BY <1>2 DEF AcquireLock, TakeLock, Goto, CommandInv, ThreadsOK, Places
  <2>2. Coherent'
    BY <1>2, NoCallerAssumption
    DEF AcquireLock, TakeLock, Goto, CommandInv, ThreadsOK, Coherent, InSection, Kinds, Locked, Guarded
  <2> QED
    BY <2>1, <2>2 DEF CommandInv
<1>3. ASSUME NEW p \in Requests, Admitted(p) PROVE CommandInv'
  <2>1. ThreadsOK'
    BY <1>3 DEF Admitted, Goto, CommandInv, ThreadsOK, Places
  <2>2. Coherent'
    BY <1>3 DEF Admitted, Goto, CommandInv, ThreadsOK, Coherent, InSection, Locked, Guarded
  <2> QED
    BY <2>1, <2>2 DEF CommandInv
<1>4. ASSUME NEW p \in Requests, Refused(p) PROVE CommandInv'
  <2>1. request[p] = "none"
    BY <1>4 DEF Refused, Refusal, CommandInv, ThreadsOK, Coherent
  <2>2. request' = [request EXCEPT ![p] = "none"]
    BY <1>4, <2>1 DEF Refused, Refusal, CommandInv, ThreadsOK
  <2> QED
    BY <1>4, <2>2, FinishKeepsInv DEF Refused, Refusal, CommandInv, ThreadsOK
<1>5. ASSUME NEW p \in Requests, Throttle(p) PROVE CommandInv'
  <2>1. Sleep \in Nat
    BY MinIntervalAssumption DEF Sleep, CommandInv, ThreadsOK
  <2>2. ThreadsOK'
    BY <1>5, <2>1 DEF Throttle, Book, Goto, CommandInv, ThreadsOK, Places
  <2>3. Coherent'
    BY <1>5 DEF Throttle, Book, Goto, CommandInv, ThreadsOK, Coherent, InSection
  <2> QED
    BY <2>2, <2>3 DEF CommandInv
<1>6. ASSUME NEW p \in Requests, Wake(p) \/ Send(p) PROVE CommandInv'
  <2>1. ThreadsOK'
    BY <1>6 DEF Wake, Send, Goto, CommandInv, ThreadsOK, Places
  <2>2. Coherent'
    BY <1>6 DEF Wake, Send, Goto, CommandInv, ThreadsOK, Coherent, InSection
  <2> QED
    BY <2>1, <2>2 DEF CommandInv
<1>7. ASSUME NEW p \in Requests, NEW o \in Results, Retry(p, o) PROVE CommandInv'
  <2>1. ThreadsOK'
    BY <1>7, TriesAssumption DEF Retry, Again, Goto, CommandInv, ThreadsOK, Places, LastAttempt
  <2>2. Coherent'
    BY <1>7 DEF Retry, Again, Ends, Goto, CommandInv, ThreadsOK, Coherent, InSection
  <2> QED
    BY <2>1, <2>2 DEF CommandInv
<1>8. ASSUME NEW p \in Requests, NEW o \in Results, Conclude(p, o) PROVE CommandInv'
  BY <1>8, FinishKeepsInv DEF Conclude, Report
<1>9. ASSUME NEW p \in Requests, NEW o \in Results, ConcludeUnguarded(p, o) PROVE CommandInv'
  <2>1. request' = [request EXCEPT ![p] = "none"]
    BY <1>9 DEF ConcludeUnguarded, CommandInv, ThreadsOK, Coherent
  <2> QED
    BY <1>9, <2>1, FinishKeepsInv DEF ConcludeUnguarded
<1>10. CASE CommandTick
  <2>1. ThreadsOK'
    BY <1>10, MinIntervalAssumption DEF CommandTick, Tick, CommandInv, ThreadsOK
  <2>2. Coherent'
    BY <1>10 DEF CommandTick, Tick, CommandInv, Coherent, InSection
  <2> QED
    BY <2>1, <2>2 DEF CommandInv
<1>11. CASE UNCHANGED commandVars
  BY <1>11 DEF commandVars, CommandInv, ThreadsOK, Coherent, InSection
<1> QED
  BY <1>1, <1>2, <1>3, <1>4, <1>5, <1>6, <1>7, <1>8, <1>9, <1>10, <1>11 DEF CommandNext, Advance

(* Writes of a router are never interleaved: neither with each other's     *)
(* attempts nor in the delays between them.                                *)
THEOREM WritesExclude == CommandSpec => []WritesSerialised
<1>1. CommandInv => WritesSerialised
  BY DEF CommandInv, Coherent, WritesSerialised
<1> QED
  BY <1>1, CommandInvInit, CommandInvNext, PTL DEF CommandSpec

-----------------------------------------------------------------------------
(* The booked slots.  A caller books MinInterval after the last slot, and  *)
(* the clock takes the same from every wait and from `ahead`.              *)
LEMMA SlotsInit == CommandInit => SlotsApart
BY DEF CommandInit, SlotsApart

LEMMA SlotsKept ==
    ASSUME SlotsApart, UNCHANGED <<ahead, wait>>,
           \A p \in Requests : pc'[p] = "asleep" => pc[p] = "asleep"
    PROVE  SlotsApart'
BY DEF SlotsApart

LEMMA SlotsBooked ==
    ASSUME CommandInv, SlotsApart, NEW p \in Requests, Throttle(p)
    PROVE  SlotsApart'
<1>1. /\ ahead' = Sleep /\ wait'[p] = Sleep
      /\ pc[p] # "asleep"
      /\ \A q \in Requests \ {p} : wait'[q] = wait[q] /\ pc'[q] = pc[q]
  BY DEF Throttle, Book, Goto, CommandInv, ThreadsOK
<1>2. ahead \in Int /\ wait \in [Requests -> Nat] /\ MinInterval \in Nat
  BY MinIntervalAssumption DEF CommandInv, ThreadsOK
<1>3. ASSUME NEW q \in Requests \ {p}, pc'[q] = "asleep", wait'[q] > 0
      PROVE  wait'[q] + MinInterval <= Sleep
  <2>1. wait[q] > 0 /\ wait[q] <= ahead
    BY <1>1, <1>3 DEF SlotsApart
  <2> QED
    BY <1>1, <1>2, <1>3, <2>1 DEF Sleep
<1>4. Sleep \in Nat
  BY <1>2 DEF Sleep
<1> SUFFICES ASSUME NEW q \in Requests, pc'[q] = "asleep", wait'[q] > 0
             PROVE  /\ wait'[q] <= ahead'
                    /\ \A r \in Requests \ {q} : pc'[r] = "asleep" /\ wait'[r] > 0 =>
                          \/ wait'[q] >= wait'[r] + MinInterval
                          \/ wait'[r] >= wait'[q] + MinInterval
  BY DEF SlotsApart
<1>5. wait'[q] <= ahead'
  <2>1. CASE q = p
    BY <1>1, <1>4, <2>1
  <2>2. CASE q # p
    <3>1. wait'[q] + MinInterval <= Sleep
      BY <1>3, <2>2
    <3> QED
      BY <1>1, <1>2, <1>4, <2>2, <3>1
  <2> QED
    BY <2>1, <2>2
<1>6. ASSUME NEW r \in Requests \ {q}, pc'[r] = "asleep", wait'[r] > 0
      PROVE  \/ wait'[q] >= wait'[r] + MinInterval
             \/ wait'[r] >= wait'[q] + MinInterval
  <2>1. CASE q = p
    BY <1>1, <1>2, <1>3, <1>4, <1>6, <2>1
  <2>2. CASE r = p
    BY <1>1, <1>2, <1>3, <1>4, <1>6, <2>2
  <2>3. CASE q # p /\ r # p
    BY <1>1, <1>6, <2>3 DEF SlotsApart
  <2> QED
    BY <2>1, <2>2, <2>3
<1> QED
  BY <1>5, <1>6

LEMMA SlotsTick == ASSUME CommandInv, SlotsApart, CommandTick PROVE SlotsApart'
<1>1. /\ ahead \in Int /\ wait \in [Requests -> Nat] /\ MinInterval \in Nat
      /\ pc' = pc
      /\ ahead' = IF ahead > -MinInterval THEN ahead - 1 ELSE ahead
      /\ \A p \in Requests : wait'[p] = IF wait[p] > 0 THEN wait[p] - 1 ELSE 0
  BY MinIntervalAssumption DEF CommandInv, ThreadsOK, CommandTick
<1>2. ASSUME NEW p \in Requests, pc'[p] = "asleep", wait'[p] > 0
      PROVE  /\ wait[p] > 0 /\ wait[p] <= ahead
             /\ wait'[p] = wait[p] - 1 /\ ahead' = ahead - 1
  <2>1. wait[p] \in Nat
    BY <1>1
  <2>2. wait[p] > 0 /\ wait'[p] = wait[p] - 1
    BY <1>1, <1>2, <2>1
  <2>3. wait[p] <= ahead
    BY <1>1, <1>2, <2>2 DEF SlotsApart
  <2> QED
    BY <1>1, <2>1, <2>2, <2>3
<1> SUFFICES ASSUME NEW p \in Requests, pc'[p] = "asleep", wait'[p] > 0
             PROVE  /\ wait'[p] <= ahead'
                    /\ \A q \in Requests \ {p} : pc'[q] = "asleep" /\ wait'[q] > 0 =>
                          \/ wait'[p] >= wait'[q] + MinInterval
                          \/ wait'[q] >= wait'[p] + MinInterval
  BY DEF SlotsApart
<1>3. wait[p] \in Nat
  BY <1>1
<1>4. wait'[p] <= ahead'
  BY <1>1, <1>2, <1>3
<1>5. ASSUME NEW q \in Requests \ {p}, pc'[q] = "asleep", wait'[q] > 0
      PROVE  \/ wait'[p] >= wait'[q] + MinInterval
             \/ wait'[q] >= wait'[p] + MinInterval
  <2>1. \/ wait[p] >= wait[q] + MinInterval
        \/ wait[q] >= wait[p] + MinInterval
    BY <1>1, <1>2, <1>5 DEF SlotsApart
  <2>2. wait'[q] = wait[q] - 1 /\ wait'[p] = wait[p] - 1 /\ wait[q] \in Nat
    BY <1>1, <1>2, <1>5
  <2> QED
    BY <1>1, <1>3, <2>1, <2>2
<1> QED
  BY <1>4, <1>5

LEMMA SlotsNext == CommandInv /\ SlotsApart /\ [CommandNext]_commandVars => SlotsApart'
<1> SUFFICES ASSUME CommandInv, SlotsApart, [CommandNext]_commandVars PROVE SlotsApart'
  OBVIOUS
<1>1. ASSUME NEW p \in Requests, (\E k \in Kinds : Start(p, k)) \/ AcquireLock(p) PROVE SlotsApart'
  BY <1>1, SlotsKept DEF Start, AcquireLock, TakeLock, Goto, CommandInv, ThreadsOK, Kinds, Locked
<1>2. ASSUME NEW p \in Requests, Admitted(p) \/ Refused(p) \/ Wake(p) \/ Send(p) PROVE SlotsApart'
  BY <1>2, SlotsKept DEF Admitted, Refused, Refusal, Finish, Wake, Send, Goto, CommandInv, ThreadsOK
<1>3. ASSUME NEW p \in Requests, NEW o \in Results,
             Retry(p, o) \/ Conclude(p, o) \/ ConcludeUnguarded(p, o)
      PROVE  SlotsApart'
  BY <1>3, SlotsKept
  DEF Retry, Again, Conclude, ConcludeUnguarded, Finish, Goto, CommandInv, ThreadsOK
<1>4. ASSUME NEW p \in Requests, Throttle(p) PROVE SlotsApart'
  BY <1>4, SlotsBooked
<1>5. CASE CommandTick
  BY <1>5, SlotsTick
<1>6. CASE UNCHANGED commandVars
  BY <1>6, SlotsKept DEF commandVars
<1> QED
  BY <1>1, <1>2, <1>3, <1>4, <1>5, <1>6 DEF CommandNext, Advance

(* The rate limiter spaces the first attempts of any number of callers.    *)
THEOREM SlotsSpaced == CommandSpec => []SlotsApart
BY CommandInvInit, CommandInvNext, SlotsInit, SlotsNext, PTL DEF CommandSpec

-----------------------------------------------------------------------------
(* Every step is one of the breaker or leaves it alone.                    *)
LEMMA BreakerStep == CommandInv /\ [CommandNext]_commandVars => [Next]_(vars)
<1> SUFFICES ASSUME CommandInv, [CommandNext]_commandVars PROVE [Next]_(vars)
  OBVIOUS
<1>1. ASSUME NEW p \in Requests, Admitted(p) PROVE Begin(p)
  <2>1. request[p] = "none"
    BY <1>1 DEF Admitted, CommandInv, ThreadsOK, Coherent
  <2> QED
    BY <1>1, <2>1 DEF Admitted, Begin
<1>2. ASSUME NEW p \in Requests, Refused(p) PROVE ShortCircuit(p)
  <2>1. request[p] = "none"
    BY <1>2 DEF Refused, Refusal, CommandInv, ThreadsOK, Coherent
  <2> QED
    BY <1>2, <2>1 DEF Refused, Refusal, ShortCircuit
<1>3. ASSUME NEW p \in Requests, NEW o \in Results, Conclude(p, o)
      PROVE  \E r \in Outcomes : End(p, r)
  <2>1. request[p] # "none"
    BY <1>3 DEF Conclude, Ends, CommandInv, ThreadsOK, Coherent
  <2>2. /\ request' = [request EXCEPT ![p] = "none"] /\ trialGap' = trialGap
        /\ Report(p, o)
    BY <1>3 DEF Conclude, Report
  <2>3. CASE o \in {"ok", "invalid"}
    <3>1. breaker' = Succeeded(breaker)
      BY <2>2, <2>3 DEF Report, Retryable
    <3>2. End(p, "success")
      BY <2>1, <2>2, <3>1 DEF End
    <3> QED
      BY <3>2 DEF Outcomes
  <2>4. CASE o \in Retryable
    <3>1. breaker' = Failed(breaker)
      BY <2>2, <2>4 DEF Report, Retryable
    <3>2. End(p, "failure")
      BY <2>1, <2>2, <3>1 DEF End
    <3> QED
      BY <3>2 DEF Outcomes
  <2>5. CASE o = "unexpected"
    <3>1. breaker' = breaker
      BY <2>2, <2>5 DEF Report, Retryable
    <3>2. End(p, "unreported")
      BY <2>1, <2>2, <3>1 DEF End
    <3> QED
      BY <3>2 DEF Outcomes
  <2> QED
    BY <2>3, <2>4, <2>5 DEF Results, Retryable
<1>4. CASE CommandTick
  BY <1>4 DEF CommandTick, Next
<1>5. ASSUME NEW p \in Requests,
             \/ \E k \in Kinds : Start(p, k)
             \/ AcquireLock(p) \/ Throttle(p) \/ Wake(p) \/ Send(p)
             \/ \E o \in Results : Retry(p, o) \/ ConcludeUnguarded(p, o)
      PROVE  UNCHANGED vars
  BY <1>5 DEF Start, AcquireLock, TakeLock, Throttle, Book, Wake, Send, Retry, Again,
              ConcludeUnguarded, vars
<1>6. CASE UNCHANGED commandVars
  BY <1>6 DEF commandVars, vars
<1> QED
  BY <1>1, <1>2, <1>3, <1>4, <1>5, <1>6 DEF CommandNext, Advance, Next

(* What is proved of the breaker holds of it in the bot: whatever a        *)
(* command does, the breaker sees one request with at most one report.     *)
THEOREM CommandsUseBreaker == CommandSpec => ImplementsBreaker
<1>1. CommandInit => Init
  BY DEF CommandInit
<1> QED
  BY <1>1, BreakerStep, CommandInvInit, CommandInvNext, PTL DEF CommandSpec, ImplementsBreaker, Spec

(* The circuit of a router opens at the threshold of failed commands, and  *)
(* commands under trial are reset_timeout apart, however callers, retries  *)
(* and errors interleave.                                                  *)
THEOREM CommandsKeepBreaker == CommandSpec => []ClosedBelowThreshold /\ NoRetryStorm
BY CommandsUseBreaker, OpensAtThreshold, TrialsSpaced DEF ImplementsBreaker

-----------------------------------------------------------------------------
(* Lock, admission and breaker entry fit the place every command is at:    *)
(* the breaker's part is what its invariant says of every step it may see. *)
THEOREM CommandTypeCorrect == CommandSpec => []CommandTypeOK
<1>1. CommandInit => Init
  BY DEF CommandInit
<1>2. CommandInv /\ BreakerInv => CommandTypeOK
  BY DEF CommandInv, ThreadsOK, BreakerInv, CommandTypeOK
<1>3. CommandInv /\ BreakerInv /\ [CommandNext]_commandVars => BreakerInv'
  BY BreakerStep, BreakerInvNext
<1> QED
  BY <1>1, <1>2, <1>3, BreakerInvInit, CommandInvInit, CommandInvNext, PTL DEF CommandSpec
=============================================================================
