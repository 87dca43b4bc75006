-------------------------- MODULE WatchdogProofs --------------------------
(***************************************************************************)
(* What holds of the watchdog for any number of overlapping checks.        *)
(***************************************************************************)
EXTENDS Watchdog, TLAPS

(* What was last announced agrees with the status on record, up to the     *)
(* status that a restart loaded and nobody announced.                      *)
SaidAgrees ==
    /\ known => said # "went_offline"
    /\ ~known => said # "recovered"

Inv == FlagMeansOutage /\ SaidAgrees

(* The status variables of the invariant are changed by Note, Record and   *)
(* Restart only.                                                           *)
Quiet == known' = known /\ alertSent' = alertSent /\ said' = said

LEMMA QuietSteps ==
    ASSUME NEW c \in Checks,
           \/ Begin(c) \/ Ask(c) \/ AskRefused(c) \/ Store(c) \/ Notify(c)
           \/ StartJob \/ StopJob \/ Crash \/ LinkChanges
    PROVE  Quiet
BY DEF Begin, Ask, AskRefused, Store, Notify, StartJob, StopJob, Crash, LinkChanges, Quiet

LEMMA NoteClears ==
    ASSUME NEW c \in Checks, Note(c)
    PROVE  known' = known /\ said' = said /\ (alertSent' => alertSent)
BY DEF Note

(* The cases of record_check_result.                                       *)
LEMMA RecordCases ==
    ASSUME NEW c \in Checks, Record(c)
    PROVE  /\ known' = seen[c]
           /\ \/ /\ WentOffline(c)
                 /\ said' = "went_offline" /\ alertSent' = TRUE
              \/ /\ Recovered(c)
                 /\ said' = "recovered" /\ alertSent' = FALSE
              \/ /\ ~WentOffline(c) /\ ~Recovered(c)
                 /\ said' = said /\ alertSent' = alertSent
<1>1. /\ known' = seen[c] /\ alertSent' = FlagAfter(c)
      /\ said' = Told(Verdict(c))
  BY DEF Record, RecordAs
<1>2. CASE WentOffline(c)
  <2>1. ~Recovered(c)
    BY <1>2 DEF WentOffline, Recovered
  <2>2. Verdict(c) = "went_offline" /\ FlagAfter(c) = TRUE
    BY <1>2, <2>1 DEF Verdict, FlagAfter
  <2> QED
    BY <1>1, <1>2, <2>2 DEF Told
<1>3. CASE ~WentOffline(c) /\ Recovered(c)
  <2>1. Verdict(c) = "recovered" /\ FlagAfter(c) = FALSE
    BY <1>3 DEF Verdict, FlagAfter
  <2> QED
    BY <1>1, <1>3, <2>1 DEF Told
<1>4. CASE ~WentOffline(c) /\ ~Recovered(c)
  <2>1. Verdict(c) = "none" /\ FlagAfter(c) = alertSent
    BY <1>4 DEF Verdict, FlagAfter
  <2> QED
    BY <1>1, <1>4, <2>1 DEF Told
<1> QED
  BY <1>2, <1>3, <1>4

-----------------------------------------------------------------------------
LEMMA TypeInit == Init => TypeOK
BY PostInitAssumption DEF Init, TypeOK, Checks, Steps, Actions

LEMMA VerdictType == \A c \in Checks : Verdict(c) \in Actions /\ Told(Verdict(c)) \in Actions \union {said}
BY DEF Verdict, Told, Actions

LEMMA TypeNext == TypeOK /\ [Next]_vars => TypeOK'
<1> SUFFICES ASSUME TypeOK, [Next]_vars PROVE TypeOK'
  OBVIOUS
<1> USE DEF Steps
<1>1. ASSUME NEW c \in Checks, Begin(c) PROVE TypeOK'
  BY <1>1 DEF TypeOK, Begin, environment, Goto
<1>2. ASSUME NEW c \in Checks, Ask(c) PROVE TypeOK'
  BY <1>2 DEF TypeOK, Ask, environment, Goto
<1>3. ASSUME NEW c \in Checks, AskRefused(c) PROVE TypeOK'
  BY <1>3 DEF TypeOK, AskRefused, environment, Goto
<1>4. ASSUME NEW c \in Checks, Note(c) PROVE TypeOK'
  BY <1>4 DEF TypeOK, Note, environment, Goto
<1>5. ASSUME NEW c \in Checks, Store(c) PROVE TypeOK'
  BY <1>5 DEF TypeOK, Store, environment, Goto
<1>6. ASSUME NEW c \in Checks, Record(c) PROVE TypeOK'
  <2>1. known' \in BOOLEAN /\ alertSent' \in BOOLEAN
    BY <1>6, RecordCases DEF TypeOK
  <2>2. Verdict(c) \in Actions /\ said' \in Actions
    BY <1>6, VerdictType DEF Record, RecordAs, TypeOK
  <2> HIDE DEF Verdict
  <2> QED
    BY <1>6, <2>1, <2>2 DEF TypeOK, Record, RecordAs, environment, Goto
<1>7. ASSUME NEW c \in Checks, Notify(c) PROVE TypeOK'
  BY <1>7 DEF TypeOK, Notify, environment, Goto, Actions
<1>8. CASE StartJob \/ StopJob \/ LinkChanges
  BY <1>8 DEF TypeOK, StartJob, StopJob, LinkChanges
<1>9. CASE Crash
  BY <1>9 DEF TypeOK, Crash, Actions
<1>10. CASE Restart
  BY <1>10 DEF TypeOK, Restart, RestartBare, RestartLoaded, Actions
<1>11. CASE UNCHANGED vars
  BY <1>11 DEF TypeOK, vars
<1> QED
  BY <1>1, <1>2, <1>3, <1>4, <1>5, <1>6, <1>7, <1>8, <1>9, <1>10, <1>11
  DEF Next, CheckStep

LEMMA InvInit == Init => Inv
BY DEF Init, Inv, FlagMeansOutage, SaidAgrees

LEMMA QuietKeepsInv == Inv /\ Quiet => Inv'
BY DEF Inv, Quiet, FlagMeansOutage, SaidAgrees

LEMMA RecordKeepsInv ==
    ASSUME Inv, NEW c \in Checks, Record(c)
    PROVE  Inv'
<1>1. CASE WentOffline(c) /\ said' = "went_offline" /\ alertSent' = TRUE
  <2>1. ~known'
    BY <1>1, RecordCases DEF WentOffline
  <2> QED
    BY <1>1, <2>1 DEF Inv, FlagMeansOutage, SaidAgrees
<1>2. CASE Recovered(c) /\ said' = "recovered" /\ alertSent' = FALSE
  <2>1. known'
    BY <1>2, RecordCases DEF Recovered
  <2> QED
    BY <1>2, <2>1 DEF Inv, FlagMeansOutage, SaidAgrees
<1>3. CASE /\ ~WentOffline(c) /\ ~Recovered(c)
           /\ said' = said /\ alertSent' = alertSent
  <2>1. known' <=> known
    BY <1>3, RecordCases DEF Inv, FlagMeansOutage, WentOffline, Recovered
  <2> QED
    BY <1>3, <2>1 DEF Inv, FlagMeansOutage, SaidAgrees
<1> QED
  BY <1>1, <1>2, <1>3, RecordCases

LEMMA InvNext == Inv /\ [Next]_vars => Inv'
<1> SUFFICES ASSUME Inv, [Next]_vars PROVE Inv'
  OBVIOUS
<1>1. ASSUME NEW c \in Checks, Begin(c) \/ CheckStep(c) PROVE Inv'
  <2>1. CASE Begin(c) \/ Ask(c) \/ AskRefused(c) \/ Store(c) \/ Notify(c)
    BY <2>1, QuietSteps, QuietKeepsInv
  <2>2. CASE Note(c)
    BY <2>2, NoteClears DEF Inv, FlagMeansOutage, SaidAgrees
  <2>3. CASE Record(c)
    BY <2>3, RecordKeepsInv
  <2> QED
    BY <1>1, <2>1, <2>2, <2>3 DEF CheckStep
<1>2. CASE StartJob \/ StopJob \/ Crash \/ LinkChanges
  <2>1. Job \in Checks
    BY DEF Checks
  <2> QED
    BY <1>2, <2>1, QuietSteps, QuietKeepsInv
<1>3. CASE Restart
  BY <1>3 DEF Restart, Inv, FlagMeansOutage, SaidAgrees
<1>4. CASE UNCHANGED vars
  <2>1. Quiet
    BY <1>4 DEF vars, Quiet
  <2> QED
    BY <2>1, QuietKeepsInv
<1> QED
  BY <1>1, <1>2, <1>3, <1>4 DEF Next

(* Types: an alert waits to be sent exactly at the step that sends it.     *)
THEOREM WatchdogTypeCorrect == Spec => []TypeOK
BY TypeInit, TypeNext, PTL DEF Spec

(* The flag never outlives its outage, however checks overlap and wherever *)
(* the process dies.                                                       *)
THEOREM FlagSound == Spec => []FlagMeansOutage
<1>1. Inv => FlagMeansOutage
  BY DEF Inv
<1> QED
  BY <1>1, InvInit, InvNext, PTL DEF Spec

(* Outages and recoveries are announced in turn within a run of the bot.   *)
THEOREM AlertsTakeTurns == Spec => AlertsAlternate
<1>1. TypeOK /\ Inv /\ [Next]_vars =>
        [\A c \in Checks : pc[c] = "recording" /\ pc'[c] = "notifying" =>
            /\ said' # said
            /\ action'[c] = "recovered" => ~known]_vars
  <2> SUFFICES ASSUME TypeOK, Inv, Next, NEW c \in Checks,
                      pc[c] = "recording", pc'[c] = "notifying"
               PROVE  said' # said /\ (action'[c] = "recovered" => ~known)
    BY DEF vars
  <2>1. Record(c)
    BY DEF Next, CheckStep, TypeOK, Begin, Ask, AskRefused, Note, Store, Record, RecordAs,
           Notify, StartJob, StopJob, Crash, Restart, LinkChanges, Goto
  <2>2. action'[c] = Verdict(c) /\ Verdict(c) # "none"
    BY <2>1 DEF Record, RecordAs, Goto, TypeOK
  <2>3. CASE WentOffline(c) /\ said' = "went_offline"
    <3>1. action'[c] = "went_offline"
      BY <2>2, <2>3 DEF Verdict, Recovered, WentOffline
    <3>2. said # "went_offline"
      BY <2>3 DEF Inv, SaidAgrees, WentOffline
    <3> QED
      BY <2>3, <3>1, <3>2
  <2>4. CASE Recovered(c) /\ said' = "recovered"
    BY <2>4 DEF Inv, SaidAgrees, Recovered
  <2>5. CASE ~WentOffline(c) /\ ~Recovered(c)
    BY <2>2, <2>5 DEF Verdict
  <2> QED
    BY <2>1, <2>3, <2>4, <2>5, RecordCases
<1> QED
  BY <1>1, TypeInit, TypeNext, InvInit, InvNext, PTL DEF Spec, AlertsAlternate
(* No change of the status on record goes unannounced while the bot runs:  *)
(* the flag tested at watchdog.py:33 swallows no outage, and the clearing  *)
(* of the flag by an overlapping check no recovery.  What is never told is *)
(* only what a restart loads.                                              *)
ChangesTold ==
    [][running /\ running' /\ known' # known =>
          \E c \in Checks :
             /\ pc[c] = "recording" /\ pc'[c] = "notifying"
             /\ action'[c] = IF known' THEN "recovered" ELSE "went_offline"]_vars

THEOREM NoSilentChange == Spec => ChangesTold
<1>1. TypeOK /\ Inv /\ [Next]_vars =>
        [running /\ running' /\ known' # known =>
            \E c \in Checks :
               /\ pc[c] = "recording" /\ pc'[c] = "notifying"
               /\ action'[c] = IF known' THEN "recovered" ELSE "went_offline"]_vars
  <2> SUFFICES ASSUME TypeOK, Inv, Next, running, known' # known
               PROVE  \E c \in Checks :
                         /\ pc[c] = "recording" /\ pc'[c] = "notifying"
                         /\ action'[c] = IF known' THEN "recovered" ELSE "went_offline"
    BY DEF vars
  <2>1. PICK c \in Checks : Record(c)
    <3>1. Job \in Checks
      BY DEF Checks
    <3>2. ~Restart
      BY DEF Restart
    <3> QED
      BY <3>1, <3>2, QuietSteps, NoteClears DEF Next, CheckStep, Quiet
  <2>2. /\ pc[c] = "recording" /\ action'[c] = Verdict(c)
        /\ Verdict(c) # "none" => pc'[c] = "notifying"
    BY <2>1 DEF Record, RecordAs, Goto, TypeOK
  <2>3. CASE WentOffline(c)
    <3>1. Verdict(c) = "went_offline" /\ ~known'
      BY <2>1, <2>3, RecordCases DEF Verdict, WentOffline, Recovered
    <3> QED
      BY <2>2, <3>1
  <2>4. CASE Recovered(c)
    <3>1. Verdict(c) = "recovered" /\ known'
      BY <2>1, <2>4, RecordCases DEF Verdict, WentOffline, Recovered
    <3> QED
      BY <2>2, <3>1
  <2>5. CASE ~WentOffline(c) /\ ~Recovered(c)
    <3>1. known' <=> known
      BY <2>1, <2>5, RecordCases DEF Inv, FlagMeansOutage, WentOffline, Recovered
    <3>2. known \in BOOLEAN /\ known' \in BOOLEAN
      BY <2>1, RecordCases DEF TypeOK
    <3> QED
      BY <3>1, <3>2
  <2> QED
    BY <2>3, <2>4, <2>5
<1> QED
  BY <1>1, TypeInit, TypeNext, InvInit, InvNext, PTL DEF Spec, ChangesTold
=============================================================================
