------------------------ MODULE BackupScheduleProofs ------------------------
(***************************************************************************)
(* What BackupSchedule keeps true for any number of jobs and any hours.    *)
(* The marks and the answers are safe because of what holds while a        *)
(* handler waits, which is the invariant's core.                           *)
(***************************************************************************)
EXTENDS BackupSchedule, TLAPS

(* What the handler of an update relies on across its awaits.              *)
Awaits ==
    /\ update = "editing" => ~mark
    /\ update \in {"setting", "disabling"} => confirmed = Unknown
    /\ update = "setting" =>
          stored.enabled = TRUE /\ stored.hour \in Hours /\ daily = {stored.hour}
    /\ update = "disabling" => stored.enabled = FALSE /\ daily = {}

Down == ~up => update = "none" /\ ~fresh /\ daily = {}

Inv == TypeOK /\ Awaits /\ Down /\ MarkMeansJob /\ ConfirmedHolds

LEMMA HourReadType ==
    ASSUME NEW h \in Hours \union {3}
    PROVE  HourRead(h) \in Hours \union {3}
BY DEF HourRead

LEMMA NotHours == Off \notin Hours \union {3} /\ Unknown \notin Hours \union {3} /\ Off # Unknown
BY HoursAssumption DEF Off, Unknown

LEMMA InitInv == Init => Inv
<1> SUFFICES ASSUME Init PROVE Inv
  OBVIOUS
<1>1. TypeOK
  <2>1. daily \subseteq {3} /\ 3 \in Hours \union {3}
    BY DEF Init
  <2>2. stored \in [enabled : BOOLEAN, hour : Hours \union {3}]
    BY DEF Init
  <2> QED
    BY <2>1, <2>2 DEF Init, TypeOK
<1> QED
  BY <1>1, NotHours DEF Init, Inv, Awaits, Down, MarkMeansJob, ConfirmedHolds

(* Steps of the buttons and of their jobs touch the mark only.             *)
LEMMA ButtonSteps ==
    ASSUME Inv,
           \/ Press \/ EditFails
           \/ \E t \in Tasks : Queue(t) \/ Due(t) \/ Done(t)
    PROVE  Inv'
<1>1. CASE Press \/ EditFails
  BY <1>1 DEF Press, EditFails, schedule, Inv, TypeOK, Awaits, Down, MarkMeansJob, ConfirmedHolds
<1>2. ASSUME NEW t \in Tasks, Queue(t) PROVE Inv'
  <2>1. ~mark /\ \A s \in Tasks : task[s] = "none"
    BY <1>2 DEF Queue, Inv, Awaits, MarkMeansJob
  <2>2. MarkMeansJob'
    BY <1>2, <2>1 DEF Queue, Inv, TypeOK, MarkMeansJob
  <2> QED
    BY <1>2, <2>2 DEF Queue, schedule, Inv, TypeOK, Awaits, Down, ConfirmedHolds
<1>3. ASSUME NEW t \in Tasks, Due(t) PROVE Inv'
  <2>1. \A s \in Tasks : task'[s] = "none" <=> task[s] = "none"
    BY <1>3 DEF Due, Inv, TypeOK
  <2>2. MarkMeansJob'
    BY <1>3, <2>1 DEF Due, Inv, MarkMeansJob
  <2> QED
    BY <1>3, <2>2 DEF Due, schedule, Inv, TypeOK, Awaits, Down, ConfirmedHolds
<1>4. ASSUME NEW t \in Tasks, Done(t) PROVE Inv'
  <2>1. \A s \in Tasks : task'[s] = "none"
    BY <1>4 DEF Done, Inv, TypeOK, MarkMeansJob
  <2>2. MarkMeansJob'
    BY <1>4, <2>1 DEF Done, MarkMeansJob
  <2> QED
    BY <1>4, <2>2 DEF Done, schedule, Inv, TypeOK, Awaits, Down, ConfirmedHolds
<1> QED
  BY <1>1, <1>2, <1>3, <1>4

(* Steps of the schedule leave the marks and their jobs alone.             *)
LEMMA MarkFrame ==
    ASSUME MarkMeansJob, UNCHANGED <<mark, task>> PROVE MarkMeansJob'
BY DEF MarkMeansJob

LEMMA SaveType ==
    ASSUME TypeOK, NEW e \in BOOLEAN, NEW h \in Hours \union {3}, NEW w, Save(e, h, w)
    PROVE  stored' \in [enabled : BOOLEAN, hour : Hours \union {3}]
<1>1. [enabled |-> e, hour |-> h] \in [enabled : BOOLEAN, hour : Hours \union {3}]
  OBVIOUS
<1>2. stored \in [enabled : BOOLEAN, hour : Hours \union {3}]
  BY DEF TypeOK
<1> QED
  BY <1>1, <1>2 DEF Save

LEMMA ScheduleSteps ==
    ASSUME Inv, Disable \/ Answer \/ \E h \in Hours : SetSchedule(h)
    PROVE  Inv'
<1>1. ASSUME NEW h \in Hours, SetSchedule(h) PROVE Inv'
  <2>1. MarkMeansJob'
    BY <1>1, MarkFrame DEF SetSchedule, Inv
  <2>2. TypeOK'
    <3>1. stored' \in [enabled : BOOLEAN, hour : Hours \union {3}]
      <4>1. Save(TRUE, h, "setting")
        BY <1>1 DEF SetSchedule
      <4> QED
        BY <4>1, SaveType DEF Inv
    <3>2. daily' \subseteq {h} /\ h \in Hours \union {3}
      BY <1>1 DEF SetSchedule
    <3>3. update' \in {"none", "setting"} /\ confirmed' = Unknown
      BY <1>1 DEF SetSchedule, Save
    <3> QED
      BY <1>1, <3>1, <3>2, <3>3 DEF SetSchedule, Inv, TypeOK
  <2>3. confirmed' = Unknown /\ update' \in {"none", "setting"} /\ daily' = {h}
    BY <1>1 DEF SetSchedule, Save
  <2>4. update' = "setting" => stored'.enabled = TRUE /\ stored'.hour = h
    BY <1>1 DEF SetSchedule, Save
  <2>5. Awaits'
    BY <2>3, <2>4 DEF Awaits
  <2>6. Down' /\ ConfirmedHolds'
    BY <1>1, <2>3, NotHours DEF SetSchedule, Down, ConfirmedHolds
  <2> QED
    BY <2>1, <2>2, <2>5, <2>6 DEF Inv
<1>2. CASE Disable
  <2>1. MarkMeansJob'
    BY <1>2, MarkFrame DEF Disable, Inv
  <2>2. TypeOK'
    <3>1. HourRead(stored.hour) \in Hours \union {3}
      BY HourReadType DEF Inv, TypeOK
    <3>2. stored' \in [enabled : BOOLEAN, hour : Hours \union {3}]
      <4>1. Save(FALSE, HourRead(stored.hour), "disabling")
        BY <1>2 DEF Disable
      <4> QED
        BY <3>1, <4>1, SaveType DEF Inv
    <3>3. daily' \subseteq {3} /\ 3 \in Hours \union {3}
      BY <1>2 DEF Disable
    <3>4. update' \in {"none", "disabling"} /\ confirmed' = Unknown
      BY <1>2 DEF Disable, Save
    <3> QED
      BY <1>2, <3>2, <3>3, <3>4 DEF Disable, Inv, TypeOK
  <2>3. confirmed' = Unknown /\ update' \in {"none", "disabling"} /\ daily' = {}
    BY <1>2 DEF Disable, Save
  <2>4. update' = "disabling" => stored'.enabled = FALSE
    BY <1>2 DEF Disable, Save
  <2>5. Awaits'
    BY <2>3, <2>4 DEF Awaits
  <2>6. Down' /\ ConfirmedHolds'
    BY <1>2, <2>3, NotHours DEF Disable, Down, ConfirmedHolds
  <2> QED
    BY <2>1, <2>2, <2>5, <2>6 DEF Inv
<1>3. CASE Answer
  <2>1. MarkMeansJob'
    BY <1>3, MarkFrame DEF Answer, Inv
  <2>2. TypeOK'
    BY <1>3 DEF Answer, Inv, TypeOK, Awaits
  <2>3. Awaits'
    BY <1>3 DEF Answer, Awaits
  <2>4. Down'
    BY <1>3 DEF Answer, Inv, Down
  <2>5. ConfirmedHolds'
    <3>1. CASE confirmed' = confirmed
      BY <1>3, <3>1, NotHours DEF Answer, Inv, Awaits, ConfirmedHolds
    <3>2. CASE update = "setting" /\ confirmed' = stored.hour
      BY <1>3, <3>2, NotHours DEF Answer, Inv, TypeOK, Awaits, ConfirmedHolds
    <3>3. CASE update = "disabling" /\ confirmed' = Off
      BY <1>3, <3>3, NotHours DEF Answer, Inv, Awaits, ConfirmedHolds
    <3> QED
      BY <1>3, <3>1, <3>2, <3>3 DEF Answer
  <2> QED
    BY <2>1, <2>2, <2>3, <2>4, <2>5 DEF Inv
<1> QED
  BY <1>1, <1>2, <1>3

LEMMA ProcessSteps ==
    ASSUME Inv, Crash \/ Restart
    PROVE  Inv'
<1>1. CASE Crash
  BY <1>1, NotHours DEF Crash, Inv, TypeOK, Awaits, Down, MarkMeansJob, ConfirmedHolds
<1>2. CASE Restart
  <2>1. MarkMeansJob'
    BY <1>2, MarkFrame DEF Restart, Inv
  <2>2. update' = "none" /\ up' /\ UNCHANGED schedule
    BY <1>2 DEF Restart, Inv, Down
  <2> QED
    BY <1>2, <2>1, <2>2 DEF Restart, schedule, Inv, TypeOK, Awaits, Down, ConfirmedHolds
<1> QED
  BY <1>1, <1>2

LEMMA NextInv == Inv /\ [Next]_vars => Inv'
<1>1. CASE UNCHANGED vars
  BY <1>1 DEF vars, schedule, Inv, TypeOK, Awaits, Down, MarkMeansJob, ConfirmedHolds
<1> QED
  BY <1>1, ButtonSteps, ScheduleSteps, ProcessSteps DEF Next

(* Whatever is pressed, asked, lost or restarted, the queue holds at most  *)
(* one daily job (start_daily, stop).                                      *)
THEOREM ScheduleTypeCorrect == Spec => []TypeOK
<1>1. Inv => TypeOK
  BY DEF Inv
<1> QED
  BY InitInv, NextInv, <1>1, PTL DEF Spec

(* A running mark stands for exactly one job, for any number of presses    *)
(* and jobs (backup_full, backup_userman, _background_backup_job).         *)
THEOREM OneJobPerMark == Spec => []MarkMeansJob
<1>1. Inv => MarkMeansJob
  BY DEF Inv
<1> QED
  BY InitInv, NextInv, <1>1, PTL DEF Spec

(* What schedule_set and schedule_disable answered is stored and, until    *)
(* the process ends, queued; a schedule switched off stays off.            *)
THEOREM AnswersHold == Spec => []ConfirmedHolds
<1>1. Inv => ConfirmedHolds
  BY DEF Inv
<1> QED
  BY InitInv, NextInv, <1>1, PTL DEF Spec
=============================================================================
