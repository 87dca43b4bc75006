--------------------------- MODULE BackupSchedule ---------------------------
(***************************************************************************)
(* What starts backups: the buttons of bot/handlers/backup.py with their   *)
(* running mark and one-off job, for one router, and the daily schedule    *)
(* that core/backup_scheduler.py keeps in the job queue and in the row of  *)
(* backup_settings.  Updates are handled one at a time; jobs run while the *)
(* handler of an update waits for Telegram or the database.                *)
(***************************************************************************)
EXTENDS Integers, FiniteSets

CONSTANTS
    Tasks,          \* one-off jobs that may exist at once
    Hours           \* hours an operator asks for (minutes behave alike, with 0)

ASSUME HoursAssumption == Hours \subseteq 0 .. 23

VARIABLES
    up,             \* the process runs
    update,         \* what the handler of the current update waits for
    mark,           \* router_key \in _BACKUP_LOCKS
    task,           \* task[t]: a _background_backup_job of the router
    daily,          \* hours of the jobs named scheduled_backup
    stored,         \* the row of backup_settings
    confirmed,      \* the schedule the operator was last told of (history)
    fresh           \* ... in this run of the process (history)

vars == <<up, update, mark, task, daily, stored, confirmed, fresh>>

schedule == <<daily, stored, confirmed, fresh>>

(* Not an hour: the schedule is off, or the operator was told of no outcome. *)
Off == -1
Unknown == -2

Init ==
    /\ up = TRUE
    /\ update = "none"
    /\ mark = FALSE
    /\ task = [t \in Tasks |-> "none"]
    /\ daily = {}
    /\ stored = [enabled |-> FALSE, hour |-> 3]
    /\ confirmed = Off
    /\ fresh = TRUE

-----------------------------------------------------------------------------
(* backup_full and backup_userman.  A press while the mark is set is       *)
(* answered and changes nothing.                                           *)

(* Mutant: the mark is not consulted.                                      *)
PressUnmarked ==
    /\ up /\ update = "none"
    /\ update' = "editing"
    /\ UNCHANGED <<up, mark, task, schedule>>

(* Mutant: the mark is set before the message is edited.                   *)
PressMarking ==
    /\ up /\ update = "none" /\ ~mark
    /\ mark' = TRUE
    /\ update' = "editing"
    /\ UNCHANGED <<up, task, schedule>>

Press ==
    /\ up /\ update = "none"
    /\ ~mark
    /\ update' = "editing"
    /\ UNCHANGED <<up, mark, task, schedule>>

(* query.edit_message_text has returned: set the mark and queue the job.   *)
Queue(t) ==
    /\ update = "editing"
    /\ task[t] = "none"
    /\ mark' = TRUE
    /\ task' = [task EXCEPT ![t] = "queued"]
    /\ update' = "none"
    /\ UNCHANGED <<up, schedule>>

(* It has raised: the global error handler ends the update.                *)
EditFails ==
    /\ update = "editing"
    /\ update' = "none"
    /\ UNCHANGED <<up, mark, task, schedule>>

Due(t) ==
    /\ task[t] = "queued"
    /\ task' = [task EXCEPT ![t] = "running"]
    /\ UNCHANGED <<up, update, mark, schedule>>

(* However the backup, its records and its message end, finally clears.    *)
Done(t) ==
    /\ task[t] = "running"
    /\ task' = [task EXCEPT ![t] = "none"]
    /\ mark' = FALSE
    /\ UNCHANGED <<up, update, schedule>>

-----------------------------------------------------------------------------
(* The daily schedule.  `... or 3` reads an hour of 0 as 3.                *)
HourRead(h) == IF h = 0 THEN 3 ELSE h

(* save_backup_schedule, which commits or raises.                          *)
Save(enabled, hour, waits) ==
    \/ /\ stored' = [enabled |-> enabled, hour |-> hour]
       /\ update' = waits
    \/ /\ stored' = stored
       /\ update' = "none"

(* Mutant: the jobs of the schedule before are left in the queue.          *)
SetUnstopped(h) ==
    /\ up /\ update = "none"
    /\ daily' = daily \union {h}
    /\ Save(TRUE, h, "setting")
    /\ confirmed' = Unknown
    /\ UNCHANGED <<up, mark, task, fresh>>

(* schedule_set, start_daily: the job first, then the row; an error of the *)
(* database leaves the job.                                                *)
SetSchedule(h) ==
    /\ up /\ update = "none"
    /\ daily' = {h}
    /\ Save(TRUE, h, "setting")
    /\ confirmed' = Unknown
    /\ UNCHANGED <<up, mark, task, fresh>>

(* Mutant: stop without persist.                                           *)
DisableUnsaved ==
    /\ up /\ update = "none"
    /\ daily' = {}
    /\ update' = "disabling"
    /\ confirmed' = Unknown
    /\ UNCHANGED <<up, mark, task, stored, fresh>>

(* schedule_disable, stop.                                                 *)
Disable ==
    /\ up /\ update = "none"
    /\ daily' = {}
    /\ Save(FALSE, HourRead(stored.hour), "disabling")
    /\ confirmed' = Unknown
    /\ UNCHANGED <<up, mark, task, fresh>>

(* log_action and the answer to the operator, or an error of either.       *)
Answer ==
    /\ update \in {"setting", "disabling"}
    /\ \/ confirmed' = IF update = "setting" THEN stored.hour ELSE Off
       \/ confirmed' = confirmed
    /\ fresh' = TRUE
    /\ update' = "none"
    /\ UNCHANGED <<up, mark, task, daily, stored>>

-----------------------------------------------------------------------------
Crash ==
    /\ up
    /\ up' = FALSE
    /\ update' = "none"
    /\ mark' = FALSE
    /\ task' = [t \in Tasks |-> "none"]
    /\ daily' = {}
    /\ fresh' = FALSE
    /\ UNCHANGED <<stored, confirmed>>

(* main initializes and starts the application itself; the library calls   *)
(* post_init, and with it restore, only from run_polling: the job queue    *)
(* starts empty.                                                           *)
Restart ==
    /\ ~up
    /\ up' = TRUE
    /\ UNCHANGED <<update, mark, task, schedule>>

Next ==
    \/ Press \/ EditFails \/ Disable \/ Answer \/ Crash \/ Restart
    \/ \E t \in Tasks : Queue(t) \/ Due(t) \/ Done(t)
    \/ \E h \in Hours : SetSchedule(h)

(* Calls to Telegram and to the router have time-outs and due jobs are     *)
(* run; nobody has to press a button or to restart the bot.                *)
Fairness ==
    /\ WF_vars(EditFails \/ \E t \in Tasks : Queue(t))
    /\ WF_vars(Answer)
    /\ \A t \in Tasks : WF_vars(Due(t) \/ Done(t))

Spec == Init /\ [][Next]_vars
FairSpec == Spec /\ Fairness

-----------------------------------------------------------------------------
(* Types; start_daily leaves one daily job, however often it is called.    *)
TypeOK ==
    /\ up \in BOOLEAN /\ mark \in BOOLEAN /\ fresh \in BOOLEAN
    /\ update \in {"none", "editing", "setting", "disabling"}
    /\ task \in [Tasks -> {"none", "queued", "running"}]
    /\ stored \in [enabled : BOOLEAN, hour : Hours \union {3}]
    /\ confirmed \in Hours \union {3, Off, Unknown}
    /\ \E h \in Hours \union {3} : daily \subseteq {h}

(* The running mark is tested before an await and set after it, and still  *)
(* stands for exactly one job of the router: two presses never run two     *)
(* backups, and no mark outlives its job.                                  *)
MarkMeansJob ==
    /\ mark <=> \E t \in Tasks : task[t] # "none"
    /\ \A s, t \in Tasks : task[s] # "none" /\ task[t] # "none" => s = t

(* What the operator was told of the schedule is what is stored and, until *)
(* the process ends, what the job queue runs; switched off, it is off in   *)
(* the row and in the queue, whatever follows.                             *)
ConfirmedHolds ==
    /\ confirmed = Off => ~stored.enabled /\ daily = {}
    /\ confirmed \in Hours =>
          /\ stored = [enabled |-> TRUE, hour |-> confirmed]
          /\ fresh => daily = {confirmed}

(* A router is not refused for ever: every mark is cleared, whatever fails.*)
MarkClears == mark ~> ~mark

(* main.py:43, "Backup schedule restored from database": the schedule the  *)
(* operator was told of runs after a restart too, whichever way the        *)
(* process ended.                                                          *)
ScheduleSurvives == up /\ confirmed \in Hours => daily = {confirmed}
=============================================================================
