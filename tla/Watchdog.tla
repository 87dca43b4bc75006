------------------------------ MODULE Watchdog ------------------------------
(***************************************************************************)
(* core/watchdog.py and the job of bot/handlers/watchdog.py, for one saved *)
(* router.  The repeating job and /watchdog_refresh run _check_single as   *)
(* coroutines of one loop; check_router_health runs in a worker thread, so *)
(* two checks of the router interleave, and the bot may die between any    *)
(* two steps and come back from router_health_log.                         *)
(***************************************************************************)
EXTENDS FiniteSets

CONSTANTS
    Job,            \* the checks of the repeating job (max_instances 1)
    Refreshes,      \* those of watchdog_refresh and of the router dialogues
    PostInit        \* whether the library calls post_init at a start

ASSUME RefreshesAssumption == Job \notin Refreshes

ASSUME PostInitAssumption == PostInit \subseteq BOOLEAN /\ PostInit # {}

Checks == Refreshes \union {Job}

VARIABLES
    reachable,      \* the router answers (environment)
    refusing,       \* execute raises what check_router_health does not catch
    running,        \* the process is up
    scheduled,      \* the job "router_watchdog" is in the job queue
    known,          \* _last_known_status, TRUE when there is no entry
    alertSent,      \* _router_status[router_key]["alert_sent"]
    latest,         \* which of last_ok and last_fail is later
    stored,         \* status of the newest row of router_health_log
    pc,             \* pc[c]: the next step of check c
    seen,           \* seen[c]: what its execute met
    action,         \* action[c]: what record_check_result told it
    said            \* the last alert decided in this run of the process (history)

vars == <<reachable, refusing, running, scheduled, known, alertSent, latest,
          stored, pc, seen, action, said>>

environment == <<reachable, refusing, running, scheduled>>

Steps == {"idle", "asking", "noting", "storing", "recording", "notifying"}

Actions == {"none", "went_offline", "recovered"}

Init ==
    /\ reachable \in BOOLEAN
    /\ refusing = FALSE
    /\ running = TRUE
    /\ scheduled \in PostInit
    /\ known = TRUE
    /\ alertSent = FALSE
    /\ latest = "none"
    /\ stored = "none"
    /\ pc = [c \in Checks |-> "idle"]
    /\ seen = [c \in Checks |-> FALSE]
    /\ action = [c \in Checks |-> "none"]
    /\ said = "none"

Goto(c, l) == pc' = [pc EXCEPT ![c] = l]

-----------------------------------------------------------------------------
(* check_router_health, in its thread.                                     *)

Begin(c) ==
    /\ running
    /\ pc[c] = "idle"
    /\ c = Job => scheduled
    /\ Goto(c, "asking")
    /\ UNCHANGED <<environment, known, alertSent, latest, stored, seen, action, said>>

(* mikrotik_api.execute returns, or raises one of the connection errors.   *)
Ask(c) ==
    /\ pc[c] = "asking"
    /\ ~refusing
    /\ seen' = [seen EXCEPT ![c] = reachable]
    /\ Goto(c, "noting")
    /\ UNCHANGED <<environment, known, alertSent, latest, stored, action, said>>

(* CircuitBreakerOpenError or RouterNotFoundError escapes to gather: the   *)
(* round leaves no trace of this router.                                   *)
AskRefused(c) ==
    /\ pc[c] = "asking"
    /\ refusing
    /\ Goto(c, "idle")
    /\ UNCHANGED <<environment, known, alertSent, latest, stored, seen, action, said>>

Note(c) ==
    /\ pc[c] = "noting"
    /\ alertSent' = (alertSent /\ ~seen[c])
    /\ latest' = IF seen[c] THEN "ok" ELSE "fail"
    /\ Goto(c, "storing")
    /\ UNCHANGED <<environment, known, stored, seen, action, said>>

(* record_health; a database error is logged and swallowed.  The dialogues *)
(* that connect, find or add a router stop here and record no result.      *)
Store(c) ==
    /\ pc[c] = "storing"
    /\ \/ stored' = IF seen[c] THEN "online" ELSE "offline"
       \/ stored' = stored
    /\ \/ Goto(c, "recording")
       \/ c # Job /\ Goto(c, "idle")
    /\ UNCHANGED <<environment, known, alertSent, latest, seen, action, said>>

-----------------------------------------------------------------------------
(* The rest of _check_single, on the event loop.                           *)

WentOffline(c) == ~seen[c] /\ known /\ ~alertSent

Recovered(c) == seen[c] /\ ~known

Told(a) == IF a = "none" THEN said ELSE a

Verdict(c) ==
    CASE WentOffline(c) -> "went_offline"
      [] Recovered(c)   -> "recovered"
      [] OTHER          -> "none"

FlagAfter(c) ==
    CASE WentOffline(c) -> TRUE
      [] Recovered(c)   -> FALSE
      [] OTHER          -> alertSent

RecordAs(c, verdict, status, flag) ==
    /\ pc[c] = "recording"
    /\ known' = status
    /\ alertSent' = flag
    /\ action' = [action EXCEPT ![c] = verdict]
    /\ said' = Told(verdict)
    /\ Goto(c, IF verdict = "none" THEN "idle" ELSE "notifying")
    /\ UNCHANGED <<environment, latest, stored, seen>>

(* Mutant: a recovery is told but its outage stays flagged.                *)
RecordKeepsFlag(c) ==
    RecordAs(c, Verdict(c), seen[c], alertSent \/ WentOffline(c))

(* Mutant: the flag alone decides, not the last known status.              *)
RecordByFlag(c) ==
    RecordAs(c, IF ~seen[c] /\ ~alertSent THEN "went_offline" ELSE Verdict(c), seen[c], ~seen[c])

(* Mutant: a recovery is recorded only if its outage is flagged.           *)
RecordIfFlagged(c) ==
    RecordAs(c, IF alertSent \/ ~seen[c] THEN Verdict(c) ELSE "none",
             IF seen[c] /\ ~alertSent THEN known ELSE seen[c], FlagAfter(c))

(* record_check_result, one critical section.                              *)
Record(c) == RecordAs(c, Verdict(c), seen[c], FlagAfter(c))

(* Mutant: what one check was told is sent for all that wait to send.      *)
NotifyAll(c) ==
    /\ pc[c] = "notifying"
    /\ action' = [d \in Checks |-> "none"]
    /\ Goto(c, "idle")
    /\ UNCHANGED <<environment, known, alertSent, latest, stored, seen, said>>

(* _notify_admins: sent, or given up after a Telegram error.               *)
Notify(c) ==
    /\ pc[c] = "notifying"
    /\ action' = [action EXCEPT ![c] = "none"]
    /\ Goto(c, "idle")
    /\ UNCHANGED <<environment, known, alertSent, latest, stored, seen, said>>

-----------------------------------------------------------------------------
(* watchdog_start and watchdog_stop; a round under way goes on.            *)
StartJob ==
    /\ running /\ ~scheduled
    /\ scheduled' = TRUE
    /\ UNCHANGED <<reachable, refusing, running, known, alertSent, latest, stored,
                   pc, seen, action, said>>

StopJob ==
    /\ running /\ scheduled
    /\ scheduled' = FALSE
    /\ UNCHANGED <<reachable, refusing, running, known, alertSent, latest, stored,
                   pc, seen, action, said>>

Crash ==
    /\ running
    /\ running' = FALSE
    /\ scheduled' = FALSE
    /\ pc' = [c \in Checks |-> "idle"]
    /\ seen' = [c \in Checks |-> FALSE]
    /\ action' = [c \in Checks |-> "none"]
    /\ UNCHANGED <<reachable, refusing, known, alertSent, latest, stored, said>>

(* main, which starts the application by initialize, start and polling: a  *)
(* library that leaves post_init to run_polling loads no status and starts *)
(* no job.                                                                 *)
RestartBare ==
    /\ FALSE \in PostInit
    /\ scheduled' = FALSE
    /\ known' = TRUE
    /\ latest' = "none"

(* post_init: load_status_from_db, then the job.                           *)
RestartLoaded ==
    /\ TRUE \in PostInit
    /\ scheduled' = TRUE
    /\ known' = (stored # "offline")
    /\ latest' = CASE stored = "none"    -> "none"
                   [] stored = "online"  -> "ok"
                   [] stored = "offline" -> "fail"

Restart ==
    /\ ~running
    /\ running' = TRUE
    /\ alertSent' = FALSE
    /\ said' = "none"
    /\ RestartBare \/ RestartLoaded
    /\ UNCHANGED <<reachable, refusing, stored, pc, seen, action>>

LinkChanges ==
    /\ \/ reachable' = ~reachable /\ UNCHANGED refusing
       \/ refusing' = ~refusing /\ UNCHANGED reachable
    /\ UNCHANGED <<running, scheduled, known, alertSent, latest, stored,
                   pc, seen, action, said>>

CheckStep(c) ==
    Ask(c) \/ AskRefused(c) \/ Note(c) \/ Store(c) \/ Record(c) \/ Notify(c)

Next ==
    \/ \E c \in Checks : Begin(c) \/ CheckStep(c)
    \/ StartJob \/ StopJob \/ Crash \/ Restart \/ LinkChanges

(* The job repeats while it is scheduled; every call of a check has a      *)
(* timeout.  Nothing obliges anybody to refresh, stop, or restart the bot. *)
Fairness == WF_vars(Begin(Job)) /\ \A c \in Checks : WF_vars(CheckStep(c))

Spec == Init /\ [][Next]_vars
FairSpec == Spec /\ Fairness

-----------------------------------------------------------------------------
TypeOK ==
    /\ {reachable, refusing, running, scheduled, known, alertSent} \subseteq BOOLEAN
    /\ latest \in {"none", "ok", "fail"}
    /\ stored \in {"none", "online", "offline"}
    /\ pc \in [Checks -> Steps]
    /\ seen \in [Checks -> BOOLEAN]
    /\ action \in [Checks -> Actions]
    /\ said \in Actions
    /\ \A c \in Checks : action[c] # "none" <=> pc[c] = "notifying"

(* alert_sent marks an outage that is still on record, so its test at      *)
(* watchdog.py:33 never swallows the alert of a new outage, in whatever    *)
(* order two checks clear and set it.                                      *)
FlagMeansOutage == alertSent => ~known

(* "... to decide the change of state and send the alert once" (line 17):  *)
(* in a run of the bot no outage is announced twice without a recovery     *)
(* between, nor a recovery without an outage on record.                    *)
AlertsAlternate ==
    [][\A c \in Checks : pc[c] = "recording" /\ pc'[c] = "notifying" =>
          /\ said' # said
          /\ action'[c] = "recovered" => ~known]_vars

(* A router that stays down is on record as down, and one that stays up as *)
(* up, once the bot runs, the job is scheduled and execute refuses no      *)
(* more: no order of overlapping checks leaves a stale status behind.      *)
StatusSettles ==
    /\ <>[](~reachable /\ ~refusing /\ running /\ scheduled) => <>[](~known /\ latest = "fail")
    /\ <>[](reachable /\ ~refusing /\ running /\ scheduled) => <>[](known /\ latest = "ok")
=============================================================================
