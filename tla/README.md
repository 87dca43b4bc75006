# Verification of mikrotik_bot

`mikrotik_bot` is a Telegram bot that administers MikroTik routers over the RouterOS API: hotspot and User
Manager accounts, cards, backups, health monitoring. This directory holds TLA+ models of the parts of it that
run concurrently or survive failures, TLC configurations that check them on small instances, and proofs, checked
by TLAPS, that the main safety properties hold for every value of the constants. Paths below are relative to
`src/`.

Check a module with `tlc -config X.cfg M`, its proofs with `tlapm MProofs.tla`. `PROJECT.json` maps each
definition to the lines it models and lists runs, mutants, findings, hazards and theorems.

## The system

One process. An asyncio loop (python-telegram-bot) handles one update after another
(`concurrent_updates(False)`, `main.py:82`) and, between their awaits, the jobs of the JobQueue. Whatever blocks
(RouterOS commands, SQLite, files) is run by `run_blocking` in a pool of 15 threads
(`utils/async_blocking.py:17`). So handlers and jobs interleave at awaits, and the code under `core/` runs on
several threads at once.

| Component | State | Operations | Hard behaviour |
|---|---|---|---|
| Connection pool `core/connection_pool.py` | queue of idle connections and counter per router, one health-check worker | get, release (whole or broken), reconnect, close one router, close all | threads between critical sections, health checks that time out or find nothing, failing connects, shutdown |
| Circuit breaker `core/circuit_breaker.py` | state, failure count, two timestamps, trial flag per router | before_request, on_success, on_failure, reset | late reports, trials that never report, reset window |
| Router command template `core/mikrotik_api.py` | write lock and last-call time per router | execute, execute_long, execute_non_blocking, check_connection_health | lock over retries and sleeps, throttle slots, one report per command |
| Watchdog `core/watchdog.py`, `bot/handlers/watchdog.py` | last known status, alert flag, health log | periodic check, forced refresh, start, stop, restore | two checks of a router at once, crash between two writes |
| Backup services `core/backup/` | files on the router, files on the host, file server | full, User Manager, download, clean-up, restore | retention, partial files, same-second names |
| Backup jobs `core/backup_scheduler.py`, `bot/handlers/backup.py` | running marks, jobs, stored schedule | manual jobs, daily jobs, start, stop, restore | check then set over awaits, overlapping jobs, restart |
| Router selection `bot/router_selector.py` | session row per user, `user_data`, reachability cache | select, expire, guard, clean-up | stale choices, expiry in mid-dialogue |
| Router flows `bot/handlers/router_flows/` | three dialogues with a state each, rows of `discovered_routers` | rename, add, log in, connect, delete, reboot | a text and the dialogue it belongs to, row ids used again |
| Restore dialogues `bot/handlers/backup_restore.py` | list, choice, path | list, select, confirm | list of one router, confirmation on another |
| Conversations `bot/handlers/hotspot_*.py`, `userman.py`, ... | one state, data of all dialogues | steps, back, skip, cancel, time-out | data that outlives its dialogue, buttons of old messages, dialogues that interrupt each other |
| Search screens `hotspot_search.py`, `userman_search.py` | result list, index of the open row | search, open, act, back | an index into a list that changed |
| Hotspot `core/hotspot_*.py` | users cache, users on the router | cards, edit, delete, search, blocking | lost replies, stale lists |
| User Manager `core/userman_manager.py` | users and profile links on the router | create, edit, delete, link | several commands, one of which fails |
| Caches `core/cache.py` | entries with expiry | get, set, invalidate | stale values |
| Roles, rate limit, deduplication `utils/` | role tables, last press | checks | windows |
| Chat cleaner `utils/chat_cleaner.py` | tracked messages, delayed jobs | track, delete, collect | jobs lost on restart |
| Repositories, discovery, reports, metrics, keyboards, migrations | tables, sockets, documents | reads and writes | none of their own |

How they interact: a handler or job calls a manager (`core/`), which calls `mikrotik_api.execute` in a worker
thread; that passes the write lock, the breaker, the rate limiter, and takes a connection from the pool. The
watchdog job goes the same way and is what keeps asking the breaker. Handlers, scheduled jobs and the watchdog
share the pool, the breaker and the database; handlers of one user share `user_data` and the session row.

What makes each correct:

- pool: a connection has one user; no slot and no socket is lost; queue and counter agree with the connections
  that exist;
- breaker: opens after the threshold of failures in a row, admits trials a reset window apart, never stays where
  it is while requests come;
- command template: writes to a router exclude each other, commands are spaced, the lock is returned, the breaker
  sees one request per command;
- watchdog: alerts alternate, the flag stands for an outage, the status settles on the truth;
- session and dialogues: what is confirmed is what was shown, on the router it was shown for;
- backups: one at a time per router, retention keeps pairs and bounds the files, the schedule is what the operator was told;
- routers: a new name goes to the router that was asked about;
- accounts and cards: a card is of an account its batch added, an account keeps its card, lists show what was
  confirmed.

## Modules

| Module | Models | Proofs |
|---|---|---|
| `ConnectionPool` | `core/connection_pool.py` | `ConnectionPoolProofs` |
| `ConnectionLease` | what the pool promises of each connection | |
| `MCConnectionPool` | symmetry for TLC | |
| `DroppedConnections` | the pool beside routers that close idle connections | |
| `CircuitBreaker` | `core/circuit_breaker.py` and its requests | `RouterCommandProofs` |
| `RouterCommand` | the template of `core/mikrotik_api.py`; extends `CircuitBreaker` with what a request does besides asking and reporting | `RouterCommandProofs` |
| `Watchdog` | `core/watchdog.py`, `bot/handlers/watchdog.py`, the health log | `WatchdogProofs` |
| `Backup` | `core/backup/`: full and User Manager backups of one router, their files | `BackupProofs` |
| `BackupSchedule` | buttons, marks and one-off jobs of `bot/handlers/backup.py`, the daily schedule | `BackupScheduleProofs` |
| `Dialogue` | what the dialogues share: `user_data`, `cleanup_state`, `navigation_guard`, replies that fail, handlers outside the conversation | |
| `HotspotAdd`, `HotspotDelete`, `HotspotEdit`, `HotspotCards`, `HotspotSearch` | the dialogue of each file `bot/handlers/hotspot_*.py` | |
| `UserManCards`, `UserManSearch` | `bot/handlers/userman.py`, `userman_search.py` | |
| `Screens` | the short dialogues: usage, print settings, card batches, time of the backup, statistics | |
| `Dialogues`, `MCDialogues` | all of them together, with the properties; symmetry for TLC | `DialoguesProofs` |
| `RouterSession` | saved routers, the session, clean-up, connecting, deleting, rebooting | |
| `RouterFlows`, `RestoreDialogues` | `bot/handlers/router_flows/`, `bot/handlers/backup_restore.py` | |
| `Routers`, `MCRouters` | the three together, with the properties; symmetry for TLC | `RoutersProofs` |
| `RouterUsers` | an account table of a router, the cached list, the running command | |
| `HotspotUsers`, `UserManagerUsers` | `core/hotspot_manager.py`, `core/userman_manager.py` and what their card handlers do with a batch | |
| `Accounts`, `MCAccounts` | both tables, with the properties; symmetry for TLC | `AccountsProofs` |

**ConnectionPool.** `pooled`, `idle`, `count` are `pools`, the queues and `active_counts`; `sock` is which
connections are open and to which router. A thread is at a `pc` between two critical sections of `self._lock`, or
in a blocking call: connecting, `q.get`, `future.result`. The outcome of a connect is a choice. The health check of
line 203 only creates librouteros' generator, which no one iterates: its job sends nothing and ends at once, so that a
check passes, or, when the worker is not scheduled in time, times out (`CheckPasses`, `CheckTimesOut`), and neither says
anything of the connection. `DroppedConnections` adds what it overlooks, a router that closed an idle connection, which
the pool itself cannot tell from an open one. `ConnectionLease` is the
abstract pool: a connection is closed, idle or lent, a lent one comes back or is closed, and none is opened once
the pool stopped serving. The lines of metrics, and the version and name caches the class also carries, are left
out.

**CircuitBreaker.** `breaker` is the record of the key's entries in the five dictionaries; `Attempt`, `Succeeded`,
`Failed` are `_can_attempt`, `on_success`, `on_failure` as functions of that record, so that `RouterCommand` can use
them. Timestamps appear as ages that saturate at `ResetTimeout`, which is the only value they are compared with.

**RouterCommand.** A caller goes through lock, breaker, throttle, attempt and conclusion; `Retry` is the way back
after `_RETRY_DELAYS` with the lock still held. `ahead` is `_last_api_call` relative to now: it is positive when
slots are booked in the future. `ImplementsBreaker` says that the template is a client the breaker was specified
for: it is the breaker's own `Spec`, over the variables both modules have.

**Watchdog.** A check is one coroutine: asks, writes its row, records the result, sends its alert; these are
separate steps because it awaits between them. A check made by a dialogue that connects or adds a router may stop
after its row. `latest` is which of `last_ok` and `last_fail` is later, the part of `_router_status` that survives
to the screen. `Crash` loses the memory. `Restart` is one of two: `main.py` registers `post_init`, which reloads the
statuses and starts the job, but starts the application by `initialize`, `start` and `start_polling`
(lines 122-124); in python-telegram-bot `post_init` belongs to `run_polling`, so that with this start nothing is
reloaded and the job waits for `/watchdog_start`. `RestartBare` is that start; `RestartLoaded` is the one for which
`core/watchdog.py` has `load_status_from_db`, and is kept so that the properties hold of that module however it is started.

**Backup.** A run is a thread in `full_backup` or `userman_backup`; a round of the daily job does the second and
then the first, a button's job one of them. `pc` is between two calls that reach the router or the file system.
`onRouter` holds the `.backup` and `.rsc` files by run and age, `umbs` and `local` the `.umb` files of router and
host by name, `staged` the uploads that the file server's thread wrote and `download_file_from_router` has not
moved yet. Ages come from a counter per place: the model takes the router's `creation-time` to be in a format the
code parses and to order the files. An upload keeps its time when it is moved. A save whose reply is lost has written its file (`FullFails`, `UsermanFails`);
every removal of a clean-up may fail. Clean-ups of the router's full backups are under the lock, and those of
`.umb` files remove the same oldest files in whatever order two runs interleave, which is why each is one step. They do
take the file of another run under way; `began` is history, when the host began to write a run's file (moved on by the
run's own later writes), so that `clock["host"] - began[r]` counts the files of others written since.
`local` starts empty or full. The host's copies of full backups have unique names and are never removed; they are
left out.

**BackupSchedule.** `mark` and `task` are `_BACKUP_LOCKS` and the one-off jobs of one router; `update` says what the
handler of the current update waits for, since jobs end during its awaits and other updates do not start. `daily`
is the jobs named `scheduled_backup`, `stored` the row of `backup_settings`, with the `or 3` of its readers in
`HourRead`. `Restart` starts with an empty job queue, as `main.py` does not have `restore` called (see Watchdog). `confirmed` is history: the last outcome the operator was told, `Unknown` after a request without an
answer. The job queue is taken to run what is due; a one-off job it drops as misfired would leave its mark.

**Dialogues.** One administrator and one `ConversationHandler`. `conv` is its state, `data` the keys of `user_data` the
dialogues leave to each other, `selected` whether the session names a router. The handlers of a state take a text or a
button; the model allows the buttons of old messages wherever the registration does. `Starts` is an entry point, which
as a fallback may interrupt another dialogue; `Outside` a handler registered before the conversation
(`utils/handler_registry.py:325`), which cleans the data and leaves the state. `RepliesOr` is a handler that stores and
then sends: the send may raise, and then the stored data stays, the state does not change and `error_handler` may clean
up. `given` is the set of answers stored since the dialogue began; values are not modelled. `profile_names` is whose
profiles the one list holds that the profile buttons of five dialogues index: each stores its own before it offers them
(`OffersProfiles`), a fetch that fails empties it, one without a selected router, as when the session expired after the
guard, leaves it as it was and offers nothing (`unlisted`), and `cleanup_state` keeps it (`PicksProfile` tells an answer
from a name of another dialogue's list). `screen` is history: the
account that the confirmation, the edit menu and the detail on the screen name, `Unsure` when the message that would
tell was not delivered or the list was replaced; `write` is the change the step asked of the router, `dialogue` whether
the data of the open dialogue was cleaned under it. Creating a batch is one step here; its parts are in `Accounts`.
Two administrators share nothing here but the router.

**Routers.** The three router dialogues are handlers of their own, so several may be open; `TakesText` is the order in
which they are registered. `saved` maps row ids to addresses; `NextId` is SQLite's choice without AUTOINCREMENT, which
gives the id of a deleted last row to the next router. A failed statement, a reply that raises and a router that does not
answer are choices. `OtherDialogue` is any other question: most clean `user_data` and withdraw the question for a name; the
search and sharing of batches, the fields of an account and the buttons back and skip do not (`Covers`), and their answer
becomes the name. `screen` is history as above: the router whose name is asked, the router whose backups are listed,
the backup a confirmation names. A restored backup loaded by the router is one step; so is the upload of its file.

**Accounts.** A behaviour is about one router's hotspot table or its User Manager table. `users` is the table, `last`
the last row id given, `users_cache` the cached list; a batch of cards goes through `at`: add, then for User Manager the
audit line, the profile link and its verification, then saving and sending in the order of each handler. Every write may be
executed and still raise (a lost reply whose repetitions are refused); on RouterOS 6 a reset of counters also takes the
profile links away (`Unlinks`). Every save and message may fail, others add, remove
and change rows between steps. `added`, `lost`, `everLinked`, `trouble` and `confirmed` are history: rows this batch
added, those whose reply was lost, names linked meanwhile, the calls that failed, what the bot was last told of a row.

## Runs

| Run | Bounds | Shows |
|---|---|---|
| `ConnectionPool` | 3 threads, 2 routers, 3 connections, limit 2 | lease, slots and sockets are kept through time-outs, failures, retries and shutdown |
| `CircuitBreaker` | 3 requests, threshold 3, window 3 ticks | opens at the threshold, spaces its trials, is never wedged |
| `RouterCommand` | 2 requests, 3 attempts, interval 1, threshold 2, window 2 | writes exclude each other, slots are spaced, the breaker is used as specified, the lock is returned |
| `Watchdog` | the job and one refresh of one router | alerts alternate, the flag means an outage, the status settles |
| `Backup` | 1 button's run, 1 round, 2 seconds, retention of 2 on the router and 1 on the host | what is reported as made or downloaded is there, or displaced by the other run's newer file; the lock is returned |
| `BackupSchedule` | 2 jobs, hours 0 and 4 | a mark stands for one job and is cleared; answers hold |
| `Dialogues` | 2 accounts, result lists of at most 2 | deletions, changes and creations are the ones the screen and the answers name |
| `Routers` | 2 rows, 2 addresses, 2 backup names, 2 dialogues open or lists kept | a name goes to the router asked about; what is restored was confirmed |
| `Accounts` | 2 names, 3 adds, batches of 2 | cards are of the batch's accounts and are kept; the list shows what was confirmed |
| `DroppedConnections` | 2 threads, 1 router, 3 connections, limit 2 | a connection the router closed passes the health check |
| `BackupScheduleRestart` | 1 job, hour 4 | after a restart no daily job is queued for the schedule on record |
| `RoutersCancelled` | as Routers | after /cancel the old confirmation still restores a User Manager backup |

The last three end in a counterexample: a document, comment or message of the repository says the property, the
code does otherwise. `PROJECT.json` quotes each.

Other disagreements met while modelling, which the models allow and no run singles out:

- `connection_pool.py:223`, `:292`, `:301`: a replacement, a retry at the limit and a failed reconnect let more connections
  be open than `MAX_CONNECTIONS_PER_ROUTER`, which `docs/adr/001_architectural_decisions.md:23` calls a limit.
- `mikrotik_api.py:372`: commands a router rejects count as failures and open its circuit, though
  `circuit_breaker.py:3` is about routers that are unreachable.
- `watchdog.py:231`: after a restart a router that is still offline is not announced, though the comment at
  `watchdog.py:237` says it will be.
- `backup_scheduler.py:403`, `:422`, `database/repositories/backups.py:36`: an hour of 0 is read as 3, so that a schedule
  for 00:00 is shown, and would be restored, as one for 03:00.
- `bot/helpers/profiles.py:88`: a question asked as the session expires offers no profile and keeps the list of the last
  dialogue; a button of an older message then takes a profile of that list for the new account.
- `separate_handlers.py:150`: a question that leaves `user_data` alone (`batch.py:79`, `:362`) does not end an open rename;
  the text meant for it renames the router.
- `backup/files.py:141`: the clean-up of a User Manager run removes the oldest files whoever writes them; a file may go
  between its download and the message that reports it.
- `backup/userman.py:100`: the clean-up after a failed run, described at `:26` as of a partial file, removes a complete
  download when the failing step is the clean-up of old files.
- `hotspot_search.py:382`: the button that enables or disables an account on the device screen kicks the device, as the
  handler does not look at which button was pressed.
- `mikrotik_api.py:645`: `_get_bot_host_for_router` looks for the key `ip`, while the column is `ip_address`.
- `router_selector.py:208`: a session time-out of 0, which the menu offers as unlimited (`bot/handlers/timeout.py:31`),
  becomes 15 minutes before the test whose comment at `:210` says that 0 means none.
- The buttons that reboot or delete a router carry only its row id, which may by then be another router's.
- `hotspot_edit.py:611`: when several accounts are listed, a text that refines the search is taken as the new value of the
  field chosen last, for the account chosen last.
- `bot/handlers/userman.py:384`: the file of a batch is sent before the batch is saved, so that a message Telegram refuses
  loses the cards of accounts that exist.

Why the bounds are enough. Pool: two routers show that no connection passes between them, and `close_all` closes
one while threads use the other; three threads at a limit of two give a holder, a waiter and a retry at the limit at once, and
three connections let one be above the limit (a run needs no fourth, as connections are recycled when nothing
refers to them). Breaker: threshold and window of three separate "below", "at" and "past"; a third request is the
late report beside a trial and the monitor. Command: all shared state is per router and pairwise; three attempts
are the code's. The bounds bind `Conns`, `Requests` and the ages; nothing else is cut off. Backup: two runs are
what can overlap on a router (a second button's run is refused by the mark, a second round by the job queue's
`max_instances`), each happens once and may name its file in the same second as the other or not; a router starts
without files or with an older pair, and retention, 5 and 10 in the code, is 2 on the router so that both runs' files
exceed it, and 1 on the host so that each run's clean-up may take the other's file. With it the `.rsc` clean-up follows the general one as in the code. `CHECK_DEADLOCK FALSE` is for runs that happen
once. Schedule: a second job is what a wrongly admitted press would queue; 0 is the hour that `or 3` changes and 4
stands for the others. Dialogues: a wrong account needs a second one, an index that moves a list of two; no other
counter is cut off. Routers: a reused id needs one row, a list of one router confirmed on another needs two; `MaxInProgress`
bounds how many of the dialogues and lists are live at once, as each property relates two of them. Accounts: two names
give a name taken by others and a repeated one, three adds a batch of two beside another's account, two cards an order.
Accounts, addresses, backup names and names of accounts are interchangeable, and the properties name none: the symmetry is
sound for safety, and these three runs check no liveness. `Dialogues` and `Routers` also use a VIEW that leaves out the
change a step asked for (`write`, `done`): no guard reads it, every action sets it anew, and the properties read it only in
the step that sets it, so that states which differ in it have the same futures.

**Fairness.** Liveness assumes: threads run (weak fairness of a caller's steps; a command returns because sockets
have time-outs, sleeps end because time passes), the watchdog job recurs while scheduled (`run_repeating`), and in
`StatusSettles` that the link stops changing, the bot stays up and the job scheduled. No fairness is assumed of users,
of the pool, or of a crash. A lock is *not* assumed to be granted: `AcquireLock` is fair only
in that a free lock is taken, and the liveness property is about its return. For backups, a run's steps are fair
because commands, transfers and connections have time-outs; for marks, jobs that are due run and the awaits of a
handler end; nobody has to press, ask or restart.

## Proofs

Proved with TLAPS, for every number of threads, routers, connections, requests, attempts, backup runs, jobs, accounts,
saved routers, addresses and backups, every threshold and window, and retention of at least two on the router, from the named assumptions of
the modules (finite sets of threads and connections, positive numbers, the absent values outside the sets):

| Theorem | Property |
|---|---|
| `TypeCorrect`, `PoolSafety`, `LeaseSafety`, `NoSlotLost`, `SocketsReachable`, `PoolIsLease` | `TypeOK`, `PoolSound`, `ExclusiveLease`, `NoPhantomSlot`, `NoLeakedSocket`, `ImplementsLease` of the pool |
| `BreakerTypeCorrect`, `OpensAtThreshold`, `TrialsSpaced` | `TypeOK`, `ClosedBelowThreshold`, `NoRetryStorm` of the breaker |
| `CommandTypeCorrect`, `WritesExclude`, `SlotsSpaced`, `CommandsUseBreaker` | `CommandTypeOK`, `WritesSerialised`, `SlotsApart`, `ImplementsBreaker` of the command template |
| `WatchdogTypeCorrect`, `FlagSound`, `AlertsTakeTurns` | `TypeOK`, `FlagMeansOutage`, `AlertsAlternate` of the watchdog |
| `BackupTypeCorrect`, `LockSound`, `PairsReported`, `DownloadsReported` | `TypeOK`, `LockHeldByRun`, `PairReported`, `DownloadReported` of the backups |
| `ScheduleTypeCorrect`, `OneJobPerMark`, `AnswersHold` | `TypeOK`, `MarkMeansJob`, `ConfirmedHolds` of the schedule |
| `DialoguesTypeCorrect`, `DeletionsConfirmed`, `EditsShown`, `SearchesShown`, `CreationsEntered` | `TypeOK`, `DeleteAsConfirmed`, `EditAsShown`, `SearchActsAsShown`, `CreatedAsEntered` of the dialogues |
| `RoutersTypeCorrect`, `NamesGoAsAsked`, `RestoresShown` | `TypeOK`, `RenamedAsAsked`, `RestoreAsShown` of the router flows and restores |
| `AccountsTypeCorrect`, `CardsSafe`, `CardsRetained`, `ListsCurrent` | `TypeOK`, `CardsAreOurs`, `CardsKept`, `OwnChangesShown` of the accounts |

These are all the safety properties that the passing runs check. Other theorems say what no run checks: a promise carried
from one module to the next, or how far a disagreement of the last three runs, or of the list under them, goes.

| Theorem | Says |
|---|---|
| `CommandsKeepBreaker` | `ClosedBelowThreshold` and `NoRetryStorm` hold of commands, by the refinement |
| `LateFailuresKeepWindow` | failures reported while the circuit is open do not postpone the next trial |
| `OvershootBounded` | the connections open to a router exceed `MAX_CONNECTIONS_PER_ROUTER` by at most the calls that hold one |
| `CancelStopsBackups` | after /cancel no backup of a router is restored; only the User Manager restore is left |
| `RowsKeepTheirRouter` | a row of `discovered_routers` is inserted or deleted, never overwritten with another address |
| `NoSilentChange` | while the bot runs, every change of a router's recorded status is announced; a restart's is not |
| `RetentionSparesNewest` | of a file that a clean-up takes, as many newer ones stay as are to be kept |

The inductive invariants. Pool: `LeaseInv` joins type, `PoolSound` and `ExclusiveLease`, because each release
needs that the connection it puts is in no queue, and each take that the queue holds open connections only;
`SlotInv` adds `Cleared` (after `close_all` no router is pooled), without which a late release would count.
`NoPhantomSlot` needs a count of the threads in the counted places; a lemma moves one thread in or out of that set
at a time. `NoLeakedSocket` rests on `PooledInv`: until `close_all` the router of every call is pooled, so that a release
puts its connection back or closes it. `PoolIsLease` follows one step of the code at a time what the lease of each
connection becomes (`leaseOf`): a step of a thread moves at most its own, into or out of its hands, and only one after
`close_all` loses any (`LateLoss`). `OpenBounded` maps each open connection that is not idle to the thread that holds
it, one to one. Breaker: `WindowAfterTrial` ties the age of the last failure to the time
since the last trial. Command: `Coherent` says who holds the lock, which request is outstanding and where; the refinement
of the breaker needs it to know that a request reports only what it asked. With the refinement proved the breaker's theorems
hold of commands, its `TypeOK` among them, which `CommandTypeOK` includes. Watchdog: `SaidAgrees` ties the last alert of the run to the
status, as the flag alone forgets what was announced before it was cleared. Backup: `PairInv` says, step by step
of a full run, that its `.backup`, then its pair, is newer than every other file of the router; it is kept because
the lock admits one such run (`LockHeldByRun`), and it spares the pair because a clean-up that keeps two removes
nothing with fewer than two newer files, a fact about cardinalities proved apart (`DoomedSpares`; `DoomedLeaves`
says what stays: above the newest of the doomed files there are only spared ones). `DownInv` follows a download from the
host's disk to the report, for any number of runs: no two files of the host have the same time (`Stamped`), no upload of a
run and no file it awaits is older than the run's first write (`Uploaded`, `Arrivals`), and a clean-up dooms a file only
with as many newer ones beside it as are kept (`DoomedIsOld`), all of them written since. Other runs do take files in that
way, so `DownloadReported` names that case; `began` is what lets it say that no other loss is possible. Schedule:
`Awaits` says what a waiting handler may rely on: no mark while a press is being answered, row and queue as asked
while an answer is. Accounts: `CardInv` adds that links are of taken names and that the names a batch still has to add
are apart from the cards made; `KeptInv` follows each added row through the steps of its command (`Covered`) and a batch
through its hand-over (`HandedOver`); `ListInv` says of the table what `OwnChangesShown` says of the list, as ids are not
used again (`IdsOnce`), and of the list whenever no batch of hotspot cards is adding, since that one invalidates at its end.
Dialogues: `ConfirmMatches`, `MenuMatches` and `DetailMatches` tie the key an action reads (`delete_user_id`, the edit
session, the index into a result list) to what the screen shows, the last one with the fact that an index is stored only
after a detail was shown, so that a replaced list makes the screen `Unsure` and not empty; `AnswersKept` says of each state
which answers it may rely on and, where the question offered any (`OffersOwn`), whose profiles the shared list holds. The edit session and the list of profiles outlive
`cleanup_state`, which is why these hold in every state and not only in the dialogue that writes them. Each handler keeps
the invariant by what it is built from: lemmas of the combinators of `Dialogue` (`Replies`, `Ends`, `Cleans`, `Starts`).
Routers: `RoutersInv` ties what a later step reads to what the screen says: `RenameAsked` the row the rename dialogue keeps,
which holds as whatever withdraws the question also takes that id from `user_data`, and what does not only covers it; `RestoreNamed`, `ListedSelected` and
`UsermanNamed` the name, the list and the path of a restore; `CancelCleans` what /cancel leaves. An insertion must not
overwrite the row a dialogue keeps: that the next id is of no row (`NextIdIsFree`) needs a greatest element of the
ids, which the library's theorem that strict inclusion is well founded on finite sets gives without induction over data
(`GreatestElement`).

Model-checked only: the liveness properties `NeverWedged`, `WriteLockReleased`, `StatusSettles`, `LockReleased`
and `MarkClears`, as fairness is outside the prover. The properties of the three runs that end in a counterexample are false.

## Plan

1. Done: pool, breaker, command template, watchdog, backups and their schedule, accounts and cards, the dialogues, router
   flows and restores, with the theorems above.
2. Done: proofs of the properties of `Routers`, and of what bounds the disagreements found.
3. Abstract specifications of the dialogues (a question, its answers, one write) and of the backups' retention, with the
   models shown to implement them.
4. Two administrators on one router, which share the cached list and the backup marks; roles in front of the handlers.

## Not modelled

The length of the session's time-out (a time-out is a step that may happen), the reachability cache (it only decides which
message is shown), the version and name caches, the expiry of the profile list's cache (the list may be stale by
minutes, as may the message). The host's copies of full backups and the log of backup results; the
status screen of the watchdog. Roles, rate limit and deduplication: filters in front of handlers, which the models pass.
The chat cleaner: which messages are on the screen decides nothing in the code; replies that fail are modelled.
`purge_expired_users` has no caller; expiry reports, statistics, audit screens, reports, PDF and charts, keyboards and
texts, logging and metrics, migrations and scripts only read or show: no state anything decides on. Network discovery:
socket probes without shared state. The single-instance lock is the kernel's `flock`. RouterOS itself, Telegram and SQLite
are external: a command, a message or a statement succeeds or fails as its caller can see it. The circuit breaker's `wrap`
and the `system/reboot` branch of `execute` have no caller.
