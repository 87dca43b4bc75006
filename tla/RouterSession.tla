--------------------------- MODULE RouterSession ---------------------------
(***************************************************************************)
(* The saved routers and the session of one administrator that names one   *)
(* of them: selecting, connecting, deleting and rebooting, and the         *)
(* handlers that clean the data of a dialogue.  A router is known by the   *)
(* row id of its database row, in its key, in buttons and in user_data;    *)
(* the table has no AUTOINCREMENT, so the id of a deleted last row is      *)
(* given to the next router.                                               *)
(***************************************************************************)
EXTENDS Naturals, FiniteSets

CONSTANTS
    MaxRouters,     \* bound: rows of the table
    MaxInProgress,  \* bound: dialogues open and lists of backups kept at a time
    Addresses,      \* addresses of routers
    NoAddress,
    Backups,        \* names of backup files
    NoBackup,
    Unsure          \* the screen that would tell was not delivered

ASSUME MaxRoutersAssumption == MaxRouters \in Nat \ {0}

VARIABLES
    saved,          \* discovered_routers: row id -> address
    selected,       \* selected_router of the session, or 0
    open,           \* the states of the three router ConversationHandlers
    data,           \* context.user_data
    screen,         \* what the administrator was shown last (history)
    done            \* the change this step asked for (history)

vars == <<saved, selected, open, data, screen, done>>

Ids == 1 .. MaxRouters

UserData == [rename_router_id : 0 .. MaxRouters,
             manual_ip : Addresses \cup {NoAddress},
             disc_ip : Addresses \cup {NoAddress},
             restore_backup_list : BOOLEAN,
             restore_backup_name : Backups \cup {NoBackup},
             userman_restore_list : BOOLEAN,
             userman_restore_tar : Backups \cup {NoBackup},
             userman_restore_tar_path : Backups \cup {NoBackup}]

NoData == [rename_router_id |-> 0, manual_ip |-> NoAddress, disc_ip |-> NoAddress,
           restore_backup_list |-> FALSE, restore_backup_name |-> NoBackup,
           userman_restore_list |-> FALSE, userman_restore_tar |-> NoBackup,
           userman_restore_tar_path |-> NoBackup]

(* asked: the last question, or what put it away; "covered" is that for a  *)
(* new name below questions that left its data alone; router: the one whose*)
(* new name is asked; listed: the one whose backups are listed; restore and*)
(* userman: the backup that a confirmation names.                          *)
NoScreen == [asked |-> "none", router |-> NoAddress, listed |-> NoAddress,
             restore |-> NoBackup, userman |-> NoBackup]

Nothing == [op |-> "none"]

Init ==
    /\ saved = [id \in Ids |-> NoAddress]
    /\ selected = 0
    /\ open = [rename |-> "END", manual |-> "END", disc |-> "END"]
    /\ data = NoData
    /\ screen = NoScreen
    /\ done = Nothing

-----------------------------------------------------------------------------
Saved == {id \in Ids : saved[id] # NoAddress}

(* Mutant: a saved router is not found by its address.                     *)
FindsNone(a) == {}

get_router_by_ip(a) == {id \in Ids : saved[id] = a}

(* The id SQLite gives a row: one more than the largest in use.            *)
NextId == CHOOSE n \in 1 .. MaxRouters + 1 :
             /\ \A id \in Saved : id < n
             /\ n = 1 \/ n - 1 \in Saved

(* CONVERSATION_USER_DATA_KEYS lists neither the keys of the manual dialogue*)
(* nor the path of a User Manager backup.                                  *)
cleanup_state(d) == [NoData EXCEPT !.manual_ip = d.manual_ip,
                                   !.userman_restore_tar_path = d.userman_restore_tar_path]

(* What the bound counts.                                                  *)
InProgress ==
    Cardinality({flow \in DOMAIN open : open[flow] # "END"})
      + Cardinality({b \in {data.restore_backup_list} : b})
      + Cardinality({b \in {data.userman_restore_list} : b})

HasRoom == InProgress < MaxInProgress

(* navigation_guard around operational handlers.                           *)
Guarded == selected # 0

Quiet == done' = Nothing

(* The handler leaves d in user_data and shows what.  A confirmation whose *)
(* choice d does not keep can do nothing any more.                         *)
Shows(d, what) ==
    /\ data' = d
    /\ screen' = [IF d.restore_backup_list THEN screen ELSE [screen EXCEPT !.listed = NoAddress,
                                                                  !.restore = NoBackup]
                  EXCEPT !.asked = what, !.router = NoAddress]

(* An exception leaves the handler: the states stay, and error_handler     *)
(* cleans the data unless Telegram's answer is one of _NON_CRITICAL.       *)
error_handler(d) ==
    /\ UNCHANGED open
    /\ data' \in {d, cleanup_state(d)}

-----------------------------------------------------------------------------
(* The separate handlers are registered before all others: a fallback of   *)
(* the first open dialogue ends that dialogue and no other.                *)
FirstOpen == IF open.rename # "END" THEN "rename"
             ELSE IF open.manual # "END" THEN "manual"
             ELSE IF open.disc # "END" THEN "disc"
             ELSE "none"

Fallback(d, shown) ==
    /\ Shows(d, shown)
    /\ open' = [flow \in DOMAIN open |-> IF flow = FirstOpen THEN "END" ELSE open[flow]]
    /\ Quiet
    /\ UNCHANGED <<saved, selected>>

(* /cancel and the cancel_edit button.                                     *)
cancel == Fallback(cleanup_state(data), "cancelled")

go_back == Fallback(cleanup_state(data), "none")

(* /start: clear_router passes '', which save_user_session ignores.        *)
start == Fallback(IF selected # 0 THEN cleanup_state(data) ELSE NoData, "none")

(* The select_router button: the session keeps its router here too.        *)
select_router_callback ==
    /\ Shows(NoData, "none")
    /\ Quiet
    /\ UNCHANGED <<saved, selected, open>>

(* A question that leaves user_data alone covers that for a new name.      *)
NameQuestions == {"rename", "covered"}

Covers ==
    /\ screen' = [screen EXCEPT !.asked = IF @ \in NameQuestions THEN "covered" ELSE "other"]
    /\ UNCHANGED data

(* Another dialogue or menu: most entry points clean and ask; the searches *)
(* and shares of batches, the fields of an account, and the buttons back   *)
(* and skip of an open dialogue ask without cleaning.                      *)
OtherDialogue ==
    /\ Guarded
    /\ \/ Shows(cleanup_state(data), "other")
       \/ data' = cleanup_state(data) /\ UNCHANGED screen
       \/ Covers
    /\ Quiet
    /\ UNCHANGED <<saved, selected, open>>

(* The session times out; the next get_selected_router clears it.          *)
Expire ==
    /\ selected # 0
    /\ selected' = 0
    /\ Quiet
    /\ UNCHANGED <<saved, open, data, screen>>

(* conversation_timeout: the state is dropped, user_data is not.           *)
ConversationTimeout ==
    /\ \E flow \in DOMAIN open :
         open[flow] # "END" /\ open' = [open EXCEPT ![flow] = "END"]
    /\ Quiet
    /\ UNCHANGED <<saved, selected, data, screen>>

-----------------------------------------------------------------------------
(* What is selected after test_connection of the router of row id, which   *)
(* answers with its version and name or fails: the port is tried, then the *)
(* login and two questions, and no failure is raised.                      *)
test_connection(id) == {id, selected}

(* A router that answers is selected; what is on the screen stays.         *)
connect_router ==
    /\ \E id \in Saved \ {selected} : selected' \in test_connection(id)
    /\ screen' = IF selected' = selected THEN screen ELSE [screen EXCEPT !.listed = Unsure]
    /\ Quiet
    /\ UNCHANGED <<saved, open, data>>

(* The session and every key keep the id of the deleted row.               *)
delete_router_execute ==
    /\ \E id \in Saved :
         /\ saved' = [saved EXCEPT ![id] = NoAddress]
         /\ done' = [op |-> "delete", router |-> saved[id]]
    /\ UNCHANGED <<selected, open, data, screen>>

(* The key is in the button, also for a router that is gone.               *)
reboot_router_callback ==
    /\ \E id \in Saved : done' = [op |-> "reboot", router |-> saved[id]]
    /\ UNCHANGED <<saved, selected, open, data, screen>>

SessionNext ==
    \/ cancel \/ go_back \/ start \/ select_router_callback
    \/ OtherDialogue
    \/ Expire \/ ConversationTimeout
    \/ connect_router \/ delete_router_execute \/ reboot_router_callback

=============================================================================
