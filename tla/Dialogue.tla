------------------------------ MODULE Dialogue ------------------------------
(***************************************************************************)
(* What every dialogue of the bot shares, for one administrator: the       *)
(* router of his session, the state of the main ConversationHandler, the   *)
(* part of user_data the dialogues keep, and the handlers that are         *)
(* registered outside the conversation and clean that data without ending  *)
(* it (utils/handler_registry.py adds the standalone handlers first).      *)
(***************************************************************************)
EXTENDS Naturals, Sequences

CONSTANTS
    Users,          \* accounts of the routers
    NoUser,
    Unsure,         \* the screen that would tell was not delivered
    NoList          \* no search result is kept

ASSUME ScreenAssumption == NoUser \notin Users \cup {Unsure}

VARIABLES
    selected,       \* get_selected_router answers a router
    conv,           \* state of the conversation, or "END"
    data,           \* context.user_data
    screen,         \* what the administrator was shown last (history)
    dialogue,       \* what became of the data of the open dialogue (history)
    write           \* the change this step asked of the router (history)

vars == <<selected, conv, data, screen, dialogue, write>>

AddFields == {"username", "password", "profile", "bytes_total", "uptime_value"}

HotspotCardFields == {"hs_card_count", "hs_card_length", "hs_card_prefix", "hs_card_price",
                      "hs_card_system", "hs_card_profile", "hs_card_uptime", "hs_card_bytes"}

UserManCardFields == {"card_type", "card_profile", "card_payment", "card_timestamp",
                      "card_caller_id", "card_prefix"}

(* The results of a search: at most two accounts, indexed from 1.          *)
Results == {<<>>} \cup {<<u>> : u \in Users}
             \cup {r \in Users \X Users : r[1] # r[2]}

(* get_user_data's keys by the dialogue that fills them.  given: the       *)
(* fields answered since the dialogue (or its account) began and still     *)
(* stored; named: hotspot_add_session has a username; editing and field:   *)
(* user_id and current_field of hotspot_edit_session; profile_names: whose *)
(* profiles the one list holds that the profile buttons of all dialogues   *)
(* index, "none" when it is empty; unlisted: the last question for a       *)
(* profile offered none, the list being left as it was (history).          *)
UserData == [given : SUBSET (AddFields \cup HotspotCardFields \cup UserManCardFields),
             named : BOOLEAN,
             editing : Users \cup {NoUser},
             field : BOOLEAN,
             delete_user_id : Users \cup {NoUser},
             search_hosts : Results \cup {NoList},
             kick_host_idx : 0 .. 2,
             search_um_hosts : Results \cup {NoList},
             kick_um_idx : 0 .. 2,
             add_profile_username : Users \cup {NoUser},
             pdf_option : {"none", "asked"},
             profile_names : {"none", "hotspot", "userman"},
             unlisted : BOOLEAN]

NoData == [given |-> {}, named |-> FALSE, editing |-> NoUser, field |-> FALSE,
           delete_user_id |-> NoUser,
           search_hosts |-> NoList, kick_host_idx |-> 0,
           search_um_hosts |-> NoList, kick_um_idx |-> 0,
           add_profile_username |-> NoUser,
           pdf_option |-> "none",
           profile_names |-> "none", unlisted |-> FALSE]

NoScreen == [confirm |-> NoUser, menu |-> NoUser, detail |-> NoUser]

Nothing == [op |-> "none", user |-> NoUser]

Init ==
    /\ selected = FALSE
    /\ conv = "END"
    /\ data = NoData
    /\ screen = NoScreen
    /\ dialogue = "intact"
    /\ write = Nothing

-----------------------------------------------------------------------------
(* CONVERSATION_USER_DATA_KEYS leaves out the keys of the add and the edit *)
(* session, of the price, and of the prefix and time stamp of User Manager *)
(* cards: they outlive the dialogue that set them.                         *)
OutlivesCleanup == AddFields \cup {"hs_card_price", "card_prefix", "card_timestamp"}

(* Mutant: the key of the account to delete is not in the list.            *)
KeysWithoutDelete == (HotspotCardFields \cup UserManCardFields
       \cup {"search_hosts", "kick_host_idx",
             "search_um_hosts", "kick_um_idx", "add_profile_username", "pdf_option"}) \ OutlivesCleanup

CONVERSATION_USER_DATA_KEYS ==
    (HotspotCardFields \cup UserManCardFields
       \cup {"delete_user_id", "search_hosts", "kick_host_idx",
             "search_um_hosts", "kick_um_idx", "add_profile_username", "pdf_option"}) \ OutlivesCleanup

(* Mutant: the key is set to None instead of popped.                       *)
PoppedToNone(d, key) == IF key \in CONVERSATION_USER_DATA_KEYS THEN NoUser ELSE d[key]

Popped(d, key) == IF key \in CONVERSATION_USER_DATA_KEYS THEN NoData[key] ELSE d[key]

(* cleanup_state.                                                          *)
Cleaned(d) ==
    [d EXCEPT !.given = @ \ CONVERSATION_USER_DATA_KEYS,
              !.delete_user_id = Popped(d, "delete_user_id"),
              !.search_hosts = Popped(d, "search_hosts"),
              !.kick_host_idx = Popped(d, "kick_host_idx"),
              !.search_um_hosts = Popped(d, "search_um_hosts"),
              !.kick_um_idx = Popped(d, "kick_um_idx"),
              !.add_profile_username = Popped(d, "add_profile_username"),
              !.pdf_option = Popped(d, "pdf_option")]

(* navigation_guard: without a router the picker is shown instead.         *)
Guarded == selected

At(s) == conv = s /\ Guarded

Shown(kind, u) == [screen EXCEPT ![kind] = u]

(* The data of a dialogue that is still open was cleaned.                  *)
CleanedUnder == dialogue' = IF conv = "END" THEN dialogue ELSE "cleaned"

(* An exception leaves the handler: the conversation stays where it is,    *)
(* and error_handler cleans the data unless Telegram's answer is one of    *)
(* _NON_CRITICAL.                                                          *)
error_handler(d) ==
    /\ UNCHANGED conv
    /\ \/ data' = d /\ UNCHANGED dialogue
       \/ data' = Cleaned(d) /\ CleanedUnder

(* The handler stores d and replies: the message for state to is shown,    *)
(* which puts s on the screen, or sending it raises, and the screen is     *)
(* unsureScreen.                                                           *)
RepliesOr(to, d, s, unsureScreen) ==
    \/ conv' = to /\ data' = d /\ screen' = s /\ UNCHANGED dialogue
    \/ error_handler(d) /\ screen' = unsureScreen

Replies(to, d) == RepliesOr(to, d, screen, screen)

(* cleanup_state and ConversationHandler.END.                              *)
End == conv' = "END" /\ data' = Cleaned(data) /\ dialogue' = "intact"

Quiet == write' = Nothing

Calls(op, u) == write' = [op |-> op, user |-> u]

(* ConversationHandler.END without cleanup_state.                          *)
Leaves(s) ==
    /\ At(s)
    /\ conv' = "END"
    /\ dialogue' = "intact"
    /\ Quiet
    /\ UNCHANGED <<data, screen>>

(* The router, the database or the input refuses: the dialogue is over.    *)
Fails(s) == At(s) /\ End /\ Quiet /\ UNCHANGED <<selected, screen>>

(* get_selected_router expires the session between the guard and the       *)
(* handler, which ends the dialogue.                                       *)
RouterGone(s) == At(s) /\ selected' = FALSE /\ End /\ Quiet /\ UNCHANGED screen

(* A text or a button in state s sets key and asks the next question.      *)
Answer(s, key, to) ==
    /\ At(s)
    /\ Replies(to, [data EXCEPT !.given = @ \cup {key}])
    /\ Quiet
    /\ UNCHANGED selected

(* A button that shows another question and stores nothing (make_back_step).*)
make_back_step(s, to) == At(s) /\ Replies(to, data) /\ Quiet /\ UNCHANGED selected

(* The names of one kind of profile, or none when they cannot be read.     *)
get_profiles == {"hotspot", "none"}

get_userman_profiles == {"userman", "none"}

fetch_profiles(source) == IF source = "userman" THEN get_userman_profiles ELSE get_profiles

(* Mutant: only a list that is not empty is stored.                        *)
CachedIfAny(d, router, source) ==
    IF router
      THEN {[d EXCEPT !.unlisted = FALSE], [d EXCEPT !.profile_names = source, !.unlisted = FALSE]}
      ELSE {[d EXCEPT !.unlisted = TRUE]}

(* The list replaces that of any other dialogue, whether or not the        *)
(* keyboard made from it is shown.  Without a router no name is returned,  *)
(* and the old list stays.  cleanup_state keeps the list.                  *)
fetch_and_cache_profiles(d, router, source) ==
    IF router
      THEN {[d EXCEPT !.profile_names = names, !.unlisted = FALSE] :
              names \in fetch_profiles(source)}
      ELSE {[d EXCEPT !.unlisted = TRUE]}

(* In state s, d and the profiles of a source are stored, and state to     *)
(* offers them; get_selected_router may expire the session after the guard.*)
OffersProfiles(s, d, source, to) ==
    /\ At(s)
    /\ selected' \in BOOLEAN
    /\ \E offered \in fetch_and_cache_profiles(d, selected', source) : Replies(to, offered)
    /\ Quiet

(* The name at the index of the button; None without a list.               *)
resolve_profile_from_callback == data.profile_names # "none"

(* A profile button sets key: an answer to the question if the list is of  *)
(* the profiles it offered.  A question that offered none is answered by a *)
(* button of an older message, with whatever the list holds.               *)
PicksProfile(s, key, source, to) ==
    /\ At(s)
    /\ resolve_profile_from_callback
    /\ Replies(to, [data EXCEPT !.given = IF data.profile_names = source \/ data.unlisted
                                           THEN @ \cup {key} ELSE @ \ {key}])
    /\ Quiet
    /\ UNCHANGED selected

(* Another page of the accounts found last.                                *)
handle_page_callback(s) == make_back_step(s, s)

(* An entry point, or a fallback of the same button: cleanup_state and the *)
(* first question.  asFallback: it may interrupt another dialogue, which   *)
(* goes on without its data when the first question cannot be shown.       *)
Starts(to, asFallback) ==
    /\ Guarded
    /\ conv = "END" \/ asFallback
    /\ LET d == [Cleaned(data) EXCEPT !.given = {}, !.unlisted = FALSE] IN
         \/ /\ conv' = to /\ data' = d
            /\ screen' = [NoScreen EXCEPT !.menu = screen.menu]
            /\ dialogue' = "intact"
         \/ /\ data' = Cleaned(data)
            /\ CleanedUnder
            /\ UNCHANGED <<conv, screen>>
    /\ Quiet
    /\ UNCHANGED selected

-----------------------------------------------------------------------------
(* Handlers registered outside the conversation, which stays in its state. *)
Outside(d) ==
    /\ data' = d
    /\ screen' = [screen EXCEPT !.confirm = NoUser]
    /\ CleanedUnder
    /\ Quiet
    /\ UNCHANGED conv

(* /cancel and the cancel button.                                          *)
cancel == Outside(Cleaned(data)) /\ UNCHANGED selected

go_back == Outside(Cleaned(data)) /\ UNCHANGED selected

(* /start and the select_router button: user_data.clear() without a router.*)
start == Outside(IF selected THEN Cleaned(data) ELSE NoData) /\ UNCHANGED selected

(* connect_router of the saved routers, successful: user_data is kept, and *)
(* what is on the screen may be an account of another router.              *)
connect_router ==
    /\ selected' = TRUE
    /\ screen' = [kind \in DOMAIN screen |-> IF screen[kind] = NoUser THEN NoUser ELSE Unsure]
    /\ Quiet
    /\ UNCHANGED <<conv, data, dialogue>>

(* The session times out; the next get_selected_router clears it.          *)
Expire ==
    /\ selected
    /\ selected' = FALSE
    /\ Quiet
    /\ UNCHANGED <<conv, data, screen, dialogue>>

(* conversation_timeout: the state is dropped, user_data is not.           *)
ConversationTimeout ==
    /\ conv # "END"
    /\ conv' = "END"
    /\ dialogue' = "intact"
    /\ Quiet
    /\ UNCHANGED <<selected, data, screen>>

(* A handler raises before it changed anything.                            *)
HandlerRaises ==
    /\ conv # "END"
    /\ error_handler(data)
    /\ Quiet
    /\ UNCHANGED <<selected, screen>>

BaseNext ==
    \/ cancel \/ go_back \/ start
    \/ connect_router \/ Expire
    \/ ConversationTimeout
    \/ HandlerRaises

=============================================================================
