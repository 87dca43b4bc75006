----------------------------- MODULE Dialogues -----------------------------
(***************************************************************************)
(* The dialogues of the main conversation together: one state, one         *)
(* user_data, and buttons that interrupt one dialogue by another.          *)
(***************************************************************************)
EXTENDS HotspotAdd, HotspotDelete, HotspotEdit, HotspotSearch, HotspotCards,
        UserManCards, UserManSearch, Screens

Next ==
    \/ BaseNext
    \/ AddNext
    \/ DeleteNext
    \/ EditNext
    \/ SearchNext
    \/ HotspotCardsNext
    \/ UserManCardsNext
    \/ UserManSearchNext
    \/ ScreensNext

Spec == Init /\ [][Next]_vars

-----------------------------------------------------------------------------
States == {"END",
    "WAITING_USERNAME", "WAITING_PASSWORD", "WAITING_PROFILE", "WAITING_BYTES_TOTAL",
    "WAITING_UPTIME_TYPE", "WAITING_UPTIME_VALUE", "WAITING_COMMENT",
    "WAITING_DELETE_ID", "WAITING_DELETE_SELECT", "WAITING_INPUT",
    "WAITING_EDIT_FIELD", "WAITING_EDIT_VALUE",
    "WAITING_HOTSPOT_SEARCH", "WAITING_USERMAN_SEARCH",
    "WAITING_HOTSPOT_CARD_COUNT", "WAITING_HOTSPOT_CARD_LENGTH",
    "WAITING_HOTSPOT_CARD_PREFIX", "WAITING_HOTSPOT_CARD_PRICE",
    "WAITING_HOTSPOT_CARD_TYPE", "WAITING_HOTSPOT_CARD_PROFILE",
    "WAITING_HOTSPOT_CARD_UPTIME", "WAITING_HOTSPOT_CARD_BYTES",
    "WAITING_CARD_TYPE", "WAITING_CARD_PROFILE", "WAITING_CARD_PAYMENT",
    "WAITING_CARD_TIMESTAMP", "WAITING_CARD_MAC", "WAITING_CARD_PREFIX",
    "WAITING_CARD_COUNT",
    "WAITING_USAGE_QUERY", "WAITING_PDF_VALUE", "WAITING_BATCHES_SEARCH",
    "WAITING_SHARE_RECIPIENT", "WAITING_SCHEDULE_TIME"}

TypeOK ==
    /\ selected \in BOOLEAN
    /\ conv \in States
    /\ data \in UserData
    /\ screen \in [{"confirm", "menu", "detail"} -> Users \cup {NoUser, Unsure}]
    /\ dialogue \in {"intact", "cleaned"}
    /\ write.user \in Users \cup {NoUser}

(* An account is deleted only while the confirmation on the screen, not    *)
(* withdrawn by /cancel, /start, the back button or another dialogue, is   *)
(* the one of that account, or was asked on another router.                *)
DeleteAsConfirmed ==
    [][write'.op = "delete" => screen.confirm \in {write'.user, Unsure}]_vars

(* Every change of the edit dialogue goes to the account whose menu was    *)
(* shown last, though the session survives the dialogue, several results   *)
(* may be listed beside it and old menus stay in the chat.                 *)
EditAsShown ==
    [][write'.op \in {"reset", "kick", "toggle", "profile", "edit"} =>
         screen.menu \in {write'.user, Unsure}]_vars

(* An action of a search screen, whose buttons carry no account, goes to   *)
(* the account whose detail was shown last; deleting a row moves the others*)
(* under the stored index.  Unsure: the list was replaced since.           *)
SearchActsAsShown ==
    [][write'.op \in {"kick host", "um kick", "um reset", "um toggle", "um delete"} =>
         screen.detail \in {write'.user, Unsure}]_vars

(* An account or a batch of cards is created from answers to all of its    *)
(* questions, given since its dialogue (or the account before) ended,      *)
(* along every path of buttons back, skips, failures and interruptions; a  *)
(* profile button counts as an answer if the list it indexes, one for all  *)
(* dialogues, holds profiles of the kind that were offered.  Only a button *)
(* of an older message, pressed where the question offered no profile as   *)
(* the session had just expired, may take one of another dialogue's list.  *)
(* Cards whose dialogue had its data cleaned under it fall back on         *)
(* defaults; the session of an account outlives that.                      *)
CreatedAsEntered ==
    [][/\ write'.op = "add" => AddFields \subseteq data.given
       /\ write'.op = "hotspot cards" =>
            HotspotCardFields \ {"hs_card_bytes"} \subseteq data.given \/ dialogue # "intact"
       /\ write'.op = "userman cards" =>
            UserManCardFields \subseteq data.given \/ dialogue # "intact"]_vars

=============================================================================
