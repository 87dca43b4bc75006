---------------------------- MODULE HotspotEdit ----------------------------
(***************************************************************************)
(* The dialogue that edits a hotspot account (bot/handlers/hotspot_edit.py *)
(* and search_users_for_action of hotspot_common.py).  Its session is not  *)
(* among the keys that cleanup_state pops: account and field survive.      *)
(***************************************************************************)
EXTENDS Dialogue

hotspot_edit_start == Starts("WAITING_EDIT_FIELD", TRUE)

(* The account becomes the one of the session before its menu is shown.    *)
ShowsMenu(s, u) ==
    /\ At(s)
    /\ RepliesOr("WAITING_EDIT_VALUE", [data EXCEPT !.editing = u],
                 Shown("menu", u), Shown("menu", Unsure))
    /\ Quiet
    /\ UNCHANGED selected

(* Mutant: the first of several results is taken for the account.          *)
ListsFirstChosen ==
    /\ At("WAITING_EDIT_FIELD")
    /\ \E u \in Users : Replies("WAITING_EDIT_VALUE", [data EXCEPT !.editing = u])
    /\ Quiet
    /\ UNCHANGED selected

(* Several results are listed in the state that also awaits the value, and *)
(* the session keeps the account and the field it had.                     *)
ListsResults == make_back_step("WAITING_EDIT_FIELD", "WAITING_EDIT_VALUE")

hotspot_edit_search ==
    \/ \E u \in Users : ShowsMenu("WAITING_EDIT_FIELD", u)
    \/ ListsResults
    \/ Fails("WAITING_EDIT_FIELD")
    \/ RouterGone("WAITING_EDIT_FIELD")

hotspot_edit_select(u) ==
    \/ ShowsMenu("WAITING_EDIT_VALUE", u)
    \/ Fails("WAITING_EDIT_VALUE")

(* A change of the account of the session; its menu, or an error with the  *)
(* keyboard of the menu, is shown again.                                   *)
Changes(op) ==
    /\ At("WAITING_EDIT_VALUE")
    /\ data.editing # NoUser
    /\ RepliesOr("WAITING_EDIT_VALUE", data, Shown("menu", data.editing), screen)
    /\ Calls(op, data.editing)
    /\ UNCHANGED selected

(* No account in the session, or it is gone: END.                          *)
NotEditable == Fails("WAITING_EDIT_VALUE") \/ RouterGone("WAITING_EDIT_VALUE")

hotspot_edit_reset == Changes("reset") \/ NotEditable

(* The sessions of the account are removed, then the devices with its name *)
(* or the addresses of those sessions; there may be none.                  *)
kick_user(u) == Quiet \/ Calls("kick", u)

hotspot_edit_kick ==
    \/ /\ At("WAITING_EDIT_VALUE")
       /\ data.editing # NoUser
       /\ RepliesOr("WAITING_EDIT_VALUE", data, Shown("menu", data.editing), screen)
       /\ kick_user(data.editing)
       /\ UNCHANGED selected
    \/ data.editing = NoUser /\ make_back_step("WAITING_EDIT_VALUE", "WAITING_EDIT_VALUE")

(* toggle_disabled acts at once, the profiles are offered as buttons, any  *)
(* other field is prompted for.  current_field is stored in each case,     *)
(* whichever account the button was shown for.                             *)
hotspot_edit_field ==
    \/ /\ At("WAITING_EDIT_VALUE")
       /\ Replies("WAITING_EDIT_VALUE", [data EXCEPT !.field = TRUE])
       /\ \/ Quiet
          \/ data.editing # NoUser /\ Calls("toggle", data.editing)
       /\ UNCHANGED selected
    \/ OffersProfiles("WAITING_EDIT_VALUE", [data EXCEPT !.field = TRUE], "hotspot",
                      "WAITING_EDIT_VALUE")
    \/ NotEditable

(* A button of an old message may index the list of another dialogue.      *)
edit_profile_selected ==
    \/ resolve_profile_from_callback /\ Changes("profile")
    \/ ~resolve_profile_from_callback /\ make_back_step("WAITING_EDIT_VALUE", "WAITING_EDIT_VALUE")
    \/ NotEditable

edit_back_to_fields ==
    /\ At("WAITING_EDIT_VALUE")
    /\ IF data.editing # NoUser
         THEN RepliesOr("WAITING_EDIT_VALUE", data, Shown("menu", data.editing), screen)
         ELSE Replies("WAITING_EDIT_FIELD", data)
    /\ Quiet
    /\ UNCHANGED selected

edit_back_search == make_back_step("WAITING_EDIT_VALUE", "WAITING_EDIT_FIELD")

(* A value that is not valid, or a name that is taken, is asked for again. *)
_validate_edit_field == make_back_step("WAITING_EDIT_VALUE", "WAITING_EDIT_VALUE")

(* A text in WAITING_EDIT_VALUE is the value of the current field.         *)
hotspot_edit_value ==
    \/ data.field /\ data.editing # NoUser /\ _validate_edit_field
    \/ data.field /\ Changes("edit")
    \/ NotEditable

EditNext ==
    \/ hotspot_edit_start
    \/ hotspot_edit_search
    \/ \E u \in Users : hotspot_edit_select(u)
    \/ hotspot_edit_reset
    \/ hotspot_edit_kick
    \/ hotspot_edit_field
    \/ edit_profile_selected
    \/ edit_back_to_fields
    \/ edit_back_search
    \/ hotspot_edit_value
    \/ handle_page_callback("WAITING_EDIT_VALUE")

=============================================================================
