--------------------------- MODULE HotspotDelete ---------------------------
(***************************************************************************)
(* The dialogue that deletes a hotspot account                             *)
(* (bot/handlers/hotspot_delete.py and its part of hotspot_common.py).     *)
(***************************************************************************)
EXTENDS Dialogue

hotspot_delete_start == Starts("WAITING_DELETE_ID", TRUE)

(* delete_user_id is stored before the confirmation is shown.              *)
AsksConfirmation(s, u) ==
    /\ At(s)
    /\ RepliesOr("WAITING_INPUT", [data EXCEPT !.delete_user_id = u],
                 Shown("confirm", u), screen)
    /\ Quiet
    /\ UNCHANGED selected

(* One result is confirmed at once, several are listed, none asks again.   *)
hotspot_delete_search ==
    \/ \E u \in Users : AsksConfirmation("WAITING_DELETE_ID", u)
    \/ make_back_step("WAITING_DELETE_ID", "WAITING_DELETE_SELECT")
    \/ Fails("WAITING_DELETE_ID")
    \/ RouterGone("WAITING_DELETE_ID")

(* Any list that is still in the chat names its accounts in its buttons.   *)
hotspot_delete_select(u) ==
    \/ AsksConfirmation("WAITING_DELETE_SELECT", u)
    \/ Fails("WAITING_DELETE_SELECT")

(* "yes": an account that is gone, or one whose existence could be checked *)
(* or not (ensure_hotspot_user_exists), which is deleted.                  *)
confirm_callback ==
    \/ /\ At("WAITING_INPUT")
       /\ data.delete_user_id # NoUser
       /\ Calls("delete", data.delete_user_id)
       /\ End \/ error_handler(data)
       /\ UNCHANGED <<selected, screen>>
    \/ Fails("WAITING_INPUT")
    \/ RouterGone("WAITING_INPUT")

DeleteNext ==
    \/ hotspot_delete_start
    \/ hotspot_delete_search
    \/ \E u \in Users : hotspot_delete_select(u)
    \/ confirm_callback
    \/ handle_page_callback("WAITING_DELETE_SELECT")

=============================================================================
