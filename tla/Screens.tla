------------------------------ MODULE Screens ------------------------------
(***************************************************************************)
(* The short dialogues of the main conversation: usage reports             *)
(* (bot/handlers/usage.py), print settings (settings.py), the search in    *)
(* card batches and the sharing of a card (batch.py), the time of the      *)
(* daily backup (backup.py) and the statistics (hotspot.py).               *)
(***************************************************************************)
EXTENDS Dialogue

(* "/usage name" and "/usage" with an empty result of cleaning.            *)
usage_start ==
    \/ Starts("WAITING_USAGE_QUERY", TRUE)
    \/ Guarded /\ End /\ Quiet /\ UNCHANGED <<selected, screen>>

(* None or several accounts: asked again; one, or an error: END with the   *)
(* data kept.                                                              *)
usage_query ==
    \/ make_back_step("WAITING_USAGE_QUERY", "WAITING_USAGE_QUERY")
    \/ Leaves("WAITING_USAGE_QUERY") /\ UNCHANGED selected

(* Matched outside the conversation, which its END therefore does not end. *)
usage_select_callback ==
    /\ Guarded
    /\ Calls("usage report", NoUser)
    /\ UNCHANGED <<selected, conv, data, screen, dialogue>>

-----------------------------------------------------------------------------
(* An entry point, and a button of its own state: the option is stored     *)
(* before it is prompted for.                                              *)
pdf_settings_option ==
    /\ Guarded
    /\ conv \in {"END", "WAITING_PDF_VALUE"}
    /\ RepliesOr("WAITING_PDF_VALUE", [Cleaned(data) EXCEPT !.pdf_option = "asked"],
                 [screen EXCEPT !.confirm = NoUser], screen)
    /\ Quiet
    /\ UNCHANGED selected

(* A value the option refuses is asked for again.  Without an option       *)
(* nothing is changed, though the reply says so.                           *)
pdf_settings_value ==
    \/ make_back_step("WAITING_PDF_VALUE", "WAITING_PDF_VALUE")
    \/ /\ At("WAITING_PDF_VALUE")
       /\ IF data.pdf_option = "none" THEN Quiet ELSE Calls("pdf setting", NoUser)
       /\ End \/ error_handler(data)
       /\ UNCHANGED <<selected, screen>>

pdf_toggle_qr ==
    /\ Guarded
    /\ Calls("pdf setting", NoUser)
    /\ UNCHANGED <<selected, conv, data, screen, dialogue>>

-----------------------------------------------------------------------------
(* Registered outside the conversation; cleanup_state.                     *)
batches_command == Guarded /\ Outside(Cleaned(data)) /\ UNCHANGED selected

(* No cleanup_state: the conversation is in the new state, user_data still *)
(* that of the dialogue before.                                            *)
batches_search_start ==
    /\ Guarded
    /\ Replies("WAITING_BATCHES_SEARCH", data)
    /\ Quiet
    /\ UNCHANGED selected

batches_search_query ==
    \/ make_back_step("WAITING_BATCHES_SEARCH", "WAITING_BATCHES_SEARCH")
    \/ Leaves("WAITING_BATCHES_SEARCH") /\ UNCHANGED selected

(* share_batch_id is read in no other state, and only an entry point leads *)
(* to this one: the batch is the one of the prompt.                        *)
share_card_start ==
    /\ conv = "END"
    /\ Guarded
    /\ Replies("WAITING_SHARE_RECIPIENT", data)
    /\ Quiet
    /\ UNCHANGED selected

(* Not a number: asked again.  The first card of the batch is sent; END    *)
(* whatever becomes of it, unless the reply raises.                        *)
share_card_send ==
    \/ make_back_step("WAITING_SHARE_RECIPIENT", "WAITING_SHARE_RECIPIENT")
    \/ Leaves("WAITING_SHARE_RECIPIENT") /\ UNCHANGED selected
    \/ /\ At("WAITING_SHARE_RECIPIENT")
       /\ Replies("END", data)
       /\ Calls("share card", NoUser)
       /\ UNCHANGED selected

mark_batch_paid_handler ==
    /\ Guarded
    /\ Calls("batch payment", NoUser)
    /\ UNCHANGED <<selected, conv, data, screen, dialogue>>

-----------------------------------------------------------------------------
schedule_enable == Starts("WAITING_SCHEDULE_TIME", TRUE)

schedule_set ==
    \/ make_back_step("WAITING_SCHEDULE_TIME", "WAITING_SCHEDULE_TIME")
    \/ Fails("WAITING_SCHEDULE_TIME")

(* Matched outside the conversation: WAITING_STATS_DAY is never entered.   *)
hotspot_stats == Guarded /\ Outside(Cleaned(data)) /\ UNCHANGED selected

ScreensNext ==
    \/ usage_start \/ usage_query \/ usage_select_callback
    \/ pdf_settings_option \/ pdf_settings_value \/ pdf_toggle_qr
    \/ batches_command
    \/ batches_search_start \/ batches_search_query
    \/ share_card_start \/ share_card_send \/ mark_batch_paid_handler
    \/ schedule_enable \/ schedule_set
    \/ hotspot_stats

=============================================================================
