----------------------------- MODULE HotspotAdd -----------------------------
(***************************************************************************)
(* The dialogue that adds a hotspot account (bot/handlers/hotspot_add.py   *)
(* and execute_add_user).  A success or a duplicate name leads back to the *)
(* first question, with the session of the last account still stored.      *)
(***************************************************************************)
EXTENDS Dialogue

hotspot_add_start == Starts("WAITING_USERNAME", TRUE)

(* A name that exists is asked again; user_exists raises: END.             *)
hotspot_add_username ==
    \/ /\ At("WAITING_USERNAME")
       /\ Replies("WAITING_PASSWORD", [data EXCEPT !.given = @ \cup {"username"}, !.named = TRUE])
       /\ Quiet
       /\ UNCHANGED selected
    \/ Fails("WAITING_USERNAME")

hotspot_add_password ==
    \/ OffersProfiles("WAITING_PASSWORD", [data EXCEPT !.given = @ \cup {"password"}],
                      "hotspot", "WAITING_PROFILE")
    \/ Fails("WAITING_PASSWORD")

skip_password == hotspot_add_password

hotspot_add_profile == Answer("WAITING_PROFILE", "profile", "WAITING_BYTES_TOTAL")

hotspot_add_profile_selected ==
    \/ PicksProfile("WAITING_PROFILE", "profile", "hotspot", "WAITING_BYTES_TOTAL")
    \/ Fails("WAITING_PROFILE")

hotspot_add_bytes == Answer("WAITING_BYTES_TOTAL", "bytes_total", "WAITING_UPTIME_TYPE")

skip_bytes == hotspot_add_bytes

(* hours and days ask for the number; skip_uptime matches uptime_type too. *)
hotspot_add_uptime_type ==
    \/ make_back_step("WAITING_UPTIME_TYPE", "WAITING_UPTIME_VALUE")
    \/ Answer("WAITING_UPTIME_TYPE", "uptime_value", "WAITING_COMMENT")

hotspot_add_uptime_value == Answer("WAITING_UPTIME_VALUE", "uptime_value", "WAITING_COMMENT")

skip_uptime == hotspot_add_uptime_value

add_back_to_username == make_back_step("WAITING_PASSWORD", "WAITING_USERNAME")

add_back_to_password == make_back_step("WAITING_PROFILE", "WAITING_PASSWORD")

add_back_to_profile ==
    \/ OffersProfiles("WAITING_BYTES_TOTAL", data, "hotspot", "WAITING_PROFILE")
    \/ Fails("WAITING_BYTES_TOTAL")

add_back_to_bytes == make_back_step("WAITING_UPTIME_VALUE", "WAITING_BYTES_TOTAL")

add_back_to_uptime_from_comment == make_back_step("WAITING_COMMENT", "WAITING_UPTIME_TYPE")

(* execute_add_user: without a username nothing is asked of the router.    *)
execute_add_user == data.named /\ Calls("add", NoUser)

(* The comment is the last answer: the account is added ...                *)
hotspot_add_comment ==
    \/ /\ At("WAITING_COMMENT")
       /\ execute_add_user
       /\ UNCHANGED <<selected, screen>>
       /\ \/ error_handler(data)          \* added, but the reply raises
          \/ conv' = "WAITING_USERNAME"   \* added, or the name exists and the session is dropped
             /\ \/ data' = [Cleaned(data) EXCEPT !.given = {}]
                \/ data' = [data EXCEPT !.given = {}, !.named = FALSE]
             /\ UNCHANGED dialogue
          \/ End                          \* the router failed
    \/ ~data.named /\ Fails("WAITING_COMMENT")
    \/ RouterGone("WAITING_COMMENT")

skip_comment == hotspot_add_comment

AddNext ==
    \/ hotspot_add_start
    \/ hotspot_add_username
    \/ hotspot_add_password \/ skip_password
    \/ hotspot_add_profile \/ hotspot_add_profile_selected
    \/ hotspot_add_bytes \/ skip_bytes
    \/ hotspot_add_uptime_type
    \/ hotspot_add_uptime_value \/ skip_uptime
    \/ add_back_to_username \/ add_back_to_password \/ add_back_to_profile
    \/ add_back_to_bytes \/ add_back_to_uptime_from_comment
    \/ hotspot_add_comment \/ skip_comment

=============================================================================
