---------------------------- MODULE UserManCards ----------------------------
(***************************************************************************)
(* The dialogue that creates User Manager cards (bot/handlers/userman.py). *)
(***************************************************************************)
EXTENDS Dialogue

userman_cards_start == Starts("WAITING_CARD_TYPE", TRUE)

(* Without a profile on the router, or without a router, the dialogue ends.*)
userman_card_type_selected ==
    /\ At("WAITING_CARD_TYPE")
    /\ selected' \in BOOLEAN
    /\ \E d \in fetch_and_cache_profiles([data EXCEPT !.given = @ \cup {"card_type"}],
                                         selected', "userman") :
         \/ selected' /\ d.profile_names # "none" /\ Replies("WAITING_CARD_PROFILE", d)
         \/ /\ selected' => d.profile_names = "none"
            /\ \/ conv' = "END" /\ data' = Cleaned(d) /\ dialogue' = "intact"
               \/ error_handler(d)
            /\ UNCHANGED screen
    /\ Quiet

userman_card_profile_selected ==
    \/ PicksProfile("WAITING_CARD_PROFILE", "card_profile", "userman", "WAITING_CARD_PAYMENT")
    \/ Fails("WAITING_CARD_PROFILE")

userman_card_payment_selected ==
    Answer("WAITING_CARD_PAYMENT", "card_payment", "WAITING_CARD_TIMESTAMP")

(* "now", or the time is asked for in the same state.                      *)
userman_card_timestamp_selected ==
    \/ Answer("WAITING_CARD_TIMESTAMP", "card_timestamp", "WAITING_CARD_MAC")
    \/ make_back_step("WAITING_CARD_TIMESTAMP", "WAITING_CARD_TIMESTAMP")

userman_card_timestamp_custom ==
    Answer("WAITING_CARD_TIMESTAMP", "card_timestamp", "WAITING_CARD_MAC")

userman_card_mac_selected ==
    Answer("WAITING_CARD_MAC", "card_caller_id", "WAITING_CARD_PREFIX")

userman_card_prefix == Answer("WAITING_CARD_PREFIX", "card_prefix", "WAITING_CARD_COUNT")

userman_card_skip_prefix == userman_card_prefix

(* The count is the last answer.  create_cards answers no card when the    *)
(* type is missing; the batch is stored after the message and the file     *)
(* were sent, and only the router's errors are caught.                     *)
userman_card_count ==
    \/ /\ At("WAITING_CARD_COUNT")
       /\ "card_type" \in data.given
       /\ Calls("userman cards", NoUser)
       /\ End \/ error_handler(data)
       /\ UNCHANGED <<selected, screen>>
    \/ Fails("WAITING_CARD_COUNT")

userman_back_to_type == make_back_step("WAITING_CARD_PROFILE", "WAITING_CARD_TYPE")

userman_back_to_profile ==
    OffersProfiles("WAITING_CARD_PAYMENT", data, "userman", "WAITING_CARD_PROFILE")

userman_back_to_timestamp == make_back_step("WAITING_CARD_TIMESTAMP", "WAITING_CARD_TIMESTAMP")

userman_back_to_payment == make_back_step("WAITING_CARD_MAC", "WAITING_CARD_PAYMENT")

userman_back_to_mac == make_back_step("WAITING_CARD_PREFIX", "WAITING_CARD_MAC")

userman_back_to_prefix == make_back_step("WAITING_CARD_COUNT", "WAITING_CARD_PREFIX")

UserManCardsNext ==
    \/ userman_cards_start
    \/ userman_card_type_selected
    \/ userman_card_profile_selected
    \/ userman_card_payment_selected
    \/ userman_card_timestamp_selected \/ userman_card_timestamp_custom
    \/ userman_card_mac_selected
    \/ userman_card_prefix \/ userman_card_skip_prefix
    \/ userman_card_count
    \/ userman_back_to_type \/ userman_back_to_profile \/ userman_back_to_timestamp
    \/ userman_back_to_payment \/ userman_back_to_mac \/ userman_back_to_prefix

=============================================================================
