---------------------------- MODULE HotspotCards ----------------------------
(***************************************************************************)
(* The dialogue that creates hotspot cards (bot/handlers/hotspot_cards.py).*)
(* A field the data does not hold when the last answer comes has a default,*)
(* so that nothing but the order of the states makes the batch the one     *)
(* that was described.                                                     *)
(***************************************************************************)
EXTENDS Dialogue

hotspot_cards_start == Starts("WAITING_HOTSPOT_CARD_COUNT", TRUE)

hotspot_cards_count ==
    Answer("WAITING_HOTSPOT_CARD_COUNT", "hs_card_count", "WAITING_HOTSPOT_CARD_LENGTH")

hotspot_cards_length ==
    Answer("WAITING_HOTSPOT_CARD_LENGTH", "hs_card_length", "WAITING_HOTSPOT_CARD_PREFIX")

hotspot_cards_prefix ==
    Answer("WAITING_HOTSPOT_CARD_PREFIX", "hs_card_prefix", "WAITING_HOTSPOT_CARD_PRICE")

hotspot_cards_skip_prefix == hotspot_cards_prefix

hotspot_cards_price ==
    Answer("WAITING_HOTSPOT_CARD_PRICE", "hs_card_price", "WAITING_HOTSPOT_CARD_TYPE")

hotspot_cards_skip_price == hotspot_cards_price

hotspot_cards_type_selected ==
    \/ OffersProfiles("WAITING_HOTSPOT_CARD_TYPE",
                      [data EXCEPT !.given = @ \cup {"hs_card_system"}],
                      "hotspot", "WAITING_HOTSPOT_CARD_PROFILE")
    \/ Fails("WAITING_HOTSPOT_CARD_TYPE")

hotspot_cards_profile_selected ==
    \/ PicksProfile("WAITING_HOTSPOT_CARD_PROFILE", "hs_card_profile", "hotspot",
                    "WAITING_HOTSPOT_CARD_UPTIME")
    \/ Fails("WAITING_HOTSPOT_CARD_PROFILE")

(* The unit; the number is asked for in the same state.                    *)
hotspot_cards_uptime_type ==
    make_back_step("WAITING_HOTSPOT_CARD_UPTIME", "WAITING_HOTSPOT_CARD_UPTIME")

(* "skip" of the keyboard of units, which stays at the question.           *)
hotspot_cards_skip_uptime_type ==
    Answer("WAITING_HOTSPOT_CARD_UPTIME", "hs_card_uptime", "WAITING_HOTSPOT_CARD_UPTIME")

hotspot_cards_uptime_value ==
    Answer("WAITING_HOTSPOT_CARD_UPTIME", "hs_card_uptime", "WAITING_HOTSPOT_CARD_BYTES")

hotspot_cards_skip_uptime == hotspot_cards_uptime_value

(* The cards are made, then stored as a batch, printed and sent; END unless*)
(* an exception that is not the router's leaves the handler.               *)
_create_cards(d) ==
    /\ Calls("hotspot cards", NoUser)
    /\ \/ conv' = "END" /\ data' = Cleaned(d) /\ dialogue' = "intact"
       \/ error_handler(d)
    /\ UNCHANGED <<selected, screen>>

hotspot_cards_bytes ==
    \/ /\ At("WAITING_HOTSPOT_CARD_BYTES")
       /\ _create_cards([data EXCEPT !.given = @ \cup {"hs_card_bytes"}])
    \/ RouterGone("WAITING_HOTSPOT_CARD_BYTES")

hotspot_cards_skip_bytes == hotspot_cards_bytes

hs_back_to_length == make_back_step("WAITING_HOTSPOT_CARD_PREFIX", "WAITING_HOTSPOT_CARD_LENGTH")

hs_back_to_prefix == make_back_step("WAITING_HOTSPOT_CARD_PRICE", "WAITING_HOTSPOT_CARD_PREFIX")

hs_back_to_type == make_back_step("WAITING_HOTSPOT_CARD_PROFILE", "WAITING_HOTSPOT_CARD_TYPE")

(* Registered in two states; the profiles are fetched again.               *)
hs_back_to_profile ==
    \E s \in {"WAITING_HOTSPOT_CARD_PROFILE", "WAITING_HOTSPOT_CARD_UPTIME"} :
        OffersProfiles(s, data, "hotspot", "WAITING_HOTSPOT_CARD_PROFILE") \/ Fails(s)

hs_back_to_uptime ==
    \E s \in {"WAITING_HOTSPOT_CARD_UPTIME", "WAITING_HOTSPOT_CARD_BYTES"} :
        make_back_step(s, "WAITING_HOTSPOT_CARD_UPTIME")

HotspotCardsNext ==
    \/ hotspot_cards_start
    \/ hotspot_cards_count
    \/ hotspot_cards_length
    \/ hotspot_cards_prefix \/ hotspot_cards_skip_prefix
    \/ hotspot_cards_price \/ hotspot_cards_skip_price
    \/ hotspot_cards_type_selected
    \/ hotspot_cards_profile_selected
    \/ hotspot_cards_uptime_type
    \/ hotspot_cards_skip_uptime_type
    \/ hotspot_cards_uptime_value \/ hotspot_cards_skip_uptime
    \/ hotspot_cards_bytes \/ hotspot_cards_skip_bytes
    \/ hs_back_to_length \/ hs_back_to_prefix \/ hs_back_to_type
    \/ hs_back_to_profile \/ hs_back_to_uptime

=============================================================================
