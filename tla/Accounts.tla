------------------------------ MODULE Accounts ------------------------------
(***************************************************************************)
(* The accounts of a router as the bot makes, lists and changes them, in   *)
(* the hotspot table and in the one of User Manager.                       *)
(***************************************************************************)
EXTENDS HotspotUsers, UserManagerUsers

Next == RouterNext \/ HotspotUsersNext \/ UserManagerUsersNext

Spec == Init /\ [][Next]_vars

(* Every card that is handed over is of an account this batch added (never *)
(* of one that others have under that name), no two are of the same name,  *)
(* and one that is reported as linked was linked (create_cards of both     *)
(* managers, _verify_profile_link).                                        *)
CardsAreOurs ==
    /\ \A i \in 1 .. Len(cards) :
         /\ \E a \in added : a.name = cards[i].name
         /\ cards[i].linked => cards[i].name \in everLinked
    /\ \A i, j \in 1 .. Len(cards) : i # j => cards[i].name # cards[j].name

HasCard(a) == \E i \in 1 .. Len(cards) : cards[i].name = a.name

(* When a batch is over, an account it added has a card that was saved or  *)
(* sent, unless the reply of its add was lost, or the calls that keep the  *)
(* batch failed: both of them for hotspot cards, which are saved before    *)
(* they are sent; one (the message, or the audit line) for User Manager    *)
(* cards.  A profile that cannot be linked never costs the card.           *)
CardsKept ==
    Idle => \A a \in added :
        \/ HasCard(a) /\ kept # {}
        \/ a \in lost
        \/ IsHotspot /\ {"save", "send"} \subseteq trouble
        \/ IsUserMan /\ trouble \cap {"log", "send"} # {}

(* Between commands, the list in the cache shows what the bot was last     *)
(* told about an account and nobody changed since: any change of a hotspot *)
(* account (edit_user, delete_user, add_user and create_cards invalidate), *)
(* the creation of a User Manager account (_create_user).                  *)
OwnChangesShown ==
    (Idle /\ users_cache # NoList) =>
        \A i \in Ids :
            /\ confirmed[i] = Gone => \A u \in users_cache : u.id # i
            /\ confirmed[i] \in Rows => confirmed[i] \in users_cache

=============================================================================
