---------------------------- MODULE HotspotUsers ----------------------------
(***************************************************************************)
(* HotspotManager (core/hotspot_manager.py) and the end of the dialogue    *)
(* that makes hotspot cards (bot/handlers/hotspot_cards.py): the batch is  *)
(* saved, then printed and sent.                                           *)
(***************************************************************************)
EXTENDS RouterUsers

(* One call and the invalidation of the list: an exception skips the       *)
(* invalidation, whether or not the router executed the call.              *)
InvalidatesOr(i, what) ==
    /\ IsHotspot /\ Idle
    /\ \/ users_cache' = NoList /\ Confirms(i, what)
       \/ Confirms(i, Unknown) /\ UNCHANGED users_cache
    /\ UNCHANGED <<table, command, added, lost, trouble>>

add_user ==
    \E n \in Names : Adds(n) /\ InvalidatesOr(last', New(n)) /\ UNCHANGED everLinked

(* edit_user, enable_user, disable_user.                                   *)
edit_user ==
    \E u \in users : \E v \in Changed(u) : Replaces(u, v) /\ InvalidatesOr(u.id, v)

(* Counters are not part of a row.                                         *)
reset_user_counters ==
    /\ IsHotspot /\ Idle
    /\ users_cache' = NoList
    /\ UNCHANGED <<table, router, command, history, confirmed>>

delete_user ==
    \E u \in users : Removes(u) /\ InvalidatesOr(u.id, Gone) /\ UNCHANGED everLinked

(* list_users, search_users and get_user.                                  *)
list_users == IsHotspot /\ ReadsList

-----------------------------------------------------------------------------
(* create_cards: the names of the (cached) list are taken; the names of    *)
(* the batch are made before the first add, fewer than asked for when the  *)
(* generator gives up.  A list that cannot be read ends the command.       *)
cards_prepare ==
    /\ IsHotspot
    /\ BatchBegins
    /\ users_cache' = AllUsers
    /\ \E names \in SUBSET (Names \ {u.name : u \in AllUsers}) :
         /\ Cardinality(names) <= MaxCount
         /\ existing' = names
    /\ at' = "add"
    /\ UNCHANGED <<table, router, name, uid, left, confirmed>>

(* Mutant: "already have user" is taken for the answer to a repetition of  *)
(* an add that was executed.                                               *)
CardWhenTaken(n) ==
    \/ /\ Adds(n)
       /\ added' = added \cup {New(n)}
       /\ cards' = Append(cards, Card(n, FALSE))
       /\ Confirms(last', New(n))
       /\ UNCHANGED lost
    \/ /\ n \in Taken
       /\ cards' = Append(cards, Card(n, FALSE))
       /\ UNCHANGED <<router, added, lost, confirmed>>
    \/ UNCHANGED <<router, added, lost, cards, confirmed>>

(* The add of one card: executed and answered, executed and the answer     *)
(* lost, which drops the card, or not executed.                            *)
AddsCard(n) ==
    \/ /\ Adds(n)
       /\ added' = added \cup {New(n)}
       /\ \/ cards' = Append(cards, Card(n, FALSE)) /\ Confirms(last', New(n)) /\ UNCHANGED lost
          \/ lost' = lost \cup {New(n)} /\ UNCHANGED <<cards, confirmed>>
    \/ UNCHANGED <<router, added, lost, cards, confirmed>>

cards_add ==
    /\ IsHotspot
    /\ at = "add"
    /\ \E n \in existing : AddsCard(n) /\ existing' = existing \ {n}
    /\ UNCHANGED <<table, users_cache, at, name, uid, left, kept, everLinked, trouble>>

(* Mutant: only a batch without errors invalidates the list.              *)
InvalidatesComplete == users_cache' = IF lost = {} THEN NoList ELSE users_cache

(* invalidate_users_cache.                                                 *)
invalidate_users_cache == users_cache' = NoList

(* The end of create_cards; without a card there is nothing to hand over.  *)
cards_made ==
    /\ IsHotspot
    /\ at = "add" /\ existing = {}
    /\ invalidate_users_cache
    /\ IF cards = <<>> THEN Ends ELSE GoesTo("save")
    /\ UNCHANGED <<table, router, cards, kept, history, confirmed>>

_create_cards_save == IsHotspot /\ at = "save" /\ SaveOr(GoesTo("send"))

_create_cards_send == IsHotspot /\ at = "send" /\ SendOr(Ends)

HotspotUsersNext ==
    \/ add_user \/ edit_user \/ reset_user_counters \/ delete_user \/ list_users
    \/ cards_prepare \/ cards_add \/ cards_made
    \/ _create_cards_save \/ _create_cards_send

=============================================================================
