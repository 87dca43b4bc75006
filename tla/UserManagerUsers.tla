-------------------------- MODULE UserManagerUsers --------------------------
(***************************************************************************)
(* UserManager (core/userman_manager.py), whose accounts are made in three *)
(* calls (the account, its profile, the read-back), and the end of the     *)
(* dialogue that makes its cards (bot/handlers/userman.py): the file is    *)
(* sent, then the batch is saved.                                          *)
(***************************************************************************)
EXTENDS RouterUsers

(* create_cards: the taken names, none when they cannot be read.           *)
um_cards_begin ==
    /\ IsUserMan
    /\ BatchBegins
    /\ at' = "add"
    /\ existing' \in {Taken, {}}
    /\ left' \in 1 .. MaxCount
    /\ UNCHANGED <<table, router, users_cache, name, uid, confirmed>>

(* _create_user raises: the card is dropped, its name is not marked taken. *)
Dropped == at' = "add" /\ left' = left - 1 /\ name' = NoName /\ UNCHANGED <<uid, existing>>

(* _create_user returns.                                                   *)
Made(isLinked) ==
    /\ cards' = Append(cards, Card(name, isLinked))
    /\ existing' = existing \cup {name}
    /\ at' = "add" /\ left' = left - 1 /\ name' = NoName
    /\ UNCHANGED uid

(* Mutant: one card too many.                                              *)
CountedFromZero == left >= 0

(* for i in range(count).                                                  *)
CardsLeft == left > 0

(* The user/add of _create_user for a name that is not marked taken, and   *)
(* the invalidation of the list.  The last disjunct is also the generator  *)
(* that gives up.                                                          *)
um_card_add ==
    /\ IsUserMan
    /\ at = "add" /\ CardsLeft
    /\ \/ \E n \in Names \ existing :
            /\ Adds(n)
            /\ added' = added \cup {New(n)}
            /\ \/ /\ users_cache' = NoList
                  /\ Confirms(last', New(n))
                  /\ at' = "log" /\ name' = n
                  /\ UNCHANGED <<uid, left, existing, lost>>
               \/ Dropped /\ lost' = lost \cup {New(n)} /\ UNCHANGED <<users_cache, confirmed>>
       \/ Dropped /\ UNCHANGED <<router, users_cache, added, lost, confirmed>>
    /\ UNCHANGED <<table, cards, kept, everLinked, trouble>>

(* The audit line of the account; an error of the database drops the card. *)
um_card_log ==
    /\ IsUserMan
    /\ at = "log"
    /\ \/ GoesTo("attach") /\ UNCHANGED trouble
       \/ trouble' = trouble \cup {"log"} /\ Dropped
    /\ UNCHANGED <<table, router, users_cache, cards, kept, added, lost, everLinked, confirmed>>

(* The profile is linked, or silently is not, or an exception is answered, *)
(* whatever the router did.                                                *)
LinksOrNot ==
    \/ Links(name)
    \/ UNCHANGED <<router, everLinked>>

(* Mutant: a profile that cannot be linked fails the card.                 *)
LinkFailureRaises ==
    /\ at = "attach"
    /\ LinksOrNot
    /\ \/ at' = "verify" /\ UNCHANGED <<name, uid, left, existing>>
       \/ Dropped
    /\ UNCHANGED cards

_attach_profile ==
    /\ at = "attach"
    /\ LinksOrNot
    /\ \/ at' = "verify" /\ UNCHANGED <<name, uid, left, existing, cards>>
       \/ Made(FALSE)

um_card_attach ==
    /\ IsUserMan
    /\ _attach_profile
    /\ UNCHANGED <<table, users_cache, kept, added, lost, trouble, confirmed>>

(* The rows of user-profile are read and searched for the name.            *)
_verify_profile_link == \/ Made(name \in linked)
                        \/ Made(FALSE)

um_card_verify ==
    /\ IsUserMan
    /\ at = "verify"
    /\ _verify_profile_link
    /\ UNCHANGED <<table, router, users_cache, kept, history, confirmed>>

(* create_cards writes an audit line and returns; so does the handler,     *)
(* which then sends what it made, if anything.                             *)
um_cards_made ==
    /\ IsUserMan
    /\ at = "add" /\ left = 0
    /\ \/ /\ IF cards = <<>> THEN Ends ELSE GoesTo("send")
          /\ UNCHANGED trouble
       \/ Ends /\ trouble' = trouble \cup {"log"}
    /\ UNCHANGED <<table, router, users_cache, cards, kept, added, lost, everLinked, confirmed>>

um_cards_send == IsUserMan /\ at = "send" /\ SendOr(GoesTo("save"))

um_cards_save == IsUserMan /\ at = "save" /\ SaveOr(Ends)

-----------------------------------------------------------------------------
(* list_users, search_users and get_user.                                  *)
um_list_users == IsUserMan /\ ReadsList

(* _get_user_id: the filtered query, or, when it fails or finds nothing,   *)
(* the list, which may be cached.                                          *)
Found(rows, n) == {u.id : u \in {r \in rows : r.name = n}}

_get_user_id ==
    /\ IsUserMan /\ Idle
    /\ \E n \in Names :
         \/ /\ uid' \in Found(users, n)
            /\ UNCHANGED users_cache
         \/ /\ uid' \in Found(AllUsers, n)
            /\ users_cache' = AllUsers
    /\ at' = "change"
    /\ UNCHANGED <<table, router, name, left, existing, cards, kept, history, confirmed>>

(* The second call, for that .id: delete_user, enable_user, disable_user,  *)
(* or reset_user_counters, which before version 7 clears the profiles and  *)
(* since then counters only.  None of them invalidates the list.           *)
um_change ==
    /\ IsUserMan
    /\ at = "change"
    /\ \/ \E u \in users :
            u.id = uid /\ Removes(u) /\ Confirms(u.id, Unknown) /\ UNCHANGED everLinked
       \/ \E u \in users :
            u.id = uid /\ Replaces(u, [u EXCEPT !.disabled = ~ @]) /\ Confirms(u.id, Unknown)
       \/ \E u \in users :
            u.id = uid /\ Unlinks(u.name) /\ UNCHANGED <<everLinked, confirmed>>
       \/ UNCHANGED <<router, everLinked, confirmed>>
    /\ Ends
    /\ UNCHANGED <<table, users_cache, cards, kept, added, lost, trouble>>

(* add_profile_to_user links without making an account.                    *)
add_profile_to_user ==
    /\ IsUserMan /\ Idle
    /\ \E n \in Names : Links(n)
    /\ UNCHANGED <<table, users_cache, command, added, lost, trouble, confirmed>>

UserManagerUsersNext ==
    \/ um_cards_begin \/ um_card_add \/ um_card_log \/ um_card_attach \/ um_card_verify
    \/ um_cards_made \/ um_cards_send \/ um_cards_save
    \/ um_list_users \/ _get_user_id \/ um_change \/ add_profile_to_user

=============================================================================
