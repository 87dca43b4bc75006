--------------------------- MODULE UserManSearch ---------------------------
(***************************************************************************)
(* The search of User Manager accounts (bot/handlers/userman_search.py).   *)
(* Actions reach their account through kick_um_idx and search_um_hosts,    *)
(* and a deletion shortens that list under the index.                      *)
(***************************************************************************)
EXTENDS Dialogue, SequencesExt

S == "WAITING_USERMAN_SEARCH"

userman_search_start == Starts(S, FALSE)

RowsReplaced == [screen EXCEPT !.detail = IF @ = NoUser THEN NoUser ELSE Unsure]

userman_search_query ==
    \/ /\ At(S)
       /\ \E r \in Results :
            RepliesOr(S, [data EXCEPT !.search_um_hosts = r], RowsReplaced, RowsReplaced)
       /\ Quiet
       /\ UNCHANGED selected
    \/ RouterGone(S)

(* Another page of the list that is kept, or that none is.                 *)
userman_search_page_handler == make_back_step(S, S)

Rows == IF data.search_um_hosts = NoList THEN <<>> ELSE data.search_um_hosts

(* An index outside the list changes nothing.                              *)
userman_search_select(i) ==
    /\ At(S)
    /\ i <= Len(Rows)
    /\ RepliesOr(S, [data EXCEPT !.kick_um_idx = i],
                 Shown("detail", Rows[i]), Shown("detail", Unsure))
    /\ Quiet
    /\ UNCHANGED selected

Selected == data.kick_um_idx \in 1 .. Len(Rows)

Acts(op, d, s) ==
    /\ At(S)
    /\ Selected
    /\ Calls(op, Rows[data.kick_um_idx])
    /\ RepliesOr(S, d, s, screen)
    /\ UNCHANGED selected

(* Mutant: the index is kept, and means the next account.                  *)
DeleteRowKeepIndex ==
    Acts("um delete",
         [data EXCEPT !.search_um_hosts = RemoveAt(Rows, data.kick_um_idx)],
         Shown("detail", NoUser))

(* The row leaves the list and nothing is selected.                        *)
DeleteRow ==
    Acts("um delete",
         [data EXCEPT !.search_um_hosts = RemoveAt(Rows, data.kick_um_idx), !.kick_um_idx = 0],
         Shown("detail", NoUser))

(* _execute_um_action; the router may fail after a part of it.             *)
userman_search_action ==
    \/ \E op \in {"um kick", "um reset", "um toggle", "um delete"} : Acts(op, data, screen)
    \/ DeleteRow
    \/ (data.kick_um_idx = 0 \/ Rows = <<>>) /\ Fails(S)
    \/ RouterGone(S)

userman_search_back ==
    /\ At(S)
    /\ Replies(S, IF data.kick_um_idx # 0 /\ Rows # <<>>
                    THEN [data EXCEPT !.kick_um_idx = 0]
                    ELSE [data EXCEPT !.kick_um_idx = 0, !.search_um_hosts = NoList])
    /\ Quiet
    /\ UNCHANGED selected

userman_search_add_profile ==
    \/ /\ At(S)
       /\ Selected
       /\ Replies(S, [data EXCEPT !.add_profile_username = Rows[data.kick_um_idx]])
       /\ Quiet
       /\ UNCHANGED selected
    \/ (data.kick_um_idx = 0 \/ Rows = <<>>) /\ Leaves(S) /\ UNCHANGED selected
    \/ Leaves(S) /\ selected' = FALSE

(* The keys are popped after the reply, which edits a message.             *)
userman_search_add_profile_selected ==
    \/ /\ At(S)
       /\ data.add_profile_username # NoUser
       /\ Calls("um link", data.add_profile_username)
       /\ \/ /\ data' = [data EXCEPT !.add_profile_username = NoUser]
             /\ UNCHANGED <<conv, dialogue>>
          \/ error_handler(data)
       /\ UNCHANGED <<selected, screen>>
    \/ Leaves(S) /\ UNCHANGED selected       \* no account, or its list of profiles is empty
    \/ Leaves(S) /\ selected' = FALSE

UserManSearchNext ==
    \/ userman_search_start
    \/ userman_search_query
    \/ userman_search_page_handler
    \/ \E i \in 1 .. 2 : userman_search_select(i)
    \/ userman_search_action
    \/ userman_search_back
    \/ userman_search_add_profile
    \/ userman_search_add_profile_selected

=============================================================================
