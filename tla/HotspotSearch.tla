--------------------------- MODULE HotspotSearch ---------------------------
(***************************************************************************)
(* The search of connected devices (bot/handlers/hotspot_search.py): the   *)
(* results and the index of the one that is open are kept in user_data,    *)
(* and its buttons carry neither.                                          *)
(***************************************************************************)
EXTENDS Dialogue

hotspot_search_start == Starts("WAITING_HOTSPOT_SEARCH", TRUE)

(* Whatever the detail on the screen is of, the index now means another    *)
(* row.                                                                    *)
Requeried == [screen EXCEPT !.detail = IF @ = NoUser THEN NoUser ELSE Unsure]

(* By name, address, comment or all: what is found, <<>> when a search fails. *)
Found == Results

(* kick_host_idx is kept.                                                  *)
hotspot_search_query ==
    \/ /\ At("WAITING_HOTSPOT_SEARCH")
       /\ \E r \in Found :
            RepliesOr("WAITING_HOTSPOT_SEARCH", [data EXCEPT !.search_hosts = r],
                      Requeried, Requeried)
       /\ Quiet
       /\ UNCHANGED selected
    \/ RouterGone("WAITING_HOTSPOT_SEARCH")

Hosts == IF data.search_hosts = NoList THEN <<>> ELSE data.search_hosts

(* An index outside the list, or an exception: END.                        *)
hotspot_show_host(i) ==
    \/ /\ At("WAITING_HOTSPOT_SEARCH")
       /\ i <= Len(Hosts)
       /\ data' = [data EXCEPT !.kick_host_idx = i]
       /\ screen' = Shown("detail", Hosts[i])
       /\ Quiet
       /\ UNCHANGED <<selected, conv, dialogue>>
    \/ Fails("WAITING_HOTSPOT_SEARCH")

(* Another page of the list that is kept, or that none is.                 *)
hotspot_search_page_handler ==
    make_back_step("WAITING_HOTSPOT_SEARCH", "WAITING_HOTSPOT_SEARCH")

(* The device is looked up by its address and removed, if it is there.     *)
kick_host(u) == Quiet \/ Calls("kick host", u)

(* The buttons that kick and that enable or disable both lead here, and    *)
(* both kick.                                                              *)
hotspot_host_action ==
    \/ /\ At("WAITING_HOTSPOT_SEARCH")
       /\ data.kick_host_idx \in 1 .. Len(Hosts)
       /\ kick_host(Hosts[data.kick_host_idx])
       /\ End
       /\ UNCHANGED <<selected, screen>>
    \/ Fails("WAITING_HOTSPOT_SEARCH")
    \/ RouterGone("WAITING_HOTSPOT_SEARCH")

hotspot_search_back ==
    /\ At("WAITING_HOTSPOT_SEARCH")
    /\ Replies("WAITING_HOTSPOT_SEARCH",
               CASE data.search_hosts = NoList -> data
                 [] data.search_hosts # NoList /\ data.kick_host_idx # 0 ->
                      [data EXCEPT !.kick_host_idx = 0]
                 [] OTHER -> [data EXCEPT !.search_hosts = NoList])
    /\ Quiet
    /\ UNCHANGED selected

(* A row of the address list is added; one that cannot be is reported.     *)
block_mac == Quiet \/ Calls("block", NoUser)

(* The address is in the button.                                           *)
block_mac_handler ==
    \/ /\ At("WAITING_HOTSPOT_SEARCH")
       /\ block_mac
       /\ End \/ error_handler(data)
       /\ UNCHANGED <<selected, screen>>
    \/ Leaves("WAITING_HOTSPOT_SEARCH") /\ selected' = FALSE

(* The row is looked up and removed, if it is there.                       *)
unblock_mac == Quiet \/ Calls("unblock", NoUser)

(* Registered outside the conversation, which it therefore does not end.   *)
unblock_mac_handler ==
    /\ Guarded
    /\ unblock_mac
    /\ UNCHANGED <<selected, conv, data, screen, dialogue>>

show_blocked_list ==
    \/ make_back_step("WAITING_HOTSPOT_SEARCH", "WAITING_HOTSPOT_SEARCH")
    \/ Fails("WAITING_HOTSPOT_SEARCH")

SearchNext ==
    \/ hotspot_search_start
    \/ hotspot_search_query
    \/ \E i \in 1 .. 2 : hotspot_show_host(i)
    \/ hotspot_search_page_handler
    \/ hotspot_host_action
    \/ hotspot_search_back
    \/ block_mac_handler
    \/ unblock_mac_handler
    \/ show_blocked_list

=============================================================================
