---------------------------- MODULE RouterFlows ----------------------------
(***************************************************************************)
(* The three router dialogues, each a ConversationHandler of its own that  *)
(* is registered before the main one: renaming, adding by hand, and logging*)
(* in to a discovered router.  Several may be open; a text goes to the     *)
(* first of them that waits for one.                                       *)
(***************************************************************************)
EXTENDS RouterSession

(* WAITING_MANUAL_FIELD stands for the states of the port, the user and the *)
(* password.                                                               *)
ManualTexts == {"WAITING_MANUAL_IP", "WAITING_MANUAL_FIELD", "WAITING_MANUAL_ALIAS"}

(* Order of register_separate_conversation_handlers.                       *)
TakesText == IF open.rename = "WAITING_RENAME" THEN "rename"
             ELSE IF open.manual \in ManualTexts THEN "manual"
             ELSE IF open.disc # "END" THEN "disc"
             ELSE "main"

Text(flow, state) == TakesText = flow /\ open[flow] = state

Goes(flow, state) == open' = [open EXCEPT ![flow] = state]

(* cleanup_state and ConversationHandler.END.                              *)
Ends(flow) == Goes(flow, "END") /\ data' = cleanup_state(data)

(* The handler stores d, asks and waits in state; or sending raises.       *)
AsksIn(flow, state, d) ==
    \/ Goes(flow, state) /\ Shows(d, flow)
    \/ error_handler(d) /\ UNCHANGED screen

-----------------------------------------------------------------------------
(* An entry point: without allow_reentry it is dead while the dialogue is  *)
(* open.  The button may name a router deleted since.                      *)
rename_router_start ==
    /\ open.rename = "END" /\ HasRoom
    /\ \E id \in Ids :
         \/ /\ id \in Saved
            /\ LET d == [cleanup_state(data) EXCEPT !.rename_router_id = id] IN
                 \/ /\ data' = d
                    /\ Goes("rename", "WAITING_RENAME")
                    /\ screen' = [NoScreen EXCEPT !.asked = "rename", !.router = saved[id],
                                                !.userman = screen.userman]
                 \/ error_handler(d) /\ UNCHANGED screen
         \/ id \notin Saved /\ data' = NoData /\ UNCHANGED <<open, screen>>
         \/ data' = cleanup_state(data) /\ UNCHANGED <<open, screen>>   \* sqlite3.Error
    /\ Quiet
    /\ UNCHANGED <<saved, selected>>

(* Without an id the dialogue ends; an empty name is asked again.  The     *)
(* success is reported also when the row is gone.                          *)
rename_router_value ==
    /\ Text("rename", "WAITING_RENAME")
    /\ \/ /\ data.rename_router_id = 0
          /\ \/ data' = NoData /\ Goes("rename", "END")
             \/ error_handler(data)
          /\ Quiet
       \/ /\ data.rename_router_id # 0
          /\ data' = data /\ UNCHANGED open /\ Quiet                    \* empty
       \/ /\ data.rename_router_id # 0
          /\ Ends("rename") \/ error_handler(data)                      \* reply_final raises
          /\ done' = [op |-> "rename", router |-> saved[data.rename_router_id]]
       \/ /\ data.rename_router_id # 0
          /\ Ends("rename") /\ Quiet                                    \* sqlite3.Error
    /\ UNCHANGED <<saved, selected, screen>>

-----------------------------------------------------------------------------
(* Mutant: the data of an open dialogue is kept.                           *)
KeepsDataOfOthers ==
    /\ open.manual = "END" /\ HasRoom
    /\ AsksIn("manual", "WAITING_MANUAL_IP", data)
    /\ Quiet
    /\ UNCHANGED <<saved, selected>>

manual_add_start ==
    /\ open.manual = "END" /\ HasRoom
    /\ AsksIn("manual", "WAITING_MANUAL_IP", cleanup_state(data))
    /\ Quiet
    /\ UNCHANGED <<saved, selected>>

(* An invalid or a saved address is asked again.                           *)
manual_add_ip ==
    /\ Text("manual", "WAITING_MANUAL_IP")
    /\ \/ \E a \in Addresses :
            /\ get_router_by_ip(a) = {}
            /\ AsksIn("manual", "WAITING_MANUAL_FIELD", [data EXCEPT !.manual_ip = a])
       \/ AsksIn("manual", "WAITING_MANUAL_IP", data)
    /\ Quiet
    /\ UNCHANGED <<saved, selected>>

(* The port, the user and the password: each is stored and the next field  *)
(* asked, or an invalid one is asked again.                                *)
manual_add_field ==
    /\ Text("manual", "WAITING_MANUAL_FIELD")
    /\ \E s \in {"WAITING_MANUAL_FIELD", "WAITING_MANUAL_ALIAS"} : AsksIn("manual", s, data)
    /\ Quiet
    /\ UNCHANGED <<saved, selected>>

(* The summary names the address: KeyError once user_data was cleared.     *)
manual_add_alias ==
    /\ Text("manual", "WAITING_MANUAL_ALIAS")
    /\ \/ /\ data.manual_ip # NoAddress
          /\ AsksIn("manual", "WAITING_MANUAL_CONFIRM", data)
       \/ /\ data.manual_ip = NoAddress
          /\ error_handler(data)
          /\ UNCHANGED screen
    /\ Quiet
    /\ UNCHANGED <<saved, selected>>

(* The new row is kept also when the router does not answer; only an       *)
(* answer selects it.                                                      *)
Adds(id, a) ==
    /\ saved' = [saved EXCEPT ![id] = a]
    /\ selected' \in test_connection(id)
    /\ done' = [op |-> "add", router |-> a]

(* Cancelled, or refused: the column is UNIQUE and NOT NULL, and both are  *)
(* reported as a duplicate.                                                *)
manual_add_confirm ==
    /\ open.manual = "WAITING_MANUAL_CONFIRM"
    /\ Ends("manual")
    /\ \/ /\ data.manual_ip # NoAddress
          /\ get_router_by_ip(data.manual_ip) = {}
          /\ NextId <= MaxRouters
          /\ Adds(NextId, data.manual_ip)
       \/ Quiet /\ UNCHANGED <<saved, selected>>
    /\ UNCHANGED screen

-----------------------------------------------------------------------------
(* A known router is asked only for its password.                          *)
discovered_router_selected ==
    /\ open.disc = "END" /\ HasRoom
    /\ \E a \in Addresses :
         AsksIn("disc",
                IF get_router_by_ip(a) # {} THEN "WAITING_DISC_PASSWORD"
                ELSE "WAITING_DISC_USERNAME",
                [cleanup_state(data) EXCEPT !.disc_ip = a])
    /\ Quiet
    /\ UNCHANGED <<saved, selected>>

disc_enter_username ==
    /\ Text("disc", "WAITING_DISC_USERNAME")
    /\ AsksIn("disc", "WAITING_DISC_PASSWORD", data)
    /\ Quiet
    /\ UNCHANGED <<saved, selected>>

(* INSERT, or UPDATE on the conflict of an address that has a row.          *)
save_discovered_router(a) ==
    IF get_router_by_ip(a) = {} THEN NextId ELSE CHOOSE id \in get_router_by_ip(a) : TRUE

(* The router answers: its row gets the credentials, or it gets a row; and *)
(* it is selected, unless an exception ends the handler before.            *)
_process_discovered_connection(a) ==
    LET id == save_discovered_router(a) IN
       /\ id <= MaxRouters
       /\ saved' = [saved EXCEPT ![id] = a]
       /\ selected' \in {selected, id}
       /\ done' = [op |-> "credentials", router |-> a]

disc_enter_password ==
    /\ Text("disc", "WAITING_DISC_PASSWORD")
    /\ \/ data.disc_ip = NoAddress /\ Ends("disc") /\ Quiet /\ UNCHANGED <<saved, selected>>
       \/ /\ data.disc_ip # NoAddress
          /\ Ends("disc")
          /\ \/ _process_discovered_connection(data.disc_ip)
             \/ Quiet /\ UNCHANGED <<saved, selected>>                  \* login failure
       \/ error_handler(data) /\ Quiet /\ UNCHANGED <<saved, selected>> \* no status message
    /\ UNCHANGED screen

FlowsNext ==
    \/ rename_router_start \/ rename_router_value
    \/ manual_add_start \/ manual_add_ip \/ manual_add_field
    \/ manual_add_alias \/ manual_add_confirm
    \/ discovered_router_selected \/ disc_enter_username \/ disc_enter_password

=============================================================================
