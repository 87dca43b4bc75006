------------------------------ MODULE Routers ------------------------------
(***************************************************************************)
(* The router dialogues and the restore dialogues over one session and one *)
(* user_data.                                                              *)
(***************************************************************************)
EXTENDS RouterFlows, RestoreDialogues

Next == SessionNext \/ FlowsNext \/ RestoreNext

Spec == Init /\ [][Next]_vars

-----------------------------------------------------------------------------
Questions == NameQuestions \cup {"none", "cancelled", "other", "manual", "disc"}

ScreenType == [asked : Questions,
               router : Addresses \cup {NoAddress},
               listed : Addresses \cup {NoAddress, Unsure},
               restore : Backups \cup {NoBackup, Unsure},
               userman : Backups \cup {NoBackup, Unsure}]

(* Row ids and addresses name the same routers: no two rows have one        *)
(* address.                                                                *)
TypeOK ==
    /\ saved \in [Ids -> Addresses \cup {NoAddress}]
    /\ \A i, j \in Saved : saved[i] = saved[j] => i = j
    /\ selected \in 0 .. MaxRouters
    /\ data \in UserData
    /\ open \in [rename : {"END", "WAITING_RENAME"},
                manual : ManualTexts \cup {"END", "WAITING_MANUAL_CONFIRM"},
                disc : {"END", "WAITING_DISC_USERNAME", "WAITING_DISC_PASSWORD"}]
    /\ screen \in ScreenType

(* A typed name is given only to the router that the last question for a   *)
(* name was about: with several dialogues open a text goes to the first of *)
(* them, not to the one that asked last, and a router deleted under the    *)
(* dialogue leaves its id to the next.  /cancel, /start, a menu and every  *)
(* dialogue that cleans user_data withdraw the question; one that does not *)
(* only covers it, and the text meant for that one becomes the name.       *)
RenamedAsAsked ==
    [][done'.op = "rename" => /\ screen.asked \in NameQuestions
                              /\ done'.router \in {screen.router, NoAddress}]_vars

(* A backup is restored only if the last confirmation named it, and a      *)
(* backup of a router on the router whose backups were listed last (the row*)
(* of which may be gone), unless another one was connected since.          *)
RestoreAsShown ==
    [][/\ done'.op = "restore" => /\ screen.restore \in {done'.backup, Unsure}
                                  /\ done'.router \in {screen.listed, NoAddress}
                                     \/ screen.listed = Unsure
       /\ done'.op = "userman_restore" => screen.userman \in {done'.backup, Unsure}]_vars

(* cleanup_state's docstring: conversation-specific user_data keys are     *)
(* cleared.  After /cancel nothing is then restored by the confirmation    *)
(* that stays in the chat.  The path of a User Manager backup is no such   *)
(* key.                                                                    *)
CancelledNotRestored ==
    [][done'.op \in {"restore", "userman_restore"} => screen.asked # "cancelled"]_vars

=============================================================================
