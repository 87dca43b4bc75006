-------------------------- MODULE RestoreDialogues --------------------------
(***************************************************************************)
(* Restoring a backup of the router, or a User Manager backup kept on the  *)
(* host: list, choose, confirm.  The handlers are buttons without a        *)
(* conversation, so those of old messages stay live.                       *)
(***************************************************************************)
EXTENDS RouterSession

(* A confirmation asks for a button, so a text still answers what it did.  *)
Uncancelled == IF screen.asked = "cancelled" THEN "none" ELSE screen.asked

(* d is stored and s shown; or showing it raises, and field is unsure.     *)
ShowsOr(s, field, d) ==
    \/ data' = d /\ screen' = s
    \/ /\ data' \in {d, cleanup_state(d)}
       /\ screen' = [screen EXCEPT !.asked = Uncancelled, ![field] = Unsure]

List(d) ==
    /\ Guarded /\ HasRoom
    /\ \/ ShowsOr([screen EXCEPT !.asked = "other", !.router = NoAddress,
                                 !.listed = IF selected \in Saved THEN saved[selected]
                                            ELSE Unsure],
                  "listed", d)
       \/ data' = cleanup_state(data) /\ UNCHANGED screen              \* none, or an error
    /\ Quiet
    /\ UNCHANGED <<saved, selected, open>>

backup_restore_start == List([cleanup_state(data) EXCEPT !.restore_backup_list = TRUE])

userman_restore_start == List([cleanup_state(data) EXCEPT !.userman_restore_list = TRUE])

(* The index is that of the button, the list the one kept: "" without one. *)
backup_restore_select ==
    /\ Guarded
    /\ \E name \in Backups \cup {NoBackup} :
         /\ name # NoBackup => data.restore_backup_list
         /\ ShowsOr([screen EXCEPT !.asked = Uncancelled, !.restore = name], "restore",
                    [data EXCEPT !.restore_backup_name = name])
    /\ Quiet
    /\ UNCHANGED <<saved, selected, open>>

(* Mutant: the path is kept when the index is not in the list.             *)
KeepsPath ==
    /\ Guarded
    /\ \E name \in Backups \cup {NoBackup} :
         /\ name # NoBackup => data.userman_restore_list
         /\ ShowsOr([screen EXCEPT !.asked = Uncancelled, !.userman = name], "userman",
                    [data EXCEPT !.userman_restore_tar = name,
                                 !.userman_restore_tar_path = IF name = NoBackup THEN @ ELSE name])
    /\ Quiet
    /\ UNCHANGED <<saved, selected, open>>

userman_restore_select ==
    /\ Guarded
    /\ \E name \in Backups \cup {NoBackup} :
         /\ name # NoBackup => data.userman_restore_list
         /\ ShowsOr([screen EXCEPT !.asked = Uncancelled, !.userman = name], "userman",
                    [data EXCEPT !.userman_restore_tar = name,
                                 !.userman_restore_tar_path = name])
    /\ Quiet
    /\ UNCHANGED <<saved, selected, open>>

(* A load or an import of the file, which the router may have executed     *)
(* whatever the reply; an empty name is refused, and an error may come     *)
(* before the command.                                                     *)
restore_backup(name) ==
    \/ Quiet
    \/ /\ name # NoBackup
       /\ done' = [op |-> "restore", backup |-> name, router |-> saved[selected]]

(* The file is staged on the host and the router told to fetch it.         *)
upload_file_to_router(path) == path # NoBackup

(* A file that is not there is refused, and is not loaded unless fetched.  *)
userman_restore(path) ==
    \/ Quiet
    \/ /\ upload_file_to_router(path)
       /\ done' = [op |-> "userman_restore", backup |-> path, router |-> saved[selected]]

(* What was chosen is kept, and may be restored again.                     *)
backup_restore_confirm ==
    /\ Guarded
    /\ restore_backup(data.restore_backup_name)
    /\ data' \in {data, cleanup_state(data)}
    /\ UNCHANGED <<saved, selected, open, screen>>

(* The path decides; the name helps only when there is no path.            *)
userman_restore_execute ==
    /\ Guarded
    /\ userman_restore(data.userman_restore_tar_path)
    /\ data' \in {data, cleanup_state(data)}
    /\ UNCHANGED <<saved, selected, open, screen>>

RestoreNext ==
    \/ backup_restore_start \/ backup_restore_select \/ backup_restore_confirm
    \/ userman_restore_start \/ userman_restore_select \/ userman_restore_execute

=============================================================================
