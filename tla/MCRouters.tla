----------------------------- MODULE MCRouters -----------------------------
EXTENDS Routers, TLC

(* Nothing tells the addresses or the names of backups apart.              *)
Symmetry == Permutations(Addresses) \cup Permutations(Backups)

(* done is history that no step and no property reads but in the step that *)
(* sets it.                                                                *)
View == <<saved, selected, open, data, screen>>

=============================================================================
