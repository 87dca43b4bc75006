---------------------------- MODULE MCDialogues ----------------------------
EXTENDS Dialogues, TLC

(* Nothing tells the accounts apart.                                       *)
Symmetry == Permutations(Users)

(* write is history that no step and no property reads but in the step that*)
(* sets it.                                                                *)
View == <<selected, conv, data, screen, dialogue>>

=============================================================================
