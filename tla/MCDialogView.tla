----------------------------- MODULE MCDialogView -----------------------------
(* DialogView on a small instance. *)
EXTENDS DialogView, TLC

DialogSymmetry == Permutations(Dialogs)
=============================================================================
