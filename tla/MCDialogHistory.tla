--------------------------- MODULE MCDialogHistory ---------------------------
(***************************************************************************)
(* DialogHistory on small instances.                                       *)
(***************************************************************************)
EXTENDS DialogHistory

AllOps == {"create", "close", "abort", "remove", "text", "contact"}
AllFaults == {"send", "channel", "restart"}
=============================================================================
