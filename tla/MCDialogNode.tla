---------------------------- MODULE MCDialogNode ----------------------------
(***************************************************************************)
(* DialogNode on small instances.  Sets of action names are given here, so *)
(* that a configuration names the scenario it explores.                    *)
(***************************************************************************)
EXTENDS DialogNode

AllOps == {"create", "close", "abort", "remove", "text", "contact"}
=============================================================================
