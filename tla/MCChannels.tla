------------------------------ MODULE MCChannels ------------------------------
(* Channels on small instances. *)
EXTENDS Channels

AllTasks == {"add", "change", "remove"}
AllResults == {"yes", "no", "throws"}
=============================================================================
