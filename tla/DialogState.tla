----------------------------- MODULE DialogState -----------------------------
(***************************************************************************)
(* The vocabulary of a dialog: its statuses, the actions a message may     *)
(* carry, the two tables of DialogStateMachine and the counters of the     *)
(* class Dialog (messages/src/primitives).                                 *)
(***************************************************************************)
EXTENDS Naturals

Status == {"NEW", "CREATE_REQUEST", "WAIT_CONFIRM", "ACCEPTED_WAIT",
           "WAIT_KEY_VERIFICAION", "ACTIVE", "CLOSED", "ABORTED"}

Action == {"CREATE_DIALOG", "VERIFY_KEY", "KEY_VERIFICATION", "ACCEPT_DIALOG",
           "CLOSE_DIALOG", "ABORT", "MESSAGE"}

\* The statuses a dialog may move to from each status.
NextStatuses(status) ==
  CASE status = "NEW"                  -> {"WAIT_CONFIRM", "ABORTED"}
    [] status = "CREATE_REQUEST"       -> {"ACCEPTED_WAIT", "ABORTED"}
    [] status = "WAIT_CONFIRM"         -> {"ACTIVE", "ABORTED", "WAIT_CONFIRM"}
    [] status = "ACCEPTED_WAIT"        -> {"WAIT_KEY_VERIFICAION", "ABORTED"}
    [] status = "WAIT_KEY_VERIFICAION" -> {"ACTIVE", "CLOSED", "ABORTED"}
    [] status = "ACTIVE"               -> {"CLOSED", "ABORTED"}
    [] OTHER                           -> {}

\* The actions a message made for a dialog in each status may carry.
AllowedActions(status) ==
  CASE status = "NEW"                  -> {"CREATE_DIALOG", "ABORT"}
    [] status = "CREATE_REQUEST"       -> {"ABORT", "VERIFY_KEY"}
    [] status = "WAIT_CONFIRM"         -> {"ABORT", "KEY_VERIFICATION"}
    [] status = "ACCEPTED_WAIT"        -> {"ABORT"}
    [] status = "WAIT_KEY_VERIFICAION" -> {"ABORT", "ACCEPT_DIALOG", "CLOSE_DIALOG"}
    [] status = "ACTIVE"               -> {"ABORT", "CLOSE_DIALOG", "MESSAGE"}
    [] OTHER                           -> {}

IsStateTransitionAllowed(from, to) == to \in NextStatuses(from)
IsMessageActionAllowed(status, action) == action \in AllowedActions(status)

Dialog == [status : Status, peerSeq : Nat, thisSeq : Nat]

\* Mutant: the action is stored where the status belongs.
RequestedDialogMut(seq) == [status |-> "CREATE_DIALOG", peerSeq |-> seq, thisSeq |-> 0]

\* The constructor of a dialog the user opens, and of one the peer opens.  The
\* random start of thisSeq is abstracted to 0: only the order matters.
NewDialog == [status |-> "NEW", peerSeq |-> 0, thisSeq |-> 0]
RequestedDialog(seq) == [status |-> "CREATE_REQUEST", peerSeq |-> seq, thisSeq |-> 0]

\* Mutant: only the number seen last is refused.
IsSequentalOkMut(dlg, seq) == seq # dlg.peerSeq

IsSequentalOk(dlg, seq) == seq > dlg.peerSeq
WithPeerSeq(dlg, seq) == [dlg EXCEPT !.peerSeq = seq]

\* Mutant: the number is not advanced.
MakeNextSequentalMut(dlg) == dlg

MakeNextSequental(dlg) == [dlg EXCEPT !.thisSeq = @ + 1]
SetStatus(dlg, status) == [dlg EXCEPT !.status = status]

\* The status a received notification asks for.  CREATE_DIALOG for a dialog
\* that exists falls through to the default label.
StatusOfAction(action) ==
  CASE action = "ACCEPT_DIALOG" -> "ACTIVE"
    [] action = "CLOSE_DIALOG"  -> "CLOSED"
    [] OTHER                    -> "ABORTED"

\* The status a confirmed request leads to: the mNext of the delivery handler
\* built with the request.
NextOnDelivery(action) ==
  CASE action \in {"CREATE_DIALOG", "KEY_VERIFICATION"} -> "WAIT_CONFIRM"
    [] action = "VERIFY_KEY"    -> "WAIT_KEY_VERIFICAION"
    [] action = "ACCEPT_DIALOG" -> "ACTIVE"
    [] OTHER                    -> "CLOSED"

\* The requests whose handler sends ABORT when no confirmation came.
AbortNeeded == {"VERIFY_KEY", "ACCEPT_DIALOG"}

\* The requests that a delivery handler of the dialog watches.
Requests == {"CREATE_DIALOG", "VERIFY_KEY", "KEY_VERIFICATION", "ACCEPT_DIALOG",
             "CLOSE_DIALOG"}

\* The messages sent through sendMessage, which stores a delivery handler.
Tracked == Requests \cup {"MESSAGE"}
=============================================================================
