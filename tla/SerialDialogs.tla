---------------------------- MODULE SerialDialogs ----------------------------
(***************************************************************************)
(* What the dialogs of one instance promise while operations do not        *)
(* overlap: each operation is a single step.  A message leaves, its number *)
(* is taken and its handler is stored at once; a handler is resolved and   *)
(* the status it leads to is stored at once; no number is given out twice. *)
(* DialogNode, which reads, sends and saves in separate steps, implements  *)
(* this.                                                                   *)
(***************************************************************************)
EXTENDS DialogState

CONSTANTS
  Dialogs,   \* dialog identifiers
  NoDialog,  \* there is no dialog under the identifier
  PeerSeqs,  \* the numbers of the peer's messages
  UlongMax   \* the number of an ABORT for a dialog that does not exist

VARIABLES
  dialogs,   \* the dialogs, as if every operation were finished
  watched,   \* the messages whose confirmation is waited for
  sent,      \* the messages that left, confirmations excepted
  running    \* the process has not ended

vars == <<dialogs, watched, sent, running>>
-----------------------------------------------------------------------------
Init ==
  /\ dialogs = [d \in Dialogs |-> NoDialog]
  /\ watched = {} /\ sent = {} /\ running = TRUE

Message(action, d, seq) == [action |-> action, dialog |-> d, seq |-> seq]

Present(d) == dialogs[d] # NoDialog
Becomes(d, dlg) == dialogs' = [dialogs EXCEPT ![d] = dlg]
Numbered(d) == MakeNextSequental(dialogs[d])

\* Something was sent, or there was no channel and nobody was told.
Sends(m) == sent' \in {sent, sent \cup {m}}

\* The user opens a dialog under an identifier that was never used.
Open(d) ==
  /\ ~Present(d) /\ \A m \in sent : m.dialog # d
  /\ Becomes(d, NewDialog) /\ UNCHANGED <<watched, sent>>

\* The peer opens one; it cannot take over an identifier of ours.
Offered(d, seq) ==
  /\ ~Present(d) /\ \A m \in sent : m.dialog = d => m.action \in {"VERIFY_KEY", "ABORT"}
  /\ Becomes(d, RequestedDialog(seq)) /\ UNCHANGED <<watched, sent>>

\* A message of a dialog that does not exist is refused.
Refuse(d) ==
  /\ ~Present(d) /\ sent' = sent \cup {Message("ABORT", d, UlongMax)}
  /\ UNCHANGED <<dialogs, watched>>

\* The number is above all that were given out in this dialog.
Fresh(m) == \A n \in sent : n.action \in Tracked /\ n.dialog = m.dialog => n.seq < m.seq

\* A request or a text: allowed by the status, under a number of its own, and
\* watched as soon as it is out.  Without a channel or a key only its number is
\* used.  VERIFY_KEY takes the number after the first and does not keep it.
Send(d, action) ==
  LET m == Message(action, d, Numbered(d).thisSeq) IN
    /\ Present(d) /\ IsMessageActionAllowed(dialogs[d].status, action)
    /\ \/ sent' = sent \cup {m} /\ watched' = watched \cup {m}
       \/ UNCHANGED <<sent, watched>>
    /\ IF action = "VERIFY_KEY" THEN m.seq = 1 /\ UNCHANGED dialogs
                                ELSE Fresh(m) /\ Becomes(d, Numbered(d))

\* Nothing watches an ABORT.
Abort(d) ==
  /\ Present(d) /\ IsMessageActionAllowed(dialogs[d].status, "ABORT")
  /\ Becomes(d, SetStatus(Numbered(d), "ABORTED"))
  /\ Sends(Message("ABORT", d, Numbered(d).thisSeq)) /\ UNCHANGED watched

\* The number of a message of the peer is kept, later its status.
Hear(d, seq) ==
  /\ Present(d) /\ IsSequentalOk(dialogs[d], seq)
  /\ Becomes(d, WithPeerSeq(dialogs[d], seq)) /\ UNCHANGED <<watched, sent>>

Move(d, status) ==
  /\ Present(d) /\ IsStateTransitionAllowed(dialogs[d].status, status)
  /\ Becomes(d, SetStatus(dialogs[d], status))

Notified(d, action) == Move(d, StatusOfAction(action)) /\ UNCHANGED <<watched, sent>>

\* A handler is told once: it is not watched any more, and its dialog moves on.
Delivered(h) ==
  /\ h \in watched /\ watched' = watched \ {h}
  /\ h.action # "MESSAGE" /\ Move(h.dialog, NextOnDelivery(h.action)) /\ UNCHANGED sent

GivenUp(h) ==
  LET d == h.dialog IN
    /\ h \in watched /\ watched' = watched \ {h} /\ h.action # "MESSAGE"
    /\ IF h.action \in AbortNeeded
       THEN /\ Present(d) /\ IsStateTransitionAllowed(dialogs[d].status, "ABORTED")
            /\ Becomes(d, SetStatus(Numbered(d), "ABORTED"))
            /\ Sends(Message("ABORT", d, Numbered(d).thisSeq))
       ELSE Move(d, "ABORTED") /\ UNCHANGED sent

TextTold(h) ==
  /\ h \in watched /\ h.action = "MESSAGE"
  /\ watched' = watched \ {h} /\ UNCHANGED <<dialogs, sent>>

Remove(d) == Becomes(d, NoDialog) /\ UNCHANGED <<watched, sent>>

\* The process ends, between two operations or by a handler that cannot move its
\* dialog on: that one may have sent its ABORT before.
Stop ==
  /\ running' = FALSE /\ UNCHANGED <<dialogs, watched>>
  /\ \/ UNCHANGED sent
     \/ \E h \in watched :
          /\ h.action \in AbortNeeded /\ Present(h.dialog)
          /\ ~IsStateTransitionAllowed(dialogs[h.dialog].status, "ABORTED")
          /\ sent' = sent \cup {Message("ABORT", h.dialog, Numbered(h.dialog).thisSeq)}

Operation ==
  \/ \E d \in Dialogs :
       \/ Open(d) \/ Refuse(d) \/ Abort(d) \/ Remove(d)
       \/ \E seq \in PeerSeqs : Offered(d, seq) \/ Hear(d, seq)
       \/ \E action \in Action : Notified(d, action)
       \/ \E action \in Tracked : Send(d, action)
  \/ \E h \in watched : Delivered(h) \/ GivenUp(h) \/ TextTold(h)

Next ==
  /\ running
  /\ \/ Operation /\ UNCHANGED running
     \/ Stop

Spec == Init /\ [][Next]_vars
=============================================================================
