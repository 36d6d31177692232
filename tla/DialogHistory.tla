---------------------------- MODULE DialogHistory ----------------------------
(***************************************************************************)
(* DialogNode with a history of what its threads did to each other.  No    *)
(* guard reads the history: it records which snapshots are out of date and *)
(* in which dialogs a number may be given out twice.  A property can then  *)
(* say what holds whatever overlaps, fails or is started again, and what   *)
(* exactly it takes to break it.                                           *)
(***************************************************************************)
EXTENDS DialogNode

VARIABLES
  stale,    \* the threads whose snapshot misses what another thread stored
  doubtful  \* the dialogs whose numbers may be given out twice

hvars == <<vars, stale, doubtful>>

\* Where a thread holds a snapshot it may store: one with the status it was read
\* with, or one whose status was moved on.
FreshPCs == {"accept", "request", "saveRequest", "saveText", "sendAbort", "saveAbort",
             "sendTimeout"}
MovedPCs == {"saveStatus", "saveAck", "saveTimeout"}
Holds(op) == op.pc \in FreshPCs \cup MovedPCs
Moves(t) == thread'[t] # thread[t]

\* The steps that go on with the snapshot they have.  (A text goes on with the
\* one it has just stored.)
Continues(op) == op.pc \in {"saveRequest", "saveAbort", "saveTimeout"}

\* A snapshot is out of date from the moment another thread changes what is
\* stored, until it is given up.
TrackStale ==
  stale' = {t \in Threads :
    /\ Holds(thread'[t])
    /\ IF Moves(t) THEN t \in stale /\ Continues(thread'[t])
       ELSE t \in stale
              \/ dialogs'[DialogOf(thread[t])] # dialogs[DialogOf(thread[t])]}

\* Two threads hold snapshots of one dialog.
Shared(d) ==
  \E t, u \in Threads :
    /\ t # u /\ Holds(thread[t]) /\ Holds(thread[u])
    /\ DialogOf(thread[t]) = d /\ DialogOf(thread[u]) = d

\* A handler was stored for a message that never left: sending it failed.
Unsent(d) == \E h \in pending : h.dialog = d /\ h \notin sent

\* An operation ends after its message left and before its number is stored: the
\* program was started again, or the dialog was removed.
Forgotten(d) ==
  \E t \in Threads :
    /\ thread[t].pc = "saveRequest" /\ thread[t].dialog = d
    /\ Moves(t) /\ dialogs'[d] # thread[t].snap

TrackDoubtful ==
  doubtful' = doubtful \cup {d \in Dialogs : Shared(d)' \/ Unsent(d)' \/ Forgotten(d)}

HistoryInit == Init /\ stale = {} /\ doubtful = {}
HistoryNext == Next /\ TrackStale /\ TrackDoubtful
HistorySpec == HistoryInit /\ [][HistoryNext]_hvars
-----------------------------------------------------------------------------
\* What a thread is about to store or send fits the stored dialog: it has its
\* status, or one the machine allows next, and no smaller counters, and the
\* status still allows the message.
Fits(op, stored) ==
  /\ stored # NoDialog
  /\ op.pc \in FreshPCs => op.snap.status = stored.status
  /\ op.pc \in {"sendAbort", "saveAbort"} => "ABORTED" \in NextStatuses(stored.status)
  /\ op.pc \in MovedPCs => op.snap.status \in NextStatuses(stored.status)
  /\ op.pc \in {"request", "saveText"} => IsMessageActionAllowed(stored.status, op.action)
  /\ op.snap.peerSeq >= stored.peerSeq
  /\ op.snap.thisSeq >= stored.thisSeq

\* Read-modify-write of the storage under any interleaving, failing sends and
\* restarts: what a thread is about to store or to send fits what is stored,
\* unless another thread stored or removed the dialog in the meantime.
FreshSnapshotsFit ==
  \A t \in Threads \ stale :
    Holds(thread[t]) => Fits(thread[t], dialogs[DialogOf(thread[t])])

\* A thread makes this step with an out of date snapshot of the dialog.
StaleStep(d) == \E t \in stale : Moves(t) /\ DialogOf(thread[t]) = d

\* A stored status leaves the table of DialogStateMachine, which save() does not
\* look at, only when an out of date snapshot is written.
StatusFollowsMachine ==
  [][\A d \in Dialogs :
       dialogs[d] \in Dialog /\ dialogs'[d] \in Dialog =>
         \/ dialogs'[d].status = dialogs[d].status
         \/ dialogs'[d].status \in NextStatuses(dialogs[d].status)
         \/ StaleStep(d)]_hvars

\* Only an out of date snapshot takes a counter back: otherwise a number of the
\* peer that was accepted stays refused, and a number of ours that was stored is
\* not given out again.
CountersNeverFall ==
  [][\A d \in Dialogs :
       dialogs[d] \in Dialog /\ dialogs'[d] \in Dialog =>
         \/ /\ dialogs'[d].peerSeq >= dialogs[d].peerSeq
            /\ dialogs'[d].thisSeq >= dialogs[d].thisSeq
         \/ StaleStep(d)]_hvars

\* A message other than ACK and ABORT leaves only for a dialog whose status still
\* allows it at the moment of sending, unless another thread stored or removed
\* the dialog after isMessageActionAllowed was asked.
SendsOnlyWhatStatusAllows ==
  [][\A m \in sent' \ sent :
       m.action \notin {"ACK", "ABORT"} =>
         \/ /\ dialogs'[m.dialog] \in Dialog
            /\ IsMessageActionAllowed(dialogs'[m.dialog].status, m.action)
         \/ StaleStep(m.dialog)]_hvars

\* A stored handler watches the message it was made for: the confirmation of its
\* dialog and number can only mean that message.  To break it takes two snapshots
\* of one dialog held at once, a send that fails after its handler was stored, or
\* an operation cut short between the send and the save.
HandlerGuardsOwnMessage ==
  \A h \in pending : \A m \in sent :
    (h.dialog \notin doubtful /\ m.action \in Tracked /\ m.dialog = h.dialog /\ m.seq = h.seq)
      => m.action = h.action
=============================================================================
