------------------------------ MODULE DialogView ------------------------------
(***************************************************************************)
(* The texts of the dialogs and what the window shows of them.  One        *)
(* selection lives in four places, which follow each other by calls and    *)
(* by Qt signals:                                                          *)
(*   DialogUserModel           the list, the selected dialog, unread texts *)
(*   MainWindow                the button that sends                       *)
(*   MessageContainer          the texts, the active dialog                *)
(*   ActiveDialogMessageModel  the texts that are shown                    *)
(* A signal reaches its receiver at once when it is emitted in the thread  *)
(* the receiver lives in, and through the event queue of that thread       *)
(* otherwise: MessageHandlerWrapper lives in the work thread, MainWindow   *)
(* in the user interface thread, and DialogUserModel emits from all three. *)
(* A method of a model, with the calls it makes, is one step.              *)
(***************************************************************************)
EXTENDS Naturals, SequencesExt

CONSTANTS
  Dialogs, NoDialog,  \* identifiers of dialogs, and the empty identifier
  Gui, Work, Channel, \* threads; Channel is any receive thread or the timer
  Budget              \* bound: what the user, the peer and the timer may start

ASSUME ViewAssumption ==
  /\ NoDialog \notin Dialogs
  /\ Gui # Work /\ Gui # Channel /\ Work # Channel
  /\ Budget \in Nat

VARIABLES
  status,     \* the dialog storage
  ui,         \* the four objects and the two event queues, see UiType
  work,       \* where the work thread is in sendMessage or removeDialog
  receiving,  \* the dialog whose text a receive thread is about to add
  left        \* what may still be started (bound)

vars == <<status, ui, work, receiving, left>>
-----------------------------------------------------------------------------
Keys == Dialogs \cup {NoDialog}

\* "wait" is every status before ACTIVE; "ended" is CLOSED or ABORTED, for
\* which SystemMessageGenerator adds a line to the dialog.
Statuses == {"wait", "active", "ended"}
Stored(d) == status[d] \in Statuses

\* A text is known by the dialog it was made for.
Text == Keys
DialogInfo == [dialog : Dialogs, status : Statuses, unread : Nat]

\* What the wrappers have to do in the work thread, first come first served.
Calls == [op : {"setActive"}, dialog : Keys]
         \cup [op : {"close", "remove"}, dialog : Dialogs]
         \cup [op : {"send", "create"}, dialog : {NoDialog}]
Call(op, d) == [op |-> op, dialog |-> d]

UiType ==
  [ list : Seq(DialogInfo),       \* DialogUserModel::mDialogsInfo
    selected : Keys,              \* DialogUserModel::activeDialog
    enabled : BOOLEAN,            \* the button that sends
    window : Seq(BOOLEAN),        \* good or bad: the queue of MainWindow
    calls : Seq(Calls),           \* the queue of the work thread
    messages : [Keys -> Seq(Text)], \* MessageContainer::mMessages
    active : Keys,                \* MessageContainer::mActiveDialog
    viewed : Keys,                \* ActiveDialogMessageModel::mActiveDialog
    rows : Seq(Text),             \* ActiveDialogMessageModel::mRows
    seen : [Keys -> Nat],         \* history: texts of a dialog that were in rows
    overtaken : SUBSET Keys ]     \* history: selections that ran before older ones

Listed(u, d) == \E i \in DOMAIN u.list : u.list[i].dialog = d
Row(u, d) == CHOOSE i \in DOMAIN u.list : u.list[i].dialog = d
Queued(u, op, ds) == \E i \in DOMAIN u.calls : u.calls[i].op = op /\ u.calls[i].dialog \in ds
-----------------------------------------------------------------------------
(* MessageContainer and ActiveDialogMessageModel, under the container's mutex *)

\* What is in rows has been seen.
See(u) == [u EXCEPT !.seen[u.viewed] = Len(u.rows)]

\* Mutant: the texts of the dialog before stay.
ActiveDialogChangedMut(u, d) == [u EXCEPT !.viewed = d]

ActiveDialogChanged(u, d) == [u EXCEPT !.rows = <<>>, !.viewed = d]
PeekAll(u) == See([u EXCEPT !.rows = @ \o u.messages[u.active]])

\* Nobody is told that there is no active dialog any more.
SetActiveDialog(u, d) ==
  IF d = NoDialog THEN [u EXCEPT !.active = NoDialog]
  ELSE IF d = u.active THEN u
  ELSE PeekAll(ActiveDialogChanged([u EXCEPT !.active = d], d))

\* Mutant: the counter goes down.
CountUnreadMut(u, d) ==
  IF u.selected = d \/ ~Listed(u, d) THEN u
  ELSE [u EXCEPT !.list[Row(u, d)].unread = @ - 1]

\* DialogUserModel::messageAdded
CountUnread(u, d) ==
  IF u.selected = d \/ ~Listed(u, d) THEN u
  ELSE [u EXCEPT !.list[Row(u, d)].unread = @ + 1]

\* ActiveDialogMessageModel::messageAdded
ShowMessage(u, d, text) ==
  IF u.viewed # d THEN u ELSE See([u EXCEPT !.rows = Append(@, text)])

AddMessage(u, d, text) ==
  ShowMessage(CountUnread([u EXCEPT !.messages[d] = Append(@, text)], d), d, text)
-----------------------------------------------------------------------------
(* DialogUserModel *)

\* Mutant: direct connections.
EmitToWrapperMut(t, u, d) == [SetActiveDialog(u, d) EXCEPT !.overtaken = @ \ {d}]

\* Both signals lead to MessageHandlerWrapper::setActiveDialog.
EmitToWrapper(t, u, d) ==
  IF t = Work
  THEN [SetActiveDialog(u, d) EXCEPT
         !.overtaken = IF Queued(u, "setActive", Keys) THEN @ \cup {d} ELSE @ \ {d}]
  ELSE [u EXCEPT !.calls = Append(@, Call("setActive", d)), !.overtaken = @ \ {d}]

\* They differ in the slot of MainWindow.
EmitToWindow(t, u, good) ==
  IF t = Gui THEN [u EXCEPT !.enabled = good] ELSE [u EXCEPT !.window = Append(@, good)]

\* Mutant: notValidDialogWasSelected is not connected to setActiveDialog.
UpdateActiveDialogMut(t, u, d, s) ==
  LET selected == [u EXCEPT !.selected = d]
  IN  EmitToWindow(t, IF s = "active" THEN EmitToWrapper(t, selected, d) ELSE selected,
                   s = "active")

UpdateActiveDialog(t, u, d, s) ==
  EmitToWindow(t, EmitToWrapper(t, [u EXCEPT !.selected = d], d), s = "active")

MessagesReaded(u, d) == [u EXCEPT !.list[Row(u, d)].unread = 0]

Added(t, u, d, s) ==
  LET longer == [u EXCEPT !.list = Append(@, [dialog |-> d, status |-> s, unread |-> 0])]
  IN  IF Len(longer.list) = 1 THEN UpdateActiveDialog(t, longer, d, s) ELSE longer

\* Mutant: a changed dialog counts as read.
ChangedMut(t, u, d, s) ==
  LET told == IF s = "ended" THEN AddMessage(u, d, d) ELSE u
      updated == MessagesReaded([told EXCEPT !.list[Row(told, d)].status = s], d)
  IN  IF ~Listed(told, d) THEN told
      ELSE IF told.selected # d THEN updated
      ELSE UpdateActiveDialog(t, updated, d, s)

\* SystemMessageGenerator is told first.
Changed(t, u, d, s) ==
  LET told == IF s = "ended" THEN AddMessage(u, d, d) ELSE u
      updated == [told EXCEPT !.list[Row(told, d)].status = s]
  IN  IF ~Listed(told, d) THEN told
      ELSE IF told.selected # d THEN updated
      ELSE MessagesReaded(UpdateActiveDialog(t, updated, d, s), d)

Removed(t, u, d) ==
  LET shorter == [u EXCEPT !.list = RemoveAt(@, Row(u, d))]
      first == shorter.list[1]
  IN  IF ~Listed(u, d) THEN u
      ELSE IF u.selected # d THEN shorter
      ELSE IF shorter.list = <<>> THEN UpdateActiveDialog(t, shorter, NoDialog, "wait")
      ELSE MessagesReaded(UpdateActiveDialog(t, shorter, first.dialog, first.status),
                          first.dialog)
-----------------------------------------------------------------------------
Init ==
  /\ status = [d \in Dialogs |-> "none"]
  /\ ui = [ list |-> <<>>, selected |-> NoDialog, enabled |-> FALSE, window |-> <<>>,
            calls |-> <<>>, messages |-> [d \in Keys |-> <<>>], active |-> NoDialog,
            viewed |-> NoDialog, rows |-> <<>>, seen |-> [d \in Keys |-> 0],
            overtaken |-> {} ]
  /\ work = [at |-> "idle", dialog |-> NoDialog]
  /\ receiving = NoDialog
  /\ left = Budget

Start == left > 0 /\ left' = left - 1

(* The user interface thread *)

RowWasSelected(i) ==
  /\ Start
  /\ LET info == ui.list[i]
     IN ui' = UpdateActiveDialog(Gui, MessagesReaded(ui, info.dialog), info.dialog, info.status)
  /\ UNCHANGED <<status, work, receiving>>

\* on_commandLinkButton_clicked, DialogActionMenu, DialogCreation: the wrapper
\* is asked, in its own thread.
Ask(op, d) ==
  /\ Start
  /\ ui' = [ui EXCEPT !.calls = Append(@, Call(op, d))]
  /\ UNCHANGED <<status, work, receiving>>
TypeText == ui.enabled /\ Ask("send", NoDialog)
UseMenu == \E i \in DOMAIN ui.list, op \in {"close", "remove"} : Ask(op, ui.list[i].dialog)
StartNewDialog == Ask("create", NoDialog)

\* on_goodDialogSelected, on_badDialogSelected
WindowEvent ==
  /\ ui.window # <<>>
  /\ ui' = [ui EXCEPT !.enabled = Head(ui.window), !.window = Tail(@)]
  /\ UNCHANGED <<status, work, receiving, left>>

\* A contact is deleted in its window; the storages delete its dialogs.
RemoveContact(d) ==
  /\ Stored(d) /\ Start
  /\ status' = [status EXCEPT ![d] = "removed"]
  /\ ui' = Removed(Gui, ui, d)
  /\ UNCHANGED <<work, receiving>>
-----------------------------------------------------------------------------
(* The work thread *)

Idle == [at |-> "idle", dialog |-> NoDialog]
Take(op) == /\ work = Idle /\ ui.calls # <<>> /\ Head(ui.calls).op = op
            /\ UNCHANGED <<receiving, left>>
Taken == [ui EXCEPT !.calls = Tail(@)]
First == Head(ui.calls).dialog

WrapperSetActive ==
  /\ Take("setActive")
  /\ ui' = SetActiveDialog(Taken, First)
  /\ UNCHANGED <<status, work>>

\* createDialog: the dialog is stored, and saved once more when its request has
\* left.  The list does not depend on what other threads do in between.
CreateDialog(d) ==
  /\ Take("create") /\ status[d] = "none"
  /\ status' = [status EXCEPT ![d] = "wait"]
  /\ LET added == Added(Work, Taken, d, "wait")
     IN ui' \in {added, Changed(Work, added, d, "wait")}
  /\ UNCHANGED work

\* closeDialog: a request when the dialog is active, an ABORT when it is not
\* even that yet, nothing when it has ended.
CloseDialog(d) ==
  LET s == IF status[d] = "active" THEN "active" ELSE "ended"
  IN  /\ Stored(d)
      /\ status' = [status EXCEPT ![d] = s]
      /\ ui' = IF status[d] = "ended" THEN Taken ELSE Changed(Work, Taken, d, s)

WrapperClose == Take("close") /\ CloseDialog(First) /\ UNCHANGED work

\* removeDialog closes the dialog first.
WrapperRemove ==
  /\ Take("remove") /\ CloseDialog(First)
  /\ work' = [at |-> "remove", dialog |-> First]

\* The dialog was removed before, or its message cannot be sent: closeDialog
\* throws before it saves, and the wrapper tells the user.
CommandFails ==
  /\ Take("close") \/ Take("remove")
  /\ ui' = Taken
  /\ UNCHANGED <<status, work>>

\* The second half of removeDialog; it throws when the dialog is gone.
RemoveDialog ==
  /\ work.at = "remove"
  /\ work' = Idle
  /\ IF Stored(work.dialog)
     THEN /\ status' = [status EXCEPT ![work.dialog] = "removed"]
          /\ ui' = Removed(Work, ui, work.dialog)
     ELSE UNCHANGED <<status, ui>>
  /\ UNCHANGED <<receiving, left>>

\* sendMessage up to dialog.save(): the active dialog is read; a dialog that
\* is gone or not active throws, and the error goes to that dialog.
SendMessage ==
  /\ Take("send")
  /\ LET d == ui.active
         ok == d # NoDialog /\ status[d] = "active"
     IN  IF ok THEN /\ ui' = Changed(Work, Taken, d, "active")
                    /\ work' = [at |-> "send", dialog |-> d]
         ELSE /\ ui' = AddMessage(Taken, d, d)
              /\ UNCHANGED work
  /\ UNCHANGED status

\* The rest of sendMessage: the text is encrypted, stored in the dialog that
\* is active now, and sent; each of the three may throw.
StoreText(encrypted, sent) ==
  /\ work.at = "send"
  /\ LET d == work.dialog
         there == ui.active # NoDialog \/ ui.messages[NoDialog] # <<>>
         stored == IF encrypted /\ there THEN AddMessage(ui, ui.active, d) ELSE ui
     IN  ui' = IF encrypted /\ there /\ sent THEN stored ELSE AddMessage(stored, d, d)
  /\ work' = Idle
  /\ UNCHANGED <<status, receiving, left>>
-----------------------------------------------------------------------------
(* The receive threads and the timer *)

\* A peer's CREATE_DIALOG.
OfferDialog(d) ==
  /\ status[d] = "none" /\ Start
  /\ status' = [status EXCEPT ![d] = "wait"]
  /\ ui' = Added(Channel, ui, d, "wait")
  /\ UNCHANGED <<work, receiving>>

\* A handler or a delivery handler saves a dialog: with any status, since a
\* snapshot may be older than what it overwrites (see DialogNode).
SaveDialog(d, s) ==
  /\ Stored(d) /\ Start
  /\ status' = [status EXCEPT ![d] = s]
  /\ ui' = Changed(Channel, ui, d, s)
  /\ UNCHANGED <<work, receiving>>

\* MessageActionHandler::handle: the dialog is read, then the text is added,
\* or an error when it cannot be decrypted (abortOnException); setStatus
\* throws for a dialog that has ended.
ReceiveText(d) ==
  /\ receiving = NoDialog /\ Stored(d) /\ Start
  /\ receiving' = d
  /\ UNCHANGED <<status, ui, work>>

AddText ==
  /\ receiving # NoDialog
  /\ ui' = AddMessage(ui, receiving, receiving)
  /\ receiving' = NoDialog
  /\ UNCHANGED <<status, work, left>>

AbortOnException ==
  /\ receiving # NoDialog
  /\ LET told == AddMessage(ui, receiving, receiving)
         aborts == Stored(receiving) /\ status[receiving] # "ended"
     IN  IF aborts THEN /\ ui' = Changed(Channel, told, receiving, "ended")
                        /\ status' = [status EXCEPT ![receiving] = "ended"]
         ELSE ui' = told /\ UNCHANGED status
  /\ receiving' = NoDialog
  /\ UNCHANGED <<work, left>>
-----------------------------------------------------------------------------
Next ==
  \/ \E i \in DOMAIN ui.list : RowWasSelected(i)
  \/ TypeText \/ UseMenu \/ StartNewDialog \/ WindowEvent
  \/ \E d \in Dialogs : RemoveContact(d)
  \/ WrapperSetActive
  \/ \E d \in Dialogs : CreateDialog(d)
  \/ WrapperClose \/ WrapperRemove \/ CommandFails \/ RemoveDialog
  \/ SendMessage
  \/ \E encrypted, sent \in BOOLEAN : StoreText(encrypted, sent)
  \/ \E d \in Dialogs : OfferDialog(d) \/ ReceiveText(d)
  \/ \E d \in Dialogs, s \in Statuses : SaveDialog(d, s)
  \/ AddText \/ AbortOnException

Spec == Init /\ [][Next]_vars
-----------------------------------------------------------------------------
\* The state keeps its type.
TypeOK ==
  /\ status \in [Dialogs -> Statuses \cup {"none", "removed"}]
  /\ ui \in UiType
  /\ work \in {Idle} \cup [at : {"send", "remove"}, dialog : Dialogs]
  /\ receiving \in Keys
  /\ left \in 0 .. Budget

\* The model of the texts is kept up by single notifications: after any
\* switches, additions and removals it shows exactly the texts of its dialog,
\* which is the active one unless there is none.
RowsFollowMessages ==
  /\ ui.rows = ui.messages[ui.viewed]
  /\ ui.active \in {NoDialog, ui.viewed}

\* sendMessage reads the active dialog twice, with a save, the encryption and
\* all the listeners in between.  A text is stored in the dialog it was
\* encrypted and numbered for.
TextStoredWhereSent ==
  \A d \in Keys : \A i \in DOMAIN ui.messages[d] : ui.messages[d][i] = d

\* The dialog texts are typed into is the selected one as soon as the work
\* thread has caught up, whatever thread selected it; except for a selection
\* made in the work thread itself, which overtakes what waits in its queue.
ActiveFollowsSelection ==
  ui.selected \notin ui.overtaken /\ ~Queued(ui, "setActive", Keys)
    => ui.active = ui.selected

\* What the user has not seen of a dialog is counted as unread, unless the
\* dialog is about to be shown.
NothingMissed ==
  \A i \in DOMAIN ui.list :
    LET d == ui.list[i].dialog
    IN  d = ui.selected \/ d \in ui.overtaken \/ Queued(ui, "setActive", {d})
        \/ Len(ui.messages[d]) <= ui.seen[d] + ui.list[i].unread
=============================================================================
