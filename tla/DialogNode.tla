----------------------------- MODULE DialogNode -----------------------------
(***************************************************************************)
(* One running instance of the program seen from its dialogs: the dialog   *)
(* storage, the repository of delivery handlers, the symmetric keys, and   *)
(* the three threads that work on them without a common lock:              *)
(*   "work"     user commands (DialogActionHandlerWrapper, sendMessage),   *)
(*   "channel"  the receive thread (MessageDespatcher::dispatch),          *)
(*   "timer"    the thread of TimeoutedRepository.                         *)
(* A thread that takes a wrapper works on a snapshot of the stored dialog  *)
(* and writes the whole snapshot back with save(); reading, sending and    *)
(* saving are separate steps.  The peer is the environment: it may send    *)
(* any message.                                                            *)
(***************************************************************************)
EXTENDS DialogState

CONSTANTS
  Dialogs,      \* dialog identifiers
  NoDialog,     \* the storage holds no dialog under the identifier
  UserOps,      \* the commands the user gives
  PeerActions,  \* the actions messages of the peer carry
  Faults,       \* what may fail: "send", "channel", "restart"
  Overlap,      \* TRUE: an operation may start while another one is under way
  MaxSeq,       \* bound: the user starts no request above this number
  MaxPeerSeq,   \* bound on the numbers of the peer's messages
  UlongMax      \* numeric_limits<unsigned long>::max(), above every counter

ASSUME NodeAssumption ==
  /\ NoDialog \notin Dialog
  /\ UserOps \subseteq {"create", "close", "abort", "remove", "text", "contact"}
  /\ PeerActions \subseteq Action
  /\ Overlap \in BOOLEAN
  /\ MaxSeq \in Nat /\ MaxPeerSeq \in Nat /\ UlongMax \in Nat
  /\ UlongMax > MaxSeq + MaxPeerSeq

VARIABLES
  dialogs,      \* the dialog storage, it survives a restart
  pending,      \* the stored delivery handlers, keyed by dialog and number
  ciphers,      \* the dialogs with a symmetric key in CryptoSystemImpl
  sent,         \* every message handed to the adapter
  shown,        \* how often each text of the peer was shown, at most 2 counted
  thread,       \* what each thread is doing
  alive,        \* FALSE after std::terminate
  opener,       \* who made the identifier of a dialog up: "none", "us", "peer"
  contactKnown  \* the peer's public key is in CryptoSystemImpl::mRemote

vars == <<dialogs, pending, ciphers, sent, shown, thread, alive, opener, contactKnown>>
-----------------------------------------------------------------------------
Threads == {"work", "channel", "timer"}

Message(action, d, seq) == [action |-> action, dialog |-> d, seq |-> seq]
Handler(action, d, seq) == Message(action, d, seq)
Handlers == [action : Action, dialog : Dialogs, seq : Nat]

Idle == [pc |-> "idle"]
\* A thread inside an operation: the dialog, the action of the message being
\* made or handled, the snapshot it holds, and what encloses the operation:
\* "rescue" the exception handler of handle(), "remove" removeDialog.
At(pc, d, action, snap, mode) ==
  [pc |-> pc, dialog |-> d, action |-> action, snap |-> snap, mode |-> mode]
\* A thread inside a delivery handler: the handler and its reloaded snapshot.
Resolving(pc, h, snap) == [pc |-> pc, handler |-> h, snap |-> snap]
Abort(d, mode) == At("abort", d, "ABORT", NewDialog, mode)

Modes == {"plain", "rescue", "remove"}
ResolvingPCs == {"saveAck", "sendTimeout", "saveTimeout"}
BusyPCs == {"accept", "answer", "request", "saveRequest", "saveText", "saveStatus",
            "abort", "sendAbort", "saveAbort", "remove"}
Busy == [pc : BusyPCs, dialog : Dialogs, action : Action, snap : Dialog, mode : Modes]
BusyResolving == [pc : ResolvingPCs, handler : Handlers, snap : Dialog]
ThreadStates == {Idle} \cup Busy \cup BusyResolving

Present(d) == dialogs[d] # NoDialog
Go(t, where) == thread' = [thread EXCEPT ![t] = where]
In(t, pc) == alive /\ thread[t].pc = pc
CanStart(t) == In(t, "idle") /\ (Overlap \/ \A u \in Threads : thread[u].pc = "idle")

\* The callbacks of the repository run under its mutex; store waits for it.
RepositoryBusy == \E t \in Threads : thread[t].pc \in ResolvingPCs

\* An exception leaves the operation: the handler of the channel thread answers
\* it with abortDialog, a wrapper of the work thread reports it to the user.
Raised(t) ==
  LET op == thread[t] IN
    IF t = "channel" /\ op.mode = "plain"
    THEN Abort(op.dialog, "rescue")
    ELSE Idle
Finished(t) == IF thread[t].mode = "remove" THEN [thread[t] EXCEPT !.pc = "remove"] ELSE Idle

\* An exception leaves a noexcept function or a thread: std::terminate.
Terminate ==
  /\ alive' = FALSE
  /\ UNCHANGED <<dialogs, pending, ciphers, sent, shown, thread, opener, contactKnown>>

\* wrapper.save(): the whole snapshot overwrites the stored dialog; saving a
\* dialog that was removed meanwhile throws.
Save(t, d, dlg, next) ==
  IF Present(d)
  THEN dialogs' = [dialogs EXCEPT ![d] = dlg] /\ Go(t, next)
  ELSE Go(t, Raised(t)) /\ UNCHANGED dialogs
-----------------------------------------------------------------------------
Init ==
  /\ dialogs = [d \in Dialogs |-> NoDialog]
  /\ pending = {}
  /\ ciphers = {}
  /\ sent = {}
  /\ shown = [key \in Dialogs \X (1 .. MaxPeerSeq) |-> 0]
  /\ thread = [t \in Threads |-> Idle]
  /\ alive = TRUE
  /\ opener = [d \in Dialogs |-> "none"]
  /\ contactKnown = TRUE
-----------------------------------------------------------------------------
(* Commands of the user *)

\* createDialog: add a dialog in status NEW, then sendRequest(CREATE_DIALOG).
CreateDialog(d) ==
  /\ "create" \in UserOps /\ CanStart("work")
  /\ ~Present(d) /\ opener[d] = "none" /\ \A m \in sent : m.dialog # d   \* make_uiid
  /\ opener' = [opener EXCEPT ![d] = "us"]
  /\ dialogs' = [dialogs EXCEPT ![d] = NewDialog]
  /\ Go("work", At("request", d, "CREATE_DIALOG", MakeNextSequental(NewDialog), "plain"))
  /\ UNCHANGED <<pending, ciphers, sent, shown, alive, contactKnown>>

\* closeDialog, alone or as the first half of removeDialog: an ACTIVE dialog is
\* closed by a request, any other one is aborted.
CloseDialog(d, mode) ==
  /\ (IF mode = "remove" THEN "remove" ELSE "close") \in UserOps
  /\ CanStart("work") /\ Present(d)
  /\ IF dialogs[d].status = "ACTIVE"
     THEN /\ dialogs[d].thisSeq < MaxSeq
          /\ Go("work", At("request", d, "CLOSE_DIALOG", MakeNextSequental(dialogs[d]), mode))
     ELSE Go("work", Abort(d, mode))
  /\ UNCHANGED <<dialogs, pending, ciphers, sent, shown, alive, opener, contactKnown>>

AbortDialog(d) ==
  /\ "abort" \in UserOps /\ CanStart("work") /\ Present(d)
  /\ Go("work", Abort(d, "plain"))
  /\ UNCHANGED <<dialogs, pending, ciphers, sent, shown, alive, opener, contactKnown>>

\* MessageActionHandler::sendMessage up to make_text_message; a dialog in which
\* MESSAGE is not allowed only yields an error text.
SendText(d) ==
  /\ "text" \in UserOps /\ CanStart("work") /\ Present(d)
  /\ IsMessageActionAllowed(dialogs[d].status, "MESSAGE")
  /\ dialogs[d].thisSeq < MaxSeq
  /\ Go("work", At("saveText", d, "MESSAGE", MakeNextSequental(dialogs[d]), "plain"))
  /\ UNCHANGED <<dialogs, pending, ciphers, sent, shown, alive, opener, contactKnown>>

\* The user stores the contact again: its listener puts the key into mRemote.
SaveContact ==
  /\ "contact" \in UserOps /\ alive /\ ~contactKnown
  /\ contactKnown' = TRUE
  /\ UNCHANGED <<dialogs, pending, ciphers, sent, shown, thread, alive, opener>>
-----------------------------------------------------------------------------
(* Steps of sendRequest, abortDialog and their callers, on any thread *)

\* MessageDespatcher::sendMessage: the handler is stored before the message is
\* sent; a key already present keeps its handler; without a channel both the
\* message and the handler are dropped silently; a failed send throws.
SendRequest(t) ==
  LET op  == thread[t]
      key == Handler(op.action, op.dialog, op.snap.thisSeq)
      Stored == IF \E h \in pending : h.dialog = key.dialog /\ h.seq = key.seq
                THEN pending ELSE pending \cup {key}
      Sent == IF op.action \in {"VERIFY_KEY", "MESSAGE"} \* saved before, or never
              THEN Idle ELSE [op EXCEPT !.pc = "saveRequest"]
  IN
    /\ In(t, "request")
    /\ \/ ~RepositoryBusy /\ pending' = Stored /\ sent' = sent \cup {key} /\ Go(t, Sent)
       \/ "channel" \in Faults /\ Go(t, Sent) /\ UNCHANGED <<pending, sent>>
       \/ "send" \in Faults /\ ~RepositoryBusy /\ pending' = Stored
          /\ Go(t, Raised(t)) /\ UNCHANGED sent
    /\ UNCHANGED <<dialogs, ciphers, shown, alive, opener, contactKnown>>

\* sendRequest saves its snapshot after the message is out.
SaveRequest(t) ==
  /\ In(t, "saveRequest")
  /\ Save(t, thread[t].dialog, thread[t].snap, Finished(t))
  /\ UNCHANGED <<pending, ciphers, sent, shown, alive, opener, contactKnown>>

\* abortDialog takes its wrapper.  When the exception handler finds no dialog it
\* answers with an ABORT that carries the largest number.
StartAbort(t) ==
  LET op == thread[t] IN
    /\ In(t, "abort")
    /\ \/ /\ ~Present(op.dialog) /\ op.mode = "rescue"
          /\ \/ sent' = sent \cup {Message("ABORT", op.dialog, UlongMax)}
             \/ Faults \cap {"send", "channel"} # {} /\ UNCHANGED sent
          /\ Go(t, Idle)
       \/ /\ ~Present(op.dialog) /\ op.mode # "rescue"
          /\ Go(t, Raised(t)) /\ UNCHANGED sent
       \/ /\ Present(op.dialog)
          /\ Go(t, IF IsMessageActionAllowed(dialogs[op.dialog].status, "ABORT")
                   THEN [op EXCEPT !.pc = "sendAbort",
                                   !.snap = MakeNextSequental(dialogs[op.dialog])]
                   ELSE Finished(t))
          /\ UNCHANGED sent
    /\ UNCHANGED <<dialogs, pending, ciphers, shown, alive, opener, contactKnown>>

\* sendAndForget: nothing watches the ABORT.
SendAbort(t) ==
  LET op == thread[t] IN
    /\ In(t, "sendAbort")
    /\ \/ sent' = sent \cup {Message("ABORT", op.dialog, op.snap.thisSeq)}
          /\ Go(t, [op EXCEPT !.pc = "saveAbort"])
       \/ "channel" \in Faults /\ Go(t, [op EXCEPT !.pc = "saveAbort"]) /\ UNCHANGED sent
       \/ "send" \in Faults /\ Go(t, Raised(t)) /\ UNCHANGED sent
    /\ UNCHANGED <<dialogs, pending, ciphers, shown, alive, opener, contactKnown>>

SaveAbort(t) ==
  /\ In(t, "saveAbort")
  /\ Save(t, thread[t].dialog, SetStatus(thread[t].snap, "ABORTED"), Finished(t))
  /\ UNCHANGED <<pending, ciphers, sent, shown, alive, opener, contactKnown>>

\* The second half of removeDialog; the listener of the storage drops the key.
RemoveDialog ==
  LET d == thread["work"].dialog IN
    /\ In("work", "remove")
    /\ dialogs' = [dialogs EXCEPT ![d] = NoDialog]
    /\ ciphers' = ciphers \ {d}
    /\ Go("work", Idle)
    /\ UNCHANGED <<pending, sent, shown, alive, opener, contactKnown>>

\* A text is saved with its new number, then encrypted; without a key the
\* encryption throws and the text is not sent.
SaveText ==
  LET op == thread["work"] IN
    /\ In("work", "saveText")
    /\ Save("work", op.dialog, op.snap,
            IF op.dialog \in ciphers THEN [op EXCEPT !.pc = "request"] ELSE Idle)
    /\ UNCHANGED <<pending, ciphers, sent, shown, alive, opener, contactKnown>>
-----------------------------------------------------------------------------
(* Messages of the peer: MessageDespatcher::dispatch on the channel thread *)

\* sendAck: everything but ABORT is confirmed before it is looked at.
AcksOf(m) ==
  IF m.action = "ABORT" \/ m.seq = 0 THEN {} ELSE {Message("ACK", m.dialog, m.seq)}

\* A failed confirmation throws out of the noexcept dispatch.
AckFails(m) ==
  /\ CanStart("channel") /\ "send" \in Faults
  /\ AcksOf(m) # {}
  /\ Terminate

\* Unknown contact, broken signature or too old: confirmed all the same.
DispatchRejected(m) ==
  /\ CanStart("channel")
  /\ sent' = sent \cup AcksOf(m)
  /\ UNCHANGED <<dialogs, pending, ciphers, shown, thread, alive, opener, contactKnown>>

Dispatchable(m) == CanStart("channel") /\ contactKnown

\* prepareNotFoundDialog and MessageActionHandler::handle: a message for a
\* dialog that does not exist is answered with ABORT; so is CREATE_DIALOG when
\* the contact belongs to another channel.
DispatchUnknown(m) ==
  /\ Dispatchable(m) /\ ~Present(m.dialog)
  /\ LET reply == IF m.action = "ABORT" THEN {}
                  ELSE {Message("ABORT", m.dialog, UlongMax)}
     IN \/ sent' = sent \cup AcksOf(m) \cup reply
        \/ Faults \cap {"send", "channel"} # {} /\ sent' = sent \cup AcksOf(m)
  /\ UNCHANGED <<dialogs, pending, ciphers, shown, thread, alive, opener, contactKnown>>

\* The peer opens a dialog: it is added, a key is generated for it and goes out
\* with VERIFY_KEY.  The number VERIFY_KEY takes is never saved.  (Storing the
\* dialog and keeping its key are two steps in KeyExchange, which is about keys.)
DispatchCreate(m) ==
  /\ Dispatchable(m) /\ ~Present(m.dialog)
  /\ m.action = "CREATE_DIALOG" /\ opener[m.dialog] # "us"
  /\ sent' = sent \cup AcksOf(m)
  /\ dialogs' = [dialogs EXCEPT ![m.dialog] = RequestedDialog(m.seq)]
  /\ ciphers' = ciphers \cup {m.dialog}
  /\ Go("channel", At("request", m.dialog, "VERIFY_KEY",
                      MakeNextSequental(RequestedDialog(m.seq)), "plain"))
  /\ opener' = [opener EXCEPT ![m.dialog] = "peer"]
  /\ UNCHANGED <<pending, shown, alive, contactKnown>>

\* DialogActionHandler::handle for a dialog that exists.
DispatchKnown(m) ==
  /\ Dispatchable(m) /\ Present(m.dialog)
  /\ m.action # "MESSAGE"
  /\ sent' = sent \cup AcksOf(m)
  /\ IF IsSequentalOk(dialogs[m.dialog], m.seq)
     THEN Go("channel", At("accept", m.dialog, m.action,
                           WithPeerSeq(dialogs[m.dialog], m.seq), "plain"))
     ELSE UNCHANGED thread
  /\ UNCHANGED <<dialogs, pending, ciphers, shown, alive, opener, contactKnown>>

\* MessageActionHandler::handle: the number is checked on a copy that is never
\* saved; a text that cannot be decrypted aborts the dialog.
DispatchText(m) ==
  /\ Dispatchable(m) /\ Present(m.dialog)
  /\ m.action = "MESSAGE"
  /\ sent' = sent \cup AcksOf(m)
  /\ IF ~IsSequentalOk(dialogs[m.dialog], m.seq)
     THEN UNCHANGED <<shown, thread>>
     ELSE IF m.dialog \in ciphers
     THEN /\ shown' = [shown EXCEPT ![<<m.dialog, m.seq>>] = IF @ = 2 THEN 2 ELSE @ + 1]
          /\ UNCHANGED thread
     ELSE /\ Go("channel", Abort(m.dialog, "rescue"))
          /\ UNCHANGED shown
  /\ UNCHANGED <<dialogs, pending, ciphers, alive, opener, contactKnown>>

\* handle saves the number of the peer.
Accept ==
  LET op == thread["channel"] IN
    /\ In("channel", "accept")
    /\ Save("channel", op.dialog, op.snap, [op EXCEPT !.pc = "answer"])
    /\ UNCHANGED <<pending, ciphers, sent, shown, alive, opener, contactKnown>>

\* Mutant: make_message does not ask isMessageActionAllowed.
AnswerWithRequestMut(d, action) ==
  Go("channel", At("request", d, action, MakeNextSequental(dialogs[d]), "plain"))

\* prepareForFoundDialog, from a wrapper of its own.  A request the status does
\* not allow and a transition the table does not allow both throw.
AnswerWithRequest(d, action) ==
  Go("channel",
     IF IsMessageActionAllowed(dialogs[d].status, action)
     THEN At("request", d, action, MakeNextSequental(dialogs[d]), "plain")
     ELSE Abort(d, "rescue"))

\* VERIFY_KEY: import the key (the first one stays) and prove it.  A key or a
\* proof that cannot be read throws, before or after the key was kept.
AnswerVerifyKey ==
  LET d == thread["channel"].dialog IN
    /\ In("channel", "answer") /\ thread["channel"].action = "VERIFY_KEY"
    /\ Present(d)
    /\ \/ ciphers' = ciphers \cup {d} /\ AnswerWithRequest(d, "KEY_VERIFICATION")
       \/ ciphers' \in {ciphers, ciphers \cup {d}} /\ Go("channel", Abort(d, "rescue"))
    /\ UNCHANGED <<dialogs, pending, sent, shown, alive, opener, contactKnown>>

\* KEY_VERIFICATION: accept when the peer proved the key, else abort.
AnswerKeyVerification(proved) ==
  LET d == thread["channel"].dialog IN
    /\ In("channel", "answer") /\ thread["channel"].action = "KEY_VERIFICATION"
    /\ IF proved /\ d \in ciphers
       THEN Present(d) /\ AnswerWithRequest(d, "ACCEPT_DIALOG")
       ELSE Go("channel", Abort(d, "plain"))
    /\ UNCHANGED <<dialogs, pending, ciphers, sent, shown, alive, opener, contactKnown>>

\* Mutant: setStatus does not ask the state machine.
AnswerWithStatusMut ==
  LET op == thread["channel"] IN
    /\ In("channel", "answer")
    /\ op.action \notin {"VERIFY_KEY", "KEY_VERIFICATION"}
    /\ Present(op.dialog)
    /\ Go("channel", At("saveStatus", op.dialog, op.action,
                        SetStatus(dialogs[op.dialog], StatusOfAction(op.action)), "plain"))
    /\ UNCHANGED <<dialogs, pending, ciphers, sent, shown, alive, opener, contactKnown>>

\* Any other action only sets a status.
AnswerWithStatus ==
  LET op == thread["channel"]
      next == StatusOfAction(op.action)
  IN
    /\ In("channel", "answer")
    /\ op.action \notin {"VERIFY_KEY", "KEY_VERIFICATION"}
    /\ Present(op.dialog)
    /\ Go("channel",
          IF IsStateTransitionAllowed(dialogs[op.dialog].status, next)
          THEN At("saveStatus", op.dialog, op.action,
                  SetStatus(dialogs[op.dialog], next), "plain")
          ELSE Abort(op.dialog, "rescue"))
    /\ UNCHANGED <<dialogs, pending, ciphers, sent, shown, alive, opener, contactKnown>>

\* The dialog was removed between the two wrappers.
AnswerRemoved ==
  /\ In("channel", "answer") /\ ~Present(thread["channel"].dialog)
  /\ Go("channel", Raised("channel"))
  /\ UNCHANGED <<dialogs, pending, ciphers, sent, shown, alive, opener, contactKnown>>

\* map() asserts that CREATE_DIALOG never reaches it; a debug build stops there.
AnswerAsserts ==
  /\ In("channel", "answer") /\ thread["channel"].action = "CREATE_DIALOG"
  /\ Terminate

SaveStatus ==
  /\ In("channel", "saveStatus")
  /\ Save("channel", thread["channel"].dialog, thread["channel"].snap, Idle)
  /\ UNCHANGED <<pending, ciphers, sent, shown, alive, opener, contactKnown>>
-----------------------------------------------------------------------------
(* Delivery handlers: ACK on the channel thread, expiry on the timer thread *)

\* The repository resolves a handler it holds, under its mutex.
CanResolve(t, h) == CanStart(t) /\ ~RepositoryBusy /\ h \in pending

\* The handler of a text only updates the text.
TextResolved(t, h) ==
  /\ CanResolve(t, h) /\ h.action = "MESSAGE"
  /\ pending' = pending \ {h}
  /\ UNCHANGED <<dialogs, ciphers, sent, shown, thread, alive, opener, contactKnown>>

CanBecome(d, status) == Present(d) /\ IsStateTransitionAllowed(dialogs[d].status, status)

\* TimeoutedRepository::remove calls removed(): reload throws when the dialog is
\* gone, setStatus when the status does not lead to the next one, and the
\* exception leaves the noexcept dispatch.
Ack(h) ==
  LET next == NextOnDelivery(h.action) IN
    /\ CanResolve("channel", h) /\ h.action # "MESSAGE"
    /\ IF CanBecome(h.dialog, next)
       THEN /\ Go("channel", Resolving("saveAck", h, SetStatus(dialogs[h.dialog], next)))
            /\ UNCHANGED <<dialogs, pending, ciphers, sent, shown, alive, opener, contactKnown>>
       ELSE Terminate

\* Mutant: what timeouted() throws is swallowed and the handler stays.
TimeoutMut(h) ==
  /\ CanResolve("timer", h) /\ h.action # "MESSAGE" /\ CanBecome(h.dialog, "ABORTED")
  /\ Go("timer", Resolving("saveTimeout", h, SetStatus(dialogs[h.dialog], "ABORTED")))
  /\ UNCHANGED <<dialogs, pending, ciphers, sent, shown, alive, opener, contactKnown>>

\* checkInThread calls timeouted(); nothing catches what it throws.
Timeout(h) ==
  /\ CanResolve("timer", h) /\ h.action # "MESSAGE"
  /\ \/ /\ Present(h.dialog) /\ h.action \in AbortNeeded
        /\ Go("timer", Resolving("sendTimeout", h, MakeNextSequental(dialogs[h.dialog])))
        /\ UNCHANGED <<dialogs, pending, ciphers, sent, shown, alive, opener, contactKnown>>
     \/ /\ CanBecome(h.dialog, "ABORTED") /\ h.action \notin AbortNeeded
        /\ Go("timer", Resolving("saveTimeout", h, SetStatus(dialogs[h.dialog], "ABORTED")))
        /\ UNCHANGED <<dialogs, pending, ciphers, sent, shown, alive, opener, contactKnown>>
     \/ /\ ~Present(h.dialog)
           \/ (h.action \notin AbortNeeded /\ ~CanBecome(h.dialog, "ABORTED"))
        /\ Terminate

\* Mutant: the ABORT is sent through the repository whose mutex is held.
SendTimeoutMut ==
  /\ In("timer", "sendTimeout") /\ ~RepositoryBusy
  /\ Go("timer", [thread["timer"] EXCEPT !.pc = "saveTimeout"])
  /\ UNCHANGED <<dialogs, pending, ciphers, sent, shown, alive, opener, contactKnown>>

\* The ABORT goes out before setStatus is tried.
SendTimeout ==
  LET op == thread["timer"]
      abort == Message("ABORT", op.handler.dialog, op.snap.thisSeq)
  IN
    /\ In("timer", "sendTimeout")
    /\ \/ /\ \/ sent' = sent \cup {abort}
             \/ "channel" \in Faults /\ UNCHANGED sent
          /\ IF IsStateTransitionAllowed(op.snap.status, "ABORTED")
             THEN /\ Go("timer", Resolving("saveTimeout", op.handler,
                                          SetStatus(op.snap, "ABORTED")))
                  /\ UNCHANGED alive
             ELSE alive' = FALSE /\ UNCHANGED thread
          /\ UNCHANGED <<dialogs, pending, ciphers, shown, opener, contactKnown>>
       \/ "send" \in Faults /\ Terminate

\* Mutant: the handler is erased, the new status is not saved.
SaveResolvedMut(t, pc) ==
  /\ In(t, pc)
  /\ pending' = pending \ {thread[t].handler}
  /\ Go(t, Idle)
  /\ UNCHANGED <<dialogs, ciphers, sent, shown, alive, opener, contactKnown>>

\* save() and the erase of the handler, under the mutex of the repository.
SaveResolved(t, pc) ==
  LET op == thread[t] IN
    /\ In(t, pc)
    /\ IF Present(op.handler.dialog)
       THEN /\ dialogs' = [dialogs EXCEPT ![op.handler.dialog] = op.snap]
            /\ pending' = pending \ {op.handler}
            /\ Go(t, Idle)
            /\ UNCHANGED <<ciphers, sent, shown, alive, opener, contactKnown>>
       ELSE Terminate

SaveAck == SaveResolved("channel", "saveAck")
SaveTimeout == SaveResolved("timer", "saveTimeout")
-----------------------------------------------------------------------------
\* The program is started again: everything but the storage is lost, and the
\* keys of the contacts are not read back from it.
Restart ==
  /\ "restart" \in Faults
  /\ alive' = TRUE
  /\ pending' = {}
  /\ ciphers' = {}
  /\ thread' = [t \in Threads |-> Idle]
  /\ contactKnown' = FALSE
  /\ UNCHANGED <<dialogs, sent, shown, opener>>
-----------------------------------------------------------------------------
(* The peer: it sends any of its messages at any time, twice too, and it    *)
(* confirms what it was really sent.                                        *)

PeerMessages ==
  [action : PeerActions, dialog : Dialogs, seq : 1 .. MaxPeerSeq]
    \cup {Message(action, d, UlongMax) : action \in PeerActions \cap {"ABORT"}, d \in Dialogs}

\* The peer speaks of a dialog of ours only after it was sent something for it.
PeerKnows(d) == opener[d] = "us" => d \in {m.dialog : m \in sent}

Receive(m) ==
  /\ PeerKnows(m.dialog)
  /\ \/ AckFails(m) \/ DispatchRejected(m)
     \/ DispatchUnknown(m) \/ DispatchCreate(m)
     \/ DispatchKnown(m) \/ DispatchText(m)

\* The peer confirms a message by its dialog and number alone.
Confirmable(h) ==
  <<h.dialog, h.seq>> \in {<<m.dialog, m.seq>> : m \in {n \in sent : n.action \in Tracked}}

Confirm(h) == Confirmable(h) /\ (Ack(h) \/ TextResolved("channel", h))
Expire(h) == Timeout(h) \/ TextResolved("timer", h)

UserCommand ==
  \/ \E d \in Dialogs :
       \/ CreateDialog(d) \/ AbortDialog(d) \/ SendText(d)
       \/ CloseDialog(d, "plain") \/ CloseDialog(d, "remove")
  \/ SaveContact

\* A thread goes on with the operation it has begun.
ThreadStep(t) ==
  \/ SendRequest(t) \/ SaveRequest(t)
  \/ StartAbort(t) \/ SendAbort(t) \/ SaveAbort(t)
  \/ t = "work" /\ (SaveText \/ RemoveDialog)
  \/ t = "channel" /\ (Accept \/ AnswerVerifyKey
                          \/ AnswerKeyVerification(TRUE) \/ AnswerKeyVerification(FALSE)
                          \/ AnswerWithStatus \/ AnswerRemoved \/ AnswerAsserts
                          \/ SaveStatus \/ SaveAck)
  \/ t = "timer" /\ (SendTimeout \/ SaveTimeout)

CheckInThread == \E h \in pending : Expire(h)

Next ==
  \/ UserCommand
  \/ \E m \in PeerMessages : Receive(m)
  \/ \E h \in pending : Confirm(h)
  \/ CheckInThread
  \/ \E t \in Threads : ThreadStep(t)
  \/ Restart

Spec == Init /\ [][Next]_vars

\* A thread that runs goes on, and the repository looks for expired handlers
\* every CHECK_IDLE_ACK.  Neither the user nor the peer has to do anything.
FairSpec ==
  /\ Spec
  /\ \A t \in Threads : WF_vars(ThreadStep(t))
  /\ WF_vars(CheckInThread)
-----------------------------------------------------------------------------
(* Properties.  What the missing lock around the snapshots costs is stated *)
(* in DialogHistory.                                                        *)

TypeOK ==
  /\ dialogs \in [Dialogs -> Dialog \cup {NoDialog}]
  /\ pending \subseteq Handlers
  /\ ciphers \subseteq Dialogs
  /\ sent \subseteq [action : Action \cup {"ACK"}, dialog : Dialogs, seq : Nat]
  /\ shown \in [Dialogs \X (1 .. MaxPeerSeq) -> 0 .. 2]
  /\ thread \in [Threads -> ThreadStates]
  /\ alive \in BOOLEAN /\ contactKnown \in BOOLEAN
  /\ opener \in [Dialogs -> {"none", "us", "peer"}]

\* The dialog that an operation, or the handler being resolved, is about.
DialogOf(op) == IF op.pc \in ResolvingPCs THEN op.handler.dialog ELSE op.dialog

\* A text of the peer is shown once, however often it arrives.
TextShownOnce == \A d \in Dialogs, n \in 1 .. MaxPeerSeq : shown[d, n] <= 1

\* The confirmation of VERIFY_KEY moves a dialog the peer opened on; it does not
\* end the process.
VerifyKeyConfirmationSurvives == alive

\* While operations do not overlap and numbers are kept, an operation is one step
\* of SerialDialogs: a dialog counts as saved as soon as nothing but the save is
\* left to do, and a text takes its number when it is sent, though it was saved
\* with it before.
SavingPCs == {"accept", "saveRequest", "saveAbort", "saveStatus", "saveAck", "saveTimeout"}
Saves(t, d) == thread[t].pc \in SavingPCs /\ DialogOf(thread[t]) = d
Writes(t) ==
  IF thread[t].pc = "saveAbort" THEN SetStatus(thread[t].snap, "ABORTED") ELSE thread[t].snap
HasText(t, d) ==
  thread[t].pc = "request" /\ thread[t].action = "MESSAGE" /\ thread[t].dialog = d

SerialView(d) ==
  IF \E t \in Threads : Saves(t, d) THEN Writes(CHOOSE t \in Threads : Saves(t, d))
  ELSE IF \E t \in Threads : HasText(t, d) THEN [dialogs[d] EXCEPT !.thisSeq = @ - 1]
  ELSE dialogs[d]
ToldHandlers == {h \in pending : \E t \in Threads :
                  thread[t].pc \in {"saveAck", "saveTimeout"} /\ thread[t].handler = h}

Serial == INSTANCE SerialDialogs WITH
  PeerSeqs <- 1 .. MaxPeerSeq \cup {UlongMax},
  dialogs <- [d \in Dialogs |-> SerialView(d)],
  watched <- pending \ ToldHandlers,
  sent <- {m \in sent : m.action # "ACK"},
  running <- alive
ImplementsSerial == Serial!Spec

\* A dialog that waits for the confirmation of its first request leaves that
\* status, one way or the other, unless the process ends.
Unconfirmed(d) == Present(d) /\ dialogs[d].status \in {"NEW", "CREATE_REQUEST"}
FirstRequestResolves ==
  \A d \in Dialogs : Unconfirmed(d) ~> (~Unconfirmed(d) \/ ~alive)

\* Every operation comes to its end: no thread waits for another one for ever.
OperationsFinish ==
  \A t \in Threads : thread[t].pc # "idle" ~> (thread[t].pc = "idle" \/ ~alive)

\* No handler stays in the repository for ever.
PendingResolved == (pending # {}) ~> (pending = {} \/ ~alive)
=============================================================================
