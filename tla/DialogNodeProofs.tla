-------------------------- MODULE DialogNodeProofs --------------------------
(***************************************************************************)
(* Type correctness of DialogNode, for any constants.                      *)
(***************************************************************************)
EXTENDS DialogNode, TLAPS

-----------------------------------------------------------------------------
(* Types of the helpers *)

LEMMA DialogTypes ==
  ASSUME NEW dlg \in Dialog, NEW status \in Status, NEW n \in Nat
  PROVE  /\ NewDialog \in Dialog /\ RequestedDialog(n) \in Dialog
         /\ SetStatus(dlg, status) \in Dialog
         /\ WithPeerSeq(dlg, n) \in Dialog
         /\ MakeNextSequental(dlg) \in Dialog
  BY DEF Dialog, NewDialog, RequestedDialog, SetStatus, WithPeerSeq, MakeNextSequental, Status

LEMMA StatusTypes ==
  ASSUME NEW action
  PROVE  StatusOfAction(action) \in Status /\ NextOnDelivery(action) \in Status
  BY DEF StatusOfAction, NextOnDelivery, Status

LEMMA AtType ==
  ASSUME NEW pc \in BusyPCs, NEW d \in Dialogs, NEW action \in Action,
         NEW snap \in Dialog, NEW mode \in Modes
  PROVE  At(pc, d, action, snap, mode) \in ThreadStates
  BY DEF At, Busy, ThreadStates

LEMMA AbortType ==
  ASSUME NEW d \in Dialogs, NEW mode \in Modes
  PROVE  Abort(d, mode) \in ThreadStates
<1>1. "ABORT" \in Action /\ "abort" \in BusyPCs
  BY DEF Action, BusyPCs
<1>2. NewDialog \in Dialog
  BY DEF NewDialog, Dialog, Status
<1> QED BY <1>1, <1>2, AtType DEF Abort

LEMMA ResolvingType ==
  ASSUME NEW pc \in ResolvingPCs, NEW h \in Handlers, NEW snap \in Dialog
  PROVE  Resolving(pc, h, snap) \in ThreadStates
  BY DEF Resolving, BusyResolving, ThreadStates

LEMMA ThreadShape ==
  ASSUME TypeOK, NEW t \in Threads
  PROVE  /\ thread[t] \in ThreadStates
         /\ thread[t].pc \in BusyPCs => thread[t] \in Busy
         /\ thread[t].pc \in ResolvingPCs => thread[t] \in BusyResolving
         /\ thread[t].pc \notin BusyPCs \cup ResolvingPCs => thread[t] = Idle
<1>1. thread[t] \in ThreadStates
  BY DEF TypeOK
<1>2. thread[t] \in Busy => thread[t].pc \in BusyPCs
  BY DEF Busy
<1>3. thread[t] \in BusyResolving => thread[t].pc \in ResolvingPCs
  BY DEF BusyResolving
<1>4. thread[t] = Idle => thread[t].pc = "idle"
  BY DEF Idle
<1>5. "idle" \notin BusyPCs \cup ResolvingPCs /\ BusyPCs \cap ResolvingPCs = {}
  BY DEF BusyPCs, ResolvingPCs
<1> QED BY <1>1, <1>2, <1>3, <1>4, <1>5 DEF ThreadStates

\* An operation goes on with the same dialog, action and snapshot.
LEMMA BusyFields ==
  ASSUME NEW op \in Busy
  PROVE  /\ op.dialog \in Dialogs /\ op.action \in Action /\ op.snap \in Dialog
         /\ op.mode \in Modes
         /\ \A pc \in BusyPCs :
              /\ [op EXCEPT !.pc = pc] \in ThreadStates
              /\ \A snap \in Dialog : [op EXCEPT !.pc = pc, !.snap = snap] \in ThreadStates
  BY DEF Busy, ThreadStates

LEMMA EndTypes ==
  ASSUME TypeOK, NEW t \in Threads, thread[t] \in Busy
  PROVE  Raised(t) \in ThreadStates /\ Finished(t) \in ThreadStates
<1>1. Idle \in ThreadStates
  BY DEF ThreadStates
<1>2. thread[t].dialog \in Dialogs /\ [thread[t] EXCEPT !.pc = "remove"] \in ThreadStates
  BY BusyFields DEF BusyPCs
<1>3. Abort(thread[t].dialog, "rescue") \in ThreadStates
  BY <1>2, AbortType DEF Modes
<1> QED BY <1>1, <1>2, <1>3 DEF Raised, Finished

LEMMA GoType ==
  ASSUME TypeOK, NEW t \in Threads, NEW where \in ThreadStates, Go(t, where)
  PROVE  thread' \in [Threads -> ThreadStates]
  BY DEF Go, TypeOK

LEMMA SaveType ==
  ASSUME TypeOK, NEW t \in Threads, thread[t] \in Busy, NEW d \in Dialogs,
         NEW dlg \in Dialog, NEW next \in ThreadStates, Save(t, d, dlg, next)
  PROVE  /\ dialogs' \in [Dialogs -> Dialog \cup {NoDialog}]
         /\ thread' \in [Threads -> ThreadStates]
<1>1. Raised(t) \in ThreadStates
  BY EndTypes
<1>2. CASE Present(d)
  BY <1>2, GoType DEF Save, TypeOK
<1>3. CASE ~Present(d)
  BY <1>1, <1>3, GoType DEF Save, TypeOK
<1> QED BY <1>2, <1>3

LEMMA PeerMessageType ==
  ASSUME NEW m \in PeerMessages
  PROVE  /\ m.action \in Action /\ m.dialog \in Dialogs /\ m.seq \in Nat
         /\ m.action # "ABORT" => m.seq \in 1 .. MaxPeerSeq
<1>1. CASE m \in [action : PeerActions, dialog : Dialogs, seq : 1 .. MaxPeerSeq]
  BY <1>1, NodeAssumption
<1>2. CASE m \in {Message(action, d, UlongMax) :
                    action \in PeerActions \cap {"ABORT"}, d \in Dialogs}
  BY <1>2, NodeAssumption DEF Message
<1> QED BY <1>1, <1>2 DEF PeerMessages

LEMMA SentTypes ==
  ASSUME NEW m \in PeerMessages
  PROVE  /\ AcksOf(m) \subseteq [action : Action \cup {"ACK"}, dialog : Dialogs, seq : Nat]
         /\ Message("ABORT", m.dialog, UlongMax)
              \in [action : Action \cup {"ACK"}, dialog : Dialogs, seq : Nat]
<1>1. UlongMax \in Nat /\ "ABORT" \in Action
  BY NodeAssumption DEF Action
<1> QED BY <1>1, PeerMessageType DEF AcksOf, Message
-----------------------------------------------------------------------------
(* Type correctness *)

LEMMA TypeInit == Init => TypeOK
<1> SUFFICES ASSUME Init PROVE TypeOK
  OBVIOUS
<1>1. Idle \in ThreadStates
  BY DEF ThreadStates
<1> QED BY <1>1 DEF Init, TypeOK

LEMMA TerminateType == TypeOK /\ Terminate => TypeOK'
  BY DEF TypeOK, Terminate

LEMMA UserTypes == ASSUME TypeOK, UserCommand PROVE TypeOK'
<1> "work" \in Threads
  BY DEF Threads
<1>a. /\ {"plain", "rescue", "remove"} = Modes
      /\ {"request", "saveText", "abort"} \subseteq BusyPCs
      /\ {"CREATE_DIALOG", "CLOSE_DIALOG", "MESSAGE", "ABORT"} \subseteq Action
  BY DEF Modes, BusyPCs, Action
<1>b. \A d \in Dialogs : Present(d) => dialogs[d] \in Dialog /\ MakeNextSequental(dialogs[d]) \in Dialog
  BY DEF Present, TypeOK, MakeNextSequental, Dialog
<1>1. ASSUME NEW d \in Dialogs, CreateDialog(d) PROVE TypeOK'
  <2>1. NewDialog \in Dialog /\ MakeNextSequental(NewDialog) \in Dialog
    BY DEF NewDialog, Dialog, Status, MakeNextSequental
  <2>2. At("request", d, "CREATE_DIALOG", MakeNextSequental(NewDialog), "plain") \in ThreadStates
    BY <1>a, <2>1, AtType
  <2>3. thread' \in [Threads -> ThreadStates]
    BY <1>1, <2>2, GoType DEF CreateDialog
  <2> QED BY <1>1, <2>1, <2>3 DEF CreateDialog, TypeOK
<1>2. ASSUME NEW d \in Dialogs, NEW mode \in {"plain", "remove"}, CloseDialog(d, mode)
      PROVE  TypeOK'
  <2>1. At("request", d, "CLOSE_DIALOG", MakeNextSequental(dialogs[d]), mode) \in ThreadStates
    BY <1>2, <1>a, <1>b, AtType DEF CloseDialog
  <2>2. Abort(d, mode) \in ThreadStates
    BY <1>2, <1>a, AbortType
  <2>3. thread' \in [Threads -> ThreadStates]
    BY <1>2, <2>1, <2>2, GoType DEF CloseDialog
  <2> QED BY <1>2, <2>3 DEF CloseDialog, TypeOK
<1>3. ASSUME NEW d \in Dialogs, AbortDialog(d) PROVE TypeOK'
  <2>1. Abort(d, "plain") \in ThreadStates
    BY <1>a, AbortType
  <2>2. thread' \in [Threads -> ThreadStates]
    BY <1>3, <2>1, GoType DEF AbortDialog
  <2> QED BY <1>3, <2>2 DEF AbortDialog, TypeOK
<1>4. ASSUME NEW d \in Dialogs, SendText(d) PROVE TypeOK'
  <2>1. At("saveText", d, "MESSAGE", MakeNextSequental(dialogs[d]), "plain") \in ThreadStates
    BY <1>4, <1>a, <1>b, AtType DEF SendText
  <2>2. thread' \in [Threads -> ThreadStates]
    BY <1>4, <2>1, GoType DEF SendText
  <2> QED BY <1>4, <2>2 DEF SendText, TypeOK
<1>5. ASSUME SaveContact PROVE TypeOK'
  BY <1>5 DEF SaveContact, TypeOK
<1> QED BY <1>1, <1>2, <1>3, <1>4, <1>5 DEF UserCommand

LEMMA ReceiveTypes == ASSUME TypeOK, NEW m \in PeerMessages, Receive(m) PROVE TypeOK'
<1> "channel" \in Threads
  BY DEF Threads
<1>a. m.action \in Action /\ m.dialog \in Dialogs /\ m.seq \in Nat
  BY PeerMessageType
<1>b. {"plain", "rescue"} \subseteq Modes /\ {"request", "accept"} \subseteq BusyPCs
      /\ "VERIFY_KEY" \in Action
  BY DEF Modes, BusyPCs, Action
<1>c. sent \cup AcksOf(m) \subseteq [action : Action \cup {"ACK"}, dialog : Dialogs, seq : Nat]
  BY SentTypes DEF TypeOK
<1>1. CASE AckFails(m)
  BY <1>1, TerminateType DEF AckFails
<1>2. CASE DispatchRejected(m)
  BY <1>2, <1>c DEF DispatchRejected, TypeOK
<1>3. CASE DispatchUnknown(m)
  BY <1>3, <1>c, SentTypes DEF DispatchUnknown, TypeOK
<1>4. CASE DispatchCreate(m)
  <2>1. RequestedDialog(m.seq) \in Dialog
    BY <1>a DEF RequestedDialog, Dialog, Status
  <2>2. MakeNextSequental(RequestedDialog(m.seq)) \in Dialog
    BY <2>1 DEF MakeNextSequental, Dialog
  <2>3. At("request", m.dialog, "VERIFY_KEY", MakeNextSequental(RequestedDialog(m.seq)), "plain")
          \in ThreadStates
    BY <1>a, <1>b, <2>2, AtType
  <2>4. thread' \in [Threads -> ThreadStates]
    BY <1>4, <2>3, GoType DEF DispatchCreate
  <2> QED BY <1>4, <1>a, <1>c, <2>1, <2>4 DEF DispatchCreate, TypeOK
<1>5. CASE DispatchKnown(m)
  <2>1. WithPeerSeq(dialogs[m.dialog], m.seq) \in Dialog
    BY <1>5, <1>a DEF DispatchKnown, Present, TypeOK, WithPeerSeq, Dialog
  <2>2. At("accept", m.dialog, m.action, WithPeerSeq(dialogs[m.dialog], m.seq), "plain")
          \in ThreadStates
    BY <1>a, <1>b, <2>1, AtType
  <2>3. thread' \in [Threads -> ThreadStates]
    BY <1>5, <2>2, GoType DEF DispatchKnown, TypeOK
  <2> QED BY <1>5, <1>c, <2>3 DEF DispatchKnown, TypeOK
<1>6. CASE DispatchText(m)
  <2>1. Abort(m.dialog, "rescue") \in ThreadStates
    BY <1>a, <1>b, AbortType
  <2>2. thread' \in [Threads -> ThreadStates]
    BY <1>6, <2>1, GoType DEF DispatchText, TypeOK
  <2>3. m.seq \in 1 .. MaxPeerSeq
    BY <1>6, PeerMessageType DEF DispatchText
  <2>4. shown' \in [Dialogs \X (1 .. MaxPeerSeq) -> 0 .. 2]
    <3>1. CASE UNCHANGED shown
      BY <3>1 DEF TypeOK
    <3>2. CASE shown' = [shown EXCEPT ![<<m.dialog, m.seq>>] = IF @ = 2 THEN 2 ELSE @ + 1]
      <4>1. shown[<<m.dialog, m.seq>>] \in 0 .. 2
        BY <1>a, <2>3 DEF TypeOK
      <4>2. (IF shown[<<m.dialog, m.seq>>] = 2 THEN 2 ELSE shown[<<m.dialog, m.seq>>] + 1)
              \in 0 .. 2
        BY <4>1
      <4> QED BY <3>2, <4>2 DEF TypeOK
    <3> QED BY <1>6, <3>1, <3>2 DEF DispatchText
  <2> QED BY <1>6, <1>c, <2>2, <2>4 DEF DispatchText, TypeOK
<1> QED BY <1>1, <1>2, <1>3, <1>4, <1>5, <1>6 DEF Receive

LEMMA RequestTypes ==
  ASSUME TypeOK, NEW t \in Threads,
         SendRequest(t) \/ SaveRequest(t) \/ StartAbort(t) \/ SendAbort(t) \/ SaveAbort(t)
  PROVE  TypeOK'
<1>a. thread[t] \in Busy
  BY ThreadShape DEF SendRequest, SaveRequest, StartAbort, SendAbort, SaveAbort, In, BusyPCs
<1>b. /\ thread[t].dialog \in Dialogs /\ thread[t].action \in Action
      /\ thread[t].snap \in Dialog /\ thread[t].mode \in Modes
      /\ \A pc \in BusyPCs : [thread[t] EXCEPT !.pc = pc] \in ThreadStates
      /\ \A pc \in BusyPCs, snap \in Dialog :
           [thread[t] EXCEPT !.pc = pc, !.snap = snap] \in ThreadStates
  BY <1>a, BusyFields
<1>c. Raised(t) \in ThreadStates /\ Finished(t) \in ThreadStates /\ Idle \in ThreadStates
  BY <1>a, EndTypes DEF ThreadStates
<1>d. "saveRequest" \in BusyPCs /\ "sendAbort" \in BusyPCs /\ "saveAbort" \in BusyPCs
      /\ "ABORT" \in Action
  BY DEF BusyPCs, Action
<1>1. CASE SendRequest(t)
  <2> DEFINE key == Handler(thread[t].action, thread[t].dialog, thread[t].snap.thisSeq)
             Sent == IF thread[t].action \in {"VERIFY_KEY", "MESSAGE"}
                     THEN Idle ELSE [thread[t] EXCEPT !.pc = "saveRequest"]
  <2>2. key \in Handlers
    BY <1>b DEF Handler, Message, Handlers, Dialog
  <2>3. key \in [action : Action \cup {"ACK"}, dialog : Dialogs, seq : Nat]
    BY <1>b DEF Handler, Message, Dialog
  <2>4. Sent \in ThreadStates
    BY <1>b, <1>c, <1>d
  <2>5. thread' \in [Threads -> ThreadStates]
    BY <1>1, <1>c, <2>4, GoType DEF SendRequest
  <2>6. pending' \subseteq Handlers
    BY <1>1, <2>2 DEF SendRequest, TypeOK
  <2>7. sent' \subseteq [action : Action \cup {"ACK"}, dialog : Dialogs, seq : Nat]
    BY <1>1, <2>3 DEF SendRequest, TypeOK
  <2> QED BY <1>1, <2>5, <2>6, <2>7 DEF SendRequest, TypeOK
<1>2. CASE SaveRequest(t)
  <2>1. /\ dialogs' \in [Dialogs -> Dialog \cup {NoDialog}]
        /\ thread' \in [Threads -> ThreadStates]
    BY <1>2, <1>a, <1>b, <1>c, SaveType DEF SaveRequest
  <2> QED BY <1>2, <2>1 DEF SaveRequest, TypeOK
<1>3. CASE StartAbort(t)
  <2>1. Message("ABORT", thread[t].dialog, UlongMax)
          \in [action : Action \cup {"ACK"}, dialog : Dialogs, seq : Nat]
    BY <1>b, <1>d, NodeAssumption DEF Message
  <2>2. Present(thread[t].dialog) => MakeNextSequental(dialogs[thread[t].dialog]) \in Dialog
    <3>1. thread[t].dialog \in Dialogs
      BY <1>b
    <3>2. Present(thread[t].dialog) => dialogs[thread[t].dialog] \in Dialog
      BY <3>1 DEF Present, TypeOK
    <3> QED BY <3>2 DEF MakeNextSequental, Dialog
  <2>3. thread' \in [Threads -> ThreadStates]
    <3>1. CASE ~Present(thread[t].dialog)
      BY <1>3, <1>c, <3>1, GoType DEF StartAbort
    <3>2. CASE Present(thread[t].dialog)
      <4> DEFINE started == [thread[t] EXCEPT !.pc = "sendAbort",
                               !.snap = MakeNextSequental(dialogs[thread[t].dialog])]
      <4>1. started \in ThreadStates
        BY <1>b, <1>d, <2>2, <3>2
      <4>2. Go(t, started) \/ Go(t, Finished(t))
        BY <1>3, <3>2 DEF StartAbort
      <4> QED BY <1>c, <4>1, <4>2, GoType
    <3> QED BY <3>1, <3>2
  <2> QED BY <1>3, <2>1, <2>3 DEF StartAbort, TypeOK
<1>4. CASE SendAbort(t)
  <2>1. Message("ABORT", thread[t].dialog, thread[t].snap.thisSeq)
          \in [action : Action \cup {"ACK"}, dialog : Dialogs, seq : Nat]
    BY <1>b, <1>d DEF Message, Dialog
  <2>2. thread' \in [Threads -> ThreadStates]
    BY <1>4, <1>b, <1>c, <1>d, GoType DEF SendAbort
  <2> QED BY <1>4, <2>1, <2>2 DEF SendAbort, TypeOK
<1>5. CASE SaveAbort(t)
  <2>1. SetStatus(thread[t].snap, "ABORTED") \in Dialog
    BY <1>b DEF SetStatus, Dialog, Status
  <2>2. /\ dialogs' \in [Dialogs -> Dialog \cup {NoDialog}]
        /\ thread' \in [Threads -> ThreadStates]
    BY <1>5, <1>a, <1>b, <1>c, <2>1, SaveType DEF SaveAbort
  <2> QED BY <1>5, <2>2 DEF SaveAbort, TypeOK
<1> QED BY <1>1, <1>2, <1>3, <1>4, <1>5

LEMMA WorkTypes == ASSUME TypeOK, SaveText \/ RemoveDialog PROVE TypeOK'
<1> "work" \in Threads
  BY DEF Threads
<1>a. thread["work"] \in Busy
  BY ThreadShape DEF SaveText, RemoveDialog, In, BusyPCs
<1>b. /\ thread["work"].dialog \in Dialogs /\ thread["work"].snap \in Dialog
      /\ [thread["work"] EXCEPT !.pc = "request"] \in ThreadStates
      /\ Idle \in ThreadStates
  BY <1>a, BusyFields DEF BusyPCs, ThreadStates
<1>1. CASE SaveText
  <2>1. /\ dialogs' \in [Dialogs -> Dialog \cup {NoDialog}]
        /\ thread' \in [Threads -> ThreadStates]
    BY <1>1, <1>a, <1>b, SaveType DEF SaveText
  <2> QED BY <1>1, <2>1 DEF SaveText, TypeOK
<1>2. CASE RemoveDialog
  <2>1. thread' \in [Threads -> ThreadStates]
    BY <1>2, <1>b, GoType DEF RemoveDialog
  <2> QED BY <1>2, <1>b, <2>1 DEF RemoveDialog, TypeOK
<1> QED BY <1>1, <1>2

LEMMA AnswerTypes ==
  ASSUME TypeOK,
         \/ Accept \/ AnswerVerifyKey
         \/ AnswerKeyVerification(TRUE) \/ AnswerKeyVerification(FALSE)
         \/ AnswerWithStatus \/ AnswerRemoved \/ AnswerAsserts \/ SaveStatus
  PROVE  TypeOK'
<1> "channel" \in Threads
  BY DEF Threads
<1> DEFINE op == thread["channel"]
<1>a. op \in Busy
  BY ThreadShape DEF Accept, AnswerVerifyKey, AnswerKeyVerification, AnswerWithStatus,
     AnswerRemoved, AnswerAsserts, SaveStatus, In, BusyPCs
<1>b. /\ op.dialog \in Dialogs /\ op.action \in Action /\ op.snap \in Dialog
      /\ [op EXCEPT !.pc = "answer"] \in ThreadStates
  BY <1>a, BusyFields DEF BusyPCs
<1>c. Raised("channel") \in ThreadStates /\ Idle \in ThreadStates
  BY <1>a, EndTypes DEF ThreadStates
<1>d. /\ {"plain", "rescue"} \subseteq Modes /\ {"request", "saveStatus"} \subseteq BusyPCs
      /\ {"KEY_VERIFICATION", "ACCEPT_DIALOG"} \subseteq Action
  BY DEF Modes, BusyPCs, Action
<1>e. /\ Abort(op.dialog, "rescue") \in ThreadStates
      /\ Abort(op.dialog, "plain") \in ThreadStates
  BY <1>b, <1>d, AbortType
<1>f. ASSUME NEW action \in {"KEY_VERIFICATION", "ACCEPT_DIALOG"}, Present(op.dialog),
             AnswerWithRequest(op.dialog, action)
      PROVE  thread' \in [Threads -> ThreadStates]
  <2>1. MakeNextSequental(dialogs[op.dialog]) \in Dialog
    BY <1>b, <1>f DEF Present, TypeOK, MakeNextSequental, Dialog
  <2>2. At("request", op.dialog, action, MakeNextSequental(dialogs[op.dialog]), "plain")
          \in ThreadStates
    BY <1>b, <1>d, <2>1, AtType
  <2> QED BY <1>e, <1>f, <2>2, GoType DEF AnswerWithRequest
<1>1. CASE Accept
  <2>1. /\ dialogs' \in [Dialogs -> Dialog \cup {NoDialog}]
        /\ thread' \in [Threads -> ThreadStates]
    BY <1>1, <1>a, <1>b, SaveType DEF Accept
  <2> QED BY <1>1, <2>1 DEF Accept, TypeOK
<1>2. CASE AnswerVerifyKey
  <2>1. thread' \in [Threads -> ThreadStates]
    BY <1>2, <1>e, <1>f, GoType DEF AnswerVerifyKey
  <2> QED BY <1>2, <1>b, <2>1 DEF AnswerVerifyKey, TypeOK
<1>3. ASSUME NEW proved \in BOOLEAN, AnswerKeyVerification(proved) PROVE TypeOK'
  <2>1. thread' \in [Threads -> ThreadStates]
    BY <1>3, <1>e, <1>f, GoType DEF AnswerKeyVerification
  <2> QED BY <1>3, <2>1 DEF AnswerKeyVerification, TypeOK
<1>4. CASE AnswerWithStatus
  <2> DEFINE moved == SetStatus(dialogs[op.dialog], StatusOfAction(op.action))
  <2>1. moved \in Dialog
    BY <1>4, <1>b, StatusTypes DEF AnswerWithStatus, Present, TypeOK, SetStatus, Dialog
  <2>2. At("saveStatus", op.dialog, op.action, moved, "plain") \in ThreadStates
    BY <1>b, <1>d, <2>1, AtType
  <2>3. thread' \in [Threads -> ThreadStates]
    BY <1>4, <1>e, <2>2, GoType DEF AnswerWithStatus
  <2> QED BY <1>4, <2>3 DEF AnswerWithStatus, TypeOK
<1>5. CASE AnswerRemoved
  <2>1. thread' \in [Threads -> ThreadStates]
    BY <1>5, <1>c, GoType DEF AnswerRemoved
  <2> QED BY <1>5, <2>1 DEF AnswerRemoved, TypeOK
<1>6. CASE AnswerAsserts
  BY <1>6, TerminateType DEF AnswerAsserts
<1>7. CASE SaveStatus
  <2>1. /\ dialogs' \in [Dialogs -> Dialog \cup {NoDialog}]
        /\ thread' \in [Threads -> ThreadStates]
    BY <1>7, <1>a, <1>b, <1>c, SaveType DEF SaveStatus
  <2> QED BY <1>7, <2>1 DEF SaveStatus, TypeOK
<1> QED BY <1>1, <1>2, <1>3, <1>4, <1>5, <1>6, <1>7

\* A handler is taken up by a thread that was idle.
LEMMA ResolveTypes ==
  ASSUME TypeOK, NEW h \in pending,
         \/ Ack(h) \/ Timeout(h) \/ TextResolved("channel", h) \/ TextResolved("timer", h)
  PROVE  TypeOK'
<1>a. "channel" \in Threads /\ "timer" \in Threads
  BY DEF Threads
<1>b. h \in Handlers /\ h.dialog \in Dialogs
  BY DEF TypeOK, Handlers
<1>c. ASSUME NEW status \in Status, Present(h.dialog)
      PROVE  /\ SetStatus(dialogs[h.dialog], status) \in Dialog
             /\ MakeNextSequental(dialogs[h.dialog]) \in Dialog
  BY <1>b, <1>c DEF Present, TypeOK, SetStatus, MakeNextSequental, Dialog
<1>d. "ABORTED" \in Status /\ NextOnDelivery(h.action) \in Status
  BY StatusTypes DEF Status
<1>1. CASE Ack(h)
  <2>1. CASE Terminate
    BY <2>1, TerminateType
  <2>2. CASE CanBecome(h.dialog, NextOnDelivery(h.action))
    <3>1. Resolving("saveAck", h, SetStatus(dialogs[h.dialog], NextOnDelivery(h.action)))
            \in ThreadStates
      BY <1>b, <1>c, <1>d, <2>2, ResolvingType DEF CanBecome, ResolvingPCs
    <3>2. thread' \in [Threads -> ThreadStates]
      BY <1>1, <1>a, <2>2, <3>1, GoType DEF Ack
    <3> QED BY <1>1, <2>2, <3>2 DEF Ack, TypeOK
  <2> QED BY <1>1, <2>1, <2>2 DEF Ack
<1>2. CASE Timeout(h)
  <2>1. CASE Terminate
    BY <2>1, TerminateType
  <2>2. CASE /\ Present(h.dialog)
             /\ \/ Go("timer", Resolving("sendTimeout", h, MakeNextSequental(dialogs[h.dialog])))
                \/ Go("timer", Resolving("saveTimeout", h, SetStatus(dialogs[h.dialog], "ABORTED")))
             /\ UNCHANGED <<dialogs, pending, ciphers, sent, shown, alive, opener, contactKnown>>
    <3>1. /\ Resolving("sendTimeout", h, MakeNextSequental(dialogs[h.dialog])) \in ThreadStates
          /\ Resolving("saveTimeout", h, SetStatus(dialogs[h.dialog], "ABORTED")) \in ThreadStates
      BY <1>b, <1>c, <1>d, <2>2, ResolvingType DEF ResolvingPCs
    <3>2. thread' \in [Threads -> ThreadStates]
      BY <1>a, <2>2, <3>1, GoType
    <3> QED BY <2>2, <3>2 DEF TypeOK
  <2> QED BY <1>2, <2>1, <2>2 DEF Timeout, CanBecome
<1>3. CASE TextResolved("channel", h) \/ TextResolved("timer", h)
  BY <1>3 DEF TextResolved, TypeOK
<1> QED BY <1>1, <1>2, <1>3

LEMMA ResolvedTypes == ASSUME TypeOK, SaveAck \/ SendTimeout \/ SaveTimeout PROVE TypeOK'
<1>a. "channel" \in Threads /\ "timer" \in Threads /\ Idle \in ThreadStates
  BY DEF Threads, ThreadStates
<1>1. ASSUME NEW t \in {"channel", "timer"}, NEW pc \in ResolvingPCs, SaveResolved(t, pc)
      PROVE  TypeOK'
  <2>1. CASE Terminate
    BY <2>1, TerminateType
  <2>2. CASE ~Terminate
    <3>1. thread[t] \in BusyResolving
      BY <1>a, <1>1, ThreadShape DEF SaveResolved, In
    <3>2. thread[t].handler.dialog \in Dialogs /\ thread[t].snap \in Dialog
      BY <3>1 DEF BusyResolving, Handlers
    <3>3. thread' \in [Threads -> ThreadStates]
      BY <1>a, <1>1, <2>2, GoType DEF SaveResolved
    <3> QED BY <1>1, <2>2, <3>2, <3>3 DEF SaveResolved, TypeOK
  <2> QED BY <2>1, <2>2
<1>2. CASE SendTimeout
  <2> DEFINE op == thread["timer"]
  <2>1. op \in BusyResolving
    BY <1>2, <1>a, ThreadShape DEF SendTimeout, In, ResolvingPCs
  <2>2. op.handler \in Handlers /\ op.handler.dialog \in Dialogs /\ op.snap \in Dialog
    BY <2>1 DEF BusyResolving, Handlers
  <2>3. SetStatus(op.snap, "ABORTED") \in Dialog
    BY <2>2 DEF SetStatus, Dialog, Status
  <2>4. Resolving("saveTimeout", op.handler, SetStatus(op.snap, "ABORTED")) \in ThreadStates
    BY <2>2, <2>3, ResolvingType DEF ResolvingPCs
  <2>5. Message("ABORT", op.handler.dialog, op.snap.thisSeq)
          \in [action : Action \cup {"ACK"}, dialog : Dialogs, seq : Nat]
    BY <2>2 DEF Message, Action, Dialog
  <2>6. CASE Terminate
    BY <2>6, TerminateType
  <2>7. CASE ~Terminate
    <3>1. thread' \in [Threads -> ThreadStates] /\ alive' \in BOOLEAN
      BY <1>2, <1>a, <2>4, <2>7, GoType DEF SendTimeout, TypeOK
    <3> QED BY <1>2, <2>5, <2>7, <3>1 DEF SendTimeout, TypeOK
  <2> QED BY <2>6, <2>7
<1> QED BY <1>1, <1>2 DEF SaveAck, SaveTimeout, ResolvingPCs

LEMMA RestartTypes == ASSUME TypeOK, Restart PROVE TypeOK'
  BY DEF TypeOK, Restart, ThreadStates

LEMMA TypeNext == TypeOK /\ [Next]_vars => TypeOK'
<1> SUFFICES ASSUME TypeOK, [Next]_vars PROVE TypeOK'
  OBVIOUS
<1>1. CASE UserCommand
  BY <1>1, UserTypes
<1>2. CASE \E m \in PeerMessages : Receive(m)
  BY <1>2, ReceiveTypes
<1>3. CASE \E h \in pending : Confirm(h)
  BY <1>3, ResolveTypes DEF Confirm
<1>4. CASE CheckInThread
  BY <1>4, ResolveTypes DEF CheckInThread, Expire
<1>5. ASSUME NEW t \in Threads, ThreadStep(t) PROVE TypeOK'
  BY <1>5, RequestTypes, WorkTypes, AnswerTypes, ResolvedTypes DEF ThreadStep
<1>6. CASE Restart
  BY <1>6, RestartTypes
<1>7. CASE UNCHANGED vars
  BY <1>7 DEF vars, TypeOK
<1> QED BY <1>1, <1>2, <1>3, <1>4, <1>5, <1>6, <1>7 DEF Next

\* The variables keep their types in every execution, faults, overlapping
\* operations and a peer that sends anything included: in particular a status
\* outside the enumeration or a negative counter never reaches the storage.
THEOREM TypeCorrect == Spec => []TypeOK
  BY TypeInit, TypeNext, PTL DEF Spec
=============================================================================
