------------------------- MODULE DialogHistoryProofs -------------------------
(***************************************************************************)
(* What the missing lock around the snapshots costs, for any number of     *)
(* dialogs and messages, any faults and any interleaving.  Every step of   *)
(* DialogNode is one of a few kinds (a thread reads a snapshot, sends,     *)
(* stores, ...); the invariants are proved kind by kind.                   *)
(***************************************************************************)
EXTENDS DialogHistory, DialogNodeProofs

-----------------------------------------------------------------------------
(* The kinds of steps *)

Watched(m) == m.action \in Tracked

\* Only the thread t moves.
Only(t) == \A u \in Threads \ {t} : thread'[u] = thread[u]

\* No message that a handler watches leaves, and no handler is stored.
Quiet ==
  /\ sent \subseteq sent' /\ (\A m \in sent' \ sent : ~Watched(m) /\ m.action \in {"ACK", "ABORT"})
  /\ pending' \subseteq pending

\* Neither a thread nor the storage moves.
Stays == UNCHANGED <<dialogs, thread, opener>> /\ Quiet

Restarts ==
  /\ UNCHANGED <<dialogs, opener, sent>> /\ pending' = {}
  /\ \A u \in Threads : thread'[u] = Idle

\* A thread goes where it holds no snapshot.
Rests(t) ==
  /\ Only(t) /\ ~Holds(thread'[t])
  /\ UNCHANGED <<dialogs, opener>> /\ Quiet

\* A snapshot with its next number, or with the next status.
Taken(op, stored) ==
  /\ Fits(op, stored)
  /\ op.snap.status = stored.status
       \/ (op.snap.status \in NextStatuses(stored.status) /\ op.snap.status # "ACCEPTED_WAIT")
  /\ op.pc \in {"request", "saveText"} => op.snap.thisSeq = stored.thisSeq + 1
  /\ op.pc = "request" => op.action \in Tracked \ {"MESSAGE"}
  /\ op.pc = "saveText" => op.action = "MESSAGE"

\* A thread takes a snapshot of a stored dialog.
Reads(t) ==
  /\ Only(t) /\ Holds(thread'[t]) /\ thread'[t].pc # "saveRequest" /\ ~Holds(thread[t])
  /\ DialogOf(thread'[t]) \in Dialogs /\ dialogs[DialogOf(thread'[t])] \in Dialog
  /\ Taken(thread'[t], dialogs[DialogOf(thread'[t])])
  /\ UNCHANGED <<dialogs, opener>> /\ Quiet

\* A thread adds a dialog and makes its first request.
Creates(t, d, who, action, dlg) ==
  /\ Only(t) /\ ~Holds(thread[t])
  /\ thread'[t] = At("request", d, action, MakeNextSequental(dlg), "plain")
  /\ d \in Dialogs /\ ~Present(d) /\ dialogs' = [dialogs EXCEPT ![d] = dlg]
  /\ opener' = [opener EXCEPT ![d] = who] /\ Quiet
  /\ \/ /\ who = "us" /\ action = "CREATE_DIALOG" /\ dlg = NewDialog
        /\ opener[d] = "none" /\ \A m \in sent : m.dialog # d
     \/ /\ who = "peer" /\ action = "VERIFY_KEY" /\ opener[d] # "us"
        /\ \E n \in Nat : dlg = RequestedDialog(n)

KeyOf(op) == Handler(op.action, op.dialog, op.snap.thisSeq)

\* A request leaves, is dropped, or fails to leave.
Sends(t) ==
  /\ Only(t) /\ Moves(t) /\ thread[t] \in Busy /\ thread[t].pc = "request"
  /\ \/ ~Holds(thread'[t])
     \/ thread'[t] = [thread[t] EXCEPT !.pc = "saveRequest"]
  /\ pending' \subseteq pending \cup {KeyOf(thread[t])}
  /\ \/ sent' = sent
     \/ /\ sent' = sent \cup {KeyOf(thread[t])}
        /\ ~Holds(thread'[t]) => thread[t].action \in {"VERIFY_KEY", "MESSAGE"}
  /\ UNCHANGED <<dialogs, opener>>

\* An operation goes on to the save after its ABORT.
GoesOn(t) ==
  /\ Only(t) /\ Holds(thread[t])
  /\ \/ thread[t].pc = "sendAbort" /\ thread'[t].pc = "saveAbort"
        /\ thread'[t].snap = thread[t].snap
     \/ thread[t].pc = "sendTimeout" /\ thread'[t].pc = "saveTimeout"
        /\ thread'[t].snap = SetStatus(thread[t].snap, "ABORTED")
        /\ "ABORTED" \in NextStatuses(thread[t].snap.status)
  /\ DialogOf(thread'[t]) = DialogOf(thread[t]) /\ thread[t].snap \in Dialog
  /\ UNCHANGED <<dialogs, opener>> /\ Quiet

\* A thread stores its snapshot; a text is sent afterwards.
Stores(t) ==
  /\ Only(t) /\ Moves(t) /\ Holds(thread[t]) /\ thread[t].pc # "request"
  /\ thread[t].snap \in Dialog /\ DialogOf(thread[t]) \in Dialogs
  /\ dialogs[DialogOf(thread[t])] \in Dialog
  /\ dialogs' = [dialogs EXCEPT ![DialogOf(thread[t])] = Writes(t)]
  /\ \/ ~Holds(thread'[t])
     \/ /\ thread[t].pc = "saveText" /\ thread[t] \in Busy
        /\ thread'[t] = [thread[t] EXCEPT !.pc = "request"]
  /\ UNCHANGED <<opener, sent>> /\ pending' \subseteq pending

Removes(t) ==
  /\ Only(t) /\ ~Holds(thread[t]) /\ ~Holds(thread'[t])
  /\ \E d \in Dialogs : dialogs' = [dialogs EXCEPT ![d] = NoDialog]
  /\ UNCHANGED <<opener, sent, pending>>

StepOf(t) ==
  \/ Rests(t) \/ Reads(t) \/ Sends(t) \/ GoesOn(t) \/ Stores(t) \/ Removes(t)
  \/ \E d \in Dialogs, who \in {"us", "peer"}, action \in Action, dlg \in Dialog :
       Creates(t, d, who, action, dlg)
Step == Stays \/ Restarts \/ \E t \in Threads : StepOf(t)
-----------------------------------------------------------------------------
(* Every step is of one of the kinds *)

LEMMA PCFacts ==
  /\ {"idle", "abort", "answer", "remove"} \cap (FreshPCs \cup MovedPCs) = {}
  /\ FreshPCs \cap MovedPCs = {}
  /\ ResolvingPCs \subseteq FreshPCs \cup MovedPCs /\ ResolvingPCs \cap BusyPCs = {}
  /\ "idle" \notin ResolvingPCs /\ "idle" \notin BusyPCs
  BY DEF FreshPCs, MovedPCs, ResolvingPCs, BusyPCs

\* The tables agree: where an ABORT may be made the status may become ABORTED.
LEMMA AbortAllowed ==
  ASSUME NEW status \in Status, IsMessageActionAllowed(status, "ABORT")
  PROVE  "ABORTED" \in NextStatuses(status)
  BY DEF Status, IsMessageActionAllowed, AllowedActions, NextStatuses

\* ACK and ABORT are not watched.
LEMMA Unwatched ==
  /\ \A m : \A n \in AcksOf(m) : ~Watched(n) /\ n.action \in {"ACK", "ABORT"}
  /\ \A d, seq : ~Watched(Message("ABORT", d, seq)) /\ Message("ABORT", d, seq).action = "ABORT"
  BY DEF AcksOf, Message, Watched, Tracked, Requests

LEMMA GoesOnly ==
  ASSUME TypeOK, NEW t \in Threads, NEW where, Go(t, where)
  PROVE  Only(t) /\ thread'[t] = where
  BY DEF Go, TypeOK, Only

LEMMA Resting ==
  ASSUME TypeOK, NEW t \in Threads, NEW where, Go(t, where), ~Holds(where),
         UNCHANGED <<dialogs, opener>>, Quiet
  PROVE  Step
<1>1. Rests(t)
  BY GoesOnly DEF Rests
<1> QED BY <1>1 DEF Step, StepOf

\* Where the steps that end an operation lead.
LEMMA Ends ==
  ASSUME NEW t \in Threads, thread[t] \in Busy
  PROVE  /\ ~Holds(Idle) /\ ~Holds(Raised(t)) /\ ~Holds(Finished(t))
         /\ Idle.pc = "idle" /\ Raised(t).pc \in {"idle", "abort"}
         /\ Finished(t).pc \in {"idle", "remove"}
         /\ \A d, mode : ~Holds(Abort(d, mode)) /\ Abort(d, mode).pc = "abort"
<1>1. Idle.pc = "idle" /\ \A d, mode : Abort(d, mode).pc = "abort"
  BY DEF Idle, Abort, At
<1>2. [thread[t] EXCEPT !.pc = "remove"].pc = "remove"
  BY DEF Busy
<1>3. Raised(t).pc \in {"idle", "abort"} /\ Finished(t).pc \in {"idle", "remove"}
  BY <1>1, <1>2 DEF Raised, Finished
<1> QED BY <1>1, <1>3, PCFacts DEF Holds

LEMMA IdleRests == ~Holds(Idle) /\ \A d, mode : ~Holds(Abort(d, mode))
  BY PCFacts DEF Idle, Abort, At, Holds

\* A thread that starts an operation holds nothing.
LEMMA StartsEmpty ==
  ASSUME NEW t \in Threads, CanStart(t)
  PROVE  thread[t].pc = "idle" /\ ~Holds(thread[t])
  BY PCFacts DEF CanStart, In, Holds

LEMMA ReadsBusy ==
  ASSUME TypeOK, NEW t \in Threads, ~Holds(thread[t]), NEW d \in Dialogs, Present(d),
         NEW pc \in {"accept", "request", "saveText", "saveStatus"}, NEW action, NEW snap, NEW mode,
         Go(t, At(pc, d, action, snap, mode)),
         Taken(At(pc, d, action, snap, mode), dialogs[d]),
         UNCHANGED <<dialogs, opener>>, Quiet
  PROVE  Step
<1> DEFINE op == At(pc, d, action, snap, mode)
<1>1. Only(t) /\ thread'[t] = op
  BY GoesOnly
<1>2. op.pc = pc /\ op.dialog = d
  BY DEF At
<1>3. Holds(op) /\ op.pc # "saveRequest" /\ DialogOf(op) = d
  BY <1>2 DEF Holds, FreshPCs, MovedPCs, DialogOf, ResolvingPCs
<1>4. dialogs[d] \in Dialog
  BY DEF Present, TypeOK
<1> HIDE DEF op
<1>5. Reads(t)
  BY <1>1, <1>3, <1>4 DEF Reads, op
<1> QED BY <1>5 DEF Step, StepOf

LEMMA ReadsResolving ==
  ASSUME TypeOK, NEW t \in Threads, ~Holds(thread[t]), NEW h \in Handlers, Present(h.dialog),
         NEW pc \in ResolvingPCs, NEW snap, Go(t, Resolving(pc, h, snap)),
         Taken(Resolving(pc, h, snap), dialogs[h.dialog]),
         UNCHANGED <<dialogs, opener>>, Quiet
  PROVE  Step
<1> DEFINE op == Resolving(pc, h, snap)
<1>1. Only(t) /\ thread'[t] = op
  BY GoesOnly
<1>2. op.pc = pc /\ op.handler = h
  BY DEF Resolving
<1>3. Holds(op) /\ op.pc # "saveRequest" /\ DialogOf(op) = h.dialog
  BY <1>2, PCFacts DEF Holds, DialogOf, ResolvingPCs
<1>4. h.dialog \in Dialogs /\ dialogs[h.dialog] \in Dialog
  BY DEF Present, TypeOK, Handlers
<1> HIDE DEF op
<1>5. Reads(t)
  BY <1>1, <1>3, <1>4 DEF Reads, op
<1> QED BY <1>5 DEF Step, StepOf

\* The snapshot of a message that is made from a stored dialog.
LEMMA NextTaken ==
  ASSUME NEW dlg \in Dialog, dlg # NoDialog, NEW pc \in {"request", "saveText"},
         NEW d, NEW action \in Tracked, NEW mode,
         pc = "saveText" <=> action = "MESSAGE", IsMessageActionAllowed(dlg.status, action)
  PROVE  Taken(At(pc, d, action, MakeNextSequental(dlg), mode), dlg)
<1> DEFINE op == At(pc, d, action, MakeNextSequental(dlg), mode)
<1>1. op.pc = pc /\ op.action = action /\ op.snap = MakeNextSequental(dlg)
  BY DEF At
<1>2. /\ op.snap.status = dlg.status /\ op.snap.peerSeq = dlg.peerSeq
      /\ op.snap.thisSeq = dlg.thisSeq + 1 /\ dlg.thisSeq \in Nat /\ dlg.peerSeq \in Nat
  BY <1>1 DEF MakeNextSequental, Dialog
<1>3. pc \in FreshPCs /\ pc \notin MovedPCs /\ pc \notin {"sendAbort", "saveAbort"}
  BY DEF FreshPCs, MovedPCs
<1> HIDE DEF op
<1>4. Fits(op, dlg)
  BY <1>1, <1>2, <1>3 DEF Fits
<1> QED BY <1>1, <1>2, <1>4 DEF Taken, op

LEMMA UserKinds == ASSUME TypeOK, UserCommand PROVE Step
<1>a. "work" \in Threads /\ (CanStart("work") => ~Holds(thread["work"]))
  BY StartsEmpty DEF Threads
<1>b. ASSUME UNCHANGED <<sent, pending>> PROVE Quiet
  BY <1>b DEF Quiet
<1>c. ASSUME NEW d, NEW mode, Go("work", Abort(d, mode)), UNCHANGED <<dialogs, opener, sent, pending>>
      PROVE  Step
  BY <1>a, <1>b, <1>c, IdleRests, Resting
<1>d. ASSUME NEW d \in Dialogs, Present(d), NEW pc \in {"request", "saveText"},
             NEW action \in Tracked, NEW mode, CanStart("work"),
             pc = "saveText" <=> action = "MESSAGE",
             IsMessageActionAllowed(dialogs[d].status, action),
             Go("work", At(pc, d, action, MakeNextSequental(dialogs[d]), mode)),
             UNCHANGED <<dialogs, opener, sent, pending>>
      PROVE  Step
  <2>1. dialogs[d] \in Dialog /\ dialogs[d] # NoDialog
    BY <1>d DEF Present, TypeOK
  <2>2. Taken(At(pc, d, action, MakeNextSequental(dialogs[d]), mode), dialogs[d])
    BY <1>d, <2>1, NextTaken
  <2> QED BY <1>a, <1>b, <1>d, <2>2, ReadsBusy
<1>1. ASSUME NEW d \in Dialogs, CreateDialog(d) PROVE Step
  <2>1. NewDialog \in Dialog
    BY DEF NewDialog, Dialog, Status
  <2>2. /\ Only("work")
        /\ thread'["work"] = At("request", d, "CREATE_DIALOG", MakeNextSequental(NewDialog), "plain")
    BY <1>1, <1>a, GoesOnly DEF CreateDialog
  <2>3. Creates("work", d, "us", "CREATE_DIALOG", NewDialog)
    BY <1>1, <1>a, <1>b, <2>2 DEF CreateDialog, Creates
  <2> QED BY <1>a, <2>1, <2>3 DEF Step, StepOf, Action
<1>2. ASSUME NEW d \in Dialogs, NEW mode, CloseDialog(d, mode) PROVE Step
  <2>1. "CLOSE_DIALOG" \in Tracked /\ IsMessageActionAllowed("ACTIVE", "CLOSE_DIALOG")
    BY DEF Tracked, Requests, IsMessageActionAllowed, AllowedActions
  <2> QED BY <1>2, <1>c, <1>d, <2>1 DEF CloseDialog
<1>3. ASSUME NEW d \in Dialogs, AbortDialog(d) PROVE Step
  BY <1>3, <1>c DEF AbortDialog
<1>4. ASSUME NEW d \in Dialogs, SendText(d) PROVE Step
  <2>1. "MESSAGE" \in Tracked
    BY DEF Tracked
  <2> QED BY <1>4, <1>d, <2>1 DEF SendText
<1>5. CASE SaveContact
  BY <1>5, <1>b DEF SaveContact, Step, Stays
<1> QED BY <1>1, <1>2, <1>3, <1>4, <1>5 DEF UserCommand

LEMMA ReceiveKinds == ASSUME TypeOK, NEW m \in PeerMessages, Receive(m) PROVE Step
<1>a. "channel" \in Threads /\ (CanStart("channel") => ~Holds(thread["channel"]))
  BY StartsEmpty DEF Threads
<1>b. m.dialog \in Dialogs /\ m.seq \in Nat /\ m.action \in Action
  BY PeerMessageType
<1>c. ASSUME sent \subseteq sent', pending' \subseteq pending,
             sent' \subseteq sent \cup AcksOf(m) \cup {Message("ABORT", m.dialog, UlongMax)}
      PROVE  Quiet
  BY <1>c, Unwatched DEF Quiet
<1>1. CASE AckFails(m)
  BY <1>1, <1>c DEF AckFails, Terminate, Step, Stays
<1>2. CASE DispatchRejected(m)
  BY <1>2, <1>c DEF DispatchRejected, Step, Stays
<1>3. CASE DispatchUnknown(m)
  BY <1>3, <1>c DEF DispatchUnknown, Step, Stays
<1>4. CASE DispatchCreate(m)
  <2> DEFINE dlg == RequestedDialog(m.seq)
  <2>1. dlg \in Dialog
    BY <1>b DEF RequestedDialog, Dialog, Status
  <2>2. /\ Only("channel") /\ Quiet
        /\ thread'["channel"] = At("request", m.dialog, "VERIFY_KEY", MakeNextSequental(dlg), "plain")
    BY <1>4, <1>a, <1>c, GoesOnly DEF DispatchCreate
  <2>3. Creates("channel", m.dialog, "peer", "VERIFY_KEY", dlg)
    BY <1>4, <1>a, <1>b, <2>2 DEF DispatchCreate, Dispatchable, Creates
  <2> HIDE DEF dlg
  <2> QED BY <1>a, <1>b, <2>1, <2>3 DEF Step, StepOf, Action
<1>5. CASE DispatchKnown(m)
  <2> DEFINE snap == WithPeerSeq(dialogs[m.dialog], m.seq)
             op == At("accept", m.dialog, m.action, snap, "plain")
  <2>1. /\ dialogs[m.dialog] \in Dialog /\ dialogs[m.dialog] # NoDialog
        /\ CanStart("channel") /\ Quiet /\ UNCHANGED <<dialogs, opener>> /\ Present(m.dialog)
    BY <1>5, <1>b, <1>c DEF DispatchKnown, Dispatchable, Present, TypeOK
  <2>2. CASE IsSequentalOk(dialogs[m.dialog], m.seq)
    <3>1. Go("channel", op)
      BY <1>5, <2>2 DEF DispatchKnown
    <3>2. /\ snap.status = dialogs[m.dialog].status /\ snap.peerSeq = m.seq
          /\ snap.thisSeq = dialogs[m.dialog].thisSeq
          /\ m.seq >= dialogs[m.dialog].peerSeq /\ snap.thisSeq \in Nat
      BY <1>b, <2>1, <2>2 DEF WithPeerSeq, IsSequentalOk, Dialog
    <3>3. op.pc = "accept" /\ op.snap = snap
      BY DEF At
    <3>4. "accept" \in FreshPCs /\ "accept" \notin MovedPCs
      BY DEF FreshPCs, MovedPCs
    <3>5. Taken(op, dialogs[m.dialog])
      <4> HIDE DEF op, snap
      <4>1. snap.thisSeq >= dialogs[m.dialog].thisSeq
        BY <3>2
      <4> QED BY <2>1, <3>2, <3>3, <3>4, <4>1 DEF Taken, Fits
    <3> QED BY <1>a, <1>b, <2>1, <3>1, <3>5, ReadsBusy
  <2>3. CASE ~IsSequentalOk(dialogs[m.dialog], m.seq)
    BY <1>5, <2>1, <2>3 DEF DispatchKnown, Step, Stays
  <2> QED BY <2>2, <2>3
<1>6. CASE DispatchText(m)
  <2>1. UNCHANGED <<dialogs, opener>> /\ Quiet
    BY <1>6, <1>c DEF DispatchText
  <2>2. CASE UNCHANGED thread
    BY <2>1, <2>2 DEF Step, Stays
  <2>3. CASE Go("channel", Abort(m.dialog, "rescue"))
    BY <1>a, <2>1, <2>3, IdleRests, Resting
  <2> QED BY <1>6, <2>2, <2>3 DEF DispatchText
<1> QED BY <1>1, <1>2, <1>3, <1>4, <1>5, <1>6 DEF Receive

\* A save of what a thread holds: it stores, or the dialog was removed.
LEMMA SaveKinds ==
  ASSUME TypeOK, NEW t \in Threads, thread[t] \in Busy, Holds(thread[t]), thread[t].pc # "request",
         NEW next, Save(t, thread[t].dialog, Writes(t), next),
         next.pc # thread[t].pc,
         ~Holds(next) \/ (thread[t].pc = "saveText" /\ next = [thread[t] EXCEPT !.pc = "request"]),
         UNCHANGED <<opener, sent, pending>>
  PROVE  Step
<1> DEFINE op == thread[t]
<1>1. op.dialog \in Dialogs /\ op.snap \in Dialog /\ op.pc \notin ResolvingPCs
  BY BusyFields, PCFacts DEF Busy
<1>2. DialogOf(op) = op.dialog
  BY <1>1 DEF DialogOf
<1>3. CASE Present(op.dialog)
  <2>1. dialogs' = [dialogs EXCEPT ![op.dialog] = Writes(t)] /\ Go(t, next)
    BY <1>3 DEF Save
  <2>2. Only(t) /\ thread'[t] = next
    BY <2>1, GoesOnly
  <2>3. dialogs[op.dialog] \in Dialog
    BY <1>1, <1>3 DEF Present, TypeOK
  <2>4. Stores(t)
    BY <1>1, <1>2, <2>1, <2>2, <2>3 DEF Stores, Moves
  <2> QED BY <2>4 DEF Step, StepOf
<1>4. CASE ~Present(op.dialog)
  <2>1. Go(t, Raised(t)) /\ UNCHANGED dialogs
    BY <1>4 DEF Save
  <2> QED BY <2>1, Ends, Resting DEF Quiet
<1> QED BY <1>3, <1>4

LEMMA RequestKinds ==
  ASSUME TypeOK, NEW t \in Threads,
         SendRequest(t) \/ SaveRequest(t) \/ StartAbort(t) \/ SendAbort(t) \/ SaveAbort(t)
  PROVE  Step
<1> DEFINE op == thread[t]
<1>a. op.pc \in BusyPCs
  BY DEF SendRequest, SaveRequest, StartAbort, SendAbort, SaveAbort, In, BusyPCs
<1>b. op \in Busy /\ op.dialog \in Dialogs /\ op.snap \in Dialog
  BY <1>a, ThreadShape, BusyFields
<1>c. /\ ~Holds(Raised(t)) /\ ~Holds(Finished(t)) /\ ~Holds(Idle)
      /\ Finished(t).pc \in {"idle", "remove"} /\ Raised(t).pc \in {"idle", "abort"}
      /\ Idle.pc = "idle"
  BY <1>b, Ends
<1>d. /\ {"request", "saveRequest", "sendAbort", "saveAbort"} \subseteq FreshPCs
      /\ {"request", "saveRequest", "sendAbort", "saveAbort"} \cap (MovedPCs \cup ResolvingPCs) = {}
  BY DEF FreshPCs, MovedPCs, ResolvingPCs
<1>1. CASE SendRequest(t)
  <2> DEFINE out == IF op.action \in {"VERIFY_KEY", "MESSAGE"}
                    THEN Idle ELSE [op EXCEPT !.pc = "saveRequest"]
             key == KeyOf(op)
  <2>1. op.pc = "request" /\ UNCHANGED <<dialogs, opener>>
    BY <1>1 DEF SendRequest, In
  <2>2. [op EXCEPT !.pc = "saveRequest"].pc = "saveRequest"
    BY <1>b DEF Busy
  <2>3. \/ Go(t, out) /\ pending' \subseteq pending \cup {key} /\ sent' = sent \cup {key}
        \/ Go(t, out) /\ UNCHANGED <<pending, sent>>
        \/ Go(t, Raised(t)) /\ pending' \subseteq pending \cup {key} /\ UNCHANGED sent
    BY <1>1 DEF SendRequest, KeyOf
  <2>4. CASE Go(t, out)
    <3>1. Only(t) /\ thread'[t] = out
      BY <2>4, GoesOnly
    <3>2. Moves(t)
      BY <1>c, <2>1, <2>2, <3>1 DEF Moves
    <3>3. Holds([op EXCEPT !.pc = "saveRequest"])
      BY <1>d, <2>2 DEF Holds
    <3>4. /\ ~Holds(thread'[t]) \/ thread'[t] = [op EXCEPT !.pc = "saveRequest"]
          /\ ~Holds(thread'[t]) => op.action \in {"VERIFY_KEY", "MESSAGE"}
      BY <1>c, <3>1, <3>3
    <3>5. /\ pending' \subseteq pending \cup {key} /\ (sent' = sent \cup {key} \/ sent' = sent)
      <4>1. Go(t, Raised(t)) => UNCHANGED sent \/ TRUE
        OBVIOUS
      <4> QED BY <2>3
    <3> HIDE DEF out, key
    <3>6. Sends(t)
      BY <1>b, <2>1, <3>1, <3>2, <3>4, <3>5 DEF Sends, key
    <3> QED BY <3>6 DEF Step, StepOf
  <2>5. CASE Go(t, Raised(t)) /\ pending' \subseteq pending \cup {key} /\ UNCHANGED sent
    <3>1. Only(t) /\ thread'[t] = Raised(t)
      BY <2>5, GoesOnly
    <3>2. Moves(t)
      BY <1>c, <2>1, <3>1 DEF Moves
    <3> HIDE DEF key
    <3>3. Sends(t)
      BY <1>b, <1>c, <2>1, <2>5, <3>1, <3>2 DEF Sends, key
    <3> QED BY <3>3 DEF Step, StepOf
  <2> QED BY <2>3, <2>4, <2>5
<1>2. CASE SaveRequest(t)
  <2>1. op.pc = "saveRequest" /\ Save(t, op.dialog, op.snap, Finished(t))
    BY <1>2 DEF SaveRequest, In
  <2>2. Writes(t) = op.snap /\ Finished(t).pc # op.pc /\ Holds(op)
    BY <1>c, <1>d, <2>1 DEF Writes, Holds
  <2> QED BY <1>2, <1>b, <1>c, <2>1, <2>2, SaveKinds DEF SaveRequest
<1>3. CASE StartAbort(t)
  <2> DEFINE snap == MakeNextSequental(dialogs[op.dialog])
             next == [op EXCEPT !.pc = "sendAbort", !.snap = snap]
  <2>1. UNCHANGED <<dialogs, opener, pending>> /\ op.pc = "abort" /\ Quiet
    BY <1>3, Unwatched DEF StartAbort, Quiet, In
  <2>2. CASE Go(t, Idle) \/ Go(t, Raised(t)) \/ Go(t, Finished(t))
    BY <1>c, <2>1, <2>2, Resting
  <2>3. CASE /\ Present(op.dialog) /\ Go(t, next)
             /\ IsMessageActionAllowed(dialogs[op.dialog].status, "ABORT")
    <3>1. dialogs[op.dialog] \in Dialog /\ dialogs[op.dialog] # NoDialog
      BY <1>b, <2>3 DEF Present, TypeOK
    <3>2. /\ snap.status = dialogs[op.dialog].status
          /\ snap.peerSeq >= dialogs[op.dialog].peerSeq
          /\ snap.thisSeq >= dialogs[op.dialog].thisSeq
      BY <3>1 DEF MakeNextSequental, Dialog
    <3>3. "ABORTED" \in NextStatuses(dialogs[op.dialog].status)
      BY <2>3, <3>1, AbortAllowed DEF Dialog
    <3>4. next.pc = "sendAbort" /\ next.dialog = op.dialog /\ next.snap = snap
      BY <1>b DEF Busy
    <3>5. Only(t) /\ thread'[t] = next
      BY <2>3, GoesOnly
    <3>6. DialogOf(next) = op.dialog /\ Holds(next) /\ ~Holds(op)
      BY <1>d, <2>1, <3>4, PCFacts DEF DialogOf, Holds
    <3> HIDE DEF next, snap
    <3>7. Taken(next, dialogs[op.dialog])
      BY <1>d, <3>1, <3>2, <3>3, <3>4 DEF Taken, Fits
    <3>8. Reads(t)
      BY <1>b, <2>1, <3>1, <3>4, <3>5, <3>6, <3>7 DEF Reads
    <3> QED BY <3>8 DEF Step, StepOf
  <2>4. CASE Present(op.dialog)
    BY <1>3, <2>2, <2>3, <2>4 DEF StartAbort
  <2>5. CASE ~Present(op.dialog)
    BY <1>3, <2>2, <2>5 DEF StartAbort
  <2> QED BY <2>4, <2>5
<1>4. CASE SendAbort(t)
  <2> DEFINE next == [op EXCEPT !.pc = "saveAbort"]
  <2>1. UNCHANGED <<dialogs, opener, pending>> /\ op.pc = "sendAbort" /\ Quiet
    BY <1>4, Unwatched DEF SendAbort, Quiet, In
  <2>2. CASE Go(t, next)
    <3>1. next.pc = "saveAbort" /\ next.dialog = op.dialog /\ next.snap = op.snap
      BY <1>b DEF Busy
    <3>2. Only(t) /\ thread'[t] = next
      BY <2>2, GoesOnly
    <3>3. DialogOf(next) = DialogOf(op) /\ Holds(op)
      BY <1>d, <2>1, <3>1 DEF DialogOf, Holds
    <3> HIDE DEF next
    <3>4. GoesOn(t)
      BY <1>b, <2>1, <3>1, <3>2, <3>3 DEF GoesOn
    <3> QED BY <3>4 DEF Step, StepOf
  <2>3. CASE Go(t, Raised(t))
    BY <1>c, <2>1, <2>3, Resting
  <2> QED BY <1>4, <2>2, <2>3 DEF SendAbort
<1>5. CASE SaveAbort(t)
  <2>1. op.pc = "saveAbort" /\ Save(t, op.dialog, SetStatus(op.snap, "ABORTED"), Finished(t))
    BY <1>5 DEF SaveAbort, In
  <2>2. Writes(t) = SetStatus(op.snap, "ABORTED") /\ Finished(t).pc # op.pc /\ Holds(op)
    BY <1>c, <1>d, <2>1 DEF Writes, Holds
  <2> QED BY <1>5, <1>b, <1>c, <2>1, <2>2, SaveKinds DEF SaveAbort
<1> QED BY <1>1, <1>2, <1>3, <1>4, <1>5

LEMMA WorkKinds == ASSUME TypeOK, SaveText \/ RemoveDialog PROVE Step
<1> DEFINE t == "work"
           op == thread[t]
<1>a. t \in Threads
  BY DEF Threads
<1>1. CASE SaveText
  <2> DEFINE next == IF op.dialog \in ciphers THEN [op EXCEPT !.pc = "request"] ELSE Idle
  <2>1. op.pc = "saveText" /\ Save(t, op.dialog, op.snap, next) /\ UNCHANGED <<opener, sent, pending>>
    BY <1>1 DEF SaveText, In
  <2>2. op \in Busy
    BY <1>a, <2>1, ThreadShape DEF BusyPCs
  <2>3. [op EXCEPT !.pc = "request"].pc = "request" /\ Idle.pc = "idle"
    BY <2>2 DEF Busy, Idle
  <2>4. Holds(op) /\ Writes(t) = op.snap /\ ~Holds(Idle)
    BY <2>1, IdleRests DEF Holds, FreshPCs, Writes
  <2>5. next = Idle \/ next = [op EXCEPT !.pc = "request"]
    OBVIOUS
  <2>6. next.pc # op.pc
    BY <2>1, <2>3, <2>5
  <2> HIDE DEF next
  <2> QED BY <1>a, <2>1, <2>2, <2>4, <2>5, <2>6, SaveKinds
<1>2. CASE RemoveDialog
  <2>1. op.pc = "remove" /\ Only(t) /\ thread'[t] = Idle
    BY <1>2, <1>a, GoesOnly DEF RemoveDialog, In
  <2>2. op.dialog \in Dialogs
    BY <1>a, <2>1, ThreadShape, BusyFields DEF BusyPCs
  <2>3. ~Holds(op) /\ ~Holds(Idle)
    BY <2>1, PCFacts, IdleRests DEF Holds
  <2>4. Removes(t)
    BY <1>2, <2>1, <2>2, <2>3 DEF RemoveDialog, Removes
  <2> QED BY <1>a, <2>4 DEF Step, StepOf
<1> QED BY <1>1, <1>2

\* The statuses a notification or a confirmation leads to are never ACCEPTED_WAIT.
LEMMA NextStatusSmall ==
  /\ \A action : StatusOfAction(action) # "ACCEPTED_WAIT"
  /\ \A action : NextOnDelivery(action) # "ACCEPTED_WAIT"
  BY DEF StatusOfAction, NextOnDelivery

\* A stored dialog with its next status.
LEMMA StatusTaken ==
  ASSUME NEW dlg \in Dialog, dlg # NoDialog, NEW next \in NextStatuses(dlg.status),
         next # "ACCEPTED_WAIT", NEW op, op.pc \in MovedPCs, op.snap = SetStatus(dlg, next)
  PROVE  Taken(op, dlg)
<1>1. /\ op.snap.status = next /\ op.snap.peerSeq >= dlg.peerSeq
      /\ op.snap.thisSeq >= dlg.thisSeq
  BY DEF SetStatus, Dialog
<1>2. op.pc \notin FreshPCs /\ op.pc \notin {"request", "saveText", "sendAbort", "saveAbort"}
  BY PCFacts DEF FreshPCs
<1> QED BY <1>1, <1>2 DEF Taken, Fits

LEMMA AnswerKinds ==
  ASSUME TypeOK,
         \/ Accept \/ AnswerVerifyKey \/ AnswerKeyVerification(TRUE)
         \/ AnswerKeyVerification(FALSE) \/ AnswerWithStatus \/ AnswerRemoved
         \/ AnswerAsserts \/ SaveStatus
  PROVE  Step
<1> DEFINE t == "channel"
           op == thread[t]
<1>a. t \in Threads
  BY DEF Threads
<1>b. op.pc \in {"accept", "answer", "saveStatus"}
  BY DEF Accept, AnswerVerifyKey, AnswerKeyVerification, AnswerWithStatus, AnswerRemoved,
         AnswerAsserts, SaveStatus, In
<1>c. op \in Busy /\ op.dialog \in Dialogs
  BY <1>a, <1>b, ThreadShape, BusyFields DEF BusyPCs
<1>d. op.pc = "answer" => ~Holds(op)
  BY PCFacts DEF Holds
<1>e. ASSUME UNCHANGED <<sent, pending>> PROVE Quiet
  BY <1>e DEF Quiet
<1>f. ASSUME NEW mode, Go(t, Abort(op.dialog, mode)), UNCHANGED <<dialogs, opener, sent, pending>>
      PROVE  Step
  BY <1>a, <1>e, <1>f, IdleRests, Resting
<1>g. ASSUME op.pc = "answer", Present(op.dialog), NEW action \in Tracked \ {"MESSAGE"},
             AnswerWithRequest(op.dialog, action), UNCHANGED <<dialogs, opener, sent, pending>>
      PROVE  Step
  <2>1. dialogs[op.dialog] \in Dialog /\ dialogs[op.dialog] # NoDialog
    BY <1>c, <1>g DEF Present, TypeOK
  <2>2. CASE IsMessageActionAllowed(dialogs[op.dialog].status, action)
    <3>1. Taken(At("request", op.dialog, action, MakeNextSequental(dialogs[op.dialog]), "plain"),
                dialogs[op.dialog])
      BY <1>g, <2>1, <2>2, NextTaken
    <3>2. Go(t, At("request", op.dialog, action, MakeNextSequental(dialogs[op.dialog]), "plain"))
      BY <1>g, <2>2 DEF AnswerWithRequest
    <3> QED BY <1>a, <1>c, <1>d, <1>e, <1>g, <3>1, <3>2, ReadsBusy
  <2>3. CASE ~IsMessageActionAllowed(dialogs[op.dialog].status, action)
    BY <1>f, <1>g, <2>3 DEF AnswerWithRequest
  <2> QED BY <2>2, <2>3
<1>1. CASE Accept
  <2> DEFINE next == [op EXCEPT !.pc = "answer"]
  <2>1. op.pc = "accept" /\ Save(t, op.dialog, op.snap, next) /\ UNCHANGED <<opener, sent, pending>>
    BY <1>1 DEF Accept, In
  <2>2. next.pc = "answer"
    BY <1>c DEF Busy
  <2>3. ~Holds(next) /\ Holds(op) /\ Writes(t) = op.snap /\ next.pc # op.pc
    BY <2>1, <2>2, PCFacts DEF Holds, FreshPCs, Writes
  <2> HIDE DEF next
  <2> QED BY <1>a, <1>c, <2>1, <2>3, SaveKinds
<1>2. CASE AnswerVerifyKey
  <2>1. "KEY_VERIFICATION" \in Tracked \ {"MESSAGE"}
    BY DEF Tracked, Requests
  <2> QED BY <1>2, <1>f, <1>g, <2>1 DEF AnswerVerifyKey, In
<1>3. ASSUME NEW proved, AnswerKeyVerification(proved) PROVE Step
  <2>1. "ACCEPT_DIALOG" \in Tracked \ {"MESSAGE"}
    BY DEF Tracked, Requests
  <2> QED BY <1>3, <1>f, <1>g, <2>1 DEF AnswerKeyVerification, In
<1>4. CASE AnswerWithStatus
  <2> DEFINE next == StatusOfAction(op.action)
             snap == SetStatus(dialogs[op.dialog], next)
             there == At("saveStatus", op.dialog, op.action, snap, "plain")
  <2>1. dialogs[op.dialog] \in Dialog /\ dialogs[op.dialog] # NoDialog /\ op.pc = "answer"
    BY <1>4, <1>c DEF AnswerWithStatus, Present, TypeOK, In
  <2>2. CASE IsStateTransitionAllowed(dialogs[op.dialog].status, next)
    <3>1. Go(t, there) /\ Present(op.dialog) /\ UNCHANGED <<dialogs, opener, sent, pending>>
      BY <1>4, <2>2 DEF AnswerWithStatus
    <3>2. there.pc = "saveStatus" /\ there.snap = snap
      BY DEF At
    <3>3. next \in NextStatuses(dialogs[op.dialog].status) /\ next # "ACCEPTED_WAIT"
      BY <2>2, NextStatusSmall DEF IsStateTransitionAllowed
    <3> HIDE DEF next
    <3>4. Taken(there, dialogs[op.dialog])
      BY <2>1, <3>2, <3>3, StatusTaken DEF MovedPCs
    <3> HIDE DEF snap
    <3> QED BY <1>a, <1>c, <1>d, <1>e, <2>1, <3>1, <3>4, ReadsBusy
  <2>3. CASE ~IsStateTransitionAllowed(dialogs[op.dialog].status, next)
    BY <1>4, <1>f, <2>3 DEF AnswerWithStatus
  <2> QED BY <2>2, <2>3
<1>5. CASE AnswerRemoved
  BY <1>5, <1>a, <1>c, <1>e, Ends, Resting DEF AnswerRemoved
<1>6. CASE AnswerAsserts
  BY <1>6, <1>e DEF AnswerAsserts, Terminate, Step, Stays
<1>7. CASE SaveStatus
  <2>1. op.pc = "saveStatus" /\ Save(t, op.dialog, op.snap, Idle) /\ UNCHANGED <<opener, sent, pending>>
    BY <1>7 DEF SaveStatus, In
  <2>2. Idle.pc # op.pc /\ ~Holds(Idle) /\ Holds(op) /\ Writes(t) = op.snap
    BY <2>1, IdleRests DEF Idle, Holds, MovedPCs, Writes
  <2> QED BY <1>a, <1>c, <2>1, <2>2, SaveKinds
<1> QED BY <1>1, <1>2, <1>3, <1>4, <1>5, <1>6, <1>7

LEMMA ResolveKinds ==
  ASSUME TypeOK, NEW h \in pending,
         Ack(h) \/ Timeout(h) \/ TextResolved("channel", h) \/ TextResolved("timer", h)
  PROVE  Step
<1>a. h \in Handlers /\ "channel" \in Threads /\ "timer" \in Threads
  BY DEF TypeOK, Threads
<1>b. ASSUME UNCHANGED <<sent, pending>> PROVE Quiet
  BY <1>b DEF Quiet
<1>c. ASSUME Present(h.dialog) PROVE dialogs[h.dialog] \in Dialog /\ dialogs[h.dialog] # NoDialog
  BY <1>a, <1>c DEF Present, TypeOK, Handlers
<1>d. ASSUME NEW t \in Threads, CanStart(t), NEW pc \in {"saveAck", "saveTimeout"}, NEW next,
             CanBecome(h.dialog, next), next # "ACCEPTED_WAIT",
             Go(t, Resolving(pc, h, SetStatus(dialogs[h.dialog], next))),
             UNCHANGED <<dialogs, opener, sent, pending>>
      PROVE  Step
  <2> DEFINE snap == SetStatus(dialogs[h.dialog], next)
             op == Resolving(pc, h, snap)
  <2>1. op.pc = pc /\ op.snap = snap /\ pc \in MovedPCs /\ pc \in ResolvingPCs
    BY DEF Resolving, MovedPCs, ResolvingPCs
  <2>2. Present(h.dialog) /\ next \in NextStatuses(dialogs[h.dialog].status)
    BY <1>d DEF CanBecome, IsStateTransitionAllowed
  <2>3. Taken(op, dialogs[h.dialog])
    <3> HIDE DEF op
    <3> QED BY <1>c, <1>d, <2>1, <2>2, StatusTaken
  <2>4. Go(t, op) /\ Quiet /\ ~Holds(thread[t])
    BY <1>b, <1>d, StartsEmpty
  <2> HIDE DEF snap
  <2> QED BY <1>a, <1>d, <2>1, <2>2, <2>3, <2>4, ReadsResolving
<1>1. CASE Ack(h)
  <2>1. CanStart("channel")
    BY <1>1 DEF Ack, CanResolve
  <2>2. CASE CanBecome(h.dialog, NextOnDelivery(h.action))
    BY <1>1, <1>a, <1>d, <2>1, <2>2, NextStatusSmall DEF Ack
  <2>3. CASE ~CanBecome(h.dialog, NextOnDelivery(h.action))
    BY <1>1, <1>b, <2>3 DEF Ack, Terminate, Step, Stays
  <2> QED BY <2>2, <2>3
<1>2. CASE Timeout(h)
  <2>1. CanStart("timer")
    BY <1>2 DEF Timeout, CanResolve
  <2>2. CASE /\ Present(h.dialog)
             /\ Go("timer", Resolving("sendTimeout", h, MakeNextSequental(dialogs[h.dialog])))
             /\ UNCHANGED <<dialogs, pending, sent, opener>>
    <3> DEFINE snap == MakeNextSequental(dialogs[h.dialog])
               op == Resolving("sendTimeout", h, snap)
    <3>1. op.pc = "sendTimeout" /\ op.snap = snap
      BY DEF Resolving
    <3>2. /\ snap.status = dialogs[h.dialog].status
          /\ snap.peerSeq >= dialogs[h.dialog].peerSeq /\ snap.thisSeq >= dialogs[h.dialog].thisSeq
      BY <1>c, <2>2 DEF MakeNextSequental, Dialog
    <3>3. "sendTimeout" \in FreshPCs /\ "sendTimeout" \notin MovedPCs /\ "sendTimeout" \in ResolvingPCs
      BY DEF FreshPCs, MovedPCs, ResolvingPCs
    <3>4. Taken(op, dialogs[h.dialog])
      <4> HIDE DEF op, snap
      <4> QED BY <1>c, <2>2, <3>1, <3>2, <3>3 DEF Taken, Fits
    <3>5. Go("timer", op) /\ Quiet /\ ~Holds(thread["timer"])
      BY <1>a, <1>b, <2>1, <2>2, StartsEmpty
    <3> HIDE DEF snap
    <3> QED BY <1>a, <2>2, <3>3, <3>4, <3>5, ReadsResolving
  <2>3. CASE /\ CanBecome(h.dialog, "ABORTED")
             /\ Go("timer", Resolving("saveTimeout", h, SetStatus(dialogs[h.dialog], "ABORTED")))
             /\ UNCHANGED <<dialogs, pending, sent, opener>>
    BY <1>a, <1>d, <2>1, <2>3
  <2>4. CASE Terminate
    BY <1>b, <2>4 DEF Terminate, Step, Stays
  <2> QED BY <1>2, <2>2, <2>3, <2>4 DEF Timeout
<1>3. ASSUME NEW t, TextResolved(t, h) PROVE Step
  BY <1>3 DEF TextResolved, Step, Stays, Quiet
<1> QED BY <1>1, <1>2, <1>3

LEMMA ResolvedKinds == ASSUME TypeOK, SaveAck \/ SendTimeout \/ SaveTimeout PROVE Step
<1>a. "channel" \in Threads /\ "timer" \in Threads
  BY DEF Threads
<1>1. ASSUME NEW t \in Threads, NEW pc \in {"saveAck", "saveTimeout"}, SaveResolved(t, pc) PROVE Step
  <2> DEFINE op == thread[t]
  <2>1. op.pc = pc /\ op \in BusyResolving
    BY <1>1, ThreadShape DEF SaveResolved, In, ResolvingPCs
  <2>2. op.snap \in Dialog /\ op.handler.dialog \in Dialogs
    BY <2>1 DEF BusyResolving, Handlers
  <2>3. /\ Holds(op) /\ DialogOf(op) = op.handler.dialog /\ Writes(t) = op.snap
        /\ Idle.pc # op.pc /\ ~Holds(Idle) /\ op.pc # "request"
    BY <2>1, IdleRests DEF Holds, MovedPCs, DialogOf, ResolvingPCs, Writes, Idle
  <2>4. CASE Present(op.handler.dialog)
    <3>1. /\ dialogs' = [dialogs EXCEPT ![op.handler.dialog] = op.snap] /\ Go(t, Idle)
          /\ pending' \subseteq pending /\ UNCHANGED <<sent, opener>>
      BY <1>1, <2>4 DEF SaveResolved
    <3>2. Only(t) /\ thread'[t] = Idle
      BY <3>1, GoesOnly
    <3>3. dialogs[op.handler.dialog] \in Dialog
      BY <2>2, <2>4 DEF Present, TypeOK
    <3>4. Stores(t)
      BY <2>2, <2>3, <3>1, <3>2, <3>3 DEF Stores, Moves
    <3> QED BY <3>4 DEF Step, StepOf
  <2>5. CASE ~Present(op.handler.dialog)
    BY <1>1, <2>5 DEF SaveResolved, Terminate, Step, Stays, Quiet
  <2> QED BY <2>4, <2>5
<1>2. CASE SendTimeout
  <2> DEFINE op == thread["timer"]
             abort == Message("ABORT", op.handler.dialog, op.snap.thisSeq)
             next == Resolving("saveTimeout", op.handler, SetStatus(op.snap, "ABORTED"))
  <2>1. op.pc = "sendTimeout" /\ op \in BusyResolving
    BY <1>2, <1>a, ThreadShape DEF SendTimeout, In, ResolvingPCs
  <2>2. op.snap \in Dialog /\ DialogOf(op) = op.handler.dialog /\ Holds(op)
    BY <2>1 DEF BusyResolving, DialogOf, ResolvingPCs, Holds, FreshPCs
  <2>3. CASE Terminate
    BY <2>3 DEF Terminate, Step, Stays, Quiet
  <2>4. CASE ~Terminate
    <3>1. Quiet /\ UNCHANGED <<dialogs, opener>>
      BY <1>2, <2>4, Unwatched DEF SendTimeout, Quiet
    <3>2. CASE IsStateTransitionAllowed(op.snap.status, "ABORTED")
      <4>1. Go("timer", next)
        BY <1>2, <2>4, <3>2 DEF SendTimeout
      <4>2. Only("timer") /\ thread'["timer"] = next
        BY <1>a, <4>1, GoesOnly
      <4>3. /\ next.pc = "saveTimeout" /\ next.handler = op.handler
            /\ next.snap = SetStatus(op.snap, "ABORTED")
        BY DEF Resolving
      <4>4. DialogOf(next) = DialogOf(op) /\ "ABORTED" \in NextStatuses(op.snap.status)
        BY <2>2, <3>2, <4>3 DEF DialogOf, ResolvingPCs, IsStateTransitionAllowed
      <4> HIDE DEF next
      <4>5. GoesOn("timer")
        BY <2>1, <2>2, <3>1, <4>2, <4>3, <4>4 DEF GoesOn
      <4> QED BY <1>a, <4>5 DEF Step, StepOf
    <3>3. CASE ~IsStateTransitionAllowed(op.snap.status, "ABORTED")
      BY <1>2, <2>4, <3>1, <3>3 DEF SendTimeout, Step, Stays
    <3> QED BY <3>2, <3>3
  <2> QED BY <2>3, <2>4
<1> QED BY <1>a, <1>1, <1>2 DEF SaveAck, SaveTimeout

LEMMA NextKinds == ASSUME TypeOK, Next PROVE Step
<1>1. CASE UserCommand
  BY <1>1, UserKinds
<1>2. CASE \E m \in PeerMessages : Receive(m)
  BY <1>2, ReceiveKinds
<1>3. CASE \E h \in pending : Confirm(h) \/ Expire(h)
  BY <1>3, ResolveKinds DEF Confirm, Expire
<1>4. CASE \E t \in Threads : ThreadStep(t)
  BY <1>4, RequestKinds, WorkKinds, AnswerKinds, ResolvedKinds DEF ThreadStep
<1>5. CASE Restart
  BY <1>5 DEF Restart, Step, Restarts
<1> QED BY <1>1, <1>2, <1>3, <1>4, <1>5 DEF Next, CheckInThread
-----------------------------------------------------------------------------
(* Who opened a dialog bounds its statuses and the messages sent for it *)

\* A dialog of the peer waits for its VERIFY_KEY or is over (nothing sets
\* ACCEPTED_WAIT); a dialog of ours is never in CREATE_REQUEST.
Legal(who, status) ==
  /\ who # "none"
  /\ who = "peer" => status \in {"CREATE_REQUEST", "ABORTED"}
  /\ who = "us" => status # "CREATE_REQUEST"

SnapLegal(op, who) ==
  /\ Legal(who, op.snap.status)
  /\ op.pc \in {"request", "saveText"} =>
       op.action \in Tracked /\ IsMessageActionAllowed(op.snap.status, op.action)
  /\ op.pc = "saveText" => op.action = "MESSAGE"

Known(m) ==
  /\ Watched(m) /\ opener[m.dialog] # "none"
  /\ opener[m.dialog] = "peer" => m.action = "VERIFY_KEY"

SnapsLegal ==
  \A t \in Threads : Holds(thread[t]) => SnapLegal(thread[t], opener[DialogOf(thread[t])])
StoredLegal == \A d \in Dialogs : Present(d) => Legal(opener[d], dialogs[d].status)
SentKnown == \A m \in sent : Watched(m) => Known(m)
PendingKnown == \A h \in pending : Known(h)
Openers == SnapsLegal /\ StoredLegal /\ SentKnown /\ PendingKnown

LEMMA HoldsType ==
  ASSUME TypeOK, NEW t \in Threads, Holds(thread[t])
  PROVE  DialogOf(thread[t]) \in Dialogs /\ thread[t].snap \in Dialog
<1> DEFINE op == thread[t]
<1>1. op.pc \in BusyPCs \cup ResolvingPCs
  BY DEF Holds, FreshPCs, MovedPCs, BusyPCs, ResolvingPCs
<1>2. CASE op \in Busy /\ op.pc \in BusyPCs
  BY <1>2, BusyFields, PCFacts DEF DialogOf
<1>3. CASE op \in BusyResolving /\ op.pc \in ResolvingPCs
  BY <1>3 DEF BusyResolving, Handlers, DialogOf
<1> QED BY <1>1, <1>2, <1>3, ThreadShape

\* What the tables say of the statuses a dialog of each opener can have.
LEMMA LegalTables ==
  ASSUME NEW who \in {"none", "us", "peer"}, NEW status \in Status, Legal(who, status)
  PROVE  /\ Legal(who, "ABORTED")
         /\ \A next \in NextStatuses(status) : next # "ACCEPTED_WAIT" => Legal(who, next)
         /\ \A action \in Tracked : IsMessageActionAllowed(status, action) =>
              (who = "peer" <=> action = "VERIFY_KEY")
<1>1. Legal(who, "ABORTED")
  BY DEF Legal
<1>2. ASSUME NEW next \in NextStatuses(status), next # "ACCEPTED_WAIT" PROVE Legal(who, next)
  BY <1>2 DEF Legal, NextStatuses, Status
<1>3. ASSUME NEW action \in Tracked, IsMessageActionAllowed(status, action)
      PROVE  who = "peer" <=> action = "VERIFY_KEY"
  <2>1. action # "ABORT"
    BY DEF Tracked, Requests
  <2>2. CASE who = "peer"
    BY <1>3, <2>1, <2>2 DEF Legal, IsMessageActionAllowed, AllowedActions
  <2>3. CASE who = "us"
    BY <1>3, <2>3 DEF Legal, IsMessageActionAllowed, AllowedActions, Status
  <2> QED BY <2>2, <2>3 DEF Legal
<1> QED BY <1>1, <1>2, <1>3

LEMMA TakenLegal ==
  ASSUME NEW dlg \in Dialog, NEW op, Taken(op, dlg), NEW who \in {"none", "us", "peer"},
         Legal(who, dlg.status)
  PROVE  SnapLegal(op, who)
<1>1. dlg.status \in Status
  BY DEF Dialog
<1>2. Legal(who, op.snap.status)
  BY <1>1, LegalTables DEF Taken
<1>3. op.pc \in {"request", "saveText"} => op.action \in Tracked
  BY DEF Taken, Tracked
<1>4. op.pc \in {"request", "saveText"} => IsMessageActionAllowed(op.snap.status, op.action)
  BY DEF Taken, Fits, FreshPCs
<1> QED BY <1>2, <1>3, <1>4 DEF SnapLegal, Taken

\* The opener of a dialog is recorded once.
LEMMA OpenersStay ==
  ASSUME TypeOK, Step, NEW d \in Dialogs, opener[d] # "none"
  PROVE  opener'[d] = opener[d]
<1>1. CASE UNCHANGED opener
  BY <1>1
<1>2. ASSUME NEW t \in Threads, NEW e \in Dialogs, NEW who \in {"us", "peer"},
             NEW action, NEW dlg, Creates(t, e, who, action, dlg)
      PROVE  opener'[d] = opener[d]
  BY <1>2 DEF Creates, TypeOK
<1> QED BY <1>1, <1>2 DEF Step, Stays, Restarts, StepOf, Rests, Reads, Sends, GoesOn, Stores, Removes

\* How a thread comes to hold what it did not hold before.
LEMMA MoverKinds ==
  ASSUME Step, NEW t \in Threads, thread'[t] # thread[t], Holds(thread'[t])
  PROVE  \/ Reads(t) \/ Sends(t) \/ GoesOn(t) \/ Stores(t)
         \/ \E d \in Dialogs, who \in {"us", "peer"}, action \in Action, dlg \in Dialog :
              Creates(t, d, who, action, dlg)
<1>1. ~Holds(Idle)
  BY IdleRests
<1>2. PICK u \in Threads : StepOf(u)
  BY <1>1 DEF Step, Stays, Restarts
<1>3. Only(u)
  BY <1>2 DEF StepOf, Rests, Reads, Sends, GoesOn, Stores, Removes, Creates
<1>4. t = u
  BY <1>3 DEF Only
<1> QED BY <1>2, <1>4 DEF StepOf, Rests, Removes

\* Neither restarting nor anything else makes a dialog be stored otherwise than
\* by the thread that stores it.
LEMMA StoreKinds ==
  ASSUME TypeOK, Step, NEW d \in Dialogs, dialogs'[d] # dialogs[d]
  PROVE  \/ dialogs'[d] = NoDialog /\ \E t \in Threads : Removes(t)
         \/ \E t \in Threads : Stores(t) /\ DialogOf(thread[t]) = d /\ dialogs'[d] = Writes(t)
         \/ \E t \in Threads, who \in {"us", "peer"}, action \in Action, dlg \in Dialog :
              Creates(t, d, who, action, dlg) /\ dialogs'[d] = dlg
<1>1. dialogs' # dialogs
  OBVIOUS
<1>2. PICK t \in Threads : StepOf(t)
  BY <1>1 DEF Step, Stays, Restarts
<1>3. CASE Removes(t)
  BY <1>3 DEF Removes, TypeOK
<1>4. CASE Stores(t)
  BY <1>4 DEF Stores, TypeOK
<1>5. ASSUME NEW e \in Dialogs, NEW who \in {"us", "peer"}, NEW action \in Action,
             NEW dlg \in Dialog, Creates(t, e, who, action, dlg)
      PROVE  Creates(t, d, who, action, dlg) /\ dialogs'[d] = dlg
  <2>1. dialogs' = [dialogs EXCEPT ![e] = dlg]
    BY <1>5 DEF Creates
  <2>2. e = d /\ dialogs'[d] = dlg
    BY <2>1 DEF TypeOK
  <2> QED BY <1>5, <2>2
<1>6. Removes(t) \/ Stores(t) \/ \E e \in Dialogs, who \in {"us", "peer"}, action \in Action,
         dlg \in Dialog : Creates(t, e, who, action, dlg)
  BY <1>1, <1>2 DEF StepOf, Rests, Reads, Sends, GoesOn
<1> QED BY <1>3, <1>4, <1>5, <1>6

\* What a thread stores has the status of its snapshot, or ABORTED.
LEMMA WritesSnap ==
  ASSUME NEW t \in Threads, thread[t].snap \in Dialog
  PROVE  /\ Writes(t) \in Dialog
         /\ Writes(t).peerSeq = thread[t].snap.peerSeq
         /\ Writes(t).thisSeq = thread[t].snap.thisSeq
         /\ IF thread[t].pc = "saveAbort" THEN Writes(t).status = "ABORTED"
            ELSE Writes(t) = thread[t].snap
  BY DEF Writes, SetStatus, Dialog, Status

LEMMA SnapsNext == ASSUME TypeOK, TypeOK', Openers, Step PROVE SnapsLegal'
<1> SUFFICES ASSUME NEW t \in Threads, Holds(thread'[t])
             PROVE  SnapLegal(thread'[t], opener'[DialogOf(thread'[t])])
  BY DEF SnapsLegal
<1> DEFINE op == thread[t]
           next == thread'[t]
<1>a. opener \in [Dialogs -> {"none", "us", "peer"}]
  BY DEF TypeOK
<1>b. ASSUME Holds(op), DialogOf(next) = DialogOf(op)
      PROVE  /\ SnapLegal(op, opener'[DialogOf(next)]) /\ opener'[DialogOf(next)] = opener[DialogOf(op)]
             /\ opener[DialogOf(op)] \in {"none", "us", "peer"} /\ op.snap.status \in Status
             /\ Legal(opener[DialogOf(op)], op.snap.status)
  <2>1. DialogOf(op) \in Dialogs /\ op.snap \in Dialog
    BY <1>b, HoldsType
  <2>2. SnapLegal(op, opener[DialogOf(op)])
    BY <1>b DEF Openers, SnapsLegal
  <2>3. opener[DialogOf(op)] # "none" /\ Legal(opener[DialogOf(op)], op.snap.status)
    BY <2>2 DEF SnapLegal, Legal
  <2>4. opener'[DialogOf(op)] = opener[DialogOf(op)]
    BY <2>1, <2>3, OpenersStay
  <2>5. op.snap.status \in Status
    BY <2>1 DEF Dialog
  <2> QED BY <1>a, <1>b, <2>1, <2>2, <2>3, <2>4, <2>5
<1>1. CASE next = op
  BY <1>1, <1>b
<1>2. CASE next # op
  <2>1. CASE Reads(t)
    <3> DEFINE d == DialogOf(next)
    <3>1. d \in Dialogs /\ dialogs[d] \in Dialog /\ Taken(next, dialogs[d]) /\ opener' = opener
      BY <2>1 DEF Reads
    <3>2. Present(d)
      BY <3>1, NodeAssumption DEF Present
    <3>3. Legal(opener[d], dialogs[d].status)
      BY <3>1, <3>2 DEF Openers, StoredLegal
    <3> HIDE DEF d, next
    <3>4. SnapLegal(next, opener[d])
      BY <1>a, <3>1, <3>3, TakenLegal
    <3>5. SnapLegal(next, opener'[DialogOf(next)])
      BY <3>1, <3>4 DEF d
    <3> QED BY <3>5 DEF next
  <2>2. CASE Sends(t)
    <3>1. next = [op EXCEPT !.pc = "saveRequest"] /\ op \in Busy /\ op.pc = "request"
      BY <2>2 DEF Sends
    <3>2. next.pc = "saveRequest" /\ next.dialog = op.dialog /\ next.snap = op.snap
      BY <3>1 DEF Busy
    <3>3. Holds(op) /\ DialogOf(next) = DialogOf(op)
      BY <3>1, <3>2 DEF Holds, FreshPCs, DialogOf, ResolvingPCs
    <3>4. SnapLegal(op, opener'[DialogOf(next)])
      BY <1>b, <3>3
    <3> HIDE DEF next
    <3>5. SnapLegal(next, opener'[DialogOf(next)])
      BY <3>2, <3>4 DEF SnapLegal
    <3> QED BY <3>5 DEF next
  <2>3. CASE GoesOn(t)
    <3>1. Holds(op) /\ DialogOf(next) = DialogOf(op) /\ next.pc \notin {"request", "saveText"}
      BY <2>3 DEF GoesOn
    <3>2. next.snap.status \in {op.snap.status, "ABORTED"}
      BY <2>3 DEF GoesOn, SetStatus, Dialog
    <3>3. /\ Legal(opener'[DialogOf(next)], op.snap.status)
          /\ Legal(opener'[DialogOf(next)], "ABORTED")
      BY <1>b, <3>1, LegalTables
    <3> HIDE DEF next
    <3>4. SnapLegal(next, opener'[DialogOf(next)])
      BY <3>1, <3>2, <3>3 DEF SnapLegal
    <3> QED BY <3>4 DEF next
  <2>4. CASE Stores(t)
    <3>1. next = [op EXCEPT !.pc = "request"] /\ op \in Busy /\ op.pc = "saveText"
      BY <2>4 DEF Stores
    <3>2. next.pc = "request" /\ next.dialog = op.dialog /\ next.snap = op.snap /\ next.action = op.action
      BY <3>1 DEF Busy
    <3>3. Holds(op) /\ DialogOf(next) = DialogOf(op)
      BY <3>1, <3>2 DEF Holds, FreshPCs, DialogOf, ResolvingPCs
    <3>4. SnapLegal(op, opener'[DialogOf(next)])
      BY <1>b, <3>3
    <3> HIDE DEF next
    <3>5. SnapLegal(next, opener'[DialogOf(next)])
      BY <3>1, <3>2, <3>4 DEF SnapLegal
    <3> QED BY <3>5 DEF next
  <2>5. ASSUME NEW d \in Dialogs, NEW who \in {"us", "peer"}, NEW action \in Action, NEW dlg \in Dialog,
               Creates(t, d, who, action, dlg)
        PROVE  SnapLegal(next, opener'[DialogOf(next)])
    <3>1. next = At("request", d, action, MakeNextSequental(dlg), "plain") /\ opener'[d] = who
      BY <1>a, <2>5 DEF Creates
    <3>2. /\ next.pc = "request" /\ next.dialog = d /\ next.action = action
          /\ next.snap = MakeNextSequental(dlg)
      BY <3>1 DEF At
    <3>3. next.snap.status = dlg.status
      BY <3>2 DEF MakeNextSequental, Dialog
    <3>4. \/ who = "us" /\ action = "CREATE_DIALOG" /\ dlg.status = "NEW"
          \/ who = "peer" /\ action = "VERIFY_KEY" /\ dlg.status = "CREATE_REQUEST"
      BY <2>5 DEF Creates, NewDialog, RequestedDialog
    <3>5. DialogOf(next) = d
      BY <3>2 DEF DialogOf, ResolvingPCs
    <3> HIDE DEF next
    <3> QED BY <3>1, <3>2, <3>3, <3>4, <3>5
         DEF SnapLegal, Legal, Tracked, Requests, IsMessageActionAllowed, AllowedActions
  <2> QED BY <1>2, <2>1, <2>2, <2>3, <2>4, <2>5, MoverKinds
<1> QED BY <1>1, <1>2

LEMMA StoredNext == ASSUME TypeOK, TypeOK', Openers, Step PROVE StoredLegal'
<1> SUFFICES ASSUME NEW d \in Dialogs, Present(d)'
             PROVE  Legal(opener'[d], dialogs'[d].status)
  BY DEF StoredLegal
<1>a. opener \in [Dialogs -> {"none", "us", "peer"}]
  BY DEF TypeOK
<1>1. CASE dialogs'[d] = dialogs[d]
  <2>1. Legal(opener[d], dialogs[d].status)
    BY <1>1 DEF Openers, StoredLegal, Present
  <2>2. opener'[d] = opener[d]
    BY <2>1, OpenersStay DEF Legal
  <2> QED BY <1>1, <2>1, <2>2
<1>2. ASSUME NEW t \in Threads, Stores(t), DialogOf(thread[t]) = d, dialogs'[d] = Writes(t)
      PROVE  Legal(opener'[d], dialogs'[d].status)
  <2>1. thread[t].snap \in Dialog /\ Holds(thread[t]) /\ opener' = opener
    BY <1>2 DEF Stores
  <2>2. Legal(opener[d], thread[t].snap.status)
    BY <1>2, <2>1 DEF Openers, SnapsLegal, SnapLegal
  <2>3. thread[t].snap.status \in Status
    BY <2>1 DEF Dialog
  <2>4. Legal(opener[d], "ABORTED")
    BY <1>a, <2>2, <2>3, LegalTables
  <2>5. Writes(t).status \in {thread[t].snap.status, "ABORTED"}
    BY <2>1, WritesSnap
  <2> QED BY <1>2, <2>1, <2>2, <2>4, <2>5
<1>3. ASSUME NEW t \in Threads, NEW who \in {"us", "peer"}, NEW action \in Action, NEW dlg \in Dialog,
             Creates(t, d, who, action, dlg), dialogs'[d] = dlg
      PROVE  Legal(opener'[d], dialogs'[d].status)
  <2>1. opener'[d] = who
    BY <1>a, <1>3 DEF Creates
  <2>2. (who = "us" /\ dlg.status = "NEW") \/ (who = "peer" /\ dlg.status = "CREATE_REQUEST")
    BY <1>3 DEF Creates, NewDialog, RequestedDialog
  <2> QED BY <1>3, <2>1, <2>2 DEF Legal
<1> QED BY <1>1, <1>2, <1>3, StoreKinds DEF Present

\* A watched message, or a handler, is new only in a step that sends it.
LEMMA NewMessage ==
  ASSUME Step, NEW m,
         (m \in sent' /\ Watched(m) /\ m \notin sent) \/ m \in pending' \ pending
  PROVE  \E t \in Threads : Sends(t) /\ m = KeyOf(thread[t])
<1>1. PICK t \in Threads : StepOf(t)
  BY DEF Step, Stays, Restarts, Quiet
<1>2. Sends(t)
  BY <1>1 DEF StepOf, Rests, Reads, GoesOn, Stores, Removes, Creates, Quiet
<1> QED BY <1>2 DEF Sends

LEMMA MessagesNext == ASSUME TypeOK, TypeOK', Openers, Step PROVE SentKnown' /\ PendingKnown'
<1>a. opener \in [Dialogs -> {"none", "us", "peer"}]
  BY DEF TypeOK
<1>1. ASSUME NEW m, Known(m), m.dialog \in Dialogs PROVE Known(m)'
  BY <1>1, OpenersStay DEF Known, Watched
<1>2. ASSUME NEW t \in Threads, Sends(t) PROVE Known(KeyOf(thread[t])) /\ KeyOf(thread[t]).dialog \in Dialogs
  <2> DEFINE op == thread[t]
             m == KeyOf(op)
  <2>1. op \in Busy /\ op.pc = "request" /\ op.dialog \in Dialogs /\ op.snap \in Dialog
    BY <1>2, BusyFields DEF Sends
  <2>2. m.action = op.action /\ m.dialog = op.dialog
    BY DEF KeyOf, Handler, Message
  <2>3. Holds(op) /\ DialogOf(op) = op.dialog
    BY <2>1 DEF Holds, FreshPCs, DialogOf, ResolvingPCs
  <2>4. SnapLegal(op, opener[op.dialog])
    BY <2>3 DEF Openers, SnapsLegal
  <2>5. /\ op.action \in Tracked /\ IsMessageActionAllowed(op.snap.status, op.action)
        /\ Legal(opener[op.dialog], op.snap.status) /\ op.snap.status \in Status
    BY <2>1, <2>4 DEF SnapLegal, Dialog
  <2>6. opener[op.dialog] = "peer" => op.action = "VERIFY_KEY"
    BY <1>a, <2>1, <2>5, LegalTables
  <2> HIDE DEF m
  <2>7. Known(m) /\ m.dialog \in Dialogs
    BY <2>1, <2>2, <2>5, <2>6 DEF Known, Watched, Legal
  <2> QED BY <2>7 DEF m
<1>3. ASSUME NEW m \in sent', Watched(m) PROVE Known(m)'
  <2>1. CASE m \in sent
    BY <1>1, <1>3, <2>1 DEF Openers, SentKnown, TypeOK
  <2>2. CASE m \notin sent
    BY <1>1, <1>2, <1>3, <2>2, NewMessage
  <2> QED BY <2>1, <2>2
<1>4. ASSUME NEW m \in pending' PROVE Known(m)'
  <2>1. CASE m \in pending
    BY <1>1, <2>1 DEF Openers, PendingKnown, TypeOK, Handlers
  <2>2. CASE m \notin pending
    BY <1>1, <1>2, <1>4, <2>2, NewMessage
  <2> QED BY <2>1, <2>2
<1> QED BY <1>3, <1>4 DEF SentKnown, PendingKnown, Watched
-----------------------------------------------------------------------------
(* Snapshots nobody made out of date fit what is stored *)

\* A thread that goes on with a snapshot that fits holds one that fits, and so
\* does one that takes a new snapshot.
LEMMA MoverFits ==
  ASSUME TypeOK, Openers, Step, NEW t \in Threads, thread'[t] # thread[t], Holds(thread'[t]),
         Continues(thread'[t]) /\ Holds(thread[t]) =>
           dialogs' # dialogs \/ Fits(thread[t], dialogs[DialogOf(thread[t])])
  PROVE  Fits(thread'[t], dialogs'[DialogOf(thread'[t])])
<1> DEFINE op == thread[t]
           next == thread'[t]
<1>1. CASE Reads(t)
  BY <1>1 DEF Reads, Taken
<1>2. CASE Sends(t)
  <2>1. next = [op EXCEPT !.pc = "saveRequest"] /\ op \in Busy /\ op.pc = "request" /\ dialogs' = dialogs
    BY <1>2 DEF Sends
  <2>2. next.pc = "saveRequest" /\ next.dialog = op.dialog /\ next.snap = op.snap
    BY <2>1 DEF Busy
  <2>3. Holds(op) /\ DialogOf(next) = DialogOf(op) /\ Continues(next)
    BY <2>1, <2>2 DEF Holds, FreshPCs, DialogOf, ResolvingPCs, Continues
  <2>4. Fits(op, dialogs[DialogOf(op)])
    BY <2>1, <2>3
  <2>5. Fits(next, dialogs[DialogOf(op)])
    <3> HIDE DEF next
    <3> QED BY <2>1, <2>2, <2>4 DEF Fits, FreshPCs, MovedPCs
  <2> QED BY <2>1, <2>3, <2>5
<1>3. CASE GoesOn(t)
  <2>1. /\ Holds(op) /\ DialogOf(next) = DialogOf(op) /\ Continues(next) /\ dialogs' = dialogs
        /\ op.snap \in Dialog
    BY <1>3 DEF GoesOn, Continues
  <2>2. Fits(op, dialogs[DialogOf(op)])
    BY <2>1
  <2>3. Fits(next, dialogs[DialogOf(op)])
    <3> DEFINE stored == dialogs[DialogOf(op)]
    <3>1. CASE op.pc = "sendAbort" /\ next.pc = "saveAbort" /\ next.snap = op.snap
      <4> HIDE DEF next, stored
      <4>1. Fits(op, stored)
        BY <2>2 DEF stored
      <4>2. Fits(next, stored)
        BY <3>1, <4>1 DEF Fits, FreshPCs, MovedPCs
      <4> QED BY <4>2 DEF next, stored
    <3>2. CASE /\ op.pc = "sendTimeout" /\ next.pc = "saveTimeout"
               /\ next.snap = SetStatus(op.snap, "ABORTED")
               /\ "ABORTED" \in NextStatuses(op.snap.status)
      <4> HIDE DEF next, stored
      <4>1. Fits(op, stored)
        BY <2>2 DEF stored
      <4>2. /\ next.snap.status = "ABORTED" /\ next.snap.peerSeq = op.snap.peerSeq
            /\ next.snap.thisSeq = op.snap.thisSeq
        BY <2>1, <3>2 DEF SetStatus, Dialog
      <4>3. Fits(next, stored)
        BY <3>2, <4>1, <4>2 DEF Fits, FreshPCs, MovedPCs
      <4> QED BY <4>3 DEF next, stored
    <3> QED BY <1>3, <3>1, <3>2 DEF GoesOn
  <2> QED BY <2>1, <2>3
<1>4. CASE Stores(t)
  <2>1. /\ next = [op EXCEPT !.pc = "request"] /\ op \in Busy /\ op.pc = "saveText"
        /\ op.snap \in Dialog /\ DialogOf(op) \in Dialogs
        /\ dialogs' = [dialogs EXCEPT ![DialogOf(op)] = Writes(t)]
    BY <1>4 DEF Stores
  <2>2. /\ next.pc = "request" /\ next.dialog = op.dialog /\ next.snap = op.snap
        /\ next.action = op.action
    BY <2>1 DEF Busy
  <2>3. Holds(op) /\ DialogOf(next) = DialogOf(op)
    BY <2>1, <2>2 DEF Holds, FreshPCs, DialogOf, ResolvingPCs
  <2>4. dialogs'[DialogOf(op)] = op.snap
    BY <2>1, WritesSnap DEF TypeOK
  <2>5. IsMessageActionAllowed(op.snap.status, op.action)
    BY <2>1, <2>3 DEF Openers, SnapsLegal, SnapLegal
  <2>6. op.snap.peerSeq \in Nat /\ op.snap.thisSeq \in Nat /\ op.snap # NoDialog
    BY <2>1, NodeAssumption DEF Dialog
  <2>7. Fits(next, op.snap)
    <3> HIDE DEF next
    <3> QED BY <2>2, <2>5, <2>6 DEF Fits, FreshPCs, MovedPCs
  <2> QED BY <2>3, <2>4, <2>7
<1>5. ASSUME NEW d \in Dialogs, NEW who \in {"us", "peer"}, NEW action \in Action, NEW dlg \in Dialog,
             Creates(t, d, who, action, dlg)
      PROVE  Fits(next, dialogs'[DialogOf(next)])
  <2>1. next = At("request", d, action, MakeNextSequental(dlg), "plain") /\ dialogs'[d] = dlg
    BY <1>5 DEF Creates, TypeOK
  <2>2. /\ next.pc = "request" /\ next.dialog = d /\ next.action = action
        /\ next.snap = MakeNextSequental(dlg)
    BY <2>1 DEF At
  <2>3. DialogOf(next) = d
    BY <2>2 DEF DialogOf, ResolvingPCs
  <2>4. IsMessageActionAllowed(dlg.status, action)
    BY <1>5 DEF Creates, NewDialog, RequestedDialog, IsMessageActionAllowed, AllowedActions
  <2>5. /\ next.snap.status = dlg.status /\ next.snap.peerSeq >= dlg.peerSeq
        /\ next.snap.thisSeq >= dlg.thisSeq /\ dlg # NoDialog
    BY <2>2, NodeAssumption DEF MakeNextSequental, Dialog
  <2> HIDE DEF next
  <2>6. Fits(next, dlg)
    BY <2>2, <2>4, <2>5 DEF Fits, FreshPCs, MovedPCs
  <2>7. Fits(next, dialogs'[DialogOf(next)])
    BY <2>1, <2>3, <2>6
  <2> QED BY <2>7
<1> QED BY <1>1, <1>2, <1>3, <1>4, <1>5, MoverKinds

\* A thread that goes on keeps its dialog.
LEMMA MoverKeeps ==
  ASSUME Step, NEW t \in Threads, thread'[t] # thread[t], Holds(thread'[t]),
         Continues(thread'[t]), Holds(thread[t])
  PROVE  dialogs' = dialogs => DialogOf(thread'[t]) = DialogOf(thread[t])
<1>1. CASE Sends(t)
  <2>1. thread'[t] = [thread[t] EXCEPT !.pc = "saveRequest"] /\ thread[t] \in Busy
        /\ thread[t].pc = "request"
    BY <1>1 DEF Sends
  <2>2. thread'[t].pc = "saveRequest" /\ thread'[t].dialog = thread[t].dialog
    BY <2>1 DEF Busy
  <2> QED BY <2>1, <2>2 DEF Holds, FreshPCs, DialogOf, ResolvingPCs
<1>2. CASE GoesOn(t)
  BY <1>2 DEF GoesOn
<1>3. CASE Reads(t)
  BY <1>3 DEF Reads
<1>4. CASE Stores(t)
  <2>1. thread'[t] = [thread[t] EXCEPT !.pc = "request"] /\ thread[t] \in Busy
    BY <1>4 DEF Stores
  <2>2. thread'[t].pc = "request"
    BY <2>1 DEF Busy
  <2> QED BY <2>2 DEF Continues
<1>5. ASSUME NEW d, NEW who, NEW action, NEW dlg, Creates(t, d, who, action, dlg) PROVE FALSE
  <2>1. thread'[t].pc = "request"
    BY <1>5 DEF Creates, At
  <2> QED BY <2>1 DEF Continues
<1> QED BY <1>1, <1>2, <1>3, <1>4, <1>5, MoverKinds

LEMMA FreshNext ==
  ASSUME TypeOK, Openers, FreshSnapshotsFit, Step, TrackStale
  PROVE  FreshSnapshotsFit'
<1> SUFFICES ASSUME NEW t \in Threads \ stale', Holds(thread'[t])
             PROVE  Fits(thread'[t], dialogs'[DialogOf(thread'[t])])
  BY DEF FreshSnapshotsFit
<1>a. IF Moves(t) THEN t \notin stale \/ ~Continues(thread'[t])
      ELSE t \notin stale /\ dialogs'[DialogOf(thread[t])] = dialogs[DialogOf(thread[t])]
  BY DEF TrackStale
<1>b. Holds(thread[t]) /\ t \notin stale => Fits(thread[t], dialogs[DialogOf(thread[t])])
  BY DEF FreshSnapshotsFit
<1>1. CASE ~Moves(t)
  BY <1>1, <1>a, <1>b DEF Moves
<1>2. CASE Moves(t)
  <2>1. thread'[t] # thread[t]
    BY <1>2 DEF Moves
  <2>2. Continues(thread'[t]) /\ Holds(thread[t]) =>
          dialogs' # dialogs \/ Fits(thread[t], dialogs[DialogOf(thread[t])])
    BY <1>2, <1>a, <1>b, <2>1, MoverKeeps
  <2> QED BY <2>1, <2>2, MoverFits
<1> QED BY <1>1, <1>2

\* A snapshot that fits leads the stored dialog on.
LEMMA StoresOnward ==
  ASSUME NEW t \in Threads, thread[t].snap \in Dialog, Holds(thread[t]),
         NEW stored \in Dialog, Fits(thread[t], stored)
  PROVE  /\ Writes(t).status = stored.status \/ Writes(t).status \in NextStatuses(stored.status)
         /\ Writes(t).peerSeq >= stored.peerSeq /\ Writes(t).thisSeq >= stored.thisSeq
  BY WritesSnap DEF Fits, Holds

LEMMA OnwardNext ==
  ASSUME TypeOK, FreshSnapshotsFit, Step, NEW d \in Dialogs,
         dialogs[d] \in Dialog, dialogs'[d] \in Dialog, ~StaleStep(d)
  PROVE  /\ dialogs'[d].status = dialogs[d].status
              \/ dialogs'[d].status \in NextStatuses(dialogs[d].status)
         /\ dialogs'[d].peerSeq >= dialogs[d].peerSeq
         /\ dialogs'[d].thisSeq >= dialogs[d].thisSeq
<1>1. CASE dialogs'[d] = dialogs[d]
  BY <1>1 DEF Dialog
<1>2. CASE dialogs'[d] # dialogs[d]
  <2>1. dialogs'[d] # NoDialog /\ Present(d)
    BY NodeAssumption DEF Present
  <2>2. PICK t \in Threads : Stores(t) /\ DialogOf(thread[t]) = d /\ dialogs'[d] = Writes(t)
    BY <1>2, <2>1, StoreKinds DEF Creates
  <2>3. t \notin stale /\ Holds(thread[t]) /\ thread[t].snap \in Dialog
    BY <2>2 DEF Stores, StaleStep
  <2>4. Fits(thread[t], dialogs[d])
    BY <2>2, <2>3 DEF FreshSnapshotsFit
  <2> QED BY <2>2, <2>3, <2>4, StoresOnward
<1> QED BY <1>1, <1>2

LEMMA SendsNext ==
  ASSUME TypeOK, Openers, FreshSnapshotsFit, Step,
         NEW m \in sent' \ sent, m.action \notin {"ACK", "ABORT"}, ~StaleStep(m.dialog)
  PROVE  /\ dialogs'[m.dialog] \in Dialog
         /\ IsMessageActionAllowed(dialogs'[m.dialog].status, m.action)
<1>1. PICK t \in Threads : StepOf(t)
  BY DEF Step, Stays, Restarts, Quiet
<1>2. Sends(t) /\ m = KeyOf(thread[t])
  BY <1>1 DEF StepOf, Rests, Reads, Sends, GoesOn, Stores, Removes, Creates, Quiet
<1> DEFINE op == thread[t]
<1>3. op \in Busy /\ op.pc = "request" /\ op.dialog \in Dialogs /\ Moves(t) /\ dialogs' = dialogs
  BY <1>2, BusyFields DEF Sends
<1>4. m.action = op.action /\ m.dialog = op.dialog
  BY <1>2 DEF KeyOf, Handler, Message
<1>5. Holds(op) /\ DialogOf(op) = op.dialog
  BY <1>3 DEF Holds, FreshPCs, DialogOf, ResolvingPCs
<1>6. t \notin stale
  BY <1>3, <1>4, <1>5 DEF StaleStep
<1>7. Fits(op, dialogs[op.dialog])
  BY <1>5, <1>6 DEF FreshSnapshotsFit
<1>8. dialogs[op.dialog] \in Dialog /\ IsMessageActionAllowed(dialogs[op.dialog].status, op.action)
  BY <1>3, <1>7 DEF Fits, TypeOK
<1> QED BY <1>3, <1>4, <1>8
-----------------------------------------------------------------------------
(* The numbers of a dialog that is not doubtful *)

On(t, d) == Holds(thread[t]) /\ DialogOf(thread[t]) = d
WatchedOf(d) == {m \in sent : Watched(m) /\ m.dialog = d}

\* No two threads work on the dialog, and the one that does fits what is stored.
Lone(d) ==
  d \notin doubtful =>
    /\ ~Shared(d) /\ ~Unsent(d)
    /\ \A t \in Threads : On(t, d) /\ Present(d) => Fits(thread[t], dialogs[d])

\* A thread is about to store the number the message went out with.
Covered(m) ==
  \E t \in Threads :
    thread[t].pc = "saveRequest" /\ thread[t].dialog = m.dialog /\ m.seq <= thread[t].snap.thisSeq

NumbersStored(d) ==
  \A m \in WatchedOf(d) : (Present(d) => m.seq <= dialogs[d].thisSeq) \/ Covered(m)
NextIsNew(d) ==
  \A t \in Threads : On(t, d) /\ thread[t].pc \in {"request", "saveText"} =>
    \A m \in WatchedOf(d) : m.seq < thread[t].snap.thisSeq
TextIsSaved(d) ==
  \A t \in Threads :
    On(t, d) /\ thread[t].pc = "request" /\ thread[t].action = "MESSAGE" /\ Present(d) =>
      thread[t].snap.thisSeq <= dialogs[d].thisSeq
Once(d) == \A m, n \in WatchedOf(d) : m.seq = n.seq => m.action = n.action

Numbered(d) ==
  d \notin doubtful /\ opener[d] = "us" =>
    NumbersStored(d) /\ NextIsNew(d) /\ TextIsSaved(d) /\ Once(d)

\* One thread moves at a time.
LEMMA OneMover ==
  ASSUME NEW t \in Threads, NEW u \in Threads, StepOf(t), Moves(u)
  PROVE  u = t
<1>1. Only(t)
  BY DEF StepOf, Rests, Reads, Sends, GoesOn, Stores, Removes, Creates
<1> QED BY <1>1 DEF Only, Moves

\* A thread whose dialog is stored by somebody else shares it.
LEMMA StoredByOther ==
  ASSUME TypeOK, Step, NEW d \in Dialogs, NEW t \in Threads, On(t, d), ~Moves(t),
         ~Shared(d), ~Shared(d)', dialogs'[d] # dialogs[d]
  PROVE  ~Present(d)'
<1>1. thread'[t] = thread[t]
  BY DEF Moves
<1>2. ASSUME NEW u \in Threads, Stores(u), DialogOf(thread[u]) = d PROVE FALSE
  <2>1. u # t /\ Holds(thread[u])
    BY <1>2 DEF Stores, Moves
  <2> QED BY <1>2, <2>1 DEF Shared, On
<1>3. ASSUME NEW u \in Threads, NEW who, NEW action, NEW dlg, Creates(u, d, who, action, dlg)
      PROVE  FALSE
  <2>1. u # t /\ thread'[u] = At("request", d, action, MakeNextSequental(dlg), "plain")
    BY <1>3 DEF Creates, On
  <2>2. thread'[u].pc = "request" /\ thread'[u].dialog = d
    BY <2>1 DEF At
  <2>3. Holds(thread'[u]) /\ DialogOf(thread'[u]) = d
    BY <2>2 DEF Holds, FreshPCs, DialogOf, ResolvingPCs
  <2> QED BY <1>1, <2>1, <2>3 DEF Shared, On
<1> QED BY <1>2, <1>3, StoreKinds DEF Present

LEMMA LoneNext ==
  ASSUME TypeOK, Openers, Step, TrackDoubtful, NEW d \in Dialogs, Lone(d)
  PROVE  Lone(d)'
<1> SUFFICES ASSUME d \notin doubtful' PROVE
       /\ ~Shared(d)' /\ ~Unsent(d)'
       /\ \A t \in Threads : On(t, d)' /\ Present(d)' => Fits(thread'[t], dialogs'[d])
  BY DEF Lone
<1>1. ~Shared(d)' /\ ~Unsent(d)' /\ d \notin doubtful
  BY DEF TrackDoubtful
<1>2. ~Shared(d) /\ \A t \in Threads : On(t, d) /\ Present(d) => Fits(thread[t], dialogs[d])
  BY <1>1 DEF Lone
<1>3. ASSUME NEW t \in Threads, On(t, d)', Present(d)' PROVE Fits(thread'[t], dialogs'[d])
  <2>0. Holds(thread'[t]) /\ DialogOf(thread'[t]) = d
    BY <1>3 DEF On
  <2>1. CASE ~Moves(t)
    <3>1. thread'[t] = thread[t] /\ On(t, d)
      BY <1>3, <2>1 DEF Moves, On
    <3>2. dialogs'[d] = dialogs[d]
      BY <1>1, <1>2, <1>3, <2>1, <3>1, StoredByOther
    <3> QED BY <1>2, <1>3, <3>1, <3>2 DEF Present
  <2>2. CASE Moves(t)
    <3>1. thread'[t] # thread[t]
      BY <2>2 DEF Moves
    <3>2. ASSUME Continues(thread'[t]), Holds(thread[t]), dialogs' = dialogs
          PROVE  Fits(thread[t], dialogs[DialogOf(thread[t])])
      <4>1. DialogOf(thread[t]) = d
        BY <2>0, <3>1, <3>2, MoverKeeps
      <4> QED BY <1>2, <1>3, <3>2, <4>1 DEF On, Present
    <3> QED BY <2>0, <3>1, <3>2, MoverFits
  <2> QED BY <2>1, <2>2
<1> QED BY <1>1, <1>3

\* What sends a message of a dialog of ours: it is new, or a text already saved.
LEMMA SenderFacts ==
  ASSUME TypeOK, Openers, NEW t \in Threads, Sends(t), NEW d \in Dialogs, KeyOf(thread[t]).dialog = d
  PROVE  /\ On(t, d) /\ thread[t].pc = "request" /\ Moves(t) /\ dialogs' = dialogs
         /\ KeyOf(thread[t]).seq = thread[t].snap.thisSeq /\ thread[t].snap.thisSeq \in Nat
         /\ opener[d] = "us" => thread[t].action # "VERIFY_KEY"
         /\ Holds(thread'[t]) => /\ thread'[t].pc = "saveRequest" /\ thread'[t].dialog = d
                                 /\ thread'[t].snap = thread[t].snap
<1> DEFINE op == thread[t]
<1>1. op \in Busy /\ op.pc = "request" /\ Moves(t) /\ dialogs' = dialogs
  BY DEF Sends
<1>2. KeyOf(op).dialog = op.dialog /\ KeyOf(op).seq = op.snap.thisSeq /\ op.dialog = d
  BY DEF KeyOf, Handler, Message
<1>3. On(t, d)
  BY <1>1, <1>2 DEF On, Holds, FreshPCs, DialogOf, ResolvingPCs
<1>4. op.snap \in Dialog /\ op.snap.thisSeq \in Nat
  BY <1>1, BusyFields DEF Dialog
<1>5. opener[d] = "us" => op.action # "VERIFY_KEY"
  <2>1. SnapLegal(op, opener[d])
    BY <1>3 DEF Openers, SnapsLegal, On
  <2>2. /\ op.action \in Tracked /\ IsMessageActionAllowed(op.snap.status, op.action)
        /\ Legal(opener[d], op.snap.status) /\ op.snap.status \in Status
    BY <1>1, <1>4, <2>1 DEF SnapLegal, Dialog
  <2> QED BY <2>2, LegalTables
<1>6. Holds(thread'[t]) => /\ thread'[t].pc = "saveRequest" /\ thread'[t].dialog = d
                           /\ thread'[t].snap = op.snap
  BY <1>1, <1>2 DEF Sends, Busy
<1> QED BY <1>1, <1>2, <1>3, <1>4, <1>5, <1>6

LEMMA NewOf ==
  ASSUME Step, NEW d, NEW m, m \in WatchedOf(d)', m \notin WatchedOf(d)
  PROVE  \E t \in Threads : Sends(t) /\ m = KeyOf(thread[t]) /\ KeyOf(thread[t]).dialog = d
                              /\ (~Holds(thread'[t]) => thread[t].action \in {"VERIFY_KEY", "MESSAGE"})
<1>1. m \in sent' /\ Watched(m) /\ m \notin sent /\ m.dialog = d
  BY DEF WatchedOf, Watched
<1>2. PICK t \in Threads : Sends(t) /\ m = KeyOf(thread[t])
  BY <1>1, NewMessage
<1>3. sent' # sent
  BY <1>1
<1>4. ~Holds(thread'[t]) => thread[t].action \in {"VERIFY_KEY", "MESSAGE"}
  BY <1>2, <1>3 DEF Sends
<1> QED BY <1>1, <1>2, <1>4

\* The user has just made the dialog up: nothing is sent for it yet.
LEMMA NumberedStart ==
  ASSUME TypeOK, Openers, Step, NEW d \in Dialogs, opener[d] = "none", opener'[d] = "us"
  PROVE  NumbersStored(d)' /\ NextIsNew(d)' /\ TextIsSaved(d)' /\ Once(d)'
<1>1. PICK t \in Threads, e \in Dialogs, who \in {"us", "peer"}, action \in Action, dlg \in Dialog :
        Creates(t, e, who, action, dlg)
  BY DEF Step, Stays, Restarts, StepOf, Rests, Reads, Sends, GoesOn, Stores, Removes
<1>2. e = d /\ who = "us" /\ action = "CREATE_DIALOG"
  BY <1>1 DEF Creates, TypeOK
<1>3. ASSUME NEW m, m \in WatchedOf(d) PROVE FALSE
  BY <1>1, <1>2, <1>3 DEF Creates, WatchedOf
<1>4. ASSUME NEW m, m \in WatchedOf(d)' PROVE FALSE
  <2>1. PICK u \in Threads : Sends(u) /\ KeyOf(thread[u]).dialog = d
    BY <1>3, <1>4, NewOf
  <2>2. On(u, d)
    BY <2>1, SenderFacts
  <2>3. opener[d] # "none"
    BY <2>2 DEF Openers, SnapsLegal, SnapLegal, Legal, On
  <2> QED BY <2>3
<1>5. ASSUME NEW u \in Threads, On(u, d)' PROVE thread'[u].action = "CREATE_DIALOG"
  <2>1. CASE u = t
    BY <1>1, <1>2, <2>1 DEF Creates, At
  <2>2. CASE u # t
    <3>1. thread'[u] = thread[u]
      BY <1>1, <2>2 DEF Creates, Only
    <3>2. On(u, d)
      BY <1>5, <3>1 DEF On
    <3>3. opener[d] # "none"
      BY <3>2 DEF Openers, SnapsLegal, SnapLegal, Legal, On
    <3> QED BY <3>3
  <2> QED BY <2>1, <2>2
<1>6. NumbersStored(d)' /\ NextIsNew(d)' /\ Once(d)'
  BY <1>4 DEF NumbersStored, NextIsNew, Once
<1>7. TextIsSaved(d)'
  BY <1>5 DEF TextIsSaved
<1> QED BY <1>6, <1>7

LEMMA NumberedNext ==
  ASSUME TypeOK, TypeOK', Openers, Step, TrackDoubtful, NEW d \in Dialogs, Lone(d), Numbered(d)
  PROVE  Numbered(d)'
<1> SUFFICES ASSUME d \notin doubtful', opener'[d] = "us"
             PROVE  NumbersStored(d)' /\ NextIsNew(d)' /\ TextIsSaved(d)' /\ Once(d)'
  BY DEF Numbered
<1>a. opener \in [Dialogs -> {"none", "us", "peer"}] /\ opener[d] \in {"none", "us"}
  BY OpenersStay DEF TypeOK
<1>1. CASE opener[d] = "none"
  BY <1>1, NumberedStart
<1>2. CASE opener[d] = "us"
  <2>a. d \notin doubtful /\ ~Shared(d)' /\ ~Forgotten(d)
    BY DEF TrackDoubtful
  <2>b. /\ ~Shared(d)
        /\ \A t \in Threads : On(t, d) /\ Present(d) => Fits(thread[t], dialogs[d])
    BY <2>a DEF Lone
  <2>c. NumbersStored(d) /\ NextIsNew(d) /\ TextIsSaved(d) /\ Once(d)
    BY <1>2, <2>a DEF Numbered
  <2>d. ASSUME NEW t, NEW who, NEW action, NEW dlg, Creates(t, d, who, action, dlg) PROVE FALSE
    BY <1>2, <2>d DEF Creates
  <2>e. ASSUME NEW t \in Threads, NEW u \in Threads, On(t, d), On(u, d) PROVE t = u
    BY <2>b, <2>e DEF On, Shared
  <2>f. ASSUME NEW t \in Threads, NEW u \in Threads, On(t, d)', On(u, d)' PROVE t = u
    BY <2>a, <2>f DEF On, Shared
  <2>g. ASSUME NEW t \in Threads, On(t, d)', thread'[t].pc \in {"request", "saveText"}, Moves(t)
        PROVE  \/ Reads(t)
               \/ /\ Stores(t) /\ On(t, d) /\ thread[t].pc = "saveText" /\ thread'[t].pc = "request"
                  /\ thread'[t].snap = thread[t].snap
    <3>1. thread'[t] # thread[t] /\ Holds(thread'[t]) /\ DialogOf(thread'[t]) = d
      BY <2>g DEF Moves, On
    <3>2. ~Sends(t)
      BY <2>g, <3>1 DEF Sends, Busy
    <3>3. ~GoesOn(t)
      BY <2>g DEF GoesOn
    <3>4. CASE Stores(t)
      <4>1. /\ thread[t].pc = "saveText" /\ thread[t] \in Busy
            /\ thread'[t] = [thread[t] EXCEPT !.pc = "request"]
        BY <3>1, <3>4 DEF Stores
      <4>2. /\ thread'[t].pc = "request" /\ thread'[t].dialog = thread[t].dialog
            /\ thread'[t].snap = thread[t].snap
        BY <4>1 DEF Busy
      <4>3. On(t, d)
        BY <3>1, <4>1, <4>2 DEF On, Holds, FreshPCs, DialogOf, ResolvingPCs
      <4> QED BY <3>4, <4>1, <4>2, <4>3
    <3>5. ASSUME NEW e, NEW who, NEW action, NEW dlg, Creates(t, e, who, action, dlg) PROVE FALSE
      <4>1. thread'[t].pc = "request" /\ thread'[t].dialog = e
        BY <3>5 DEF Creates, At
      <4>2. e = d
        BY <3>1, <4>1 DEF DialogOf, ResolvingPCs
      <4> QED BY <2>d, <3>5, <4>2
    <3> QED BY <3>1, <3>2, <3>3, <3>4, <3>5, MoverKinds
  <2>1. ASSUME NEW m \in WatchedOf(d)'
        PROVE  (Present(d)' => m.seq <= dialogs'[d].thisSeq) \/ Covered(m)'
    <3>1. CASE m \notin WatchedOf(d)
      <4>1. PICK t \in Threads :
              /\ Sends(t) /\ m = KeyOf(thread[t]) /\ KeyOf(thread[t]).dialog = d
              /\ ~Holds(thread'[t]) => thread[t].action \in {"VERIFY_KEY", "MESSAGE"}
        BY <2>1, <3>1, NewOf
      <4>2. /\ On(t, d) /\ thread[t].pc = "request" /\ dialogs' = dialogs
            /\ m.seq = thread[t].snap.thisSeq /\ thread[t].snap.thisSeq \in Nat
            /\ thread[t].action # "VERIFY_KEY"
            /\ Holds(thread'[t]) => /\ thread'[t].pc = "saveRequest" /\ thread'[t].dialog = d
                                    /\ thread'[t].snap = thread[t].snap
        BY <1>2, <4>1, SenderFacts
      <4>3. CASE Holds(thread'[t])
        <5>1. thread'[t].pc = "saveRequest" /\ thread'[t].dialog = m.dialog
              /\ m.seq <= thread'[t].snap.thisSeq
          BY <4>1, <4>2, <4>3
        <5> QED BY <5>1 DEF Covered
      <4>4. CASE ~Holds(thread'[t])
        <5>1. Present(d) => thread[t].snap.thisSeq <= dialogs[d].thisSeq
          BY <2>c, <4>1, <4>2, <4>4 DEF TextIsSaved
        <5> QED BY <4>2, <5>1 DEF Present
      <4> QED BY <4>3, <4>4
    <3>2. CASE m \in WatchedOf(d)
      <4>1. CASE Covered(m)
        <5>1. PICK t \in Threads : /\ thread[t].pc = "saveRequest" /\ thread[t].dialog = d
                                   /\ m.seq <= thread[t].snap.thisSeq
          BY <3>2, <4>1 DEF Covered, WatchedOf
        <5>2. CASE ~Moves(t)
          BY <3>2, <5>1, <5>2 DEF Moves, Covered, WatchedOf
        <5>3. CASE Moves(t)
          <6>1. dialogs'[d] = thread[t].snap
            BY <2>a, <5>1, <5>3 DEF Forgotten
          <6> QED BY <5>1, <6>1
        <5> QED BY <5>2, <5>3
      <4>2. CASE Present(d) => m.seq <= dialogs[d].thisSeq
        <5>1. CASE dialogs'[d] = dialogs[d]
          BY <4>2, <5>1 DEF Present
        <5>2. ASSUME NEW t \in Threads, Stores(t), DialogOf(thread[t]) = d, dialogs'[d] = Writes(t)
              PROVE  m.seq <= dialogs'[d].thisSeq
          <6>1. On(t, d) /\ thread[t].snap \in Dialog /\ dialogs[d] \in Dialog
            BY <5>2 DEF Stores, On
          <6>2. Present(d)
            BY <6>1, NodeAssumption DEF Present
          <6>3. thread[t].snap.thisSeq >= dialogs[d].thisSeq
            BY <2>b, <6>1, <6>2 DEF Fits
          <6>4. Writes(t).thisSeq = thread[t].snap.thisSeq
            BY <6>1, WritesSnap
          <6>5. thread[t].snap.thisSeq \in Nat /\ dialogs[d].thisSeq \in Nat
            BY <6>1 DEF Dialog
          <6>6. m.seq \in Nat
            BY <3>2 DEF WatchedOf, TypeOK
          <6>7. m.seq <= dialogs[d].thisSeq
            BY <4>2, <6>2
          <6> QED BY <5>2, <6>3, <6>4, <6>5, <6>6, <6>7
        <5> QED BY <2>d, <5>1, <5>2, StoreKinds DEF Present
      <4> QED BY <2>c, <3>2, <4>1, <4>2 DEF NumbersStored
    <3> QED BY <3>1, <3>2
  <2>2. ASSUME NEW t \in Threads, On(t, d)', thread'[t].pc \in {"request", "saveText"},
               NEW m \in WatchedOf(d)'
        PROVE  m.seq < thread'[t].snap.thisSeq
    <3>1. CASE m \notin WatchedOf(d)
      <4>1. PICK u \in Threads : Sends(u) /\ KeyOf(thread[u]).dialog = d
        BY <2>2, <3>1, NewOf
      <4>2. On(u, d) /\ thread[u].pc = "request" /\ Moves(u)
        BY <4>1, SenderFacts
      <4>3. Moves(t) => t = u
        BY <4>1, <4>2, OneMover DEF StepOf, Moves, Sends, Only
      <4>4. CASE Moves(t)
        <5>1. ~Reads(t) /\ thread[t].pc # "saveText"
          BY <4>2, <4>3, <4>4 DEF Reads, On
        <5> QED BY <2>2, <2>g, <4>4, <5>1
      <4>5. CASE ~Moves(t)
        <5>1. On(t, d)
          BY <2>2, <4>5 DEF On, Moves
        <5> QED BY <2>e, <4>2, <4>5, <5>1
      <4> QED BY <4>4, <4>5
    <3>2. CASE m \in WatchedOf(d)
      <4>1. CASE ~Moves(t)
        BY <2>2, <2>c, <3>2, <4>1 DEF Moves, On, NextIsNew
      <4>2. CASE Stores(t) /\ On(t, d) /\ thread[t].pc = "saveText" /\ thread'[t].snap = thread[t].snap
        BY <2>c, <3>2, <4>2 DEF NextIsNew
      <4>3. CASE Reads(t)
        <5>1. /\ ~Holds(thread[t]) /\ dialogs[d] \in Dialog /\ Only(t)
              /\ thread'[t].snap.thisSeq = dialogs[d].thisSeq + 1
          BY <2>2, <4>3 DEF Reads, Taken, On
        <5>2. ~Covered(m)
          <6> SUFFICES ASSUME NEW u \in Threads, thread[u].pc = "saveRequest", thread[u].dialog = d
                       PROVE  FALSE
            BY <3>2 DEF Covered, WatchedOf
          <6>1. On(u, d) /\ u # t
            BY <5>1 DEF On, Holds, FreshPCs, DialogOf, ResolvingPCs
          <6>2. On(u, d)'
            BY <5>1, <6>1 DEF Only, On
          <6> QED BY <2>2, <2>f, <6>1, <6>2
        <5>3. m.seq <= dialogs[d].thisSeq
          BY <2>c, <3>2, <5>1, <5>2, NodeAssumption DEF NumbersStored, Present
        <5>4. m.seq \in Nat /\ dialogs[d].thisSeq \in Nat
          BY <3>2, <5>1 DEF WatchedOf, TypeOK, Dialog
        <5> QED BY <5>1, <5>3, <5>4
      <4> QED BY <2>2, <2>g, <4>1, <4>2, <4>3
    <3> QED BY <3>1, <3>2
  <2>3. ASSUME NEW t \in Threads, On(t, d)', thread'[t].pc = "request",
               thread'[t].action = "MESSAGE", Present(d)'
        PROVE  thread'[t].snap.thisSeq <= dialogs'[d].thisSeq
    <3>1. CASE ~Moves(t)
      <4>1. On(t, d) /\ thread'[t] = thread[t]
        BY <2>3, <3>1 DEF On, Moves
      <4>2. dialogs'[d] = dialogs[d]
        BY <2>a, <2>b, <2>3, <3>1, <4>1, StoredByOther
      <4> QED BY <2>3, <2>c, <4>1, <4>2 DEF TextIsSaved, Present
    <3>2. CASE Reads(t)
      BY <2>3, <3>2 DEF Reads, Taken
    <3>3. CASE Stores(t) /\ On(t, d) /\ thread[t].pc = "saveText" /\ thread'[t].snap = thread[t].snap
      <4>1. thread[t].snap \in Dialog /\ dialogs' = [dialogs EXCEPT ![d] = Writes(t)]
        BY <3>3 DEF Stores, On
      <4>2. dialogs'[d] = thread[t].snap /\ thread[t].snap.thisSeq \in Nat
        BY <3>3, <4>1, WritesSnap DEF TypeOK, Dialog
      <4> QED BY <3>3, <4>2
    <3> QED BY <2>3, <2>g, <3>1, <3>2, <3>3
  <2>4. ASSUME NEW m \in WatchedOf(d)', NEW n \in WatchedOf(d)', m.seq = n.seq
        PROVE  m.action = n.action
    <3>1. ASSUME NEW k \in WatchedOf(d)', k \notin WatchedOf(d),
                 NEW l \in WatchedOf(d), k.seq = l.seq
          PROVE  FALSE
      <4>1. PICK t \in Threads : Sends(t) /\ k = KeyOf(thread[t]) /\ KeyOf(thread[t]).dialog = d
        BY <3>1, NewOf
      <4>2. /\ On(t, d) /\ thread[t].pc = "request" /\ k.seq = thread[t].snap.thisSeq
            /\ thread[t].snap.thisSeq \in Nat
        BY <4>1, SenderFacts
      <4>3. l.seq < thread[t].snap.thisSeq
        BY <2>c, <3>1, <4>2 DEF NextIsNew
      <4> QED BY <3>1, <4>2, <4>3
    <3>2. CASE m \notin WatchedOf(d) /\ n \notin WatchedOf(d)
      <4>1. PICK t \in Threads : Sends(t) /\ m = KeyOf(thread[t])
        BY <2>4, <3>2, NewOf
      <4>2. PICK u \in Threads : Sends(u) /\ n = KeyOf(thread[u])
        BY <2>4, <3>2, NewOf
      <4>3. t = u
        BY <4>1, <4>2, OneMover DEF StepOf, Sends
      <4> QED BY <4>1, <4>2, <4>3
    <3>3. CASE m \in WatchedOf(d) /\ n \in WatchedOf(d)
      BY <2>4, <2>c, <3>3 DEF Once
    <3> QED BY <2>4, <3>1, <3>2, <3>3
  <2>5. NumbersStored(d)' /\ NextIsNew(d)'
    BY <2>1, <2>2 DEF NumbersStored, NextIsNew
  <2>6. TextIsSaved(d)' /\ Once(d)'
    BY <2>3, <2>4 DEF TextIsSaved, Once
  <2> QED BY <2>5, <2>6
<1> QED BY <1>a, <1>1, <1>2
-----------------------------------------------------------------------------
(* The inductive invariant and the theorems *)

HistoryInv ==
  /\ TypeOK /\ Openers /\ FreshSnapshotsFit
  /\ \A d \in Dialogs : Lone(d) /\ Numbered(d)

LEMMA HistoryStarts == HistoryInit => HistoryInv
<1> SUFFICES ASSUME HistoryInit PROVE HistoryInv
  OBVIOUS
<1>1. TypeOK
  BY TypeInit DEF HistoryInit
<1>2. \A t \in Threads : ~Holds(thread[t])
  BY IdleRests DEF HistoryInit, Init
<1>3. sent = {} /\ pending = {} /\ \A d \in Dialogs : ~Present(d)
  BY DEF HistoryInit, Init, Present
<1>4. Openers /\ FreshSnapshotsFit
  BY <1>2, <1>3 DEF Openers, SnapsLegal, StoredLegal, SentKnown, PendingKnown, FreshSnapshotsFit
<1>5. ASSUME NEW d \in Dialogs PROVE Lone(d) /\ Numbered(d)
  <2>1. WatchedOf(d) = {}
    BY <1>3 DEF WatchedOf
  <2>2. Lone(d)
    BY <1>2, <1>3 DEF Lone, Shared, Unsent
  <2>3. opener[d] # "us"
    BY DEF HistoryInit, Init
  <2> QED BY <2>2, <2>3 DEF Numbered
<1> QED BY <1>1, <1>4, <1>5 DEF HistoryInv

LEMMA HistoryStutters == HistoryInv /\ UNCHANGED hvars => HistoryInv'
<1> SUFFICES ASSUME HistoryInv, UNCHANGED hvars PROVE HistoryInv'
  OBVIOUS
<1>u. /\ UNCHANGED <<dialogs, pending, ciphers, sent, shown, thread, alive, opener, contactKnown>>
      /\ UNCHANGED <<stale, doubtful>>
  BY DEF hvars, vars
<1>1. TypeOK'
  BY <1>u DEF HistoryInv, TypeOK
<1>2. Openers'
  BY <1>u DEF HistoryInv, Openers, SnapsLegal, StoredLegal, SentKnown, PendingKnown, Known, Present
<1>3. FreshSnapshotsFit'
  BY <1>u DEF HistoryInv, FreshSnapshotsFit
<1>4. ASSUME NEW d \in Dialogs PROVE Lone(d)' /\ Numbered(d)'
  <2>1. Lone(d)'
    BY <1>u DEF HistoryInv, Lone, Shared, Unsent, On, Present
  <2>2. Numbered(d)'
    BY <1>u DEF HistoryInv, Numbered, NumbersStored, NextIsNew, TextIsSaved, Once, WatchedOf, Covered,
                On, Present
  <2> QED BY <2>1, <2>2
<1> QED BY <1>1, <1>2, <1>3, <1>4 DEF HistoryInv

LEMMA HistoryHolds == HistorySpec => []HistoryInv
<1>1. ASSUME HistoryInv, HistoryNext PROVE HistoryInv'
  <2>1. Step /\ TrackStale /\ TrackDoubtful
    BY <1>1, NextKinds DEF HistoryInv, HistoryNext
  <2>2. TypeOK'
    BY <1>1, TypeNext DEF HistoryInv, HistoryNext
  <2>3. Openers' /\ FreshSnapshotsFit'
    BY <1>1, <2>1, <2>2, SnapsNext, StoredNext, MessagesNext, FreshNext DEF HistoryInv, Openers
  <2>4. \A d \in Dialogs : Lone(d)' /\ Numbered(d)'
    BY <1>1, <2>1, <2>2, LoneNext, NumberedNext DEF HistoryInv
  <2> QED BY <2>2, <2>3, <2>4 DEF HistoryInv
<1>2. HistoryInv /\ [HistoryNext]_hvars => HistoryInv'
  BY <1>1, HistoryStutters
<1> QED BY <1>2, HistoryStarts, PTL DEF HistorySpec

\* Reading, changing and saving without a lock: as long as no other thread stores
\* or removes the dialog, what a thread is about to store or send fits what is
\* stored, whatever overlaps, fails or is started again.
THEOREM SnapshotsFit == HistorySpec => []FreshSnapshotsFit
  BY HistoryHolds, PTL DEF HistoryInv

\* A stored status leaves DialogStateMachine's table only by the save of an out
\* of date snapshot; neither messages of the peer, in any order, nor failures or
\* restarts suffice.
THEOREM StatusesFollow == HistorySpec => StatusFollowsMachine
<1>1. HistoryInv /\ [HistoryNext]_hvars =>
        [\A d \in Dialogs :
           dialogs[d] \in Dialog /\ dialogs'[d] \in Dialog =>
             \/ dialogs'[d].status = dialogs[d].status
             \/ dialogs'[d].status \in NextStatuses(dialogs[d].status)
             \/ StaleStep(d)]_hvars
  BY NextKinds, OnwardNext DEF HistoryInv, HistoryNext
<1> QED BY <1>1, HistoryHolds, PTL DEF HistorySpec, StatusFollowsMachine

\* A counter of a stored dialog goes back only by the save of an out of date
\* snapshot.
THEOREM CountersGrow == HistorySpec => CountersNeverFall
<1>1. HistoryInv /\ [HistoryNext]_hvars =>
        [\A d \in Dialogs :
           dialogs[d] \in Dialog /\ dialogs'[d] \in Dialog =>
             \/ /\ dialogs'[d].peerSeq >= dialogs[d].peerSeq
                /\ dialogs'[d].thisSeq >= dialogs[d].thisSeq
             \/ StaleStep(d)]_hvars
  BY NextKinds, OnwardNext DEF HistoryInv, HistoryNext
<1> QED BY <1>1, HistoryHolds, PTL DEF HistorySpec, CountersNeverFall

\* A request or a text leaves while its dialog allows it, or after another thread
\* changed the dialog behind the back of the sender.
THEOREM SendsFitStatus == HistorySpec => SendsOnlyWhatStatusAllows
<1>1. HistoryInv /\ [HistoryNext]_hvars =>
        [\A m \in sent' \ sent :
           m.action \notin {"ACK", "ABORT"} =>
             \/ /\ dialogs'[m.dialog] \in Dialog
                /\ IsMessageActionAllowed(dialogs'[m.dialog].status, m.action)
             \/ StaleStep(m.dialog)]_hvars
  BY NextKinds, SendsNext DEF HistoryInv, HistoryNext, hvars, vars
<1> QED BY <1>1, HistoryHolds, PTL DEF HistorySpec, SendsOnlyWhatStatusAllows

\* A confirmation that resolves a handler is that of the handler's own message,
\* in every dialog in which no two snapshots were held at once, no send failed
\* and no number was forgotten between the send and the save.
THEOREM HandlersGuardOwn == HistorySpec => []HandlerGuardsOwnMessage
<1>1. ASSUME HistoryInv, NEW h \in pending, NEW m \in sent, h.dialog \notin doubtful,
             m.action \in Tracked, m.dialog = h.dialog, m.seq = h.seq
      PROVE  m.action = h.action
  <2> DEFINE d == h.dialog
  <2>1. d \in Dialogs /\ opener[d] \in {"none", "us", "peer"}
    BY <1>1 DEF HistoryInv, TypeOK, Handlers
  <2>2. Known(h) /\ Known(m)
    BY <1>1 DEF HistoryInv, Openers, PendingKnown, SentKnown, Watched
  <2>3. CASE opener[d] = "peer"
    BY <1>1, <2>2, <2>3 DEF Known
  <2>4. CASE opener[d] = "us"
    <3>1. h \in sent
      BY <1>1, <2>1 DEF HistoryInv, Lone, Unsent
    <3>2. Once(d)
      BY <1>1, <2>1, <2>4 DEF HistoryInv, Numbered
    <3>3. h \in WatchedOf(d) /\ m \in WatchedOf(d)
      BY <1>1, <2>2, <3>1 DEF WatchedOf, Known
    <3> QED BY <1>1, <3>2, <3>3 DEF Once
  <2> QED BY <2>1, <2>2, <2>3, <2>4 DEF Known
<1>2. HistoryInv => HandlerGuardsOwnMessage
  BY <1>1 DEF HandlerGuardsOwnMessage
<1> QED BY <1>2, HistoryHolds, PTL
=============================================================================
