------------------------------- MODULE Channels -------------------------------
(***************************************************************************)
(* The channels of MessageDespatcher and the threads that meet in it:      *)
(*   gui     ConnectStorageListener adds, changes and removes channels,    *)
(*   work    sends requests and texts,                                     *)
(*   timer   sends the ABORT of an expired handler, under the mutex of     *)
(*           the repository,                                               *)
(*   n       the receive thread of the channel n, Channel::messsageCycle.  *)
(* There are three locks: the shared_mutex of the despatcher (mChannels),  *)
(* the mutex of the repository and the mutex of each channel.  Messages    *)
(* are kept only as far as the locks they lead to.                         *)
(***************************************************************************)
EXTENDS Naturals

CONSTANTS
  Names,           \* names of connections; also their receive threads
  Gui, Work, Timer, None,
  GuiTasks,        \* what the user does: "add", "change", "remove"
  ConnectResults,  \* what connect() of an adapter does: "yes", "no", "throws"
  SendFails,       \* TRUE: the adapter may throw when it sends
  WriterFirst,     \* TRUE: a waiting writer keeps new readers out of shared_mutex
  GuiBudget,       \* bound: the tasks of the user
  Budget           \* bound: the operations each other thread starts

ASSUME ChannelsAssumption ==
  /\ None \notin Names \cup {Gui, Work, Timer}
  /\ Gui \notin Names \cup {Work, Timer}
  /\ Work \notin Names \cup {Timer} /\ Timer \notin Names
  /\ GuiTasks \subseteq {"add", "change", "remove"}
  /\ ConnectResults \subseteq {"yes", "no", "throws"}
  /\ SendFails \in BOOLEAN /\ WriterFirst \in BOOLEAN
  /\ GuiBudget \in Nat /\ Budget \in Nat

VARIABLES
  channels,      \* mChannels: "absent", "open", or "closing" while ~Channel runs
  shared,        \* how often each thread holds the despatcher's mutex shared
  exclusive,     \* the thread that holds it exclusively, or None
  repo,          \* the thread that holds the repository's mutex, or None
  adapter,       \* the thread that holds the mutex of each channel, or None
  pc,            \* where each thread is
  disconnected,  \* the local isDisconected of each receive thread
  link,          \* the adapter is connected
  shown,         \* the last event enqueued for each connection
  left,          \* operations each thread may still start (bound)
  alive          \* FALSE after std::terminate

vars == <<channels, shared, exclusive, repo, adapter, pc, disconnected, link, shown, left, alive>>
-----------------------------------------------------------------------------
Threads == Names \cup {Gui, Work, Timer}
Senders == Names \cup {Work, Timer}

\* A thread that sends holds the despatcher's mutex shared.  "request" is
\* sendMessage by the user or by a handler, "ack" and "abort" are sendAndForget.
Tasks == {"none", "request", "ack", "abort"} \cup {"add", "change", "remove"}
Places == {"none", "idle", "loop", "connect", "connecting", "receive", "count", "remove",
           "handle", "handled", "shared", "store", "adapter", "sending", "failed", "ended",
           "unique", "closing", "fabric"}
At(place, n, task) == [at |-> place, chan |-> n, task |-> task]
Idle == At("idle", None, "none")
Go(t, where) == pc' = [pc EXCEPT ![t] = where]
Move(t, place) == pc' = [pc EXCEPT ![t].at = place]
In(t, place) == alive /\ pc[t].at = place

Spend(t) == left[t] > 0 /\ left' = [left EXCEPT ![t] = @ - 1]

\* lock_shared: recursion counts; with a writer that waits it depends on the build.
SharedFree == exclusive = None /\ (WriterFirst => pc[Gui].at # "unique")
UniqueFree == exclusive = None /\ \A t \in Threads : shared[t] = 0

\* The thread goes on after it has sent, or did not have to.
After(t) ==
  IF t = Work \/ t = Timer THEN Idle
  ELSE IF pc[t].task = "ack" THEN At("handle", t, "none")
  ELSE At("handled", t, "none")

Init ==
  /\ channels = [n \in Names |-> "absent"]
  /\ shared = [t \in Threads |-> 0]
  /\ exclusive = None /\ repo = None
  /\ adapter = [n \in Names |-> None]
  /\ pc = [t \in Threads |-> IF t \in Names THEN At("none", t, "none") ELSE Idle]
  /\ disconnected = [n \in Names |-> TRUE]
  /\ link = [n \in Names |-> FALSE]
  /\ shown = [n \in Names |-> "UNDEFINED"]
  /\ left = [t \in Threads |-> IF t = Gui THEN GuiBudget ELSE Budget]
  /\ alive = TRUE
-----------------------------------------------------------------------------
(* The user's side: ConnectStorageListener and the channels of the despatcher *)

StartTask(task, n) ==
  /\ In(Gui, "idle") /\ task \in GuiTasks /\ Spend(Gui)
  /\ task = "add" => channels[n] = "absent"
  /\ Go(Gui, At(IF task = "add" THEN "fabric" ELSE "unique", n, task))
  /\ UNCHANGED <<channels, shared, exclusive, repo, adapter, disconnected, link, shown, alive>>

\* The factory makes an adapter, or none, or throws; the last two are reported.
Fabric ==
  /\ In(Gui, "fabric")
  /\ \/ Go(Gui, At("unique", pc[Gui].chan, "add")) /\ UNCHANGED shown
     \/ /\ Go(Gui, Idle)
        /\ \E event \in {"BAD_CHANNEL", "FAILED_CONNECT"} :
             shown' = [shown EXCEPT ![pc[Gui].chan] = event]
  /\ UNCHANGED <<channels, shared, exclusive, repo, adapter, disconnected, link, left, alive>>

\* add: the channel enters the map and its thread starts.
AddChannel ==
  LET n == pc[Gui].chan IN
    /\ In(Gui, "unique") /\ pc[Gui].task = "add" /\ UniqueFree
    /\ channels' = [channels EXCEPT ![n] = "open"]
    /\ disconnected' = [disconnected EXCEPT ![n] = TRUE]
    /\ link' = [link EXCEPT ![n] = FALSE]
    /\ pc' = [pc EXCEPT ![n] = At("loop", n, "none"), ![Gui] = Idle]
    /\ UNCHANGED <<shared, exclusive, repo, adapter, shown, left, alive>>

\* removeChannel erases the last reference: ~Channel sets mIsEnds and joins,
\* while the despatcher's mutex is held.
RemoveChannel ==
  LET n == pc[Gui].chan IN
    /\ In(Gui, "unique") /\ pc[Gui].task # "add" /\ UniqueFree
    /\ exclusive' = Gui
    /\ channels' = [channels EXCEPT ![n] = IF @ = "open" THEN "closing" ELSE @]
    /\ Move(Gui, "closing")
    /\ UNCHANGED <<shared, repo, adapter, disconnected, link, shown, left, alive>>

\* Mutant: the thread is detached instead of joined.
ChannelRemovedMut ==
  /\ In(Gui, "closing")
  /\ exclusive' = None
  /\ channels' = [channels EXCEPT ![pc[Gui].chan] = "absent"]
  /\ Go(Gui, Idle)
  /\ UNCHANGED <<shared, repo, adapter, disconnected, link, shown, left, alive>>

\* join returned (or there was no such channel).
ChannelRemoved ==
  LET n == pc[Gui].chan IN
    /\ In(Gui, "closing") /\ pc[n].at \in {"ended", "none"}
    /\ exclusive' = None
    /\ channels' = [channels EXCEPT ![n] = "absent"]
    /\ pc' = [pc EXCEPT ![n] = At("none", n, "none"),
                        ![Gui] = IF pc[Gui].task = "change"
                                 THEN At("fabric", n, "change") ELSE Idle]
    /\ UNCHANGED <<shared, repo, adapter, disconnected, link, shown, left, alive>>
-----------------------------------------------------------------------------
(* Sending: sendMessage and sendAndForget, on any thread but the user's *)

\* The user sends over the channel of a contact, which may be gone.
StartSend(task, n) ==
  /\ In(Work, "idle") /\ Spend(Work)
  /\ Go(Work, At("shared", n, task))
  /\ UNCHANGED <<channels, shared, exclusive, repo, adapter, disconnected, link, shown, alive>>

\* checkInThread has the mutex of the repository; timeouted() sends an ABORT.
StartExpire(n) ==
  /\ In(Timer, "idle") /\ repo = None /\ Spend(Timer)
  /\ repo' = Timer
  /\ Go(Timer, At("shared", n, "abort"))
  /\ UNCHANGED <<channels, shared, exclusive, adapter, disconnected, link, shown, alive>>

\* Mutant: the mutex is released twice.
LeaveMut(t) ==
  /\ shared' = [shared EXCEPT ![t] = @ - 2]
  /\ repo' = IF t = Timer THEN None ELSE repo

\* The thread leaves the send: the mutex is released once, the timer's callback
\* ends and gives the repository back.
Leave(t) ==
  /\ shared' = [shared EXCEPT ![t] = @ - 1]
  /\ repo' = IF t = Timer THEN None ELSE repo

\* Mutant: the channel is looked up under the mutex and used after it is released.
EnterSharedMut(t) ==
  LET n == pc[t].chan IN
    /\ In(t, "shared") /\ SharedFree /\ channels[n] = "open"
    /\ Move(t, IF pc[t].task = "request" THEN "store" ELSE "adapter")
    /\ UNCHANGED <<channels, shared, exclusive, repo, adapter, disconnected, link, shown, left,
                   alive>>

EnterShared(t) ==
  LET n == pc[t].chan IN
    /\ In(t, "shared") /\ SharedFree
    /\ IF channels[n] = "open"
       THEN /\ shared' = [shared EXCEPT ![t] = @ + 1]
            /\ Move(t, IF pc[t].task = "request" THEN "store" ELSE "adapter")
            /\ UNCHANGED repo
       ELSE /\ Go(t, After(t))                 \* not found: nothing is sent
            /\ repo' = IF t = Timer THEN None ELSE repo
            /\ UNCHANGED shared
    /\ UNCHANGED <<channels, exclusive, adapter, disconnected, link, shown, left, alive>>

\* mRepo->store takes the mutex of the repository for a moment.
StoreHandler(t) ==
  /\ In(t, "store") /\ repo = None
  /\ Move(t, "adapter")
  /\ UNCHANGED <<channels, shared, exclusive, repo, adapter, disconnected, link, shown, left,
                 alive>>

EnterAdapter(t) ==
  LET n == pc[t].chan IN
    /\ In(t, "adapter") /\ adapter[n] = None
    /\ adapter' = [adapter EXCEPT ![n] = t]
    /\ Move(t, "sending")
    /\ UNCHANGED <<channels, shared, exclusive, repo, disconnected, link, shown, left, alive>>

Sent(t) ==
  /\ In(t, "sending")
  /\ adapter' = [adapter EXCEPT ![pc[t].chan] = None]
  /\ Leave(t)
  /\ Go(t, After(t))
  /\ UNCHANGED <<channels, exclusive, disconnected, link, shown, left, alive>>

\* The adapter throws: the guard is gone before the exception is caught.
SendFailed(t) ==
  /\ In(t, "sending") /\ SendFails
  /\ adapter' = [adapter EXCEPT ![pc[t].chan] = None]
  /\ Move(t, "failed")
  /\ UNCHANGED <<channels, shared, exclusive, repo, disconnected, link, shown, left, alive>>

\* Two of the exceptions are reported; all are thrown on.  Out of sendAck and out
\* of the timer they end the process; a handler answers a request that was not
\* sent with an ABORT.
ReportFailure(t) ==
  /\ In(t, "failed")
  /\ \/ shown' = [shown EXCEPT ![pc[t].chan] = "FAILED_CONNECT"]
     \/ UNCHANGED shown
  /\ Leave(t)
  /\ Go(t, IF t \in Names /\ pc[t].task = "request" THEN At("shared", t, "abort") ELSE After(t))
  /\ alive' = (t # Timer /\ pc[t].task # "ack")
  /\ UNCHANGED <<channels, exclusive, adapter, disconnected, link, left>>
-----------------------------------------------------------------------------
(* Channel::messsageCycle *)

CheckEnd(n) ==
  /\ In(n, "loop")
  /\ Move(n, IF channels[n] = "closing" THEN "ended"
             ELSE IF disconnected[n] THEN "connect" ELSE "receive")
  /\ UNCHANGED <<channels, shared, exclusive, repo, adapter, disconnected, link, shown, left,
                 alive>>

\* Mutant: connect() runs without the mutex of the channel.
LockToConnectMut(n) ==
  /\ In(n, "connect")
  /\ Move(n, "connecting")
  /\ UNCHANGED <<channels, shared, exclusive, repo, adapter, disconnected, link, shown, left,
                 alive>>

LockToConnect(n) ==
  /\ In(n, "connect") /\ adapter[n] = None
  /\ adapter' = [adapter EXCEPT ![n] = n]
  /\ Move(n, "connecting")
  /\ UNCHANGED <<channels, shared, exclusive, repo, disconnected, link, shown, left, alive>>

\* Mutant: the guard is not left with the block, the thread receives with it.
ConnectMut(n, result) ==
  /\ In(n, "connecting") /\ result = "yes"
  /\ link' = [link EXCEPT ![n] = TRUE]
  /\ disconnected' = [disconnected EXCEPT ![n] = FALSE]
  /\ shown' = [shown EXCEPT ![n] = "CONNECTED"]
  /\ Move(n, "receive")
  /\ UNCHANGED <<channels, shared, exclusive, repo, adapter, left, alive>>

\* The result of connect() is not looked at: only an exception keeps the thread
\* disconnected.
Connect(n, result) ==
  /\ In(n, "connecting") /\ result \in ConnectResults
  /\ adapter' = [adapter EXCEPT ![n] = None]
  /\ link' = [link EXCEPT ![n] = (result = "yes")]
  /\ disconnected' = [disconnected EXCEPT ![n] = (result = "throws")]
  /\ IF result = "throws"
     THEN /\ \/ shown' = [shown EXCEPT ![n] = "FAILED_CONNECT"]
             \/ UNCHANGED shown                       \* another std::exception
          /\ Move(n, "loop")
     ELSE /\ shown' = [shown EXCEPT ![n] = "CONNECTED"]
          /\ Move(n, "receive")
  /\ UNCHANGED <<channels, shared, exclusive, repo, left, alive>>

\* receive() came back with nothing, or with an exception that is only logged.
ReceiveNothing(n) ==
  /\ In(n, "receive")
  /\ Move(n, "loop")
  /\ UNCHANGED <<channels, shared, exclusive, repo, adapter, disconnected, link, shown, left,
                 alive>>

\* Without a connection receive() throws, and so it does when it notices the loss.
ReceiveFails(n) ==
  /\ In(n, "receive") /\ ~link[n]
  /\ disconnected' = [disconnected EXCEPT ![n] = TRUE]
  /\ shown' = [shown EXCEPT ![n] = "FAILED_CONNECT"]
  /\ Move(n, "loop")
  /\ UNCHANGED <<channels, shared, exclusive, repo, adapter, link, left, alive>>

\* A message: an ACK goes to the repository, another one is confirmed first.
\* After one message of a batch the next one follows (handled -> receive).
ReceiveMessage(n) ==
  /\ In(n, "receive") /\ link[n] /\ Spend(n)
  /\ \/ Move(n, "remove") \/ Move(n, "count")
  /\ UNCHANGED <<channels, shared, exclusive, repo, adapter, disconnected, link, shown, alive>>

\* mRepo->remove: the callback only writes to the storage.
RemoveHandler(n) ==
  /\ In(n, "remove") /\ repo = None
  /\ \/ Move(n, "receive") \/ Move(n, "loop")
  /\ UNCHANGED <<channels, shared, exclusive, repo, adapter, disconnected, link, shown, left,
                 alive>>

\* sendAck confirms everything but an ABORT and the number 0, if it counts the
\* channel in the map; it counts without the mutex and, while the map is being
\* changed, may see either.
CountChannel(n) ==
  /\ In(n, "count")
  /\ Go(n, At("shared", n, "ack")) \/ Move(n, "handle")
  /\ UNCHANGED <<channels, shared, exclusive, repo, adapter, disconnected, link, shown, left,
                 alive>>

\* dispatch holds the mutex shared around the handlers, which may send.  A
\* message that is rejected goes to the error sink instead.
Handle(n) ==
  /\ In(n, "handle")
  /\ \/ /\ SharedFree
        /\ shared' = [shared EXCEPT ![n] = @ + 1]
        /\ Go(n, At("handled", n, "none"))
     \/ /\ SharedFree
        /\ shared' = [shared EXCEPT ![n] = @ + 1]
        /\ \E task \in {"request", "abort"} : Go(n, At("shared", n, task))
     \/ UNCHANGED shared /\ (Move(n, "receive") \/ Move(n, "loop"))
  /\ UNCHANGED <<channels, exclusive, repo, adapter, disconnected, link, shown, left, alive>>

\* Mutant: the mutex of the despatcher stays held after the handlers.
HandledMut(n) ==
  /\ In(n, "handled")
  /\ \/ Move(n, "receive") \/ Move(n, "loop")
  /\ UNCHANGED <<channels, shared, exclusive, repo, adapter, disconnected, link, shown, left,
                 alive>>

Handled(n) ==
  /\ In(n, "handled")
  /\ shared' = [shared EXCEPT ![n] = 0]
  /\ \/ Move(n, "receive") \/ Move(n, "loop")
  /\ UNCHANGED <<channels, exclusive, repo, adapter, disconnected, link, shown, left, alive>>

\* The connection is lost; nobody knows yet.
LinkLost(n) ==
  /\ alive /\ link[n] /\ Spend(n)
  /\ link' = [link EXCEPT ![n] = FALSE]
  /\ UNCHANGED <<channels, shared, exclusive, repo, adapter, pc, disconnected, shown, alive>>
-----------------------------------------------------------------------------
SendStep(t) ==
  EnterShared(t) \/ StoreHandler(t) \/ EnterAdapter(t) \/ Sent(t) \/ SendFailed(t)
    \/ ReportFailure(t)

CycleStep(n) ==
  \/ CheckEnd(n) \/ LockToConnect(n) \/ \E result \in ConnectResults : Connect(n, result)
  \/ ReceiveNothing(n) \/ ReceiveFails(n)
  \/ RemoveHandler(n) \/ CountChannel(n) \/ Handle(n) \/ Handled(n)
  \/ SendStep(n)

GuiStep == Fabric \/ AddChannel \/ RemoveChannel \/ ChannelRemoved

Next ==
  \/ \E n \in Names :
       \/ \E task \in GuiTasks : StartTask(task, n)
       \/ \E task \in {"request", "abort"} : StartSend(task, n)
       \/ StartExpire(n) \/ ReceiveMessage(n) \/ LinkLost(n)
       \/ CycleStep(n)
  \/ GuiStep
  \/ SendStep(Work) \/ SendStep(Timer)

Spec == Init /\ [][Next]_vars

\* Every thread runs, and receive() and connect() of the adapters come back.  The
\* mutex of a channel is free while the thread receives: a sender that waits for
\* it finds it free again and again, and gets it.
FairSpec ==
  /\ Spec
  /\ WF_vars(GuiStep)
  /\ \A n \in Names : WF_vars(CycleStep(n))
  /\ \A t \in Senders : SF_vars(SendStep(t))
-----------------------------------------------------------------------------
(* Properties *)

TypeOK ==
  /\ channels \in [Names -> {"absent", "open", "closing"}]
  /\ shared \in [Threads -> Nat]
  /\ exclusive \in {None, Gui} /\ repo \in {None, Timer}
  /\ adapter \in [Names -> Senders \cup {None}]
  /\ pc \in [Threads -> [at : Places, chan : Names \cup {None}, task : Tasks]]
  /\ disconnected \in [Names -> BOOLEAN] /\ link \in [Names -> BOOLEAN]
  /\ shown \in [Names -> {"UNDEFINED", "CONNECTED", "FAILED_CONNECT", "BAD_CHANNEL"}]
  /\ left \in [Threads -> Nat]
  /\ alive \in BOOLEAN

\* A thread that found a channel in the map uses it to the end of the send: the
\* channel is not destroyed under it (sendMessage keeps the mutex shared).
InSend == {"store", "adapter", "sending", "failed"}
UsesOpenChannel ==
  \A t \in Senders : pc[t].at \in InSend => channels[pc[t].chan] = "open"

\* connect() and send() of one adapter never run at the same time.
OneInAdapter ==
  \A t, u \in Senders :
    /\ pc[t].at \in {"connecting", "sending"} /\ pc[u].at \in {"connecting", "sending"}
    /\ pc[t].chan = pc[u].chan
    => t = u

\* A receive thread runs exactly as long as its channel exists: ~Channel waits
\* for it, so that it never touches a channel that is gone.
ThreadLivesWithChannel ==
  \A n \in Names :
    /\ pc[n].at = "none" <=> channels[n] = "absent"
    /\ pc[n].at = "ended" => channels[n] = "closing"

\* Whom a thread waits for at the lock, or the join, it stands before.  Who waits
\* to lock shared waits for the user's thread, the only writer there is.
WaitsFor(t) ==
  LET n == pc[t].chan IN
    {u \in Threads :
       \/ pc[t].at \in {"shared", "handle"} /\ ~SharedFree /\ u = Gui
       \/ pc[t].at = "unique" /\ (u = exclusive \/ shared[u] > 0)
       \/ pc[t].at \in {"store", "remove"} /\ u = repo
       \/ pc[t].at \in {"adapter", "connect"} /\ u = adapter[n]
       \/ pc[t].at = "closing" /\ u = n /\ pc[n].at \notin {"ended", "none"}}
Stuck(S) == S # {} /\ \A t \in S : WaitsFor(t) \cap S # {}

\* Threads that wait for each other in a circle have the join of removeChannel in
\* it, or a writer that keeps readers out: the repository's mutex, which the timer
\* takes before the despatcher's and sendMessage after it, and those of the
\* channels never make one by themselves.
OnlyRemovalDeadlocks ==
  \A S \in SUBSET {t \in Threads : WaitsFor(t) # {}} :
    Stuck(S) => Gui \in S /\ (pc[Gui].at = "closing" \/ WriterFirst)

\* A change of the connections comes to its end: the thread of the user interface
\* is not stuck in it.
ListenerReturns == pc[Gui].at # "idle" ~> (pc[Gui].at = "idle" \/ ~alive)

\* Every send ends, whatever locks it needs on the way.
SendsReturn ==
  \A t \in Senders : pc[t].at \in InSend \cup {"shared"}
                        ~> (pc[t].at \notin InSend \cup {"shared"} \/ ~alive)
=============================================================================
