---------------------------- MODULE ChannelsProofs ----------------------------
(***************************************************************************)
(* The locks of the despatcher and of the channels do their work for any   *)
(* number of connections: nobody uses a channel that is being destroyed,   *)
(* connect() and send() of an adapter exclude each other, and a receive    *)
(* thread lives exactly as long as its channel.  That the threads get on   *)
(* at all is a liveness question and stays with the runs.                  *)
(***************************************************************************)
EXTENDS Channels, TLAPS

USE ChannelsAssumption DEF ChannelsAssumption

\* A thread that is not idle works for a connection, a receive thread for its own.
ChanInv ==
  /\ \A t \in Threads : pc[t].at # "idle" => pc[t].chan \in Names
  /\ \A n \in Names : pc[n].chan = n

\* Who is between the lookup of a channel and the end of the send holds the
\* despatcher's mutex.
SharedInv == \A t \in Senders : pc[t].at \in InSend => shared[t] > 0

\* Who is in the adapter holds the mutex of the channel.
AdapterInv ==
  \A t \in Senders : pc[t].at \in {"connecting", "sending"} => adapter[pc[t].chan] = t

\* removeChannel waits only for a channel it has taken out of use.
GuiInv == pc[Gui].at = "closing" => channels[pc[Gui].chan] # "open"

IInv ==
  /\ TypeOK /\ ChanInv /\ SharedInv /\ AdapterInv /\ GuiInv
  /\ UsesOpenChannel /\ ThreadLivesWithChannel

PcType == [at : Places, chan : Names \cup {None}, task : Tasks]
-----------------------------------------------------------------------------
LEMMA Roles ==
  /\ Senders \subseteq Threads /\ Gui \in Threads /\ Gui \notin Senders
  /\ Names \subseteq Senders /\ Work \in Senders /\ Timer \in Senders
BY DEF Senders, Threads

LEMMA InitInv == Init => IInv
<1> SUFFICES ASSUME Init PROVE IInv
  OBVIOUS
<1> USE DEF Init, At, Idle
<1>1. TypeOK
  BY DEF TypeOK, Threads, Places, Tasks
<1>2. \A t \in Threads : pc[t].at \in {"none", "idle"} /\ (pc[t].at # "idle" => pc[t].chan \in Names)
  OBVIOUS
<1>3. \A n \in Names : pc[n].at = "none" /\ pc[n].chan = n /\ channels[n] = "absent"
  BY Roles
<1> QED BY <1>1, <1>2, <1>3, Roles
        DEF IInv, ChanInv, SharedInv, AdapterInv, GuiInv, UsesOpenChannel,
            ThreadLivesWithChannel, InSend

\* A step of one sender that keeps its connection, is found at a place it may be
\* at, and keeps what it holds.
LEMMA SenderStep ==
  ASSUME IInv, NEW t \in Senders, NEW where, TypeOK',
         pc' = [pc EXCEPT ![t] = where], channels' = channels,
         pc[t].at \notin {"none", "ended"},
         where.at = "none" => FALSE,
         where.at = "ended" => t \in Names /\ channels[t] = "closing",
         where.at # "idle" => where.chan \in Names,
         t \in Names => where.chan = t,
         where.at \in InSend => shared'[t] > 0 /\ channels[where.chan] = "open",
         \A u \in Senders \ {t} : shared'[u] = shared[u],
         where.at \in {"connecting", "sending"} => adapter'[where.chan] = t,
         \A n \in Names : adapter'[n] = adapter[n] \/ adapter[n] \in {None, t}
  PROVE  IInv'
<1>0. /\ \A u \in Threads \ {t} : pc'[u] = pc[u]
      /\ pc'[t] = where /\ t \in Threads /\ t # Gui
  BY Roles DEF IInv, TypeOK
<1>1. ChanInv'
  BY <1>0, Roles DEF IInv, ChanInv
<1>2. SharedInv'
  BY <1>0, Roles DEF IInv, SharedInv
<1>3. AdapterInv'
  <2> SUFFICES ASSUME NEW u \in Senders, pc'[u].at \in {"connecting", "sending"}
               PROVE  adapter'[pc'[u].chan] = u
    BY DEF AdapterInv
  <2>1. CASE u = t
    BY <1>0, <2>1
  <2>2. CASE u # t
    <3>1. adapter[pc[u].chan] = u /\ pc[u].chan \in Names /\ pc'[u] = pc[u]
      BY <1>0, <2>2, Roles DEF IInv, AdapterInv, ChanInv
    <3>2. u # None
      BY Roles DEF Threads
    <3> QED BY <2>2, <3>1, <3>2
  <2> QED BY <2>1, <2>2
<1>4. GuiInv'
  BY <1>0, Roles DEF IInv, GuiInv
<1>5. UsesOpenChannel'
  BY <1>0, Roles DEF IInv, UsesOpenChannel
<1>6. ThreadLivesWithChannel'
  BY <1>0, Roles DEF IInv, ThreadLivesWithChannel
<1> QED BY <1>1, <1>2, <1>3, <1>4, <1>5, <1>6 DEF IInv

\* Move changes the place and nothing else.
LEMMA MoveIs ==
  ASSUME IInv, NEW t \in Threads, NEW place \in Places, Move(t, place)
  PROVE  /\ pc' = [pc EXCEPT ![t] = At(place, pc[t].chan, pc[t].task)]
         /\ pc' \in [Threads -> PcType]
<1>1. pc \in [Threads -> PcType]
  BY DEF IInv, TypeOK, PcType
<1>2. [pc[t] EXCEPT !.at = place] = At(place, pc[t].chan, pc[t].task)
  BY <1>1 DEF PcType, At
<1>3. pc' = [pc EXCEPT ![t] = [pc[t] EXCEPT !.at = place]]
  BY <1>1 DEF Move
<1>4. At(place, pc[t].chan, pc[t].task) \in PcType
  BY <1>1 DEF PcType, At
<1> QED BY <1>1, <1>2, <1>3, <1>4

LEMMA GoIs ==
  ASSUME IInv, NEW t \in Threads, NEW where \in PcType, Go(t, where)
  PROVE  pc' = [pc EXCEPT ![t] = where] /\ pc' \in [Threads -> PcType]
BY DEF IInv, TypeOK, PcType, Go

\* The fields of At, and which of them Places and Tasks hold.
LEMMA AtFields ==
  ASSUME NEW place, NEW n, NEW task
  PROVE  /\ At(place, n, task).at = place
         /\ At(place, n, task).chan = n
         /\ place \in Places /\ n \in Names \cup {None} /\ task \in Tasks
              => At(place, n, task) \in PcType
BY DEF At, PcType

\* Where After leads: out of the send, and never into a lock.
LEMMA AfterIs ==
  ASSUME IInv, NEW t \in Senders
  PROVE  /\ After(t) \in PcType
         /\ After(t).at \in {"idle", "handle", "handled"}
         /\ After(t).at # "idle" => After(t).chan \in Names
         /\ t \in Names => After(t).chan = t
<1>1. CASE t = Work \/ t = Timer
  BY <1>1 DEF After, Idle, At, PcType, Places, Tasks
<1>2. CASE ~(t = Work \/ t = Timer)
  <2>1. t \in Names
    BY <1>2 DEF Senders
  <2> QED BY <1>2, <2>1 DEF After, At, PcType, Places, Tasks
<1> QED BY <1>1, <1>2
-----------------------------------------------------------------------------
(* Sending *)

LEMMA EnterSharedInv ==
  ASSUME IInv, NEW t \in Senders, EnterShared(t)
  PROVE  IInv'
<1> DEFINE n == pc[t].chan
           place == IF pc[t].task = "request" THEN "store" ELSE "adapter"
<1>0. t \in Threads /\ n \in Names /\ pc[t].at = "shared" /\ (t \in Names => n = t)
  BY Roles DEF IInv, ChanInv, EnterShared, In
<1>1. CASE channels[n] = "open"
  <2>1. Move(t, place) /\ place \in Places /\ place \in {"store", "adapter"}
    BY <1>1 DEF EnterShared, Places
  <2>2. pc' = [pc EXCEPT ![t] = At(place, n, pc[t].task)] /\ pc' \in [Threads -> PcType]
    BY <1>0, <2>1, MoveIs
  <2>3. shared' = [shared EXCEPT ![t] = @ + 1] /\ shared' \in [Threads -> Nat] /\ shared'[t] > 0
    BY <1>0, <1>1 DEF EnterShared, IInv, TypeOK
  <2>4. TypeOK'
    BY <1>1, <2>2, <2>3 DEF EnterShared, IInv, TypeOK, PcType
  <2>5. channels' = channels /\ adapter' = adapter /\ \A u \in Senders \ {t} : shared'[u] = shared[u]
    BY <2>3, Roles DEF EnterShared, IInv, TypeOK
  <2>6. At(place, n, pc[t].task).at = place /\ At(place, n, pc[t].task).chan = n
    BY AtFields
  <2> HIDE DEF place
  <2> QED BY <1>0, <1>1, <2>1, <2>2, <2>3, <2>4, <2>5, <2>6, SenderStep, ZenonT(60) DEF InSend
<1>2. CASE channels[n] # "open"
  <2>1. Go(t, After(t)) /\ shared' = shared
    BY <1>2 DEF EnterShared
  <2>2. pc' = [pc EXCEPT ![t] = After(t)] /\ pc' \in [Threads -> PcType]
    BY <1>0, <2>1, GoIs, AfterIs
  <2>3. TypeOK'
    BY <1>2, <2>1, <2>2 DEF EnterShared, IInv, TypeOK, PcType
  <2>4. channels' = channels /\ adapter' = adapter
    BY DEF EnterShared
  <2> QED BY <1>0, <2>1, <2>2, <2>3, <2>4, AfterIs, SenderStep DEF InSend
<1> QED BY <1>1, <1>2

LEMMA StoreHandlerInv ==
  ASSUME IInv, NEW t \in Senders, StoreHandler(t)
  PROVE  IInv'
<1> DEFINE n == pc[t].chan
<1>0. /\ t \in Threads /\ n \in Names /\ pc[t].at = "store" /\ (t \in Names => n = t)
      /\ shared[t] > 0 /\ channels[n] = "open"
  BY Roles DEF IInv, ChanInv, SharedInv, UsesOpenChannel, InSend, StoreHandler, In
<1>1. pc' = [pc EXCEPT ![t] = At("adapter", n, pc[t].task)] /\ pc' \in [Threads -> PcType]
  BY <1>0, MoveIs DEF StoreHandler, Places
<1>2. TypeOK' /\ channels' = channels /\ adapter' = adapter /\ shared' = shared
  BY <1>1 DEF StoreHandler, IInv, TypeOK, PcType
<1>3. At("adapter", n, pc[t].task).at = "adapter" /\ At("adapter", n, pc[t].task).chan = n
  BY AtFields
<1> QED BY <1>0, <1>1, <1>2, <1>3, SenderStep DEF InSend

LEMMA EnterAdapterInv ==
  ASSUME IInv, NEW t \in Senders, EnterAdapter(t)
  PROVE  IInv'
<1> DEFINE n == pc[t].chan
<1>0. /\ t \in Threads /\ n \in Names /\ pc[t].at = "adapter" /\ (t \in Names => n = t)
      /\ shared[t] > 0 /\ channels[n] = "open" /\ adapter[n] = None
  BY Roles DEF IInv, ChanInv, SharedInv, UsesOpenChannel, InSend, EnterAdapter, In
<1>1. pc' = [pc EXCEPT ![t] = At("sending", n, pc[t].task)] /\ pc' \in [Threads -> PcType]
  BY <1>0, MoveIs DEF EnterAdapter, Places
<1>2. adapter' = [adapter EXCEPT ![n] = t] /\ channels' = channels /\ shared' = shared
  BY DEF EnterAdapter
<1>3. TypeOK'
  BY <1>0, <1>1, <1>2 DEF EnterAdapter, IInv, TypeOK, PcType
<1>4. adapter'[n] = t /\ \A m \in Names : adapter'[m] = adapter[m] \/ adapter[m] \in {None, t}
  BY <1>0, <1>2 DEF IInv, TypeOK
<1>5. At("sending", n, pc[t].task).at = "sending" /\ At("sending", n, pc[t].task).chan = n
  BY AtFields
<1> QED BY <1>0, <1>1, <1>2, <1>3, <1>4, <1>5, SenderStep, ZenonT(60) DEF InSend

\* The end of a send: what Sent and ReportFailure have in common.
LEMMA LeaveInv ==
  ASSUME IInv, NEW t \in Senders, pc[t].at \in InSend, Leave(t)
  PROVE  /\ shared' \in [Threads -> Nat]
         /\ \A u \in Senders \ {t} : shared'[u] = shared[u]
         /\ repo' \in {None, Timer}
BY Roles DEF IInv, TypeOK, SharedInv, Leave

LEMMA SentInv ==
  ASSUME IInv, NEW t \in Senders, Sent(t)
  PROVE  IInv'
<1> DEFINE n == pc[t].chan
<1>0. /\ t \in Threads /\ n \in Names /\ pc[t].at = "sending" /\ (t \in Names => n = t)
      /\ adapter[n] = t
  BY Roles DEF IInv, ChanInv, AdapterInv, Sent, In
<1>1. pc' = [pc EXCEPT ![t] = After(t)] /\ pc' \in [Threads -> PcType]
  BY <1>0, GoIs, AfterIs DEF Sent
<1>2. adapter' = [adapter EXCEPT ![n] = None] /\ channels' = channels
  BY DEF Sent
<1>3. Leave(t) /\ pc[t].at \in InSend
  BY <1>0 DEF Sent, InSend
<1>4. TypeOK'
  BY <1>0, <1>1, <1>2, <1>3, LeaveInv DEF Sent, IInv, TypeOK, PcType
<1>5. \A m \in Names : adapter'[m] = adapter[m] \/ adapter[m] \in {None, t}
  BY <1>0, <1>2 DEF IInv, TypeOK
<1> QED BY <1>0, <1>1, <1>2, <1>3, <1>4, <1>5, AfterIs, LeaveInv, SenderStep DEF InSend

LEMMA SendFailedInv ==
  ASSUME IInv, NEW t \in Senders, SendFailed(t)
  PROVE  IInv'
<1> DEFINE n == pc[t].chan
<1>0. /\ t \in Threads /\ n \in Names /\ pc[t].at = "sending" /\ (t \in Names => n = t)
      /\ shared[t] > 0 /\ channels[n] = "open" /\ adapter[n] = t
  BY Roles DEF IInv, ChanInv, SharedInv, AdapterInv, UsesOpenChannel, InSend, SendFailed, In
<1>1. pc' = [pc EXCEPT ![t] = At("failed", n, pc[t].task)] /\ pc' \in [Threads -> PcType]
  BY <1>0, MoveIs DEF SendFailed, Places
<1>2. adapter' = [adapter EXCEPT ![n] = None] /\ channels' = channels /\ shared' = shared
  BY DEF SendFailed
<1>3. TypeOK'
  BY <1>0, <1>1, <1>2 DEF SendFailed, IInv, TypeOK, PcType
<1>4. \A m \in Names : adapter'[m] = adapter[m] \/ adapter[m] \in {None, t}
  BY <1>0, <1>2 DEF IInv, TypeOK
<1>5. At("failed", n, pc[t].task).at = "failed" /\ At("failed", n, pc[t].task).chan = n
  BY AtFields
<1> QED BY <1>0, <1>1, <1>2, <1>3, <1>4, <1>5, SenderStep DEF InSend

LEMMA ReportFailureInv ==
  ASSUME IInv, NEW t \in Senders, ReportFailure(t)
  PROVE  IInv'
<1> DEFINE again == t \in Names /\ pc[t].task = "request"
           where == IF again THEN At("shared", t, "abort") ELSE After(t)
<1>0. /\ t \in Threads /\ pc[t].chan \in Names /\ pc[t].at = "failed"
      /\ Leave(t) /\ pc[t].at \in InSend /\ channels' = channels /\ adapter' = adapter
  BY Roles DEF IInv, ChanInv, ReportFailure, In, InSend
<1>1. /\ where \in PcType /\ where.at \in {"idle", "handle", "handled", "shared"}
      /\ where.at # "idle" => where.chan \in Names
      /\ t \in Names => where.chan = t
  <2>1. CASE again
    BY <2>1 DEF At, PcType, Places, Tasks
  <2>2. CASE ~again
    BY <2>2, AfterIs
  <2> QED BY <2>1, <2>2
<1>2. Go(t, where)
  BY DEF ReportFailure
<1> HIDE DEF where
<1>3. pc' = [pc EXCEPT ![t] = where] /\ pc' \in [Threads -> PcType]
  BY <1>0, <1>1, <1>2, GoIs
<1>4. shown' \in [Names -> {"UNDEFINED", "CONNECTED", "FAILED_CONNECT", "BAD_CHANNEL"}]
  BY DEF ReportFailure, IInv, TypeOK
<1>5. TypeOK'
  BY <1>0, <1>3, <1>4, LeaveInv DEF ReportFailure, IInv, TypeOK, PcType
<1> QED BY <1>0, <1>1, <1>3, <1>5, LeaveInv, SenderStep DEF InSend

LEMMA SendStepInv ==
  ASSUME IInv, NEW t \in Senders, SendStep(t)
  PROVE  IInv'
BY EnterSharedInv, StoreHandlerInv, EnterAdapterInv, SentInv, SendFailedInv, ReportFailureInv
   DEF SendStep
-----------------------------------------------------------------------------
(* Channel::messsageCycle *)

\* A step of a receive thread to a place outside the locks and outside a send.
QuietPlaces == {"loop", "connect", "receive", "count", "remove", "handle", "handled", "shared"}

LEMMA QuietStep ==
  ASSUME IInv, NEW n \in Names, NEW place \in QuietPlaces, NEW task \in Tasks,
         pc' = [pc EXCEPT ![n] = At(place, n, task)],
         pc[n].at \notin {"none", "ended"}, channels' = channels,
         \A u \in Senders \ {n} : shared'[u] = shared[u],
         \A m \in Names : adapter'[m] = adapter[m] \/ adapter[m] \in {None, n},
         shared' \in [Threads -> Nat], adapter' \in [Names -> Senders \cup {None}],
         link' \in [Names -> BOOLEAN], disconnected' \in [Names -> BOOLEAN],
         shown' \in [Names -> {"UNDEFINED", "CONNECTED", "FAILED_CONNECT", "BAD_CHANNEL"}],
         left' \in [Threads -> Nat], UNCHANGED <<exclusive, repo, alive>>
  PROVE  IInv'
<1>1. At(place, n, task) \in PcType
  BY AtFields DEF QuietPlaces, Places
<1>2. pc' \in [Threads -> PcType]
  BY <1>1, Roles DEF IInv, TypeOK, PcType
<1>3. TypeOK'
  BY <1>2 DEF IInv, TypeOK, PcType
<1>4. At(place, n, task).at = place /\ At(place, n, task).chan = n
  BY AtFields
<1>5. place \notin InSend \cup {"none", "ended", "connecting", "sending", "idle"}
  BY DEF QuietPlaces, InSend
<1>6. n \in Senders
  BY Roles
<1> QED BY <1>3, <1>4, <1>5, <1>6, SenderStep, ZenonT(60)

\* The steps of the cycle that only move the thread, and count, connect or hold.
LEMMA CycleMoveInv ==
  ASSUME IInv, NEW n \in Names, NEW place \in QuietPlaces, Move(n, place),
         pc[n].at \notin {"none", "ended"}, channels' = channels, adapter' = adapter,
         \A u \in Senders \ {n} : shared'[u] = shared[u],
         shared' \in [Threads -> Nat],
         link' \in [Names -> BOOLEAN], disconnected' \in [Names -> BOOLEAN],
         shown' \in [Names -> {"UNDEFINED", "CONNECTED", "FAILED_CONNECT", "BAD_CHANNEL"}],
         left' \in [Threads -> Nat], UNCHANGED <<exclusive, repo, alive>>
  PROVE  IInv'
<1>1. place \in Places /\ pc[n].task \in Tasks /\ pc[n].chan = n
  BY Roles DEF QuietPlaces, Places, IInv, TypeOK, ChanInv
<1>2. pc' = [pc EXCEPT ![n] = At(place, n, pc[n].task)]
  BY <1>1, Roles, MoveIs
<1>3. adapter' \in [Names -> Senders \cup {None}]
  BY DEF IInv, TypeOK
<1> QED BY <1>1, <1>2, <1>3, QuietStep

LEMMA CycleGoInv ==
  ASSUME IInv, NEW n \in Names, NEW place \in QuietPlaces, NEW task \in Tasks,
         Go(n, At(place, n, task)),
         pc[n].at \notin {"none", "ended"}, channels' = channels, adapter' = adapter,
         \A u \in Senders \ {n} : shared'[u] = shared[u],
         shared' \in [Threads -> Nat],
         UNCHANGED <<link, disconnected, shown, left, exclusive, repo, alive>>
  PROVE  IInv'
<1>1. adapter' \in [Names -> Senders \cup {None}] /\ adapter' = adapter
  BY DEF IInv, TypeOK
<1>2. /\ link' \in [Names -> BOOLEAN] /\ disconnected' \in [Names -> BOOLEAN]
      /\ shown' \in [Names -> {"UNDEFINED", "CONNECTED", "FAILED_CONNECT", "BAD_CHANNEL"}]
      /\ left' \in [Threads -> Nat]
  BY DEF IInv, TypeOK
<1> QED BY <1>1, <1>2, QuietStep DEF Go

\* The type of what a step of the cycle leaves alone.
LEMMA Types ==
  ASSUME IInv
  PROVE  /\ shared \in [Threads -> Nat] /\ adapter \in [Names -> Senders \cup {None}]
         /\ link \in [Names -> BOOLEAN] /\ disconnected \in [Names -> BOOLEAN]
         /\ shown \in [Names -> {"UNDEFINED", "CONNECTED", "FAILED_CONNECT", "BAD_CHANNEL"}]
         /\ left \in [Threads -> Nat]
BY DEF IInv, TypeOK

LEMMA CheckEndInv ==
  ASSUME IInv, NEW n \in Names, CheckEnd(n)
  PROVE  IInv'
<1>0. n \in Threads /\ n \in Senders /\ pc[n].chan = n /\ pc[n].at = "loop"
  BY Roles DEF IInv, ChanInv, CheckEnd, In
<1>1. CASE channels[n] = "closing"
  <2>1. pc' = [pc EXCEPT ![n] = At("ended", n, pc[n].task)] /\ pc' \in [Threads -> PcType]
    BY <1>0, <1>1, MoveIs DEF CheckEnd, Places
  <2>2. TypeOK' /\ channels' = channels /\ adapter' = adapter /\ shared' = shared
    BY <2>1 DEF CheckEnd, IInv, TypeOK, PcType
  <2>3. At("ended", n, pc[n].task).at = "ended" /\ At("ended", n, pc[n].task).chan = n
    BY AtFields
  <2> QED BY <1>0, <1>1, <2>1, <2>2, <2>3, SenderStep DEF InSend
<1>2. CASE channels[n] # "closing"
  <2>1. \E place \in QuietPlaces : Move(n, place)
    BY <1>2 DEF CheckEnd, QuietPlaces
  <2> QED BY <1>0, <2>1, Types, CycleMoveInv DEF CheckEnd
<1> QED BY <1>1, <1>2

LEMMA LockToConnectInv ==
  ASSUME IInv, NEW n \in Names, LockToConnect(n)
  PROVE  IInv'
<1>0. n \in Threads /\ n \in Senders /\ pc[n].chan = n /\ pc[n].at = "connect" /\ adapter[n] = None
  BY Roles DEF IInv, ChanInv, LockToConnect, In
<1>1. pc' = [pc EXCEPT ![n] = At("connecting", n, pc[n].task)] /\ pc' \in [Threads -> PcType]
  BY <1>0, MoveIs DEF LockToConnect, Places
<1>2. adapter' = [adapter EXCEPT ![n] = n] /\ channels' = channels /\ shared' = shared
  BY DEF LockToConnect
<1>3. TypeOK'
  BY <1>0, <1>1, <1>2 DEF LockToConnect, IInv, TypeOK, PcType
<1>4. adapter'[n] = n /\ \A m \in Names : adapter'[m] = adapter[m] \/ adapter[m] \in {None, n}
  BY <1>0, <1>2 DEF IInv, TypeOK
<1>5. At("connecting", n, pc[n].task).at = "connecting" /\ At("connecting", n, pc[n].task).chan = n
  BY AtFields
<1> QED BY <1>0, <1>1, <1>2, <1>3, <1>4, <1>5, SenderStep, ZenonT(60) DEF InSend

LEMMA ConnectInv ==
  ASSUME IInv, NEW n \in Names, NEW result \in ConnectResults, Connect(n, result)
  PROVE  IInv'
<1>0. n \in Threads /\ n \in Senders /\ pc[n].chan = n /\ pc[n].at = "connecting" /\ adapter[n] = n
  BY Roles DEF IInv, ChanInv, AdapterInv, Connect, In
<1>1. \E place \in QuietPlaces : place \in Places /\ Move(n, place)
  BY DEF Connect, QuietPlaces, Places
<1>2. PICK place \in QuietPlaces : pc' = [pc EXCEPT ![n] = At(place, n, pc[n].task)]
  BY <1>0, <1>1, MoveIs
<1>3. /\ link' \in [Names -> BOOLEAN] /\ disconnected' \in [Names -> BOOLEAN]
      /\ shown' \in [Names -> {"UNDEFINED", "CONNECTED", "FAILED_CONNECT", "BAD_CHANNEL"}]
      /\ adapter' \in [Names -> Senders \cup {None}]
  BY DEF Connect, IInv, TypeOK
<1>4. \A m \in Names : adapter'[m] = adapter[m] \/ adapter[m] \in {None, n}
  BY <1>0 DEF Connect, IInv, TypeOK
<1>5. pc[n].task \in Tasks
  BY <1>0 DEF IInv, TypeOK
<1> QED BY <1>0, <1>2, <1>3, <1>4, <1>5, Types, QuietStep DEF Connect

\* The steps between receive() and the end of dispatch.
LEMMA ReceiveInv ==
  ASSUME IInv, NEW n \in Names,
         \/ ReceiveNothing(n) \/ ReceiveFails(n) \/ ReceiveMessage(n) \/ RemoveHandler(n)
  PROVE  IInv'
<1>0. n \in Threads /\ pc[n].at \in {"receive", "remove"}
  BY Roles DEF ReceiveNothing, ReceiveFails, ReceiveMessage, RemoveHandler, In
<1>1. \E place \in QuietPlaces : Move(n, place)
  BY DEF ReceiveNothing, ReceiveFails, ReceiveMessage, RemoveHandler, QuietPlaces
<1>2. /\ disconnected' \in [Names -> BOOLEAN] /\ link' = link
      /\ shown' \in [Names -> {"UNDEFINED", "CONNECTED", "FAILED_CONNECT", "BAD_CHANNEL"}]
  BY Types DEF ReceiveNothing, ReceiveFails, ReceiveMessage, RemoveHandler
<1>3. left' \in [Threads -> Nat]
  BY <1>0, Types DEF ReceiveNothing, ReceiveFails, ReceiveMessage, RemoveHandler, Spend
<1>4. UNCHANGED <<channels, shared, adapter, exclusive, repo, alive>>
  BY DEF ReceiveNothing, ReceiveFails, ReceiveMessage, RemoveHandler
<1> QED BY <1>0, <1>1, <1>2, <1>3, <1>4, Types, CycleMoveInv

LEMMA CountChannelInv ==
  ASSUME IInv, NEW n \in Names, CountChannel(n)
  PROVE  IInv'
<1>1. CASE Go(n, At("shared", n, "ack"))
  BY <1>1, Types, CycleGoInv DEF CountChannel, In, QuietPlaces, Tasks
<1>2. CASE Move(n, "handle")
  BY <1>2, Types, CycleMoveInv DEF CountChannel, In, QuietPlaces
<1> QED BY <1>1, <1>2 DEF CountChannel

LEMMA HandleInv ==
  ASSUME IInv, NEW n \in Names, Handle(n) \/ Handled(n)
  PROVE  IInv'
<1>0. /\ pc[n].at \in {"handle", "handled"} /\ n \in Threads
      /\ UNCHANGED <<channels, adapter, link, disconnected, shown, left, exclusive, repo, alive>>
  BY Roles DEF Handle, Handled, In
<1>1. shared' \in [Threads -> Nat] /\ \A u \in Senders \ {n} : shared'[u] = shared[u]
  BY <1>0, Types, Roles DEF Handle, Handled
<1>2. \/ \E place \in QuietPlaces, task \in Tasks : Go(n, At(place, n, task))
      \/ \E place \in QuietPlaces : Move(n, place)
  BY DEF Handle, Handled, QuietPlaces, Tasks
<1>3. CASE \E place \in QuietPlaces, task \in Tasks : Go(n, At(place, n, task))
  BY <1>0, <1>1, <1>3, CycleGoInv
<1>4. CASE \E place \in QuietPlaces : Move(n, place)
  BY <1>0, <1>1, <1>4, Types, CycleMoveInv
<1> QED BY <1>2, <1>3, <1>4

LEMMA CycleStepInv ==
  ASSUME IInv, NEW n \in Names, CycleStep(n) \/ ReceiveMessage(n)
  PROVE  IInv'
BY CheckEndInv, LockToConnectInv, ConnectInv, ReceiveInv, CountChannelInv, HandleInv,
   SendStepInv, Roles DEF CycleStep
-----------------------------------------------------------------------------
(* The user's side, and the steps that only start something *)

\* A step of the user's thread that leaves the channels and the locks alone.
LEMMA GuiStepInv ==
  ASSUME IInv, NEW place \in {"idle", "fabric", "unique"}, NEW n \in Names \cup {None},
         NEW task \in Tasks, n = None => place = "idle",
         Go(Gui, At(place, n, task)),
         shown' \in [Names -> {"UNDEFINED", "CONNECTED", "FAILED_CONNECT", "BAD_CHANNEL"}],
         left' \in [Threads -> Nat],
         UNCHANGED <<channels, shared, adapter, exclusive, repo, disconnected, link, alive>>
  PROVE  IInv'
<1>1. /\ At(place, n, task) \in PcType
      /\ At(place, n, task).at = place /\ At(place, n, task).chan = n
  BY AtFields DEF Places
<1>2. pc' = [pc EXCEPT ![Gui] = At(place, n, task)] /\ pc' \in [Threads -> PcType]
  BY <1>1, Roles, GoIs
<1>3. pc'[Gui] = At(place, n, task) /\ \A t \in Senders : pc'[t] = pc[t]
  BY <1>2, Roles DEF IInv, TypeOK
<1>4. TypeOK'
  BY <1>2 DEF IInv, TypeOK, PcType
<1>5. ChanInv'
  <2>1. \A t \in Threads : t = Gui \/ t \in Senders
    BY DEF Threads, Senders
  <2> QED BY <1>1, <1>3, <2>1, Roles DEF IInv, ChanInv
<1>6. SharedInv' /\ AdapterInv' /\ UsesOpenChannel'
  BY <1>3 DEF IInv, SharedInv, AdapterInv, UsesOpenChannel
<1>7. GuiInv' /\ ThreadLivesWithChannel'
  BY <1>1, <1>3, Roles DEF IInv, GuiInv, ThreadLivesWithChannel
<1> QED BY <1>4, <1>5, <1>6, <1>7 DEF IInv

LEMMA StartTaskInv ==
  ASSUME IInv, NEW task \in GuiTasks, NEW n \in Names, StartTask(task, n)
  PROVE  IInv'
<1>1. left' \in [Threads -> Nat]
  BY Types, Roles DEF StartTask, Spend
<1>2. task \in Tasks
  BY DEF Tasks
<1> QED BY <1>1, <1>2, Types, GuiStepInv, Roles DEF StartTask

LEMMA FabricInv ==
  ASSUME IInv, Fabric
  PROVE  IInv'
<1>1. pc[Gui].chan \in Names
  BY Roles DEF IInv, ChanInv, Fabric, In
<1>2. CASE Go(Gui, At("unique", pc[Gui].chan, "add")) /\ UNCHANGED shown
  BY <1>1, <1>2, Types, GuiStepInv DEF Fabric, Tasks
<1>3. ASSUME Go(Gui, Idle), NEW event \in {"BAD_CHANNEL", "FAILED_CONNECT"},
             shown' = [shown EXCEPT ![pc[Gui].chan] = event]
      PROVE  IInv'
  BY <1>1, <1>3, Types, GuiStepInv DEF Fabric, Tasks, Idle
<1> QED BY <1>2, <1>3 DEF Fabric

\* A new channel is open and its thread at the top of the cycle, outside all locks.
LEMMA AddChannelInv ==
  ASSUME IInv, AddChannel
  PROVE  IInv'
<1> DEFINE n == pc[Gui].chan
<1>0. n \in Names /\ n \in Senders /\ n # Gui
  BY Roles DEF IInv, ChanInv, AddChannel, In
<1>1. /\ At("loop", n, "none") \in PcType /\ Idle \in PcType
      /\ At("loop", n, "none").at = "loop" /\ At("loop", n, "none").chan = n /\ Idle.at = "idle"
  BY <1>0, AtFields DEF Idle, Places, Tasks
<1>2. /\ pc' = [pc EXCEPT ![n] = At("loop", n, "none"), ![Gui] = Idle]
      /\ channels' = [channels EXCEPT ![n] = "open"]
      /\ UNCHANGED <<shared, exclusive, repo, adapter, shown, left, alive>>
  BY DEF AddChannel
<1>3. pc \in [Threads -> PcType] /\ channels \in [Names -> {"absent", "open", "closing"}]
  BY DEF IInv, TypeOK, PcType
<1>4. pc'[n] = At("loop", n, "none") /\ pc'[Gui] = Idle /\ pc' \in [Threads -> PcType]
  BY <1>0, <1>1, <1>2, <1>3, Roles
<1>5. \A t \in Senders \ {n} : pc'[t] = pc[t]
  BY <1>2, <1>3, Roles
<1>6. channels'[n] = "open" /\ \A m \in Names \ {n} : channels'[m] = channels[m]
  BY <1>0, <1>2, <1>3
<1>7. TypeOK'
  BY <1>0, <1>2, <1>4 DEF AddChannel, IInv, TypeOK, PcType
<1>8. ChanInv'
  <2>1. \A t \in Threads : t = Gui \/ t \in Senders
    BY DEF Threads, Senders
  <2> QED BY <1>0, <1>1, <1>4, <1>5, <2>1, Roles DEF IInv, ChanInv
<1>9. SharedInv' /\ AdapterInv'
  BY <1>1, <1>2, <1>4, <1>5 DEF IInv, SharedInv, AdapterInv, InSend
<1>10. UsesOpenChannel'
  BY <1>1, <1>4, <1>5, <1>6, Roles DEF IInv, UsesOpenChannel, ChanInv, InSend
<1>11. GuiInv' /\ ThreadLivesWithChannel'
  BY <1>1, <1>4, <1>5, <1>6, Roles DEF IInv, GuiInv, ThreadLivesWithChannel
<1> QED BY <1>7, <1>8, <1>9, <1>10, <1>11 DEF IInv

\* The mutex is taken exclusively, so nobody is in a send: no one uses the
\* channel that stops being open.
LEMMA RemoveChannelInv ==
  ASSUME IInv, RemoveChannel
  PROVE  IInv'
<1> DEFINE n == pc[Gui].chan
<1>0. n \in Names /\ \A t \in Senders : pc[t].at \notin InSend
  <2>1. \A t \in Senders : shared[t] = 0
    BY Roles DEF RemoveChannel, UniqueFree
  <2> QED BY <2>1, Roles DEF IInv, ChanInv, SharedInv, RemoveChannel, In
<1>1. pc' = [pc EXCEPT ![Gui] = At("closing", n, pc[Gui].task)] /\ pc' \in [Threads -> PcType]
  BY Roles, MoveIs DEF RemoveChannel, Places
<1>2. At("closing", n, pc[Gui].task).at = "closing" /\ At("closing", n, pc[Gui].task).chan = n
  BY AtFields
<1>3. /\ channels' = [channels EXCEPT ![n] = IF @ = "open" THEN "closing" ELSE @]
      /\ UNCHANGED <<shared, repo, adapter, disconnected, link, shown, left, alive>>
  BY DEF RemoveChannel
<1>4. /\ channels'[n] = IF channels[n] = "open" THEN "closing" ELSE channels[n]
      /\ \A m \in Names \ {n} : channels'[m] = channels[m]
  BY <1>0, <1>3 DEF IInv, TypeOK
<1>5. pc'[Gui].at = "closing" /\ pc'[Gui].chan = n /\ \A t \in Senders : pc'[t] = pc[t]
  BY <1>1, <1>2, Roles DEF IInv, TypeOK
<1>6. TypeOK'
  BY <1>0, <1>1, <1>3 DEF RemoveChannel, IInv, TypeOK, PcType
<1>7. ChanInv'
  <2>1. \A t \in Threads : t = Gui \/ t \in Senders
    BY DEF Threads, Senders
  <2> QED BY <1>0, <1>5, <2>1, Roles DEF IInv, ChanInv
<1>8. SharedInv' /\ AdapterInv' /\ UsesOpenChannel'
  BY <1>0, <1>3, <1>5 DEF IInv, SharedInv, AdapterInv, UsesOpenChannel
<1>9. GuiInv' /\ ThreadLivesWithChannel'
  BY <1>0, <1>4, <1>5, Roles DEF IInv, GuiInv, ThreadLivesWithChannel
<1> QED BY <1>6, <1>7, <1>8, <1>9 DEF IInv

\* The channel that goes away was not open, so nobody uses it, and its thread has
\* ended or never was.
LEMMA ChannelRemovedInv ==
  ASSUME IInv, ChannelRemoved
  PROVE  IInv'
<1> DEFINE n == pc[Gui].chan
           where == IF pc[Gui].task = "change" THEN At("fabric", n, "change") ELSE Idle
<1>0. n \in Names /\ n \in Senders /\ n # Gui /\ channels[n] # "open"
  BY Roles DEF IInv, ChanInv, GuiInv, ChannelRemoved, In
<1>1. /\ where \in PcType /\ where.at \in {"idle", "fabric"}
      /\ where.at # "idle" => where.chan \in Names
      /\ At("none", n, "none") \in PcType
      /\ At("none", n, "none").at = "none" /\ At("none", n, "none").chan = n
  BY <1>0 DEF Idle, At, PcType, Places, Tasks
<1>2. /\ pc' = [pc EXCEPT ![n] = At("none", n, "none"), ![Gui] = where]
      /\ channels' = [channels EXCEPT ![n] = "absent"]
      /\ UNCHANGED <<shared, repo, adapter, disconnected, link, shown, left, alive>>
      /\ exclusive' = None
  BY DEF ChannelRemoved
<1> HIDE DEF where
<1>3. pc \in [Threads -> PcType] /\ channels \in [Names -> {"absent", "open", "closing"}]
  BY DEF IInv, TypeOK, PcType
<1>4. pc'[n] = At("none", n, "none") /\ pc'[Gui] = where /\ pc' \in [Threads -> PcType]
  BY <1>0, <1>1, <1>2, <1>3, Roles
<1>5. \A t \in Senders \ {n} : pc'[t] = pc[t]
  BY <1>2, <1>3, Roles
<1>6. channels'[n] = "absent" /\ \A m \in Names \ {n} : channels'[m] = channels[m]
  BY <1>0, <1>2, <1>3
<1>7. TypeOK'
  BY <1>0, <1>2, <1>4 DEF IInv, TypeOK, PcType
<1>8. ChanInv'
  <2>1. \A t \in Threads : t = Gui \/ t \in Senders
    BY DEF Threads, Senders
  <2> QED BY <1>0, <1>1, <1>4, <1>5, <2>1, Roles DEF IInv, ChanInv
<1>9. SharedInv' /\ AdapterInv'
  BY <1>1, <1>2, <1>4, <1>5 DEF IInv, SharedInv, AdapterInv, InSend
<1>10. UsesOpenChannel'
  <2> SUFFICES ASSUME NEW t \in Senders, pc'[t].at \in InSend
               PROVE  channels'[pc'[t].chan] = "open"
    BY DEF UsesOpenChannel
  <2>1. t # n /\ pc'[t] = pc[t]
    BY <1>1, <1>4, <1>5 DEF InSend
  <2>2. channels[pc[t].chan] = "open" /\ pc[t].chan \in Names
    BY <2>1, Roles DEF IInv, UsesOpenChannel, ChanInv, InSend
  <2> QED BY <1>0, <1>6, <2>1, <2>2
<1>11. GuiInv' /\ ThreadLivesWithChannel'
  BY <1>1, <1>4, <1>5, <1>6, Roles DEF IInv, GuiInv, ThreadLivesWithChannel
<1> QED BY <1>7, <1>8, <1>9, <1>10, <1>11 DEF IInv

LEMMA StartSendInv ==
  ASSUME IInv, NEW n \in Names, NEW task \in {"request", "abort"},
         StartSend(task, n) \/ (StartExpire(n) /\ task = "abort")
  PROVE  IInv'
<1>1. PICK t \in {Work, Timer} : Go(t, At("shared", n, task)) /\ pc[t].at = "idle" /\ Spend(t)
  BY DEF StartSend, StartExpire, In
<1>2. t \in Threads /\ t \in Senders /\ t \notin Names
  BY Roles
<1>3. /\ At("shared", n, task) \in PcType
      /\ At("shared", n, task).at = "shared" /\ At("shared", n, task).chan = n
  BY AtFields DEF Places, Tasks
<1>4. pc' = [pc EXCEPT ![t] = At("shared", n, task)] /\ pc' \in [Threads -> PcType]
  BY <1>1, <1>2, <1>3, GoIs
<1>5. left' \in [Threads -> Nat]
  BY <1>1, <1>2, Types DEF Spend
<1>6. TypeOK' /\ channels' = channels /\ adapter' = adapter /\ shared' = shared
  BY <1>4, <1>5 DEF StartSend, StartExpire, IInv, TypeOK, PcType
<1> QED BY <1>1, <1>2, <1>3, <1>4, <1>6, SenderStep DEF InSend

LEMMA UnmovedInv ==
  ASSUME IInv, UNCHANGED vars \/ \E n \in Names : LinkLost(n)
  PROVE  IInv'
<1>1. UNCHANGED <<channels, shared, exclusive, repo, adapter, pc, disconnected, shown, alive>>
  BY DEF vars, LinkLost
<1>2. link' \in [Names -> BOOLEAN] /\ left' \in [Threads -> Nat]
  <2>1. CASE UNCHANGED vars
    BY <2>1, Types DEF vars
  <2>2. ASSUME NEW n \in Names, LinkLost(n)
        PROVE  link' \in [Names -> BOOLEAN] /\ left' \in [Threads -> Nat]
    BY <2>2, Types, Roles DEF LinkLost, Spend
  <2> QED BY <2>1, <2>2
<1> QED BY <1>1, <1>2 DEF IInv, TypeOK, ChanInv, SharedInv, AdapterInv, GuiInv,
                          UsesOpenChannel, ThreadLivesWithChannel
-----------------------------------------------------------------------------
LEMMA StepInv == IInv /\ [Next]_vars => IInv'
<1> SUFFICES ASSUME IInv, [Next]_vars PROVE IInv'
  OBVIOUS
<1>1. CASE UNCHANGED vars
  BY <1>1, UnmovedInv
<1>2. ASSUME NEW n \in Names, NEW task \in GuiTasks, StartTask(task, n) PROVE IInv'
  BY <1>2, StartTaskInv
<1>3. ASSUME NEW n \in Names, NEW task \in {"request", "abort"}, StartSend(task, n) PROVE IInv'
  BY <1>3, StartSendInv
<1>4. ASSUME NEW n \in Names, StartExpire(n) PROVE IInv'
  BY <1>4, StartSendInv
<1>5. ASSUME NEW n \in Names, CycleStep(n) \/ ReceiveMessage(n) PROVE IInv'
  BY <1>5, CycleStepInv
<1>6. ASSUME NEW n \in Names, LinkLost(n) PROVE IInv'
  BY <1>6, UnmovedInv
<1>7. CASE GuiStep
  BY <1>7, FabricInv, AddChannelInv, RemoveChannelInv, ChannelRemovedInv DEF GuiStep
<1>8. CASE SendStep(Work) \/ SendStep(Timer)
  BY <1>8, SendStepInv, Roles
<1> QED BY <1>1, <1>2, <1>3, <1>4, <1>5, <1>6, <1>7, <1>8 DEF Next

LEMMA Inductive == Spec => []IInv
BY InitInv, StepInv, PTL DEF Spec

\* The state of the channels and of the threads keeps its type, for any number of
\* connections and operations.
THEOREM ChannelsTypeCorrect == Spec => []TypeOK
<1>1. IInv => TypeOK
  BY DEF IInv
<1> QED BY <1>1, Inductive, PTL

\* No channel is destroyed under a thread that sends over it: the shared mutex that
\* sendMessage and sendAndForget keep to the end of the send suffices.
THEOREM ChannelUsedOpen == Spec => []UsesOpenChannel
<1>1. IInv => UsesOpenChannel
  BY DEF IInv
<1> QED BY <1>1, Inductive, PTL

\* connect() and send() of an adapter exclude each other: the mutex of the channel
\* has one holder, and who is in the adapter is it.
THEOREM AdapterExclusive == Spec => []OneInAdapter
<1>1. IInv => OneInAdapter
  BY DEF IInv, AdapterInv, OneInAdapter
<1> QED BY <1>1, Inductive, PTL

\* A receive thread lives from addNewChannel to the end of ~Channel, and has left
\* its cycle when the channel goes.
THEOREM ThreadsFollowChannels == Spec => []ThreadLivesWithChannel
<1>1. IInv => ThreadLivesWithChannel
  BY DEF IInv
<1> QED BY <1>1, Inductive, PTL
-----------------------------------------------------------------------------
(* Deadlocks *)

SenderPlaces == Places \ {"fabric", "unique", "closing"}
TimerPlaces == {"idle", "shared", "adapter", "sending", "failed"}

\* The user's thread never locks shared, and holds the mutex only while it joins.
WriterInv ==
  /\ pc[Gui].at \in {"idle", "fabric", "unique", "closing"}
  /\ \A t \in Senders : pc[t].at \in SenderPlaces
  /\ shared[Gui] = 0
  /\ exclusive # None => pc[Gui].at = "closing"

\* The timer only sends ABORTs: it never stores a handler, for which it would wait
\* for itself.
TimerInv ==
  /\ pc[Timer].at \in TimerPlaces
  /\ pc[Timer].at # "idle" => pc[Timer].task = "abort"

\* Who holds the mutex of a channel is in its adapter, and waits for nobody.
HolderInv ==
  \A n \in Names : adapter[n] # None =>
    pc[adapter[n]].at \in {"connecting", "sending"} /\ pc[adapter[n]].chan = n

\* A channel is only added where there is none.
AddInv ==
  pc[Gui].at = "fabric" \/ (pc[Gui].at = "unique" /\ pc[Gui].task = "add") =>
    channels[pc[Gui].chan] = "absent"

LockInv == WriterInv /\ TimerInv /\ HolderInv /\ AddInv

LEMMA InitLocks == Init => LockInv
<1> SUFFICES ASSUME Init PROVE LockInv
  OBVIOUS
<1>1. pc[Gui] = Idle /\ pc[Timer] = Idle /\ Idle.at = "idle"
  BY Roles DEF Init, Idle, At, Threads
<1>2. \A t \in Senders : pc[t].at \in {"none", "idle"}
  BY Roles DEF Init, Idle, At
<1>3. \A n \in Names : adapter[n] = None
  <2>1. adapter = [n \in Names |-> None]
    BY DEF Init
  <2> QED BY <2>1, Zenon
<1>4. shared[Gui] = 0 /\ exclusive = None
  BY Roles DEF Init
<1> QED BY <1>1, <1>2, <1>3, <1>4
        DEF LockInv, WriterInv, TimerInv, HolderInv, AddInv, SenderPlaces, TimerPlaces, Places

\* What a step of t may do to the mutexes of the channels: give them back, or take
\* that of the adapter it enters.
Hands(t) ==
  \A n \in Names :
    \/ adapter'[n] = None
    \/ adapter'[n] = adapter[n] /\ adapter[n] # t
    \/ adapter'[n] = t /\ pc'[t].at \in {"connecting", "sending"} /\ pc'[t].chan = n

\* A step of a sender: it gives up the mutex of a channel, or is in its adapter.
LEMMA SenderLocks ==
  ASSUME IInv, LockInv, NEW t \in Senders, NEW where,
         pc' = [pc EXCEPT ![t] = where], where.at \in SenderPlaces,
         UNCHANGED <<channels, exclusive>>, shared'[Gui] = shared[Gui],
         t = Timer => where.at \in TimerPlaces /\ (where.at # "idle" => where.task = "abort"),
         Hands(t)
  PROVE  LockInv'
<1>1. pc'[t] = where /\ \A u \in Threads \ {t} : pc'[u] = pc[u]
  BY Roles DEF IInv, TypeOK
<1>2. pc'[Gui] = pc[Gui]
  BY <1>1, Roles
<1>3. WriterInv'
  BY <1>1, <1>2, Roles DEF LockInv, WriterInv
<1>4. TimerInv'
  BY <1>1, Roles DEF LockInv, TimerInv
<1>5. HolderInv'
  <2> SUFFICES ASSUME NEW n \in Names, adapter'[n] # None
               PROVE  pc'[adapter'[n]].at \in {"connecting", "sending"} /\ pc'[adapter'[n]].chan = n
    BY DEF HolderInv
  <2>1. CASE adapter'[n] = t
    <3>1. pc'[t].at \in {"connecting", "sending"} /\ pc'[t].chan = n
      BY <2>1, Roles DEF Hands, Threads
    <3> QED BY <2>1, <3>1
  <2>2. CASE adapter'[n] # t
    <3>1. adapter'[n] = adapter[n] /\ adapter[n] # None
      BY <2>2 DEF Hands
    <3>2. adapter[n] \in Senders
      BY <3>1 DEF IInv, TypeOK
    <3>3. pc'[adapter[n]] = pc[adapter[n]]
      BY <1>1, <2>2, <3>1, <3>2, Roles
    <3> QED BY <3>1, <3>3 DEF LockInv, HolderInv
  <2> QED BY <2>1, <2>2
<1>6. AddInv'
  BY <1>2 DEF LockInv, AddInv
<1> QED BY <1>3, <1>4, <1>5, <1>6 DEF LockInv

\* A step of a sender that only moves, or leaves for a place given by Go.
LEMMA MovedLocks ==
  ASSUME IInv, LockInv, NEW t \in Senders, NEW place \in SenderPlaces, Move(t, place),
         UNCHANGED <<channels, exclusive>>, shared'[Gui] = shared[Gui],
         t = Timer => place \in TimerPlaces /\ pc[t].at # "idle",
         Hands(t)
  PROVE  LockInv'
<1>1. t \in Threads /\ place \in Places
  BY Roles DEF SenderPlaces
<1> DEFINE where == At(place, pc[t].chan, pc[t].task)
<1>2. pc' = [pc EXCEPT ![t] = where]
  BY <1>1, MoveIs
<1>3. where.at = place /\ where.chan = pc[t].chan /\ where.task = pc[t].task
  BY DEF At
<1>4. t = Timer => pc[t].task = "abort"
  BY DEF LockInv, TimerInv
<1>5. /\ where.at \in SenderPlaces
      /\ t = Timer => where.at \in TimerPlaces /\ (where.at # "idle" => where.task = "abort")
  BY <1>3, <1>4
<1> HIDE DEF where
<1> QED BY <1>2, <1>5, SenderLocks

\* Who is not in an adapter holds the mutex of no channel.
LEMMA NotHolding ==
  ASSUME IInv, LockInv, NEW t \in Senders, pc[t].at \notin {"connecting", "sending"}
  PROVE  \A n \in Names : adapter[n] # t
<1> SUFFICES ASSUME NEW n \in Names, adapter[n] = t PROVE FALSE
  BY Zenon
<1>1. t # None
  BY Roles DEF Threads
<1> QED BY <1>1 DEF LockInv, HolderInv

\* So a step that leaves the mutexes alone leaves it none.
LEMMA HoldingNone ==
  ASSUME IInv, LockInv, NEW t \in Senders, pc[t].at \notin {"connecting", "sending"},
         adapter' = adapter
  PROVE  Hands(t)
BY NotHolding, Zenon DEF Hands

\* Who is in an adapter holds no other one.
LEMMA HoldingOne ==
  ASSUME IInv, LockInv, NEW t \in Senders, adapter' = [adapter EXCEPT ![pc[t].chan] = None]
  PROVE  Hands(t)
<1> SUFFICES ASSUME NEW n \in Names, adapter'[n] # None
             PROVE  adapter'[n] = adapter[n] /\ adapter[n] # t
  BY Zenon DEF Hands
<1>1. adapter \in [Names -> Senders \cup {None}]
  BY DEF IInv, TypeOK
<1>2. n # pc[t].chan /\ adapter'[n] = adapter[n]
  BY <1>1
<1>3. adapter[n] # t
  BY <1>2 DEF LockInv, HolderInv
<1> QED BY <1>2, <1>3

LEMMA EnterSharedLocks ==
  ASSUME IInv, LockInv, NEW t \in Senders, EnterShared(t)
  PROVE  LockInv'
<1>0. pc[t].at = "shared" /\ UNCHANGED <<channels, exclusive, adapter>>
  BY DEF EnterShared, In
<1>1. Hands(t)
  BY <1>0, HoldingNone
<1>2. shared'[Gui] = shared[Gui]
  BY Roles DEF EnterShared, IInv, TypeOK
<1>3. CASE channels[pc[t].chan] = "open"
  <2>1. PICK place \in {"store", "adapter"} :
          Move(t, place) /\ (place = "store" => pc[t].task = "request")
    BY <1>3 DEF EnterShared
  <2>2. place \in SenderPlaces
    BY <2>1 DEF SenderPlaces, Places
  <2>3. t = Timer => place \in TimerPlaces
    BY <1>0, <2>1 DEF LockInv, TimerInv, TimerPlaces
  <2> QED BY <1>0, <1>1, <1>2, <2>1, <2>2, <2>3, MovedLocks
<1>4. CASE channels[pc[t].chan] # "open"
  <2>1. Go(t, After(t))
    BY <1>4 DEF EnterShared
  <2>2. After(t).at \in SenderPlaces /\ (t = Timer => After(t).at = "idle")
    BY AfterIs DEF SenderPlaces, Places, After, Idle, At
  <2> QED BY <1>0, <1>1, <1>2, <2>1, <2>2, SenderLocks DEF Go, TimerPlaces
<1> QED BY <1>3, <1>4

LEMMA AdapterLocks ==
  ASSUME IInv, LockInv, NEW t \in Senders, StoreHandler(t) \/ EnterAdapter(t) \/ SendFailed(t)
  PROVE  LockInv'
<1>0. UNCHANGED <<channels, exclusive, shared>> /\ pc[t].at # "idle"
  BY DEF StoreHandler, EnterAdapter, SendFailed, In
<1>1. CASE StoreHandler(t)
  <2>1. pc[t].at = "store" /\ adapter' = adapter /\ Move(t, "adapter")
    BY <1>1 DEF StoreHandler, In
  <2>2. Hands(t)
    BY <2>1, HoldingNone
  <2> QED BY <1>0, <2>1, <2>2, MovedLocks DEF SenderPlaces, TimerPlaces, Places
<1>2. CASE EnterAdapter(t)
  <2>1. /\ pc[t].at = "adapter" /\ Move(t, "sending")
        /\ adapter' = [adapter EXCEPT ![pc[t].chan] = t]
    BY <1>2 DEF EnterAdapter, In
  <2>2. \A n \in Names : adapter[n] # t
    BY <2>1, NotHolding
  <2>3. Hands(t)
    <3>1. \A n \in Names : adapter'[n] = adapter[n] \/ (adapter'[n] = t /\ pc[t].chan = n)
      BY <2>1 DEF IInv, TypeOK
    <3>2. pc'[t].at = "sending" /\ pc'[t].chan = pc[t].chan
      BY <2>1, Roles, MoveIs DEF Places, At, IInv, TypeOK
    <3> QED BY <2>2, <3>1, <3>2 DEF Hands
  <2>4. t = Timer => "sending" \in TimerPlaces /\ pc[t].at # "idle"
    BY <1>0 DEF TimerPlaces
  <2>5. "sending" \in SenderPlaces
    BY DEF SenderPlaces, Places
  <2> QED BY <1>0, <2>1, <2>3, <2>4, <2>5, MovedLocks
<1>3. CASE SendFailed(t)
  <2>1. pc[t].at = "sending" /\ Move(t, "failed") /\ adapter' = [adapter EXCEPT ![pc[t].chan] = None]
    BY <1>3 DEF SendFailed, In
  <2>2. Hands(t)
    BY <2>1, HoldingOne
  <2>3. t = Timer => "failed" \in TimerPlaces /\ pc[t].at # "idle"
    BY <1>0 DEF TimerPlaces
  <2>4. "failed" \in SenderPlaces
    BY DEF SenderPlaces, Places
  <2> QED BY <1>0, <2>1, <2>2, <2>3, <2>4, MovedLocks
<1> QED BY <1>1, <1>2, <1>3

LEMMA LeftLocks ==
  ASSUME IInv, LockInv, NEW t \in Senders, Sent(t) \/ ReportFailure(t)
  PROVE  LockInv'
<1>0. UNCHANGED <<channels, exclusive>> /\ Leave(t) /\ pc[t].at \in {"sending", "failed"}
  BY DEF Sent, ReportFailure, In
<1>1. shared'[Gui] = shared[Gui]
  BY <1>0, Roles DEF Leave, IInv, TypeOK
<1>2. Hands(t)
  <2>1. CASE Sent(t)
    BY <2>1, HoldingOne DEF Sent
  <2>2. CASE ReportFailure(t)
    BY <2>2, HoldingNone DEF ReportFailure, In
  <2> QED BY <2>1, <2>2
<1>3. PICK where : /\ Go(t, where) /\ where.at \in SenderPlaces
                   /\ t = Timer => where.at = "idle"
  <2>1. After(t).at \in SenderPlaces /\ (t = Timer => After(t).at = "idle")
    BY AfterIs DEF SenderPlaces, Places, After, Idle, At
  <2>2. At("shared", t, "abort").at \in SenderPlaces
    BY DEF At, SenderPlaces, Places
  <2>3. Timer \notin Names
    OBVIOUS
  <2>4. Go(t, After(t)) \/ (t \in Names /\ Go(t, At("shared", t, "abort")))
    BY DEF Sent, ReportFailure
  <2> QED BY <2>1, <2>2, <2>3, <2>4
<1> QED BY <1>0, <1>1, <1>2, <1>3, SenderLocks DEF Go, TimerPlaces

LEMMA ConnectLocks ==
  ASSUME IInv, LockInv, NEW n \in Names,
         LockToConnect(n) \/ \E result \in ConnectResults : Connect(n, result)
  PROVE  LockInv'
<1>0. /\ n \in Senders /\ n # Timer /\ pc[n].chan = n
      /\ UNCHANGED <<channels, exclusive, shared>>
  BY Roles DEF LockToConnect, Connect, IInv, ChanInv
<1>1. CASE LockToConnect(n)
  <2>1. pc[n].at = "connect" /\ Move(n, "connecting") /\ adapter' = [adapter EXCEPT ![n] = n]
    BY <1>1 DEF LockToConnect, In
  <2>2. \A m \in Names : adapter[m] # n
    BY <1>0, <2>1, NotHolding
  <2>3. Hands(n)
    <3>1. \A m \in Names : adapter'[m] = adapter[m] \/ (adapter'[m] = n /\ n = m)
      BY <2>1 DEF IInv, TypeOK
    <3>2. pc'[n].at = "connecting" /\ pc'[n].chan = n
      BY <1>0, <2>1, Roles, MoveIs DEF Places, At, IInv, TypeOK
    <3> QED BY <2>2, <3>1, <3>2 DEF Hands
  <2>4. "connecting" \in SenderPlaces
    BY DEF SenderPlaces, Places
  <2> QED BY <1>0, <2>1, <2>3, <2>4, MovedLocks
<1>2. ASSUME NEW result \in ConnectResults, Connect(n, result) PROVE LockInv'
  <2>1. PICK place \in {"loop", "receive"} : Move(n, place)
    BY <1>2 DEF Connect
  <2>2. Hands(n)
    BY <1>0, <1>2, HoldingOne DEF Connect
  <2>3. place \in SenderPlaces
    BY <2>1 DEF SenderPlaces, Places
  <2> QED BY <1>0, <2>1, <2>2, <2>3, MovedLocks
<1> QED BY <1>1, <1>2

\* The other steps of the cycle leave the mutexes of the channels alone.
LEMMA QuietLocks ==
  ASSUME IInv, LockInv, NEW n \in Names,
         \/ CheckEnd(n) \/ ReceiveNothing(n) \/ ReceiveFails(n) \/ ReceiveMessage(n)
         \/ RemoveHandler(n) \/ CountChannel(n) \/ Handle(n) \/ Handled(n)
  PROVE  LockInv'
<1> DEFINE Acts == \/ CheckEnd(n) \/ ReceiveNothing(n) \/ ReceiveFails(n) \/ ReceiveMessage(n)
                   \/ RemoveHandler(n) \/ CountChannel(n) \/ Handle(n) \/ Handled(n)
<1>0. Acts /\ n \in Senders /\ n # Timer /\ n # Gui
  BY Roles
<1>1. UNCHANGED <<channels, exclusive, adapter>>
  BY <1>0 DEF CheckEnd, ReceiveNothing, ReceiveFails, ReceiveMessage, RemoveHandler,
              CountChannel, Handle, Handled
<1>2. pc[n].at \notin {"connecting", "sending"}
  BY <1>0 DEF CheckEnd, ReceiveNothing, ReceiveFails, ReceiveMessage, RemoveHandler,
              CountChannel, Handle, Handled, In
<1>3. shared'[Gui] = shared[Gui]
  <2>1. shared' = shared \/ \E k \in Nat : shared' = [shared EXCEPT ![n] = k]
    BY <1>0, Types, Roles DEF CheckEnd, ReceiveNothing, ReceiveFails, ReceiveMessage,
       RemoveHandler, CountChannel, Handle, Handled
  <2> QED BY <1>0, <2>1, Types, Roles
<1>4. \/ \E place \in SenderPlaces : Move(n, place)
      \/ \E place \in SenderPlaces, task \in Tasks : Go(n, At(place, n, task))
  BY <1>0 DEF CheckEnd, ReceiveNothing, ReceiveFails, ReceiveMessage, RemoveHandler,
              CountChannel, Handle, Handled, SenderPlaces, Places, Tasks
<1>5. Hands(n)
  BY <1>0, <1>1, <1>2, HoldingNone
<1>6. CASE \E place \in SenderPlaces : Move(n, place)
  BY <1>0, <1>1, <1>3, <1>5, <1>6, MovedLocks
<1>7. ASSUME NEW place \in SenderPlaces, NEW task \in Tasks, Go(n, At(place, n, task))
      PROVE  LockInv'
  <2>1. At(place, n, task).at \in SenderPlaces
    BY DEF At
  <2> QED BY <1>0, <1>1, <1>3, <1>5, <1>7, <2>1, SenderLocks DEF Go
<1> QED BY <1>4, <1>6, <1>7

LEMMA StartLocks ==
  ASSUME IInv, LockInv, NEW n \in Names, NEW task \in {"request", "abort"},
         StartSend(task, n) \/ (StartExpire(n) /\ task = "abort")
  PROVE  LockInv'
<1>1. PICK t \in {Work, Timer} : /\ Go(t, At("shared", n, task)) /\ pc[t].at = "idle"
                                 /\ t = Timer => task = "abort"
  BY DEF StartSend, StartExpire, In
<1>2. t \in Senders /\ UNCHANGED <<channels, exclusive, shared, adapter>>
  BY Roles DEF StartSend, StartExpire
<1>3. Hands(t)
  BY <1>1, <1>2, HoldingNone
<1>4. At("shared", n, task).at = "shared" /\ At("shared", n, task).task = task
  BY DEF At
<1>5. "shared" \in SenderPlaces /\ "shared" \in TimerPlaces
  BY DEF SenderPlaces, Places, TimerPlaces
<1> QED BY <1>1, <1>2, <1>3, <1>4, <1>5, SenderLocks DEF Go

\* A step of the user's thread, which may start a receive thread or join it.
LEMMA GuiLocks ==
  ASSUME IInv, LockInv, UNCHANGED <<shared, adapter>>, AddInv',
         pc'[Gui].at \in {"idle", "fabric", "unique", "closing"},
         exclusive' # None => pc'[Gui].at = "closing",
         \A t \in Senders :
           \/ pc'[t] = pc[t]
           \/ t \in Names /\ pc[t].at \in {"none", "ended"} /\ pc'[t].at \in SenderPlaces
  PROVE  LockInv'
<1>1. WriterInv'
  BY DEF LockInv, WriterInv
<1>2. TimerInv'
  <2>1. pc'[Timer] = pc[Timer]
    BY Roles
  <2> QED BY <2>1 DEF LockInv, TimerInv
<1>3. HolderInv'
  <2> SUFFICES ASSUME NEW n \in Names, adapter[n] # None
               PROVE  pc'[adapter[n]].at \in {"connecting", "sending"} /\ pc'[adapter[n]].chan = n
    BY DEF HolderInv
  <2>1. pc[adapter[n]].at \in {"connecting", "sending"} /\ pc[adapter[n]].chan = n
    BY DEF LockInv, HolderInv
  <2>2. adapter[n] \in Senders
    BY DEF IInv, TypeOK
  <2>3. pc'[adapter[n]] = pc[adapter[n]]
    BY <2>1, <2>2
  <2> QED BY <2>1, <2>3
<1> QED BY <1>1, <1>2, <1>3 DEF LockInv

LEMMA TaskLocks ==
  ASSUME IInv, LockInv, Fabric \/ \E task \in GuiTasks, n \in Names : StartTask(task, n)
  PROVE  LockInv'
<1>1. /\ UNCHANGED <<channels, shared, exclusive, adapter>>
      /\ pc[Gui].at \in {"idle", "fabric"}
  BY DEF Fabric, StartTask, In
<1>2. PICK where : /\ Go(Gui, where) /\ where.at \in {"idle", "fabric", "unique"}
                   /\ where.at = "fabric" \/ (where.at = "unique" /\ where.task = "add") =>
                        channels[where.chan] = "absent"
  <2>1. CASE Fabric
    <3>1. pc[Gui].at = "fabric" /\ (\/ Go(Gui, At("unique", pc[Gui].chan, "add"))
                                    \/ Go(Gui, Idle))
      BY <2>1 DEF Fabric, In
    <3>2. channels[pc[Gui].chan] = "absent"
      BY <3>1 DEF LockInv, AddInv
    <3>3. /\ At("unique", pc[Gui].chan, "add").at = "unique"
          /\ At("unique", pc[Gui].chan, "add").chan = pc[Gui].chan
          /\ At("unique", pc[Gui].chan, "add").task = "add" /\ Idle.at = "idle"
      BY DEF At, Idle
    <3> QED BY <3>1, <3>2, <3>3
  <2>2. ASSUME NEW task \in GuiTasks, NEW n \in Names, StartTask(task, n)
        PROVE  Go(Gui, At(IF task = "add" THEN "fabric" ELSE "unique", n, task)) /\
               (task = "add" => channels[n] = "absent")
    BY <2>2 DEF StartTask
  <2>3. \A place, n, task : /\ At(place, n, task).at = place /\ At(place, n, task).chan = n
                            /\ At(place, n, task).task = task
    BY DEF At
  <2> QED BY <2>1, <2>2, <2>3
<1>3. pc'[Gui] = where /\ \A t \in Senders : pc'[t] = pc[t]
  BY <1>2, Roles DEF Go, IInv, TypeOK
<1>4. AddInv'
  BY <1>1, <1>2, <1>3 DEF AddInv
<1>5. exclusive = None
  BY <1>1 DEF LockInv, WriterInv
<1> QED BY <1>1, <1>2, <1>3, <1>4, <1>5, GuiLocks

LEMMA MapLocks ==
  ASSUME IInv, LockInv, AddChannel \/ RemoveChannel \/ ChannelRemoved
  PROVE  LockInv'
<1> DEFINE n == pc[Gui].chan
<1>0. n \in Names /\ n \in Senders /\ n # Gui
  BY Roles DEF IInv, ChanInv, AddChannel, RemoveChannel, ChannelRemoved, In
<1>1. pc \in [Threads -> PcType] /\ UNCHANGED <<shared, adapter>>
  BY DEF IInv, TypeOK, PcType, AddChannel, RemoveChannel, ChannelRemoved
<1>2. CASE AddChannel
  <2>1. channels[n] = "absent" /\ exclusive' = None
    BY <1>2 DEF AddChannel, In, LockInv, AddInv, UniqueFree
  <2>2. pc[n].at = "none"
    BY <1>0, <2>1 DEF IInv, ThreadLivesWithChannel
  <2>3. /\ pc'[Gui].at = "idle" /\ pc'[n].at = "loop"
        /\ \A t \in Senders \ {n} : pc'[t] = pc[t]
    BY <1>0, <1>1, <1>2, Roles DEF AddChannel, Idle, At
  <2>4. AddInv'
    BY <2>3 DEF AddInv
  <2>5. "loop" \in SenderPlaces
    BY DEF SenderPlaces, Places
  <2> QED BY <1>0, <1>1, <2>1, <2>2, <2>3, <2>4, <2>5, GuiLocks
<1>3. CASE RemoveChannel
  <2>1. pc' = [pc EXCEPT ![Gui] = At("closing", n, pc[Gui].task)]
    BY <1>3, Roles, MoveIs DEF RemoveChannel, Places
  <2>2. pc'[Gui].at = "closing" /\ \A t \in Senders : pc'[t] = pc[t]
    BY <1>1, <2>1, Roles DEF At
  <2>3. AddInv'
    BY <2>2 DEF AddInv
  <2> QED BY <1>1, <2>2, <2>3, GuiLocks
<1>4. CASE ChannelRemoved
  <2> DEFINE where == IF pc[Gui].task = "change" THEN At("fabric", n, "change") ELSE Idle
  <2>1. pc[n].at \in {"ended", "none"} /\ exclusive' = None /\ pc[Gui].at = "closing"
    BY <1>4 DEF ChannelRemoved, In
  <2>2. /\ pc'[n].at = "none" /\ pc'[Gui] = where
        /\ \A t \in Senders \ {n} : pc'[t] = pc[t]
    BY <1>0, <1>1, <1>4, Roles DEF ChannelRemoved, Idle, At
  <2>3. where.at \in {"idle", "fabric"} /\ (where.at = "fabric" => where.chan = n)
    BY DEF Idle, At
  <2>4. channels'[n] = "absent"
    BY <1>0, <1>4 DEF ChannelRemoved, IInv, TypeOK
  <2> HIDE DEF where
  <2>5. AddInv'
    BY <2>2, <2>3, <2>4 DEF AddInv
  <2>6. "none" \in SenderPlaces
    BY DEF SenderPlaces, Places
  <2> QED BY <1>0, <1>1, <2>1, <2>2, <2>3, <2>5, <2>6, GuiLocks
<1> QED BY <1>2, <1>3, <1>4

LEMMA LocksStep == IInv /\ LockInv /\ [Next]_vars => LockInv'
<1> SUFFICES ASSUME IInv, LockInv, [Next]_vars PROVE LockInv'
  OBVIOUS
<1>1. CASE UNCHANGED vars \/ \E n \in Names : LinkLost(n)
  <2>1. UNCHANGED <<channels, shared, exclusive, adapter, pc>>
    BY <1>1 DEF vars, LinkLost
  <2> QED BY <2>1 DEF LockInv, WriterInv, TimerInv, HolderInv, AddInv
<1>2. ASSUME NEW t \in Senders, SendStep(t) PROVE LockInv'
  BY <1>2, EnterSharedLocks, AdapterLocks, LeftLocks DEF SendStep
<1>3. ASSUME NEW n \in Names, CycleStep(n) \/ ReceiveMessage(n) PROVE LockInv'
  BY <1>2, <1>3, ConnectLocks, QuietLocks, Roles DEF CycleStep
<1>4. ASSUME NEW n \in Names, NEW task \in GuiTasks, StartTask(task, n) PROVE LockInv'
  BY <1>4, TaskLocks
<1>5. ASSUME NEW n \in Names, NEW task \in {"request", "abort"}, StartSend(task, n) PROVE LockInv'
  BY <1>5, StartLocks
<1>6. ASSUME NEW n \in Names, StartExpire(n) PROVE LockInv'
  BY <1>6, StartLocks
<1>7. CASE GuiStep
  BY <1>7, TaskLocks, MapLocks DEF GuiStep
<1> QED BY <1>1, <1>2, <1>3, <1>4, <1>5, <1>6, <1>7, Roles DEF Next
-----------------------------------------------------------------------------
\* The heart of it: who waits for a channel's mutex waits for a thread that waits
\* for nobody; who waits for the repository's waits for the timer, which waits for
\* a channel or for the despatcher's mutex; and that one only the user's thread
\* keeps from readers.
LEMMA Circles ==
  ASSUME IInv, LockInv, NEW S \in SUBSET Threads, Stuck(S)
  PROVE  /\ Gui \in S
         /\ pc[Gui].at = "closing" \/ (WriterFirst /\ pc[Gui].at = "unique")
<1> DEFINE Goal == /\ Gui \in S
                   /\ pc[Gui].at = "closing" \/ (WriterFirst /\ pc[Gui].at = "unique")
<1> SUFFICES ASSUME ~Goal PROVE FALSE
  OBVIOUS
<1>1. \A t \in S : \E u \in S : u \in WaitsFor(t)
  BY DEF Stuck
<1>2. \A t \in S : pc[t].at \in {"shared", "unique", "store", "remove", "adapter", "connect",
                                 "handle", "closing"}
  BY <1>1 DEF WaitsFor
<1>3. ASSUME NEW t \in S, pc[t].at \in {"shared", "handle"} PROVE FALSE
  <2>1. Gui \in S /\ ~SharedFree
    BY <1>1, <1>3 DEF WaitsFor
  <2>2. exclusive # None \/ (WriterFirst /\ pc[Gui].at = "unique")
    BY <2>1 DEF SharedFree
  <2> QED BY <2>1, <2>2 DEF LockInv, WriterInv
<1>4. ASSUME NEW t \in S, pc[t].at \in {"adapter", "connect"} PROVE FALSE
  <2>1. PICK u \in S : u = adapter[pc[t].chan]
    BY <1>1, <1>4 DEF WaitsFor
  <2>2. pc[t].chan \in Names /\ u # None
    BY <1>4, Roles DEF IInv, ChanInv, Threads
  <2>3. pc[u].at \in {"connecting", "sending"}
    BY <2>1, <2>2 DEF LockInv, HolderInv
  <2> QED BY <1>2, <2>3
<1>5. ASSUME NEW t \in S, pc[t].at \in {"store", "remove"} PROVE FALSE
  <2>1. PICK u \in S : u = repo
    BY <1>1, <1>5 DEF WaitsFor
  <2>2. u = Timer
    BY <2>1, Roles DEF IInv, TypeOK, Threads
  <2>3. pc[Timer].at \in {"shared", "adapter"}
    BY <1>2, <2>1, <2>2 DEF LockInv, TimerInv, TimerPlaces
  <2> QED BY <1>3, <1>4, <2>1, <2>2, <2>3
<1>6. \A t \in S : t = Gui
  <2> SUFFICES ASSUME NEW t \in S, t # Gui PROVE FALSE
    OBVIOUS
  <2>1. t \in Senders
    BY DEF Threads, Senders
  <2>2. pc[t].at \notin {"unique", "closing"}
    BY <2>1 DEF LockInv, WriterInv, SenderPlaces
  <2> QED BY <1>2, <1>3, <1>4, <1>5, <2>2
<1>7. Gui \in S /\ Gui \in WaitsFor(Gui)
  BY <1>1, <1>6 DEF Stuck
<1>8. pc[Gui].at = "unique"
  BY <1>2, <1>7 DEF LockInv, WriterInv
<1>9. Gui = exclusive \/ shared[Gui] > 0
  BY <1>7, <1>8 DEF WaitsFor
<1>10. shared[Gui] = 0 /\ exclusive = None
  BY <1>8 DEF LockInv, WriterInv
<1> QED BY <1>9, <1>10, Roles DEF Threads

LEMMA LocksHold == Spec => [](IInv /\ LockInv)
<1>1. Init => IInv /\ LockInv
  BY InitInv, InitLocks
<1>2. (IInv /\ LockInv) /\ [Next]_vars => (IInv /\ LockInv)'
  BY StepInv, LocksStep
<1> QED BY <1>1, <1>2, PTL DEF Spec

\* Whatever connections are added, changed and removed, under any number of receive
\* threads: the only deadlocks of the three kinds of locks are those in which
\* removeChannel joins a thread, or a writer that waits keeps readers out.
THEOREM DeadlocksNeedRemoval == Spec => []OnlyRemovalDeadlocks
<1>1. IInv /\ LockInv => OnlyRemovalDeadlocks
  <2> SUFFICES ASSUME IInv, LockInv,
                      NEW S \in SUBSET {t \in Threads : WaitsFor(t) # {}}, Stuck(S)
               PROVE  Gui \in S /\ (pc[Gui].at = "closing" \/ WriterFirst)
    BY DEF OnlyRemovalDeadlocks
  <2>1. S \in SUBSET Threads
    OBVIOUS
  <2> QED BY <2>1, Circles
<1> QED BY <1>1, LocksHold, PTL

=============================================================================
