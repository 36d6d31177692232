----------------------- MODULE TimeoutedRepositoryProofs -----------------------
(***************************************************************************)
(* TimeoutedRepository keeps the promise of DeliveryTracking for every     *)
(* number of handlers, keys and threads, whatever the clock does and       *)
(* whether or not a callback throws; and, until somebody sets the clock,   *)
(* no handler is told too early that its time ran out.                     *)
(***************************************************************************)
EXTENDS TimeoutedRepository, TLAPS

USE RepositoryAssumption DEF RepositoryAssumption

Outcomes == {<<>>, <<"removed">>, <<"timeouted">>}

\* The keys of the map are unique, and store() remembers what it refused.
MapInv ==
  /\ \A v, w \in values : KeyOf[v.element] = KeyOf[w.element] => v = w
  /\ \A e \in refused : e \notin Held /\ called[e] = <<>>

\* Only the element in a callback has seen one, and it is still in the map.
CallbackInv ==
  /\ called \in [Elements -> Outcomes]
  /\ \A e \in Held : e # current => called[e] = <<>>
  /\ current # None => current \in Held /\ called[current] # <<>> /\ mutex # None

\* Who holds the mutex, and that no caller is left when the owner is gone.
MutexInv ==
  /\ mutex = Timer <=> timer.pc = "scan"
  /\ mutex \in Callers => ~released /\ current # None
  /\ timer.pc = "ended" => released

IInv == TypeOK /\ MapInv /\ CallbackInv /\ MutexInv
-----------------------------------------------------------------------------
LEMMA OutcomeFacts ==
  /\ Outcomes \subseteq Seq({"removed", "timeouted"})
  /\ <<"removed">> # <<>> /\ <<"timeouted">> # <<>>
<1>1. <<>> \in Seq({"removed", "timeouted"})
  OBVIOUS
<1>2. <<"removed">> \in Seq({"removed", "timeouted"}) /\ Len(<<"removed">>) = 1
  OBVIOUS
<1>3. <<"timeouted">> \in Seq({"removed", "timeouted"}) /\ Len(<<"timeouted">>) = 1
  OBVIOUS
<1>4. Len(<<>>) = 0
  OBVIOUS
<1> QED BY <1>1, <1>2, <1>3, <1>4 DEF Outcomes

\* Outside a callback no element of the map has seen one.
LEMMA HeldUncalled ==
  ASSUME IInv
  PROVE  /\ Held \subseteq Elements
         /\ current = None => \A e \in Held : called[e] = <<>>
<1>1. Held \subseteq Elements
  BY DEF IInv, TypeOK, Held, Entry
<1>2. None \notin Held
  BY <1>1
<1> QED BY <1>1, <1>2 DEF IInv, CallbackInv

LEMMA InitInv == Init => IInv
<1> SUFFICES ASSUME Init PROVE IInv
  OBVIOUS
<1> USE DEF Init
<1>1. TypeOK
  BY OutcomeFacts DEF TypeOK, Entry, TimerPCs, Outcomes
<1>2. MapInv /\ CallbackInv
  BY DEF MapInv, CallbackInv, Held, Outcomes
<1>3. MutexInv
  BY DEF MutexInv
<1> QED BY <1>1, <1>2, <1>3 DEF IInv

LEMMA StoreInv ==
  ASSUME IInv, NEW e \in Elements, NEW timeout \in Timeouts, Store(e, timeout)
  PROVE  IInv'
<1>1. TypeOK'
  BY DEF IInv, TypeOK, Store, Entry
<1>2. MapInv'
  <2>1. CASE HasKey(KeyOf[e])
    BY <2>1 DEF IInv, MapInv, Store, Held
  <2>2. CASE ~HasKey(KeyOf[e])
    <3>1. /\ refused' = refused /\ called' = called
          /\ values' = values \cup
                       {[element |-> e, validTo |-> now + timeout, due |-> uptime + timeout]}
      BY <2>2 DEF Store
    <3>2. e \notin refused /\ \A f \in Held' : f \in Held \/ f = e
      BY <3>1 DEF Store, Held
    <3>3. \A v \in values : KeyOf[v.element] # KeyOf[e]
      BY <2>2 DEF HasKey, Held
    <3> QED BY <3>1, <3>2, <3>3 DEF IInv, MapInv
  <2> QED BY <2>1, <2>2
<1>3. CallbackInv'
  BY DEF IInv, TypeOK, CallbackInv, MutexInv, Store, Entry, Held
<1>4. MutexInv'
  BY DEF IInv, MutexInv, Store
<1> QED BY <1>1, <1>2, <1>3, <1>4 DEF IInv

LEMMA RemoveInv ==
  ASSUME IInv, NEW c \in Callers, NEW e \in Elements, Remove(c, e)
  PROVE  IInv'
<1>0. called[e] = <<>> /\ current = None
  <2>1. current = None
    BY DEF IInv, CallbackInv, Remove
  <2> QED BY <2>1, HeldUncalled DEF Remove
<1>a. called' = [called EXCEPT ![e] = <<"removed">>]
  BY <1>0 DEF Remove
<1>1. TypeOK'
  BY <1>a DEF IInv, TypeOK, Remove
<1>2. MapInv'
  BY <1>a DEF IInv, TypeOK, MapInv, Remove, Held
<1>3. CallbackInv'
  <2>1. called' \in [Elements -> Outcomes]
    BY <1>a DEF IInv, CallbackInv, Outcomes
  <2>2. called'[e] # <<>> /\ e \in Held'
    BY <1>a, OutcomeFacts DEF IInv, CallbackInv, Remove, Held
  <2>3. \A f \in Held' : f # current' => called'[f] = <<>>
    <3>1. Held' = Held /\ current' = e
      BY DEF Remove, Held
    <3> QED BY <1>0, <1>a, <3>1, HeldUncalled DEF IInv, CallbackInv
  <2> QED BY <2>1, <2>2, <2>3 DEF CallbackInv, Remove
<1>4. MutexInv'
  BY DEF IInv, TypeOK, MutexInv, Remove
<1> QED BY <1>1, <1>2, <1>3, <1>4 DEF IInv

LEMMA RemoveEndsInv ==
  ASSUME IInv, NEW c \in Callers, RemoveEnds(c)
  PROVE  IInv'
<1>1. TypeOK'
  BY DEF IInv, TypeOK, RemoveEnds
<1>2. MapInv'
  BY DEF IInv, MapInv, RemoveEnds, Held
<1>3. CallbackInv'
  BY DEF IInv, CallbackInv, RemoveEnds, Held
<1>4. MutexInv'
  BY DEF IInv, MutexInv, RemoveEnds
<1> QED BY <1>1, <1>2, <1>3, <1>4 DEF IInv

LEMMA VisitInv ==
  ASSUME IInv, NEW v \in values, Visit(v)
  PROVE  IInv'
<1>0. v.element \in Held /\ v.element \in Elements /\ called[v.element] = <<>>
  BY HeldUncalled DEF Visit, Held
<1>a. \/ called' = called /\ current' = current
      \/ called' = [called EXCEPT ![v.element] = <<"timeouted">>] /\ current' = v.element
  BY <1>0 DEF Visit
<1>1. TypeOK'
  <2>1. timer' \in [pc : TimerPCs, time : Nat, left : SUBSET Elements]
    BY DEF IInv, TypeOK, Visit
  <2>2. called' \in [Elements -> Seq({"removed", "timeouted"})]
    BY <1>0, <1>a, OutcomeFacts DEF IInv, TypeOK, Outcomes
  <2> QED BY <1>0, <1>a, <2>1, <2>2 DEF IInv, TypeOK, Visit
<1>2. MapInv'
  BY <1>0, <1>a DEF IInv, TypeOK, MapInv, Visit, Held
<1>3. CallbackInv'
  <2>1. called' \in [Elements -> Outcomes]
    BY <1>0, <1>a DEF IInv, CallbackInv, Outcomes
  <2>2. current' = current \/ (current' = v.element /\ called'[v.element] # <<>>)
    BY <1>0, <1>a, OutcomeFacts DEF IInv, CallbackInv
  <2>3. Held' = Held /\ current = None /\ mutex' = mutex /\ mutex # None
    BY DEF IInv, MutexInv, Visit, Held
  <2>4. \A f \in Held' : f \in Elements /\ (f # current' => called'[f] = <<>>)
    BY <1>0, <1>a, <2>3, HeldUncalled DEF IInv, CallbackInv
  <2> QED BY <1>0, <2>1, <2>2, <2>3, <2>4 DEF CallbackInv
<1>4. MutexInv'
  BY <1>0, <1>a DEF IInv, TypeOK, MutexInv, Visit
<1> QED BY <1>1, <1>2, <1>3, <1>4 DEF IInv

LEMMA EraseInv ==
  ASSUME IInv, EraseExpired
  PROVE  IInv'
<1>1. TypeOK'
  BY DEF IInv, TypeOK, EraseExpired
<1>2. MapInv'
  BY DEF IInv, MapInv, EraseExpired, Held
<1>3. CallbackInv'
  BY DEF IInv, CallbackInv, EraseExpired, Held
<1>4. MutexInv'
  BY DEF IInv, MutexInv, EraseExpired
<1> QED BY <1>1, <1>2, <1>3, <1>4 DEF IInv

\* The other steps leave the map and the callbacks alone.
LEMMA OtherInv ==
  ASSUME IInv,
         \/ Release \/ CallbackThrows \/ WeakLock \/ ReadClock \/ LockMutex
         \/ LeaveCheck \/ Tick \/ SetClock \/ UNCHANGED vars
  PROVE  IInv'
<1> USE DEF Release, CallbackThrows, WeakLock, ReadClock, LockMutex, LeaveCheck, Tick,
            SetClock, vars
<1>0. values' = values /\ refused' = refused /\ called' = called /\ current' = current
  OBVIOUS
<1>1. TypeOK'
  <2>1. timer' \in [pc : TimerPCs, time : Nat, left : SUBSET Elements]
    <3>1. Held \subseteq Elements
      BY DEF IInv, TypeOK, Held, Entry
    <3>2. timer \in [pc : TimerPCs, time : Nat, left : SUBSET Elements] /\ now \in Nat
      BY DEF IInv, TypeOK
    <3> QED BY <3>1, <3>2 DEF TimerPCs
  <2>2. now' \in Nat /\ uptime' \in Nat
    BY DEF IInv, TypeOK
  <2>3. mutex' \in Callers \cup {Timer, None} /\ released' \in BOOLEAN /\ alive' \in BOOLEAN
    BY DEF IInv, TypeOK
  <2> QED BY <1>0, <2>1, <2>2, <2>3 DEF IInv, TypeOK
<1>2. MapInv'
  BY <1>0 DEF IInv, MapInv, Held
<1>3. CallbackInv'
  BY <1>0 DEF IInv, CallbackInv, Held
<1>4. MutexInv'
  <2>1. CASE Release \/ CallbackThrows \/ Tick \/ SetClock \/ UNCHANGED vars
    BY <2>1 DEF IInv, MutexInv
  <2>2. CASE WeakLock \/ ReadClock
    <3>1. /\ timer.pc # "scan" /\ timer'.pc \in {"ended", "sleep", "woken"}
          /\ timer'.pc = "ended" => released
      BY <2>2 DEF IInv, TypeOK
    <3>2. mutex' = mutex /\ released' = released
      BY <2>2
    <3> QED BY <3>1, <3>2 DEF IInv, MutexInv
  <2>3. CASE LockMutex
    <3>1. mutex' = Timer /\ timer'.pc = "scan"
      BY <2>3 DEF IInv, TypeOK
    <3> QED BY <3>1 DEF MutexInv
  <2>4. CASE LeaveCheck
    <3>1. mutex' = None /\ timer'.pc = "weak"
      BY <2>4 DEF IInv, TypeOK
    <3> QED BY <3>1 DEF MutexInv
  <2> QED BY <2>1, <2>2, <2>3, <2>4
<1> QED BY <1>1, <1>2, <1>3, <1>4 DEF IInv

LEMMA StepInv == IInv /\ [Next]_vars => IInv'
BY StoreInv, RemoveInv, RemoveEndsInv, VisitInv, EraseInv, OtherInv
   DEF Next, TimerStep, CallerStep

LEMMA Inductive == Spec => []IInv
BY InitInv, StepInv, PTL DEF Spec

-----------------------------------------------------------------------------
\* The statuses of the elements, which the abstract variable is mapped to.
Statuses == [e \in Elements |-> StatusOf(e)]

\* A step that touches no callback, no refusal, no membership and does not end
\* the thread leaves every status as it is.
LEMMA SameStatuses ==
  ASSUME called' = called, refused' = refused, Held' = Held,
         (released /\ timer.pc = "ended")' <=> (released /\ timer.pc = "ended")
  PROVE  Statuses' = Statuses
BY DEF Statuses, StatusOf

\* A key of the map is watched: its element has not been told anything.
LEMMA WatchedHeld ==
  ASSUME IInv, mutex = None, ~released, NEW k
  PROVE  Promise!Watches(k) <=> HasKey(k)
<1>1. current = None
  BY DEF IInv, CallbackInv
<1>2. \A e \in Elements : StatusOf(e) = "watched" <=> e \in Held
  BY <1>1, HeldUncalled, OutcomeFacts DEF StatusOf, IInv, MapInv, MutexInv, CallbackInv, Outcomes
<1> QED BY <1>2, HeldUncalled DEF Promise!Watches, HasKey

LEMMA InitRefines == Init => Promise!Init
<1> SUFFICES ASSUME Init PROVE \A e \in Elements : StatusOf(e) = "new"
  BY DEF Promise!Init
<1> QED BY DEF Init, StatusOf, Held

LEMMA StoreRefines ==
  ASSUME IInv, NEW e \in Elements, NEW timeout \in Timeouts, Store(e, timeout)
  PROVE  Promise!Watch(e)
<1>1. Promise!Watches(KeyOf[e]) <=> HasKey(KeyOf[e])
  BY WatchedHeld DEF Store
<1>2. StatusOf(e) = "new"
  BY DEF Store, StatusOf
<1>3. StatusOf(e)' = IF HasKey(KeyOf[e]) THEN "refused" ELSE "watched"
  <2>1. called'[e] = <<>> /\ released' = released /\ ~released /\ e \notin refused
    BY DEF Store
  <2>2. CASE HasKey(KeyOf[e])
    BY <2>1, <2>2 DEF Store, StatusOf
  <2>3. CASE ~HasKey(KeyOf[e])
    <3> DEFINE new == [element |-> e, validTo |-> now + timeout, due |-> uptime + timeout]
    <3>a. new \in values' /\ new.element = e
      BY <2>3 DEF Store
    <3>1. e \in Held' /\ refused' = refused
      BY <2>3, <3>a DEF Store, Held
    <3> QED BY <2>1, <2>3, <3>1 DEF StatusOf
  <2> QED BY <2>2, <2>3
<1>4. \A f \in Elements \ {e} : StatusOf(f)' = StatusOf(f)
  BY DEF Store, StatusOf, Held
<1> QED BY <1>1, <1>2, <1>3, <1>4 DEF Promise!Watch

\* A callback resolves an element that was watched.
LEMMA CallbackRefines ==
  ASSUME IInv, NEW e \in Held, NEW outcome \in {"removed", "timeouted"},
         current = None, ~(released /\ timer.pc = "ended"),
         called' = [called EXCEPT ![e] = Append(@, outcome)],
         values' = values, refused' = refused,
         (released /\ timer.pc = "ended")' <=> (released /\ timer.pc = "ended")
  PROVE  e \in Elements /\ Promise!Resolve(e)
<1>1. e \in Elements /\ called[e] = <<>> /\ e \notin refused
  BY HeldUncalled DEF IInv, MapInv
<1>2. StatusOf(e) = "watched"
  BY <1>1 DEF StatusOf
<1>3. StatusOf(e)' = outcome
  <2>1. called'[e] = <<outcome>>
    BY <1>1 DEF IInv, CallbackInv
  <2>2. Len(<<outcome>>) = 1 /\ <<outcome>>[1] = outcome /\ <<outcome>> # <<>>
    OBVIOUS
  <2> QED BY <2>1, <2>2 DEF StatusOf
<1>4. \A f \in Elements \ {e} : StatusOf(f)' = StatusOf(f)
  BY <1>1 DEF StatusOf, Held, IInv, CallbackInv
<1> QED BY <1>1, <1>2, <1>3, <1>4 DEF Promise!Resolve

LEMMA RemoveRefines ==
  ASSUME IInv, NEW c \in Callers, NEW e \in Elements, Remove(c, e)
  PROVE  Promise!Resolve(e)
<1>1. current = None
  BY DEF Remove, IInv, CallbackInv
<1> QED BY <1>1, CallbackRefines DEF Remove

LEMMA VisitRefines ==
  ASSUME IInv, NEW v \in values, Visit(v)
  PROVE  (\E e \in Elements : Promise!Resolve(e)) \/ Statuses' = Statuses
<1>0. timer'.pc = timer.pc /\ released' = released /\ timer.pc # "ended"
  BY DEF Visit, IInv, TypeOK
<1>1. CASE Expired(v, timer.time)
  <2>1. v.element \in Held /\ current = None
    BY DEF Visit, Held
  <2> QED BY <1>0, <1>1, <2>1, CallbackRefines DEF Visit
<1>2. CASE ~Expired(v, timer.time)
  BY <1>0, <1>2, SameStatuses DEF Visit, Held
<1> QED BY <1>1, <1>2

\* The erase after a callback: the element already has its outcome.
LEMMA EraseRefines ==
  ASSUME IInv, (\E c \in Callers : RemoveEnds(c)) \/ EraseExpired
  PROVE  Statuses' = Statuses
<1>1. called[current] # <<>> /\ called' = called /\ refused' = refused
  BY DEF IInv, CallbackInv, MutexInv, RemoveEnds, EraseExpired
<1>2. \A e \in Elements : e # current => (e \in Held' <=> e \in Held)
  BY DEF Held, RemoveEnds, EraseExpired
<1>3. released' = released /\ timer' = timer
  BY DEF RemoveEnds, EraseExpired
<1> QED BY <1>1, <1>2, <1>3 DEF Statuses, StatusOf

\* The thread ends after the owner: the map goes with it.
LEMMA WeakLockRefines ==
  ASSUME IInv, WeakLock
  PROVE  Promise!Discard \/ Statuses' = Statuses
<1>0. timer.pc = "weak" /\ timer'.pc = IF released THEN "ended" ELSE "sleep"
  BY DEF IInv, TypeOK, WeakLock
<1>1. CASE released
  <2>1. \A e \in Elements :
          StatusOf(e)' = IF StatusOf(e) = "watched" THEN "discarded" ELSE StatusOf(e)
    <3> SUFFICES ASSUME NEW e \in Elements
                 PROVE  StatusOf(e)' = IF StatusOf(e) = "watched" THEN "discarded"
                                       ELSE StatusOf(e)
      OBVIOUS
    <3>1. called[e] \in Outcomes
      BY DEF IInv, CallbackInv
    <3>2. called[e] # <<>> => StatusOf(e) \in {"removed", "timeouted"}
      BY <3>1, OutcomeFacts DEF Outcomes, StatusOf
    <3>3. called' = called /\ refused' = refused /\ Held' = Held /\ released'
      BY <1>1 DEF WeakLock, Held
    <3>4. CASE called[e] # <<>>
      BY <3>2, <3>3, <3>4 DEF StatusOf
    <3>5. CASE called[e] = <<>>
      BY <1>0, <1>1, <3>3, <3>5 DEF StatusOf
    <3> QED BY <3>4, <3>5
  <2> QED BY <2>1 DEF Promise!Discard
<1>2. CASE ~released
  BY <1>0, <1>2, SameStatuses DEF WeakLock, Held
<1> QED BY <1>1, <1>2

LEMMA OtherRefines ==
  ASSUME IInv,
         \/ Release \/ CallbackThrows \/ ReadClock \/ LockMutex
         \/ LeaveCheck \/ Tick \/ SetClock \/ UNCHANGED vars
  PROVE  Statuses' = Statuses
<1>1. called' = called /\ refused' = refused /\ Held' = Held
  BY DEF Release, CallbackThrows, ReadClock, LockMutex, LeaveCheck, Tick, SetClock, vars, Held
<1>2. (released /\ timer.pc = "ended")' <=> (released /\ timer.pc = "ended")
  <2>1. CASE Release
    BY <2>1 DEF Release, IInv, MutexInv
  <2>2. CASE ReadClock \/ LockMutex \/ LeaveCheck
    BY <2>2 DEF ReadClock, LockMutex, LeaveCheck, IInv, TypeOK
  <2>3. CASE CallbackThrows \/ Tick \/ SetClock \/ UNCHANGED vars
    BY <2>3 DEF CallbackThrows, Tick, SetClock, vars
  <2> QED BY <2>1, <2>2, <2>3
<1> QED BY <1>1, <1>2, SameStatuses

LEMMA StepRefines == IInv /\ [Next]_vars => [Promise!Next]_Statuses
<1> SUFFICES ASSUME IInv, [Next]_vars
             PROVE  Promise!Next \/ Statuses' = Statuses
  BY DEF Statuses
<1>1. ASSUME NEW e \in Elements, NEW timeout \in Timeouts, Store(e, timeout)
      PROVE  Promise!Next
  BY <1>1, StoreRefines DEF Promise!Next
<1>2. ASSUME NEW e \in Elements, NEW c \in Callers, Remove(c, e)
      PROVE  Promise!Next
  BY <1>2, RemoveRefines DEF Promise!Next
<1>3. ASSUME NEW v \in values, Visit(v)
      PROVE  Promise!Next \/ Statuses' = Statuses
  BY <1>3, VisitRefines DEF Promise!Next
<1>4. ASSUME WeakLock
      PROVE  Promise!Next \/ Statuses' = Statuses
  BY <1>4, WeakLockRefines DEF Promise!Next
<1> QED BY <1>1, <1>2, <1>3, <1>4, EraseRefines, OtherRefines
        DEF Next, TimerStep, CallerStep
-----------------------------------------------------------------------------
\* The repository can be in no state that has not its type.
THEOREM RepositoryTypeCorrect == Spec => []TypeOK
<1>1. IInv => TypeOK
  BY DEF IInv
<1> QED BY <1>1, Inductive, PTL

\* The repository implements DeliveryTracking: every accepted handler is told
\* its outcome at most once, by remove() or by the thread and never by both.
THEOREM RepositoryTracks == Spec => Tracks
<1>1. Init => Promise!Init
  BY InitRefines
<1>2. IInv /\ [Next]_vars => [Promise!Next]_([e \in Elements |-> StatusOf(e)])
  BY StepRefines DEF Statuses
<1> QED BY <1>1, <1>2, Inductive, PTL DEF Spec, Tracks, Promise!Spec

\* What the promise means to a caller: the outcome of a handler is final, whatever
\* remove(), the thread and the destructor do afterwards.
THEOREM RepositoryOutcomeFinal == Spec => Promise!OutcomeFinal
<1>1. Promise!Spec => Promise!OutcomeFinal
  <2>1. [Promise!Next]_Statuses => [\A e \in Elements :
          Statuses[e] \notin {"new", "watched"} => Statuses'[e] = Statuses[e]]_Statuses
    BY DEF Promise!Next, Promise!Watch, Promise!Resolve, Promise!Discard, Statuses
  <2> QED BY <2>1, PTL DEF Promise!Spec, Promise!OutcomeFinal, Statuses
<1> QED BY <1>1, RepositoryTracks DEF Tracks

\* A handler is always in one of the states of the promise: it is never told twice.
LEMMA StatusesTyped == Spec => []Promise!TypeOK
<1>1. IInv => \A e \in Elements : StatusOf(e) \in Promise!Statuses
  BY OutcomeFacts DEF IInv, CallbackInv, Outcomes, StatusOf, Promise!Statuses
<1>2. IInv => Promise!TypeOK
  BY <1>1 DEF Promise!TypeOK
<1> QED BY <1>2, Inductive, PTL

\* No two watched handlers have one key, so that an acknowledgement means one.
THEOREM RepositoryOneWatchedPerKey == Spec => []OneWatchedPerKey
<1>1. IInv => OneWatchedPerKey
  <2> SUFFICES ASSUME IInv, NEW e \in Elements, NEW f \in Elements,
                      StatusOf(e) = "watched", StatusOf(f) = "watched", KeyOf[e] = KeyOf[f]
               PROVE  e = f
    BY DEF OneWatchedPerKey, Promise!OneWatchedPerKey
  <2>1. \A g \in Elements : StatusOf(g) = "watched" => g \in Held
    BY OutcomeFacts DEF StatusOf, IInv, CallbackInv, Outcomes
  <2> QED BY <2>1 DEF IInv, MapInv, Held
<1> QED BY <1>1, Inductive, PTL
-----------------------------------------------------------------------------
\* Until somebody sets the clock it shows the time that really passed, and what
\* the thread read is never ahead of it.
ClockInv ==
  clockSets = 0 =>
    /\ now = uptime
    /\ timer.time <= uptime
    /\ \A v \in values : v.due = v.validTo

\* Before the first step of the clock nothing expires before its period has passed.
THEOREM RepositoryNeverEarly == Spec => NeverEarly
<1>1. Init => ClockInv
  BY DEF Init, ClockInv
<1>2. IInv /\ ClockInv /\ [Next]_vars => ClockInv'
  <2> SUFFICES ASSUME IInv, ClockInv, [Next]_vars PROVE ClockInv'
    OBVIOUS
  <2> USE DEF ClockInv
  <2>1. ASSUME NEW e \in Elements, NEW timeout \in Timeouts, Store(e, timeout)
        PROVE  ClockInv'
    BY <2>1 DEF Store
  <2>2. CASE Tick
    BY <2>2 DEF Tick, IInv, TypeOK
  <2>3. CASE ReadClock
    BY <2>3 DEF ReadClock, IInv, TypeOK
  <2>4. CASE WeakLock \/ LockMutex \/ LeaveCheck
    BY <2>4 DEF WeakLock, LockMutex, LeaveCheck, IInv, TypeOK
  <2>5. ASSUME NEW v \in values, Visit(v)
        PROVE  ClockInv'
    BY <2>5 DEF Visit, IInv, TypeOK
  <2>6. CASE EraseExpired \/ CallerStep
    BY <2>6 DEF EraseExpired, CallerStep, RemoveEnds
  <2>7. ASSUME NEW c \in Callers, NEW e \in Elements, Remove(c, e)
        PROVE  ClockInv'
    BY <2>7 DEF Remove
  <2>8. CASE Release \/ CallbackThrows \/ UNCHANGED vars
    BY <2>8 DEF Release, CallbackThrows, vars
  <2>9. CASE SetClock
    BY <2>9 DEF SetClock, IInv, TypeOK
  <2> QED BY <2>1, <2>2, <2>3, <2>4, <2>5, <2>6, <2>7, <2>8, <2>9 DEF Next, TimerStep
<1>3. IInv /\ ClockInv /\ [Next]_vars =>
        [\A v \in values :
           /\ clockSets = 0
           /\ called[v.element] = <<>> /\ called'[v.element] = <<"timeouted">>
           => v.due <= uptime]_vars
  <2> SUFFICES ASSUME IInv, ClockInv, Next, NEW w \in values, clockSets = 0,
                      called[w.element] = <<>>, called'[w.element] = <<"timeouted">>
               PROVE  w.due <= uptime
    OBVIOUS
  <2>0. w.element \in Elements /\ w.validTo \in Nat /\ w.due \in Nat
    BY DEF IInv, TypeOK, Entry
  <2>1. called' = called => FALSE
    BY OutcomeFacts
  <2>2. ASSUME NEW c \in Callers, NEW e \in Elements, Remove(c, e)
        PROVE  FALSE
    <3>0. current = None
      BY <2>2 DEF Remove, IInv, CallbackInv
    <3>a. called[e] = <<>>
      BY <2>2, <3>0, HeldUncalled DEF Remove
    <3>1. called' = [called EXCEPT ![e] = <<"removed">>]
      BY <2>2, <3>a DEF Remove
    <3>2. <<"removed">> # <<"timeouted">>
      BY <<"removed">>[1] # <<"timeouted">>[1]
    <3> QED BY <2>0, <3>1, <3>2, OutcomeFacts DEF IInv, TypeOK
  <2>3. \E v \in values : Visit(v)
    BY <2>1, <2>2 DEF Next, Store, Release, CallbackThrows, TimerStep, WeakLock, ReadClock,
                      LockMutex, EraseExpired, LeaveCheck, CallerStep, RemoveEnds, Tick, SetClock
  <2>4. PICK v \in values : Visit(v)
    BY <2>3
  <2>5. v.element = w.element /\ v.validTo <= timer.time
    <3>1. Expired(v, timer.time) /\ called' = [called EXCEPT ![v.element] = Append(@, "timeouted")]
      BY <2>1, <2>4 DEF Visit
    <3>2. v.element # w.element => called'[w.element] = <<>>
      BY <2>0, <3>1 DEF IInv, TypeOK
    <3> QED BY <3>1, <3>2, OutcomeFacts DEF Expired
  <2>6. v = w
    BY <2>5 DEF IInv, MapInv
  <2>7. timer.time \in Nat /\ uptime \in Nat
    BY DEF IInv, TypeOK
  <2> QED BY <2>0, <2>5, <2>6, <2>7 DEF ClockInv
<1> QED BY <1>1, <1>2, <1>3, Inductive, PTL DEF Spec, NeverEarly
=============================================================================
