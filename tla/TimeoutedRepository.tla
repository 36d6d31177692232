-------------------------- MODULE TimeoutedRepository --------------------------
(***************************************************************************)
(* TimeoutedRrepository (messages/src/utils/timeoutedrepository.h): a map  *)
(* with a mutex, and a detached thread that looks for expired elements.    *)
(* Both callbacks, removed() and timeouted(), run while the mutex is held; *)
(* the erase follows the callback.  The thread reads the clock before it   *)
(* takes the mutex, and it only has a weak reference to the repository.    *)
(***************************************************************************)
EXTENDS Naturals, Sequences

CONSTANTS
  Elements,   \* the objects that are stored: delivery handlers
  Keys,       \* the keys of the map
  KeyOf,      \* the key of each element
  Callers,    \* threads that call remove(): they hold a channel each
  Timer,      \* the thread of the repository
  None,       \* no thread, no element
  Timeouts,   \* the waiting periods store() is called with
  MaxTime,    \* bound on the clocks
  ClockSteps, \* how often the system clock may be set while the program runs
  Throws      \* TRUE: a callback may throw

ASSUME RepositoryAssumption ==
  /\ KeyOf \in [Elements -> Keys]
  /\ None \notin Elements \cup Callers \cup {Timer}
  /\ Timer \notin Callers
  /\ Timeouts \subseteq Nat /\ MaxTime \in Nat
  /\ ClockSteps \in Nat /\ Throws \in BOOLEAN

VARIABLES
  values,    \* mValues
  mutex,     \* the thread that holds mMutex, or None
  current,   \* the element whose callback the holder of the mutex runs, or None
  timer,     \* where the thread is, the time it read, what it has not visited
  now,       \* system_clock
  uptime,    \* the time that really passed
  clockSets, \* how often the clock was set
  refused,   \* the elements store() returned false for
  called,    \* the callbacks each element has seen
  released,  \* the owner has dropped its reference
  alive      \* FALSE after std::terminate

vars == <<values, mutex, current, timer, now, uptime, clockSets, refused, called, released, alive>>
-----------------------------------------------------------------------------
\* StoredElement; due is the moment its period has really passed.
Entry == [element : Elements, validTo : Nat, due : Nat]
TimerPCs == {"weak", "sleep", "woken", "scan", "ended"}

Held == {v.element : v \in values}
HasKey(k) == \E e \in Held : KeyOf[e] = k
\* Mutant: the period of the check counts as time that passed.
ExpiredMut(v, time) == v.validTo <= time + 1

Expired(v, time) == v.validTo <= time

Init ==
  /\ values = {} /\ mutex = None /\ current = None
  /\ timer = [pc |-> "weak", time |-> 0, left |-> {}]
  /\ now = 0 /\ uptime = 0 /\ clockSets = 0
  /\ refused = {}
  /\ called = [e \in Elements |-> <<>>]
  /\ released = FALSE /\ alive = TRUE
-----------------------------------------------------------------------------
(* Calls of the owner *)

\* store(): an element under a key that is taken is refused.
Store(e, timeout) ==
  /\ alive /\ ~released /\ mutex = None
  /\ e \notin Held \cup refused /\ called[e] = <<>>
  /\ now + timeout <= MaxTime
  /\ IF HasKey(KeyOf[e])
     THEN refused' = refused \cup {e} /\ UNCHANGED values
     ELSE /\ values' = values \cup
                         {[element |-> e, validTo |-> now + timeout, due |-> uptime + timeout]}
          /\ UNCHANGED refused
  /\ UNCHANGED <<mutex, current, timer, now, uptime, clockSets, called, released, alive>>

\* Mutant: the key is kept where the element is needed.
RemoveMut(c, e) ==
  /\ alive /\ ~released /\ mutex = None /\ e \in Held
  /\ mutex' = c /\ current' = KeyOf[e]
  /\ called' = [called EXCEPT ![e] = Append(@, "removed")]
  /\ UNCHANGED <<values, timer, now, uptime, clockSets, refused, released, alive>>

\* remove() of a key that is there, up to the call of removed().  (For another
\* key it returns false.)
Remove(c, e) ==
  /\ alive /\ ~released /\ mutex = None /\ e \in Held
  /\ mutex' = c /\ current' = e
  /\ called' = [called EXCEPT ![e] = Append(@, "removed")]
  /\ UNCHANGED <<values, timer, now, uptime, clockSets, refused, released, alive>>

\* The callback returned: the element is erased and the mutex released.
RemoveEnds(c) ==
  /\ alive /\ mutex = c
  /\ values' = {v \in values : v.element # current}
  /\ mutex' = None /\ current' = None
  /\ UNCHANGED <<timer, now, uptime, clockSets, refused, called, released, alive>>

\* The owner is destroyed; the threads that call it are gone by then.
Release ==
  /\ alive /\ ~released /\ mutex \notin Callers
  /\ released' = TRUE
  /\ UNCHANGED <<values, mutex, current, timer, now, uptime, clockSets, refused, called, alive>>

\* A callback throws: out of the noexcept dispatch that called remove(), or out
\* of the thread.
CallbackThrows ==
  /\ Throws /\ alive /\ current # None
  /\ alive' = FALSE
  /\ UNCHANGED <<values, mutex, current, timer, now, uptime, clockSets, refused, called, released>>
-----------------------------------------------------------------------------
(* thread_execute and checkInThread *)

\* Mutant: the thread ends when there is nothing to watch.
WeakLockEmptyMut ==
  /\ alive /\ timer.pc = "weak"
  /\ timer' = [timer EXCEPT !.pc = IF released \/ values = {} THEN "ended" ELSE "sleep"]
  /\ UNCHANGED <<values, mutex, current, now, uptime, clockSets, refused, called, released, alive>>

\* Mutant: the thread holds a reference of its own.
WeakLockStrongMut ==
  /\ alive /\ timer.pc = "weak"
  /\ timer' = [timer EXCEPT !.pc = "sleep"]
  /\ UNCHANGED <<values, mutex, current, now, uptime, clockSets, refused, called, released, alive>>

\* weak.lock(): with the reference the thread sleeps; without it, it ends.
WeakLock ==
  /\ alive /\ timer.pc = "weak"
  /\ timer' = [timer EXCEPT !.pc = IF released THEN "ended" ELSE "sleep"]
  /\ UNCHANGED <<values, mutex, current, now, uptime, clockSets, refused, called, released, alive>>

\* The clock is read before the mutex is taken.
ReadClock ==
  /\ alive /\ timer.pc = "sleep"
  /\ timer' = [timer EXCEPT !.pc = "woken", !.time = now]
  /\ UNCHANGED <<values, mutex, current, now, uptime, clockSets, refused, called, released, alive>>

\* Mutant: the loop runs without the mutex.
LockMutexMut ==
  /\ alive /\ timer.pc = "woken"
  /\ timer' = [timer EXCEPT !.pc = "scan", !.left = Held]
  /\ UNCHANGED <<values, mutex, current, now, uptime, clockSets, refused, called, released, alive>>

LockMutex ==
  /\ alive /\ timer.pc = "woken" /\ mutex = None
  /\ mutex' = Timer
  /\ timer' = [timer EXCEPT !.pc = "scan", !.left = Held]
  /\ UNCHANGED <<values, current, now, uptime, clockSets, refused, called, released, alive>>

\* The loop reaches an element: timeouted() is called when it has expired.
Visit(v) ==
  /\ alive /\ timer.pc = "scan" /\ current = None /\ v.element \in timer.left
  /\ timer' = [timer EXCEPT !.left = @ \ {v.element}]
  /\ IF Expired(v, timer.time)
     THEN /\ current' = v.element
          /\ called' = [called EXCEPT ![v.element] = Append(@, "timeouted")]
     ELSE UNCHANGED <<current, called>>
  /\ UNCHANGED <<values, mutex, now, uptime, clockSets, refused, released, alive>>

EraseExpired ==
  /\ alive /\ timer.pc = "scan" /\ current # None
  /\ values' = {v \in values : v.element # current}
  /\ current' = None
  /\ UNCHANGED <<mutex, timer, now, uptime, clockSets, refused, called, released, alive>>

\* The end of the loop.  The last reference goes with this iteration when the
\* owner has dropped its own: the map is destroyed with what is in it.
LeaveCheck ==
  /\ alive /\ timer.pc = "scan" /\ current = None /\ timer.left = {}
  /\ mutex' = None
  /\ timer' = [timer EXCEPT !.pc = "weak"]
  /\ UNCHANGED <<values, current, now, uptime, clockSets, refused, called, released, alive>>
-----------------------------------------------------------------------------
(* Time *)

Tick ==
  /\ alive /\ now < MaxTime
  /\ now' = now + 1 /\ uptime' = uptime + 1
  /\ UNCHANGED <<values, mutex, current, timer, clockSets, refused, called, released, alive>>

SetClock ==
  /\ alive /\ clockSets < ClockSteps
  /\ now' \in 0 .. MaxTime
  /\ clockSets' = clockSets + 1
  /\ UNCHANGED <<values, mutex, current, timer, uptime, refused, called, released, alive>>
-----------------------------------------------------------------------------
TimerStep ==
  \/ WeakLock \/ ReadClock \/ LockMutex
  \/ \E v \in values : Visit(v)
  \/ EraseExpired \/ LeaveCheck

CallerStep == \E c \in Callers : RemoveEnds(c)

Next ==
  \/ \E e \in Elements : \/ \E timeout \in Timeouts : Store(e, timeout)
                         \/ \E c \in Callers : Remove(c, e)
  \/ Release \/ CallbackThrows
  \/ TimerStep \/ CallerStep
  \/ Tick \/ SetClock

Spec == Init /\ [][Next]_vars

\* The thread runs for the life of the repository, callbacks return, time passes.
FairSpec == Spec /\ WF_vars(TimerStep) /\ WF_vars(CallerStep) /\ WF_vars(Tick)
-----------------------------------------------------------------------------
(* Properties *)

TypeOK ==
  /\ values \subseteq Entry
  /\ mutex \in Callers \cup {Timer, None}
  /\ current \in Elements \cup {None}
  /\ timer \in [pc : TimerPCs, time : Nat, left : SUBSET Elements]
  /\ now \in Nat /\ uptime \in Nat /\ clockSets \in Nat
  /\ refused \subseteq Elements
  /\ called \in [Elements -> Seq({"removed", "timeouted"})]
  /\ released \in BOOLEAN /\ alive \in BOOLEAN

\* An element is told that its time ran out only when it really did: the clock
\* the thread read before it had the mutex cannot make anything expire early.
\* (A clock that was set can, and the periods are measured with system_clock.)
NeverEarly ==
  [][\A v \in values :
       /\ clockSets = 0
       /\ called[v.element] = <<>> /\ called'[v.element] = <<"timeouted">>
       => v.due <= uptime]_vars

\* The weak reference lets the thread end after the owner is gone.
ThreadEnds == released ~> (timer.pc = "ended" \/ ~alive)

\* What the callers of the repository may rely on.
StatusOf(e) ==
  IF called[e] # <<>> THEN (IF Len(called[e]) = 1 THEN called[e][1] ELSE "twice")
  ELSE IF e \in refused THEN "refused"
  ELSE IF e \notin Held THEN "new"
  ELSE IF released /\ timer.pc = "ended" THEN "discarded"
  ELSE "watched"
Promise == INSTANCE DeliveryTracking WITH status <- [e \in Elements |-> StatusOf(e)]
Tracks == Promise!Spec
OneWatchedPerKey == Promise!OneWatchedPerKey

\* No element waits for ever while the process lives.
EachResolved ==
  \A e \in Elements : StatusOf(e) = "watched" ~> (StatusOf(e) # "watched" \/ ~alive)
=============================================================================
