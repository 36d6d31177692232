--------------------------- MODULE DeliveryTracking ---------------------------
(***************************************************************************)
(* What the repository of delivery handlers promises to MessageDespatcher: *)
(* a handler it accepted is told once that its message was confirmed, or   *)
(* once that the time ran out, and never both; of two handlers with one    *)
(* key only the first is accepted.  TimeoutedRepository implements this.   *)
(***************************************************************************)
CONSTANTS
  Elements,  \* delivery handlers; each is given to the repository at most once
  Keys,      \* pairs of a dialog and a number
  KeyOf      \* the key each handler is stored under

VARIABLE status

Statuses == {"new", "watched", "refused", "removed", "timeouted", "discarded"}
-----------------------------------------------------------------------------
Init == status = [e \in Elements |-> "new"]

Watches(k) == \E e \in Elements : KeyOf[e] = k /\ status[e] = "watched"

Watch(e) ==
  /\ status[e] = "new"
  /\ status' = [status EXCEPT ![e] = IF Watches(KeyOf[e]) THEN "refused" ELSE "watched"]

Resolve(e) ==
  /\ status[e] = "watched"
  /\ \E outcome \in {"removed", "timeouted"} : status' = [status EXCEPT ![e] = outcome]

\* The repository is destroyed: what it still holds is told nothing.
Discard == status' = [e \in Elements |-> IF status[e] = "watched" THEN "discarded" ELSE status[e]]

Next == (\E e \in Elements : Watch(e) \/ Resolve(e)) \/ Discard

Spec == Init /\ [][Next]_status
-----------------------------------------------------------------------------
TypeOK == status \in [Elements -> Statuses]

\* A key names one handler: an acknowledgement, which carries only the key,
\* cannot mean two of the handlers that are watched.
OneWatchedPerKey ==
  \A e, f \in Elements :
    status[e] = "watched" /\ status[f] = "watched" /\ KeyOf[e] = KeyOf[f] => e = f

\* The outcome of a handler is final: whoever resolves it, a confirmation or the
\* timer, is the only one that tells it.
OutcomeFinal ==
  [][\A e \in Elements : status[e] \notin {"new", "watched"} => status'[e] = status[e]]_status
=============================================================================
