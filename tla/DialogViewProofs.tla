-------------------------- MODULE DialogViewProofs --------------------------
(***************************************************************************)
(* The window and the container agree on the texts, for any number of      *)
(* dialogs, texts, selections and threads that make them.                  *)
(*                                                                         *)
(* Each operator on the objects of the user interface has a lemma: what it *)
(* keeps true of them (Sound) and which of their fields it leaves alone.   *)
(* The lemmas about the actions only put these together.                   *)
(***************************************************************************)
EXTENDS DialogView, SequenceTheorems, TLAPS

-----------------------------------------------------------------------------
(* The invariant *)

RowsOf(u) == u.rows = u.messages[u.viewed] /\ u.active \in {NoDialog, u.viewed}

TextsOf(u) == \A d \in Keys : \A i \in DOMAIN u.messages[d] : u.messages[d][i] = d

\* What is shown has been seen, and nothing that does not exist.
SeenOf(u) ==
  /\ u.seen[u.viewed] = Len(u.messages[u.viewed])
  /\ \A d \in Keys : u.seen[d] <= Len(u.messages[d])

Sound(u) == u \in UiType /\ RowsOf(u) /\ TextsOf(u) /\ SeenOf(u)

\* The last selection that waits for the work thread.
LastQueued(u, d) ==
  \E i \in DOMAIN u.calls :
    /\ u.calls[i].op = "setActive" /\ u.calls[i].dialog = d
    /\ \A j \in DOMAIN u.calls : j > i => u.calls[j].op # "setActive"

\* The selected dialog is the active one, or will be when the queue is empty.
SelectionOf(u) ==
  u.selected \notin u.overtaken =>
    IF Queued(u, "setActive", Keys) THEN LastQueued(u, u.selected) ELSE u.active = u.selected

\* Rows of the list belong to different dialogs.
DistinctOf(u) ==
  \A i, j \in DOMAIN u.list : u.list[i].dialog = u.list[j].dialog => i = j

ShownIn(u) == {u.list[i].dialog : i \in DOMAIN u.list}

\* What NothingMissed says of one row.
CoveredAt(u, i) ==
  LET d == u.list[i].dialog
  IN  d = u.selected \/ d \in u.overtaken \/ Queued(u, "setActive", {d})
      \/ Len(u.messages[d]) <= u.seen[d] + u.list[i].unread
CoveredBut(u, d) == \A i \in DOMAIN u.list : u.list[i].dialog = d \/ CoveredAt(u, i)
Covered(u) == \A i \in DOMAIN u.list : CoveredAt(u, i)

UiInv(u) == Sound(u) /\ SelectionOf(u) /\ DistinctOf(u) /\ Covered(u)

\* Texts are typed into the dialog they are stored in.
SendingInv == work.at = "send" => work.dialog = ui.active

\* What is in the list is stored; what nobody has opened yet is unknown.
Known(d) == d = NoDialog \/ status[d] # "none"
KnownInv ==
  /\ \A d \in ShownIn(ui) : Stored(d)
  /\ Known(ui.active) /\ Known(work.dialog) /\ Known(receiving)
  /\ \A i \in DOMAIN ui.calls : Known(ui.calls[i].dialog)
  /\ \A d \in Dialogs : status[d] = "none" => ui.messages[d] = <<>>

IInv == TypeOK /\ UiInv(ui) /\ SendingInv /\ KnownInv

\* What an operator does to dialogs other than ds.
Frame(u, v, ds) ==
  /\ \A d \in Keys \ ds : v.messages[d] = u.messages[d]
  /\ v.active \in {u.active} \cup ds
  /\ \A i \in DOMAIN v.calls :
       v.calls[i].dialog \in ds \/ \E j \in DOMAIN u.calls : v.calls[i] = u.calls[j]

\* The list has the same rows, apart from what they say.
SameRows(u, v) ==
  /\ Len(v.list) = Len(u.list)
  /\ \A i \in DOMAIN u.list : v.list[i].dialog = u.list[i].dialog
-----------------------------------------------------------------------------
(* The container and the shown texts *)

LEMMA UiFields ==
  ASSUME NEW u \in UiType
  PROVE  /\ u.list \in Seq(DialogInfo) /\ u.selected \in Keys /\ u.enabled \in BOOLEAN
         /\ u.window \in Seq(BOOLEAN) /\ u.calls \in Seq(Calls)
         /\ u.messages \in [Keys -> Seq(Text)] /\ u.active \in Keys /\ u.viewed \in Keys
         /\ u.rows \in Seq(Text) /\ u.seen \in [Keys -> Nat] /\ u.overtaken \subseteq Keys
         /\ \A d \in Keys : Len(u.messages[d]) \in Nat /\ u.seen[d] \in Nat
  BY LenProperties DEF UiType

LEMMA ListElements ==
  ASSUME NEW u \in UiType, NEW i \in DOMAIN u.list
  PROVE  /\ i \in 1 .. Len(u.list) /\ u.list[i] \in DialogInfo
         /\ u.list[i].dialog \in Dialogs /\ u.list[i].dialog \in Keys
         /\ u.list[i].status \in Statuses /\ u.list[i].unread \in Nat
<1>1. u.list \in Seq(DialogInfo)
  BY UiFields
<1>2. DOMAIN u.list = 1 .. Len(u.list)
  BY <1>1, LenProperties
<1>3. u.list[i] \in DialogInfo
  BY <1>1, <1>2, ElementOfSeq
<1> QED BY <1>2, <1>3 DEF DialogInfo, Keys

LEMMA SetActiveSound ==
  ASSUME NEW u, Sound(u), NEW d \in Keys
  PROVE  LET v == SetActiveDialog(u, d) IN
         /\ Sound(v) /\ v.active = d
         /\ v.messages = u.messages /\ v.list = u.list /\ v.selected = u.selected
         /\ v.calls = u.calls /\ v.overtaken = u.overtaken
         /\ \A x \in Keys : v.seen[x] >= u.seen[x]
         /\ d # NoDialog => v.seen[d] = Len(v.messages[d])
<1> USE UiFields DEF Sound
<1>1. CASE d = NoDialog
  <2> DEFINE v == [u EXCEPT !.active = NoDialog]
  <2>1. /\ v \in UiType /\ v.active = NoDialog
        /\ v.viewed = u.viewed /\ v.rows = u.rows /\ v.seen = u.seen
        /\ v.messages = u.messages /\ v.list = u.list /\ v.selected = u.selected
        /\ v.calls = u.calls /\ v.overtaken = u.overtaken
    BY <1>1 DEF UiType
  <2>2. SetActiveDialog(u, d) = v
    BY <1>1 DEF SetActiveDialog
  <2> HIDE DEF v
  <2>3. RowsOf(v) /\ TextsOf(v) /\ SeenOf(v)
    BY <2>1 DEF RowsOf, TextsOf, SeenOf
  <2> QED BY <1>1, <2>1, <2>2, <2>3
<1>2. CASE d # NoDialog /\ d = u.active
  BY <1>2 DEF SetActiveDialog, RowsOf, SeenOf
<1>3. CASE d # NoDialog /\ d # u.active
  <2> DEFINE rows == u.messages[d]
             seen == [u.seen EXCEPT ![d] = Len(rows)]
             v == [u EXCEPT !.active = d, !.viewed = d, !.rows = rows, !.seen = seen]
  <2>1. rows \in Seq(Text) /\ <<>> \o rows = rows
    BY ConcatEmptySeq
  <2>2. SetActiveDialog(u, d) = v
    BY <1>3, <2>1 DEF SetActiveDialog, ActiveDialogChanged, PeekAll, See, UiType
  <2>3. seen \in [Keys -> Nat]
    OBVIOUS
  <2>4. v \in UiType
    BY <2>1, <2>3 DEF UiType
  <2>5. /\ v.active = d /\ v.viewed = d /\ v.rows = rows /\ v.seen = seen
        /\ v.messages = u.messages /\ v.list = u.list /\ v.selected = u.selected
        /\ v.calls = u.calls /\ v.overtaken = u.overtaken
    BY DEF UiType
  <2>6. \A x \in Keys : seen[x] >= u.seen[x] /\ seen[x] <= Len(u.messages[x])
    BY DEF SeenOf
  <2> HIDE DEF v, seen, rows
  <2>7. RowsOf(v) /\ TextsOf(v)
    BY <2>5 DEF RowsOf, TextsOf, rows
  <2>8. SeenOf(v)
    BY <2>5, <2>6 DEF SeenOf, seen, rows
  <2> QED BY <1>3, <2>2, <2>4, <2>5, <2>6, <2>7, <2>8 DEF seen, rows
<1> QED BY <1>1, <1>2, <1>3

LEMMA RowFound ==
  ASSUME NEW u, NEW d, Listed(u, d)
  PROVE  Row(u, d) \in DOMAIN u.list /\ u.list[Row(u, d)].dialog = d
  BY DEF Row, Listed

LEMMA RowSet ==
  ASSUME NEW u \in UiType, NEW d, Listed(u, d), NEW n \in Nat
  PROVE  LET v == [u EXCEPT !.list[Row(u, d)].unread = n] IN
         /\ v \in UiType
         /\ v.list = [u.list EXCEPT ![Row(u, d)].unread = n]
         /\ SameRows(u, v)
         /\ \A i \in DOMAIN u.list : u.list[i].dialog # d => v.list[i] = u.list[i]
         /\ v.list[Row(u, d)].unread = n
         /\ v.selected = u.selected /\ v.calls = u.calls /\ v.messages = u.messages
         /\ v.active = u.active /\ v.viewed = u.viewed /\ v.rows = u.rows
         /\ v.seen = u.seen /\ v.overtaken = u.overtaken
<1> DEFINE r == Row(u, d)
           info == [u.list[r] EXCEPT !.unread = n]
           list == [u.list EXCEPT ![r] = info]
<1>1. u.list \in Seq(DialogInfo) /\ r \in 1 .. Len(u.list) /\ u.list[r].dialog = d
  BY RowFound, UiFields
<1>2. u.list[r] \in DialogInfo
  BY <1>1, ElementOfSeq
<1>3. info \in DialogInfo /\ info.dialog = d /\ info.unread = n
  BY <1>1, <1>2 DEF DialogInfo
<1>4. /\ list \in Seq(DialogInfo) /\ Len(list) = Len(u.list)
      /\ \A i \in 1 .. Len(u.list) : list[i] = IF i = r THEN info ELSE u.list[i]
  BY <1>1, <1>3, ExceptSeq
<1>5. [u EXCEPT !.list[Row(u, d)].unread = n] = [u EXCEPT !.list = list]
  OBVIOUS
<1> HIDE DEF list, info, r
<1>6. /\ [u EXCEPT !.list = list] \in UiType
      /\ [u EXCEPT !.list = list].list = list
  BY <1>4 DEF UiType
<1> QED
  BY <1>1, <1>3, <1>4, <1>5, <1>6 DEF UiType, SameRows, list, info, r

\* The rows of the list are touched first, the container is what Sound is about.
LEMMA SoundOf ==
  ASSUME NEW u, Sound(u), NEW v \in UiType,
         v.active = u.active, v.viewed = u.viewed, v.rows = u.rows,
         v.seen = u.seen, v.messages = u.messages
  PROVE  Sound(v)
  BY DEF Sound, RowsOf, TextsOf, SeenOf

LEMMA CountUnreadFacts ==
  ASSUME NEW u \in UiType, DistinctOf(u), NEW d \in Keys
  PROVE  LET v == CountUnread(u, d) IN
         /\ v \in UiType /\ SameRows(u, v)
         /\ \A i \in DOMAIN u.list :
              /\ u.list[i].dialog # d => v.list[i].unread = u.list[i].unread
              /\ u.list[i].dialog = d /\ u.selected # d =>
                   v.list[i].unread = u.list[i].unread + 1
              /\ v.list[i].unread >= u.list[i].unread
         /\ v.selected = u.selected /\ v.calls = u.calls /\ v.messages = u.messages
         /\ v.active = u.active /\ v.viewed = u.viewed /\ v.rows = u.rows
         /\ v.seen = u.seen /\ v.overtaken = u.overtaken
<1> DEFINE r == Row(u, d)
<1>1. u.list \in Seq(DialogInfo)
  BY UiFields
<1>2. \A i \in DOMAIN u.list : u.list[i] \in DialogInfo /\ u.list[i].unread \in Nat
  BY ListElements
<1>3. CASE u.selected = d \/ ~Listed(u, d)
  BY <1>1, <1>2, <1>3 DEF CountUnread, SameRows, Listed
<1>4. CASE u.selected # d /\ Listed(u, d)
  <2> DEFINE n == u.list[r].unread + 1
             v == [u EXCEPT !.list[r].unread = n]
  <2>1. r \in DOMAIN u.list /\ u.list[r].dialog = d
    BY <1>4, RowFound
  <2>2. n \in Nat
    BY <1>2, <2>1
  <2>3. CountUnread(u, d) = v
    BY <1>4 DEF CountUnread
  <2>4. /\ v \in UiType /\ SameRows(u, v)
        /\ \A i \in DOMAIN u.list : u.list[i].dialog # d => v.list[i] = u.list[i]
        /\ v.list[r].unread = n
        /\ v.selected = u.selected /\ v.calls = u.calls /\ v.messages = u.messages
        /\ v.active = u.active /\ v.viewed = u.viewed /\ v.rows = u.rows
        /\ v.seen = u.seen /\ v.overtaken = u.overtaken
    <3> HIDE DEF n
    <3> QED BY <1>4, <2>2, RowSet
  <2>5. \A i \in DOMAIN u.list : u.list[i].dialog = d => i = r
    BY <2>1 DEF DistinctOf
  <2> HIDE DEF v, r
  <2> QED BY <1>2, <1>4, <2>1, <2>3, <2>4, <2>5
<1> QED BY <1>3, <1>4

LEMMA ShowMessageFacts ==
  ASSUME NEW u \in UiType, NEW d \in Keys
  PROVE  LET v == ShowMessage(u, d, d) IN
         /\ v \in UiType
         /\ u.viewed = d => v.rows = Append(u.rows, d)
                            /\ v.seen = [u.seen EXCEPT ![d] = Len(u.rows) + 1]
         /\ u.viewed # d => v.rows = u.rows /\ v.seen = u.seen
         /\ v.selected = u.selected /\ v.calls = u.calls /\ v.messages = u.messages
         /\ v.active = u.active /\ v.viewed = u.viewed /\ v.list = u.list
         /\ v.overtaken = u.overtaken
<1> USE UiFields
<1>1. CASE u.viewed # d
  BY <1>1 DEF ShowMessage
<1>2. CASE u.viewed = d
  <2> DEFINE rows == Append(u.rows, d)
             seen == [u.seen EXCEPT ![d] = Len(rows)]
             v == [u EXCEPT !.rows = rows, !.seen = seen]
  <2>1. rows \in Seq(Text) /\ Len(rows) = Len(u.rows) + 1 /\ Len(rows) \in Nat
    BY AppendProperties, LenProperties DEF Text
  <2>2. ShowMessage(u, d, d) = v
    BY <1>2 DEF ShowMessage, See, UiType
  <2>3. seen \in [Keys -> Nat]
    BY <2>1
  <2> QED BY <1>2, <2>1, <2>2, <2>3, ZenonT(60) DEF UiType
<1> QED BY <1>1, <1>2

LEMMA AddMessageSound ==
  ASSUME NEW u, Sound(u), DistinctOf(u), NEW d \in Keys
  PROVE  LET v == AddMessage(u, d, d) IN
         /\ Sound(v) /\ SameRows(u, v)
         /\ Covered(u) => Covered(v)
         /\ v.messages = [u.messages EXCEPT ![d] = Append(@, d)]
         /\ v.selected = u.selected /\ v.calls = u.calls /\ v.active = u.active
         /\ v.overtaken = u.overtaken
<1>0. /\ u \in UiType /\ u.list \in Seq(DialogInfo) /\ u.rows \in Seq(Text)
      /\ u.messages \in [Keys -> Seq(Text)] /\ u.seen \in [Keys -> Nat] /\ u.viewed \in Keys
      /\ RowsOf(u) /\ TextsOf(u) /\ SeenOf(u)
      /\ \A x \in Keys : Len(u.messages[x]) \in Nat /\ u.seen[x] \in Nat
  BY UiFields DEF Sound
<1> DEFINE messages == [u.messages EXCEPT ![d] = Append(@, d)]
           stored == [u EXCEPT !.messages = messages]
           counted == CountUnread(stored, d)
           v == ShowMessage(counted, d, d)
<1>1. /\ Append(u.messages[d], d) \in Seq(Text)
      /\ Len(Append(u.messages[d], d)) = Len(u.messages[d]) + 1
      /\ \A i \in DOMAIN Append(u.messages[d], d) :
           Append(u.messages[d], d)[i] = IF i \in DOMAIN u.messages[d] THEN u.messages[d][i] ELSE d
  BY <1>0, AppendProperties, LenProperties DEF Text
<1>2. messages \in [Keys -> Seq(Text)]
  BY <1>0, <1>1
<1>3. /\ stored \in UiType /\ stored.messages = messages /\ stored.list = u.list
      /\ stored.selected = u.selected /\ stored.calls = u.calls /\ stored.active = u.active
      /\ stored.viewed = u.viewed /\ stored.rows = u.rows /\ stored.seen = u.seen
      /\ stored.overtaken = u.overtaken
  BY <1>0, <1>2 DEF UiType
<1>4. AddMessage(u, d, d) = v
  BY DEF AddMessage
<1> HIDE DEF stored, messages
<1>5. /\ counted \in UiType /\ SameRows(u, counted)
      /\ \A i \in DOMAIN u.list :
           /\ u.list[i].dialog # d => counted.list[i].unread = u.list[i].unread
           /\ u.list[i].dialog = d /\ u.selected # d =>
                counted.list[i].unread = u.list[i].unread + 1
      /\ counted.selected = u.selected /\ counted.calls = u.calls
      /\ counted.messages = messages /\ counted.active = u.active
      /\ counted.viewed = u.viewed /\ counted.rows = u.rows
      /\ counted.seen = u.seen /\ counted.overtaken = u.overtaken
  <2>1. DistinctOf(stored)
    BY <1>3 DEF DistinctOf
  <2> HIDE DEF counted
  <2> QED BY <1>3, <2>1, CountUnreadFacts DEF SameRows, counted
<1> HIDE DEF counted
<1>6. /\ v \in UiType /\ SameRows(u, v)
      /\ u.viewed = d => /\ v.rows = Append(u.rows, d)
                         /\ v.seen = [u.seen EXCEPT ![d] = Len(u.rows) + 1]
      /\ u.viewed # d => v.rows = u.rows /\ v.seen = u.seen
      /\ v.list = counted.list
      /\ v.selected = u.selected /\ v.calls = u.calls /\ v.messages = messages
      /\ v.active = u.active /\ v.viewed = u.viewed /\ v.overtaken = u.overtaken
  <2>1. /\ v \in UiType
        /\ counted.viewed = d => /\ v.rows = Append(counted.rows, d)
                                 /\ v.seen = [counted.seen EXCEPT ![d] = Len(counted.rows) + 1]
        /\ counted.viewed # d => v.rows = counted.rows /\ v.seen = counted.seen
        /\ v.selected = counted.selected /\ v.calls = counted.calls
        /\ v.messages = counted.messages /\ v.active = counted.active
        /\ v.viewed = counted.viewed /\ v.list = counted.list
        /\ v.overtaken = counted.overtaken
    BY <1>5, ShowMessageFacts
  <2> HIDE DEF v
  <2> QED BY <1>5, <2>1 DEF SameRows
<1> HIDE DEF v
<1>7. RowsOf(v)
  <2>1. messages[d] = Append(u.messages[d], d) /\ \A x \in Keys \ {d} : messages[x] = u.messages[x]
    BY <1>0 DEF messages
  <2>2. u.rows = u.messages[u.viewed] /\ u.active \in {NoDialog, u.viewed} /\ u.viewed \in Keys
    BY <1>0 DEF RowsOf
  <2>3. CASE u.viewed = d
    BY <1>6, <2>1, <2>2, <2>3 DEF RowsOf
  <2>4. CASE u.viewed # d
    BY <1>6, <2>1, <2>2, <2>4 DEF RowsOf
  <2> QED BY <2>3, <2>4
<1>8. TextsOf(v)
  <2>1. messages[d] = Append(u.messages[d], d) /\ \A x \in Keys \ {d} : messages[x] = u.messages[x]
    BY <1>0 DEF messages
  <2>2. \A i \in DOMAIN messages[d] : messages[d][i] = d
    BY <1>0, <1>1, <2>1 DEF TextsOf
  <2>3. \A x \in Keys \ {d} : \A i \in DOMAIN messages[x] : messages[x][i] = x
    BY <1>0, <2>1 DEF TextsOf
  <2> QED BY <1>6, <2>2, <2>3 DEF TextsOf
<1>9. SeenOf(v)
  BY <1>0, <1>1, <1>6 DEF SeenOf, RowsOf, messages
<1>10. ASSUME Covered(u) PROVE Covered(v)
  <2> SUFFICES ASSUME NEW i \in DOMAIN v.list PROVE CoveredAt(v, i)
    BY DEF Covered
  <2>1. i \in DOMAIN u.list /\ v.list[i].dialog = u.list[i].dialog /\ CoveredAt(u, i)
    BY <1>0, <1>6, <1>10, ListElements, LenProperties DEF Covered, SameRows
  <2>2. u.list[i].dialog \in Dialogs /\ u.list[i].unread \in Nat
    BY <1>0, <2>1, ListElements
  <2> DEFINE x == u.list[i].dialog
  <2>3. x \in Keys
    BY <2>2 DEF Keys
  <2>4. CASE x # d
    <3>1. v.messages[x] = u.messages[x] /\ v.seen[x] = u.seen[x]
          /\ v.list[i].unread = u.list[i].unread
      BY <1>0, <1>5, <1>6, <2>1, <2>3, <2>4 DEF messages
    <3> QED BY <1>6, <2>1, <3>1 DEF CoveredAt, Queued
  <2>5. CASE x = d /\ x # u.selected
    <3>1. v.list[i].unread = u.list[i].unread + 1
      BY <1>5, <1>6, <2>1, <2>5
    <3>2. Len(v.messages[x]) = Len(u.messages[x]) + 1
      BY <1>0, <1>1, <1>6, <2>5 DEF messages
    <3>3. v.seen[x] >= u.seen[x]
      BY <1>0, <1>6, <2>5 DEF SeenOf, RowsOf
    <3>4. CASE Len(u.messages[x]) <= u.seen[x] + u.list[i].unread
      <4>1. /\ Len(u.messages[x]) \in Nat /\ u.seen[x] \in Nat /\ v.seen[x] \in Nat
        BY <1>0, <1>6, <2>3, UiFields
      <4>2. Len(v.messages[x]) <= v.seen[x] + v.list[i].unread
        <5>1. \A m, k, n, l \in Nat : m <= k + n /\ l >= k => m + 1 <= l + (n + 1)
          OBVIOUS
        <5>2. Len(u.messages[x]) + 1 <= v.seen[x] + (u.list[i].unread + 1)
          BY <2>2, <3>3, <3>4, <4>1, <5>1
        <5> QED BY <3>1, <3>2, <5>2
      <4> QED BY <2>1, <4>2 DEF CoveredAt
    <3> QED BY <1>6, <2>1, <3>4 DEF CoveredAt, Queued
  <2>6. CASE x = u.selected
    BY <1>6, <2>1, <2>6 DEF CoveredAt
  <2> QED BY <2>4, <2>5, <2>6
<1> QED BY <1>4, <1>6, <1>7, <1>8, <1>9, <1>10 DEF messages, Sound
-----------------------------------------------------------------------------
(* Selections *)

\* A selection is made, or waits as the last one.
LEMMA EmitToWrapperFacts ==
  ASSUME NEW t, NEW u, Sound(u), NEW d \in Keys
  PROVE  LET v == EmitToWrapper(t, u, d) IN
         /\ Sound(v) /\ Frame(u, v, {d})
         /\ v.messages = u.messages /\ v.list = u.list /\ v.selected = u.selected
         /\ u.overtaken \ {d} \subseteq v.overtaken
         /\ \A x \in Keys : v.seen[x] >= u.seen[x]
         /\ \A x \in Keys : Queued(u, "setActive", {x}) => Queued(v, "setActive", {x})
         /\ t # Work => v.active = u.active
         /\ u.selected = d => SelectionOf(v)
<1>0. u \in UiType /\ u.calls \in Seq(Calls) /\ u.overtaken \subseteq Keys
      /\ \A x \in Keys : u.seen[x] \in Nat
  BY UiFields DEF Sound
<1>1. CASE t = Work
  <2> DEFINE s == SetActiveDialog(u, d)
             overtaken == IF Queued(u, "setActive", Keys)
                          THEN u.overtaken \cup {d} ELSE u.overtaken \ {d}
             v == [s EXCEPT !.overtaken = overtaken]
  <2>1. /\ Sound(s) /\ s.active = d
        /\ s.messages = u.messages /\ s.list = u.list /\ s.selected = u.selected
        /\ s.calls = u.calls /\ s.overtaken = u.overtaken
        /\ \A x \in Keys : s.seen[x] >= u.seen[x]
    BY SetActiveSound
  <2>2. EmitToWrapper(t, u, d) = v
    <3> HIDE DEF s
    <3> QED BY <1>1, <2>1 DEF EmitToWrapper, s
  <2>3. overtaken \subseteq Keys
    BY <1>0
  <2> HIDE DEF s, overtaken
  <2>4. /\ v \in UiType /\ v.overtaken = overtaken
        /\ v.active = d /\ v.viewed = s.viewed /\ v.rows = s.rows /\ v.seen = s.seen
        /\ v.messages = s.messages /\ v.list = s.list /\ v.selected = s.selected
        /\ v.calls = s.calls
    BY <2>1, <2>3 DEF UiType, Sound
  <2> HIDE DEF v
  <2>5. Sound(v)
    BY <2>1, <2>4, SoundOf
  <2>6. Frame(u, v, {d})
    BY <2>1, <2>4 DEF Frame
  <2>7. u.selected = d => SelectionOf(v)
    BY <2>1, <2>4 DEF SelectionOf, Queued, overtaken
  <2>8. u.overtaken \ {d} \subseteq v.overtaken
    BY <2>4 DEF overtaken
  <2> QED BY <1>1, <2>1, <2>2, <2>4, <2>5, <2>6, <2>7, <2>8 DEF Queued
<1>2. CASE t # Work
  <2> DEFINE calls == Append(u.calls, Call("setActive", d))
             overtaken == u.overtaken \ {d}
             v == [u EXCEPT !.calls = calls, !.overtaken = overtaken]
  <2>1. EmitToWrapper(t, u, d) = v
    BY <1>2 DEF EmitToWrapper
  <2>2. Call("setActive", d) \in Calls
    BY DEF Call, Calls
  <2>3. /\ calls \in Seq(Calls) /\ Len(calls) = Len(u.calls) + 1
        /\ \A i \in 1 .. Len(u.calls) : calls[i] = u.calls[i]
        /\ calls[Len(u.calls) + 1] = Call("setActive", d)
        /\ DOMAIN calls = 1 .. Len(u.calls) + 1 /\ DOMAIN u.calls = 1 .. Len(u.calls)
        /\ Len(u.calls) \in Nat
    BY <1>0, <2>2, AppendProperties, LenProperties
  <2> HIDE DEF calls
  <2>4. /\ v \in UiType /\ v.calls = calls /\ v.overtaken = overtaken
        /\ v.active = u.active /\ v.viewed = u.viewed /\ v.rows = u.rows /\ v.seen = u.seen
        /\ v.messages = u.messages /\ v.list = u.list /\ v.selected = u.selected
    BY <1>0, <2>3 DEF UiType
  <2> HIDE DEF v
  <2>5. Sound(v)
    BY <2>4, SoundOf
  <2>6. Frame(u, v, {d})
    BY <2>3, <2>4 DEF Frame, Call
  <2>7. \A x \in Keys : Queued(u, "setActive", {x}) => Queued(v, "setActive", {x})
    BY <2>3, <2>4 DEF Queued
  <2>8. LastQueued(v, d)
    BY <2>3, <2>4 DEF LastQueued, Call
  <2>9. Queued(v, "setActive", Keys)
    BY <2>3, <2>4 DEF Queued, Call
  <2> QED
    BY <1>0, <1>2, <2>1, <2>4, <2>5, <2>6, <2>7, <2>8, <2>9 DEF SelectionOf
<1> QED BY <1>1, <1>2

LEMMA EmitToWindowFacts ==
  ASSUME NEW t, NEW u \in UiType, NEW good \in BOOLEAN
  PROVE  LET v == EmitToWindow(t, u, good) IN
         /\ v \in UiType /\ v.list = u.list /\ v.selected = u.selected
         /\ v.calls = u.calls /\ v.messages = u.messages /\ v.active = u.active
         /\ v.viewed = u.viewed /\ v.rows = u.rows /\ v.seen = u.seen
         /\ v.overtaken = u.overtaken
<1>1. Append(u.window, good) \in Seq(BOOLEAN)
  BY UiFields, AppendProperties
<1> QED BY <1>1 DEF EmitToWindow, UiType

\* Who selects another dialog leaves nothing uncounted: the dialog selected
\* before has been shown, will be shown, or was overtaken.
LEMMA UpdateActiveSound ==
  ASSUME NEW t, NEW u, Sound(u), SelectionOf(u), NEW d \in Keys, CoveredBut(u, d), NEW s,
         NEW v, v = UpdateActiveDialog(t, u, d, s)
  PROVE  /\ Sound(v) /\ SelectionOf(v) /\ Covered(v) /\ Frame(u, v, {d})
         /\ v.messages = u.messages /\ v.list = u.list /\ v.selected = d
         /\ t # Work => v.active = u.active
<1> DEFINE w == [u EXCEPT !.selected = d]
           x == EmitToWrapper(t, w, d)
           good == s = "active"
<1>0. u \in UiType
  BY DEF Sound
<1>1. /\ w \in UiType /\ w.selected = d /\ w.list = u.list
      /\ w.calls = u.calls /\ w.messages = u.messages /\ w.active = u.active
      /\ w.viewed = u.viewed /\ w.rows = u.rows /\ w.seen = u.seen
      /\ w.overtaken = u.overtaken
  BY <1>0 DEF UiType
<1>2. v = EmitToWindow(t, x, good)
  BY DEF UpdateActiveDialog
<1> HIDE DEF w
<1>3. Sound(w)
  BY <1>1, SoundOf
<1>4. /\ Sound(x) /\ Frame(w, x, {d}) /\ SelectionOf(x)
      /\ x.messages = w.messages /\ x.list = w.list /\ x.selected = w.selected
      /\ w.overtaken \ {d} \subseteq x.overtaken
      /\ \A k \in Keys : x.seen[k] >= w.seen[k]
      /\ \A k \in Keys : Queued(w, "setActive", {k}) => Queued(x, "setActive", {k})
      /\ t # Work => x.active = w.active
  <2>1. w.selected = d
    BY <1>1
  <2>2. Sound(x) /\ Frame(w, x, {d})
    BY <1>3, EmitToWrapperFacts
  <2>3. SelectionOf(x)
    BY <2>1, <1>3, EmitToWrapperFacts
  <2>4. x.messages = w.messages /\ x.list = w.list /\ x.selected = w.selected
    BY <1>3, EmitToWrapperFacts, ZenonT(60)
  <2>5. w.overtaken \ {d} \subseteq x.overtaken
    BY <1>3, EmitToWrapperFacts
  <2>6. \A k \in Keys : x.seen[k] >= w.seen[k]
    BY <1>3, EmitToWrapperFacts
  <2>7. \A k \in Keys : Queued(w, "setActive", {k}) => Queued(x, "setActive", {k})
    BY <1>3, EmitToWrapperFacts
  <2>8. t # Work => x.active = w.active
    BY <1>3, EmitToWrapperFacts
  <2> QED BY <2>2, <2>3, <2>4, <2>5, <2>6, <2>7, <2>8
<1> HIDE DEF x
<1>5. /\ v \in UiType /\ v.list = x.list /\ v.selected = x.selected
      /\ v.calls = x.calls /\ v.messages = x.messages /\ v.active = x.active
      /\ v.viewed = x.viewed /\ v.rows = x.rows /\ v.seen = x.seen
      /\ v.overtaken = x.overtaken
  <2>1. x \in UiType /\ good \in BOOLEAN
    BY <1>4 DEF Sound
  <2> HIDE DEF good
  <2> QED BY <1>2, <2>1, EmitToWindowFacts
<1>6. Sound(v)
  BY <1>4, <1>5, SoundOf
<1>7. SelectionOf(v)
  BY <1>4, <1>5 DEF SelectionOf, LastQueued, Queued
<1>8. Frame(u, v, {d})
  BY <1>1, <1>4, <1>5 DEF Frame
<1>9. Covered(v)
  <2> SUFFICES ASSUME NEW i \in DOMAIN u.list PROVE CoveredAt(v, i)
    BY <1>1, <1>4, <1>5 DEF Covered
  <2> DEFINE k == u.list[i].dialog
  <2>1. k \in Dialogs /\ k \in Keys /\ u.list[i].unread \in Nat /\ k # NoDialog
    BY <1>0, ListElements, ViewAssumption
  <2>2. /\ v.list[i] = u.list[i] /\ v.messages = u.messages /\ v.seen[k] >= u.seen[k]
        /\ v.seen[k] \in Nat /\ u.seen[k] \in Nat /\ Len(u.messages[k]) \in Nat
    BY <1>0, <1>1, <1>4, <1>5, <2>1, UiFields DEF Sound
  <2>3. Queued(u, "setActive", {k}) => Queued(v, "setActive", {k})
    BY <1>1, <1>4, <1>5, <2>1 DEF Queued
  <2> HIDE DEF k
  <2>4. CASE k = d
    BY <1>1, <1>4, <1>5, <2>2, <2>4 DEF CoveredAt, k
  <2>5. CASE k # d /\ (k \in u.overtaken \/ Queued(u, "setActive", {k}))
    BY <1>1, <1>4, <1>5, <2>2, <2>3, <2>5 DEF CoveredAt, k
  <2>6. CASE k # d /\ Len(u.messages[k]) <= u.seen[k] + u.list[i].unread
    <3>1. Len(u.messages[k]) <= v.seen[k] + u.list[i].unread
      BY <2>1, <2>2, <2>6
    <3> QED BY <2>2, <3>1 DEF CoveredAt, k
  <2>7. CASE k # d /\ k = u.selected /\ k \notin u.overtaken
    <3>1. CASE Queued(u, "setActive", Keys)
      <4>1. LastQueued(u, k)
        BY <2>7, <3>1 DEF SelectionOf
      <4>2. Queued(u, "setActive", {k})
        BY <4>1 DEF LastQueued, Queued
      <4> QED BY <2>5, <2>7, <4>2
    <3>2. CASE ~Queued(u, "setActive", Keys)
      <4>1. u.viewed = k
        BY <2>1, <2>7, <3>2 DEF SelectionOf, Sound, RowsOf
      <4>2. u.seen[k] = Len(u.messages[k])
        BY <4>1 DEF Sound, SeenOf
      <4> QED BY <2>1, <2>2, <2>6, <2>7, <4>2
    <3> QED BY <3>1, <3>2
  <2> QED BY <2>4, <2>5, <2>6, <2>7 DEF CoveredBut, CoveredAt, k
<1> QED BY <1>1, <1>2, <1>4, <1>5, <1>6, <1>7, <1>8, <1>9
-----------------------------------------------------------------------------
(* The list *)

LEMMA SameShown ==
  ASSUME NEW u \in UiType, NEW v \in UiType, SameRows(u, v)
  PROVE  /\ DOMAIN v.list = DOMAIN u.list
         /\ ShownIn(v) = ShownIn(u)
         /\ DistinctOf(u) => DistinctOf(v)
         /\ \A d : Listed(u, d) <=> Listed(v, d)
<1>1. DOMAIN v.list = DOMAIN u.list
  BY UiFields, LenProperties DEF SameRows
<1> QED BY <1>1 DEF SameRows, ShownIn, DistinctOf, Listed

LEMMA RowStatus ==
  ASSUME NEW u \in UiType, NEW d, Listed(u, d), NEW s \in Statuses
  PROVE  LET v == [u EXCEPT !.list[Row(u, d)].status = s] IN
         /\ v \in UiType /\ SameRows(u, v)
         /\ \A i \in DOMAIN u.list : v.list[i].unread = u.list[i].unread
         /\ v.selected = u.selected /\ v.calls = u.calls /\ v.messages = u.messages
         /\ v.active = u.active /\ v.viewed = u.viewed /\ v.rows = u.rows
         /\ v.seen = u.seen /\ v.overtaken = u.overtaken
<1> DEFINE r == Row(u, d)
           info == [u.list[r] EXCEPT !.status = s]
           list == [u.list EXCEPT ![r] = info]
<1>1. u.list \in Seq(DialogInfo) /\ r \in 1 .. Len(u.list) /\ u.list[r].dialog = d
  BY RowFound, UiFields
<1>2. u.list[r] \in DialogInfo
  BY <1>1, ElementOfSeq
<1>3. info \in DialogInfo /\ info.dialog = d /\ info.unread = u.list[r].unread
  BY <1>1, <1>2 DEF DialogInfo
<1>4. /\ list \in Seq(DialogInfo) /\ Len(list) = Len(u.list)
      /\ \A i \in 1 .. Len(u.list) : list[i] = IF i = r THEN info ELSE u.list[i]
  BY <1>1, <1>3, ExceptSeq
<1>5. [u EXCEPT !.list[Row(u, d)].status = s] = [u EXCEPT !.list = list]
  OBVIOUS
<1> HIDE DEF list, info, r
<1>6. /\ [u EXCEPT !.list = list] \in UiType
      /\ [u EXCEPT !.list = list].list = list
  BY <1>4 DEF UiType
<1> QED
  BY <1>1, <1>3, <1>4, <1>5, <1>6 DEF UiType, SameRows, list, info, r

\* A list with the same rows, and no fewer unread texts but for one dialog.
LEMMA SameCovered ==
  ASSUME NEW u, Sound(u), NEW v \in UiType, SameRows(u, v), NEW d \in Keys,
         \A i \in DOMAIN u.list :
           u.list[i].dialog # d => v.list[i].unread = u.list[i].unread,
         v.selected = u.selected, v.calls = u.calls, v.messages = u.messages,
         v.seen = u.seen, v.overtaken = u.overtaken, CoveredBut(u, d)
  PROVE  CoveredBut(v, d)
<1>1. DOMAIN v.list = DOMAIN u.list
  BY SameShown DEF Sound
<1> QED BY <1>1 DEF CoveredBut, CoveredAt, SameRows, Queued

LEMMA ReadedSound ==
  ASSUME NEW u, Sound(u), SelectionOf(u), DistinctOf(u), NEW d \in Keys, Listed(u, d),
         CoveredBut(u, d)
  PROVE  LET v == MessagesReaded(u, d) IN
         /\ Sound(v) /\ SelectionOf(v) /\ DistinctOf(v) /\ CoveredBut(v, d)
         /\ SameRows(u, v) /\ ShownIn(v) = ShownIn(u)
         /\ v.selected = u.selected /\ v.calls = u.calls /\ v.messages = u.messages
         /\ v.active = u.active /\ v.overtaken = u.overtaken
         /\ u.selected = d => Covered(v)
<1> DEFINE v == [u EXCEPT !.list[Row(u, d)].unread = 0]
<1>0. u \in UiType
  BY DEF Sound
<1>1. MessagesReaded(u, d) = v
  BY DEF MessagesReaded
<1>2. /\ v \in UiType /\ SameRows(u, v)
      /\ \A i \in DOMAIN u.list : u.list[i].dialog # d => v.list[i] = u.list[i]
      /\ v.selected = u.selected /\ v.calls = u.calls /\ v.messages = u.messages
      /\ v.active = u.active /\ v.viewed = u.viewed /\ v.rows = u.rows
      /\ v.seen = u.seen /\ v.overtaken = u.overtaken
  BY <1>0, RowSet
<1> HIDE DEF v
<1>3. Sound(v)
  BY <1>2, SoundOf
<1>4. SelectionOf(v)
  BY <1>2 DEF SelectionOf, LastQueued, Queued
<1>5. CoveredBut(v, d)
  BY <1>2, SameCovered
<1>6. DistinctOf(v) /\ ShownIn(v) = ShownIn(u) /\ DOMAIN v.list = DOMAIN u.list
  BY <1>0, <1>2, SameShown
<1>7. u.selected = d => Covered(v)
  BY <1>2, <1>5, <1>6 DEF Covered, CoveredBut, CoveredAt
<1> QED BY <1>1, <1>2, <1>3, <1>4, <1>5, <1>6, <1>7

LEMMA RemoveAtFacts ==
  ASSUME NEW S, NEW s \in Seq(S), NEW i \in 1 .. Len(s)
  PROVE  /\ RemoveAt(s, i) \in Seq(S) /\ Len(RemoveAt(s, i)) = Len(s) - 1
         /\ \A j \in 1 .. Len(s) - 1 : RemoveAt(s, i)[j] = IF j < i THEN s[j] ELSE s[j + 1]
<1> DEFINE front == SubSeq(s, 1, i - 1)
           back == SubSeq(s, i + 1, Len(s))
<1>1. Len(s) \in Nat /\ \A j \in 1 .. Len(s) : s[j] \in S
  BY LenProperties, ElementOfSeq
<1>2. /\ front \in Seq(S) /\ Len(front) = i - 1
      /\ \A j \in 1 .. i - 1 : front[j] = s[j]
  <2>1. \A j \in 1 .. i - 1 : s[j] \in S
    BY <1>1
  <2>2. 1 \in Int /\ i - 1 \in Int
    BY <1>1
  <2> HIDE DEF front
  <2> QED BY <1>1, <2>1, <2>2, SubSeqProperties DEF front
<1>3. /\ back \in Seq(S) /\ Len(back) = Len(s) - i
      /\ \A j \in 1 .. Len(s) - i : back[j] = s[i + j]
  <2>1. \A j \in i + 1 .. Len(s) : s[j] \in S
    BY <1>1
  <2>2. i + 1 \in Int /\ Len(s) \in Int
    BY <1>1
  <2>3. /\ back \in Seq(S)
        /\ Len(back) = IF i + 1 <= Len(s) THEN Len(s) - (i + 1) + 1 ELSE 0
        /\ \A j \in 1 .. Len(s) - (i + 1) + 1 : back[j] = s[i + 1 + j - 1]
    BY <2>1, <2>2, SubSeqProperties
  <2> QED BY <1>1, <2>3
<1> HIDE DEF front, back
<1>4. /\ front \o back \in Seq(S) /\ Len(front \o back) = Len(s) - 1
      /\ \A j \in 1 .. Len(s) - 1 :
           (front \o back)[j] = IF j <= i - 1 THEN front[j] ELSE back[j - (i - 1)]
  <2>1. Len(front) + Len(back) = Len(s) - 1
    BY <1>1, <1>2, <1>3
  <2>2. /\ front \o back \in Seq(S) /\ Len(front \o back) = Len(front) + Len(back)
        /\ \A j \in 1 .. Len(front) + Len(back) :
             (front \o back)[j] = IF j <= Len(front) THEN front[j] ELSE back[j - Len(front)]
    BY <1>2, <1>3, ConcatProperties, Zenon
  <2> QED BY <1>2, <2>1, <2>2
<1>5. ASSUME NEW j \in 1 .. Len(s) - 1
      PROVE  (front \o back)[j] = IF j < i THEN s[j] ELSE s[j + 1]
  <2>1. CASE j < i
    BY <1>1, <1>2, <1>4, <2>1
  <2>2. CASE j >= i
    <3>1. j - (i - 1) \in 1 .. Len(s) - i /\ ~(j <= i - 1) /\ i + (j - (i - 1)) = j + 1
      BY <1>1, <2>2
    <3> QED BY <1>3, <1>4, <2>2, <3>1
  <2>3. j < i \/ j >= i
    BY <1>1
  <2> QED BY <2>1, <2>2, <2>3
<1> QED BY <1>4, <1>5 DEF RemoveAt, front, back

LEMMA FrameSame ==
  ASSUME NEW u, NEW v, NEW ds, v.active = u.active, v.calls = u.calls,
         \A d \in Keys \ ds : v.messages[d] = u.messages[d]
  PROVE  Frame(u, v, ds)
  BY DEF Frame

LEMMA FrameTrans ==
  ASSUME NEW u, NEW v, NEW w, NEW ds, Frame(u, v, ds), Frame(v, w, ds)
  PROVE  Frame(u, w, ds)
  BY DEF Frame

\* Nothing is shown of a dialog.
Untouched(u, d) == ~Listed(u, d) /\ u.messages[d] = <<>>

\* It is listed.
Lists(t, u, w, d) ==
  /\ UiInv(w) /\ Frame(u, w, {d}) /\ ShownIn(w) = ShownIn(u) \cup {d}
  /\ t # Work => w.active = u.active

LEMMA AddedSound ==
  ASSUME NEW t, NEW u, UiInv(u), NEW d \in Dialogs, Untouched(u, d), NEW s \in Statuses,
         NEW w, w = Added(t, u, d, s)
  PROVE  Lists(t, u, w, d)
<1> DEFINE row == [dialog |-> d, status |-> s, unread |-> 0]
           list == Append(u.list, row)
           longer == [u EXCEPT !.list = list]
<1>a. ~Listed(u, d) /\ u.messages[d] = <<>>
  BY DEF Untouched
<1>0. u \in UiType /\ u.list \in Seq(DialogInfo) /\ d \in Keys
  BY UiFields DEF UiInv, Sound, Keys
<1>1. row \in DialogInfo
  BY DEF DialogInfo
<1>2. /\ list \in Seq(DialogInfo) /\ Len(list) = Len(u.list) + 1
      /\ DOMAIN list = 1 .. Len(u.list) + 1 /\ DOMAIN u.list = 1 .. Len(u.list)
      /\ \A i \in 1 .. Len(u.list) : list[i] = u.list[i]
      /\ list[Len(u.list) + 1] = row /\ Len(u.list) \in Nat
  BY <1>0, <1>1, AppendProperties, LenProperties
<1> HIDE DEF list
<1>3. /\ longer \in UiType /\ longer.list = list
      /\ longer.selected = u.selected /\ longer.calls = u.calls
      /\ longer.messages = u.messages /\ longer.active = u.active
      /\ longer.viewed = u.viewed /\ longer.rows = u.rows /\ longer.seen = u.seen
      /\ longer.overtaken = u.overtaken
  BY <1>0, <1>2 DEF UiType
<1>4. w =
        IF Len(longer.list) = 1 THEN UpdateActiveDialog(t, longer, d, s) ELSE longer
  BY DEF Added, list
<1> HIDE DEF longer
<1>5. Sound(longer)
  BY <1>3, SoundOf DEF UiInv
<1>6. SelectionOf(longer)
  BY <1>3 DEF UiInv, SelectionOf, LastQueued, Queued
<1>7. DistinctOf(longer)
  <2>1. \A i \in 1 .. Len(u.list) : u.list[i].dialog # d
    BY <1>a, <1>2 DEF Listed
  <2>2. DistinctOf(u)
    BY DEF UiInv
  <2> SUFFICES ASSUME NEW i \in 1 .. Len(u.list) + 1, NEW j \in 1 .. Len(u.list) + 1,
                      list[i].dialog = list[j].dialog
               PROVE  i = j
    BY <1>2, <1>3 DEF DistinctOf
  <2>3. CASE i \in 1 .. Len(u.list) /\ j \in 1 .. Len(u.list)
    BY <1>2, <2>2, <2>3 DEF DistinctOf
  <2>4. CASE i = Len(u.list) + 1 \/ j = Len(u.list) + 1
    <3>1. list[Len(u.list) + 1].dialog = d
      BY <1>2
    <3>2. \A k \in 1 .. Len(u.list) : list[k].dialog # d
      BY <1>2, <2>1
    <3> QED BY <1>2, <2>4, <3>1, <3>2
  <2>5. Len(u.list) \in Nat
    BY <1>2
  <2> QED BY <2>3, <2>4, <2>5
<1>8. Covered(longer)
  <2> SUFFICES ASSUME NEW i \in 1 .. Len(u.list) + 1 PROVE CoveredAt(longer, i)
    BY <1>2, <1>3 DEF Covered
  <2>1. CASE i \in 1 .. Len(u.list)
    <3>1. longer.list[i] = u.list[i] /\ CoveredAt(u, i)
      BY <1>2, <1>3, <2>1 DEF UiInv, Covered
    <3> QED BY <1>3, <3>1 DEF CoveredAt, Queued
  <2>2. CASE i = Len(u.list) + 1
    <3>1. longer.list[i].dialog = d /\ longer.list[i].unread = 0
      BY <1>2, <1>3, <2>2
    <3>2. Len(longer.messages[d]) = 0 /\ longer.seen[d] \in Nat
      BY <1>a, <1>0, <1>3, UiFields, LenProperties, EmptySeq
    <3>3. Len(longer.messages[d]) <= longer.seen[d] + longer.list[i].unread
      BY <3>1, <3>2
    <3> QED BY <3>1, <3>3 DEF CoveredAt
  <2> QED BY <1>2, <2>1, <2>2
<1>9. ShownIn(longer) = ShownIn(u) \cup {d}
  <2>1. ShownIn(longer) \subseteq ShownIn(u) \cup {d}
    <3> SUFFICES ASSUME NEW i \in 1 .. Len(u.list) + 1
                 PROVE  list[i].dialog \in ShownIn(u) \cup {d}
      BY <1>2, <1>3 DEF ShownIn
    <3>1. i \in 1 .. Len(u.list) \/ i = Len(u.list) + 1
      BY <1>2
    <3> QED BY <1>2, <3>1 DEF ShownIn
  <2>2. ShownIn(u) \subseteq ShownIn(longer)
    BY <1>2, <1>3 DEF ShownIn
  <2>3. d \in ShownIn(longer)
    <3>1. Len(u.list) + 1 \in DOMAIN longer.list /\ longer.list[Len(u.list) + 1].dialog = d
      BY <1>2, <1>3
    <3> QED BY <3>1 DEF ShownIn
  <2> QED BY <2>1, <2>2, <2>3
<1>10. Frame(u, longer, {d})
  BY <1>3, FrameSame
<1>11. CoveredBut(longer, d)
  BY <1>8 DEF Covered, CoveredBut
<1>12. CASE Len(longer.list) = 1
  <2> DEFINE v == UpdateActiveDialog(t, longer, d, s)
  <2>a. v = UpdateActiveDialog(t, longer, d, s)
    OBVIOUS
  <2> HIDE DEF v
  <2>1. /\ Sound(v) /\ SelectionOf(v) /\ Covered(v) /\ Frame(longer, v, {d})
        /\ v.messages = longer.messages /\ v.list = longer.list
        /\ t # Work => v.active = longer.active
    BY <1>0, <1>5, <1>6, <1>11, <2>a, UpdateActiveSound
  <2>2. DistinctOf(v) /\ ShownIn(v) = ShownIn(longer)
    BY <1>7, <2>1 DEF DistinctOf, ShownIn
  <2>3. Frame(u, v, {d})
    BY <1>10, <2>1, FrameTrans
  <2>4. w = v
    BY <1>4, <1>12 DEF v
  <2> QED BY <1>3, <1>9, <2>1, <2>2, <2>3, <2>4 DEF UiInv, Lists
<1>13. CASE Len(longer.list) # 1
  BY <1>3, <1>4, <1>5, <1>6, <1>7, <1>8, <1>9, <1>10, <1>13 DEF UiInv, Lists
<1> QED BY <1>12, <1>13

\* Selecting a listed dialog and reading its texts.
LEMMA SelectedSound ==
  ASSUME NEW t, NEW u, Sound(u), SelectionOf(u), DistinctOf(u), NEW d \in Keys,
         Listed(u, d), CoveredBut(u, d), NEW s,
         NEW v, v = MessagesReaded(UpdateActiveDialog(t, u, d, s), d)
  PROVE  /\ UiInv(v) /\ Frame(u, v, {d}) /\ v.messages = u.messages
         /\ ShownIn(v) = ShownIn(u)
         /\ t # Work => v.active = u.active
<1> DEFINE w == UpdateActiveDialog(t, u, d, s)
<1>0. v = MessagesReaded(w, d) /\ w = UpdateActiveDialog(t, u, d, s)
  OBVIOUS
<1> HIDE DEF w
<1>1. /\ Sound(w) /\ SelectionOf(w) /\ Covered(w) /\ Frame(u, w, {d})
      /\ w.messages = u.messages /\ w.list = u.list /\ w.selected = d
      /\ t # Work => w.active = u.active
  BY <1>0, UpdateActiveSound, SMTT(60)
<1>2. DistinctOf(w) /\ Listed(w, d) /\ CoveredBut(w, d) /\ ShownIn(w) = ShownIn(u)
  BY <1>1 DEF DistinctOf, Listed, Covered, CoveredBut, ShownIn
<1>3. /\ Sound(v) /\ SelectionOf(v) /\ DistinctOf(v)
      /\ ShownIn(v) = ShownIn(w)
      /\ v.calls = w.calls /\ v.messages = w.messages /\ v.active = w.active
      /\ w.selected = d => Covered(v)
  BY <1>0, <1>1, <1>2, ReadedSound, ZenonT(60)
<1>4. Frame(w, v, {d})
  BY <1>3, FrameSame
<1>5. Frame(u, v, {d})
  BY <1>1, <1>4, FrameTrans
<1> QED BY <1>1, <1>2, <1>3, <1>5 DEF UiInv, w

LEMMA ChangedSound ==
  ASSUME NEW t, NEW u, UiInv(u), NEW d \in Dialogs, NEW s \in Statuses
  PROVE  LET v == Changed(t, u, d, s) IN
         /\ UiInv(v) /\ Frame(u, v, {d}) /\ ShownIn(v) = ShownIn(u)
         /\ t # Work => v.active = u.active
<1> DEFINE told == IF s = "ended" THEN AddMessage(u, d, d) ELSE u
           updated == [told EXCEPT !.list[Row(told, d)].status = s]
<1>0. u \in UiType /\ d \in Keys /\ u.messages \in [Keys -> Seq(Text)]
  BY UiFields DEF UiInv, Sound, Keys
<1>1. /\ UiInv(told) /\ Frame(u, told, {d}) /\ ShownIn(told) = ShownIn(u)
      /\ told.active = u.active
  <2>1. CASE s = "ended"
    <3> DEFINE v == AddMessage(u, d, d)
    <3>1. /\ Sound(v) /\ SameRows(u, v)
          /\ Covered(u) => Covered(v)
          /\ v.messages = [u.messages EXCEPT ![d] = Append(@, d)]
          /\ v.selected = u.selected /\ v.calls = u.calls /\ v.active = u.active
          /\ v.overtaken = u.overtaken
      BY <1>0, AddMessageSound DEF UiInv
    <3> HIDE DEF v
    <3>2. ShownIn(v) = ShownIn(u) /\ DistinctOf(v)
      BY <1>0, <3>1, SameShown DEF UiInv, Sound
    <3>3. SelectionOf(v)
      BY <3>1 DEF UiInv, SelectionOf, LastQueued, Queued
    <3>4. Frame(u, v, {d})
      BY <1>0, <3>1, FrameSame
    <3>5. told = v
      BY <2>1 DEF v
    <3> QED BY <3>1, <3>2, <3>3, <3>4, <3>5 DEF UiInv
  <2>2. CASE s # "ended"
    BY <2>2, FrameSame
  <2> QED BY <2>1, <2>2
<1>2. Changed(t, u, d, s) =
        IF ~Listed(told, d) THEN told
        ELSE IF told.selected # d THEN updated
        ELSE MessagesReaded(UpdateActiveDialog(t, updated, d, s), d)
  BY DEF Changed
<1> HIDE DEF told
<1>3. CASE ~Listed(told, d)
  BY <1>1, <1>2, <1>3
<1>4. CASE Listed(told, d)
  <2>0. Sound(told) /\ told \in UiType
    BY <1>1 DEF UiInv, Sound
  <2>1. /\ updated \in UiType /\ SameRows(told, updated)
        /\ \A i \in DOMAIN told.list : updated.list[i].unread = told.list[i].unread
        /\ updated.selected = told.selected /\ updated.calls = told.calls
        /\ updated.messages = told.messages /\ updated.active = told.active
        /\ updated.viewed = told.viewed /\ updated.rows = told.rows
        /\ updated.seen = told.seen /\ updated.overtaken = told.overtaken
    BY <1>4, <2>0, RowStatus
  <2> HIDE DEF updated
  <2>2. Sound(updated)
    BY <2>0, <2>1, SoundOf
  <2>3. SelectionOf(updated)
    BY <1>1, <2>1 DEF UiInv, SelectionOf, LastQueued, Queued
  <2>4. /\ DistinctOf(updated) /\ ShownIn(updated) = ShownIn(told) /\ Listed(updated, d)
        /\ DOMAIN updated.list = DOMAIN told.list
    BY <1>1, <1>4, <2>0, <2>1, SameShown DEF UiInv
  <2>5. Covered(updated)
    BY <1>1, <2>1, <2>4 DEF UiInv, Covered, CoveredAt, SameRows, Queued
  <2>6. Frame(u, updated, {d})
    <3>1. Frame(told, updated, {d})
      BY <2>1, FrameSame
    <3> QED BY <1>1, <3>1, FrameTrans
  <2>7. CASE told.selected # d
    BY <1>1, <1>2, <1>4, <2>1, <2>2, <2>3, <2>4, <2>5, <2>6, <2>7 DEF UiInv
  <2>8. CASE told.selected = d
    <3> DEFINE v == MessagesReaded(UpdateActiveDialog(t, updated, d, s), d)
    <3>1. CoveredBut(updated, d)
      BY <2>5 DEF Covered, CoveredBut
    <3>3. Changed(t, u, d, s) = v
      BY <1>2, <1>4, <2>8
    <3>a. v = MessagesReaded(UpdateActiveDialog(t, updated, d, s), d)
      OBVIOUS
    <3> HIDE DEF v
    <3>2. /\ UiInv(v) /\ Frame(updated, v, {d}) /\ ShownIn(v) = ShownIn(updated)
          /\ t # Work => v.active = updated.active
      <4>1. d \in Keys /\ DistinctOf(updated) /\ Listed(updated, d)
        BY <1>0, <2>4
      <4> QED BY <2>2, <2>3, <3>a, <3>1, <4>1, SelectedSound
    <3>4. Frame(u, v, {d})
      BY <2>6, <3>2, FrameTrans
    <3> QED BY <1>1, <2>1, <2>4, <3>2, <3>3, <3>4
  <2> QED BY <2>7, <2>8
<1> QED BY <1>3, <1>4

LEMMA RemovedSound ==
  ASSUME NEW t, NEW u, UiInv(u), NEW d \in Dialogs
  PROVE  LET v == Removed(t, u, d) IN
         /\ UiInv(v) /\ Frame(u, v, ShownIn(u) \cup {NoDialog}) /\ v.messages = u.messages
         /\ ShownIn(v) \subseteq ShownIn(u) \ {d}
         /\ t # Work => v.active = u.active
<1> DEFINE r == Row(u, d)
           list == RemoveAt(u.list, r)
           shorter == [u EXCEPT !.list = list]
           first == shorter.list[1]
           known == ShownIn(u) \cup {NoDialog}
<1>0. u \in UiType /\ u.list \in Seq(DialogInfo) /\ Len(u.list) \in Nat
      /\ DOMAIN u.list = 1 .. Len(u.list)
  BY UiFields, LenProperties DEF UiInv, Sound
<1>1. CASE ~Listed(u, d)
  <2>1. Removed(t, u, d) = u
    BY <1>1 DEF Removed
  <2>2. d \notin ShownIn(u)
    BY <1>1 DEF Listed, ShownIn
  <2> QED BY <2>1, <2>2, FrameSame
<1>2. CASE Listed(u, d)
  <2>1. r \in 1 .. Len(u.list) /\ u.list[r].dialog = d
    BY <1>0, <1>2, RowFound
  <2>2. /\ list \in Seq(DialogInfo) /\ Len(list) = Len(u.list) - 1
        /\ DOMAIN list = 1 .. Len(u.list) - 1
        /\ \A j \in 1 .. Len(u.list) - 1 : list[j] = IF j < r THEN u.list[j] ELSE u.list[j + 1]
    <3> HIDE DEF r
    <3>1. /\ list \in Seq(DialogInfo) /\ Len(list) = Len(u.list) - 1
          /\ \A j \in 1 .. Len(u.list) - 1 : list[j] = IF j < r THEN u.list[j] ELSE u.list[j + 1]
      BY <1>0, <2>1, RemoveAtFacts
    <3> HIDE DEF list
    <3> QED BY <3>1, LenProperties
  <2> HIDE DEF list, r
  <2>3. /\ shorter \in UiType /\ shorter.list = list
        /\ shorter.selected = u.selected /\ shorter.calls = u.calls
        /\ shorter.messages = u.messages /\ shorter.active = u.active
        /\ shorter.viewed = u.viewed /\ shorter.rows = u.rows /\ shorter.seen = u.seen
        /\ shorter.overtaken = u.overtaken
    BY <1>0, <2>2 DEF UiType
  <2> HIDE DEF shorter
  <2>4. Sound(shorter)
    BY <2>3, SoundOf DEF UiInv
  <2>5. SelectionOf(shorter)
    BY <2>3 DEF UiInv, SelectionOf, LastQueued, Queued
  <2>6. ASSUME NEW j \in 1 .. Len(u.list) - 1
        PROVE  \E k \in 1 .. Len(u.list) : k # r /\ list[j] = u.list[k]
    BY <1>0, <2>1, <2>2
  <2>7. DistinctOf(shorter)
    <3> SUFFICES ASSUME NEW i \in 1 .. Len(u.list) - 1, NEW j \in 1 .. Len(u.list) - 1,
                        list[i].dialog = list[j].dialog
                 PROVE  i = j
      BY <2>2, <2>3 DEF DistinctOf
    <3> DEFINE old(k) == IF k < r THEN k ELSE k + 1
    <3>1. old(i) \in 1 .. Len(u.list) /\ old(j) \in 1 .. Len(u.list)
      BY <1>0, <2>1
    <3>2. list[i] = u.list[old(i)] /\ list[j] = u.list[old(j)]
      BY <2>2
    <3>3. old(i) = old(j)
      <4> HIDE DEF old
      <4> QED BY <1>0, <3>1, <3>2 DEF UiInv, DistinctOf
    <3> QED BY <1>0, <2>1, <3>3
  <2>8. Covered(shorter)
    <3> SUFFICES ASSUME NEW j \in 1 .. Len(u.list) - 1 PROVE CoveredAt(shorter, j)
      BY <2>2, <2>3 DEF Covered
    <3>1. PICK k \in 1 .. Len(u.list) : list[j] = u.list[k]
      BY <2>6
    <3>2. CoveredAt(u, k)
      BY <1>0 DEF UiInv, Covered
    <3> QED BY <2>3, <3>1, <3>2 DEF CoveredAt, Queued
  <2>9. ShownIn(shorter) \subseteq ShownIn(u) \ {d}
    <3> SUFFICES ASSUME NEW j \in 1 .. Len(u.list) - 1
                 PROVE  list[j].dialog \in ShownIn(u) /\ list[j].dialog # d
      BY <2>2, <2>3 DEF ShownIn
    <3>1. PICK k \in 1 .. Len(u.list) : k # r /\ list[j] = u.list[k]
      BY <2>6
    <3>2. u.list[k].dialog # d
      BY <1>0, <2>1, <3>1 DEF UiInv, DistinctOf
    <3> QED BY <1>0, <3>1, <3>2 DEF ShownIn
  <2>10. Frame(u, shorter, known)
    BY <2>3, FrameSame
  <2>11. Removed(t, u, d) =
           IF u.selected # d THEN shorter
           ELSE IF shorter.list = <<>> THEN UpdateActiveDialog(t, shorter, NoDialog, "wait")
           ELSE MessagesReaded(UpdateActiveDialog(t, shorter, first.dialog, first.status),
                               first.dialog)
    BY <1>2 DEF Removed, shorter, list, r
  <2>12. CASE u.selected # d
    BY <2>3, <2>4, <2>5, <2>7, <2>8, <2>9, <2>10, <2>11, <2>12 DEF UiInv
  <2>13. CASE u.selected = d /\ shorter.list = <<>>
    <3> DEFINE v == UpdateActiveDialog(t, shorter, NoDialog, "wait")
    <3>1. NoDialog \in Keys /\ CoveredBut(shorter, NoDialog)
      BY <2>8 DEF Keys, Covered, CoveredBut
    <3>3. Removed(t, u, d) = v
      BY <2>11, <2>13
    <3>a. v = UpdateActiveDialog(t, shorter, NoDialog, "wait")
      OBVIOUS
    <3> HIDE DEF v
    <3>2. /\ Sound(v) /\ SelectionOf(v) /\ Covered(v) /\ Frame(shorter, v, {NoDialog})
          /\ v.messages = shorter.messages /\ v.list = shorter.list
          /\ t # Work => v.active = shorter.active
      BY <2>4, <2>5, <3>a, <3>1, UpdateActiveSound
    <3>4. DistinctOf(v) /\ ShownIn(v) = ShownIn(shorter)
      BY <2>7, <3>2 DEF DistinctOf, ShownIn
    <3>5. Frame(shorter, v, known)
      BY <3>2 DEF Frame
    <3>6. Frame(u, v, known)
      BY <2>10, <3>5, FrameTrans
    <3> QED BY <2>3, <2>9, <3>2, <3>3, <3>4, <3>6 DEF UiInv
  <2>14. CASE u.selected = d /\ shorter.list # <<>>
    <3> DEFINE k == first.dialog
               v == MessagesReaded(UpdateActiveDialog(t, shorter, k, first.status), k)
    <3>1. 1 \in DOMAIN shorter.list
      BY <2>3, <2>14, UiFields, EmptySeq, LenProperties
    <3>2. Listed(shorter, k) /\ k \in Keys /\ k \in ShownIn(shorter) /\ CoveredBut(shorter, k)
      BY <2>3, <2>8, <3>1, ListElements DEF Listed, ShownIn, Covered, CoveredBut
    <3>3. Removed(t, u, d) = v
      BY <2>11, <2>14
    <3> HIDE DEF k
    <3>a. v = MessagesReaded(UpdateActiveDialog(t, shorter, k, first.status), k)
      OBVIOUS
    <3> HIDE DEF v
    <3>4. /\ UiInv(v) /\ Frame(shorter, v, {k}) /\ v.messages = shorter.messages
          /\ ShownIn(v) = ShownIn(shorter)
          /\ t # Work => v.active = shorter.active
      BY <2>4, <2>5, <2>7, <3>a, <3>2, SelectedSound
    <3>5. Frame(shorter, v, known)
      BY <2>9, <3>2, <3>4 DEF Frame
    <3>6. Frame(u, v, known)
      BY <2>10, <3>5, FrameTrans
    <3> QED BY <2>3, <2>9, <3>3, <3>4, <3>6
  <2> QED BY <2>12, <2>13, <2>14
<1> QED BY <1>1, <1>2
-----------------------------------------------------------------------------
(* The event queues *)

\* Only what the selection rests on matters for it.
LEMMA SelectionSame ==
  ASSUME NEW u, SelectionOf(u), NEW v, v.selected = u.selected, v.overtaken = u.overtaken,
         v.active = u.active, v.calls = u.calls
  PROVE  SelectionOf(v)
  BY DEF SelectionOf, LastQueued, Queued

LEMMA AskSound ==
  ASSUME NEW u, UiInv(u), NEW op \in {"close", "remove", "send", "create"}, NEW d \in Keys,
         Call(op, d) \in Calls, NEW v, v = [u EXCEPT !.calls = Append(@, Call(op, d))]
  PROVE  UiInv(v) /\ Frame(u, v, {d}) /\ ShownIn(v) = ShownIn(u) /\ v.active = u.active
<1> DEFINE calls == Append(u.calls, Call(op, d))
<1>0. u \in UiType /\ u.calls \in Seq(Calls)
  BY UiFields DEF UiInv, Sound
<1>1. /\ calls \in Seq(Calls) /\ Len(calls) = Len(u.calls) + 1
      /\ \A i \in 1 .. Len(u.calls) : calls[i] = u.calls[i]
      /\ calls[Len(u.calls) + 1] = Call(op, d)
      /\ DOMAIN calls = 1 .. Len(u.calls) + 1 /\ DOMAIN u.calls = 1 .. Len(u.calls)
      /\ Len(u.calls) \in Nat
  BY <1>0, AppendProperties, LenProperties
<1>a. v = [u EXCEPT !.calls = calls]
  OBVIOUS
<1> HIDE DEF calls
<1>2. /\ v \in UiType /\ v.list = u.list /\ v.calls = calls
      /\ v.selected = u.selected /\ v.messages = u.messages /\ v.active = u.active
      /\ v.viewed = u.viewed /\ v.rows = u.rows /\ v.seen = u.seen
      /\ v.overtaken = u.overtaken
  BY <1>0, <1>1, <1>a DEF UiType
<1>3. Sound(v)
  BY <1>2, SoundOf DEF UiInv
<1>4. \A i \in DOMAIN calls :
        calls[i].op = "setActive" => i \in DOMAIN u.calls /\ calls[i] = u.calls[i]
  BY <1>1 DEF Call
<1>5. \A ks : Queued(v, "setActive", ks) <=> Queued(u, "setActive", ks)
  BY <1>1, <1>2, <1>4 DEF Queued
<1>6. \A k : LastQueued(u, k) => LastQueued(v, k)
  BY <1>1, <1>2, <1>4 DEF LastQueued
<1>7. SelectionOf(v)
  BY <1>2, <1>5, <1>6 DEF UiInv, SelectionOf
<1>8. Covered(v)
  BY <1>2, <1>5 DEF UiInv, Covered, CoveredAt
<1>9. Frame(u, v, {d})
  BY <1>1, <1>2 DEF Frame, Call
<1> QED BY <1>2, <1>3, <1>7, <1>8, <1>9 DEF UiInv, DistinctOf, ShownIn

LEMMA TakenFacts ==
  ASSUME NEW u, UiInv(u), u.calls # <<>>, NEW v, v = [u EXCEPT !.calls = Tail(@)]
  PROVE  /\ Sound(v) /\ DistinctOf(v) /\ Frame(u, v, {}) /\ ShownIn(v) = ShownIn(u)
         /\ v.active = u.active /\ v.list = u.list /\ v.selected = u.selected
         /\ v.messages = u.messages /\ v.overtaken = u.overtaken /\ v.seen = u.seen
         /\ Head(u.calls).op # "setActive" => UiInv(v)
         /\ Head(u.calls) \in Calls /\ 1 \in DOMAIN u.calls /\ Head(u.calls) = u.calls[1]
         /\ \A ks : Queued(u, "setActive", ks) =>
              Queued(v, "setActive", ks) \/ Head(u.calls).dialog \in ks
         /\ \A k : LastQueued(u, k) =>
              \/ LastQueued(v, k)
              \/ Head(u.calls).dialog = k /\ ~Queued(v, "setActive", Keys)
         /\ \A ks : Queued(v, "setActive", ks) => Queued(u, "setActive", ks)
<1> DEFINE calls == Tail(u.calls)
<1>0. u \in UiType /\ u.calls \in Seq(Calls)
  BY UiFields DEF UiInv, Sound
<1>1. /\ calls \in Seq(Calls) /\ Len(calls) = Len(u.calls) - 1
      /\ \A i \in 1 .. Len(u.calls) - 1 : calls[i] = u.calls[i + 1]
      /\ DOMAIN calls = 1 .. Len(u.calls) - 1 /\ DOMAIN u.calls = 1 .. Len(u.calls)
      /\ Len(u.calls) \in Nat \ {0}
      /\ Head(u.calls) \in Calls /\ Head(u.calls) = u.calls[1]
  <2>1. /\ calls \in Seq(Calls) /\ Len(calls) = Len(u.calls) - 1
        /\ \A i \in 1 .. Len(calls) : calls[i] = u.calls[i + 1]
        /\ Head(u.calls) \in Calls
    BY <1>0, HeadTailProperties
  <2>2. Len(u.calls) \in Nat \ {0} /\ DOMAIN u.calls = 1 .. Len(u.calls)
    BY <1>0, EmptySeq, LenProperties
  <2> HIDE DEF calls
  <2>3. DOMAIN calls = 1 .. Len(calls)
    BY <2>1, LenProperties
  <2> QED BY <1>0, <2>1, <2>2, <2>3
<1>a. v = [u EXCEPT !.calls = calls]
  OBVIOUS
<1> HIDE DEF calls
<1>2. /\ v \in UiType /\ v.list = u.list /\ v.calls = calls
      /\ v.selected = u.selected /\ v.messages = u.messages /\ v.active = u.active
      /\ v.viewed = u.viewed /\ v.rows = u.rows /\ v.seen = u.seen
      /\ v.overtaken = u.overtaken
  BY <1>0, <1>1, <1>a DEF UiType
<1>3. Sound(v)
  BY <1>2, SoundOf DEF UiInv
<1>4. \A i \in DOMAIN u.calls : i = 1 \/ (i - 1 \in DOMAIN calls /\ calls[i - 1] = u.calls[i])
  BY <1>1
<1>5. \A i \in DOMAIN calls : i + 1 \in DOMAIN u.calls /\ calls[i] = u.calls[i + 1]
  BY <1>1
<1>6. ASSUME NEW ks
      PROVE  /\ Queued(v, "setActive", ks) => Queued(u, "setActive", ks)
             /\ Queued(u, "setActive", ks) =>
                  \/ Queued(v, "setActive", ks)
                  \/ Head(u.calls).dialog \in ks /\ Head(u.calls).op = "setActive"
  <2>1. ASSUME Queued(v, "setActive", ks) PROVE Queued(u, "setActive", ks)
    BY <1>2, <1>5, <2>1 DEF Queued
  <2>2. ASSUME Queued(u, "setActive", ks)
        PROVE  \/ Queued(v, "setActive", ks)
               \/ Head(u.calls).dialog \in ks /\ Head(u.calls).op = "setActive"
    <3>1. PICK i \in DOMAIN u.calls : u.calls[i].op = "setActive" /\ u.calls[i].dialog \in ks
      BY <2>2 DEF Queued
    <3>2. CASE i = 1
      BY <1>1, <3>1, <3>2
    <3>3. CASE i # 1
      BY <1>2, <1>4, <3>1, <3>3 DEF Queued
    <3> QED BY <3>2, <3>3
  <2> QED BY <2>1, <2>2
<1>7. ASSUME NEW k, LastQueued(u, k)
      PROVE  \/ LastQueued(v, k)
             \/ /\ Head(u.calls).dialog = k /\ Head(u.calls).op = "setActive"
                /\ ~Queued(v, "setActive", Keys)
  <2>1. PICK i \in DOMAIN u.calls :
          /\ u.calls[i].op = "setActive" /\ u.calls[i].dialog = k
          /\ \A j \in DOMAIN u.calls : j > i => u.calls[j].op # "setActive"
    BY <1>7 DEF LastQueued
  <2>2. CASE i = 1
    <3>1. \A j \in DOMAIN calls : calls[j].op # "setActive"
      BY <1>1, <1>5, <2>1, <2>2
    <3> QED BY <1>1, <1>2, <2>1, <2>2, <3>1 DEF Queued
  <2>3. CASE i # 1
    <3>1. i - 1 \in DOMAIN calls /\ calls[i - 1] = u.calls[i]
      BY <1>4, <2>3
    <3>2. \A j \in DOMAIN calls : j > i - 1 => calls[j].op # "setActive"
      BY <1>1, <1>5, <2>1
    <3> QED BY <1>2, <2>1, <3>1, <3>2 DEF LastQueued
  <2> QED BY <2>2, <2>3
<1>8. Frame(u, v, {})
  BY <1>1, <1>2, <1>5 DEF Frame
<1>9. DistinctOf(v) /\ ShownIn(v) = ShownIn(u)
  BY <1>2 DEF UiInv, DistinctOf, ShownIn
<1>10. ASSUME Head(u.calls).op # "setActive" PROVE UiInv(v)
  <2>1. SelectionOf(v)
    BY <1>2, <1>6, <1>7, <1>10 DEF UiInv, SelectionOf
  <2>2. Covered(v)
    BY <1>2, <1>6, <1>10 DEF UiInv, Covered, CoveredAt
  <2> QED BY <1>3, <1>9, <2>1, <2>2 DEF UiInv
<1>11. 1 \in DOMAIN u.calls
  BY <1>1
<1>12. /\ \A ks : Queued(u, "setActive", ks) =>
              Queued(v, "setActive", ks) \/ Head(u.calls).dialog \in ks
       /\ \A ks : Queued(v, "setActive", ks) => Queued(u, "setActive", ks)
  BY <1>6
<1>13. \A k : LastQueued(u, k) =>
         \/ LastQueued(v, k)
         \/ Head(u.calls).dialog = k /\ ~Queued(v, "setActive", Keys)
  BY <1>7
<1>14. Head(u.calls) \in Calls /\ Head(u.calls) = u.calls[1]
  BY <1>1
<1> QED BY <1>2, <1>3, <1>8, <1>9, <1>10, <1>11, <1>12, <1>13, <1>14
-----------------------------------------------------------------------------
(* The actions *)

\* A dialog that is known stays known; what an action brings in is known.
LEMMA KnownStep ==
  ASSUME KnownInv, NEW ds, Frame(ui, ui', ds),
         \A d \in Dialogs : status'[d] = "none" => status[d] = "none" /\ d \notin ds,
         ds \subseteq Keys,
         \A d \in ShownIn(ui') : Stored(d)',
         Known(work.dialog)', Known(receiving)',
         ui.active \in Keys, \A i \in DOMAIN ui.calls : ui.calls[i].dialog \in Keys
  PROVE  KnownInv'
<1>1. \A d \in Keys : Known(d) => Known(d)'
  BY DEF Known, Keys
<1>2. \A d \in ds : Known(d)'
  BY DEF Known, Keys
<1>3. Known(ui.active)'
  <2>1. ui.active' = ui'.active /\ (ui'.active = ui.active \/ ui'.active \in ds)
    BY DEF Frame
  <2>2. CASE ui'.active = ui.active
    BY <1>1, <2>2 DEF KnownInv, Known
  <2>3. CASE ui'.active \in ds
    BY <1>2, <2>3 DEF Known
  <2> QED BY <2>1, <2>2, <2>3
<1>4. \A i \in DOMAIN ui'.calls : Known(ui.calls[i].dialog)'
  <2> SUFFICES ASSUME NEW i \in DOMAIN ui'.calls PROVE Known(ui.calls[i].dialog)'
    OBVIOUS
  <2>1. CASE ui'.calls[i].dialog \in ds
    BY <1>2, <2>1 DEF Known
  <2>2. CASE \E j \in DOMAIN ui.calls : ui'.calls[i] = ui.calls[j]
    BY <1>1, <2>2 DEF KnownInv, Known
  <2> QED BY <2>1, <2>2 DEF Frame
<1>5. \A d \in Dialogs : status'[d] = "none" => ui'.messages[d] = <<>>
  BY DEF KnownInv, Frame, Keys
<1> QED BY <1>3, <1>4, <1>5 DEF KnownInv

LEMMA UiTypes ==
  ASSUME IInv
  PROVE  /\ ui \in UiType /\ UiInv(ui) /\ ui.active \in Keys
         /\ \A i \in DOMAIN ui.calls : ui.calls[i].dialog \in Keys
         /\ \A d \in ShownIn(ui) : d \in Dialogs /\ Stored(d) /\ Known(d)
         /\ Known(NoDialog)
<1>1. ui \in UiType /\ UiInv(ui) /\ ui.active \in Keys /\ ui.calls \in Seq(Calls)
  BY UiFields DEF IInv, TypeOK
<1>2. ASSUME NEW i \in DOMAIN ui.calls PROVE ui.calls[i].dialog \in Keys
  <2>1. ui.calls[i] \in Calls
    BY <1>1, ElementOfSeq, LenProperties
  <2> QED BY <2>1 DEF Calls, Keys
<1>3. ASSUME NEW d \in ShownIn(ui) PROVE d \in Dialogs /\ Stored(d) /\ Known(d)
  BY <1>1, <1>3, ListElements DEF ShownIn, IInv, KnownInv, Stored, Known, Statuses
<1> QED BY <1>1, <1>2, <1>3 DEF Known

\* Any action.
LEMMA UiStep ==
  ASSUME IInv, NEW ds, UiInv(ui'), Frame(ui, ui', ds), ds \subseteq Keys,
         \A d \in Dialogs : status'[d] = "none" => status[d] = "none" /\ d \notin ds,
         \A d \in ShownIn(ui') : Stored(d)',
         status' \in [Dialogs -> Statuses \cup {"none", "removed"}],
         work' \in {Idle} \cup [at : {"send", "remove"}, dialog : Dialogs],
         Known(work.dialog)', SendingInv',
         receiving' \in Keys, Known(receiving)', left' \in 0 .. Budget
  PROVE  IInv'
<1>1. TypeOK'
  <2>1. ui' \in UiType
    BY DEF UiInv, Sound
  <2> QED BY <2>1 DEF TypeOK
<1>2. KnownInv'
  BY UiTypes, KnownStep DEF IInv
<1> QED BY <1>1, <1>2 DEF IInv

\* An action of the user interface thread or a receive thread.
LEMMA OtherThreadStep ==
  ASSUME IInv, NEW ds, UiInv(ui'), Frame(ui, ui', ds), ds \subseteq Keys,
         \A d \in Dialogs : status'[d] = "none" => status[d] = "none" /\ d \notin ds,
         \A d \in ShownIn(ui') : Stored(d)',
         status' \in [Dialogs -> Statuses \cup {"none", "removed"}],
         ui'.active = ui.active, UNCHANGED work,
         receiving' \in Keys, Known(receiving)', left' \in 0 .. Budget
  PROVE  IInv'
<1>1. work \in {Idle} \cup [at : {"send", "remove"}, dialog : Dialogs] /\ SendingInv'
  BY DEF IInv, TypeOK, SendingInv
<1>2. Known(work.dialog)'
  <2>1. work.dialog \in Keys
    BY <1>1 DEF Idle, Keys
  <2> QED BY <2>1 DEF IInv, KnownInv, Known, Keys
<1> QED BY <1>1, <1>2, UiStep

LEMMA StartTypes == ASSUME IInv, Start PROVE left' \in 0 .. Budget
  BY ViewAssumption DEF IInv, TypeOK, Start

LEMMA RowWasSelectedStep ==
  ASSUME IInv, NEW i \in DOMAIN ui.list, RowWasSelected(i) PROVE IInv'
<1> DEFINE d == ui.list[i].dialog
           s == ui.list[i].status
           u == MessagesReaded(ui, d)
<1>0. d \in Dialogs /\ d \in Keys /\ d \in ShownIn(ui) /\ Listed(ui, d) /\ Known(d)
  BY UiTypes, ListElements DEF ShownIn, Listed
<1>1. ui' = UpdateActiveDialog(Gui, u, d, s) /\ UNCHANGED <<status, work, receiving>>
  BY DEF RowWasSelected
<1>2. left' \in 0 .. Budget
  BY StartTypes DEF RowWasSelected
<1>3. /\ Sound(ui) /\ SelectionOf(ui) /\ DistinctOf(ui) /\ CoveredBut(ui, d)
  BY UiTypes DEF UiInv, Covered, CoveredBut
<1> HIDE DEF d, s
<1>4. /\ Sound(u) /\ SelectionOf(u) /\ DistinctOf(u) /\ CoveredBut(u, d)
      /\ ShownIn(u) = ShownIn(ui)
      /\ u.calls = ui.calls /\ u.messages = ui.messages /\ u.active = ui.active
  BY <1>0, <1>3, ReadedSound, Zenon
<1> HIDE DEF u
<1>5. Gui # Work
  BY ViewAssumption
<1>6. /\ Sound(ui') /\ SelectionOf(ui') /\ Covered(ui') /\ Frame(u, ui', {d})
      /\ ui'.list = u.list /\ ui'.active = u.active
  BY <1>0, <1>1, <1>4, <1>5, UpdateActiveSound
<1>7. UiInv(ui') /\ ShownIn(ui') = ShownIn(ui)
  <2>1. DistinctOf(ui') /\ ShownIn(ui') = ShownIn(u)
    BY <1>4, <1>6 DEF DistinctOf, ShownIn
  <2> QED BY <1>4, <1>6, <2>1 DEF UiInv
<1>8. Frame(ui, ui', {d})
  <2>1. Frame(ui, u, {d})
    BY <1>4, FrameSame
  <2> QED BY <1>6, <2>1, FrameTrans
<1>9. \A k \in ShownIn(ui') : Stored(k)'
  BY <1>1, <1>7, UiTypes DEF Stored
<1>10. /\ status' \in [Dialogs -> Statuses \cup {"none", "removed"}]
       /\ receiving' \in Keys /\ Known(receiving)'
  BY <1>1 DEF IInv, TypeOK, KnownInv, Known
<1>11. \A k \in Dialogs : status'[k] = "none" => status[k] = "none" /\ k \notin {d}
  BY <1>0, <1>1, ViewAssumption DEF Known
<1> QED
  BY <1>0, <1>1, <1>2, <1>4, <1>6, <1>7, <1>8, <1>9, <1>10, <1>11, OtherThreadStep

LEMMA AskStep ==
  ASSUME IInv, NEW op \in {"close", "remove", "send", "create"}, NEW d \in Keys, Known(d),
         Call(op, d) \in Calls, Ask(op, d)
  PROVE  IInv'
<1>1. /\ ui' = [ui EXCEPT !.calls = Append(@, Call(op, d))]
      /\ UNCHANGED <<status, work, receiving>> /\ left' \in 0 .. Budget
  BY StartTypes DEF Ask
<1>2. UiInv(ui') /\ Frame(ui, ui', {d}) /\ ShownIn(ui') = ShownIn(ui) /\ ui'.active = ui.active
  <2>1. UiInv(ui)
    BY UiTypes
  <2> QED BY <1>1, <2>1, AskSound
<1>3. \A k \in ShownIn(ui') : Stored(k)'
  BY <1>1, <1>2, UiTypes DEF Stored
<1>4. /\ status' \in [Dialogs -> Statuses \cup {"none", "removed"}]
      /\ receiving' \in Keys /\ Known(receiving)'
  BY <1>1 DEF IInv, TypeOK, KnownInv, Known
<1>5. \A k \in Dialogs : status'[k] = "none" => status[k] = "none" /\ k \notin {d}
  BY <1>1, ViewAssumption DEF Known
<1> QED BY <1>1, <1>2, <1>3, <1>4, <1>5, OtherThreadStep

LEMMA AskSteps == ASSUME IInv, TypeText \/ UseMenu \/ StartNewDialog PROVE IInv'
<1>1. NoDialog \in Keys /\ Known(NoDialog) /\ Call("send", NoDialog) \in Calls
      /\ Call("create", NoDialog) \in Calls
  BY DEF Keys, Known, Call, Calls
<1>2. ASSUME NEW i \in DOMAIN ui.list, NEW op \in {"close", "remove"}, Ask(op, ui.list[i].dialog)
      PROVE  IInv'
  <2> DEFINE d == ui.list[i].dialog
  <2>1. d \in Keys /\ d \in Dialogs /\ Known(d)
    BY UiTypes, ListElements DEF ShownIn
  <2>2. Call(op, d) \in Calls
    BY <2>1 DEF Call, Calls
  <2> QED BY <1>2, <2>1, <2>2, AskStep
<1> QED BY <1>1, <1>2, AskStep DEF TypeText, UseMenu, StartNewDialog

LEMMA WindowEventStep == ASSUME IInv, WindowEvent PROVE IInv'
<1>0. ui \in UiType /\ ui.window \in Seq(BOOLEAN) /\ UiInv(ui)
  BY UiTypes, UiFields
<1>1. Head(ui.window) \in BOOLEAN /\ Tail(ui.window) \in Seq(BOOLEAN)
  BY <1>0, HeadTailProperties DEF WindowEvent
<1>2. /\ ui' \in UiType /\ ui'.list = ui.list /\ ui'.calls = ui.calls
      /\ ui'.selected = ui.selected /\ ui'.messages = ui.messages /\ ui'.active = ui.active
      /\ ui'.viewed = ui.viewed /\ ui'.rows = ui.rows /\ ui'.seen = ui.seen
      /\ ui'.overtaken = ui.overtaken
  BY <1>0, <1>1 DEF WindowEvent, UiType
<1>3. Sound(ui')
  BY <1>0, <1>2, SoundOf DEF UiInv
<1>4. SelectionOf(ui')
  BY <1>0, <1>2, SelectionSame DEF UiInv
<1>5. UiInv(ui') /\ ShownIn(ui') = ShownIn(ui)
  BY <1>0, <1>2, <1>3, <1>4 DEF UiInv, DistinctOf, Covered, CoveredAt, Queued, ShownIn
<1>6. Frame(ui, ui', {})
  BY <1>2, FrameSame
<1>7. UNCHANGED <<status, work, receiving, left>>
  BY DEF WindowEvent
<1>8. \A k \in ShownIn(ui') : Stored(k)'
  BY <1>5, <1>7, UiTypes DEF Stored
<1>9. /\ status' \in [Dialogs -> Statuses \cup {"none", "removed"}]
      /\ receiving' \in Keys /\ Known(receiving)' /\ left' \in 0 .. Budget
  BY <1>7 DEF IInv, TypeOK, KnownInv, Known
<1>10. \A k \in Dialogs : status'[k] = "none" => status[k] = "none" /\ k \notin {}
  BY <1>7
<1> QED BY <1>2, <1>5, <1>6, <1>7, <1>8, <1>9, <1>10, OtherThreadStep

\* A text that is added to its dialog.
LEMMA TextSound ==
  ASSUME NEW u, UiInv(u), NEW d \in Keys, NEW v, v = AddMessage(u, d, d)
  PROVE  UiInv(v) /\ Frame(u, v, {d}) /\ ShownIn(v) = ShownIn(u) /\ v.active = u.active
<1>0. u \in UiType /\ u.messages \in [Keys -> Seq(Text)]
  BY UiFields DEF UiInv, Sound
<1>1. /\ Sound(v) /\ SameRows(u, v) /\ Covered(v)
      /\ v.messages = [u.messages EXCEPT ![d] = Append(@, d)]
      /\ v.selected = u.selected /\ v.calls = u.calls /\ v.active = u.active
      /\ v.overtaken = u.overtaken
  BY AddMessageSound DEF UiInv
<1>2. ShownIn(v) = ShownIn(u) /\ DistinctOf(v)
  BY <1>0, <1>1, SameShown DEF UiInv, Sound
<1>3. SelectionOf(v)
  BY <1>1, SelectionSame DEF UiInv
<1>4. Frame(u, v, {d})
  BY <1>0, <1>1, FrameSame
<1> QED BY <1>1, <1>2, <1>3, <1>4 DEF UiInv

LEMMA RemoveContactStep == ASSUME IInv, NEW d \in Dialogs, RemoveContact(d) PROVE IInv'
<1> DEFINE ds == ShownIn(ui) \cup {NoDialog}
<1>1. /\ Stored(d) /\ status' = [status EXCEPT ![d] = "removed"]
      /\ ui' = Removed(Gui, ui, d) /\ UNCHANGED <<work, receiving>>
      /\ left' \in 0 .. Budget
  BY StartTypes DEF RemoveContact
<1>2. Gui # Work /\ UiInv(ui)
  BY ViewAssumption, UiTypes
<1>3. /\ UiInv(ui') /\ Frame(ui, ui', ds) /\ ShownIn(ui') \subseteq ShownIn(ui) \ {d}
      /\ ui'.active = ui.active
  BY <1>1, <1>2, RemovedSound
<1>4. status \in [Dialogs -> Statuses \cup {"none", "removed"}]
  BY DEF IInv, TypeOK
<1>5. /\ \A k \in Dialogs : status'[k] = "none" => status[k] = "none" /\ k \notin ds
      /\ \A k \in ShownIn(ui') : Stored(k)'
  BY <1>1, <1>3, <1>4, UiTypes, ViewAssumption DEF Stored, Statuses
<1>6. ds \subseteq Keys
  BY UiTypes DEF Keys
<1>7. receiving' \in Keys /\ Known(receiving)'
  <2>1. receiving \in Keys
    BY DEF IInv, TypeOK
  <2> QED BY <1>1, <1>4, <2>1 DEF IInv, KnownInv, Known, Keys
<1>8. status' \in [Dialogs -> Statuses \cup {"none", "removed"}]
  BY <1>1, <1>4
<1> QED BY <1>1, <1>3, <1>5, <1>6, <1>7, <1>8, OtherThreadStep

\* A receive thread, or the timer, puts a dialog into a status.
LEMMA ChannelStep ==
  ASSUME IInv, NEW d \in Dialogs, NEW s \in Statuses, status' = [status EXCEPT ![d] = s],
         UiInv(ui'), Frame(ui, ui', {d}), ShownIn(ui') \subseteq ShownIn(ui) \cup {d},
         ui'.active = ui.active, UNCHANGED work, receiving' \in {receiving, NoDialog},
         left' \in 0 .. Budget
  PROVE  IInv'
<1>1. status \in [Dialogs -> Statuses \cup {"none", "removed"}] /\ receiving \in Keys
  BY DEF IInv, TypeOK
<1>2. \A k \in Dialogs : status'[k] = "none" => status[k] = "none" /\ k \notin {d}
  BY <1>1 DEF Statuses
<1>3. \A k \in ShownIn(ui') : Stored(k)'
  BY <1>1, UiTypes DEF Stored
<1>4. receiving' \in Keys /\ Known(receiving)'
  BY <1>1, <1>2 DEF IInv, KnownInv, Known, Keys
<1>5. status' \in [Dialogs -> Statuses \cup {"none", "removed"}] /\ {d} \subseteq Keys
  BY <1>1 DEF Keys
<1> QED BY <1>2, <1>3, <1>4, <1>5, OtherThreadStep

LEMMA NewDialogIsNew ==
  ASSUME IInv, NEW d \in Dialogs, status[d] = "none"
  PROVE  Untouched(ui, d)
<1>1. d \notin ShownIn(ui)
  BY UiTypes DEF Stored, Statuses
<1> QED BY <1>1 DEF Untouched, Listed, ShownIn, IInv, KnownInv

LEMMA OfferDialogStep == ASSUME IInv, NEW d \in Dialogs, OfferDialog(d) PROVE IInv'
<1>1. /\ status[d] = "none" /\ status' = [status EXCEPT ![d] = "wait"]
      /\ ui' = Added(Channel, ui, d, "wait") /\ UNCHANGED <<work, receiving>>
      /\ left' \in 0 .. Budget
  BY StartTypes DEF OfferDialog
<1>2. UiInv(ui) /\ Untouched(ui, d)
  BY <1>1, UiTypes, NewDialogIsNew
<1>3. "wait" \in Statuses /\ Channel # Work
  BY ViewAssumption DEF Statuses
<1>4. /\ UiInv(ui') /\ Frame(ui, ui', {d}) /\ ShownIn(ui') = ShownIn(ui) \cup {d}
      /\ ui'.active = ui.active
  <2>1. ui' = Added(Channel, ui, d, "wait")
    BY <1>1
  <2>2. Lists(Channel, ui, ui', d)
    BY <1>2, <1>3, <2>1, AddedSound
  <2> QED BY <1>3, <2>2 DEF Lists
<1> QED BY <1>1, <1>3, <1>4, ChannelStep

LEMMA SaveDialogStep ==
  ASSUME IInv, NEW d \in Dialogs, NEW s \in Statuses, SaveDialog(d, s) PROVE IInv'
<1>1. /\ status' = [status EXCEPT ![d] = s]
      /\ ui' = Changed(Channel, ui, d, s) /\ UNCHANGED <<work, receiving>>
      /\ left' \in 0 .. Budget
  BY StartTypes DEF SaveDialog
<1>2. UiInv(ui) /\ Channel # Work
  BY UiTypes, ViewAssumption
<1>3. /\ UiInv(ui') /\ Frame(ui, ui', {d}) /\ ShownIn(ui') = ShownIn(ui)
      /\ ui'.active = ui.active
  BY <1>1, <1>2, ChangedSound
<1> QED BY <1>1, <1>3, ChannelStep

LEMMA ReceiveTextStep == ASSUME IInv, NEW d \in Dialogs, ReceiveText(d) PROVE IInv'
<1>1. Stored(d) /\ receiving' = d /\ UNCHANGED <<status, ui, work>> /\ left' \in 0 .. Budget
  BY StartTypes DEF ReceiveText
<1>2. receiving' \in Keys /\ Known(receiving)'
  BY <1>1 DEF Keys, Known, Stored, Statuses
<1>3. TypeOK'
  BY <1>1, <1>2 DEF IInv, TypeOK
<1>4. SendingInv' /\ UiInv(ui')
  BY <1>1 DEF IInv, SendingInv
<1>5. KnownInv'
  BY <1>1, <1>2 DEF IInv, KnownInv, Known, Stored
<1> QED BY <1>3, <1>4, <1>5 DEF IInv

LEMMA TextSteps == ASSUME IInv, AddText \/ AbortOnException PROVE IInv'
<1> DEFINE d == receiving
           told == AddMessage(ui, d, d)
<1>1. /\ d \in Dialogs /\ d \in Keys /\ receiving' = NoDialog /\ UNCHANGED <<work, left>>
      /\ left' \in 0 .. Budget /\ status \in [Dialogs -> Statuses \cup {"none", "removed"}]
  BY DEF AddText, AbortOnException, IInv, TypeOK, Keys
<1>2. UiInv(told) /\ Frame(ui, told, {d}) /\ ShownIn(told) = ShownIn(ui) /\ told.active = ui.active
  BY <1>1, UiTypes, TextSound
<1>3. CASE ui' = told /\ UNCHANGED status
  <2>1. \A k \in Dialogs : status'[k] = "none" => status[k] = "none" /\ k \notin {d}
    BY <1>1, <1>3, ViewAssumption DEF IInv, KnownInv, Known
  <2>2. /\ \A k \in ShownIn(ui') : Stored(k)'
        /\ {d} \subseteq Keys /\ receiving' \in Keys /\ Known(receiving)'
        /\ status' \in [Dialogs -> Statuses \cup {"none", "removed"}]
    BY <1>1, <1>2, <1>3, UiTypes DEF Stored, Keys, Known
  <2> QED BY <1>1, <1>2, <1>3, <2>1, <2>2, OtherThreadStep
<1>4. CASE ui' = Changed(Channel, told, d, "ended") /\ status' = [status EXCEPT ![d] = "ended"]
  <2> HIDE DEF told, d
  <2>1. "ended" \in Statuses /\ Channel # Work
    BY ViewAssumption DEF Statuses
  <2>2. /\ UiInv(ui') /\ Frame(told, ui', {d}) /\ ShownIn(ui') = ShownIn(told)
        /\ ui'.active = told.active
    BY <1>1, <1>2, <1>4, <2>1, ChangedSound
  <2>3. Frame(ui, ui', {d})
    BY <1>2, <2>2, FrameTrans
  <2> QED BY <1>1, <1>2, <1>4, <2>1, <2>2, <2>3, ChannelStep
<1> QED BY <1>3, <1>4 DEF AddText, AbortOnException

\* The work thread takes a call.
LEMMA WorkStep ==
  ASSUME IInv, NEW d \in Keys, UiInv(ui'), Frame(ui, ui', {d}),
         \A k \in Dialogs : status'[k] = "none" => status[k] = "none" /\ k # d,
         \A k \in ShownIn(ui') : Stored(k)',
         status' \in [Dialogs -> Statuses \cup {"none", "removed"}],
         work' \in {Idle} \cup [at : {"send", "remove"}, dialog : {d} \cap Dialogs], SendingInv',
         UNCHANGED <<receiving, left>>
  PROVE  IInv'
<1>1. \A k \in Keys : Known(k) => Known(k)'
  BY DEF Known, Keys
<1>2. Known(d)'
  BY DEF Known, Keys
<1>3. work' \in {Idle} \cup [at : {"send", "remove"}, dialog : Dialogs] /\ Known(work.dialog)'
  <2>1. CASE work' = Idle
    BY <2>1 DEF Idle, Known
  <2>2. CASE work' \in [at : {"send", "remove"}, dialog : {d} \cap Dialogs]
    <3>1. work'.dialog = d
      BY <2>2
    <3> QED BY <1>2, <2>2, <3>1 DEF Known
  <2> QED BY <2>1, <2>2
<1>4. receiving' \in Keys /\ Known(receiving)' /\ left' \in 0 .. Budget
  BY <1>1 DEF IInv, TypeOK, KnownInv, Known
<1> QED BY <1>3, <1>4, UiStep

\* What is taken from the queue.
LEMMA TakenStep ==
  ASSUME IInv, NEW op, Take(op)
  PROVE  /\ Sound(Taken) /\ DistinctOf(Taken) /\ Frame(ui, Taken, {})
         /\ ShownIn(Taken) = ShownIn(ui) /\ Taken.active = ui.active
         /\ op # "setActive" => UiInv(Taken)
         /\ First \in Keys /\ Known(First)
         /\ op \in {"close", "remove"} => First \in Dialogs
         /\ work = Idle /\ UNCHANGED <<receiving, left>>
         /\ status \in [Dialogs -> Statuses \cup {"none", "removed"}]
<1>1. /\ work = Idle /\ ui.calls # <<>> /\ Head(ui.calls).op = op
      /\ UNCHANGED <<receiving, left>>
  BY DEF Take
<1>2. UiInv(ui)
  BY UiTypes
<1>3. Taken = [ui EXCEPT !.calls = Tail(@)]
  BY DEF Taken
<1>4. /\ Sound(Taken) /\ DistinctOf(Taken) /\ Frame(ui, Taken, {})
      /\ ShownIn(Taken) = ShownIn(ui) /\ Taken.active = ui.active
      /\ Head(ui.calls).op # "setActive" => UiInv(Taken)
      /\ Head(ui.calls) \in Calls /\ 1 \in DOMAIN ui.calls /\ Head(ui.calls) = ui.calls[1]
  BY <1>1, <1>2, <1>3, TakenFacts
<1>5. First \in Keys /\ Known(First) /\ (op \in {"close", "remove"} => First \in Dialogs)
  BY <1>1, <1>4 DEF First, Calls, Keys, IInv, KnownInv
<1>6. status \in [Dialogs -> Statuses \cup {"none", "removed"}]
  BY DEF IInv, TypeOK
<1> QED BY <1>1, <1>4, <1>5, <1>6

LEMMA FrameMore ==
  ASSUME NEW u, NEW v, NEW w, NEW d, Frame(u, v, {}), Frame(v, w, {d})
  PROVE  Frame(u, w, {d})
  BY DEF Frame

LEMMA WrapperSetActiveStep == ASSUME IInv, WrapperSetActive PROVE IInv'
<1> DEFINE v == SetActiveDialog(Taken, First)
<1>1. /\ Sound(Taken) /\ DistinctOf(Taken) /\ Frame(ui, Taken, {})
      /\ ShownIn(Taken) = ShownIn(ui) /\ First \in Keys /\ Known(First)
      /\ UNCHANGED <<receiving, left, status, work>> /\ ui' = v
      /\ work = Idle /\ status \in [Dialogs -> Statuses \cup {"none", "removed"}]
  BY TakenStep DEF WrapperSetActive
<1>2. /\ Taken.list = ui.list /\ Taken.selected = ui.selected /\ Taken.seen = ui.seen
      /\ Taken.messages = ui.messages /\ Taken.overtaken = ui.overtaken
      /\ \A ks : Queued(ui, "setActive", ks) => Queued(Taken, "setActive", ks) \/ First \in ks
      /\ \A k : LastQueued(ui, k) =>
           \/ LastQueued(Taken, k)
           \/ First = k /\ ~Queued(Taken, "setActive", Keys)
  <2>1. ui.calls # <<>> /\ UiInv(ui) /\ Taken = [ui EXCEPT !.calls = Tail(@)]
    BY UiTypes DEF WrapperSetActive, Take, Taken
  <2> HIDE DEF v
  <2> QED BY <2>1, TakenFacts DEF First
<1>3. Queued(ui, "setActive", Keys)
  <2>1. ui.calls # <<>> /\ Head(ui.calls).op = "setActive" /\ UiInv(ui)
    BY UiTypes DEF WrapperSetActive, Take
  <2>2. 1 \in DOMAIN ui.calls /\ Head(ui.calls) = ui.calls[1]
    BY <2>1, TakenFacts
  <2> QED BY <1>1, <2>1, <2>2 DEF Queued, First
<1> HIDE DEF Taken, First
<1>4. /\ Sound(v) /\ v.active = First
      /\ v.messages = Taken.messages /\ v.list = Taken.list /\ v.selected = Taken.selected
      /\ v.calls = Taken.calls /\ v.overtaken = Taken.overtaken
      /\ \A x \in Keys : v.seen[x] >= Taken.seen[x]
      /\ First # NoDialog => v.seen[First] = Len(v.messages[First])
  BY <1>1, SetActiveSound
<1> HIDE DEF v
<1>5. SelectionOf(v)
  <2>1. SUFFICES ASSUME v.selected \notin v.overtaken
                 PROVE  IF Queued(v, "setActive", Keys) THEN LastQueued(v, v.selected)
                        ELSE v.active = v.selected
    BY DEF SelectionOf
  <2>2. LastQueued(ui, ui.selected) /\ v.selected = ui.selected
    BY <1>2, <1>3, <1>4, <2>1, UiTypes DEF UiInv, SelectionOf
  <2>3. CASE LastQueued(Taken, ui.selected)
    <3>1. ui.selected \in Keys
      BY UiTypes, UiFields
    <3>2. LastQueued(v, v.selected) /\ Queued(v, "setActive", Keys)
      BY <1>4, <2>2, <2>3, <3>1 DEF LastQueued, Queued
    <3> QED BY <3>2
  <2>4. CASE First = ui.selected /\ ~Queued(Taken, "setActive", Keys)
    <3>1. ~Queued(v, "setActive", Keys)
      BY <1>4, <2>4 DEF Queued
    <3> QED BY <1>4, <2>2, <2>4, <3>1
  <2> QED BY <1>2, <2>2, <2>3, <2>4
<1>6. Covered(v)
  <2> SUFFICES ASSUME NEW i \in DOMAIN ui.list PROVE CoveredAt(v, i)
    BY <1>2, <1>4 DEF Covered
  <2> DEFINE k == ui.list[i].dialog
  <2>1. k \in Keys /\ k # NoDialog /\ ui.list[i].unread \in Nat /\ CoveredAt(ui, i)
    BY UiTypes, ListElements, ViewAssumption DEF UiInv, Covered
  <2>2. v.seen[k] >= ui.seen[k] /\ v.seen[k] \in Nat /\ ui.seen[k] \in Nat
        /\ Len(ui.messages[k]) \in Nat
    BY <1>2, <1>4, <2>1, UiTypes, UiFields DEF Sound
  <2>3. v.messages = ui.messages /\ v.list = ui.list /\ v.selected = ui.selected
        /\ v.overtaken = ui.overtaken
    BY <1>2, <1>4
  <2> HIDE DEF k
  <2>4. CASE Queued(ui, "setActive", {k})
    <3>1. CASE Queued(Taken, "setActive", {k})
      BY <1>4, <2>3, <3>1 DEF CoveredAt, Queued, k
    <3>2. CASE First = k
      <4>1. Len(v.messages[k]) <= v.seen[k] + v.list[i].unread
        BY <1>4, <2>1, <2>2, <2>3, <3>2
      <4> QED BY <4>1, <2>3 DEF CoveredAt, k
    <3> QED BY <1>2, <2>4, <3>1, <3>2
  <2>5. CASE Len(ui.messages[k]) <= ui.seen[k] + ui.list[i].unread
    <3>1. Len(v.messages[k]) <= v.seen[k] + v.list[i].unread
      BY <2>1, <2>2, <2>3, <2>5
    <3> QED BY <3>1, <2>3 DEF CoveredAt, k
  <2> QED BY <2>1, <2>3, <2>4, <2>5 DEF CoveredAt, k
<1>7. UiInv(v) /\ ShownIn(v) = ShownIn(ui)
  BY <1>1, <1>2, <1>4, <1>5, <1>6 DEF UiInv, DistinctOf, ShownIn
<1>8. Frame(ui, v, {First})
  <2>1. Frame(Taken, v, {First})
    BY <1>4 DEF Frame
  <2> QED BY <1>1, <2>1, FrameMore
<1>9. /\ \A k \in Dialogs : status'[k] = "none" => status[k] = "none" /\ k # First
      /\ \A k \in ShownIn(ui') : Stored(k)'
      /\ status' \in [Dialogs -> Statuses \cup {"none", "removed"}]
  BY <1>1, <1>7, UiTypes, ViewAssumption DEF Known, Stored
<1>10. work' = Idle /\ SendingInv'
  BY <1>1 DEF Idle, SendingInv
<1> QED BY <1>1, <1>7, <1>8, <1>9, <1>10, WorkStep

LEMMA CreateDialogStep == ASSUME IInv, NEW d \in Dialogs, CreateDialog(d) PROVE IInv'
<1> DEFINE added == Added(Work, Taken, d, "wait")
<1>1. /\ status[d] = "none" /\ status' = [status EXCEPT ![d] = "wait"]
      /\ ui' \in {added, Changed(Work, added, d, "wait")} /\ UNCHANGED work
      /\ Take("create")
  BY DEF CreateDialog
<1>2. /\ UiInv(Taken) /\ Frame(ui, Taken, {}) /\ ShownIn(Taken) = ShownIn(ui)
      /\ work = Idle /\ UNCHANGED <<receiving, left>>
      /\ status \in [Dialogs -> Statuses \cup {"none", "removed"}]
  BY <1>1, TakenStep
<1>3. Untouched(Taken, d)
  <2>1. Untouched(ui, d)
    BY <1>1, NewDialogIsNew
  <2>2. Taken.list = ui.list /\ Taken.messages = ui.messages
    <3>1. ui.calls # <<>> /\ UiInv(ui) /\ Taken = [ui EXCEPT !.calls = Tail(@)]
      BY <1>1, UiTypes DEF Take, Taken
    <3> QED BY <3>1, TakenFacts
  <2> QED BY <2>1, <2>2 DEF Untouched, Listed
<1>4. "wait" \in Statuses /\ d \in Keys
  BY DEF Statuses, Keys
<1> HIDE DEF Taken
<1>a. added = Added(Work, Taken, d, "wait")
  OBVIOUS
<1> HIDE DEF added
<1>5. Lists(Work, Taken, added, d)
  BY <1>2, <1>3, <1>4, <1>a, AddedSound
<1>6. UiInv(added) /\ Frame(Taken, added, {d}) /\ ShownIn(added) = ShownIn(ui) \cup {d}
  BY <1>2, <1>5 DEF Lists
<1>7. UiInv(ui') /\ Frame(Taken, ui', {d}) /\ ShownIn(ui') = ShownIn(ui) \cup {d}
  <2>1. CASE ui' = added
    BY <1>6, <2>1
  <2>2. CASE ui' = Changed(Work, added, d, "wait")
    <3>1. UiInv(ui') /\ Frame(added, ui', {d}) /\ ShownIn(ui') = ShownIn(added)
      BY <1>4, <1>6, <2>2, ChangedSound, SMTT(30)
    <3>2. Frame(Taken, ui', {d})
      BY <1>6, <3>1, FrameTrans
    <3> QED BY <1>6, <3>1, <3>2
  <2> QED BY <1>1, <2>1, <2>2
<1>8. Frame(ui, ui', {d})
  BY <1>2, <1>7, FrameMore
<1>9. /\ \A k \in Dialogs : status'[k] = "none" => status[k] = "none" /\ k # d
      /\ \A k \in ShownIn(ui') : Stored(k)'
      /\ status' \in [Dialogs -> Statuses \cup {"none", "removed"}]
  BY <1>1, <1>2, <1>4, <1>7, UiTypes DEF Stored, Statuses
<1>10. work' = Idle /\ SendingInv'
  BY <1>1, <1>2 DEF Idle, SendingInv
<1> QED BY <1>2, <1>4, <1>7, <1>8, <1>9, <1>10, WorkStep

\* closeDialog, which two of the wrappers' slots begin with.
LEMMA CloseDialogFacts ==
  ASSUME IInv, NEW op \in {"close", "remove"}, Take(op), CloseDialog(First)
  PROVE  /\ UiInv(ui') /\ Frame(ui, ui', {First})
         /\ \A k \in Dialogs : status'[k] = "none" => status[k] = "none" /\ k # First
         /\ \A k \in ShownIn(ui') : Stored(k)'
         /\ status' \in [Dialogs -> Statuses \cup {"none", "removed"}]
         /\ First \in Dialogs /\ First \in Keys /\ work = Idle /\ UNCHANGED <<receiving, left>>
<1> DEFINE s == IF status[First] = "active" THEN "active" ELSE "ended"
<1>1. /\ Stored(First) /\ status' = [status EXCEPT ![First] = s]
      /\ ui' = IF status[First] = "ended" THEN Taken ELSE Changed(Work, Taken, First, s)
  BY DEF CloseDialog
<1>2. /\ UiInv(Taken) /\ Frame(ui, Taken, {}) /\ ShownIn(Taken) = ShownIn(ui)
      /\ work = Idle /\ UNCHANGED <<receiving, left>> /\ First \in Dialogs /\ First \in Keys
      /\ status \in [Dialogs -> Statuses \cup {"none", "removed"}]
  BY TakenStep
<1>3. s \in Statuses
  BY DEF Statuses
<1> HIDE DEF Taken, First, s
<1>4. UiInv(ui') /\ Frame(Taken, ui', {First}) /\ ShownIn(ui') = ShownIn(ui)
  <2>1. CASE ui' = Taken
    BY <1>2, <2>1 DEF Frame
  <2>2. CASE ui' = Changed(Work, Taken, First, s)
    <3>1. UiInv(ui') /\ Frame(Taken, ui', {First}) /\ ShownIn(ui') = ShownIn(Taken)
      BY <1>2, <1>3, <2>2, ChangedSound
    <3> QED BY <1>2, <3>1
  <2> QED BY <1>1, <2>1, <2>2
<1>5. Frame(ui, ui', {First})
  BY <1>2, <1>4, FrameMore
<1>6. /\ \A k \in Dialogs : status'[k] = "none" => status[k] = "none" /\ k # First
      /\ \A k \in ShownIn(ui') : Stored(k)'
      /\ status' \in [Dialogs -> Statuses \cup {"none", "removed"}]
  BY <1>1, <1>2, <1>3, <1>4, UiTypes DEF Stored, Statuses
<1> QED BY <1>2, <1>4, <1>5, <1>6

LEMMA WrapperCloseStep == ASSUME IInv, WrapperClose PROVE IInv'
<1>1. Take("close") /\ CloseDialog(First) /\ UNCHANGED work
  BY DEF WrapperClose
<1>2. /\ UiInv(ui') /\ Frame(ui, ui', {First})
      /\ \A k \in Dialogs : status'[k] = "none" => status[k] = "none" /\ k # First
      /\ \A k \in ShownIn(ui') : Stored(k)'
      /\ status' \in [Dialogs -> Statuses \cup {"none", "removed"}]
      /\ First \in Keys /\ work = Idle /\ UNCHANGED <<receiving, left>>
  BY <1>1, CloseDialogFacts
<1>3. work' = Idle /\ SendingInv'
  BY <1>1, <1>2 DEF Idle, SendingInv
<1> HIDE DEF First
<1> QED BY <1>2, <1>3, WorkStep

LEMMA WrapperRemoveStep == ASSUME IInv, WrapperRemove PROVE IInv'
<1>1. Take("remove") /\ CloseDialog(First) /\ work' = [at |-> "remove", dialog |-> First]
  BY DEF WrapperRemove
<1>2. /\ UiInv(ui') /\ Frame(ui, ui', {First})
      /\ \A k \in Dialogs : status'[k] = "none" => status[k] = "none" /\ k # First
      /\ \A k \in ShownIn(ui') : Stored(k)'
      /\ status' \in [Dialogs -> Statuses \cup {"none", "removed"}]
      /\ First \in Keys /\ First \in Dialogs /\ UNCHANGED <<receiving, left>>
  BY <1>1, CloseDialogFacts
<1>3. work' \in [at : {"send", "remove"}, dialog : {First} \cap Dialogs] /\ SendingInv'
  BY <1>1, <1>2 DEF SendingInv
<1> HIDE DEF First
<1> QED BY <1>2, <1>3, WorkStep

LEMMA CommandFailsStep == ASSUME IInv, CommandFails PROVE IInv'
<1>1. PICK op \in {"close", "remove"} : Take(op)
  BY DEF CommandFails
<1>2. /\ UiInv(Taken) /\ Frame(ui, Taken, {}) /\ ShownIn(Taken) = ShownIn(ui)
      /\ work = Idle /\ UNCHANGED <<receiving, left>> /\ First \in Keys /\ Known(First)
      /\ status \in [Dialogs -> Statuses \cup {"none", "removed"}]
  BY <1>1, TakenStep
<1>3. ui' = Taken /\ UNCHANGED <<status, work>>
  BY DEF CommandFails
<1> HIDE DEF Taken, First
<1>4. UiInv(ui') /\ Frame(ui, ui', {First})
  BY <1>2, <1>3 DEF Frame
<1>5. /\ \A k \in Dialogs : status'[k] = "none" => status[k] = "none" /\ k # First
      /\ \A k \in ShownIn(ui') : Stored(k)'
  BY <1>2, <1>3, UiTypes, ViewAssumption DEF Known, Stored
<1>6. work' = Idle /\ SendingInv'
  BY <1>2, <1>3 DEF Idle, SendingInv
<1> QED BY <1>2, <1>3, <1>4, <1>5, <1>6, WorkStep

LEMMA SendMessageStep == ASSUME IInv, SendMessage PROVE IInv'
<1> DEFINE d == ui.active
           ok == d # NoDialog /\ status[d] = "active"
<1>1. /\ Take("send") /\ UNCHANGED status
      /\ IF ok THEN /\ ui' = Changed(Work, Taken, d, "active")
                    /\ work' = [at |-> "send", dialog |-> d]
               ELSE ui' = AddMessage(Taken, d, d) /\ UNCHANGED work
  BY DEF SendMessage
<1>2. /\ UiInv(Taken) /\ Frame(ui, Taken, {}) /\ ShownIn(Taken) = ShownIn(ui)
      /\ Taken.active = d /\ work = Idle /\ UNCHANGED <<receiving, left>>
      /\ status \in [Dialogs -> Statuses \cup {"none", "removed"}]
  BY <1>1, TakenStep
<1>3. d \in Keys /\ Known(d)
  BY UiTypes DEF IInv, KnownInv
<1> HIDE DEF Taken
<1>4. /\ UiInv(ui') /\ Frame(Taken, ui', {d}) /\ ShownIn(ui') = ShownIn(ui)
      /\ work' \in {Idle} \cup [at : {"send", "remove"}, dialog : {d} \cap Dialogs] /\ SendingInv'
  <2>1. CASE ok
    <3>1. d \in Dialogs /\ "active" \in Statuses
      BY <1>3, <2>1 DEF Keys, Statuses
    <3>a. ui' = Changed(Work, Taken, d, "active") /\ work' = [at |-> "send", dialog |-> d]
      BY <1>1, <2>1
    <3> HIDE DEF d
    <3>2. UiInv(ui') /\ Frame(Taken, ui', {d}) /\ ShownIn(ui') = ShownIn(Taken)
      BY <1>2, <3>1, <3>a, ChangedSound
    <3>3. ui'.active = d
      BY <1>2, <3>2 DEF Frame
    <3>4. SendingInv'
      BY <3>3, <3>a DEF SendingInv
    <3> QED BY <1>2, <3>1, <3>2, <3>4, <3>a
  <2>2. CASE ~ok
    <3>a. ui' = AddMessage(Taken, d, d) /\ UNCHANGED work
      BY <1>1, <2>2
    <3> HIDE DEF d
    <3>1. UiInv(ui') /\ Frame(Taken, ui', {d}) /\ ShownIn(ui') = ShownIn(Taken)
      BY <1>2, <1>3, <3>a, TextSound
    <3>2. work' = Idle /\ SendingInv'
      BY <1>2, <3>a DEF SendingInv, Idle
    <3> QED BY <1>2, <3>1, <3>2
  <2> QED BY <2>1, <2>2
<1>5. Frame(ui, ui', {d})
  BY <1>2, <1>4, FrameMore
<1> HIDE DEF d
<1>6. /\ \A k \in Dialogs : status'[k] = "none" => status[k] = "none" /\ k # d
      /\ \A k \in ShownIn(ui') : Stored(k)'
      /\ status' \in [Dialogs -> Statuses \cup {"none", "removed"}]
  BY <1>1, <1>2, <1>3, <1>4, UiTypes, ViewAssumption DEF Known, Stored
<1> QED BY <1>2, <1>3, <1>4, <1>5, <1>6, WorkStep

LEMMA StoreTextStep ==
  ASSUME IInv, NEW encrypted, NEW sent, StoreText(encrypted, sent) PROVE IInv'
<1> DEFINE d == work.dialog
           there == ui.active # NoDialog \/ ui.messages[NoDialog] # <<>>
           stored == IF encrypted /\ there THEN AddMessage(ui, ui.active, d) ELSE ui
<1>1. /\ work.at = "send" /\ work' = Idle /\ UNCHANGED <<status, receiving, left>>
      /\ ui' = IF encrypted /\ there /\ sent THEN stored ELSE AddMessage(stored, d, d)
  BY DEF StoreText
<1>2. d = ui.active /\ UiInv(ui) /\ d \in Keys /\ Known(d)
  BY <1>1, UiTypes DEF IInv, SendingInv, KnownInv
<1>3. stored = ui \/ stored = AddMessage(ui, d, d)
  BY <1>2
<1> HIDE DEF stored, d
<1>4. UiInv(stored) /\ Frame(ui, stored, {d}) /\ ShownIn(stored) = ShownIn(ui)
  <2>1. CASE stored = ui
    BY <1>2, <2>1 DEF Frame
  <2>2. CASE stored = AddMessage(ui, d, d)
    BY <1>2, <2>2, TextSound
  <2> QED BY <1>3, <2>1, <2>2
<1>5. UiInv(ui') /\ Frame(ui, ui', {d}) /\ ShownIn(ui') = ShownIn(ui)
  <2>1. CASE ui' = stored
    BY <1>4, <2>1
  <2>2. CASE ui' = AddMessage(stored, d, d)
    <3>1. UiInv(ui') /\ Frame(stored, ui', {d}) /\ ShownIn(ui') = ShownIn(stored)
      BY <1>2, <1>4, <2>2, TextSound
    <3> QED BY <1>4, <3>1, FrameTrans
  <2> QED BY <1>1, <2>1, <2>2
<1>6. /\ \A k \in Dialogs : status'[k] = "none" => status[k] = "none" /\ k \notin {d}
      /\ \A k \in ShownIn(ui') : Stored(k)'
      /\ status' \in [Dialogs -> Statuses \cup {"none", "removed"}]
  BY <1>1, <1>2, <1>5, UiTypes, ViewAssumption DEF Known, Stored, IInv, TypeOK
<1>7. work' = Idle /\ SendingInv' /\ Known(work.dialog)'
  BY <1>1 DEF Idle, SendingInv, Known
<1>8. receiving' \in Keys /\ Known(receiving)' /\ left' \in 0 .. Budget
  BY <1>1 DEF IInv, TypeOK, KnownInv, Known
<1>9. {d} \subseteq Keys
  BY <1>2
<1> QED BY <1>5, <1>6, <1>7, <1>8, <1>9, UiStep

LEMMA RemoveDialogStep == ASSUME IInv, RemoveDialog PROVE IInv'
<1> DEFINE d == work.dialog
           ds == ShownIn(ui) \cup {NoDialog}
<1>1. /\ work.at = "remove" /\ work' = Idle /\ UNCHANGED <<receiving, left>>
      /\ IF Stored(d)
         THEN status' = [status EXCEPT ![d] = "removed"] /\ ui' = Removed(Work, ui, d)
         ELSE UNCHANGED <<status, ui>>
  BY DEF RemoveDialog
<1>2. /\ d \in Dialogs /\ status \in [Dialogs -> Statuses \cup {"none", "removed"}]
      /\ UiInv(ui) /\ receiving \in Keys /\ left \in 0 .. Budget /\ Known(receiving)
  BY <1>1, UiTypes DEF IInv, TypeOK, Idle, KnownInv
<1>3. ds \subseteq Keys /\ \A k \in ShownIn(ui) : Stored(k) /\ k \in Dialogs
  BY UiTypes DEF Keys
<1>4. work' = Idle /\ SendingInv' /\ Known(work.dialog)'
  BY <1>1 DEF Idle, SendingInv, Known
<1> HIDE DEF d
<1>5. /\ UiInv(ui') /\ Frame(ui, ui', ds) /\ \A k \in ShownIn(ui') : Stored(k)'
      /\ \A k \in Dialogs : status'[k] = "none" => status[k] = "none" /\ k \notin ds
      /\ status' \in [Dialogs -> Statuses \cup {"none", "removed"}]
  <2>1. CASE Stored(d)
    <3>1. status' = [status EXCEPT ![d] = "removed"] /\ ui' = Removed(Work, ui, d)
      BY <1>1, <2>1
    <3>2. UiInv(ui') /\ Frame(ui, ui', ds) /\ ShownIn(ui') \subseteq ShownIn(ui) \ {d}
      BY <1>2, <3>1, RemovedSound
    <3>3. \A k \in ShownIn(ui') : Stored(k)'
      BY <1>2, <1>3, <3>1, <3>2 DEF Stored
    <3>4. \A k \in Dialogs : status'[k] = "none" => status[k] = "none" /\ k \notin ds
      BY <1>2, <1>3, <3>1, ViewAssumption DEF Stored, Statuses
    <3>5. status' \in [Dialogs -> Statuses \cup {"none", "removed"}]
      BY <1>2, <3>1
    <3> QED BY <3>2, <3>3, <3>4, <3>5
  <2>2. CASE ~Stored(d)
    <3>1. UNCHANGED <<status, ui>>
      BY <1>1, <2>2
    <3>2. Frame(ui, ui', ds)
      BY <3>1, FrameSame
    <3>3. \A k \in Dialogs : status'[k] = "none" => status[k] = "none" /\ k \notin ds
      BY <1>3, <3>1, ViewAssumption DEF Stored, Statuses
    <3> QED BY <1>2, <1>3, <3>1, <3>2, <3>3 DEF Stored
  <2> QED BY <2>1, <2>2
<1>6. receiving' \in Keys /\ Known(receiving)' /\ left' \in 0 .. Budget
  <2>1. receiving' = receiving /\ left' = left
    BY <1>1
  <2>2. CASE receiving = NoDialog
    BY <1>2, <2>1, <2>2 DEF Known
  <2>3. CASE receiving \in Dialogs
    BY <1>2, <1>5, <2>1, <2>3 DEF Known
  <2> QED BY <1>2, <2>1, <2>2, <2>3 DEF Keys
<1> QED BY <1>3, <1>4, <1>5, <1>6, UiStep
-----------------------------------------------------------------------------
(* The theorems *)

LEMMA IInvInit == Init => IInv
<1> SUFFICES ASSUME Init PROVE IInv
  OBVIOUS
<1> DEFINE empty == [d \in Keys |-> <<>>]
<1>1. /\ ui.list = <<>> /\ ui.selected = NoDialog /\ ui.calls = <<>> /\ ui.messages = empty
      /\ ui.active = NoDialog /\ ui.viewed = NoDialog /\ ui.rows = <<>>
      /\ ui.seen = [d \in Keys |-> 0] /\ ui.overtaken = {}
  BY DEF Init
<1>2. /\ <<>> \in Seq(DialogInfo) /\ <<>> \in Seq(BOOLEAN) /\ <<>> \in Seq(Calls)
      /\ <<>> \in Seq(Text) /\ NoDialog \in Keys
  BY DEF Keys
<1>3. empty \in [Keys -> Seq(Text)]
  BY <1>2
<1>4. ui \in UiType
  BY <1>2, <1>3 DEF Init, UiType
<1>5. TypeOK
  BY <1>2, <1>4, ViewAssumption DEF Init, TypeOK, Idle
<1>6. \A d \in Keys : ui.messages[d] = <<>> /\ Len(ui.messages[d]) = 0 /\ DOMAIN ui.messages[d] = {}
  BY <1>1
<1>7. Sound(ui)
  BY <1>1, <1>2, <1>4, <1>6 DEF Sound, RowsOf, TextsOf, SeenOf
<1>8. DOMAIN ui.list = {} /\ DOMAIN ui.calls = {}
  BY <1>1
<1>9. UiInv(ui)
  BY <1>1, <1>7, <1>8 DEF UiInv, SelectionOf, DistinctOf, Covered, Queued
<1>10. SendingInv
  BY DEF Init, SendingInv
<1>11. KnownInv
  BY <1>1, <1>6, <1>8 DEF Init, KnownInv, ShownIn, Known, Keys
<1> QED BY <1>5, <1>9, <1>10, <1>11 DEF IInv

LEMMA IInvStep == IInv /\ [Next]_vars => IInv'
<1> SUFFICES ASSUME IInv, [Next]_vars PROVE IInv'
  OBVIOUS
<1>1. ASSUME NEW i \in DOMAIN ui.list, RowWasSelected(i) PROVE IInv'
  BY <1>1, RowWasSelectedStep
<1>2. CASE TypeText \/ UseMenu \/ StartNewDialog
  BY <1>2, AskSteps
<1>3. CASE WindowEvent
  BY <1>3, WindowEventStep
<1>4. ASSUME NEW d \in Dialogs, RemoveContact(d) PROVE IInv'
  BY <1>4, RemoveContactStep
<1>5. CASE WrapperSetActive
  BY <1>5, WrapperSetActiveStep
<1>6. ASSUME NEW d \in Dialogs, CreateDialog(d) PROVE IInv'
  BY <1>6, CreateDialogStep
<1>7. CASE WrapperClose \/ WrapperRemove \/ CommandFails
  BY <1>7, WrapperCloseStep, WrapperRemoveStep, CommandFailsStep
<1>8. CASE RemoveDialog
  BY <1>8, RemoveDialogStep
<1>9. CASE SendMessage
  BY <1>9, SendMessageStep
<1>10. ASSUME NEW encrypted \in BOOLEAN, NEW sent \in BOOLEAN, StoreText(encrypted, sent)
       PROVE  IInv'
  BY <1>10, StoreTextStep
<1>11. ASSUME NEW d \in Dialogs, OfferDialog(d) \/ ReceiveText(d) PROVE IInv'
  BY <1>11, OfferDialogStep, ReceiveTextStep
<1>12. ASSUME NEW d \in Dialogs, NEW s \in Statuses, SaveDialog(d, s) PROVE IInv'
  BY <1>12, SaveDialogStep
<1>13. CASE AddText \/ AbortOnException
  BY <1>13, TextSteps
<1>14. CASE UNCHANGED vars
  BY <1>14 DEF vars, IInv, TypeOK, SendingInv, KnownInv, Known, Stored
<1> QED BY <1>1, <1>2, <1>3, <1>4, <1>5, <1>6, <1>7, <1>8, <1>9, <1>10, <1>11, <1>12,
           <1>13, <1>14 DEF Next

\* The inductive invariant, made of the named parts at the top of this module:
\* what the user interface shows, what the storage holds and what waits in the
\* queues of the two threads agree at every moment.
THEOREM ViewInvariant == Spec => []IInv
  BY IInvInit, IInvStep, PTL DEF Spec

\* The state keeps its type: a step of any thread leaves the four objects of
\* the user interface, the storage and the queues well-formed.
THEOREM ViewTypeCorrect == Spec => []TypeOK
<1>1. IInv => TypeOK
  BY DEF IInv
<1> QED BY <1>1, ViewInvariant, PTL

\* ActiveDialogMessageModel, which is only told of single texts and of
\* switches, shows exactly the texts of its dialog, in their order.
THEOREM RowsAreTexts == Spec => []RowsFollowMessages
<1>1. IInv => RowsFollowMessages
  BY DEF IInv, UiInv, Sound, RowsOf, RowsFollowMessages
<1> QED BY <1>1, ViewInvariant, PTL

\* Between the two reads of the active dialog in sendMessage the work thread
\* saves the dialog and runs its listeners, and every other thread may run:
\* the text is still stored in the dialog it was encrypted and numbered for.
THEOREM TextsStayWhereSent == Spec => []TextStoredWhereSent
<1>1. IInv => TextStoredWhereSent
  BY DEF IInv, UiInv, Sound, TextsOf, TextStoredWhereSent
<1> QED BY <1>1, ViewInvariant, PTL

\* When no selection waits in the queue of the work thread, the container's
\* active dialog is the selected one, unless the selection overtook another.
THEOREM SelectionIsFollowed == Spec => []ActiveFollowsSelection
<1>1. IInv => ActiveFollowsSelection
  BY DEF IInv, UiInv, SelectionOf, ActiveFollowsSelection
<1> QED BY <1>1, ViewInvariant, PTL

\* The texts of a dialog that were never shown are no more than its counter of
\* unread texts says, or the dialog is selected or about to be.
THEOREM NothingIsMissed == Spec => []NothingMissed
<1>1. IInv => NothingMissed
  BY DEF IInv, UiInv, Covered, CoveredAt, NothingMissed
<1> QED BY <1>1, ViewInvariant, PTL
=============================================================================
