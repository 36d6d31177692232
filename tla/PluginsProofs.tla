--------------------------- MODULE PluginsProofs ---------------------------
(***************************************************************************)
(* What a reader hands to the channel, for any number of mails: each in the *)
(* order of its number and once, and nothing left out that came since it    *)
(* was connected, but for the first mail into an empty INBOX, unless        *)
(* something is deleted, forgotten or lost under it.                        *)
(***************************************************************************)
EXTENDS Plugins, FiniteSetTheorems, SequenceTheorems, WellFoundedInduction, TLAPS

-----------------------------------------------------------------------------
(* A finite set of numbers in ascending order *)

LEMMA LeastNumber ==
  ASSUME NEW T, T \subseteq Nat, T # {}
  PROVE  \E x \in T : \A y \in T : x <= y
<1>1. PICK x \in T : \A y \in T : ~ (<<y, x>> \in OpToRel(<, Nat))
  BY NatLessThanWellFounded, WFMin
<1>2. \A y \in T : <<y, x>> \notin OpToRel(<, Nat)
  BY <1>1
<1>3. \A y \in T : ~ (y < x)
  BY <1>2 DEF OpToRel
<1> QED BY <1>3

LEMMA RankFacts ==
  ASSUME NEW n \in Nat, NEW S \in SUBSET (1 .. n)
  PROVE  /\ IsFiniteSet(S) /\ Cardinality(S) \in Nat
         /\ \A i \in Nat : Rank(S, i) \in Nat /\ Rank(S, i) <= Cardinality(S)
         /\ \A i, j \in Nat : i <= j => Rank(S, i) <= Rank(S, j)
         /\ \A i \in S, j \in Nat : j < i => Rank(S, j) < Rank(S, i)
         /\ \A i \in Nat : i + 1 \notin S => Rank(S, i + 1) = Rank(S, i)
         /\ \A i \in Nat : Rank(S, i + 1) <= Rank(S, i) + 1
         /\ Rank(S, 0) = 0 /\ Rank(S, n) = Cardinality(S)
<1> DEFINE Below(i) == {j \in S : j <= i}
<1>1. IsFiniteSet(1 .. n)
  BY FS_Interval
<1>2. IsFiniteSet(S) /\ Cardinality(S) \in Nat
  BY <1>1, FS_Subset, FS_CardinalityType
<1>3. /\ \A i : Rank(S, i) = Cardinality(Below(i)) /\ Below(i) \in SUBSET S
      /\ \A i \in Nat, x \in S : x \in Below(i) <=> x <= i
  BY DEF Rank
<1> HIDE DEF Below
<1>a. \A x \in S : x \in Nat /\ x # 0 /\ x <= n
  OBVIOUS
<1>b. ASSUME NEW i \in Nat, NEW j \in Nat, i <= j PROVE Below(i) \in SUBSET Below(j)
  <2>1. ASSUME NEW x \in S, x <= i PROVE x <= j
    BY <1>a, <1>b, <2>1
  <2> QED BY <1>3, <1>b, <2>1
<1>c. ASSUME NEW i \in Nat
      PROVE  /\ i + 1 \notin Below(i)
             /\ i + 1 \in S => Below(i + 1) = Below(i) \cup {i + 1}
             /\ i + 1 \notin S => Below(i + 1) = Below(i)
  <2>1. \A x \in S : x <= i + 1 <=> x <= i \/ x = i + 1
    BY <1>a
  <2>2. i + 1 \in Nat
    OBVIOUS
  <2>3. \A x : x \in Below(i + 1) <=> x \in Below(i) \/ (x \in S /\ x = i + 1)
    BY <1>3, <2>1, <2>2
  <2>4. i + 1 \notin Below(i)
    BY <1>3
  <2> QED BY <2>3, <2>4
<1>d. Below(0) = {} /\ Below(n) = S
  <2>1. \A x \in S : ~(x <= 0)
    BY <1>a
  <2> QED BY <1>3, <1>a, <2>1
<1>4. ASSUME NEW i
      PROVE  /\ IsFiniteSet(Below(i)) /\ Cardinality(Below(i)) \in Nat
             /\ Rank(S, i) \in Nat /\ Rank(S, i) <= Cardinality(S)
  <2>1. Below(i) \in SUBSET S /\ Rank(S, i) = Cardinality(Below(i))
    BY <1>3
  <2>2. IsFiniteSet(Below(i)) /\ Cardinality(Below(i)) <= Cardinality(S)
    BY <1>2, <2>1, FS_Subset
  <2> QED BY <2>1, <2>2, FS_CardinalityType
<1>5. ASSUME NEW i \in Nat, NEW j \in Nat, i <= j PROVE Rank(S, i) <= Rank(S, j)
  BY <1>3, <1>4, <1>b, <1>5, FS_Subset
<1>7. ASSUME NEW i \in Nat
      PROVE  Rank(S, i + 1) = IF i + 1 \in S THEN Rank(S, i) + 1 ELSE Rank(S, i)
  <2>1. Cardinality(Below(i) \cup {i + 1}) = Cardinality(Below(i)) + 1
    BY <1>c, <1>4, FS_AddElement
  <2>2. Rank(S, i) = Cardinality(Below(i)) /\ Rank(S, i + 1) = Cardinality(Below(i + 1))
    BY <1>3, Zenon
  <2>3. CASE i + 1 \in S
    <3>1. Below(i + 1) = Below(i) \cup {i + 1}
      BY <1>c, <2>3, Zenon
    <3> QED BY <2>1, <2>2, <2>3, <3>1
  <2>4. CASE i + 1 \notin S
    <3>1. Below(i + 1) = Below(i)
      BY <1>c, <2>4, Zenon
    <3> QED BY <2>2, <2>4, <3>1
  <2> QED BY <2>3, <2>4
<1>8. ASSUME NEW i \in S, NEW j \in Nat, j < i PROVE Rank(S, j) < Rank(S, i)
  <2>1. i - 1 \in Nat /\ (i - 1) + 1 = i /\ j <= i - 1
    BY <1>8
  <2>2. Rank(S, i) = Rank(S, i - 1) + 1
    BY <1>7, <2>1
  <2>3. Rank(S, j) <= Rank(S, i - 1)
    BY <1>5, <2>1
  <2> QED BY <1>4, <2>1, <2>2, <2>3
<1>9. Rank(S, 0) = 0 /\ Rank(S, n) = Cardinality(S)
  BY <1>3, <1>d, FS_EmptySet
<1>10. \A i \in Nat : /\ i + 1 \notin S => Rank(S, i + 1) = Rank(S, i)
                      /\ Rank(S, i + 1) <= Rank(S, i) + 1
  BY <1>4, <1>7
<1> QED BY <1>2, <1>4, <1>5, <1>8, <1>9, <1>10

\* Every rank is taken.
LEMMA RankTaken ==
  ASSUME NEW n \in Nat, NEW S \in SUBSET (1 .. n), NEW k \in 1 .. Cardinality(S)
  PROVE  \E i \in S : Rank(S, i) = k
<1> DEFINE T == {i \in Nat : Rank(S, i) >= k}
<1>1. Cardinality(S) \in Nat /\ n \in T
  BY RankFacts
<1>2. PICK i \in T : \A j \in T : i <= j
  BY <1>1, LeastNumber
<1>3. i # 0 /\ Rank(S, i) >= k
  BY <1>1, <1>2, RankFacts
<1>4. i \in Nat /\ i - 1 \in Nat /\ (i - 1) + 1 = i /\ ~(i <= i - 1)
  BY <1>2, <1>3
<1>5. ~(Rank(S, i - 1) >= k)
  BY <1>2, <1>4
<1>6. /\ Rank(S, i - 1) \in Nat /\ Rank(S, i) \in Nat
      /\ Rank(S, i) <= Rank(S, i - 1) + 1
      /\ i \notin S => Rank(S, i) = Rank(S, i - 1)
  BY <1>4, RankFacts
<1> QED BY <1>1, <1>3, <1>5, <1>6

\* The position of a number is its rank.
LEMMA RankInverse ==
  ASSUME NEW n \in Nat, NEW S \in SUBSET (1 .. n)
  PROVE  /\ \A k \in 1 .. Cardinality(S) :
              Ascending(S)[k] \in S /\ Rank(S, Ascending(S)[k]) = k
         /\ \A i \in S : Rank(S, i) \in 1 .. Cardinality(S) /\ Ascending(S)[Rank(S, i)] = i
<1>0. \A i \in S : i \in Nat /\ 0 < i
  OBVIOUS
<1>1. ASSUME NEW k \in 1 .. Cardinality(S)
      PROVE  Ascending(S)[k] \in S /\ Rank(S, Ascending(S)[k]) = k
  BY <1>1, RankTaken DEF Ascending
<1>2. ASSUME NEW i \in S
      PROVE  Rank(S, i) \in 1 .. Cardinality(S) /\ Ascending(S)[Rank(S, i)] = i
  <2> DEFINE j == Ascending(S)[Rank(S, i)]
  <2>1. i \in Nat /\ 0 < i /\ Rank(S, i) \in Nat /\ Rank(S, i) <= Cardinality(S)
    BY <1>0, RankFacts
  <2>2. Rank(S, i) # 0
    BY <2>1, RankFacts
  <2>3. Rank(S, i) \in 1 .. Cardinality(S)
    BY <2>1, <2>2, RankFacts
  <2>4. j \in S /\ Rank(S, j) = Rank(S, i) /\ j \in Nat
    BY <1>0, <1>1, <2>3
  <2>5. ~(j < i) /\ ~(i < j)
    BY <2>1, <2>4, RankFacts
  <2> QED BY <2>1, <2>3, <2>4, <2>5
<1> QED BY <1>1, <1>2

LEMMA AscendingFacts ==
  ASSUME NEW n \in Nat, NEW S \in SUBSET (1 .. n)
  PROVE  /\ Ascending(S) \in Seq(S) /\ ToSet(Ascending(S)) = S
         /\ \A i, j \in DOMAIN Ascending(S) : i < j => Ascending(S)[i] < Ascending(S)[j]
<1> DEFINE c == Cardinality(S)
           s == Ascending(S)
<1>0. \A i \in S : i \in Nat /\ 0 < i
  OBVIOUS
<1>1. c \in Nat /\ DOMAIN s = 1 .. c
  BY RankFacts DEF Ascending
<1>2. \A k \in 1 .. c : s[k] \in S /\ Rank(S, s[k]) = k
  BY RankInverse
<1>3. s \in Seq(S)
  <2>1. s \in [1 .. c -> S]
    BY <1>2 DEF Ascending
  <2> QED BY <1>1, <2>1
<1>4. \A i \in S : i \in ToSet(s)
  <2>1. \A i \in S : Rank(S, i) \in 1 .. c /\ s[Rank(S, i)] = i
    BY RankInverse
  <2> QED BY <1>1, <2>1 DEF ToSet
<1>5. ToSet(s) = S
  BY <1>1, <1>2, <1>4 DEF ToSet
<1>6. ASSUME NEW i \in 1 .. c, NEW j \in 1 .. c, i < j PROVE s[i] < s[j]
  <2>1. /\ s[i] \in S /\ s[j] \in S /\ s[i] \in Nat /\ s[j] \in Nat
        /\ Rank(S, s[i]) = i /\ Rank(S, s[j]) = j
    BY <1>0, <1>2
  <2>2. ~(s[j] <= s[i])
    BY <1>6, <2>1, RankFacts
  <2> QED BY <2>1, <2>2
<1> QED BY <1>1, <1>3, <1>5, <1>6

\* The numbers above one that is given are the end of the sequence.
LEMMA AscendingAbove ==
  ASSUME NEW n \in Nat, NEW S \in SUBSET (1 .. n), NEW f \in 0 .. n,
         NEW T, T = {i \in S : i > f}
  PROVE  /\ Cardinality(T) = Cardinality(S) - Rank(S, f)
         /\ DOMAIN Ascending(T) = 1 .. Cardinality(T)
         /\ \A m \in 1 .. Cardinality(T) : Ascending(T)[m] = Ascending(S)[m + Rank(S, f)]
<1> DEFINE k == Rank(S, f)
           below == {j \in S : j <= f}
<1>0. f \in Nat /\ \A i \in S : i \in Nat /\ i <= n /\ (i \in T <=> i > f)
  OBVIOUS
<1>1. T \in SUBSET (1 .. n) /\ IsFiniteSet(S)
  BY RankFacts
<1>2. IsFiniteSet(below) /\ k = Cardinality(below)
  BY <1>1, FS_Subset DEF Rank
<1>3. ASSUME NEW x \in Nat, x >= f PROVE Rank(S, x) = k + Rank(T, x)
  <2> DEFINE above == {j \in T : j <= x}
  <2>1. IsFiniteSet(above) /\ Rank(T, x) = Cardinality(above)
    <3>1. IsFiniteSet(T)
      BY <1>1, FS_Subset
    <3> QED BY <3>1, FS_Subset DEF Rank
  <2>2. below \cup above = {j \in S : j <= x} /\ below \cap above = {}
    <3>1. /\ \A j \in S : j <= x <=> j <= f \/ (j > f /\ j <= x)
          /\ \A j \in S : ~(j <= f /\ j > f)
      BY <1>0, <1>3
    <3>2. T \subseteq S
      OBVIOUS
    <3> QED BY <1>0, <3>1, <3>2, Zenon
  <2>3. Cardinality(below \cup above) = Cardinality(below) + Cardinality(above) - Cardinality({})
    BY <1>2, <2>1, <2>2, FS_Union
  <2>4. Cardinality({}) = 0 /\ Cardinality(below) \in Nat /\ Cardinality(above) \in Nat
    BY <1>2, <2>1, FS_EmptySet, FS_CardinalityType
  <2>5. Rank(S, x) = Cardinality(below \cup above)
    BY <2>2 DEF Rank
  <2> QED BY <1>2, <2>1, <2>3, <2>4, <2>5
<1>4. /\ k \in Nat /\ Cardinality(S) \in Nat /\ Cardinality(T) \in Nat
      /\ Rank(S, n) = Cardinality(S) /\ Rank(T, n) = Cardinality(T)
  <2>1. f \in Nat
    OBVIOUS
  <2> QED BY <1>1, <2>1, RankFacts
<1>5. Cardinality(T) = Cardinality(S) - k
  BY <1>3, <1>4
<1>6. ASSUME NEW m \in 1 .. Cardinality(T) PROVE Ascending(T)[m] = Ascending(S)[m + k]
  <2> DEFINE i == Ascending(T)[m]
  <2>1. i \in T /\ Rank(T, i) = m
    BY <1>1, RankInverse
  <2>2. i \in S /\ i \in Nat /\ i >= f
    <3>1. i \in S
      BY <2>1, Zenon
    <3> HIDE DEF i
    <3>2. i \in Nat /\ i > f
      BY <1>0, <2>1, <3>1
    <3> QED BY <1>0, <3>1, <3>2
  <2>3. Rank(S, i) = k + m
    BY <1>3, <2>1, <2>2
  <2>4. Ascending(S)[Rank(S, i)] = i
    BY <2>2, RankInverse
  <2> QED BY <1>4, <2>3, <2>4
<1>7. DOMAIN Ascending(T) = 1 .. Cardinality(T)
  BY DEF Ascending
<1> QED BY <1>5, <1>6, <1>7
-----------------------------------------------------------------------------
(* The invariant *)

Increasing(s) == \A i, j \in DOMAIN s : i < j => s[i] < s[j]

Came(from, to) == OfPeer({i \in present : from < i /\ i <= to})

\* What each plugin does not do.
KindInv ==
  /\ plugin # "smtp" => thread # "fetch"
  /\ plugin = "vk" => present = DOMAIN mail /\ last <= Len(mail)
  /\ plugin = "gmail" => reader = "none"
  /\ history # "ok" => plugin = "vk" /\ ~calm

\* A number of an empty mailbox is 1; a mail above the last number is above all
\* that were handed over, though the last number may fall when mails are deleted.
OrderInv ==
  /\ Increasing(read)
  /\ \A i \in present, r \in ToSet(read) : i > last => i > r
  /\ last <= Len(mail) \/ (last = 1 /\ mail = <<>>)
  /\ thread = "fetch" =>
       /\ last <= Len(mail) /\ (newest = 1 \/ newest <= Len(mail))
       /\ \A i \in present : i > newest => i > last

\* ImapReciever was connected to an empty INBOX and has not fetched anything:
\* the first mail that comes is the one it will take for known.
Waits ==
  /\ last = 1 /\ \A i \in present : since <= i
  /\ since \in present \/ (present = {} /\ since = Len(mail) + 1)

\* While nothing is deleted, forgotten or lost, the reader stands at a mail that
\* is there, or waits for one.
CalmInv ==
  reader = "open" /\ calm =>
    /\ ToSet(read) = Came(since, last)
    /\ IF plugin = "smtp" THEN (since <= last /\ last \in present) \/ Waits ELSE since <= last
    /\ thread = "fetch" => newest \in present /\ newest > last

ReadsInv == KindInv /\ OrderInv /\ CalmInv
-----------------------------------------------------------------------------
(* Type correctness *)

\* The parameters of a connection come back from the database as they were.
LEMMA Restored ==
  ASSUME NEW c \in Connections
  PROVE  RestoreConnection(StoreConnection(c), {c.plugin}) = c /\ c.plugin \in {"smtp", "vk", "gmail"}
<1>1. \/ c \in [name : STRING, plugin : {"smtp"}, info : SmtpInfos]
      \/ c \in [name : STRING, plugin : {"vk"}, info : [vkId : STRING, accessToken : STRING]]
      \/ c \in [name : STRING, plugin : {"gmail"}, info : [email : STRING, accessToken : STRING]]
  BY PluginsAssumption
<1>2. ASSUME Deserialize(c.plugin, Serialize(c.plugin, c.info)) = c.info
      PROVE  RestoreConnection(StoreConnection(c), {c.plugin}) = c
  BY <1>1, <1>2 DEF RestoreConnection, StoreConnection
<1>3. CASE c.plugin = "smtp"
  <2>1. c.info \in SmtpInfos
    BY <1>1, <1>3
  <2>2. DeserializeSmtp(SerializeSmtp(c.info)) = c.info
    BY <2>1 DEF DeserializeSmtp, SerializeSmtp, SmtpInfos
  <2> QED BY <1>2, <1>3, <2>2 DEF Deserialize, Serialize
<1>4. CASE c.plugin = "vk"
  <2>1. c.info \in [vkId : STRING, accessToken : STRING]
    BY <1>1, <1>4
  <2>2. DeserializeVk(SerializeVk(c.info)) = c.info
    BY <2>1 DEF DeserializeVk, SerializeVk
  <2> QED BY <1>2, <1>4, <2>2 DEF Deserialize, Serialize
<1>5. CASE c.plugin = "gmail"
  <2>1. c.info \in [email : STRING, accessToken : STRING]
    BY <1>1, <1>5
  <2>2. DeserializeGmail(SerializeGmail(c.info)) = c.info
    BY <2>1 DEF DeserializeGmail, SerializeGmail
  <2> QED BY <1>2, <1>5, <2>2 DEF Deserialize, Serialize
<1> QED BY <1>1, <1>3, <1>4, <1>5

LEMMA LowestFacts ==
  ASSUME NEW S, S \subseteq Nat, S # {}
  PROVE  LowestOf(S) \in S /\ \A i \in S : LowestOf(S) <= i
<1>1. \E x \in S : \A y \in S : x <= y
  BY LeastNumber
<1> QED BY <1>1 DEF LowestOf

LEMMA HighestFacts ==
  ASSUME NEW n \in Nat, NEW S \in SUBSET (0 .. n), S # {}
  PROVE  HighestOf(S) \in S /\ \A i \in S : i <= HighestOf(S)
<1> DEFINE T == {n - i : i \in S}
<1>1. \A i \in S : i \in Nat /\ n - i \in Nat
  OBVIOUS
<1>2. PICK x \in T : \A y \in T : x <= y
  <2>1. T \subseteq Nat /\ T # {}
    BY <1>1
  <2> QED BY <2>1, LeastNumber
<1>3. PICK h \in S : x = n - h
  OBVIOUS
<1>4. ASSUME NEW i \in S PROVE i <= h
  BY <1>1, <1>2, <1>3
<1>5. \E h1 \in S : \A i \in S : i <= h1
  BY <1>4
<1> QED BY <1>5 DEF HighestOf

LEMMA NewestType ==
  ASSUME TypeOK
  PROVE  GetLastMessageUid \in 1 .. MaxMail
<1>1. /\ present \in SUBSET (0 .. Len(mail)) /\ present \in SUBSET (1 .. Len(mail))
      /\ Len(mail) \in Nat /\ Len(mail) <= MaxMail /\ MaxMail \in Nat \ {0}
  BY PluginsAssumption DEF TypeOK
<1>2. present # {} => HighestOf(present) \in present
  BY <1>1, HighestFacts
<1>3. 1 \in 1 .. MaxMail /\ \A i \in present : i \in 1 .. MaxMail
  BY <1>1
<1> QED BY <1>2, <1>3, Zenon DEF GetLastMessageUid

\* What was read goes on, and nothing but what is there.
LEMMA DispatchTypes ==
  ASSUME TypeOK, NEW S \in SUBSET (1 .. Len(mail)), Dispatch(Ascending(S))
  PROVE  /\ read' = read \o Ascending(S) /\ read' \in Seq(DOMAIN mail)
         /\ copied' \subseteq [number : DOMAIN mail, outcome : MemoryOutcomes]
<1>1. /\ mail \in Seq(Messages \union {Foreign}) /\ Len(mail) \in Nat /\ DOMAIN mail = 1 .. Len(mail)
      /\ read \in Seq(DOMAIN mail)
  BY DEF TypeOK
<1>2. Ascending(S) \in Seq(S) /\ ToSet(Ascending(S)) = S
  BY <1>1, AscendingFacts
<1>3. Ascending(S) \in Seq(DOMAIN mail)
  BY <1>1, <1>2, SeqMonotonic
<1>4. PICK outcome \in [S -> MemoryOutcomes] :
        copied' = {[number |-> i, outcome |-> outcome[i]] : i \in S}
  BY <1>2 DEF Dispatch
<1> QED BY <1>1, <1>3, <1>4 DEF Dispatch

LEMMA TypeInit == Init => TypeOK
<1> SUFFICES ASSUME Init PROVE TypeOK
  OBVIOUS
<1>1. conn \in Connections
  BY Restored DEF Init
<1>2. /\ mail \in Seq(Messages \union {Foreign}) /\ Len(mail) <= MaxMail
      /\ read \in Seq(DOMAIN mail) /\ 0 \in 0 .. MaxMail /\ 0 \in 0 .. MaxMail + 1
  BY PluginsAssumption, EmptySeq DEF Init
<1> QED BY <1>1, <1>2 DEF Init, TypeOK

\* The receive thread does nothing but go somewhere else.
LEMMA GoesTypes ==
  ASSUME TypeOK,
         \/ Disconnected
         \/ EndsIn("hung") \/ EndsIn("terminated") \/ EndsIn("nullUse") \/ EndsIn("pastEnd")
  PROVE  TypeOK'
<1>1. 0 \in 0 .. MaxMail
  BY PluginsAssumption
<1> QED BY <1>1 DEF TypeOK, Disconnected, EndsIn, position, service

LEMMA SmtpTypes ==
  ASSUME TypeOK, ConnectSmtp \/ LookSmtp
  PROVE  TypeOK'
<1>1. /\ GetLastMessageUid \in 0 .. MaxMail /\ <<>> \in Seq(DOMAIN mail)
      /\ TakenForKnown \in 0 .. MaxMail + 1
  <2>1. Len(mail) + 1 \in 0 .. MaxMail + 1 /\ GetLastMessageUid \in 0 .. MaxMail + 1
    BY NewestType, PluginsAssumption DEF TypeOK
  <2> QED BY <2>1, NewestType, EmptySeq DEF TakenForKnown
<1>2. ASSUME NEW readerLeft \in {"none", "made", "open"}, ConnectFails(readerLeft),
             sender' = TRUE, UNCHANGED << conn, service, copied, result >>
      PROVE  TypeOK'
  <2>1. thread' \in {"look", "hung", "terminated"}
    BY <1>2, PluginsAssumption DEF ConnectFails
  <2> QED BY <1>2, <2>1 DEF TypeOK, ConnectFails, reading, position, service
<1>3. ASSUME SmtpReached, ImapReached, ConnectSmtp, reader' = "open", link' = TRUE,
             thread' = "look", last' = GetLastMessageUid, since' = TakenForKnown,
             calm' = TRUE, read' = <<>>, UNCHANGED newest
      PROVE  TypeOK'
  <2>1. sender' = TRUE /\ UNCHANGED << conn, service, copied, result >>
    BY <1>3 DEF ConnectSmtp
  <2> QED BY <1>1, <1>3, <2>1 DEF TypeOK, service
<1>4. CASE ConnectSmtp
  BY <1>2, <1>3, <1>4 DEF ConnectSmtp, TypeOK
<1>5. CASE LookSmtp
  <2>1. CASE Disconnected \/ EndsIn("terminated") \/ EndsIn("nullUse")
    BY <2>1, GoesTypes
  <2>2. CASE /\ newest' = GetLastMessageUid /\ thread' = "fetch"
             /\ UNCHANGED << conn, service, link, sender, reader, position, copied, result >>
    BY <1>1, <2>2 DEF TypeOK, position, service
  <2> QED BY <1>5, <2>1, <2>2 DEF LookSmtp
<1> QED BY <1>4, <1>5

LEMMA FetchTypes ==
  ASSUME TypeOK, FetchSmtp
  PROVE  TypeOK'
<1>1. CASE Disconnected \/ EndsIn("terminated") \/ EndsIn("pastEnd")
  BY <1>1, GoesTypes
<1>2. CASE /\ Dispatch(Ascending(OfPeer(Fetched \ {LowestOf(Fetched)})))
           /\ last' = newest /\ newest' = 0 /\ thread' = "look"
           /\ UNCHANGED << conn, service, link, sender, reader, since, calm, result >>
  <2>1. OfPeer(Fetched \ {LowestOf(Fetched)}) \in SUBSET (1 .. Len(mail))
    BY DEF OfPeer, Fetched, TypeOK
  <2>2. /\ read' \in Seq(DOMAIN mail)
        /\ copied' \subseteq [number : DOMAIN mail, outcome : MemoryOutcomes]
    BY <1>2, <2>1, DispatchTypes
  <2>3. 0 \in 0 .. MaxMail
    BY PluginsAssumption
  <2> QED BY <1>2, <2>2, <2>3 DEF TypeOK, service
<1> QED BY <1>1, <1>2 DEF FetchSmtp

LEMMA ApiTypes ==
  ASSUME TypeOK, ConnectApi \/ LookVk \/ PollVk \/ LookGmail
  PROVE  TypeOK'
<1>1. /\ 0 \in 0 .. MaxMail /\ Len(mail) \in 0 .. MaxMail /\ Len(mail) \in 0 .. MaxMail + 1
      /\ <<>> \in Seq(DOMAIN mail)
  BY PluginsAssumption, EmptySeq DEF TypeOK
<1>2. CASE Disconnected
  BY <1>2, GoesTypes
<1>3. CASE GetLongPollServer
  BY <1>1, <1>3 DEF TypeOK, GetLongPollServer
<1>4. CASE ConnectApi
  BY <1>1, <1>4 DEF TypeOK, ConnectApi, service
<1>5. CASE PollVk
  <2>1. CASE /\ last' = Len(mail) /\ history' = "ok"
             /\ UNCHANGED << conn, net, mail, present, link, thread, sender, reader, newest,
                             since, calm, read, copied, result >>
    BY <1>1, <2>1 DEF TypeOK
  <2>2. CASE /\ last' = Len(mail)
             /\ Dispatch(Ascending(OfPeer((last + 1) .. Len(mail)))) /\ UNCHANGED calm
             /\ UNCHANGED << conn, service, link, thread, sender, reader, newest, since, result >>
    <3>1. OfPeer((last + 1) .. Len(mail)) \in SUBSET (1 .. Len(mail))
      BY DEF OfPeer, TypeOK
    <3>2. /\ read' \in Seq(DOMAIN mail)
          /\ copied' \subseteq [number : DOMAIN mail, outcome : MemoryOutcomes]
      BY <2>2, <3>1, DispatchTypes
    <3> QED BY <1>1, <2>2, <3>2 DEF TypeOK, service
  <2>3. CASE /\ last' = Len(mail) /\ calm' = FALSE /\ UNCHANGED << read, copied >>
             /\ UNCHANGED << conn, service, link, thread, sender, reader, newest, since, result >>
    <3>1. UNCHANGED << conn, net, mail, present, history, link, thread, sender, reader, newest,
                       since, read, copied, result >>
      BY <2>3 DEF service
    <3>2. last' \in 0 .. MaxMail /\ calm' \in BOOLEAN
      BY <1>1, <2>3 DEF TypeOK
    <3> QED BY <3>1, <3>2 DEF TypeOK
  <2> QED BY <1>2, <1>3, <1>5, <2>1, <2>2, <2>3 DEF PollVk
<1> QED BY <1>2, <1>3, <1>4, <1>5 DEF LookVk, LookGmail

LEMMA SendTypes == ASSUME TypeOK, Send PROVE TypeOK'
<1>1. plugin \in {"smtp", "vk", "gmail"}
  BY Restored DEF TypeOK, plugin
<1>2. SendResults \subseteq {"NoError", "SendFailed", "Disconected"}
  BY <1>1 DEF SendResults, SmtpSent, VkSent, GmailSent, ApiResults
<1>3. /\ thread' \in {thread, "nullUse", "terminated"} /\ result' \in SendResults \cup {result}
      /\ UNCHANGED << conn, service, link, sender, reader, reading, copied >>
  BY DEF Send
<1> QED BY <1>2, <1>3 DEF TypeOK, service, reading, position

LEMMA ServiceTypes == ASSUME TypeOK, ServiceStep PROVE TypeOK'
<1>1. ASSUME NEW m \in Messages \union {Foreign}, Arrive(m) PROVE TypeOK'
  <2>1. /\ mail' \in Seq(Messages \union {Foreign}) /\ Len(mail') = Len(mail) + 1
        /\ DOMAIN mail' = 1 .. (Len(mail) + 1) /\ DOMAIN mail = 1 .. Len(mail)
        /\ Len(mail) \in Nat
    BY <1>1, AppendProperties DEF Arrive, TypeOK
  <2>2. DOMAIN mail \subseteq DOMAIN mail' /\ Len(mail) + 1 \in DOMAIN mail'
    BY <2>1
  <2>3. Len(mail') <= MaxMail
    BY <1>1, <2>1, PluginsAssumption DEF Arrive
  <2>4. /\ read' \in Seq(DOMAIN mail')
        /\ copied' \subseteq [number : DOMAIN mail', outcome : MemoryOutcomes]
        /\ present' \subseteq DOMAIN mail'
    BY <1>1, <2>2, SeqMonotonic DEF Arrive, client, TypeOK
  <2> QED BY <1>1, <2>1, <2>3, <2>4 DEF Arrive, client, TypeOK
<1>2. CASE NetDown \/ NetUp
  BY <1>2 DEF NetDown, NetUp, client, TypeOK
<1>3. ASSUME NEW i \in present, Delete(i) PROVE TypeOK'
  <2>1. present' \subseteq DOMAIN mail' /\ UNCHANGED <<client, mail>>
    BY <1>3 DEF Delete, TypeOK
  <2> QED BY <1>3, <2>1 DEF Delete, client, TypeOK
<1>4. ASSUME NEW what \in {"gap", "expired"}, Forget(what) PROVE TypeOK'
  BY <1>4 DEF Forget, client, TypeOK
<1> QED BY <1>1, <1>2, <1>3, <1>4 DEF ServiceStep

\* Connections, mailbox, both threads and their positions keep their types, for
\* any connections, messages and number of mails.
THEOREM PluginsTypeCorrect == Spec => []TypeOK
<1>1. TypeOK /\ [Next]_vars => TypeOK'
  <2> SUFFICES ASSUME TypeOK, [Next]_vars PROVE TypeOK'
    OBVIOUS
  <2>1. CASE ReceiveStep
    BY <2>1, SmtpTypes, FetchTypes, ApiTypes DEF ReceiveStep
  <2>2. CASE UNCHANGED vars
    BY <2>2 DEF vars, TypeOK
  <2> QED BY <2>1, <2>2, SendTypes, ServiceTypes DEF Next
<1> QED BY <1>1, TypeInit, PTL DEF Spec
-----------------------------------------------------------------------------
(* What was read *)

LEMMA Mailbox ==
  ASSUME TypeOK
  PROVE  /\ Len(mail) \in Nat /\ DOMAIN mail = 1 .. Len(mail)
         /\ \A i \in present : i \in Nat /\ 1 <= i /\ i <= Len(mail)
         /\ \A r \in ToSet(read) : r \in Nat /\ 1 <= r /\ r <= Len(mail)
         /\ last \in Nat /\ since \in Nat /\ newest \in Nat
         /\ plugin \in {"smtp", "vk", "gmail"}
<1>1. Len(mail) \in Nat /\ DOMAIN mail = 1 .. Len(mail) /\ read \in Seq(1 .. Len(mail))
  BY DEF TypeOK
<1>2. \A r \in ToSet(read) : r \in 1 .. Len(mail)
  BY <1>1 DEF ToSet
<1>3. last \in Nat /\ since \in Nat /\ newest \in Nat
  BY DEF TypeOK
<1>4. plugin \in {"smtp", "vk", "gmail"}
  BY Restored DEF TypeOK, plugin
<1> QED BY <1>1, <1>2, <1>3, <1>4 DEF TypeOK

LEMMA NewestFacts ==
  ASSUME TypeOK
  PROVE  /\ GetLastMessageUid \in Nat /\ \A i \in present : i <= GetLastMessageUid
         /\ IF present = {} THEN GetLastMessageUid = 1 ELSE GetLastMessageUid \in present
<1>1. present \in SUBSET (0 .. Len(mail)) /\ Len(mail) \in Nat
  BY DEF TypeOK
<1>2. CASE present = {}
  BY <1>2 DEF GetLastMessageUid
<1>3. CASE present # {}
  <2>1. HighestOf(present) \in present /\ \A i \in present : i <= HighestOf(present)
    BY <1>1, <1>3, HighestFacts
  <2> QED BY <1>3, <2>1, Mailbox DEF GetLastMessageUid
<1> QED BY <1>2, <1>3

LEMMA DispatchReads ==
  ASSUME TypeOK, OrderInv, NEW S \in SUBSET (1 .. Len(mail)), Dispatch(Ascending(S)),
         \A i \in S, r \in ToSet(read) : r < i
  PROVE  Increasing(read') /\ ToSet(read') = ToSet(read) \union S
<1> DEFINE N == 1 .. Len(mail)
           new == Ascending(S)
<1>1. Len(mail) \in Nat /\ DOMAIN mail = N /\ read \in Seq(N)
  BY DEF TypeOK
<1>2. /\ new \in Seq(S) /\ ToSet(new) = S
      /\ \A i, j \in DOMAIN new : i < j => new[i] < new[j]
  BY <1>1, AscendingFacts
<1>3. new \in Seq(N)
  BY <1>2, SeqMonotonic
<1> HIDE DEF new
<1>4. read' = read \o new
  BY DEF Dispatch, new
<1>5. /\ read \o new \in Seq(N) /\ Len(read \o new) = Len(read) + Len(new)
      /\ \A i \in 1 .. Len(read) + Len(new) :
           (read \o new)[i] = IF i <= Len(read) THEN read[i] ELSE new[i - Len(read)]
  BY <1>1, <1>3, ConcatProperties
<1>6. /\ Len(read) \in Nat /\ Len(new) \in Nat /\ DOMAIN read = 1 .. Len(read)
      /\ DOMAIN new = 1 .. Len(new) /\ DOMAIN read' = 1 .. Len(read) + Len(new)
  BY <1>1, <1>3, <1>4, <1>5
<1>7. /\ \A i \in 1 .. Len(read) : read'[i] = read[i]
      /\ \A i \in 1 .. Len(new) : read'[Len(read) + i] = new[i]
      /\ \A i \in 1 .. Len(read) + Len(new) : i <= Len(read) \/ i - Len(read) \in 1 .. Len(new)
  BY <1>4, <1>5, <1>6
<1>8. ToSet(read') = ToSet(read) \union S
  <2>1. ASSUME NEW i \in DOMAIN read' PROVE read'[i] \in ToSet(read) \union S
    <3>1. CASE i <= Len(read)
      BY <1>6, <1>7, <3>1 DEF ToSet
    <3>2. CASE i - Len(read) \in 1 .. Len(new)
      <4>1. read'[i] = new[i - Len(read)]
        BY <1>4, <1>5, <1>6, <3>2
      <4> QED BY <1>2, <1>6, <3>2, <4>1 DEF ToSet
    <3> QED BY <1>6, <1>7, <3>1, <3>2
  <2>2. ASSUME NEW i \in DOMAIN read PROVE read[i] \in ToSet(read')
    <3>1. i \in DOMAIN read' /\ read'[i] = read[i]
      BY <1>6, <1>7
    <3> QED BY <3>1 DEF ToSet
  <2>3. ASSUME NEW i \in DOMAIN new PROVE new[i] \in ToSet(read')
    <3>1. Len(read) + i \in DOMAIN read' /\ read'[Len(read) + i] = new[i]
      BY <1>6, <1>7
    <3> QED BY <3>1 DEF ToSet
  <2>4. ToSet(read') \subseteq ToSet(read) \union S
    BY <2>1 DEF ToSet
  <2>5. ToSet(read) \subseteq ToSet(read')
    BY <2>2 DEF ToSet
  <2>6. S \subseteq ToSet(read')
    BY <1>2, <2>3 DEF ToSet
  <2> QED BY <2>4, <2>5, <2>6
<1>9. ASSUME NEW i \in DOMAIN read', NEW j \in DOMAIN read', i < j PROVE read'[i] < read'[j]
  <2>1. CASE j <= Len(read)
    <3>1. i \in DOMAIN read /\ j \in DOMAIN read /\ read'[i] = read[i] /\ read'[j] = read[j]
      BY <1>6, <1>7, <1>9, <2>1
    <3> QED BY <1>9, <3>1 DEF OrderInv, Increasing
  <2>2. CASE i <= Len(read) /\ ~(j <= Len(read))
    <3>1. i \in DOMAIN read /\ read'[i] = read[i] /\ read'[i] \in ToSet(read)
      BY <1>6, <1>7, <2>2 DEF ToSet
    <3>2. j - Len(read) \in DOMAIN new /\ read'[j] = new[j - Len(read)]
      BY <1>4, <1>5, <1>6, <2>2
    <3>3. read'[j] \in S
      BY <1>2, <3>2 DEF ToSet
    <3> QED BY <3>1, <3>3
  <2>3. CASE ~(i <= Len(read))
    <3>1. /\ i - Len(read) \in DOMAIN new /\ read'[i] = new[i - Len(read)]
          /\ j - Len(read) \in DOMAIN new /\ read'[j] = new[j - Len(read)]
          /\ i - Len(read) < j - Len(read)
      BY <1>4, <1>5, <1>6, <1>9, <2>3
    <3> QED BY <1>2, <3>1
  <2> QED BY <1>6, <1>9, <2>1, <2>2, <2>3
<1> QED BY <1>8, <1>9 DEF Increasing

LEMMA CameAre ==
  \A i : /\ i \in Came(since, last)
              <=> i \in present /\ mail[i] # Foreign /\ since < i /\ i <= last
         /\ i \in Came(since, last)'
              <=> i \in present' /\ mail'[i] # Foreign /\ since' < i /\ i <= last'
BY DEF Came, OfPeer

LEMMA ReadsInit == Init => ReadsInv
<1> SUFFICES ASSUME Init PROVE ReadsInv
  OBVIOUS
<1>1. KindInv
  BY DEF Init, KindInv
<1>2. OrderInv
  BY DEF Init, OrderInv, Increasing, ToSet
<1> QED BY <1>1, <1>2 DEF Init, ReadsInv, CalmInv

\* The service, the reader and its position stay as they are.
LEMMA Unread ==
  ASSUME ReadsInv, UNCHANGED << conn, mail, present, history, position >>,
         thread' \in {"connect", "look", "hung", "terminated", "nullUse", "pastEnd"} \union {thread},
         newest' = newest \/ thread' # "fetch",
         reader' = reader \/ (reader' # "open" /\ plugin = "smtp")
  PROVE  ReadsInv'
<1>1. thread' = thread \/ thread' # "fetch"
  OBVIOUS
<1>2. KindInv'
  BY <1>1 DEF ReadsInv, KindInv, plugin, position
<1>3. OrderInv'
  BY <1>1 DEF ReadsInv, OrderInv, position
<1>4. ASSUME reader' = "open", calm'
      PROVE  reader = "open" /\ calm /\ Came(since, last)' = Came(since, last) /\ Waits' = Waits
  BY <1>4 DEF position, Came, OfPeer, Waits
<1>5. CalmInv'
  BY <1>1, <1>4 DEF ReadsInv, CalmInv, plugin, position
<1> QED BY <1>2, <1>3, <1>5 DEF ReadsInv

LEMMA StaysReads ==
  ASSUME ReadsInv,
         \/ Disconnected
         \/ EndsIn("hung") \/ EndsIn("terminated") \/ EndsIn("nullUse") \/ EndsIn("pastEnd")
  PROVE  ReadsInv'
BY Unread DEF Disconnected, EndsIn, service

LEMMA ConnectReads ==
  ASSUME TypeOK, ReadsInv, ConnectSmtp
  PROVE  ReadsInv'
<1>1. plugin = "smtp" /\ thread = "connect" /\ UNCHANGED << conn, service >>
  BY DEF ConnectSmtp
<1>2. ASSUME NEW readerLeft, readerLeft = reader \/ readerLeft = "made", ConnectFails(readerLeft)
      PROVE  ReadsInv'
  <2>1. thread' \in {"look", "hung", "terminated"}
    BY <1>2, PluginsAssumption DEF ConnectFails
  <2> QED BY <1>1, <1>2, <2>1, Unread DEF ConnectFails, service, reading
<1>3. ASSUME reader' = "open", thread' = "look", last' = GetLastMessageUid,
             since' = TakenForKnown, calm' = TRUE, read' = <<>>
      PROVE  ReadsInv'
  <2>1. KindInv'
    BY <1>1, <1>3 DEF ReadsInv, KindInv, plugin, service
  <2>2. /\ last' \in Nat /\ (present # {} => last' \in present)
        /\ (present = {} => last' = 1)
    BY <1>3, NewestFacts
  <2>3. ToSet(read') = {} /\ Increasing(read')
    BY <1>3 DEF ToSet, Increasing
  <2>4. last' <= Len(mail) \/ (last' = 1 /\ mail = <<>>)
    <3>1. CASE present # {}
      BY <2>2, <3>1, Mailbox
    <3>2. CASE present = {} /\ mail # <<>>
      <4>1. Len(mail) >= 1
        BY <3>2 DEF TypeOK
      <4> QED BY <2>2, <3>2, <4>1
    <3> QED BY <2>2, <3>1, <3>2
  <2>5. OrderInv'
    BY <1>1, <1>3, <2>3, <2>4 DEF OrderInv, service
  <2>6. Came(since, last)' = {}
    <3>1. \A i \in present' : i \in Nat
      BY <1>1, Mailbox DEF service
    <3>2. \A i \in present' : ~(since' < i /\ i <= last')
      BY <1>1, <1>3, <2>2, <3>1 DEF TakenForKnown, service
    <3> QED BY <3>2 DEF Came, OfPeer
  <2>7. CalmInv'
    <3>1. thread' # "fetch" /\ present' = present /\ mail' = mail
      BY <1>1, <1>3 DEF service
    <3>2. present # {} => since' <= last' /\ last' \in present'
      BY <1>3, <2>2, <3>1 DEF TakenForKnown
    <3>3. present = {} => Waits'
      BY <1>3, <2>2, <3>1 DEF TakenForKnown, Waits
    <3>4. plugin' = "smtp"
      BY <1>1 DEF plugin
    <3> QED BY <2>3, <2>6, <3>1, <3>2, <3>3, <3>4 DEF CalmInv
  <2> QED BY <2>1, <2>5, <2>7 DEF ReadsInv
<1> QED BY <1>2, <1>3 DEF ConnectSmtp

LEMMA LookReads ==
  ASSUME TypeOK, ReadsInv, LookSmtp
  PROVE  ReadsInv'
<1>1. CASE Disconnected \/ EndsIn("terminated") \/ EndsIn("nullUse")
  BY <1>1, StaysReads
<1>2. CASE /\ GetLastMessageUid # last
           /\ newest' = GetLastMessageUid /\ thread' = "fetch"
           /\ UNCHANGED << conn, service, link, sender, reader, position, copied, result >>
  <2>1. plugin = "smtp"
    BY DEF LookSmtp
  <2>2. KindInv'
    BY <1>2, <2>1 DEF ReadsInv, KindInv, plugin, service, position
  <2>3. last <= Len(mail)
    <3>1. CASE mail = <<>>
      <4>1. present = {}
        BY <3>1, Mailbox
      <4> QED BY <1>2, <4>1, NewestFacts DEF ReadsInv, OrderInv
    <3> QED BY <3>1 DEF ReadsInv, OrderInv
  <2>4. \A i \in present : ~(i > newest')
    BY <1>2, NewestFacts, Mailbox
  <2>5. newest' = 1 \/ newest' <= Len(mail)
    BY <1>2, NewestFacts, Mailbox
  <2>6. OrderInv'
    BY <1>2, <2>3, <2>4, <2>5 DEF ReadsInv, OrderInv, service, position
  <2>7. ASSUME reader = "open", calm PROVE newest' \in present /\ newest' > last
    <3>1. CASE last \in present
      <4>1. newest' \in present /\ last <= newest' /\ newest' # last
        BY <1>2, <3>1, NewestFacts
      <4> QED BY <3>1, <4>1, Mailbox
    <3>2. CASE last = 1
      <4>1. newest' \in present /\ newest' # 1
        BY <1>2, <3>2, NewestFacts
      <4> QED BY <3>2, <4>1, Mailbox
    <3> QED BY <2>1, <2>7, <3>1, <3>2 DEF ReadsInv, CalmInv, Waits
  <2>8. Came(since, last)' = Came(since, last) /\ Waits' = Waits
    BY <1>2 DEF Came, OfPeer, position, service, Waits
  <2>9. CalmInv'
    BY <1>2, <2>7, <2>8 DEF ReadsInv, CalmInv, plugin, position, service
  <2> QED BY <2>2, <2>6, <2>9 DEF ReadsInv
<1> QED BY <1>1, <1>2 DEF LookSmtp

LEMMA FetchReads ==
  ASSUME TypeOK, ReadsInv, FetchSmtp
  PROVE  ReadsInv'
<1> DEFINE low == LowestOf({last, newest})
           high == HighestOf({last, newest})
           first == LowestOf(Fetched)
           X == OfPeer(Fetched \ {first})
<1>1. CASE Disconnected \/ EndsIn("terminated") \/ EndsIn("pastEnd")
  BY <1>1, StaysReads
<1>2. CASE /\ Fetched # {}
           /\ Dispatch(Ascending(X))
           /\ last' = newest /\ newest' = 0 /\ thread' = "look"
           /\ UNCHANGED << conn, service, link, sender, reader, since, calm, result >>
  <2>0. thread = "fetch" /\ plugin = "smtp"
    BY DEF FetchSmtp
  <2>1. /\ last \in Nat /\ newest \in Nat /\ Len(mail) \in Nat
        /\ \A i \in present : i \in Nat /\ 1 <= i /\ i <= Len(mail)
        /\ \A r \in ToSet(read) : r \in Nat
    BY Mailbox
  <2>2. IF last <= newest THEN low = last /\ high = newest ELSE low = newest /\ high = last
    <3>1. low \in {last, newest} /\ low <= last /\ low <= newest
      BY <2>1, LowestFacts
    <3>2. {last, newest} \in SUBSET (0 .. last + newest) /\ last + newest \in Nat
      BY <2>1
    <3>3. high \in {last, newest} /\ last <= high /\ newest <= high
      BY <3>2, HighestFacts
    <3> HIDE DEF low, high
    <3> QED BY <2>1, <3>1, <3>3
  <2>3. \A i : i \in Fetched <=> i \in present /\ low <= i /\ i <= high
    BY DEF Fetched
  <2>4. first \in Fetched /\ \A i \in Fetched : first <= i
    <3>1. Fetched \subseteq Nat
      BY <2>1, <2>3
    <3> QED BY <1>2, <3>1, LowestFacts
  <2> HIDE DEF low, high, first
  <2>5. \A i : i \in X <=> i \in Fetched /\ i # first /\ mail[i] # Foreign
    BY DEF OfPeer
  <2> HIDE DEF X
  <2>6. \A i \in X : i \in present /\ i > last /\ i <= newest
    <3>1. CASE last <= newest
      BY <2>1, <2>2, <2>3, <2>4, <2>5, <3>1
    <3>2. CASE ~(last <= newest)
      <4>1. \A i \in Fetched : ~(i > newest) /\ newest <= i
        BY <2>0, <2>1, <2>2, <2>3, <3>2 DEF ReadsInv, OrderInv
      <4>2. \A i \in Fetched : i = newest
        BY <2>1, <2>3, <4>1
      <4> QED BY <2>4, <2>5, <4>2
    <3> QED BY <3>1, <3>2
  <2>7. Increasing(read') /\ ToSet(read') = ToSet(read) \union X
    <3>1. X \in SUBSET (1 .. Len(mail))
      BY <2>1, <2>6
    <3>2. \A i \in X, r \in ToSet(read) : r < i
      BY <2>1, <2>6 DEF ReadsInv, OrderInv
    <3> QED BY <1>2, <3>1, <3>2, DispatchReads DEF ReadsInv
  <2>8. KindInv'
    BY <1>2, <2>0 DEF ReadsInv, KindInv, plugin, service
  <2>9. OrderInv'
    <3>1. ASSUME NEW i \in present, NEW r \in ToSet(read'), i > newest PROVE i > r
      <4>1. i > last
        BY <2>0, <3>1 DEF ReadsInv, OrderInv
      <4>2. CASE r \in ToSet(read)
        BY <4>1, <4>2 DEF ReadsInv, OrderInv
      <4>3. CASE r \in X
        BY <2>1, <2>6, <3>1, <4>3
      <4> QED BY <2>7, <3>1, <4>2, <4>3
    <3>2. newest <= Len(mail)
      <4>1. Len(mail) >= 1 /\ (newest = 1 \/ newest <= Len(mail))
        BY <2>0, <2>1, <2>3, <2>4 DEF ReadsInv, OrderInv
      <4> QED BY <2>1, <4>1
    <3> QED BY <1>2, <2>7, <3>1, <3>2 DEF OrderInv, service
  <2>10. CalmInv'
    <3> SUFFICES ASSUME reader' = "open", calm'
                 PROVE  /\ ToSet(read') = Came(since, last)' /\ since' <= last'
                        /\ last' \in present'
      BY <1>2, <2>0, <2>8 DEF CalmInv, plugin
    <3>1. /\ ToSet(read) = Came(since, last) /\ since \in Nat
          /\ newest \in present /\ newest > last
          /\ (since <= last /\ last \in present) \/ Waits
      BY <1>2, <2>0, Mailbox DEF ReadsInv, CalmInv
    <3>2. \A i : i \in Fetched <=> i \in present /\ last <= i /\ i <= newest
      BY <2>1, <2>2, <2>3, <3>1
    <3>3. ASSUME NEW i
          PROVE  /\ i \in Came(since, last)' <=> i \in present /\ mail[i] # Foreign /\ since < i /\ i <= newest
                 /\ i \in Came(since, last) <=> i \in present /\ mail[i] # Foreign /\ since < i /\ i <= last
      BY <1>2, CameAre DEF service
    <3>4. since <= newest /\ \A i : i \in Came(since, last)' <=> i \in Came(since, last) \/ i \in X
      <4>1. CASE since <= last /\ last \in present
        <5>1. first = last
          <6>1. last \in Fetched
            BY <2>1, <3>1, <3>2, <4>1
          <6>2. first <= last /\ last <= first /\ first \in Nat
            BY <2>1, <2>4, <3>2, <6>1
          <6> QED BY <2>1, <6>2
        <5>2. ASSUME NEW i PROVE i \in X <=> i \in present /\ mail[i] # Foreign /\ last < i /\ i <= newest
          <6>1. i \in X <=> i \in Fetched /\ i # last /\ mail[i] # Foreign
            BY <2>5, <5>1, Zenon
          <6>2. i \in present => (last < i <=> last <= i /\ i # last)
            BY <2>1
          <6> QED BY <3>2, <6>1, <6>2, Zenon
        <5>3. since <= newest
          BY <2>1, <3>1, <4>1
        <5>4. ASSUME NEW i PROVE i \in Came(since, last)' <=> i \in Came(since, last) \/ i \in X
          <6>1. i \in present => i \in Nat
            BY <2>1
          <6> QED BY <2>1, <3>1, <3>3, <4>1, <5>2, <6>1
        <5> QED BY <5>3, <5>4
      <4>2. CASE Waits
        <5>1. last = 1 /\ since \in present /\ \A i \in present : since <= i
          BY <3>1, <4>2 DEF Waits
        <5>2. first = since
          <6>1. since \in Fetched
            BY <2>1, <3>1, <3>2, <5>1
          <6>2. first <= since /\ since <= first /\ first \in Nat
            BY <2>1, <2>4, <3>2, <5>1, <6>1
          <6> QED BY <2>1, <3>1, <6>2
        <5>3. ASSUME NEW i PROVE i \in X <=> i \in present /\ mail[i] # Foreign /\ since < i /\ i <= newest
          <6>1. i \in X <=> i \in Fetched /\ i # since /\ mail[i] # Foreign
            BY <2>5, <5>2, Zenon
          <6>2. i \in present => (since < i <=> i # since)
            BY <2>1, <3>1, <5>1
          <6>3. i \in present => last <= i
            BY <2>1, <5>1
          <6> QED BY <3>2, <6>1, <6>2, <6>3, Zenon
        <5>4. ASSUME NEW i PROVE i \notin Came(since, last)
          <6>1. i \in present => ~(since < i /\ i <= 1)
            BY <2>1, <5>1
          <6> QED BY <3>3, <5>1, <6>1
        <5>5. since <= newest
          BY <3>1, <5>1
        <5> QED BY <3>3, <5>3, <5>4, <5>5
      <4> QED BY <3>1, <4>1, <4>2
    <3>5. ToSet(read') = Came(since, last)'
      BY <2>7, <3>1, <3>4
    <3>6. since' <= last' /\ last' \in present'
      BY <1>2, <3>1, <3>4 DEF service
    <3> QED BY <3>5, <3>6
  <2> QED BY <2>8, <2>9, <2>10 DEF ReadsInv
<1> QED BY <1>1, <1>2 DEF FetchSmtp

LEMMA PollReads ==
  ASSUME TypeOK, ReadsInv, GetLongPollServer \/ PollVk, plugin = "vk", thread = "look"
  PROVE  ReadsInv'
<1>1. /\ Len(mail) \in Nat /\ last \in Nat /\ since \in Nat
      /\ \A i \in present : i \in Nat /\ 1 <= i /\ i <= Len(mail)
      /\ \A r \in ToSet(read) : r \in Nat /\ r <= Len(mail)
      /\ present = 1 .. Len(mail) /\ last <= Len(mail)
  BY Mailbox DEF ReadsInv, KindInv
<1>2. CASE Disconnected
  BY <1>2, StaysReads
<1>3. CASE GetLongPollServer
  <2>1. KindInv'
    BY <1>1, <1>3 DEF ReadsInv, KindInv, plugin, GetLongPollServer
  <2>2. ToSet(read') = {} /\ Increasing(read')
    BY <1>3 DEF GetLongPollServer, ToSet, Increasing
  <2>3. OrderInv'
    BY <1>1, <1>3, <2>2 DEF OrderInv, GetLongPollServer
  <2>4. Came(since, last)' = {}
    <3>1. \A i \in present : ~(Len(mail) < i)
      BY <1>1
    <3> QED BY <1>3, <3>1 DEF Came, OfPeer, GetLongPollServer
  <2>5. CalmInv'
    BY <1>1, <1>3, <2>2, <2>4 DEF CalmInv, plugin, GetLongPollServer
  <2> QED BY <2>1, <2>3, <2>5 DEF ReadsInv
<1>4. CASE /\ history = "gap" /\ last' = Len(mail) /\ history' = "ok"
           /\ UNCHANGED << conn, net, mail, present, link, thread, sender, reader, newest,
                           since, calm, read, copied, result >>
  <2>1. ~calm
    BY <1>4 DEF ReadsInv, KindInv
  <2>2. KindInv'
    BY <1>1, <1>4 DEF ReadsInv, KindInv, plugin
  <2>3. \A i \in present : ~(i > Len(mail))
    BY <1>1
  <2>4. OrderInv'
    BY <1>1, <1>4, <2>3 DEF ReadsInv, OrderInv
  <2> QED BY <1>4, <2>1, <2>2, <2>4 DEF ReadsInv, CalmInv
<1>5. CASE /\ last' = Len(mail)
           /\ Dispatch(Ascending(OfPeer((last + 1) .. Len(mail)))) /\ UNCHANGED calm
           /\ UNCHANGED << conn, service, link, thread, sender, reader, newest, since, result >>
  <2> DEFINE X == OfPeer((last + 1) .. Len(mail))
  <2>1. \A i : i \in X <=> i \in present /\ mail[i] # Foreign /\ last < i /\ i <= Len(mail)
    BY <1>1 DEF OfPeer
  <2>2. Dispatch(Ascending(X))
    BY <1>5
  <2> HIDE DEF X
  <2>3. Increasing(read') /\ ToSet(read') = ToSet(read) \union X
    <3>1. X \in SUBSET (1 .. Len(mail))
      BY <1>1, <2>1
    <3>2. \A i \in X, r \in ToSet(read) : r < i
      BY <1>1, <2>1 DEF ReadsInv, OrderInv
    <3> QED BY <2>2, <3>1, <3>2, DispatchReads DEF ReadsInv
  <2>4. KindInv'
    BY <1>1, <1>5 DEF ReadsInv, KindInv, plugin, service
  <2>5. \A i \in present : ~(i > Len(mail))
    BY <1>1
  <2>6. OrderInv'
    BY <1>1, <1>5, <2>3, <2>5 DEF OrderInv, service
  <2>7. ASSUME reader = "open", calm PROVE ToSet(read') = Came(since, last)' /\ since <= Len(mail)
    <3>1. ToSet(read) = Came(since, last) /\ since <= last
      BY <2>7 DEF ReadsInv, CalmInv
    <3>2. ASSUME NEW i
          PROVE  i \in Came(since, last)' <=> i \in Came(since, last) \/ i \in X
      <4>1. /\ i \in Came(since, last)' <=> i \in present /\ mail[i] # Foreign /\ since < i /\ i <= Len(mail)
            /\ i \in Came(since, last) <=> i \in present /\ mail[i] # Foreign /\ since < i /\ i <= last
        BY <1>5, CameAre DEF service
      <4>2. i \in present => i \in Nat
        BY <1>1
      <4> QED BY <1>1, <2>1, <3>1, <4>1, <4>2
    <3> QED BY <1>1, <2>3, <3>1, <3>2
  <2>8. CalmInv'
    BY <1>5, <2>7 DEF CalmInv, plugin, service
  <2> QED BY <2>4, <2>6, <2>8 DEF ReadsInv
<1>6. CASE /\ last' = Len(mail) /\ calm' = FALSE /\ UNCHANGED << read, copied >>
           /\ history = "ok"
           /\ UNCHANGED << conn, service, link, thread, sender, reader, newest, since, result >>
  <2>1. KindInv'
    BY <1>1, <1>6 DEF ReadsInv, KindInv, plugin, service
  <2>2. \A i \in present : ~(i > Len(mail))
    BY <1>1
  <2>3. OrderInv'
    BY <1>1, <1>6, <2>2 DEF ReadsInv, OrderInv, service
  <2> QED BY <1>6, <2>1, <2>3 DEF ReadsInv, CalmInv
<1>7. history \in {"ok", "gap", "expired"}
  BY DEF TypeOK
<1> QED BY <1>2, <1>3, <1>4, <1>5, <1>6, <1>7 DEF PollVk

LEMMA ApiReads ==
  ASSUME TypeOK, ReadsInv, ConnectApi \/ LookVk \/ PollVk \/ LookGmail
  PROVE  ReadsInv'
<1>1. CASE Disconnected
  BY <1>1, StaysReads
<1>2. CASE ConnectApi
  <2>1. /\ thread' = "look" /\ reader' = "none" /\ last' = 0 /\ read' = <<>> /\ thread = "connect"
        /\ UNCHANGED << conn, mail, present, history, calm >> /\ plugin \in {"vk", "gmail"}
    BY <1>2 DEF ConnectApi, service
  <2>2. Len(mail) \in Nat
    BY Mailbox
  <2>3. KindInv'
    BY <2>1, <2>2 DEF ReadsInv, KindInv, plugin
  <2>4. OrderInv'
    BY <2>1, <2>2 DEF OrderInv, Increasing, ToSet
  <2> QED BY <2>1, <2>3, <2>4 DEF ReadsInv, CalmInv
<1>3. CASE LookVk
  BY <1>1, <1>3, PollReads DEF LookVk
<1>4. CASE PollVk
  BY <1>4, PollReads DEF PollVk
<1>5. CASE LookGmail
  BY <1>1, <1>5 DEF LookGmail
<1> QED BY <1>2, <1>3, <1>4, <1>5

LEMMA SendReads == ASSUME ReadsInv, Send PROVE ReadsInv'
<1>1. /\ thread' \in {thread, "nullUse", "terminated"}
      /\ UNCHANGED << conn, service, reader, reading >>
  BY DEF Send
<1> QED BY <1>1, Unread DEF service, reading

\* A mail that comes has the number above all others.
LEMMA ArriveReads ==
  ASSUME TypeOK, ReadsInv, NEW m \in Messages \union {Foreign}, Arrive(m)
  PROVE  ReadsInv'
<1> DEFINE new == Len(mail) + 1
<1>1. /\ Len(mail) \in Nat /\ last \in Nat /\ newest \in Nat /\ DOMAIN mail = 1 .. Len(mail)
      /\ \A i \in present : i \in Nat /\ 1 <= i /\ i <= Len(mail)
      /\ \A r \in ToSet(read) : r \in Nat /\ r <= Len(mail)
  BY Mailbox
<1>2. /\ Len(mail') = new /\ DOMAIN mail' = 1 .. new /\ present' = present \union {new}
      /\ \A i \in 1 .. Len(mail) : mail'[i] = mail[i]
  BY AppendProperties DEF Arrive, TypeOK
<1>3. UNCHANGED << conn, thread, reader, position, newest, history >>
  BY DEF Arrive, client, position
<1> HIDE DEF new
<1>4. new \in Nat /\ Len(mail) < new
  BY <1>1 DEF new
<1>5. KindInv'
  <2>1. present = DOMAIN mail => present' = DOMAIN mail'
    BY <1>1, <1>2 DEF new
  <2> QED BY <1>1, <1>2, <1>3, <1>4, <2>1 DEF ReadsInv, KindInv, plugin, position
<1>6. OrderInv'
  <2>1. ASSUME NEW i \in present', NEW r \in ToSet(read), i > last PROVE i > r
    BY <1>1, <1>2, <1>4, <2>1 DEF ReadsInv, OrderInv
  <2>2. last <= Len(mail')
    BY <1>1, <1>2, <1>4 DEF new, ReadsInv, OrderInv
  <2>3. ASSUME thread = "fetch"
        PROVE  /\ newest = 1 \/ newest <= Len(mail')
               /\ \A i \in present' : i > newest => i > last
    BY <1>1, <1>2, <1>4, <2>3 DEF ReadsInv, OrderInv
  <2> QED BY <1>3, <2>1, <2>2, <2>3 DEF ReadsInv, OrderInv, position
<1>7. ASSUME reader = "open", calm
      PROVE  Came(since, last)' = Came(since, last) /\ (Waits => Waits')
  <2>1. ~(since < new /\ new <= last)
    <3>1. CASE Waits
      <4>1. last = 1 /\ since >= 1
        BY <1>1, <3>1 DEF Waits
      <4> QED BY <1>4, <4>1, Mailbox
    <3>2. CASE last <= Len(mail)
      BY <1>1, <1>4, <3>2
    <3> QED BY <1>1, <1>7, <3>1, <3>2, Mailbox DEF ReadsInv, KindInv, CalmInv
  <2>2. ASSUME NEW i PROVE i \in Came(since, last)' <=> i \in Came(since, last)
    <3>1. /\ i \in Came(since, last)' <=> i \in present' /\ mail'[i] # Foreign /\ since < i /\ i <= last
          /\ i \in Came(since, last) <=> i \in present /\ mail[i] # Foreign /\ since < i /\ i <= last
      BY <1>3, CameAre DEF position
    <3>2. i \in present => mail'[i] = mail[i]
      BY <1>1, <1>2
    <3> QED BY <1>2, <2>1, <3>1, <3>2
  <2>3. ASSUME Waits PROVE Waits'
    <3>1. /\ last = 1 /\ \A i \in present : since <= i
          /\ since \in present \/ (present = {} /\ since = Len(mail) + 1)
      BY <2>3 DEF Waits
    <3>2. since <= new /\ since \in present'
      BY <1>1, <1>2, <1>4, <3>1 DEF new
    <3>3. since' = since /\ last' = last
      BY <1>3 DEF position
    <3> QED BY <1>2, <3>1, <3>2, <3>3 DEF Waits
  <2> QED BY <2>2, <2>3
<1>8. CalmInv'
  BY <1>2, <1>3, <1>7 DEF ReadsInv, CalmInv, plugin, position
<1> QED BY <1>5, <1>6, <1>8 DEF ReadsInv

LEMMA ServiceReads == ASSUME TypeOK, ReadsInv, ServiceStep PROVE ReadsInv'
<1>1. CASE NetDown \/ NetUp
  BY <1>1, Unread DEF NetDown, NetUp, client, position
<1>2. ASSUME NEW i \in present, Delete(i) PROVE ReadsInv'
  <2>1. /\ plugin # "vk" /\ present' \subseteq present /\ calm' = FALSE
        /\ UNCHANGED << client, mail, history >>
    BY <1>2 DEF Delete
  <2>2. KindInv'
    BY <2>1 DEF ReadsInv, KindInv, plugin, client
  <2>3. OrderInv'
    BY <2>1 DEF ReadsInv, OrderInv, client
  <2> QED BY <2>1, <2>2, <2>3 DEF ReadsInv, CalmInv
<1>3. ASSUME NEW what \in {"gap", "expired"}, Forget(what) PROVE ReadsInv'
  <2>1. /\ plugin = "vk" /\ calm' = FALSE /\ UNCHANGED << client, mail, present >>
    BY <1>3 DEF Forget
  <2>2. KindInv'
    BY <2>1 DEF ReadsInv, KindInv, plugin, client
  <2>3. OrderInv'
    BY <2>1 DEF ReadsInv, OrderInv, client
  <2> QED BY <2>1, <2>2, <2>3 DEF ReadsInv, CalmInv
<1> QED BY <1>1, <1>2, <1>3, ArriveReads DEF ServiceStep

\* For any number of mails, and whatever is deleted, forgotten or lost in between,
\* a reader hands mails to the channel in the order in which they came and none
\* twice; while nothing is, it leaves out nothing but the first mail that comes
\* into an INBOX which was empty when it was connected.
THEOREM ReaderReadsOnce == Spec => []ReadsEachOnce
<1>1. TypeOK /\ ReadsInv /\ [Next]_vars => ReadsInv'
  <2> SUFFICES ASSUME TypeOK, ReadsInv, [Next]_vars PROVE ReadsInv'
    OBVIOUS
  <2>1. CASE ReceiveStep
    BY <2>1, ConnectReads, LookReads, FetchReads, ApiReads DEF ReceiveStep
  <2>2. CASE UNCHANGED vars
    BY <2>2, Unread DEF vars, position
  <2> QED BY <2>1, <2>2, SendReads, ServiceReads DEF Next
<1>2. ReadsInv => ReadsEachOnce
  BY DEF ReadsInv, OrderInv, CalmInv, ReadsEachOnce, Increasing, Came
<1> QED BY <1>1, <1>2, ReadsInit, PluginsTypeCorrect, PTL DEF Spec
-----------------------------------------------------------------------------
(* What was signed *)

LEMMA AscendingInterval ==
  ASSUME NEW a \in Nat, NEW n \in Nat
  PROVE  Ascending((a + 1) .. n) = [k \in 1 .. (IF a < n THEN n - a ELSE 0) |-> a + k]
<1> DEFINE S == (a + 1) .. n
           c == IF a < n THEN n - a ELSE 0
<1>1. Cardinality(S) = c /\ c \in Nat
  BY FS_Interval
<1>2. ASSUME NEW i \in S PROVE Rank(S, i) = i - a
  <2>1. {j \in S : j <= i} = (a + 1) .. i
    BY <1>2
  <2>2. Cardinality((a + 1) .. i) = i - a
    BY <1>2, FS_Interval
  <2> HIDE DEF S
  <2> QED BY <2>1, <2>2 DEF Rank
<1>3. ASSUME NEW k \in 1 .. c PROVE (CHOOSE i \in S : Rank(S, i) = k) = a + k
  <2>1. a + k \in S /\ Rank(S, a + k) = k
    BY <1>2, <1>3
  <2>2. \A i \in S : Rank(S, i) = k => i = a + k
    BY <1>2, <1>3
  <2> HIDE DEF S
  <2> QED BY <2>1, <2>2
<1> HIDE DEF S, c
<1>4. Ascending(S) = [k \in 1 .. c |-> a + k]
  BY <1>1, <1>3 DEF Ascending
<1> QED BY <1>4 DEF S, c

Values(lines, a, k) == [i \in 1 .. k |-> lines[a + i].val]

LEMMA JoinedInterval ==
  ASSUME NEW lines, NEW a \in Nat, NEW k \in Nat \ {0}
  PROVE  Joined(lines, (a + 1) .. (a + k)) = Values(lines, a, k)
<1> DEFINE S == (a + 1) .. (a + k)
<1>1. S # {} /\ a + k \in Nat /\ a < a + k /\ (a + k) - a = k
  OBVIOUS
<1>2. Ascending(S) = [i \in 1 .. k |-> a + i]
  BY <1>1, AscendingInterval
<1> HIDE DEF S
<1>3. Joined(lines, S) = Values(lines, a, k)
  BY <1>1, <1>2 DEF Joined, Values
<1> QED BY <1>3 DEF S

\* White space at the end goes, once.
LEMMA StrippedFacts ==
  ASSUME NEW T, Blank \in T, NEW s \in Seq(T) \ {<<>>}
  PROVE  /\ Stripped(s) \in Seq(T) \ {<<>>} /\ Len(Stripped(s)) >= 1
         /\ \/ Stripped(s) = Nothing
            \/ /\ Stripped(s)[Len(Stripped(s))] # Blank
               /\ \A i \in DOMAIN Stripped(s) : Stripped(s)[i] \in ToSet(s)
         /\ Stripped(Stripped(s)) = Stripped(s)
<1> DEFINE written(u) == {i \in DOMAIN u : u[i] # Blank}
<1>1. ASSUME NEW u, written(u) = {} PROVE Stripped(u) = Nothing
  BY <1>1 DEF Stripped
<1>2. ASSUME NEW u \in Seq(T), written(u) # {}
      PROVE  \E h \in written(u) : /\ \A i \in written(u) : i <= h
                                   /\ Stripped(u) = SubSeq(u, 1, h)
  <2>1. written(u) \in SUBSET (0 .. Len(u)) /\ Len(u) \in Nat
    OBVIOUS
  <2>2. HighestOf(written(u)) \in written(u) /\ \A i \in written(u) : i <= HighestOf(written(u))
    BY <1>2, <2>1, HighestFacts
  <2>3. Stripped(u) = SubSeq(u, 1, HighestOf(written(u)))
    BY <1>2 DEF Stripped, HighestOf
  <2> QED BY <2>2, <2>3
<1>3. Nothing \in Seq(T) \ {<<>>} /\ Len(Nothing) = 1 /\ DOMAIN Nothing = {1} /\ Nothing[1] = Blank
  BY DEF Nothing
<1>4. CASE written(s) = {}
  <2>1. Stripped(s) = Nothing
    BY <1>1, <1>4
  <2>2. written(Nothing) = {}
    BY <1>3
  <2>3. Stripped(Nothing) = Nothing
    BY <1>1, <2>2
  <2> QED BY <1>3, <2>1, <2>3
<1>5. CASE written(s) # {}
  <2>1. PICK h \in written(s) : /\ \A i \in written(s) : i <= h
                                /\ Stripped(s) = SubSeq(s, 1, h)
    BY <1>2, <1>5
  <2>2. h \in 1 .. Len(s) /\ s[h] # Blank /\ Len(s) \in Nat /\ DOMAIN s = 1 .. Len(s)
    BY <2>1
  <2> DEFINE c == Stripped(s)
  <2>3. c \in Seq(T) /\ Len(c) = h /\ \A i \in 1 .. h : c[i] = s[i]
    <3>1. h \in Int /\ 1 \in Int /\ 1 <= h /\ \A i \in 1 .. h : s[i] \in T
      BY <2>2
    <3>2. /\ SubSeq(s, 1, h) \in Seq(T) /\ Len(SubSeq(s, 1, h)) = h
          /\ \A i \in 1 .. h : SubSeq(s, 1, h)[i] = s[i]
      BY <3>1, SubSeqProperties
    <3> QED BY <2>1, <3>2
  <2> HIDE DEF c
  <2>4. h \in written(c) /\ DOMAIN c = 1 .. h
    BY <2>2, <2>3
  <2>5. PICK g \in written(c) : /\ \A i \in written(c) : i <= g
                                /\ Stripped(c) = SubSeq(c, 1, g)
    BY <1>2, <2>3, <2>4
  <2>6. g = Len(c)
    BY <2>2, <2>3, <2>4, <2>5
  <2>7. Stripped(c) = c
    BY <2>3, <2>5, <2>6, SubSeqFull
  <2>8. \A i \in 1 .. h : s[i] \in ToSet(s)
    BY <2>2 DEF ToSet
  <2>9. c # <<>> /\ Len(c) >= 1 /\ c[Len(c)] # Blank
    BY <2>2, <2>3
  <2> QED BY <2>3, <2>4, <2>7, <2>8, <2>9 DEF c
<1> QED BY <1>4, <1>5

LEMMA PlainsFacts ==
  ASSUME NEW T, NEW s \in Seq(T), NEW S, \A x \in T : Plain(x) \in S
  PROVE  /\ Plains(s) \in Seq(S) /\ Len(Plains(s)) = Len(s)
         /\ \A i \in 1 .. Len(s) : Plains(s)[i] = Plain(s[i])
<1>1. Plains(s) = [i \in 1 .. Len(s) |-> Plain(s[i])] /\ Len(s) \in Nat
  BY DEF Plains
<1>2. \A i \in 1 .. Len(s) : Plain(s[i]) \in S
  OBVIOUS
<1> HIDE DEF Plains
<1>3. Plains(s) \in Seq(S)
  <2>1. [i \in 1 .. Len(s) |-> Plain(s[i])] \in [1 .. Len(s) -> S]
    BY <1>2
  <2> QED BY <1>1, <2>1
<1> QED BY <1>1, <1>3

Concatenated(S, u, v, w) ==
  /\ w \in Seq(S) /\ Len(w) = Len(u) + Len(v)
  /\ \A i \in 1 .. Len(u) : w[i] = u[i]
  /\ \A i \in 1 .. Len(v) : w[Len(u) + i] = v[i]

LEMMA ConcatFacts ==
  ASSUME NEW S, NEW u \in Seq(S), NEW v \in Seq(S)
  PROVE  Concatenated(S, u, v, u \o v)
<1> DEFINE w == u \o v
<1>1. /\ w \in Seq(S) /\ Len(w) = Len(u) + Len(v) /\ Len(u) \in Nat /\ Len(v) \in Nat
      /\ \A i \in 1 .. Len(u) + Len(v) : w[i] = IF i <= Len(u) THEN u[i] ELSE v[i - Len(u)]
  BY ConcatProperties, LenProperties
<1> HIDE DEF w
<1>2. ASSUME NEW i \in 1 .. Len(u) PROVE w[i] = u[i]
  BY <1>1
<1>3. ASSUME NEW i \in 1 .. Len(v) PROVE w[Len(u) + i] = v[i]
  <2>1. Len(u) + i \in 1 .. Len(u) + Len(v) /\ ~(Len(u) + i <= Len(u)) /\ (Len(u) + i) - Len(u) = i
    BY <1>1
  <2> QED BY <1>1, <2>1
<1>4. Concatenated(S, u, v, w)
  BY <1>1, <1>2, <1>3 DEF Concatenated
<1> QED BY <1>4 DEF w

\* The lines of a marshalled message: seven fields, the rest of the signature,
\* the delimiter, the content.
Written(m, sign, c, t) ==
  /\ Len(t) = 7 + Len(sign) + Len(c) /\ DOMAIN t = 1 .. 7 + Len(sign) + Len(c)
  /\ t[3].val = m.action /\ t[4].val = m.sequential
  /\ t[5].val = m.dialogId /\ t[6].val = m.timestamp
  /\ \A i \in 1 .. Len(sign) : t[6 + i].val = sign[i]
  /\ \A i \in 2 .. Len(sign) : t[6 + i] = Plain(sign[i])
  /\ t[7 + Len(sign)] = Plain(BodyDelitimer)
  /\ \A i \in 1 .. Len(c) : t[7 + Len(sign) + i] = Plain(c[i])

LEMMA TextFacts ==
  ASSUME NEW m, NEW T, Blank \in T, NEW sign \in Seq(T) \ {<<>>}, Stripped(m.content) \in Seq(T)
  PROVE  Written(m, sign, Stripped(m.content), Text(m, sign))
<1> SUFFICES ASSUME NEW c \in Seq(T), c = Stripped(m.content), NEW p, p = Len(sign)
             PROVE  Written(m, sign, c, Text(m, sign))
  BY Zenon
<1> DEFINE fields == << Header, Field("VERSION", Version), Field("ACTION", m.action),
                        Field("SEQUENTAL_NUMBER", m.sequential), Field("DIALOG", m.dialogId),
                        Field("TIMESTAMP", m.timestamp), Field("SIGNATURE", sign[1]) >>
           S == {fields[i] : i \in 1 .. 7} \union {Plain(BodyDelitimer)} \union {Plain(x) : x \in T}
           rest == Plains(Tail(sign))
           bar == <<Plain(BodyDelitimer)>>
           body == Plains(c)
<1>1. p \in Nat /\ p >= 1 /\ Len(c) \in Nat
  OBVIOUS
<1>2. fields \in Seq(S) /\ Len(fields) = 7
  OBVIOUS
<1>3. /\ fields[3].val = m.action /\ fields[4].val = m.sequential /\ fields[5].val = m.dialogId
      /\ fields[6].val = m.timestamp /\ fields[7].val = sign[1]
  BY DEF Field
<1>4. \A x \in T : Plain(x) \in S
  OBVIOUS
<1>5. bar \in Seq(S) /\ Len(bar) = 1 /\ bar[1] = Plain(BodyDelitimer)
  OBVIOUS
<1> HIDE DEF fields, S
<1>6. /\ rest \in Seq(S) /\ Len(rest) = p - 1
      /\ \A i \in 1 .. p - 1 : rest[i] = Plain(sign[i + 1])
  <2> DEFINE u == Tail(sign)
  <2>1. u \in Seq(T) /\ Len(u) = p - 1 /\ \A i \in 1 .. p - 1 : u[i] = sign[i + 1]
    BY HeadTailProperties
  <2>2. Plains(u) = rest
    OBVIOUS
  <2> HIDE DEF u, rest
  <2>3. /\ Plains(u) \in Seq(S) /\ Len(Plains(u)) = Len(u)
        /\ \A i \in 1 .. Len(u) : Plains(u)[i] = Plain(u[i])
    BY <1>4, <2>1, PlainsFacts
  <2> QED BY <2>1, <2>2, <2>3
<1>7. /\ body \in Seq(S) /\ Len(body) = Len(c) /\ \A i \in 1 .. Len(c) : body[i] = Plain(c[i])
  BY <1>4, PlainsFacts
<1> DEFINE left == fields \o rest
           head == left \o bar
           t == head \o body
<1>8. Text(m, sign) = t
  BY DEF Text, fields
<1> HIDE DEF rest, bar, body
<1>a. /\ fields \in Seq(S) /\ rest \in Seq(S) => Concatenated(S, fields, rest, left)
      /\ left \in Seq(S) /\ bar \in Seq(S) => Concatenated(S, left, bar, head)
      /\ head \in Seq(S) /\ body \in Seq(S) => Concatenated(S, head, body, t)
  BY ConcatFacts, Zenon
<1> HIDE DEF left, head, t
<1>9. /\ left \in Seq(S) /\ Len(left) = 7 + (p - 1)
      /\ \A i \in 1 .. 7 : left[i] = fields[i]
      /\ \A i \in 1 .. p - 1 : left[7 + i] = rest[i]
  BY <1>2, <1>6, <1>a DEF Concatenated
<1>10. /\ head \in Seq(S) /\ Len(head) = 7 + p /\ head[7 + p] = Plain(BodyDelitimer)
       /\ \A i \in 1 .. 6 + p : head[i] = left[i]
  <2>1. Len(left) = 6 + p
    BY <1>1, <1>9
  <2>2. 1 \in 1 .. Len(bar) /\ (6 + p) + 1 = 7 + p
    BY <1>1, <1>5
  <2>3. Concatenated(S, left, bar, head)
    BY <1>5, <1>9, <1>a
  <2>4. head \in Seq(S) /\ Len(head) = 7 + p /\ \A i \in 1 .. 6 + p : head[i] = left[i]
    BY <1>1, <1>5, <2>1, <2>3 DEF Concatenated
  <2>5. head[(6 + p) + 1] = bar[1]
    BY <2>1, <2>2, <2>3 DEF Concatenated
  <2> QED BY <1>5, <2>2, <2>4, <2>5
<1>11. /\ Len(t) = 7 + p + Len(c) /\ DOMAIN t = 1 .. 7 + p + Len(c)
       /\ \A i \in 1 .. 7 + p : t[i] = head[i]
       /\ \A i \in 1 .. Len(c) : t[7 + p + i] = body[i]
  <2>1. Concatenated(S, head, body, t)
    BY <1>7, <1>10, <1>a
  <2> QED BY <1>7, <1>10, <2>1, LenProperties DEF Concatenated
<1>12. \A i \in 1 .. 7 : t[i] = fields[i]
  <2>1. \A i \in 1 .. 7 : i \in 1 .. 6 + p /\ i \in 1 .. 7 + p
    BY <1>1
  <2> QED BY <1>9, <1>10, <1>11, <2>1
<1>13. \A i \in 2 .. p : t[6 + i] = Plain(sign[i])
  <2> SUFFICES ASSUME NEW i \in 2 .. p PROVE t[6 + i] = Plain(sign[i])
    OBVIOUS
  <2>1. 6 + i \in 1 .. 6 + p /\ 6 + i \in 1 .. 7 + p
    BY <1>1
  <2>2. i - 1 \in 1 .. p - 1 /\ (i - 1) + 1 = i /\ 7 + (i - 1) = 6 + i
    BY <1>1
  <2>3. left[6 + i] = rest[i - 1]
    BY <1>9, <2>2
  <2> QED BY <1>6, <1>10, <1>11, <2>1, <2>2, <2>3
<1>14. t[7 + p] = Plain(BodyDelitimer)
  <2>1. 7 + p \in 1 .. 7 + p
    BY <1>1
  <2> QED BY <1>10, <1>11, <2>1
<1>15. \A i \in 1 .. Len(c) : t[7 + p + i] = Plain(c[i])
  BY <1>7, <1>11
<1>16. \A i \in 1 .. p : t[6 + i].val = sign[i]
  <2>1. \A x : Plain(x).val = x
    BY DEF Plain
  <2>2. t[7].val = sign[1]
    BY <1>3, <1>12
  <2> QED BY <1>1, <1>13, <2>1, <2>2
<1>17. t[3] = fields[3] /\ t[4] = fields[4] /\ t[5] = fields[5] /\ t[6] = fields[6]
  BY <1>12
<1>18. Written(m, sign, c, t)
  BY <1>3, <1>11, <1>13, <1>14, <1>15, <1>16, <1>17 DEF Written
<1> QED BY <1>8, <1>18, Zenon

\* What the parser finds in the lines of a marshalled message.
LEMMA LinesFacts ==
  ASSUME NEW m, NEW T, Blank \in T,
         m.content \in Seq(T) \ {<<>>}, m.sign \in Seq(T) \ {<<>>},
         BodyDelitimer \notin ToSet(m.sign),
         NEW lines, lines = Lines(Marshall(m))
  PROVE  /\ Len(lines) >= 8 /\ DOMAIN lines = 1 .. Len(lines)
         /\ lines[3].val = m.action /\ lines[4].val = m.sequential
         /\ lines[5].val = m.dialogId /\ lines[6].val = m.timestamp
         /\ Signature(lines) = m.sign
         /\ BodyDelitimer \notin ToSet(m.content) => Content(lines) = Stripped(m.content)
<1> DEFINE t == Marshall(m)
           p == Len(m.sign)
           c == Stripped(m.content)
           n == Len(lines)
<1>1. /\ c \in Seq(T) \ {<<>>} /\ Len(c) >= 1 /\ Len(c) \in Nat /\ DOMAIN c = 1 .. Len(c)
      /\ c = Nothing \/ (c[Len(c)] # Blank /\ \A i \in DOMAIN c : c[i] \in ToSet(m.content))
  <2>1. Stripped(m.content) \in Seq(T) \ {<<>>}
    BY StrippedFacts
  <2> QED BY <2>1, StrippedFacts, LenProperties
<1>2. p \in Nat /\ p >= 1 /\ m.sign = [k \in 1 .. p |-> m.sign[k]]
  <2>1. m.sign \in Seq(T) /\ m.sign # <<>>
    OBVIOUS
  <2>2. p \in Nat /\ p # 0 /\ m.sign \in [1 .. p -> T]
    BY <2>1, LenProperties, EmptySeq
  <2> QED BY <2>2
<1>3. /\ Len(t) = 7 + p + Len(c) /\ DOMAIN t = 1 .. 7 + p + Len(c)
      /\ t[3].val = m.action /\ t[4].val = m.sequential
      /\ t[5].val = m.dialogId /\ t[6].val = m.timestamp
      /\ \A i \in 1 .. p : t[6 + i].val = m.sign[i]
      /\ \A i \in 2 .. p : t[6 + i] = Plain(m.sign[i])
      /\ t[7 + p] = Plain(BodyDelitimer)
      /\ \A i \in 1 .. Len(c) : t[7 + p + i] = Plain(c[i])
  <2>1. c \in Seq(T) /\ m.sign \in Seq(T) \ {<<>>}
    BY <1>1
  <2>2. Written(m, m.sign, c, t)
    BY <2>1, TextFacts, Zenon DEF Marshall
  <2> HIDE DEF c, t
  <2> QED BY <2>2 DEF Written
<1>4. \A x, y : Plain(x) = Plain(y) => x = y
  <2>1. \A x : Plain(x).val = x
    BY DEF Plain
  <2> QED BY <2>1
<1> HIDE DEF t, c, p
<1>5. Nothing[1] = Blank /\ Len(Nothing) = 1
  BY DEF Nothing
<1>6. /\ n = IF c = Nothing THEN 7 + p ELSE 7 + p + Len(c)
      /\ DOMAIN lines = 1 .. n /\ n \in Nat /\ \A i \in 1 .. n : lines[i] = t[i]
  <2>1. lines = IF t # <<>> /\ t[Len(t)] = Plain(Blank) THEN SubSeq(t, 1, Len(t) - 1) ELSE t
    BY DEF Lines, Last, Front, t
  <2>2. t # <<>> /\ Len(t) \in Nat /\ t[Len(t)] = Plain(c[Len(c)])
    <3>1. Len(c) \in 1 .. Len(c) /\ 3 \in DOMAIN t
      BY <1>1, <1>2, <1>3
    <3>2. t # <<>>
      BY <3>1
    <3> QED BY <1>1, <1>2, <1>3, <3>1, <3>2
  <2>3. CASE c = Nothing
    <3>1. Len(c) = 1 /\ c[Len(c)] = Blank /\ Len(t) - 1 = 7 + p
      <4>1. Len(c) = 1 /\ c[1] = Blank
        BY <1>5, <2>3
      <4>2. Len(t) = 7 + p + Len(c)
        BY <1>3
      <4> QED BY <1>2, <4>1, <4>2
    <3>2. lines = SubSeq(t, 1, 7 + p)
      BY <2>1, <2>2, <3>1
    <3> DEFINE S == {t[j] : j \in 1 .. 7 + p}
    <3>3. 1 \in Int /\ 7 + p \in Int /\ 7 + p \in Nat /\ 1 <= 7 + p /\ \A i \in 1 .. 7 + p : t[i] \in S
      BY <1>2
    <3> HIDE DEF S
    <3>4. /\ lines \in Seq(S) /\ Len(lines) = 7 + p
          /\ \A i \in 1 .. 7 + p : lines[i] = t[i]
      BY <3>2, <3>3, SubSeqProperties
    <3> QED BY <2>3, <3>3, <3>4, LenProperties
  <2>4. CASE c # Nothing
    <3>1. lines = t
      BY <1>1, <1>4, <2>1, <2>2, <2>4
    <3> QED BY <1>1, <1>2, <1>3, <2>4, <3>1
  <2> QED BY <2>3, <2>4
<1> HIDE DEF n
<1>7. n >= 7 + p /\ \A i \in 1 .. 7 + p : lines[i] = t[i] /\ i \in 1 .. n
  BY <1>1, <1>2, <1>6
<1>8. BodyAt(lines) = 7 + p
  <2> DEFINE D == {i \in DOMAIN lines : i >= 8 /\ IsDelimiter(lines[i])}
  <2>1. 7 + p \in D
    <3>1. 7 + p \in DOMAIN lines /\ 7 + p >= 8 /\ lines[7 + p] = Plain(BodyDelitimer)
      BY <1>2, <1>3, <1>6, <1>7
    <3> QED BY <3>1 DEF IsDelimiter
  <2>2. ASSUME NEW i \in D PROVE i \in Nat /\ 7 + p <= i
    <3>1. i \in Nat /\ i >= 8 /\ lines[i] = Plain(BodyDelitimer)
      BY <1>6 DEF IsDelimiter
    <3>2. ASSUME i < 7 + p PROVE FALSE
      <4>1. i - 6 \in 2 .. p /\ 6 + (i - 6) = i /\ i \in 1 .. 7 + p
        BY <1>2, <3>1, <3>2
      <4>2. Plain(m.sign[i - 6]) = Plain(BodyDelitimer)
        BY <1>3, <1>7, <3>1, <4>1
      <4>3. m.sign[i - 6] = BodyDelitimer
        BY <1>4, <4>2
      <4>4. i - 6 \in DOMAIN m.sign
        BY <1>2, <4>1
      <4> QED BY <4>3, <4>4 DEF ToSet
    <3> QED BY <1>2, <3>1, <3>2
  <2>3. BodyAt(lines) = LowestOf(D)
    BY <2>1 DEF BodyAt, LowestOf
  <2> HIDE DEF D
  <2>4. LowestOf(D) \in D /\ \A i \in D : LowestOf(D) <= i
    <3>1. D \subseteq Nat /\ D # {}
      BY <2>1, <2>2
    <3> QED BY <3>1, LowestFacts
  <2> QED BY <1>2, <2>1, <2>2, <2>3, <2>4
<1>9. Signature(lines) = m.sign
  <2>1. {i \in DOMAIN lines : 7 <= i /\ i < BodyAt(lines)} = (6 + 1) .. (6 + p)
    BY <1>2, <1>6, <1>7, <1>8
  <2>2. Joined(lines, (6 + 1) .. (6 + p)) = Values(lines, 6, p)
    <3>1. 6 \in Nat /\ p \in Nat \ {0}
      BY <1>2
    <3> QED BY <3>1, JoinedInterval
  <2>3. \A k \in 1 .. p : lines[6 + k].val = m.sign[k]
    BY <1>2, <1>3, <1>7
  <2> QED BY <1>2, <2>1, <2>2, <2>3 DEF Signature, Values
<1>10. ASSUME BodyDelitimer \notin ToSet(m.content) PROVE Content(lines) = c
  <2> DEFINE N == {i \in DOMAIN lines : BodyAt(lines) < i /\ ~IsDelimiter(lines[i])}
  <2>1. CASE c = Nothing
    <3>1. N = {}
      BY <1>2, <1>6, <1>8, <2>1
    <3> HIDE DEF N
    <3>2. Joined(lines, N) = Nothing
      BY <3>1 DEF Joined
    <3> QED BY <2>1, <3>2 DEF Content, N
  <2>2. CASE c # Nothing
    <3>1. \A i \in DOMAIN c : lines[7 + p + i] = Plain(c[i]) /\ c[i] # BodyDelitimer
      <4>1. \A i \in 1 .. Len(c) : 7 + p + i \in 1 .. n
        BY <1>1, <1>2, <1>6, <2>2
      <4>2. \A i \in 1 .. Len(c) : c[i] # BodyDelitimer
        BY <1>1, <1>10, <2>2
      <4> QED BY <1>1, <1>3, <1>6, <4>1, <4>2
    <3>2. \A i \in DOMAIN c : ~IsDelimiter(lines[7 + p + i])
      BY <1>4, <3>1 DEF IsDelimiter
    <3>3. n = 7 + p + Len(c)
      BY <1>6, <2>2
    <3>4. N = (7 + p + 1) .. n
      <4>1. ASSUME NEW i \in (7 + p + 1) .. n PROVE i \in N
        <5>1. i - (7 + p) \in DOMAIN c /\ 7 + p + (i - (7 + p)) = i
          BY <1>1, <1>2, <1>6, <3>3
        <5>2. ~IsDelimiter(lines[i])
          BY <3>2, <5>1
        <5>3. i \in 1 .. n /\ 7 + p < i
          BY <1>2, <1>6
        <5> QED BY <1>6, <1>8, <5>2, <5>3
      <4>2. ASSUME NEW i \in N PROVE i \in (7 + p + 1) .. n
        BY <1>2, <1>6, <1>8
      <4> QED BY <4>1, <4>2
    <3> HIDE DEF N
    <3>5. Joined(lines, (7 + p + 1) .. (7 + p + Len(c))) = Values(lines, 7 + p, Len(c))
      <4>1. 7 + p \in Nat /\ Len(c) \in Nat \ {0}
        BY <1>1, <1>2
      <4> QED BY <4>1, JoinedInterval
    <3>7. \A k \in 1 .. Len(c) : lines[7 + p + k].val = c[k]
      <4>1. \A x : Plain(x).val = x
        BY DEF Plain
      <4> QED BY <1>1, <3>1, <4>1
    <3>8. c = [k \in 1 .. Len(c) |-> c[k]]
      BY <1>1
    <3>9. Joined(lines, N) = c
      BY <3>3, <3>4, <3>5, <3>7, <3>8 DEF Values
    <3> QED BY <3>9 DEF Content, N
  <2> QED BY <2>1, <2>2
<1>11. n >= 8 /\ \A i \in 1 .. 7 : lines[i] = t[i]
  BY <1>2, <1>7
<1> QED BY <1>3, <1>6, <1>9, <1>10, <1>11 DEF c, n

\* A message that was marshalled and is read again, by anybody, is refused or
\* has the signature it had; unless a line of its text is the delimiter, it is
\* checked against what was signed.
THEOREM MarshalledIsRead ==
  ASSUME NEW m \in Messages, NEW address
  PROVE  LET d == Unmarshall(Marshall(m), address)
         IN  \/ d = NoMessage
             \/ /\ d.sign = m.sign /\ d.adress = address
                /\ BodyDelitimer \notin ToSet(m.content)
                     => MarshallExceptSignature(d) = MarshallExceptSignature(m)
<1> DEFINE T == STRING \union {Blank}
           text == Marshall(m)
           lines == Lines(text)
           d == Unmarshall(text, address)
<1>1. /\ m.content \in Seq(T) \ {<<>>} /\ m.sign \in Seq(T) \ {<<>>} /\ Blank \in T
      /\ BodyDelitimer \notin ToSet(m.sign)
  <2>1. /\ m.content \in Seq(STRING) /\ m.content # <<>> /\ m.sign \in Seq(STRING) /\ m.sign # <<>>
        /\ BodyDelitimer \notin ToSet(m.sign)
    BY PluginsAssumption, Zenon
  <2>2. STRING \subseteq T /\ Blank \in T
    OBVIOUS
  <2> HIDE DEF T
  <2> QED BY <2>1, <2>2, SeqMonotonic
<1> HIDE DEF T
<1>2. /\ Len(lines) >= 8 /\ DOMAIN lines = 1 .. Len(lines)
      /\ lines[3].val = m.action /\ lines[4].val = m.sequential
      /\ lines[5].val = m.dialogId /\ lines[6].val = m.timestamp
      /\ Signature(lines) = m.sign
      /\ BodyDelitimer \notin ToSet(m.content) => Content(lines) = Stripped(m.content)
  BY <1>1, LinesFacts
<1>3. Stripped(Stripped(m.content)) = Stripped(m.content)
  BY <1>1, StrippedFacts
<1>4. \/ d = NoMessage
      \/ d = DialogMessage(IF 3 \in DOMAIN lines THEN lines[3].val ELSE Unset, Stripped(Content(lines)),
                           IF 5 \in DOMAIN lines THEN lines[5].val ELSE Blank, address,
                           IF 4 \in DOMAIN lines THEN lines[4].val ELSE "0", Signature(lines),
                           IF 6 \in DOMAIN lines THEN lines[6].val ELSE Unset)
  <2> HIDE DEF text
  <2> QED BY DEF Unmarshall
<1>5. 3 \in DOMAIN lines /\ 4 \in DOMAIN lines /\ 5 \in DOMAIN lines /\ 6 \in DOMAIN lines
  <2> HIDE DEF lines
  <2>1. \A i \in {3, 4, 5, 6} : i \in 1 .. Len(lines)
    BY <1>2, LenProperties
  <2> QED BY <1>2, <2>1
<1> HIDE DEF text, lines, d
<1>6. ASSUME d # NoMessage
      PROVE  /\ d.sign = m.sign /\ d.adress = address
             /\ BodyDelitimer \notin ToSet(m.content)
                  => MarshallExceptSignature(d) = MarshallExceptSignature(m)
  <2>1. d = DialogMessage(m.action, Stripped(Content(lines)), m.dialogId, address, m.sequential,
                          m.sign, m.timestamp)
    BY <1>2, <1>4, <1>5, <1>6
  <2>2. /\ d.action = m.action /\ d.dialogId = m.dialogId /\ d.sequential = m.sequential
        /\ d.timestamp = m.timestamp /\ d.content = Stripped(Content(lines))
        /\ d.sign = m.sign /\ d.adress = address
    BY <2>1 DEF DialogMessage
  <2>3. ASSUME BodyDelitimer \notin ToSet(m.content)
        PROVE  MarshallExceptSignature(d) = MarshallExceptSignature(m)
    <3>1. Stripped(d.content) = Stripped(m.content)
      BY <1>2, <1>3, <2>2, <2>3
    <3> QED BY <2>2, <3>1 DEF MarshallExceptSignature, Text
  <2> QED BY <2>2, <2>3
<1> QED BY <1>6 DEF d, text

\* What a freed string leaves is not taken for a signed message.
LEMMA FreedIsUnsigned ==
  ASSUME NEW body, NEW outcome \in {"garbled", "empty"}, NEW address
  PROVE  Unmarshall(Copied(body, outcome), address).sign = Nothing
<1>1. NoMessage.sign = Nothing
  BY DEF NoMessage, DialogMessage
<1>2. ASSUME NEW text, Lines(text) = <<>> PROVE Unmarshall(text, address).sign = Nothing
  <2>1. Signature(<<>>) = Nothing
    BY DEF Signature, Joined
  <2> QED BY <1>1, <1>2, <2>1 DEF Unmarshall, DialogMessage
<1>3. CASE outcome = "empty"
  <2>1. Copied(body, outcome) = <<>> /\ Lines(<<>>) = <<>>
    BY <1>3 DEF Copied, Lines
  <2> QED BY <1>2, <2>1
<1>4. CASE outcome = "garbled"
  <2> DEFINE text == << Plain("bytes") >>
  <2>1. Copied(body, outcome) = text
    BY <1>4 DEF Copied
  <2>2. Lines(text) = <<>> \/ Lines(text) = text
    BY DEF Lines, Last, Front
  <2>3. CASE Lines(text) = text
    <3>1. 1 \in DOMAIN text \cap (1 .. 7) /\ text[1] = Plain("bytes")
      OBVIOUS
    <3>2. ~PrepareLine(1, Plain("bytes"))
      <4>1. Plain("bytes").val = "bytes" /\ Header.val = "SECURE DIALOG MESSAGE"
        BY DEF Header, Plain
      <4>2. "bytes" # "SECURE DIALOG MESSAGE"
        OBVIOUS
      <4>3. Plain("bytes") # Header
        BY <4>1, <4>2, Zenon
      <4> QED BY <4>3 DEF PrepareLine
    <3> HIDE DEF text
    <3> QED BY <1>1, <2>1, <2>3, <3>1, <3>2 DEF Unmarshall
  <2> QED BY <1>2, <2>1, <2>2, <2>3
<1> QED BY <1>3, <1>4

CopiedInv == \A c \in copied : mail[c.number] # Foreign

LEMMA DispatchCopies ==
  ASSUME TypeOK, NEW S \in SUBSET (1 .. Len(mail)), \A i \in S : mail[i] # Foreign,
         Dispatch(Ascending(S)), mail' = mail
  PROVE  CopiedInv'
<1>1. Len(mail) \in Nat
  BY DEF TypeOK
<1>2. ToSet(Ascending(S)) = S
  BY <1>1, AscendingFacts
<1>3. PICK outcome \in [S -> MemoryOutcomes] :
        copied' = {[number |-> i, outcome |-> outcome[i]] : i \in S}
  BY <1>2 DEF Dispatch
<1>4. \A c \in copied' : c.number \in S
  BY <1>3
<1> QED BY <1>4 DEF CopiedInv

LEMMA CopiedNext ==
  ASSUME TypeOK, CopiedInv, [Next]_vars
  PROVE  CopiedInv'
<1>1. CASE UNCHANGED << mail, copied >>
  BY <1>1 DEF CopiedInv
<1>2. CASE FetchSmtp
  <2>1. CASE Disconnected \/ EndsIn("terminated") \/ EndsIn("pastEnd")
    BY <1>1, <2>1 DEF Disconnected, EndsIn, service
  <2>2. CASE Dispatch(Ascending(OfPeer(Fetched \ {LowestOf(Fetched)}))) /\ UNCHANGED service
    <3> DEFINE S == OfPeer(Fetched \ {LowestOf(Fetched)})
    <3>1. S \in SUBSET (1 .. Len(mail)) /\ \A i \in S : mail[i] # Foreign
      BY DEF OfPeer, Fetched, TypeOK
    <3>2. Dispatch(Ascending(S)) /\ mail' = mail
      BY <2>2 DEF service
    <3> HIDE DEF S
    <3> QED BY <3>1, <3>2, DispatchCopies
  <2> QED BY <1>2, <2>1, <2>2 DEF FetchSmtp
<1>3. CASE PollVk
  <2>1. CASE Disconnected \/ GetLongPollServer \/ UNCHANGED << mail, copied >>
    BY <1>1, <2>1 DEF Disconnected, GetLongPollServer, service
  <2>2. CASE Dispatch(Ascending(OfPeer((last + 1) .. Len(mail)))) /\ UNCHANGED service
    <3> DEFINE S == OfPeer((last + 1) .. Len(mail))
    <3>1. S \in SUBSET (1 .. Len(mail)) /\ \A i \in S : mail[i] # Foreign
      BY DEF OfPeer, TypeOK
    <3>2. Dispatch(Ascending(S)) /\ mail' = mail
      BY <2>2 DEF service
    <3> HIDE DEF S
    <3> QED BY <3>1, <3>2, DispatchCopies
  <2>3. CASE UNCHANGED << read, copied >> /\ UNCHANGED service
    BY <1>1, <2>3 DEF service
  <2> QED BY <1>3, <2>1, <2>2, <2>3 DEF PollVk
<1>4. ASSUME NEW m \in Messages \union {Foreign}, Arrive(m) PROVE CopiedInv'
  <2>1. copied' = copied /\ \A i \in DOMAIN mail : mail'[i] = mail[i]
    BY <1>4, AppendProperties DEF Arrive, client, TypeOK
  <2>2. \A c \in copied : c.number \in DOMAIN mail
    BY DEF TypeOK
  <2> QED BY <2>1, <2>2 DEF CopiedInv
<1>5. CASE ConnectSmtp \/ LookSmtp
  BY <1>1, <1>5 DEF ConnectSmtp, LookSmtp, Disconnected, EndsIn, service
<1>6. CASE ConnectApi \/ LookVk \/ LookGmail
  BY <1>1, <1>6 DEF ConnectApi, LookVk, LookGmail, GetLongPollServer, Disconnected, service
<1>7. CASE Send
  BY <1>1, <1>7 DEF Send, service
<1>8. CASE ServiceStep
  <2>1. ASSUME NEW i \in present, Delete(i) PROVE CopiedInv'
    BY <1>1, <2>1 DEF Delete, client
  <2>2. ASSUME NEW what \in {"gap", "expired"}, Forget(what) PROVE CopiedInv'
    BY <1>1, <2>2 DEF Forget, client
  <2>3. CASE NetDown \/ NetUp
    BY <1>1, <2>3 DEF NetDown, NetUp, client
  <2> QED BY <1>4, <1>8, <2>1, <2>2, <2>3 DEF ServiceStep
<1>9. CASE UNCHANGED vars
  BY <1>1, <1>9 DEF vars
<1> QED BY <1>2, <1>3, <1>5, <1>6, <1>7, <1>8, <1>9 DEF Next, ReceiveStep

LEMMA CopiedSurvives ==
  ASSUME TypeOK, CopiedInv
  PROVE  SignedTextSurvives
<1> SUFFICES ASSUME NEW c \in copied,
                    NEW d, d = Unmarshall(Copied(MailOf(mail[c.number]), c.outcome), Peer),
                    d # NoMessage, d.sign # Nothing
             PROVE  \E m \in ToSet(mail) \ {Foreign} :
                      /\ d.sign = m.sign /\ d.adress = Peer
                      /\ BodyDelitimer \notin ToSet(m.content)
                           => MarshallExceptSignature(d) = MarshallExceptSignature(m)
  BY DEF SignedTextSurvives, Dispatched
<1>1. /\ mail[c.number] \in Messages /\ mail[c.number] \in ToSet(mail) \ {Foreign}
      /\ c.outcome \in {"kept", "garbled", "empty"}
  <2>1. c.number \in DOMAIN mail /\ c.outcome \in MemoryOutcomes
    BY DEF TypeOK
  <2>2. mail[c.number] \in Messages \union {Foreign} /\ mail[c.number] \in ToSet(mail)
    BY <2>1 DEF TypeOK, ToSet
  <2> QED BY <2>1, <2>2, PluginsAssumption DEF CopiedInv
<1>2. c.outcome = "kept"
  BY <1>1, FreedIsUnsigned
<1>3. Copied(MailOf(mail[c.number]), c.outcome) = Marshall(mail[c.number])
  BY <1>2 DEF Copied, MailOf, Base64Encode, Base64Decode
<1>4. /\ d.sign = mail[c.number].sign /\ d.adress = Peer
      /\ BodyDelitimer \notin ToSet(mail[c.number].content)
           => MarshallExceptSignature(d) = MarshallExceptSignature(mail[c.number])
  BY <1>1, <1>3, MarshalledIsRead
<1> QED BY <1>1, <1>4

\* For any messages, and whatever the memory of a freed string holds: what is
\* dispatched with a signature has the signature of a message that was sent,
\* and is checked against what its sender signed, unless a line of the text is
\* the delimiter.
THEOREM SignaturesSurvive == Spec => []SignedTextSurvives
<1>1. Init => CopiedInv
  BY DEF Init, CopiedInv
<1>2. TypeOK /\ CopiedInv /\ [Next]_vars => CopiedInv'
  BY CopiedNext
<1>3. TypeOK /\ CopiedInv => SignedTextSurvives
  BY CopiedSurvives
<1> QED BY <1>1, <1>2, <1>3, PluginsTypeCorrect, PTL DEF Spec
-----------------------------------------------------------------------------
(* A discovery *)

\* The name and the key of a discovery arrive, if no character of the name
\* occurs in the delimiter.
THEOREM DiscoveryIsRead ==
  ASSUME NEW C, ToSet(ContentDelitimer) \subseteq C, NEW name \in Seq(C), NEW key \in Seq(C),
         ToSet(name) \cap ToSet(ContentDelitimer) = {}
  PROVE  GetNameAndPublickKey(DiscoverContent(name, key))
           = [thrown |-> FALSE, name |-> name, key |-> key]
<1> DEFINE bar == ContentDelitimer
           left == name \o bar
           content == left \o key
           n == Len(name)
           hits == {i \in DOMAIN content : content[i] \in ToSet(bar)}
<1>1. Len(bar) = 4 /\ bar \in Seq(ToSet(bar)) /\ bar[1] \in ToSet(bar)
  BY DEF ContentDelitimer, ToSet
<1>2. bar \in Seq(C)
  BY <1>1, SeqMonotonic
<1>3. content = DiscoverContent(name, key)
  BY DEF DiscoverContent
<1>4. n \in Nat /\ Len(key) \in Nat /\ DOMAIN name = 1 .. n /\ DOMAIN key = 1 .. Len(key)
  BY LenProperties
<1>5. Concatenated(C, name, bar, left)
  BY <1>2, ConcatFacts, Zenon
<1>6. Concatenated(C, left, key, content)
  <2>1. left \in Seq(C)
    BY <1>5 DEF Concatenated
  <2> QED BY <2>1, ConcatFacts, Zenon
<1> HIDE DEF bar, left, content, n
<1>7. Len(left) = n + 4 /\ \A i \in 1 .. n : left[i] = name[i]
  BY <1>1, <1>4, <1>5 DEF Concatenated, n
<1>8. left[n + 1] = bar[1]
  <2>1. 1 \in 1 .. Len(bar)
    BY <1>1
  <2> QED BY <1>5, <2>1 DEF Concatenated, n
<1>9. /\ content \in Seq(C) /\ Len(content) = n + 4 + Len(key)
      /\ \A i \in 1 .. n + 4 : content[i] = left[i]
      /\ \A i \in 1 .. Len(key) : content[n + 4 + i] = key[i]
  BY <1>6, <1>7 DEF Concatenated
<1>10. DOMAIN content = 1 .. n + 4 + Len(key)
  BY <1>4, <1>9, LenProperties
<1>11. n + 1 \in hits
  <2>1. n + 1 \in 1 .. n + 4 /\ n + 1 \in 1 .. n + 4 + Len(key)
    BY <1>4
  <2> QED BY <1>1, <1>8, <1>9, <1>10, <2>1
<1>12. ASSUME NEW i \in hits PROVE i \in Nat /\ n + 1 <= i
  <2>1. i \in Nat /\ 1 <= i /\ content[i] \in ToSet(bar)
    BY <1>4, <1>10
  <2>2. ASSUME i <= n PROVE FALSE
    <3>1. i \in 1 .. n /\ i \in 1 .. n + 4
      BY <1>4, <2>1, <2>2
    <3>2. content[i] = name[i] /\ name[i] \in ToSet(name)
      BY <1>4, <1>7, <1>9, <3>1 DEF ToSet
    <3> QED BY <2>1, <3>2 DEF bar
  <2> QED BY <1>4, <2>1, <2>2
<1>13. (CHOOSE i \in hits : \A j \in hits : i <= j) = n + 1
  <2> HIDE DEF hits
  <2>1. \A i \in hits : (\A j \in hits : i <= j) => i = n + 1
    BY <1>4, <1>11, <1>12
  <2> QED BY <1>11, <1>12, <2>1
<1>14. SubSeq(content, 1, n) = name
  <2>1. 1 \in Int /\ n \in Int /\ \A i \in 1 .. n : content[i] \in C
    <3>1. \A i \in 1 .. n : content[i] = name[i]
      BY <1>4, <1>7, <1>9
    <3> QED BY <1>4, <3>1
  <2>2. /\ SubSeq(content, 1, n) \in Seq(C)
        /\ Len(SubSeq(content, 1, n)) = IF 1 <= n THEN n - 1 + 1 ELSE 0
        /\ \A i \in 1 .. n - 1 + 1 : SubSeq(content, 1, n)[i] = content[1 + i - 1]
    BY <2>1, SubSeqProperties
  <2> DEFINE s == SubSeq(content, 1, n)
  <2> HIDE DEF s
  <2>3. s \in Seq(C) /\ Len(s) = n /\ \A i \in 1 .. n : s[i] = name[i]
    BY <1>4, <1>7, <1>9, <2>2 DEF s
  <2>4. s = name
    BY <2>3, SeqEqual DEF n
  <2> QED BY <2>4 DEF s
<1>15. SubSeq(content, n + 1 + 4, Len(content)) = key
  <2> DEFINE a == n + 5
             b == n + 4 + Len(key)
  <2>1. a \in Int /\ b \in Int /\ \A i \in a .. b : content[i] \in C
    BY <1>4, <1>9
  <2>2. /\ SubSeq(content, a, b) \in Seq(C)
        /\ Len(SubSeq(content, a, b)) = IF a <= b THEN b - a + 1 ELSE 0
        /\ \A i \in 1 .. b - a + 1 : SubSeq(content, a, b)[i] = content[a + i - 1]
    <3> HIDE DEF a, b
    <3> QED BY <2>1, SubSeqProperties
  <2> DEFINE s == SubSeq(content, a, b)
  <2>3. /\ b - a + 1 = Len(key) /\ (a <= b <=> Len(key) # 0)
        /\ \A i \in 1 .. Len(key) : a + i - 1 = n + 4 + i
    BY <1>4
  <2> HIDE DEF s, a, b
  <2>4. s \in Seq(C) /\ Len(s) = Len(key) /\ \A i \in 1 .. Len(key) : s[i] = key[i]
    BY <1>4, <1>9, <2>2, <2>3 DEF s
  <2>5. s = key
    BY <2>4, SeqEqual
  <2>6. n + 1 + 4 = a /\ Len(content) = b
    BY <1>4, <1>9 DEF a, b
  <2> QED BY <2>5, <2>6 DEF s
<1>16. ~(n + 1 + 4 > Len(content) + 1)
  BY <1>4, <1>9
<1>17. n + 1 - 1 = n
  BY <1>4
<1>18. hits # {}
  BY <1>11
<1> DEFINE pos == CHOOSE i \in hits : \A j \in hits : i <= j
<1>19. GetNameAndPublickKey(content)
         = IF hits = {} \/ pos + Len(bar) > Len(content) + 1
             THEN [thrown |-> TRUE, name |-> <<>>, key |-> <<>>]
             ELSE [thrown |-> FALSE, name |-> SubSeq(content, 1, pos - 1),
                   key |-> SubSeq(content, pos + Len(bar), Len(content))]
  BY DEF GetNameAndPublickKey, bar
<1> HIDE DEF hits, pos
<1>20. pos = n + 1
  BY <1>13 DEF pos
<1>21. GetNameAndPublickKey(content) = [thrown |-> FALSE, name |-> name, key |-> key]
  <2>1. pos - 1 = n /\ pos + Len(bar) = n + 1 + 4
    BY <1>1, <1>4, <1>20
  <2>2. ~(hits = {} \/ pos + Len(bar) > Len(content) + 1)
    BY <1>16, <1>18, <2>1
  <2>3. SubSeq(content, 1, pos - 1) = name /\ SubSeq(content, pos + Len(bar), Len(content)) = key
    BY <1>14, <1>15, <2>1
  <2> QED BY <1>19, <2>2, <2>3, Zenon
<1> QED BY <1>3, <1>21
-----------------------------------------------------------------------------
(* Pages of mails *)

Border(box, p, size) == IF p * size < Len(box) THEN p * size ELSE Len(box)

\* What the service lists of a mailbox with these numbers.
BoxOf(S, box) == MaxMail \in Nat /\ S \in SUBSET (1 .. MaxMail) /\ box = Reverse(Ascending(S))

LEMMA BoxNumbers ==
  ASSUME NEW S, NEW box, BoxOf(S, box)
  PROVE  MaxMail \in Nat /\ S \in SUBSET (1 .. MaxMail)
BY DEF BoxOf

LEMMA NewestPlaces ==
  ASSUME NEW S, NEW box, BoxOf(S, box)
  PROVE  /\ Len(box) = Cardinality(S)
         /\ Len(box) \in Nat /\ DOMAIN box = 1 .. Len(box)
         /\ \A i \in 1 .. Len(box) :
              box[i] = Ascending(S)[Len(box) + 1 - i]
<1> DEFINE A == Ascending(S)
           c == Cardinality(S)
<1>1. c \in Nat
  BY BoxNumbers, RankFacts
<1>2. Len(A) = c
  BY <1>1 DEF Ascending
<1> HIDE DEF A, c
<1>3. box = [i \in 1 .. c |-> A[c - i + 1]]
  BY <1>2 DEF BoxOf, Reverse, A
<1>4. Len(box) = c /\ DOMAIN box = 1 .. c
  BY <1>1, <1>3
<1>5. ASSUME NEW i \in 1 .. c PROVE box[i] = A[c + 1 - i]
  BY <1>1, <1>3
<1> QED BY <1>1, <1>4, <1>5 DEF A, c

LEMMA BorderFacts ==
  ASSUME NEW S, NEW box, BoxOf(S, box), NEW size \in Nat \ {0}
  PROVE  /\ Pages(box, size) \in Nat /\ (Len(box) > 0 => Pages(box, size) > 0)
         /\ (Len(box) = 0 => Pages(box, size) = 0)
         /\ Border(box, 0, size) = 0 /\ Border(box, Pages(box, size), size) = Len(box)
         /\ \A p \in Nat : Border(box, p, size) \in 0 .. Len(box)
         /\ \A p, q \in Nat : p <= q => Border(box, p, size) <= Border(box, q, size)
         /\ \A p \in 1 .. Pages(box, size) :
              Border(box, p - 1, size) = (p - 1) * size /\ Border(box, p - 1, size) < Border(box, p, size)
<1> DEFINE l == Len(box)
           n == Pages(box, size)
<1>1. l \in Nat
  BY NewestPlaces
<1>2. n \in Nat /\ n * size <= l + size - 1 /\ l + size - 1 < n * size + size
  BY <1>1 DEF Pages
<1> HIDE DEF l, n
<1>3. \A p, q \in Nat : p <= q => p * size <= q * size
  OBVIOUS
<1>4. \A p \in Nat : p * size \in Nat
  OBVIOUS
<1>5. 0 * size = 0
  OBVIOUS
<1>6. \A p \in Nat \ {0} : p - 1 \in Nat /\ p * size = (p - 1) * size + size
  OBVIOUS
<1>7. \A p \in 1 .. n : p \in Nat \ {0} /\ p * size <= n * size
  BY <1>2, <1>3
<1>8. \A p : Border(box, p, size) = IF p * size < l THEN p * size ELSE l
  BY DEF Border, l
<1>9. ASSUME NEW p \in 1 .. n
      PROVE  Border(box, p - 1, size) = (p - 1) * size /\ Border(box, p - 1, size) < Border(box, p, size)
  BY <1>1, <1>2, <1>4, <1>6, <1>7, <1>8
<1>10. Border(box, 0, size) = 0 /\ Border(box, n, size) = l
  BY <1>1, <1>2, <1>4, <1>5, <1>8
<1>11. \A p \in Nat : Border(box, p, size) \in 0 .. l
  BY <1>1, <1>4, <1>8
<1>12. \A p, q \in Nat : p <= q => Border(box, p, size) <= Border(box, q, size)
  BY <1>1, <1>3, <1>4, <1>8
<1>13. (l > 0 => n > 0) /\ (l = 0 => n = 0)
  <2>1. ASSUME l = 0, n > 0 PROVE FALSE
    <3>1. 1 <= n
      BY <1>2, <2>1
    <3>2. 1 * size <= n * size
      BY <1>2, <1>3, <3>1
    <3> QED BY <1>2, <2>1, <3>2
  <2> QED BY <1>1, <1>2, <1>5, <2>1
<1> QED BY <1>2, <1>9, <1>10, <1>11, <1>12, <1>13 DEF l, n

LEMMA PageFacts ==
  ASSUME NEW S, NEW box, BoxOf(S, box), NEW size \in Nat \ {0}, NEW p \in 1 .. Pages(box, size)
  PROVE  /\ Len(Page(box, p, size)) = Border(box, p, size) - Border(box, p - 1, size)
         /\ DOMAIN Page(box, p, size) = 1 .. Border(box, p, size) - Border(box, p - 1, size)
         /\ \A i \in 1 .. Border(box, p, size) - Border(box, p - 1, size) :
              Page(box, p, size)[i] = box[Border(box, p - 1, size) + i]
<1> DEFINE l == Len(box)
           low == Border(box, p - 1, size)
           high == Border(box, p, size)
<1>1. p \in Nat /\ p - 1 \in Nat
  BY BorderFacts
<1>2. low \in 0 .. l /\ high \in 0 .. l /\ low < high /\ l \in Nat /\ low = (p - 1) * size
  BY <1>1, BorderFacts, NewestPlaces
<1>3. Page(box, p, size) = SubSeq(box, low + 1, high)
  BY <1>2 DEF Page, Border, Smaller
<1> HIDE DEF l, low, high
<1> DEFINE page == Page(box, p, size)
           V == {box[j] : j \in low + 1 .. high}
<1> HIDE DEF V
<1>5. /\ page \in Seq(V)
      /\ Len(page) = IF low + 1 <= high THEN high - (low + 1) + 1 ELSE 0
      /\ \A i \in 1 .. high - (low + 1) + 1 : page[i] = box[(low + 1) + i - 1]
  <2>1. low + 1 \in Int /\ high \in Int
    BY <1>2
  <2>2. \A i \in low + 1 .. high : box[i] \in V
    BY DEF V
  <2>3. page = SubSeq(box, low + 1, high)
    BY <1>3
  <2> QED BY <2>1, <2>2, <2>3, SubSeqProperties
<1> HIDE DEF page
<1>6. /\ DOMAIN page = 1 .. high - low /\ Len(page) = high - low
      /\ \A i \in 1 .. high - low : page[i] = box[low + i]
  <2>1. Len(page) = high - low /\ DOMAIN page = 1 .. Len(page)
    BY <1>2, <1>5, LenProperties
  <2>2. ASSUME NEW i \in 1 .. high - low PROVE page[i] = box[low + i]
    <3>1. i \in 1 .. high - (low + 1) + 1 /\ (low + 1) + i - 1 = low + i
      BY <1>2
    <3> QED BY <1>5, <3>1
  <2> QED BY <2>1, <2>2
<1> QED BY <1>6, Zenon DEF low, high, page
-----------------------------------------------------------------------------
(* What is read of them *)

LEMMA NewestDistinct ==
  ASSUME NEW S, NEW box, BoxOf(S, box), NEW i \in 1 .. Len(box)
  PROVE  /\ box[i] \in S
         /\ Rank(S, box[i]) = Len(box) + 1 - i
<1>1. Len(box) + 1 - i \in 1 .. Cardinality(S)
  BY NewestPlaces
<1>2. box[i] = Ascending(S)[Len(box) + 1 - i]
  BY NewestPlaces
<1> QED BY <1>1, <1>2, BoxNumbers, RankInverse

LEMMA UntilFound ==
  ASSUME NEW S, NEW box, BoxOf(S, box), NEW size \in Nat \ {0}, NEW p \in 1 .. Pages(box, size),
         NEW k \in 1 .. Len(box)
  PROVE  Until(box[k], Page(box, p, size))
           = IF Border(box, p - 1, size) < k /\ k <= Border(box, p, size)
             THEN k - Border(box, p - 1, size) - 1 ELSE Border(box, p, size) - Border(box, p - 1, size)
<1> DEFINE low == Border(box, p - 1, size)
           high == Border(box, p, size)
           page == Page(box, p, size)
           l == Len(box)
           hits == {i \in DOMAIN page : page[i] = box[k]}
<1>1. l \in Nat /\ low \in 0 .. l /\ high \in 0 .. l /\ low < high
  <2>1. p \in Nat /\ p - 1 \in Nat
    BY BorderFacts
  <2> QED BY <2>1, BorderFacts, NewestPlaces
<1>2. /\ Len(page) = high - low /\ DOMAIN page = 1 .. high - low
      /\ \A i \in 1 .. high - low : page[i] = box[low + i]
  BY PageFacts
<1>3. box[k] # 0 /\ box[k] \in Nat
  BY NewestDistinct, BoxNumbers
<1>4. Until(box[k], Page(box, p, size)) = IF hits = {} THEN Len(page) ELSE LowestOf(hits) - 1
  BY <1>3 DEF Until
<1> HIDE DEF low, high, page, l
<1>5. \A i \in DOMAIN page : page[i] = box[k] <=> low + i = k
  <2> TAKE i \in DOMAIN page
  <2>1. i \in 1 .. high - low /\ low + i \in 1 .. l /\ k \in 1 .. l
    BY <1>1, <1>2 DEF l
  <2>2. /\ Rank(S, box[low + i]) = l + 1 - (low + i)
        /\ Rank(S, box[k]) = l + 1 - k
    BY <2>1, NewestDistinct DEF l
  <2>3. low \in Nat /\ i \in Nat /\ k \in Nat /\ l \in Nat
    BY <1>1, <2>1
  <2>4. ASSUME box[low + i] = box[k] PROVE low + i = k
    <3>1. l + 1 - (low + i) = l + 1 - k
      BY <2>2, <2>4, Zenon
    <3> QED BY <2>3, <3>1
  <2>5. page[i] = box[low + i]
    BY <1>2, <2>1
  <2> QED BY <2>4, <2>5
<1>6. CASE low < k /\ k <= high
  <2>1. k - low \in DOMAIN page /\ low + (k - low) = k
    BY <1>1, <1>2, <1>6
  <2>2. \A i \in DOMAIN page : low + i = k <=> i = k - low
    <3>1. k \in Nat /\ low \in Nat /\ \A i \in DOMAIN page : i \in Nat
      BY <1>1, <1>2 DEF l
    <3> QED BY <3>1
  <2>3. hits = {k - low}
    BY <1>5, <2>1, <2>2, Zenon
  <2>4. k - low \in Nat
    BY <1>1, <1>6
  <2>5. hits # {} /\ LowestOf(hits) = k - low
    BY <2>3, <2>4, LowestFacts
  <2> QED BY <1>4, <1>6, <2>5 DEF low, high
<1>7. CASE ~(low < k /\ k <= high)
  <2>1. \A i \in DOMAIN page : low + i # k
    BY <1>1, <1>2, <1>7
  <2>2. hits = {}
    BY <1>5, <2>1, Zenon
  <2> QED BY <1>2, <1>4, <1>7, <2>2 DEF low, high
<1> QED BY <1>6, <1>7

\* The mails behind one place and up to another, the oldest first.
Handed(box, a, b, old) == [i \in 1 .. b - a |-> GetMail(box[b - i + 1], old)]

MailsOf(box, old) == {GetMail(box[i], old) : i \in Int}

OldestFirst(box, s, a, b, old) ==
  /\ s \in Seq(MailsOf(box, old)) /\ Len(s) = b - a
  /\ \A i \in 1 .. b - a : s[i] = GetMail(box[b - i + 1], old)

LEMMA HandedFacts ==
  ASSUME NEW box, NEW a \in Nat, NEW b \in Nat, a <= b, NEW old
  PROVE  OldestFirst(box, Handed(box, a, b, old), a, b, old)
<1> DEFINE s == Handed(box, a, b, old)
           n == b - a
<1>1. n \in Nat
  OBVIOUS
<1>2. s = [i \in 1 .. n |-> GetMail(box[b - i + 1], old)]
  BY DEF Handed
<1>3. \A i \in 1 .. n : GetMail(box[b - i + 1], old) \in MailsOf(box, old)
  <2>1. \A i \in 1 .. n : b - i + 1 \in Int
    OBVIOUS
  <2> QED BY <2>1, Zenon DEF MailsOf
<1> HIDE DEF s, n
<1>4. s \in Seq(MailsOf(box, old)) /\ Len(s) = n
  BY <1>1, <1>2, <1>3
<1>5. \A i \in 1 .. n : s[i] = GetMail(box[b - i + 1], old)
  BY <1>2
<1> QED BY <1>4, <1>5, Zenon DEF s, n, OldestFirst

Together(box, a, b, c, old) == Handed(box, b, c, old) \o Handed(box, a, b, old) = Handed(box, a, c, old)

\* What is read of the pages is put together in the right order.
LEMMA HandedTogether ==
  ASSUME NEW box, NEW a \in Nat, NEW b \in Nat, NEW c \in Nat, a <= b, b <= c, NEW old
  PROVE  Together(box, a, b, c, old)
<1> DEFINE u == Handed(box, b, c, old)
           v == Handed(box, a, b, old)
           w == Handed(box, a, c, old)
           M == MailsOf(box, old)
<1>1. /\ u \in Seq(M) /\ Len(u) = c - b
      /\ \A i \in 1 .. c - b : u[i] = GetMail(box[c - i + 1], old)
  <2>1. OldestFirst(box, u, b, c, old)
    BY HandedFacts, Zenon
  <2> HIDE DEF u
  <2> QED BY <2>1, Zenon DEF OldestFirst
<1>2. /\ v \in Seq(M) /\ Len(v) = b - a
      /\ \A i \in 1 .. b - a : v[i] = GetMail(box[b - i + 1], old)
  <2>1. OldestFirst(box, v, a, b, old)
    BY HandedFacts, Zenon
  <2> HIDE DEF v
  <2> QED BY <2>1, Zenon DEF OldestFirst
<1>3. /\ w \in Seq(M) /\ Len(w) = c - a
      /\ \A i \in 1 .. c - a : w[i] = GetMail(box[c - i + 1], old)
  <2>1. a <= c
    OBVIOUS
  <2>2. OldestFirst(box, w, a, c, old)
    BY <2>1, HandedFacts, Zenon
  <2> HIDE DEF w
  <2> QED BY <2>2, Zenon DEF OldestFirst
<1>4. Concatenated(M, u, v, u \o v)
  BY <1>1, <1>2, ConcatFacts, Zenon
<1> DEFINE t == u \o v
<1> HIDE DEF u, v, w, M
<1>5. t \in Seq(M) /\ Len(t) = c - a
  BY <1>1, <1>2, <1>4 DEF Concatenated
<1>6. ASSUME NEW i \in 1 .. c - a PROVE t[i] = w[i]
  <2>1. CASE i <= c - b
    <3>1. i \in 1 .. c - b
      BY <2>1
    <3> QED BY <1>1, <1>3, <1>4, <3>1 DEF Concatenated
  <2>2. CASE i > c - b
    <3> DEFINE j == i - (c - b)
    <3>1. j \in 1 .. b - a /\ (c - b) + j = i /\ b - j + 1 = c - i + 1
      BY <2>2
    <3>2. t[Len(u) + j] = v[j]
      BY <1>2, <1>4, <3>1 DEF Concatenated
    <3>3. t[i] = v[j] /\ v[j] = GetMail(box[b - j + 1], old)
      BY <1>1, <1>2, <3>1, <3>2
    <3> QED BY <1>3, <3>1, <3>3
  <2>3. i <= c - b \/ i > c - b
    OBVIOUS
  <2> QED BY <2>1, <2>2, <2>3, Zenon
<1>7. t = w
  BY <1>3, <1>5, <1>6, SeqEqual
<1> QED BY <1>7 DEF u, v, w, Together

LEMMA LoadedFacts ==
  ASSUME NEW S, NEW box, BoxOf(S, box), NEW size \in Nat \ {0}, NEW p \in 1 .. Pages(box, size),
         NEW m, NEW old,
         Until(m, Page(box, p, size)) \in 0 .. Border(box, p, size) - Border(box, p - 1, size)
  PROVE  Loaded(m, old, Page(box, p, size))
           = Handed(box, Border(box, p - 1, size),
                    Border(box, p - 1, size) + Until(m, Page(box, p, size)), old)
<1> DEFINE low == Border(box, p - 1, size)
           high == Border(box, p, size)
           page == Page(box, p, size)
           u == Until(m, Page(box, p, size))
           s == [i \in 1 .. u |-> GetMail(page[i], old)]
<1>1. low \in Nat /\ high \in Nat /\ u \in Nat /\ u <= high - low
  <2>1. p \in Nat /\ p - 1 \in Nat
    BY BorderFacts
  <2>2. low \in 0 .. Len(box) /\ high \in 0 .. Len(box)
    BY <2>1, BorderFacts
  <2>3. u \in 0 .. high - low /\ Len(box) \in Nat
    BY NewestPlaces
  <2> HIDE DEF low, high, u
  <2> QED BY <2>2, <2>3
<1>2. \A i \in 1 .. high - low : page[i] = box[low + i]
  BY PageFacts
<1>3. Loaded(m, old, Page(box, p, size)) = Reverse(s)
  BY DEF Loaded
<1>4. Len(s) = u
  BY <1>1
<1>5. Reverse(s) = [i \in 1 .. u |-> s[u - i + 1]]
  BY <1>4 DEF Reverse
<1> HIDE DEF low, high, page, u
<1>6. ASSUME NEW i \in 1 .. u PROVE s[u - i + 1] = GetMail(box[(low + u) - i + 1], old)
  <2>1. u - i + 1 \in 1 .. u /\ u - i + 1 \in 1 .. high - low /\ low + (u - i + 1) = (low + u) - i + 1
    BY <1>1
  <2>2. s[u - i + 1] = GetMail(page[u - i + 1], old)
    BY <2>1
  <2> QED BY <1>2, <2>1, <2>2
<1>7. (low + u) - low = u
  BY <1>1
<1>8. Handed(box, low, low + u, old)
        = [i \in 1 .. u |-> GetMail(box[(low + u) - i + 1], old)]
  BY <1>7 DEF Handed
<1> HIDE DEF s
<1> QED BY <1>3, <1>5, <1>6, <1>8 DEF low, u

\* One call of loadMessages, f being what the call for the next page leaves.
LoadBody(f, m, old, box, size, p) ==
  IF p > Pages(box, size) THEN [thrown |-> p > 1, mails |-> <<>>]
  ELSE IF m = 0 \/ Until(m, Page(box, p, size)) < Len(Page(box, p, size))
    THEN [thrown |-> FALSE, mails |-> Loaded(m, old, Page(box, p, size))]
  ELSE [f[p + 1] EXCEPT !.mails = @ \o Loaded(m, old, Page(box, p, size))]

AsCalled(f, m, old, box, size) ==
  f = [p \in 1 .. Pages(box, size) + 1 |-> LoadBody(f, m, old, box, size, p)]

PutBefore(r, thrown, s, t) ==
  [r EXCEPT !.mails = @ \o t] = [thrown |-> thrown, mails |-> s \o t]

LEMMA MailsPutBefore ==
  ASSUME NEW r, NEW thrown, NEW s, NEW t, r = [thrown |-> thrown, mails |-> s]
  PROVE  PutBefore(r, thrown, s, t)
<1> DEFINE all == s \o t
<1>1. r.mails = s
  OBVIOUS
<1>2. [r EXCEPT !.mails = @ \o t] = [r EXCEPT !.mails = all]
  BY <1>1, Zenon
<1> HIDE DEF all
<1>3. [r EXCEPT !.mails = all] = [thrown |-> thrown, mails |-> all]
  OBVIOUS
<1> QED BY <1>2, <1>3 DEF all, PutBefore

\* Only one function does what the calls do.
LEMMA LoadUnique ==
  ASSUME NEW S, NEW box, BoxOf(S, box), NEW size \in Nat \ {0}, NEW m, NEW old, NEW g,
         AsCalled(g, m, old, box, size)
  PROVE  LoadMessages(m, old, box, size) = g[1]
<1> DEFINE n == Pages(box, size)
           f == CHOOSE h : h = [p \in 1 .. Pages(box, size) + 1 |-> LoadBody(h, m, old, box, size, p)]
<1>0. g = [p \in 1 .. Pages(box, size) + 1 |-> LoadBody(g, m, old, box, size, p)]
  BY DEF AsCalled
<1>1. LoadMessages(m, old, box, size) = f[1]
  BY DEF LoadMessages, LoadBody
<1>2. f = [p \in 1 .. Pages(box, size) + 1 |-> LoadBody(f, m, old, box, size, p)]
  BY <1>0, Zenon
<1>3. n \in Nat
  BY BorderFacts
<1> HIDE DEF f, n
<1> DEFINE wrong == {p \in 1 .. n + 1 : f[p] # g[p]}
<1>4. \A p \in 1 .. n + 1 : /\ f[p] = LoadBody(f, m, old, box, size, p)
                            /\ g[p] = LoadBody(g, m, old, box, size, p)
  BY <1>0, <1>2 DEF n
<1>5. ASSUME wrong # {} PROVE FALSE
  <2> DEFINE h == HighestOf(wrong)
  <2>1. h \in wrong /\ \A i \in wrong : i <= h
    <3>1. wrong \in SUBSET (0 .. n + 1) /\ n + 1 \in Nat
      BY <1>3
    <3> HIDE DEF wrong
    <3> QED BY <1>5, <3>1, HighestFacts
  <2>2. h \in 1 .. n + 1 /\ f[h] # g[h]
    BY <2>1
  <2> HIDE DEF h
  <2>3. f[h] = LoadBody(f, m, old, box, size, h) /\ g[h] = LoadBody(g, m, old, box, size, h)
    BY <1>4, <2>2
  <2>4. CASE h > n
    BY <2>2, <2>3, <2>4 DEF LoadBody, n
  <2>5. CASE ~(h > n)
    <3>1. h + 1 \in 1 .. n + 1 /\ ~(h + 1 <= h)
      BY <1>3, <2>2, <2>5
    <3>2. f[h + 1] = g[h + 1]
      BY <2>1, <3>1
    <3> QED BY <2>2, <2>3, <3>2, Zenon DEF LoadBody
  <2> QED BY <2>4, <2>5
<1>6. 1 \in 1 .. n + 1
  BY <1>3
<1> QED BY <1>1, <1>5, <1>6

\* The mails that are newer than the last one that was read are found, on
\* whatever page that one is.
LEMMA LoadFound ==
  ASSUME NEW S, NEW box, BoxOf(S, box), NEW size \in Nat \ {0}, NEW old, NEW k \in 1 .. Len(box),
         NEW before, before = k - 1
  PROVE  LoadMessages(box[k], old, box, size)
           = [thrown |-> FALSE, mails |-> Handed(box, 0, before, old)]
<1> DEFINE n == Pages(box, size)
           l == Len(box)
           B(p) == Border(box, p, size)
           Result(p) == IF B(p - 1) < k
                        THEN [thrown |-> FALSE, mails |-> Handed(box, B(p - 1), before, old)]
                        ELSE [thrown |-> TRUE, mails |-> Handed(box, B(p - 1), l, old)]
           g == [p \in 1 .. Pages(box, size) + 1 |-> Result(p)]
           m == box[k]
<1>1. /\ n \in Nat /\ n > 0 /\ l \in Nat /\ k \in Nat /\ 0 < k /\ k <= l
      /\ before \in Nat /\ before = k - 1 /\ B(0) = 0 /\ B(n) = l
  <2>1. l \in Nat /\ k \in 1 .. l
    BY NewestPlaces
  <2>2. n \in Nat /\ (l > 0 => n > 0) /\ B(0) = 0 /\ B(n) = l
    BY BorderFacts
  <2> HIDE DEF n, l, B
  <2> QED BY <2>1, <2>2
<1>2. ASSUME NEW p \in 1 .. n
      PROVE  p \in Nat /\ p - 1 \in Nat /\ B(p - 1) \in Nat /\ B(p) \in Nat
             /\ B(p - 1) < B(p) /\ B(p) <= l
  <2>1. p \in Nat /\ p - 1 \in Nat
    BY <1>1
  <2>2. B(p - 1) \in 0 .. l /\ B(p) \in 0 .. l /\ B(p - 1) < B(p)
    BY <2>1, BorderFacts
  <2> HIDE DEF l, B
  <2> QED BY <1>1, <2>1, <2>2
<1>3. m # 0
  <2>1. m \in S
    BY NewestDistinct
  <2> QED BY <2>1, BoxNumbers
<1>4. \A p \in 1 .. n : /\ Len(Page(box, p, size)) = B(p) - B(p - 1)
                        /\ Until(m, Page(box, p, size)) = IF B(p - 1) < k /\ k <= B(p)
                                               THEN k - B(p - 1) - 1 ELSE B(p) - B(p - 1)
  BY PageFacts, UntilFound
<1>5. \A p \in 1 .. n :
        Until(m, Page(box, p, size)) \in 0 .. B(p) - B(p - 1) =>
          Loaded(m, old, Page(box, p, size))
            = Handed(box, B(p - 1), B(p - 1) + Until(m, Page(box, p, size)), old)
  BY LoadedFacts
<1>6. /\ DOMAIN g = 1 .. n + 1 /\ \A p \in 1 .. n + 1 : g[p] = Result(p)
      /\ n = Pages(box, size)
  OBVIOUS
<1> HIDE DEF n, l, B, m
<1>7. ASSUME NEW p \in 1 .. n + 1 PROVE g[p] = LoadBody(g, m, old, box, size, p)
  <2>1. CASE p > n
    <3>1. p = n + 1 /\ p > 1 /\ p - 1 = n
      BY <1>1, <2>1
    <3>2. g[p] = [thrown |-> TRUE, mails |-> Handed(box, l, l, old)]
      <4>1. B(p - 1) = l /\ ~(B(p - 1) < k)
        BY <1>1, <3>1
      <4>2. g[p] = Result(p)
        BY <1>6
      <4> QED BY <4>1, <4>2
    <3>3. Handed(box, l, l, old) = <<>>
      <4>1. l <= l /\ l - l = 0
        BY <1>1
      <4>2. OldestFirst(box, Handed(box, l, l, old), l, l, old)
        BY <1>1, <4>1, HandedFacts, Zenon
      <4>3. Handed(box, l, l, old) \in Seq(MailsOf(box, old)) /\ Len(Handed(box, l, l, old)) = 0
        BY <4>1, <4>2 DEF OldestFirst
      <4> QED BY <4>3, EmptySeq
    <3> QED BY <1>6, <2>1, <3>1, <3>2, <3>3 DEF LoadBody
  <2>2. CASE ~(p > n)
    <3>1. p \in 1 .. n /\ p + 1 \in 1 .. n + 1 /\ (p + 1) - 1 = p
      BY <1>1, <2>2
    <3> DEFINE low == B(p - 1)
               high == B(p)
               u == Until(m, Page(box, p, size))
               all == Loaded(m, old, Page(box, p, size))
    <3>2. /\ low \in Nat /\ high \in Nat /\ low < high /\ high <= l
          /\ Len(Page(box, p, size)) = high - low
          /\ u = IF low < k /\ k <= high THEN k - low - 1 ELSE high - low
          /\ u \in 0 .. high - low => all = Handed(box, low, low + u, old)
      BY <1>2, <1>4, <1>5, <3>1
    <3>3. /\ g[p] = IF low < k THEN [thrown |-> FALSE, mails |-> Handed(box, low, before, old)]
                               ELSE [thrown |-> TRUE, mails |-> Handed(box, low, l, old)]
          /\ g[p + 1] = IF high < k THEN [thrown |-> FALSE, mails |-> Handed(box, high, before, old)]
                                    ELSE [thrown |-> TRUE, mails |-> Handed(box, high, l, old)]
      BY <1>6, <3>1
    <3>4. LoadBody(g, m, old, box, size, p)
            = IF u < high - low THEN [thrown |-> FALSE, mails |-> all]
              ELSE [g[p + 1] EXCEPT !.mails = @ \o all]
      BY <1>3, <1>6, <2>2, <3>2 DEF LoadBody
    <3> HIDE DEF low, high, u, all, g
    <3>5. CASE low < k /\ k <= high
      <4>1. u \in 0 .. high - low /\ u < high - low /\ low + u = before
        BY <1>1, <3>2, <3>5
      <4> QED BY <3>2, <3>3, <3>4, <3>5, <4>1
    <3>6. CASE ~(low < k /\ k <= high)
      <4>1. u \in 0 .. high - low /\ ~(u < high - low) /\ low + u = high /\ low <= high
        BY <1>1, <3>2, <3>6
      <4>2. all = Handed(box, low, high, old)
        BY <3>2, <4>1
      <4>3. LoadBody(g, m, old, box, size, p) = [g[p + 1] EXCEPT !.mails = @ \o all]
        BY <3>4, <4>1
      <4>4. CASE high < k
        <5>1. high <= before /\ low < k
          BY <1>1, <3>2, <4>4
        <5>0. /\ low \in Nat /\ high \in Nat /\ before \in Nat
              /\ low <= high /\ high <= before
          BY <1>1, <3>2, <4>1, <5>1
        <5>2. Together(box, low, high, before, old)
          BY <5>0, HandedTogether, Zenon
        <5>3. g[p + 1] = [thrown |-> FALSE, mails |-> Handed(box, high, before, old)]
          BY <3>3, <4>4
        <5>4. PutBefore(g[p + 1], FALSE, Handed(box, high, before, old), all)
          BY <5>3, MailsPutBefore, Zenon
        <5> QED BY <3>3, <4>2, <4>3, <5>1, <5>2, <5>4 DEF PutBefore, Together
      <4>5. CASE ~(high < k)
        <5>1. ~(low < k)
          BY <1>1, <3>2, <3>6, <4>5
        <5>0. /\ low \in Nat /\ high \in Nat /\ l \in Nat
              /\ low <= high /\ high <= l
          BY <1>1, <3>2, <4>1, <5>1
        <5>2. Together(box, low, high, l, old)
          BY <5>0, HandedTogether, Zenon
        <5>3. g[p + 1] = [thrown |-> TRUE, mails |-> Handed(box, high, l, old)]
          BY <3>3, <4>5
        <5>4. PutBefore(g[p + 1], TRUE, Handed(box, high, l, old), all)
          BY <5>3, MailsPutBefore, Zenon
        <5> QED BY <3>3, <4>2, <4>3, <5>1, <5>2, <5>4 DEF PutBefore, Together
      <4> QED BY <4>4, <4>5
    <3> QED BY <3>5, <3>6
  <2> QED BY <2>1, <2>2
<1>8. AsCalled(g, m, old, box, size)
  <2> DEFINE G(p) == LoadBody(g, m, old, box, size, p)
  <2>1. \A p \in 1 .. Pages(box, size) + 1 : Result(p) = G(p)
    BY <1>6, <1>7
  <2> HIDE DEF G, Result
  <2>2. g = [p \in 1 .. Pages(box, size) + 1 |-> G(p)]
    BY <2>1
  <2> HIDE DEF g
  <2> QED BY <2>2, Zenon DEF G, AsCalled
<1>9. g[1] = [thrown |-> FALSE, mails |-> Handed(box, 0, before, old)]
  <2>1. 1 \in 1 .. n + 1 /\ 1 - 1 = 0
    BY <1>1
  <2> QED BY <1>1, <1>6, <2>1
<1> HIDE DEF g
<1>10. LoadMessages(m, old, box, size) = g[1]
  BY <1>8, LoadUnique, Zenon
<1> QED BY <1>9, <1>10 DEF m

\* When the last mail that was read is not listed, every page is read, and the
\* one behind the last is missing.
LEMMA LoadLost ==
  ASSUME NEW S, NEW box, BoxOf(S, box), NEW size \in Nat \ {0}, NEW old,
         NEW m, m # 0, m \notin S, box # <<>>
  PROVE  LoadMessages(m, old, box, size).thrown
<1> DEFINE n == Pages(box, size)
           l == Len(box)
           B(p) == Border(box, p, size)
           Result(p) == [thrown |-> TRUE, mails |-> Handed(box, B(p - 1), l, old)]
           g == [p \in 1 .. Pages(box, size) + 1 |-> Result(p)]
<1>1. n \in Nat /\ n > 0 /\ l \in Nat /\ B(0) = 0 /\ B(n) = l
  <2>1. n \in Nat /\ (l > 0 => n > 0) /\ B(0) = 0 /\ B(n) = l
    BY BorderFacts
  <2>2. l \in Nat /\ DOMAIN box = 1 .. l
    BY NewestPlaces
  <2>3. l # 0
    <3>1. \A i \in 1 .. l : box[i] \in S
      BY NewestDistinct
    <3>2. box = [i \in 1 .. l |-> box[i]]
      BY NewestPlaces DEF BoxOf, Reverse
    <3>3. box \in Seq(S)
      BY <2>2, <3>1, <3>2
    <3> QED BY <3>3, EmptySeq
  <2> HIDE DEF n, l, B
  <2> QED BY <2>1, <2>2, <2>3
<1>2. ASSUME NEW p \in 1 .. n
      PROVE  p \in Nat /\ p - 1 \in Nat /\ B(p - 1) \in Nat /\ B(p) \in Nat
             /\ B(p - 1) < B(p) /\ B(p) <= l
  <2>1. p \in Nat /\ p - 1 \in Nat
    BY <1>1
  <2>2. B(p - 1) \in 0 .. l /\ B(p) \in 0 .. l /\ B(p - 1) < B(p)
    BY <2>1, BorderFacts
  <2> HIDE DEF l, B
  <2> QED BY <1>1, <2>1, <2>2
<1>3. ASSUME NEW p \in 1 .. n
      PROVE  /\ Len(Page(box, p, size)) = B(p) - B(p - 1)
             /\ Until(m, Page(box, p, size)) = B(p) - B(p - 1)
  <2> DEFINE page == Page(box, p, size)
  <2>1. /\ Len(page) = B(p) - B(p - 1) /\ DOMAIN page = 1 .. B(p) - B(p - 1)
        /\ \A i \in 1 .. B(p) - B(p - 1) : page[i] = box[B(p - 1) + i]
    BY PageFacts
  <2> HIDE DEF page, B, l, n
  <2>2. \A i \in 1 .. B(p) - B(p - 1) : B(p - 1) + i \in 1 .. l
    BY <1>1, <1>2
  <2>3. \A i \in DOMAIN page : page[i] \in S
    BY <2>1, <2>2, NewestDistinct DEF l
  <2>4. {i \in DOMAIN page : page[i] = m} = {}
    BY <2>3
  <2>5. Until(m, page) = Len(page)
    BY <2>4 DEF Until
  <2> QED BY <2>1, <2>5 DEF page
<1>4. ASSUME NEW p \in 1 .. n
      PROVE  Loaded(m, old, Page(box, p, size)) = Handed(box, B(p - 1), B(p), old)
  <2>1. Until(m, Page(box, p, size)) \in 0 .. B(p) - B(p - 1)
    <3> HIDE DEF B, l, n
    <3> QED BY <1>2, <1>3
  <2>2. Loaded(m, old, Page(box, p, size))
          = Handed(box, B(p - 1), B(p - 1) + Until(m, Page(box, p, size)), old)
    BY <2>1, LoadedFacts
  <2>3. B(p - 1) + Until(m, Page(box, p, size)) = B(p)
    <3> HIDE DEF B, l, n
    <3> QED BY <1>2, <1>3
  <2> QED BY <2>2, <2>3
<1>5. /\ DOMAIN g = 1 .. n + 1 /\ \A p \in 1 .. n + 1 : g[p] = Result(p)
      /\ n = Pages(box, size)
  OBVIOUS
<1> HIDE DEF n, l, B
<1>6. ASSUME NEW p \in 1 .. n + 1 PROVE g[p] = LoadBody(g, m, old, box, size, p)
  <2>1. CASE p > n
    <3>1. p = n + 1 /\ p > 1 /\ p - 1 = n
      BY <1>1, <2>1
    <3>2. g[p] = [thrown |-> TRUE, mails |-> Handed(box, l, l, old)]
      BY <1>1, <1>5, <3>1
    <3>3. Handed(box, l, l, old) = <<>>
      <4>1. l <= l /\ l - l = 0
        BY <1>1
      <4>2. OldestFirst(box, Handed(box, l, l, old), l, l, old)
        BY <1>1, <4>1, HandedFacts, Zenon
      <4>3. Handed(box, l, l, old) \in Seq(MailsOf(box, old)) /\ Len(Handed(box, l, l, old)) = 0
        BY <4>1, <4>2 DEF OldestFirst
      <4> QED BY <4>3, EmptySeq
    <3> QED BY <1>5, <2>1, <3>1, <3>2, <3>3 DEF LoadBody
  <2>2. CASE ~(p > n)
    <3>1. p \in 1 .. n /\ p + 1 \in 1 .. n + 1 /\ (p + 1) - 1 = p
      BY <1>1, <2>2
    <3> DEFINE low == B(p - 1)
               high == B(p)
               all == Loaded(m, old, Page(box, p, size))
    <3>2. /\ low \in Nat /\ high \in Nat /\ l \in Nat /\ low <= high /\ high <= l
          /\ all = Handed(box, low, high, old)
      BY <1>1, <1>2, <1>4, <3>1
    <3>3. /\ g[p] = [thrown |-> TRUE, mails |-> Handed(box, low, l, old)]
          /\ g[p + 1] = [thrown |-> TRUE, mails |-> Handed(box, high, l, old)]
      BY <1>5, <3>1
    <3>4. Len(Page(box, p, size)) = high - low /\ Until(m, Page(box, p, size)) = high - low
      BY <1>3, <3>1
    <3>5. LoadBody(g, m, old, box, size, p) = [g[p + 1] EXCEPT !.mails = @ \o all]
      BY <1>5, <2>2, <3>2, <3>4 DEF LoadBody
    <3> HIDE DEF low, high, all, g
    <3>6. Together(box, low, high, l, old)
      BY <3>2, HandedTogether, Zenon
    <3>7. PutBefore(g[p + 1], TRUE, Handed(box, high, l, old), all)
      BY <3>3, MailsPutBefore, Zenon
    <3> QED BY <3>2, <3>3, <3>5, <3>6, <3>7 DEF PutBefore, Together
  <2> QED BY <2>1, <2>2
<1>7. AsCalled(g, m, old, box, size)
  <2> DEFINE G(p) == LoadBody(g, m, old, box, size, p)
  <2>1. \A p \in 1 .. Pages(box, size) + 1 : Result(p) = G(p)
    BY <1>5, <1>6
  <2> HIDE DEF G, Result
  <2>2. g = [p \in 1 .. Pages(box, size) + 1 |-> G(p)]
    BY <2>1
  <2> HIDE DEF g
  <2> QED BY <2>2, Zenon DEF G, AsCalled
<1>8. g[1].thrown
  <2>1. 1 \in 1 .. n + 1
    BY <1>1
  <2> QED BY <1>5, <2>1
<1> HIDE DEF g
<1>9. LoadMessages(m, old, box, size) = g[1]
  BY <1>7, LoadUnique, Zenon
<1> QED BY <1>8, <1>9

\* A first call reads the start of the first page.
LEMMA LoadFirst ==
  ASSUME NEW S, NEW box, BoxOf(S, box), NEW size \in Nat \ {0}, NEW old, NEW u,
         u = Smaller(InitLoadMessages, Smaller(size, Len(box)))
  PROVE  LoadMessages(0, old, box, size) = [thrown |-> FALSE, mails |-> Handed(box, 0, u, old)]
<1> DEFINE n == Pages(box, size)
           l == Len(box)
           Result(p) == IF p > Pages(box, size) THEN [thrown |-> p > 1, mails |-> <<>>]
                        ELSE [thrown |-> FALSE, mails |-> Loaded(0, old, Page(box, p, size))]
           g == [p \in 1 .. Pages(box, size) + 1 |-> Result(p)]
<1>1. /\ l \in Nat /\ n \in Nat /\ (l > 0 => n > 0) /\ (l = 0 => n = 0)
      /\ Border(box, 0, size) = 0
  BY NewestPlaces, BorderFacts
<1>2. AsCalled(g, 0, old, box, size)
  <2> DEFINE G(p) == LoadBody(g, 0, old, box, size, p)
  <2>1. \A p \in 1 .. Pages(box, size) + 1 : Result(p) = G(p)
    BY DEF LoadBody
  <2> HIDE DEF G, Result
  <2>2. g = [p \in 1 .. Pages(box, size) + 1 |-> G(p)]
    BY <2>1
  <2> HIDE DEF g
  <2> QED BY <2>2, Zenon DEF G, AsCalled
<1>3. g[1] = IF l = 0 THEN [thrown |-> FALSE, mails |-> <<>>]
             ELSE [thrown |-> FALSE, mails |-> Loaded(0, old, Page(box, 1, size))]
  <2>1. 1 \in 1 .. n + 1 /\ (1 > n <=> l = 0) /\ (1 > 1) = FALSE
    BY <1>1
  <2>2. g[1] = Result(1)
    BY <2>1
  <2> HIDE DEF g, l
  <2> QED BY <2>1, <2>2
<1>4. u \in Nat /\ (l = 0 => u = 0)
  BY <1>1 DEF Smaller, InitLoadMessages
<1>5. CASE l = 0
  <2>1. OldestFirst(box, Handed(box, 0, u, old), 0, u, old) /\ u = 0
    <3>1. 0 \in Nat /\ 0 <= u
      BY <1>4
    <3>2. OldestFirst(box, Handed(box, 0, u, old), 0, u, old)
      BY <1>4, <3>1, HandedFacts, Zenon
    <3> QED BY <1>4, <1>5, <3>2
  <2>2. Handed(box, 0, u, old) \in Seq(MailsOf(box, old)) /\ Len(Handed(box, 0, u, old)) = 0
    BY <2>1 DEF OldestFirst
  <2>3. Handed(box, 0, u, old) = <<>>
    BY <2>2, EmptySeq
  <2> HIDE DEF g, l
  <2> QED BY <1>2, <1>3, <1>5, <2>3, LoadUnique
<1>6. CASE l # 0
  <2>1. 1 \in 1 .. n /\ 1 - 1 = 0
    BY <1>1, <1>6
  <2>2. Len(Page(box, 1, size)) = Border(box, 1, size) - Border(box, 0, size)
    BY <2>1, PageFacts
  <2>3. Border(box, 1, size) = Smaller(size, l)
    BY <1>1 DEF Border, Smaller
  <2>4. Len(Page(box, 1, size)) = Smaller(size, l) /\ Smaller(size, l) \in Nat
    BY <1>1, <2>2, <2>3 DEF Smaller
  <2>5. Until(0, Page(box, 1, size)) = u
    BY <2>4 DEF Until
  <2>6. u <= Smaller(size, l) /\ u \in 0 .. Border(box, 1, size) - Border(box, 0, size)
    BY <1>1, <1>4, <2>3, <2>4 DEF Smaller
  <2>7. Loaded(0, old, Page(box, 1, size)) = Handed(box, Border(box, 0, size), Border(box, 0, size) + u, old)
    BY <2>1, <2>5, <2>6, LoadedFacts
  <2>8. Loaded(0, old, Page(box, 1, size)) = Handed(box, 0, u, old)
    BY <1>1, <1>4, <2>7
  <2> HIDE DEF g, l
  <2> QED BY <1>2, <1>3, <1>6, <2>8, LoadUnique
<1> QED BY <1>5, <1>6

LastOf(box, b, s, first, old) ==
  Handed(box, 0, b, old) = [i \in 1 .. Len(s) - first + 1 |-> GetMail(s[i + first - 1], old)]

LEMMA BoxAbove ==
  ASSUME NEW S, NEW box, BoxOf(S, box), NEW f \in 0 .. MaxMail, NEW T, T = {i \in S : i > f}
  PROVE  /\ Cardinality(T) = Cardinality(S) - Rank(S, f)
         /\ DOMAIN Ascending(T) = 1 .. Cardinality(T)
         /\ \A m \in 1 .. Cardinality(T) : Ascending(T)[m] = Ascending(S)[m + Rank(S, f)]
BY BoxNumbers, AscendingAbove

LEMMA NewestHanded ==
  ASSUME NEW S, NEW box, BoxOf(S, box), NEW f \in 0 .. MaxMail, NEW T, T = {i \in S : i > f},
         NEW b \in 0 .. Len(Ascending(T)), NEW first, first = Len(Ascending(T)) - b + 1, NEW old
  PROVE  LastOf(box, b, Ascending(T), first, old)
<1> DEFINE l == Len(box)
           c == Cardinality(T)
           r == Rank(S, f)
           A == Ascending(S)
           new == Ascending(T)
<1>1. MaxMail \in Nat /\ S \in SUBSET (1 .. MaxMail)
  BY BoxNumbers
<1>2. c = Cardinality(S) - r /\ DOMAIN new = 1 .. c /\ \A m \in 1 .. c : new[m] = A[m + r]
  BY BoxAbove
<1>3. /\ l \in Nat /\ l = Cardinality(S) /\ \A i \in 1 .. l : box[i] = A[l + 1 - i]
  BY NewestPlaces
<1>4. c \in Nat /\ r \in Nat
  <2>1. f \in Nat
    BY <1>1
  <2>2. r \in Nat /\ r <= Cardinality(S)
    BY <1>1, <2>1, RankFacts
  <2> QED BY <1>2, <1>3, <2>2
<1>5. Len(new) = c
  BY <1>4 DEF Ascending
<1> HIDE DEF l, c, r, A, new
<1>6. b \in Nat /\ b <= c /\ first = c - b + 1 /\ c - first + 1 = b /\ b - 0 = b
  BY <1>4, <1>5 DEF new
<1>7. ASSUME NEW i \in 1 .. b PROVE box[b - i + 1] = new[i + first - 1]
  <2>1. /\ b - i + 1 \in 1 .. l /\ i + first - 1 \in 1 .. c
        /\ l + 1 - (b - i + 1) = (i + first - 1) + r
    <3>1. c = l - r /\ l \in Nat
      BY <1>2, <1>3
    <3>2. i \in Nat /\ 1 <= i /\ i <= b
      BY <1>6
    <3>3. b - i + 1 \in 1 .. l
      BY <1>4, <1>6, <3>1, <3>2
    <3>4. i + first - 1 \in 1 .. c
      BY <1>4, <1>6, <3>1, <3>2
    <3>5. l + 1 - (b - i + 1) = (i + first - 1) + r
      BY <1>4, <1>6, <3>1, <3>2
    <3> QED BY <3>3, <3>4, <3>5
  <2>2. box[b - i + 1] = A[l + 1 - (b - i + 1)]
    BY <1>3, <2>1
  <2>3. new[i + first - 1] = A[(i + first - 1) + r]
    BY <1>2, <2>1
  <2> QED BY <2>1, <2>2, <2>3
<1>8. Handed(box, 0, b, old) = [i \in 1 .. b |-> GetMail(box[b - i + 1], old)]
  BY <1>6 DEF Handed
<1>9. [i \in 1 .. b |-> GetMail(box[b - i + 1], old)]
        = [i \in 1 .. b |-> GetMail(new[i + first - 1], old)]
  BY <1>7
<1>10. Handed(box, 0, b, old) = [i \in 1 .. Len(new) - first + 1 |-> GetMail(new[i + first - 1], old)]
  BY <1>5, <1>6, <1>8, <1>9
<1> QED BY <1>10 DEF new, LastOf

FirstRead(lastMessage, new, size) ==
  IF lastMessage # 0 THEN 1
  ELSE Len(new) - Smaller(InitLoadMessages, Smaller(size, Len(new))) + 1

\* Of pages of any size.
LEMMA PagesAreRead ==
  ASSUME NEW S, NEW box, BoxOf(S, box), NEW lastMessage \in S \union {0}, NEW old, NEW size \in Nat \ {0},
         NEW T, T = {i \in S : i > lastMessage},
         NEW new, new = Ascending(T), NEW first, first = FirstRead(lastMessage, new, size)
  PROVE  GetMessages(lastMessage, old, box, size)
           = [mails |-> [i \in 1 .. Len(new) - first + 1 |-> GetMail(new[i + first - 1], old)],
              lastMessage |-> IF new = <<>> THEN lastMessage ELSE new[Len(new)]]
<1> DEFINE l == Len(box)
           A == Ascending(S)
           r == Rank(S, lastMessage)
           handed == [i \in 1 .. Len(new) - first + 1 |-> GetMail(new[i + first - 1], old)]
<1>1. /\ MaxMail \in Nat /\ S \in SUBSET (1 .. MaxMail) /\ lastMessage \in 0 .. MaxMail
      /\ lastMessage \in Nat
  BY BoxNumbers
<1>2. /\ l \in Nat /\ l = Cardinality(S)
      /\ \A i \in 1 .. l : box[i] = A[l + 1 - i]
  BY NewestPlaces
<1>3. Cardinality(T) = l - r /\ \A m \in 1 .. Cardinality(T) : new[m] = A[m + r]
  <2>1. /\ Cardinality(T) = Cardinality(S) - r
        /\ \A m \in 1 .. Cardinality(T) : Ascending(T)[m] = A[m + r]
    BY <1>1, AscendingAbove
  <2> QED BY <1>2, <2>1
<1>4. r \in Nat /\ r <= l
  <2>1. r \in Nat /\ r <= Cardinality(S)
    BY <1>1, RankFacts
  <2> QED BY <1>2, <2>1
<1>5. Len(new) = l - r /\ new \in Seq(T)
  <2>1. T \in SUBSET (1 .. MaxMail)
    BY <1>1
  <2>2. Ascending(T) \in Seq(T)
    BY <1>1, <2>1, AscendingFacts
  <2>3. Cardinality(T) \in Nat
    BY <1>2, <1>3, <1>4
  <2>4. Len(Ascending(T)) = Cardinality(T)
    BY <2>3 DEF Ascending
  <2> QED BY <1>3, <2>2, <2>4
<1>6. ASSUME NEW b \in 0 .. Len(new), first = Len(new) - b + 1
      PROVE  Handed(box, 0, b, old) = handed
  <2>1. b \in 0 .. Len(Ascending(T)) /\ first = Len(Ascending(T)) - b + 1
    BY <1>6
  <2>2. LastOf(box, b, Ascending(T), first, old)
    BY <1>1, <2>1, NewestHanded, Zenon
  <2> QED BY <2>2 DEF LastOf
<1>7. CASE lastMessage # 0
  <2>1. r \in 1 .. l /\ A[r] = lastMessage
    BY <1>1, <1>2, <1>7, RankInverse
  <2> DEFINE k == l + 1 - r
             before == l - r
  <2>2. k \in 1 .. l /\ before = k - 1 /\ l + 1 - k = r
    <3>1. l \in Nat /\ r \in 1 .. l
      BY <1>2, <2>1
    <3> HIDE DEF l, r
    <3> QED BY <3>1
  <2>3. box[k] = lastMessage
    BY <1>2, <2>1, <2>2
  <2>4. LoadMessages(lastMessage, old, box, size)
          = [thrown |-> FALSE, mails |-> Handed(box, 0, before, old)]
    <3> HIDE DEF k, before
    <3>1. LoadMessages(box[k], old, box, size)
            = [thrown |-> FALSE, mails |-> Handed(box, 0, before, old)]
      BY <2>2, LoadFound
    <3> QED BY <2>3, <3>1
  <2>5. first = Len(new) - before + 1 /\ before \in 0 .. Len(new)
    BY <1>2, <1>4, <1>5, <1>7 DEF FirstRead
  <2>6. Handed(box, 0, before, old) = handed
    BY <1>6, <2>5
  <2>7. box # <<>>
    BY <1>2, <2>2
  <2>8. box[1] = IF new = <<>> THEN lastMessage ELSE new[Len(new)]
    <3>1. CASE before = 0
      <4>1. k = 1 /\ new = <<>>
        BY <1>2, <1>5, <2>1, <3>1, EmptySeq
      <4> QED BY <2>3, <4>1
    <3>2. CASE before # 0
      <4>1. /\ before \in 1 .. Cardinality(T) /\ Len(new) = before /\ before + r = l
            /\ 1 \in 1 .. l /\ l + 1 - 1 = l
        BY <1>2, <1>3, <1>4, <1>5, <2>1, <3>2
      <4>2. new # <<>>
        BY <3>2, <4>1
      <4>3. new[before] = A[l] /\ box[1] = A[l]
        BY <1>2, <1>3, <4>1
      <4> QED BY <4>1, <4>2, <4>3
    <3> QED BY <3>1, <3>2
  <2>9. GetMessages(lastMessage, old, box, size)
          = [mails |-> Handed(box, 0, before, old), lastMessage |-> box[1]]
    BY <2>4, <2>7 DEF GetMessages
  <2> HIDE DEF handed, before, k
  <2>10. GetMessages(lastMessage, old, box, size)
          = [mails |-> handed, lastMessage |-> IF new = <<>> THEN lastMessage ELSE new[Len(new)]]
    BY <2>6, <2>8, <2>9
  <2> QED BY <2>10 DEF handed
<1>8. CASE lastMessage = 0
  <2> DEFINE u == Smaller(InitLoadMessages, Smaller(size, l))
  <2>1. r = 0 /\ Len(new) = l
    <3>1. r = 0
      BY <1>1, <1>8, RankFacts
    <3>2. l \in Nat /\ Len(new) = l - r
      BY <1>2, <1>5
    <3> HIDE DEF l, r
    <3> QED BY <3>1, <3>2
  <2>2. u \in 0 .. Len(new) /\ first = Len(new) - u + 1
    <3>1. u \in 0 .. l
      BY <1>2 DEF Smaller, InitLoadMessages
    <3>2. first = Len(new) - u + 1
      BY <1>8, <2>1 DEF FirstRead
    <3> QED BY <2>1, <3>1, <3>2
  <2>3. LoadMessages(0, old, box, size) = [thrown |-> FALSE, mails |-> Handed(box, 0, u, old)]
    BY LoadFirst
  <2>4. Handed(box, 0, u, old) = handed
    BY <1>6, <2>2
  <2>5. box = <<>> <=> l = 0
    BY <1>2, NewestPlaces
  <2>6. new = <<>> <=> l = 0
    BY <1>5, <2>1, EmptySeq
  <2>7. l # 0 => box[1] = new[Len(new)]
    <3> SUFFICES ASSUME l # 0 PROVE box[1] = new[l]
      BY <2>1
    <3>1. 1 \in 1 .. l /\ l \in 1 .. Cardinality(T) /\ l + r = l /\ l + 1 - 1 = l
      BY <1>2, <1>3, <2>1
    <3> QED BY <1>2, <1>3, <3>1
  <2>8. GetMessages(0, old, box, size)
          = [mails |-> Handed(box, 0, u, old),
             lastMessage |-> IF box = <<>> THEN 0 ELSE box[1]]
    BY <2>3 DEF GetMessages
  <2> HIDE DEF handed, u, l
  <2>9. GetMessages(lastMessage, old, box, size)
          = [mails |-> handed, lastMessage |-> IF new = <<>> THEN lastMessage ELSE new[Len(new)]]
    BY <1>8, <2>4, <2>5, <2>6, <2>7, <2>8
  <2> QED BY <2>9 DEF handed
<1> QED BY <1>7, <1>8

\* An empty list is no page.
LEMMA NothingListed ==
  ASSUME NEW S, NEW box, BoxOf(S, box), NEW size \in Nat \ {0}, NEW old, NEW m, box = <<>>
  PROVE  LoadMessages(m, old, box, size) = [thrown |-> FALSE, mails |-> <<>>]
<1> DEFINE g == [p \in 1 .. Pages(box, size) + 1 |-> [thrown |-> p > 1, mails |-> <<>>]]
<1>1. Pages(box, size) = 0
  <2>1. Len(box) = 0
    OBVIOUS
  <2> QED BY <2>1, BorderFacts
<1>2. g = [p \in 1 .. Pages(box, size) + 1 |-> LoadBody(g, m, old, box, size, p)]
  <2>1. \A p \in 1 .. Pages(box, size) + 1 :
          [thrown |-> p > 1, mails |-> <<>>] = LoadBody(g, m, old, box, size, p)
    BY <1>1 DEF LoadBody
  <2> QED BY <2>1
<1>3. g[1] = [thrown |-> FALSE, mails |-> <<>>]
  <2>1. 1 \in 1 .. Pages(box, size) + 1 /\ (1 > 1) = FALSE
    BY <1>1
  <2> QED BY <2>1
<1> HIDE DEF g
<1>4. AsCalled(g, m, old, box, size)
  BY <1>2, Zenon DEF AsCalled
<1>5. LoadMessages(m, old, box, size) = g[1]
  BY <1>4, LoadUnique, Zenon
<1> QED BY <1>3, <1>5

\* A last mail that is not listed any more stops the reading.
LEMMA LastMailLost ==
  ASSUME NEW S, NEW box, BoxOf(S, box), NEW size \in Nat \ {0}, NEW old, NEW m, m # 0, m \notin S
  PROVE  GetMessages(m, old, box, size) = [mails |-> <<>>, lastMessage |-> m]
<1>1. CASE box = <<>>
  BY <1>1, NothingListed DEF GetMessages
<1>2. CASE box # <<>>
  BY <1>2, LoadLost DEF GetMessages
<1> QED BY <1>1, <1>2

\* GmailApi reads what is newer than the last mail it has read, in the order in
\* which it came, if that mail is still listed, and nothing otherwise: of any
\* mailbox, whatever the time filter leaves of it, wherever the borders of the
\* pages are.
THEOREM GmailReadsAll == Spec => []GmailReadsNews
<1>1. TypeOK => GmailReadsNews
  <2> SUFFICES ASSUME TypeOK, NEW lastMessage \in OfPeer(DOMAIN mail) \union {0},
                      NEW from \in 1 .. MaxMail, NEW old \in SUBSET present, NEW size \in 1 .. 2
               PROVE  LET box == NewestFirst(from)
                          new == Ascending({i \in Listed(from) : i > lastMessage})
                          first == IF lastMessage # 0 THEN 1
                                   ELSE Len(new) - Smaller(InitLoadMessages, Smaller(size, Len(new))) + 1
                          got == GetMessages(lastMessage, old, box, size)
                      IN  IF lastMessage \in Listed(from) \union {0}
                            THEN /\ got.mails = [i \in 1 .. Len(new) - first + 1 |-> GetMail(new[i + first - 1], old)]
                                 /\ got.lastMessage = IF new = <<>> THEN lastMessage ELSE new[Len(new)]
                          ELSE got.mails = <<>> /\ got.lastMessage = lastMessage
    BY Zenon DEF GmailReadsNews
  <2> DEFINE S == Listed(from)
             box == NewestFirst(from)
             new == Ascending({i \in Listed(from) : i > lastMessage})
             first == FirstRead(lastMessage, new, size)
  <2>1. size \in Nat \ {0}
    OBVIOUS
  <2>2. BoxOf(S, box)
    <3>1. present \subseteq 1 .. Len(mail) /\ Len(mail) \in Nat /\ Len(mail) <= MaxMail
      BY DEF TypeOK
    <3>2. MaxMail \in Nat
      BY PluginsAssumption
    <3>3. \A i \in Listed(from) : i \in present
      BY DEF OfPeer, Listed
    <3>4. \A i \in Listed(from) : i \in 1 .. MaxMail
      <4>1. \A i \in present : i \in 1 .. MaxMail
        BY <3>1, <3>2
      <4> QED BY <3>3, <4>1, Zenon
    <3> QED BY <3>2, <3>4, Zenon DEF BoxOf, NewestFirst
  <2>3. CASE lastMessage \in Listed(from) \union {0}
    <3>1. ASSUME NEW T, T = {i \in S : i > lastMessage},
                 NEW s, s = Ascending(T), NEW f, f = FirstRead(lastMessage, s, size)
          PROVE  GetMessages(lastMessage, old, box, size)
                   = [mails |-> [i \in 1 .. Len(s) - f + 1 |-> GetMail(s[i + f - 1], old)],
                      lastMessage |-> IF s = <<>> THEN lastMessage ELSE s[Len(s)]]
      <4> HIDE DEF S, box
      <4>1. lastMessage \in S \union {0}
        BY <2>3 DEF S
      <4> QED BY <2>1, <2>2, <3>1, <4>1, PagesAreRead
    <3>2. GetMessages(lastMessage, old, box, size)
            = [mails |-> [i \in 1 .. Len(new) - first + 1 |-> GetMail(new[i + first - 1], old)],
               lastMessage |-> IF new = <<>> THEN lastMessage ELSE new[Len(new)]]
      BY <3>1, Zenon
    <3> QED BY <2>3, <3>2 DEF FirstRead
  <2>4. CASE lastMessage \notin Listed(from) \union {0}
    <3>1. GetMessages(lastMessage, old, box, size) = [mails |-> <<>>, lastMessage |-> lastMessage]
      <4>1. lastMessage # 0 /\ lastMessage \notin S
        BY <2>4
      <4> HIDE DEF S, box
      <4> QED BY <2>1, <2>2, <4>1, LastMailLost
    <3> QED BY <2>4, <3>1
  <2> QED BY <2>3, <2>4
<1> QED BY <1>1, PluginsTypeCorrect, PTL
=============================================================================
