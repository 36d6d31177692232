------------------------- MODULE KeyExchangeProofs -------------------------
(***************************************************************************)
(* What a proof of the key is worth, for any number of keys, RSA pairs,    *)
(* restarts, removals at any moment and messages that arrive again,        *)
(* whatever number a dialog begins with: unless an opener that lost its    *)
(* key was misled, an accepted proof means that both programs have one     *)
(* key.                                                                    *)
(*                                                                         *)
(* The argument: the acceptor works with the last key it kept, and checks  *)
(* a proof only while no other is being made.  The opener that was not     *)
(* misled goes from a key only to a newer one that the acceptor kept, or   *)
(* has the only key it ever had.  A proof made with the acceptor's key is  *)
(* therefore still good when it is read, and so are the texts behind it.   *)
(***************************************************************************)
EXTENDS KeyExchange, FiniteSetTheorems, TLAPS

(* The messages on the network, and the steps of the receive threads *)

Box == [pair : 0 .. MaxPairs, plain : 1 .. MaxKeys]

SentBy(action, from, content) ==
  [action : {action}, from : {from}, seq : Nat \ {0}, content : content, sign : 1 .. MaxPairs]

Messages ==
  SentBy("CREATE_DIALOG", "opener", {Nothing})
  \cup SentBy("VERIFY_KEY", "acceptor", [key : Box, check : Box])
  \cup SentBy("KEY_VERIFICATION", "opener", [key : 1 .. MaxKeys, plain : 1 .. MaxKeys])
  \cup SentBy("MESSAGE", "opener", [key : 1 .. MaxKeys, plain : Nat])

Offers == {m \in sent : m.action = "VERIFY_KEY"}
Proofs == {m \in sent : m.action = "KEY_VERIFICATION"}
Texts  == {m \in sent : m.action = "MESSAGE"}

Counters == [peerSeq : Nat, thisSeq : Nat]

AcceptorSteps ==
  {Idle} \cup [step : {"added"}, seq : Nat] \cup [step : {"drawing"}, seq : Nat, pair : 1 .. MaxPairs]

OpenerSteps ==
  {Idle} \cup [step : {"heard", "importing"}, message : Offers]
  \cup [step : {"proving"}, proof : [key : 1 .. MaxKeys, plain : 1 .. MaxKeys]]

History == [kept : 0 .. keys, newest : 0 .. keys, misled : BOOLEAN]
-----------------------------------------------------------------------------
(* The invariant *)

\* Types, with the shape of the messages.
Tables ==
  /\ dialogs \in [Nodes -> Counters \cup {NoDialog}]
  /\ ciphers \in [Nodes -> [cipher : 0 .. MaxKeys, myString : 0 .. MaxKeys]]
  /\ local \in [Nodes -> 1 .. MaxPairs]
  /\ remote \in [Nodes -> 0 .. MaxPairs]
  /\ removing \subseteq Nodes \X Threads
  /\ keys \in 0 .. MaxKeys /\ verified \in BOOLEAN
  /\ shown \subseteq BOOLEAN
  /\ history \in History

Network == sent \subseteq Messages /\ IsFiniteSet(sent)

Steps ==
  /\ handling = [n \in Nodes |-> handling[n]]
  /\ handling["acceptor"] \in AcceptorSteps
  /\ handling["opener"] \in OpenerSteps

Shapes == Tables /\ Network /\ Steps

\* An offer carries a key that was made.
OffersInv == \A m \in Offers : m.content.key.plain <= keys

\* The acceptor has the last key it kept, and accepts nothing while it makes one.
AcceptorInv ==
  /\ HasCipher("acceptor") => ciphers["acceptor"] = Element(history.kept, history.kept)
  /\ handling["acceptor"] # Idle => ~verified

\* The opener has a key that was made, as long as it imports.
OpenerInv ==
  /\ HasCipher("opener") => ciphers["opener"].cipher \in 1 .. history.newest
  /\ ~MutexFree("opener") => HasCipher("opener")
  /\ Present("opener") => sent # {}

\* The opener numbers what it sends, and has had the keys it used.
NumbersInv ==
  /\ \A m \in sent : m.from = "opener" /\ Present("opener") => m.seq <= dialogs["opener"].thisSeq
  /\ \A m \in Proofs \cup Texts : m.content.key <= history.newest
  /\ handling["opener"].step = "proving" => handling["opener"].proof.key <= history.newest

\* An opener that was not misled: its key is its newest, its texts go to newer
\* keys only, and its newest is one the acceptor kept or the only one it used.
LedInv ==
  /\ HasCipher("opener") => ciphers["opener"].cipher = history.newest
  /\ handling["opener"].step = "proving" => handling["opener"].proof.key = history.newest
  /\ \A m \in Proofs, t \in Texts : m.seq < t.seq => m.content.key <= t.content.key
  /\ history.newest <= history.kept \/ \A m \in Proofs : m.content.key = history.newest
  /\ VerifiedTextsAsWritten

\* A text says under its number what was written under it.
TextsInv == \A t \in Texts : t.content.plain = t.seq

\* What verified stands for: a proof made with the key that is kept was heard.
VerifiedInv ==
  verified =>
    /\ Present("acceptor")
    /\ \E m \in Proofs : m.content.key = history.kept /\ m.seq <= dialogs["acceptor"].peerSeq

IInv ==
  /\ Shapes /\ OffersInv /\ AcceptorInv /\ OpenerInv /\ NumbersInv /\ TextsInv /\ VerifiedInv
  /\ ~history.misled => LedInv
-----------------------------------------------------------------------------
(* Facts about messages and counters *)

LEMMA MessageShape ==
  ASSUME Shapes, NEW m \in sent
  PROVE  /\ m.seq \in Nat \ {0} /\ m.sign \in 1 .. MaxPairs
         /\ m.action \in {"CREATE_DIALOG", "VERIFY_KEY", "KEY_VERIFICATION", "MESSAGE"}
         /\ m.from = IF m.action = "VERIFY_KEY" THEN "acceptor" ELSE "opener"
         /\ m.action = "VERIFY_KEY" => m.content \in [key : Box, check : Box]
         /\ m.action = "KEY_VERIFICATION" => m.content \in [key : 1 .. MaxKeys, plain : 1 .. MaxKeys]
         /\ m.action = "MESSAGE" => m.content \in [key : 1 .. MaxKeys, plain : Nat]
  BY DEF Shapes, Network, Messages, SentBy

\* A message that is new on the network.
LEMMA MessageMade ==
  ASSUME NEW action, NEW from, NEW seq \in Nat \ {0}, NEW C, NEW content \in C,
         local[from] \in 1 .. MaxPairs
  PROVE  Message(action, from, seq, content) \in SentBy(action, from, C)
  BY DEF Message, CreateSign, SentBy

LEMMA NoDialogIsNone == NoDialog \notin Counters
  BY DEF NoDialog, Counters

LEMMA CountersOf ==
  ASSUME Shapes, NEW n \in Nodes, Present(n)
  PROVE  /\ dialogs[n] \in Counters
         /\ dialogs[n].peerSeq \in Nat /\ dialogs[n].thisSeq \in Nat
  BY DEF Shapes, Tables, Present, Counters

LEMMA BoundsAreNat == MaxKeys \in Nat /\ MaxPairs \in Nat \ {0} /\ Starts \subseteq Nat
  BY KeyExchangeAssumption

LEMMA HistoryOf ==
  ASSUME Shapes
  PROVE  /\ history = [kept |-> history.kept, newest |-> history.newest, misled |-> history.misled]
         /\ history.kept \in 0 .. keys /\ history.newest \in 0 .. keys
         /\ history.misled \in BOOLEAN /\ keys \in 0 .. MaxKeys /\ MaxKeys \in Nat
  BY BoundsAreNat DEF Shapes, Tables, History

\* What an offer carries.
LEMMA OfferShape ==
  ASSUME Shapes, NEW m \in Offers
  PROVE  /\ m \in sent /\ m.from = "acceptor" /\ m.seq \in Nat \ {0}
         /\ m.content \in [key : Box, check : Box]
         /\ m.content.key.plain \in 1 .. MaxKeys /\ m.content.check.plain \in 1 .. MaxKeys
<1>1. m \in sent /\ m.action = "VERIFY_KEY"
  BY DEF Offers
<1>2. m.from = "acceptor" /\ m.seq \in Nat \ {0} /\ m.content \in [key : Box, check : Box]
  BY <1>1, MessageShape
<1> QED BY <1>1, <1>2 DEF Box

LEMMA ProofShape ==
  ASSUME Shapes, NEW m \in Proofs \cup Texts
  PROVE  m \in sent /\ m.from = "opener" /\ m.seq \in Nat /\ m.content.key \in 1 .. MaxKeys
<1>1. m \in sent /\ (m.action = "KEY_VERIFICATION" \/ m.action = "MESSAGE")
  BY DEF Proofs, Texts
<1> QED BY <1>1, MessageShape

LEMMA NodesAre == Nodes = {"opener", "acceptor"} /\ Peer("opener") = "acceptor" /\ Peer("acceptor") = "opener"
  BY DEF Nodes, Peer

LEMMA StepsAre ==
  /\ Idle.step = "idle"
  /\ \A seq : Added(seq).step = "added" /\ Added(seq).seq = seq
  /\ \A seq, pair : Drawing(seq, pair).step = "drawing" /\ Drawing(seq, pair).seq = seq
                     /\ Drawing(seq, pair).pair = pair
  /\ \A m : HeardKey(m).step = "heard" /\ HeardKey(m).message = m
  /\ \A m : Importing(m).step = "importing" /\ Importing(m).message = m
  /\ \A p : Proving(p).step = "proving" /\ Proving(p).proof = p
  BY DEF Idle, Added, Drawing, HeardKey, Importing, Proving

\* A receive thread goes on; the other program's stays where it is.
LEMMA WentOn ==
  ASSUME Steps, NEW n \in Nodes, NEW step, GoOn(n, step)
  PROVE  /\ handling'[n] = step
         /\ \A k \in Nodes : k # n => handling'[k] = handling[k]
         /\ handling' = [k \in Nodes |-> handling'[k]]
  BY DEF Steps, GoOn
-----------------------------------------------------------------------------
(* Init *)

LEMMA IInvInit == Init => IInv
<1> SUFFICES ASSUME Init PROVE IInv
  OBVIOUS
<1> USE DEF Init
<1>1. NoElement \in [cipher : 0 .. MaxKeys, myString : 0 .. MaxKeys]
  BY KeyExchangeAssumption DEF NoElement, Element, None, Empty
<1>a. /\ dialogs \in [Nodes -> Counters \cup {NoDialog}]
      /\ ciphers \in [Nodes -> [cipher : 0 .. MaxKeys, myString : 0 .. MaxKeys]]
  BY <1>1
<1>b. /\ local \in [Nodes -> 1 .. MaxPairs] /\ remote \in [Nodes -> 0 .. MaxPairs]
      /\ keys \in 0 .. MaxKeys /\ history \in History
  BY KeyExchangeAssumption DEF History, None
<1>2. Shapes
  <2>1. Steps
    BY NodesAre DEF Steps, AcceptorSteps, OpenerSteps
  <2>2. Network
    BY FS_EmptySet DEF Network
  <2> QED BY <1>a, <1>b, <2>1, <2>2 DEF Shapes, Tables
<1>3. Offers = {} /\ Proofs = {} /\ Texts = {}
  BY DEF Offers, Proofs, Texts
<1>4. \A n \in Nodes : ~HasCipher(n) /\ ~Present(n) /\ MutexFree(n) /\ handling[n] = Idle
  BY StepsAre DEF HasCipher, Present, MutexFree
<1>5. LedInv
  BY <1>3, <1>4, NodesAre, StepsAre DEF LedInv, VerifiedTextsAsWritten, None
<1> QED
  BY <1>2, <1>3, <1>4, <1>5, NodesAre, StepsAre
  DEF IInv, OffersInv, AcceptorInv, OpenerInv, NumbersInv, TextsInv, VerifiedInv
-----------------------------------------------------------------------------
(* One message more on the network *)

LEMMA OneMore ==
  ASSUME Network, NEW m \in Messages, sent' = sent \cup {m}
  PROVE  /\ Network' /\ sent' # {}
         /\ Offers' = IF m.action = "VERIFY_KEY" THEN Offers \cup {m} ELSE Offers
         /\ Proofs' = IF m.action = "KEY_VERIFICATION" THEN Proofs \cup {m} ELSE Proofs
         /\ Texts' = IF m.action = "MESSAGE" THEN Texts \cup {m} ELSE Texts
<1>1. IsFiniteSet(sent')
  BY FS_AddElement DEF Network
<1> QED BY <1>1 DEF Network, Offers, Proofs, Texts

LEMMA NoneMore ==
  ASSUME sent' = sent
  PROVE  /\ Offers' = Offers /\ Proofs' = Proofs /\ Texts' = Texts
         /\ Network => Network'
  BY DEF Network, Offers, Proofs, Texts
-----------------------------------------------------------------------------
(* The handshake *)

LEMMA CreateDialogStep == ASSUME IInv, CreateDialog PROVE IInv'
<1> DEFINE m == Message("CREATE_DIALOG", "opener", 1, Nothing)
<1> USE NodesAre
<1>1. m \in Messages /\ m.action = "CREATE_DIALOG" /\ m.seq = 1 /\ m.from = "opener"
  <2>1. m \in SentBy("CREATE_DIALOG", "opener", {Nothing})
    BY MessageMade DEF IInv, Shapes, Tables
  <2> QED BY <2>1 DEF Messages, SentBy, Message
<1>2. sent' = sent \cup {m} /\ sent = {}
  BY DEF CreateDialog
<1> HIDE DEF m
<1>3. /\ Offers = {} /\ Proofs = {} /\ Texts = {} /\ sent' = {m} /\ Network'
      /\ Offers' = {} /\ Proofs' = {} /\ Texts' = {}
  BY <1>1, <1>2, OneMore DEF IInv, Shapes, Offers, Proofs, Texts
<1>4. /\ dialogs' = [dialogs EXCEPT !["opener"] = [peerSeq |-> 0, thisSeq |-> 1]]
      /\ UNCHANGED <<ciphers, local, remote, handling, removing, keys, verified, shown, history>>
  BY DEF CreateDialog
<1>5. ~verified
  BY <1>3 DEF IInv, VerifiedInv
<1>6. [peerSeq |-> 0, thisSeq |-> 1] \in Counters
  BY DEF Counters
<1>7. Shapes'
  <2>1. Tables'
    BY <1>4, <1>6 DEF IInv, Shapes, Tables, History
  <2>2. OpenerSteps' = OpenerSteps /\ AcceptorSteps' = AcceptorSteps
    BY <1>3 DEF OpenerSteps, AcceptorSteps
  <2>3. Steps'
    BY <1>4, <2>2 DEF IInv, Shapes, Steps
  <2> QED BY <1>3, <2>1, <2>3 DEF Shapes
<1>8. dialogs'["opener"].thisSeq = 1 /\ dialogs'["acceptor"] = dialogs["acceptor"]
  BY <1>4 DEF IInv, Shapes, Tables
<1>9. NumbersInv'
  BY <1>1, <1>3, <1>4, <1>8 DEF IInv, NumbersInv
<1>10. OpenerInv'
  BY <1>3, <1>4 DEF IInv, OpenerInv, HasCipher, MutexFree
<1>11. LedInv => LedInv'
  BY <1>3, <1>4 DEF LedInv, HasCipher, VerifiedTextsAsWritten
<1> QED
  BY <1>3, <1>4, <1>5, <1>7, <1>9, <1>10, <1>11
  DEF IInv, OffersInv, AcceptorInv, TextsInv, VerifiedInv, HasCipher

LEMMA AddDialogStep ==
  ASSUME IInv, NEW m \in sent, AddDialog(m)
  PROVE  IInv'
<1> USE NodesAre
<1>1. PICK start \in Starts :
        /\ dialogs' = [dialogs EXCEPT !["acceptor"] = [peerSeq |-> m.seq, thisSeq |-> start]]
        /\ GoOn("acceptor", Added(start))
  BY DEF AddDialog
<1>2. UNCHANGED <<ciphers, local, remote, removing, sent, keys, verified, shown, history>>
  BY DEF AddDialog
<1>3. Offers' = Offers /\ Proofs' = Proofs /\ Texts' = Texts /\ Network'
  BY <1>2, NoneMore DEF IInv, Shapes
<1>4. ~verified
  BY DEF AddDialog, IInv, VerifiedInv
<1>5. [peerSeq |-> m.seq, thisSeq |-> start] \in Counters /\ start \in Nat
  BY BoundsAreNat, MessageShape DEF Counters, IInv
<1>6. /\ handling'["acceptor"] = Added(start) /\ handling'["opener"] = handling["opener"]
      /\ handling' = [k \in Nodes |-> handling'[k]]
  BY <1>1, WentOn DEF IInv, Shapes
<1>7. Shapes'
  <2>1. Tables'
    BY <1>1, <1>2, <1>5 DEF IInv, Shapes, Tables, History
  <2>2. Added(start) \in AcceptorSteps'
    BY <1>5 DEF Added, AcceptorSteps
  <2>3. OpenerSteps' = OpenerSteps
    BY <1>3 DEF OpenerSteps
  <2>4. Steps'
    BY <1>6, <2>2, <2>3 DEF IInv, Shapes, Steps
  <2> QED BY <1>3, <2>1, <2>4 DEF Shapes
<1>8. dialogs'["opener"] = dialogs["opener"]
  BY <1>1 DEF IInv, Shapes, Tables
<1>9. OpenerInv' /\ NumbersInv'
  BY <1>2, <1>3, <1>6, <1>8 DEF IInv, OpenerInv, NumbersInv, HasCipher, MutexFree, Present
<1>10. LedInv => LedInv'
  BY <1>2, <1>3, <1>6 DEF LedInv, HasCipher, VerifiedTextsAsWritten
<1> QED
  BY <1>2, <1>3, <1>4, <1>7, <1>9, <1>10
  DEF IInv, OffersInv, AcceptorInv, TextsInv, VerifiedInv, HasCipher

LEMMA GetRemoteStep == ASSUME IInv, GetRemoteByAdress PROVE IInv'
<1> USE NodesAre
<1>1. UNCHANGED <<dialogs, ciphers, local, remote, removing, sent, keys, verified, shown, history>>
  BY DEF GetRemoteByAdress
<1>2. Offers' = Offers /\ Proofs' = Proofs /\ Texts' = Texts /\ Network'
  BY <1>1, NoneMore DEF IInv, Shapes
<1>3. PICK step \in AcceptorSteps : GoOn("acceptor", step)
  <2>1. handling["acceptor"] \in [step : {"added"}, seq : Nat]
    BY DEF GetRemoteByAdress, IInv, Shapes, Steps, AcceptorSteps, Idle
  <2>2. CASE GoOn("acceptor", Idle)
    BY <2>2 DEF AcceptorSteps
  <2>3. CASE /\ remote["acceptor"] # None
             /\ GoOn("acceptor", Drawing(handling["acceptor"].seq, remote["acceptor"]))
    <3>1. remote["acceptor"] \in 1 .. MaxPairs
      BY <2>3, BoundsAreNat DEF IInv, Shapes, Tables, None
    <3>2. Drawing(handling["acceptor"].seq, remote["acceptor"]) \in AcceptorSteps
      BY <2>1, <3>1 DEF Drawing, AcceptorSteps
    <3> QED BY <2>3, <3>2
  <2> QED BY <2>2, <2>3 DEF GetRemoteByAdress
<1>4. /\ handling'["acceptor"] = step /\ handling'["opener"] = handling["opener"]
      /\ handling' = [k \in Nodes |-> handling'[k]]
  BY <1>3, WentOn DEF IInv, Shapes
<1>5. ~verified
  BY StepsAre DEF GetRemoteByAdress, IInv, AcceptorInv
<1>6. Shapes'
  <2>1. Tables'
    BY <1>1 DEF IInv, Shapes, Tables, History
  <2>2. OpenerSteps' = OpenerSteps /\ AcceptorSteps' = AcceptorSteps
    BY <1>2 DEF OpenerSteps, AcceptorSteps
  <2>3. Steps'
    BY <1>3, <1>4, <2>2 DEF IInv, Shapes, Steps
  <2> QED BY <1>2, <2>1, <2>3 DEF Shapes
<1>7. OpenerInv' /\ NumbersInv'
  BY <1>1, <1>2, <1>4 DEF IInv, OpenerInv, NumbersInv, HasCipher, MutexFree, Present
<1>8. LedInv => LedInv'
  BY <1>1, <1>2, <1>4 DEF LedInv, HasCipher, VerifiedTextsAsWritten
<1> QED
  BY <1>1, <1>2, <1>5, <1>6, <1>7, <1>8
  DEF IInv, OffersInv, AcceptorInv, TextsInv, VerifiedInv, HasCipher

LEMMA GenerateStep == ASSUME IInv, GenerateAndExportKey PROVE IInv'
<1> DEFINE key == keys + 1
           pair == handling["acceptor"].pair
           seq == handling["acceptor"].seq
           box == Encrypt(pair, key)
           offer == Message("VERIFY_KEY", "acceptor", seq + 1, [key |-> box, check |-> box])
<1> USE NodesAre
<1>1. /\ keys \in Nat /\ key \in 1 .. MaxKeys /\ keys' = key /\ GoOn("acceptor", Idle)
  BY BoundsAreNat DEF GenerateAndExportKey, GeneratedKey, IInv, Shapes, Tables
<1>2. pair \in 1 .. MaxPairs /\ seq \in Nat /\ ~verified
  <2>1. handling["acceptor"] \in [step : {"drawing"}, seq : Nat, pair : 1 .. MaxPairs]
    BY DEF GenerateAndExportKey, IInv, Shapes, Steps, AcceptorSteps, Idle
  <2> QED BY <2>1, StepsAre DEF GenerateAndExportKey, IInv, AcceptorInv
<1>3. box \in Box /\ box.plain = key
  BY <1>1, <1>2 DEF Box, Encrypt
<1>4. /\ offer \in Messages /\ offer.action = "VERIFY_KEY" /\ offer.from = "acceptor"
      /\ offer.content = [key |-> box, check |-> box]
  <2>1. [key |-> box, check |-> box] \in [key : Box, check : Box]
    BY <1>3
  <2>2. offer \in SentBy("VERIFY_KEY", "acceptor", [key : Box, check : Box])
    <3>1. seq + 1 \in Nat \ {0} /\ local["acceptor"] \in 1 .. MaxPairs
      BY <1>2 DEF IInv, Shapes, Tables
    <3> HIDE DEF box, seq
    <3> QED BY <2>1, <3>1, MessageMade
  <2> QED BY <2>2 DEF Messages, SentBy, Message
<1>5. /\ sent' = sent \cup {offer}
      /\ ciphers' = Emplaced("acceptor", Element(key, key))
      /\ history' = IF HasCipher("acceptor") THEN history ELSE [history EXCEPT !.kept = key]
      /\ UNCHANGED <<dialogs, local, remote, removing, verified, shown>>
  BY DEF GenerateAndExportKey, GenerateSymmetricalCipherTo, Serialize, GeneratedKey
<1> HIDE DEF offer
<1>6. Offers' = Offers \cup {offer} /\ Proofs' = Proofs /\ Texts' = Texts /\ Network' /\ sent' # {}
  BY <1>4, <1>5, OneMore DEF IInv, Shapes
<1>7. /\ handling'["acceptor"] = Idle /\ handling'["opener"] = handling["opener"]
      /\ handling' = [k \in Nodes |-> handling'[k]]
  BY <1>1, WentOn DEF IInv, Shapes
<1>8. /\ history' \in History' /\ history'.newest = history.newest /\ history'.misled = history.misled
      /\ history'.kept \in {history.kept, key} /\ history.kept <= history'.kept
      /\ history.kept \in Nat /\ history.newest \in 0 .. keys
  <2>1. /\ history.kept \in 0 .. keys /\ history.newest \in 0 .. keys /\ history.misled \in BOOLEAN
        /\ history = [kept |-> history.kept, newest |-> history.newest, misled |-> history.misled]
    BY HistoryOf DEF IInv
  <2>2. CASE HasCipher("acceptor")
    BY <1>1, <1>5, <2>1, <2>2 DEF History
  <2>3. CASE ~HasCipher("acceptor")
    <3>1. history' = [kept |-> key, newest |-> history.newest, misled |-> history.misled]
      BY <1>5, <2>1, <2>3
    <3> QED BY <1>1, <2>1, <3>1 DEF History
  <2> QED BY <2>2, <2>3
<1>9. /\ ciphers' \in [Nodes -> [cipher : 0 .. MaxKeys, myString : 0 .. MaxKeys]]
      /\ ciphers'["opener"] = ciphers["opener"]
      /\ HasCipher("acceptor")' => ciphers'["acceptor"] = Element(history'.kept, history'.kept)
  <2>1. Element(key, key) \in [cipher : 0 .. MaxKeys, myString : 0 .. MaxKeys]
    BY <1>1 DEF Element
  <2> HIDE DEF key
  <2>2. CASE HasCipher("acceptor")
    BY <1>5, <2>2 DEF Emplaced, IInv, Shapes, Tables, AcceptorInv
  <2>3. CASE ~HasCipher("acceptor")
    <3>1. ciphers' = [ciphers EXCEPT !["acceptor"] = Element(key, key)]
          /\ history' = [history EXCEPT !.kept = key]
      BY <1>5, <2>3 DEF Emplaced
    <3>2. history'.kept = key
      BY <3>1, HistoryOf DEF IInv
    <3> QED BY <2>1, <3>1, <3>2 DEF IInv, Shapes, Tables
  <2> QED BY <2>2, <2>3
<1>10. Shapes'
  <2>1. Tables'
    BY <1>1, <1>5, <1>8, <1>9 DEF IInv, Shapes, Tables
  <2>2. AcceptorSteps' = AcceptorSteps /\ OpenerSteps \subseteq OpenerSteps'
    BY <1>6 DEF AcceptorSteps, OpenerSteps
  <2>3. Idle \in AcceptorSteps
    BY DEF AcceptorSteps
  <2>4. Steps'
    BY <1>7, <2>2, <2>3 DEF IInv, Shapes, Steps
  <2> QED BY <1>6, <2>1, <2>4 DEF Shapes
<1>11. OffersInv'
  BY <1>1, <1>3, <1>4, <1>6, OfferShape DEF IInv, OffersInv
<1>12. AcceptorInv'
  BY <1>7, <1>9 DEF AcceptorInv
<1>13. OpenerInv'
  BY <1>1, <1>5, <1>6, <1>7, <1>8, <1>9 DEF IInv, OpenerInv, HasCipher, Present, MutexFree
<1>14. NumbersInv'
  BY <1>4, <1>5, <1>6, <1>7, <1>8 DEF IInv, NumbersInv, Present
<1>15. LedInv => LedInv'
  <2>1. (history.newest <= history.kept) => history'.newest <= history'.kept
    <3>1. history.newest \in Nat /\ history'.kept \in Nat
      BY <1>1, <1>8
    <3> QED BY <1>8, <3>1
  <2> QED
    BY <1>5, <1>6, <1>7, <1>8, <1>9, <2>1 DEF LedInv, HasCipher, VerifiedTextsAsWritten
<1> QED
  BY <1>2, <1>5, <1>6, <1>8, <1>10, <1>11, <1>12, <1>13, <1>14, <1>15
  DEF IInv, TextsInv, VerifiedInv

LEMMA HandleVerifyKeyStep ==
  ASSUME IInv, NEW m \in sent, HandleVerifyKey(m)
  PROVE  IInv'
<1> USE NodesAre
<1>1. /\ m \in Offers /\ Present("opener") /\ MutexFree("opener")
      /\ GoOn("opener", HeardKey(m))
      /\ dialogs' = [dialogs EXCEPT !["opener"] = [dialogs["opener"] EXCEPT !.peerSeq = m.seq]]
      /\ UNCHANGED <<ciphers, local, remote, removing, sent, keys, verified, shown, history>>
  BY StepsAre
  DEF HandleVerifyKey, Arrives, Accepted, Offers, MutexFree, Heard, WithPeerSeq
<1>2. Offers' = Offers /\ Proofs' = Proofs /\ Texts' = Texts /\ Network'
  BY <1>1, NoneMore DEF IInv, Shapes
<1>3. dialogs["opener"] \in Counters /\ m.seq \in Nat
  BY <1>1, CountersOf, OfferShape DEF IInv
<1>4. /\ [dialogs["opener"] EXCEPT !.peerSeq = m.seq] \in Counters
      /\ dialogs'["opener"].thisSeq = dialogs["opener"].thisSeq
      /\ dialogs'["acceptor"] = dialogs["acceptor"]
  BY <1>1, <1>3 DEF Counters, IInv, Shapes, Tables
<1>5. /\ handling'["opener"] = HeardKey(m) /\ handling'["acceptor"] = handling["acceptor"]
      /\ handling' = [k \in Nodes |-> handling'[k]]
  BY <1>1, WentOn DEF IInv, Shapes
<1>6. Shapes'
  <2>1. Tables'
    BY <1>1, <1>4 DEF IInv, Shapes, Tables, History
  <2>2. HeardKey(m) \in OpenerSteps' /\ AcceptorSteps' = AcceptorSteps
    BY <1>1, <1>2 DEF HeardKey, OpenerSteps, AcceptorSteps
  <2>3. Steps'
    BY <1>5, <2>2 DEF IInv, Shapes, Steps
  <2> QED BY <1>2, <2>1, <2>3 DEF Shapes
<1>7. OpenerInv' /\ NumbersInv'
  BY <1>1, <1>2, <1>4, <1>5, StepsAre
  DEF IInv, OpenerInv, NumbersInv, HasCipher, MutexFree, Present
<1>8. LedInv => LedInv'
  BY <1>1, <1>2, <1>5, StepsAre DEF LedInv, HasCipher, VerifiedTextsAsWritten
<1> QED
  BY <1>1, <1>2, <1>4, <1>5, <1>6, <1>7, <1>8
  DEF IInv, OffersInv, AcceptorInv, TextsInv, VerifiedInv, HasCipher, Present

\* What importKey does to the ciphers and to the history when it keeps a key.
LEMMA KeyKept ==
  ASSUME Shapes, OpenerInv, ~HasCipher("opener"), NEW key \in 1 .. keys,
         history' = [history EXCEPT !.newest = IF key > @ THEN key ELSE @,
                                    !.misled = @ \/ Misled(key)]
  PROVE  /\ history' \in History
         /\ history'.kept = history.kept /\ history.newest <= history'.newest
         /\ history.newest \in Nat /\ history'.newest \in Nat
         /\ key \in 1 .. history'.newest
         /\ ~history'.misled =>
              /\ ~history.misled /\ history'.newest = key
              /\ history.newest = 0 \/ history'.newest = history.newest \/ key <= history.kept
<1>1. /\ history = [kept |-> history.kept, newest |-> history.newest, misled |-> history.misled]
      /\ history.kept \in 0 .. keys /\ history.newest \in 0 .. keys /\ history.misled \in BOOLEAN
      /\ keys \in Nat
  BY HistoryOf
<1>2. /\ history'.kept = history.kept
      /\ history'.newest = IF key > history.newest THEN key ELSE history.newest
      /\ history'.misled = (history.misled \/ Misled(key))
      /\ DOMAIN history' = DOMAIN history
  BY <1>1
<1>3. Misled(key) \in BOOLEAN
  BY DEF Misled
<1>4. history' \in History
  <2>1. history' = [kept |-> history'.kept, newest |-> history'.newest, misled |-> history'.misled]
    BY <1>1
  <2>2. history'.kept \in 0 .. keys /\ history'.newest \in 0 .. keys /\ history'.misled \in BOOLEAN
    BY <1>1, <1>2, <1>3
  <2> HIDE <1>1, <1>2
  <2> QED BY <2>1, <2>2 DEF History
<1>5. ASSUME ~history'.misled
      PROVE  /\ ~history.misled /\ history'.newest = key
             /\ history.newest = 0 \/ history'.newest = history.newest \/ key <= history.kept
  <2>1. ~history.misled /\ ~Misled(key)
    BY <1>2, <1>5
  <2> QED BY <1>1, <1>2, <2>1 DEF Misled, None
<1> QED BY <1>1, <1>2, <1>4, <1>5

LEMMA ImportKeyStep == ASSUME IInv, ImportKey PROVE IInv'
<1> DEFINE m == handling["opener"].message
           key == m.content.key.plain
           cipher == CreateSymmetricalCipherFrom(local["opener"], m.content.key)
<1> USE NodesAre
<1>1. handling["opener"] \in [step : {"heard"}, message : Offers] /\ m \in Offers
  BY DEF ImportKey, IInv, Shapes, Steps, OpenerSteps, Idle
<1>2. key \in 1 .. keys
  <2>1. key \in 1 .. MaxKeys /\ key <= keys /\ keys \in Nat
    BY <1>1, OfferShape, HistoryOf DEF IInv, OffersInv
  <2> QED BY <2>1
<1>3. UNCHANGED <<dialogs, local, remote, removing, sent, keys, verified, shown>>
  BY DEF ImportKey
<1>4. Offers' = Offers /\ Proofs' = Proofs /\ Texts' = Texts /\ Network'
  BY <1>3, NoneMore DEF IInv, Shapes
<1>5. CASE GoOn("opener", Idle) /\ UNCHANGED <<ciphers, history>>
  <2>1. /\ handling'["opener"] = Idle /\ handling'["acceptor"] = handling["acceptor"]
        /\ handling' = [k \in Nodes |-> handling'[k]]
    BY <1>5, WentOn DEF IInv, Shapes
  <2>2. Shapes'
    <3>1. Tables'
      BY <1>3, <1>5 DEF IInv, Shapes, Tables, History
    <3>2. Steps'
      BY <1>4, <2>1 DEF IInv, Shapes, Steps, OpenerSteps, AcceptorSteps
    <3> QED BY <1>4, <3>1, <3>2 DEF Shapes
  <2>3. OpenerInv' /\ NumbersInv'
    BY <1>3, <1>4, <1>5, <2>1, StepsAre
    DEF IInv, OpenerInv, NumbersInv, HasCipher, MutexFree, Present
  <2>4. LedInv => LedInv'
    BY <1>3, <1>4, <1>5, <2>1, StepsAre DEF LedInv, HasCipher, VerifiedTextsAsWritten
  <2> QED
    BY <1>3, <1>4, <1>5, <2>1, <2>2, <2>3, <2>4
    DEF IInv, OffersInv, AcceptorInv, TextsInv, VerifiedInv, HasCipher, Present
<1>6. CASE /\ cipher # Thrown /\ GoOn("opener", Importing(m))
           /\ ciphers' = Emplaced("opener", Element(cipher, Empty))
           /\ history' = IF HasCipher("opener") THEN history
                         ELSE [history EXCEPT !.newest = IF cipher > @ THEN cipher ELSE @,
                                              !.misled = @ \/ Misled(cipher)]
  <2>1. cipher = key
    BY <1>6 DEF CreateSymmetricalCipherFrom, Deserialize, Decrypt
  <2> HIDE DEF cipher, key, m
  <2>2. /\ handling'["opener"] = Importing(m) /\ handling'["acceptor"] = handling["acceptor"]
        /\ handling' = [k \in Nodes |-> handling'[k]]
    BY <1>6, WentOn DEF IInv, Shapes
  <2>3. /\ Element(key, Empty) # NoElement
        /\ Element(key, Empty) \in [cipher : 0 .. MaxKeys, myString : 0 .. MaxKeys]
        /\ Element(key, Empty).cipher = key
    <3>1. key \in 1 .. MaxKeys /\ 0 \in 0 .. MaxKeys
      BY <1>2, HistoryOf DEF IInv
    <3> QED BY <3>1 DEF Element, NoElement, None, Empty
  <2>4. /\ history' \in History /\ history'.kept = history.kept
        /\ history.newest <= history'.newest /\ history'.newest \in Nat /\ history.newest \in Nat
        /\ ~history'.misled => ~history.misled
    <3>1. CASE HasCipher("opener")
      BY <1>6, <3>1, HistoryOf DEF IInv, Shapes, Tables
    <3>2. CASE ~HasCipher("opener")
      BY <1>2, <1>6, <2>1, <3>2, KeyKept DEF IInv
    <3> QED BY <3>1, <3>2
  <2>5. /\ ciphers' \in [Nodes -> [cipher : 0 .. MaxKeys, myString : 0 .. MaxKeys]]
        /\ ciphers'["acceptor"] = ciphers["acceptor"] /\ HasCipher("opener")'
        /\ ciphers'["opener"].cipher \in 1 .. history'.newest
    <3>1. CASE HasCipher("opener")
      BY <1>6, <3>1 DEF Emplaced, IInv, Shapes, Tables, OpenerInv, HasCipher
    <3>2. CASE ~HasCipher("opener")
      <4>1. ciphers' = [ciphers EXCEPT !["opener"] = Element(key, Empty)]
        BY <1>6, <2>1, <3>2 DEF Emplaced
      <4>2. key \in 1 .. history'.newest
        BY <1>2, <1>6, <2>1, <3>2, KeyKept DEF IInv
      <4>3. ciphers'["opener"] = Element(key, Empty) /\ ciphers'["acceptor"] = ciphers["acceptor"]
            /\ ciphers' \in [Nodes -> [cipher : 0 .. MaxKeys, myString : 0 .. MaxKeys]]
        BY <2>3, <4>1 DEF IInv, Shapes, Tables
      <4> QED BY <2>3, <4>2, <4>3 DEF HasCipher
    <3> QED BY <3>1, <3>2
  <2>6. Shapes'
    <3>1. Tables'
      BY <1>3, <2>4, <2>5 DEF IInv, Shapes, Tables, History
    <3>2. Importing(m) \in OpenerSteps' /\ AcceptorSteps' = AcceptorSteps
      BY <1>1, <1>4 DEF Importing, OpenerSteps, AcceptorSteps, m
    <3>3. Steps'
      BY <2>2, <3>2 DEF IInv, Shapes, Steps
    <3> QED BY <1>4, <3>1, <3>3 DEF Shapes
  <2>7. OpenerInv'
    BY <1>3, <2>5 DEF IInv, OpenerInv, Present
  <2>8. \A p \in Proofs \cup Texts : p.content.key \in Nat /\ p.content.key <= history.newest
    BY ProofShape DEF IInv, NumbersInv
  <2>9. NumbersInv'
    <3>1. \A p \in Proofs \cup Texts : p.content.key <= history'.newest
      BY <2>4, <2>8
    <3> QED BY <1>3, <1>4, <2>2, <3>1, StepsAre DEF IInv, NumbersInv, Present
  <2>10. ASSUME ~history'.misled PROVE LedInv'
    <3>1. LedInv
      BY <2>4, <2>10 DEF IInv
    <3>2. CASE HasCipher("opener")
      <4>1. ciphers' = ciphers /\ history' = history
        BY <1>6, <3>2 DEF Emplaced
      <4> QED
        BY <1>3, <1>4, <2>2, <3>1, <4>1, StepsAre DEF LedInv, HasCipher, VerifiedTextsAsWritten
    <3>3. CASE ~HasCipher("opener")
      <4>1. /\ history'.newest = key
            /\ history.newest = 0 \/ history'.newest = history.newest \/ key <= history.kept
        BY <1>2, <1>6, <2>1, <2>10, <3>3, KeyKept DEF IInv
      <4>2. ciphers'["opener"].cipher = key
        <5>1. ciphers' = [ciphers EXCEPT !["opener"] = Element(key, Empty)]
          BY <1>6, <2>1, <3>3 DEF Emplaced
        <5> QED BY <2>3, <5>1 DEF IInv, Shapes, Tables
      <4>3. history'.newest <= history'.kept \/ \A p \in Proofs : p.content.key = history'.newest
        <5>1. CASE history.newest = 0
          <6>1. \A p \in Proofs : FALSE
            <7>1. \A p \in Proofs : p.content.key \in 1 .. MaxKeys /\ p.content.key <= 0
              BY <2>8, <5>1, ProofShape DEF IInv
            <7> QED BY <7>1, BoundsAreNat
          <6> QED BY <6>1
        <5>2. CASE history'.newest = history.newest
          BY <2>4, <3>1, <5>2 DEF LedInv
        <5>3. CASE key <= history.kept
          BY <2>4, <4>1, <5>3
        <5> QED BY <4>1, <5>1, <5>2, <5>3
      <4> QED
        BY <1>3, <1>4, <2>2, <3>1, <4>1, <4>2, <4>3, StepsAre DEF LedInv, VerifiedTextsAsWritten
    <3> QED BY <3>2, <3>3
  <2>11. AcceptorInv' /\ VerifiedInv'
    BY <1>3, <1>4, <2>2, <2>4, <2>5 DEF IInv, AcceptorInv, VerifiedInv, HasCipher, Present
  <2> QED
    BY <1>3, <1>4, <2>6, <2>7, <2>9, <2>10, <2>11 DEF IInv, OffersInv, TextsInv
<1> QED BY <1>5, <1>6 DEF ImportKey

LEMMA ImportVerificationStep == ASSUME IInv, ImportVerification PROVE IInv'
<1> DEFINE m == handling["opener"].message
           check == Decrypt(local["opener"], m.content.check)
           cipher == ciphers["opener"].cipher
<1> USE NodesAre
<1>1. /\ handling["opener"] \in [step : {"importing"}, message : Offers] /\ m \in Offers
      /\ ~MutexFree("opener")
  BY DEF ImportVerification, IInv, Shapes, Steps, OpenerSteps, Idle, MutexFree
<1>2. HasCipher("opener") /\ cipher \in 1 .. history.newest /\ cipher \in 1 .. MaxKeys
  <2>1. HasCipher("opener") /\ cipher \in 1 .. history.newest
    BY <1>1 DEF IInv, OpenerInv
  <2>2. history.newest \in 0 .. keys /\ keys \in 0 .. MaxKeys /\ MaxKeys \in Nat
    BY HistoryOf DEF IInv
  <2> QED BY <2>1, <2>2
<1>3. UNCHANGED <<dialogs, ciphers, local, remote, removing, sent, keys, verified, shown, history>>
  BY DEF ImportVerification
<1>4. Offers' = Offers /\ Proofs' = Proofs /\ Texts' = Texts /\ Network'
  BY <1>3, NoneMore DEF IInv, Shapes
<1>5. PICK step \in OpenerSteps :
        /\ GoOn("opener", step) /\ step.step # "importing"
        /\ step.step = "proving" => step.proof.key = cipher
  <2>1. CASE check = Thrown
    <3>1. GoOn("opener", Idle)
      BY <2>1 DEF ImportVerification
    <3>2. Idle \in OpenerSteps
      BY DEF OpenerSteps
    <3> QED BY <3>1, <3>2, StepsAre
  <2>2. CASE check # Thrown
    <3>1. check \in 1 .. MaxKeys
      BY <1>1, <2>2, OfferShape DEF Decrypt, IInv
    <3>2. Proof(check) \in [key : 1 .. MaxKeys, plain : 1 .. MaxKeys] /\ Proof(check).key = cipher
      BY <1>2, <3>1 DEF Proof, AesEncrypt
    <3>3. Proving(Proof(check)) \in OpenerSteps
      BY <3>2 DEF Proving, OpenerSteps
    <3>4. GoOn("opener", Proving(Proof(check)))
      BY <2>2 DEF ImportVerification
    <3> HIDE DEF check
    <3> QED BY <3>2, <3>3, <3>4, StepsAre
  <2> QED BY <2>1, <2>2
<1>6. /\ handling'["opener"] = step /\ handling'["acceptor"] = handling["acceptor"]
      /\ handling' = [k \in Nodes |-> handling'[k]]
  BY <1>5, WentOn DEF IInv, Shapes
<1>7. Shapes'
  <2>1. Tables'
    BY <1>3 DEF IInv, Shapes, Tables, History
  <2>2. OpenerSteps' = OpenerSteps /\ AcceptorSteps' = AcceptorSteps
    BY <1>4 DEF OpenerSteps, AcceptorSteps
  <2>3. Steps'
    BY <1>5, <1>6, <2>2 DEF IInv, Shapes, Steps
  <2> QED BY <1>4, <2>1, <2>3 DEF Shapes
<1>8. OpenerInv'
  BY <1>2, <1>3, <1>5, <1>6 DEF IInv, OpenerInv, HasCipher, MutexFree, Present
<1>9. NumbersInv'
  BY <1>2, <1>3, <1>4, <1>5, <1>6 DEF IInv, NumbersInv, Present
<1>10. LedInv => LedInv'
  BY <1>2, <1>3, <1>4, <1>5, <1>6 DEF LedInv, HasCipher, VerifiedTextsAsWritten
<1> QED
  BY <1>3, <1>4, <1>6, <1>7, <1>8, <1>9, <1>10
  DEF IInv, OffersInv, AcceptorInv, TextsInv, VerifiedInv, HasCipher, Present

\* The opener sends something under its next number.
LEMMA OpenerSends ==
  ASSUME IInv, Present("opener"), NEW m \in Messages, m.from = "opener",
         m.seq = dialogs["opener"].thisSeq + 1,
         m.action \in {"KEY_VERIFICATION", "MESSAGE"}, m.content.key <= history.newest,
         m.action = "MESSAGE" => m.content.plain = m.seq,
         sent' = sent \cup {m},
         dialogs' = [dialogs EXCEPT !["opener"] = MakeNextSequental(dialogs["opener"])],
         handling' = [k \in Nodes |-> handling'[k]],
         handling'["opener"] \in {handling["opener"], Idle},
         handling'["acceptor"] = handling["acceptor"],
         ~history.misled => m.content.key = history.newest,
         UNCHANGED <<ciphers, local, remote, removing, keys, verified, shown, history>>
  PROVE  IInv'
<1> DEFINE next == MakeNextSequental(dialogs["opener"])
<1> USE NodesAre
<1>1. dialogs["opener"] \in Counters /\ m.seq \in Nat
  BY CountersOf DEF IInv
<1>2. /\ next \in Counters /\ next.thisSeq = m.seq /\ next.peerSeq = dialogs["opener"].peerSeq
      /\ dialogs["opener"].thisSeq < m.seq
  BY <1>1 DEF MakeNextSequental, Counters
<1> HIDE DEF next
<1>3. /\ dialogs'["opener"] = next /\ dialogs'["acceptor"] = dialogs["acceptor"]
      /\ dialogs' \in [Nodes -> Counters \cup {NoDialog}]
  BY <1>2 DEF next, IInv, Shapes, Tables
<1>4. /\ Network' /\ sent' # {} /\ Offers' = Offers
      /\ Proofs' = (IF m.action = "KEY_VERIFICATION" THEN Proofs \cup {m} ELSE Proofs)
      /\ Texts' = (IF m.action = "MESSAGE" THEN Texts \cup {m} ELSE Texts)
  BY OneMore DEF IInv, Shapes
<1>5. \A n \in sent : n.from = "opener" => n.seq < m.seq
  <2>1. \A n \in sent : n.seq \in Nat
    BY MessageShape DEF IInv
  <2>2. \A n \in sent : n.from = "opener" => n.seq <= dialogs["opener"].thisSeq
    BY DEF IInv, NumbersInv
  <2>3. dialogs["opener"].thisSeq \in Nat
    BY <1>1 DEF Counters
  <2> QED BY <1>1, <1>2, <2>1, <2>2, <2>3
<1>6. Shapes'
  <2>1. Tables'
    BY <1>3 DEF IInv, Shapes, Tables, History
  <2>2. OpenerSteps' = OpenerSteps /\ AcceptorSteps' = AcceptorSteps /\ Idle \in OpenerSteps
    BY <1>4 DEF OpenerSteps, AcceptorSteps
  <2>3. Steps'
    BY <2>2 DEF IInv, Shapes, Steps
  <2> QED BY <1>4, <2>1, <2>3 DEF Shapes
<1>7. OpenerInv'
  BY <1>4, StepsAre DEF IInv, OpenerInv, HasCipher, MutexFree
<1>8. NumbersInv'
  <2>1. \A n \in sent' : n.from = "opener" => n.seq <= next.thisSeq
    <3>1. \A n \in sent : n.seq \in Nat
      BY MessageShape DEF IInv
    <3> QED BY <1>1, <1>2, <1>5, <3>1
  <2>2. \A p \in Proofs' \cup Texts' : p.content.key <= history.newest
    BY <1>4 DEF IInv, NumbersInv
  <2>3. handling'["opener"].step = "proving" => handling'["opener"].proof.key <= history.newest
    BY StepsAre DEF IInv, NumbersInv
  <2> QED BY <1>3, <2>1, <2>2, <2>3 DEF NumbersInv
<1>9. ASSUME ~history.misled PROVE LedInv'
  <2>1. LedInv /\ m.content.key = history.newest
    BY <1>9 DEF IInv
  <2>2. \A p \in Proofs', t \in Texts' : p.seq < t.seq => p.content.key <= t.content.key
    <3>1. \A t \in Texts : t.seq < m.seq /\ t.seq \in Nat
      BY <1>5, ProofShape DEF IInv
    <3>2. \A p \in Proofs : p.content.key <= history.newest
      BY DEF IInv, NumbersInv
    <3>3. CASE m.action = "KEY_VERIFICATION"
      <4>1. \A t \in Texts : ~(m.seq < t.seq)
        BY <1>1, <3>1
      <4> QED BY <1>4, <2>1, <3>3, <4>1 DEF LedInv
    <3>4. CASE m.action = "MESSAGE"
      BY <1>4, <2>1, <3>2, <3>4 DEF LedInv
    <3> QED BY <3>3, <3>4
  <2>3. history.newest <= history.kept \/ \A p \in Proofs' : p.content.key = history.newest
    BY <1>4, <2>1 DEF LedInv
  <2>4. handling'["opener"].step = "proving" => handling'["opener"].proof.key = history.newest
    BY <2>1, StepsAre DEF LedInv
  <2> QED BY <2>1, <2>2, <2>3, <2>4 DEF LedInv, HasCipher, VerifiedTextsAsWritten
<1>10. TextsInv'
  BY <1>4 DEF IInv, TextsInv
<1>11. VerifiedInv'
  BY <1>3, <1>4 DEF IInv, VerifiedInv, Present
<1> QED
  BY <1>4, <1>6, <1>7, <1>8, <1>9, <1>10, <1>11 DEF IInv, OffersInv, AcceptorInv, HasCipher

LEMMA SendVerificationStep == ASSUME IInv, SendVerification PROVE IInv'
<1> DEFINE next == MakeNextSequental(dialogs["opener"])
           proof == handling["opener"].proof
           m == Message("KEY_VERIFICATION", "opener", next.thisSeq, proof)
<1> USE NodesAre
<1>1. /\ handling["opener"].step = "proving"
      /\ proof \in [key : 1 .. MaxKeys, plain : 1 .. MaxKeys]
  BY DEF SendVerification, IInv, Shapes, Steps, OpenerSteps, Idle
<1>2. /\ UNCHANGED <<ciphers, local, remote, removing, keys, verified, shown, history>>
      /\ GoOn("opener", Idle)
  BY DEF SendVerification
<1>3. /\ handling'["opener"] = Idle /\ handling'["acceptor"] = handling["acceptor"]
      /\ handling' = [k \in Nodes |-> handling'[k]]
  BY <1>2, WentOn DEF IInv, Shapes
<1>4. CASE Present("opener") /\ sent' = sent \cup {m} /\ dialogs' = [dialogs EXCEPT !["opener"] = next]
  <2>1. next.thisSeq = dialogs["opener"].thisSeq + 1 /\ next.thisSeq \in Nat \ {0}
    BY <1>4, CountersOf DEF MakeNextSequental, Counters, IInv
  <2>2. /\ m \in Messages /\ m.from = "opener" /\ m.action = "KEY_VERIFICATION"
        /\ m.seq = next.thisSeq /\ m.content = proof
    <3>1. local["opener"] \in 1 .. MaxPairs
      BY DEF IInv, Shapes, Tables
    <3> HIDE DEF next, proof
    <3>2. m \in SentBy("KEY_VERIFICATION", "opener", [key : 1 .. MaxKeys, plain : 1 .. MaxKeys])
      BY <1>1, <2>1, <3>1, MessageMade
    <3> QED BY <3>2 DEF Messages, SentBy, Message
  <2>3. proof.key <= history.newest /\ (~history.misled => proof.key = history.newest)
    BY <1>1 DEF IInv, NumbersInv, LedInv
  <2> HIDE DEF m, proof
  <2> QED BY <1>2, <1>3, <1>4, <2>1, <2>2, <2>3, OpenerSends
<1>5. CASE UNCHANGED <<dialogs, sent>>
  <2>1. Offers' = Offers /\ Proofs' = Proofs /\ Texts' = Texts /\ Network'
    BY <1>5, NoneMore DEF IInv, Shapes
  <2>2. Shapes'
    <3>1. Tables'
      BY <1>2, <1>5 DEF IInv, Shapes, Tables, History
    <3>2. OpenerSteps' = OpenerSteps /\ AcceptorSteps' = AcceptorSteps /\ Idle \in OpenerSteps
      BY <2>1 DEF OpenerSteps, AcceptorSteps
    <3>3. Steps'
      BY <1>3, <3>2 DEF IInv, Shapes, Steps
    <3> QED BY <2>1, <3>1, <3>3 DEF Shapes
  <2>3. OpenerInv' /\ NumbersInv'
    BY <1>2, <1>3, <1>5, <2>1, StepsAre
    DEF IInv, OpenerInv, NumbersInv, HasCipher, MutexFree, Present
  <2>4. LedInv => LedInv'
    BY <1>2, <1>3, <1>5, <2>1, StepsAre DEF LedInv, HasCipher, VerifiedTextsAsWritten
  <2> QED
    BY <1>2, <1>3, <1>5, <2>1, <2>2, <2>3, <2>4
    DEF IInv, OffersInv, AcceptorInv, TextsInv, VerifiedInv, HasCipher, Present
<1> QED BY <1>4, <1>5 DEF SendVerification

LEMMA HandleKeyVerificationStep ==
  ASSUME IInv, NEW m \in sent, HandleKeyVerification(m)
  PROVE  IInv'
<1> USE NodesAre
<1>1. /\ m \in Proofs /\ Present("acceptor") /\ handling["acceptor"] = Idle
      /\ dialogs["acceptor"] \in Counters /\ m.seq > dialogs["acceptor"].peerSeq
      /\ m.seq \in Nat /\ m.content \in [key : 1 .. MaxKeys, plain : 1 .. MaxKeys]
  <2>1. m \in Proofs /\ m.action = "KEY_VERIFICATION" /\ Present("acceptor")
        /\ m.seq > dialogs["acceptor"].peerSeq /\ handling["acceptor"] = Idle
    BY DEF HandleKeyVerification, Arrives, Accepted, IsSequentalOk, Proofs
  <2> QED BY <2>1, CountersOf, MessageShape DEF IInv
<1>2. dialogs' = [dialogs EXCEPT !["acceptor"] = [dialogs["acceptor"] EXCEPT !.peerSeq = m.seq]]
  BY DEF HandleKeyVerification, Heard, WithPeerSeq
<1>3. /\ dialogs'["acceptor"] \in Counters /\ dialogs'["acceptor"] # NoDialog
      /\ dialogs'["acceptor"].peerSeq = m.seq /\ dialogs'["opener"] = dialogs["opener"]
      /\ dialogs' \in [Nodes -> Counters \cup {NoDialog}]
  <2>1. [dialogs["acceptor"] EXCEPT !.peerSeq = m.seq] \in Counters
    BY <1>1 DEF Counters
  <2> QED BY <1>1, <1>2, <2>1, NoDialogIsNone DEF IInv, Shapes, Tables, Counters
<1>4. UNCHANGED <<ciphers, local, remote, handling, removing, sent, keys, shown, history>>
  BY DEF HandleKeyVerification
<1>5. Offers' = Offers /\ Proofs' = Proofs /\ Texts' = Texts /\ Network'
  BY <1>4, NoneMore DEF IInv, Shapes
<1>6. verified' \in BOOLEAN
  BY DEF HandleKeyVerification, IInv, Shapes, Tables
<1>7. Shapes'
  <2>1. Tables'
    BY <1>3, <1>4, <1>6 DEF IInv, Shapes, Tables, History
  <2>2. OpenerSteps' = OpenerSteps /\ AcceptorSteps' = AcceptorSteps
    BY <1>5 DEF OpenerSteps, AcceptorSteps
  <2>3. Steps'
    BY <1>4, <2>2 DEF IInv, Shapes, Steps
  <2> QED BY <1>5, <2>1, <2>3 DEF Shapes
<1>8. CheckVerificationString("acceptor", m.content) => m.content.key = history.kept
  <2>1. history.kept \in Nat
    BY HistoryOf DEF IInv
  <2> QED
    BY <2>1 DEF CheckVerificationString, AesDecrypt, Garbage, Element, IInv, AcceptorInv
<1>9. VerifiedInv'
  <2>1. CASE verified
    <3>1. PICK p \in Proofs :
            p.content.key = history.kept /\ p.seq <= dialogs["acceptor"].peerSeq
      BY <2>1 DEF IInv, VerifiedInv
    <3>2. p.seq \in Nat
      BY ProofShape DEF IInv
    <3> QED BY <1>1, <1>3, <1>4, <1>5, <3>1, <3>2 DEF VerifiedInv, Present, Counters
  <2>2. CASE CheckVerificationString("acceptor", m.content)
    BY <1>1, <1>3, <1>4, <1>5, <1>8, <2>2 DEF VerifiedInv, Present
  <2> QED BY <2>1, <2>2 DEF HandleKeyVerification, VerifiedInv
<1>10. OpenerInv' /\ NumbersInv' /\ AcceptorInv'
  BY <1>1, <1>3, <1>4, <1>5
  DEF IInv, OpenerInv, NumbersInv, AcceptorInv, HasCipher, Present, MutexFree
<1>11. LedInv => LedInv'
  BY <1>4, <1>5 DEF LedInv, HasCipher, VerifiedTextsAsWritten
<1> QED BY <1>4, <1>5, <1>7, <1>9, <1>10, <1>11 DEF IInv, OffersInv, TextsInv
-----------------------------------------------------------------------------
(* Texts *)

LEMMA SendTextStep == ASSUME IInv, SendText PROVE IInv'
<1> DEFINE next == MakeNextSequental(dialogs["opener"])
           cipher == ciphers["opener"].cipher
           text == Message("MESSAGE", "opener", next.thisSeq, AesEncrypt(cipher, next.thisSeq))
<1> USE NodesAre
<1>1. /\ Present("opener") /\ dialogs["opener"] \in Counters
      /\ dialogs' = [dialogs EXCEPT !["opener"] = next]
      /\ UNCHANGED <<ciphers, local, remote, handling, removing, keys, verified, shown, history>>
  BY CountersOf DEF SendText, IInv
<1>2. /\ next \in Counters /\ next.thisSeq = dialogs["opener"].thisSeq + 1
      /\ next.thisSeq \in Nat \ {0} /\ dialogs["opener"].thisSeq < next.thisSeq
      /\ dialogs["opener"].thisSeq \in Nat
  BY <1>1 DEF MakeNextSequental, Counters
<1>3. CASE ~HasCipher("opener")
  <2> HIDE DEF next
  <2>1. sent' = sent
    BY <1>3 DEF SendText
  <2>2. Offers' = Offers /\ Proofs' = Proofs /\ Texts' = Texts /\ Network'
    BY <2>1, NoneMore DEF IInv, Shapes
  <2>3. /\ dialogs'["opener"] = next /\ dialogs'["acceptor"] = dialogs["acceptor"]
        /\ dialogs' \in [Nodes -> Counters \cup {NoDialog}]
    BY <1>1, <1>2 DEF IInv, Shapes, Tables
  <2>4. Shapes'
    <3>1. Tables'
      BY <1>1, <2>3 DEF IInv, Shapes, Tables, History
    <3>2. OpenerSteps' = OpenerSteps /\ AcceptorSteps' = AcceptorSteps
      BY <2>2 DEF OpenerSteps, AcceptorSteps
    <3>3. Steps'
      BY <1>1, <3>2 DEF IInv, Shapes, Steps
    <3> QED BY <2>2, <3>1, <3>3 DEF Shapes
  <2>5. NumbersInv'
    <3>1. \A n \in sent : n.seq \in Nat
      BY MessageShape DEF IInv
    <3>2. \A n \in sent : n.from = "opener" => n.seq <= dialogs["opener"].thisSeq
      BY <1>1 DEF IInv, NumbersInv
    <3>3. \A n \in sent : n.from = "opener" => n.seq <= next.thisSeq
      BY <1>2, <3>1, <3>2
    <3> QED BY <1>1, <2>1, <2>2, <2>3, <3>3 DEF IInv, NumbersInv
  <2>6. OpenerInv'
    BY <1>1, <2>1 DEF IInv, OpenerInv, HasCipher, MutexFree, Present
  <2>7. LedInv => LedInv'
    BY <1>1, <2>2 DEF LedInv, HasCipher, VerifiedTextsAsWritten
  <2> QED
    BY <1>1, <2>2, <2>3, <2>4, <2>5, <2>6, <2>7
    DEF IInv, OffersInv, AcceptorInv, TextsInv, VerifiedInv, HasCipher, Present
<1>4. CASE HasCipher("opener")
  <2>1. /\ cipher \in 1 .. MaxKeys /\ cipher <= history.newest
        /\ ~history.misled => cipher = history.newest
    <3>1. cipher \in 1 .. history.newest
      BY <1>4 DEF IInv, OpenerInv
    <3>2. history.newest \in 0 .. keys /\ keys \in 0 .. MaxKeys /\ MaxKeys \in Nat
      BY HistoryOf DEF IInv
    <3> QED BY <1>4, <3>1, <3>2 DEF IInv, LedInv
  <2>2. sent' = sent \cup {text}
    BY <1>4 DEF SendText
  <2>3. /\ text \in Messages /\ text.action = "MESSAGE" /\ text.from = "opener"
        /\ text.seq = next.thisSeq /\ text.content.key = cipher
        /\ text.content.plain = next.thisSeq
    <3> HIDE DEF next, cipher
    <3>1. /\ local["opener"] \in 1 .. MaxPairs
          /\ AesEncrypt(cipher, next.thisSeq) \in [key : 1 .. MaxKeys, plain : Nat]
      BY <1>2, <2>1 DEF IInv, Shapes, Tables, AesEncrypt
    <3>2. text \in SentBy("MESSAGE", "opener", [key : 1 .. MaxKeys, plain : Nat])
      BY <1>2, <3>1, MessageMade
    <3> QED BY <3>2 DEF Messages, SentBy, Message, AesEncrypt
  <2>4. handling' = [k \in Nodes |-> handling'[k]]
    BY <1>1 DEF IInv, Shapes, Steps
  <2> HIDE DEF text, cipher
  <2> QED BY <1>1, <1>2, <2>1, <2>2, <2>3, <2>4, OpenerSends
<1> QED BY <1>3, <1>4

LEMMA ReadTextStep ==
  ASSUME IInv, NEW m \in sent, ReadText(m)
  PROVE  IInv'
<1> DEFINE asWritten == AesDecrypt(ciphers["acceptor"].cipher, m.content) = m.seq
<1>1. /\ m \in Texts /\ HasCipher("acceptor") /\ m.seq > dialogs["acceptor"].peerSeq
      /\ shown' = IF verified THEN shown \cup {asWritten} ELSE shown
      /\ Present("acceptor")
      /\ UNCHANGED <<dialogs, ciphers, local, remote, handling, removing, sent, keys, verified, history>>
  BY DEF ReadText, Arrives, Readable, Accepted, IsSequentalOk, Texts
<1>2. /\ m.seq \in Nat /\ m.content.key \in Nat /\ m.content.plain = m.seq
      /\ m.content.key <= history.newest /\ history.newest \in Nat /\ history.kept \in Nat
      /\ ciphers["acceptor"].cipher = history.kept
      /\ dialogs["acceptor"].peerSeq \in Nat
  <2>1. m.seq \in Nat /\ m.content.key \in Nat /\ m.content.plain = m.seq
        /\ m.content.key <= history.newest
    BY <1>1, ProofShape DEF IInv, TextsInv, NumbersInv
  <2>2. history.newest \in Nat /\ history.kept \in Nat
    BY HistoryOf DEF IInv
  <2> QED BY <1>1, <2>1, <2>2, CountersOf, NodesAre DEF IInv, AcceptorInv, Element
<1>3. ~history.misled /\ verified => asWritten
  <2> SUFFICES ASSUME ~history.misled, verified PROVE asWritten
    OBVIOUS
  <2>1. PICK p \in Proofs : p.content.key = history.kept /\ p.seq <= dialogs["acceptor"].peerSeq
    BY DEF IInv, VerifiedInv
  <2>2. p.seq \in Nat
    BY ProofShape DEF IInv
  <2>3. p.seq < m.seq
    BY <1>1, <1>2, <2>1, <2>2
  <2>4. history.kept <= m.content.key
    BY <1>1, <2>1, <2>3 DEF IInv, LedInv
  <2>5. history.newest <= history.kept
    BY <1>2, <2>1 DEF IInv, LedInv
  <2>6. m.content.key = history.kept
    BY <1>2, <2>4, <2>5
  <2> QED BY <1>2, <2>6 DEF AesDecrypt
<1>4. Offers' = Offers /\ Proofs' = Proofs /\ Texts' = Texts /\ Network'
  BY <1>1, NoneMore DEF IInv, Shapes
<1>5. /\ ~history.misled => FALSE \notin shown'
      /\ shown' \subseteq BOOLEAN
  <2>1. asWritten \in BOOLEAN
    OBVIOUS
  <2>2. shown \subseteq BOOLEAN /\ (~history.misled => FALSE \notin shown)
    BY DEF IInv, Shapes, Tables, LedInv, VerifiedTextsAsWritten
  <2> HIDE DEF asWritten
  <2>3. CASE verified
    <3>1. shown' = shown \cup {asWritten}
      BY <1>1, <2>3
    <3>2. ~history.misled => asWritten = TRUE
      BY <1>3, <2>1, <2>3
    <3> QED BY <2>1, <2>2, <3>1, <3>2
  <2>4. CASE ~verified
    BY <1>1, <2>2, <2>4
  <2> QED BY <2>3, <2>4
<1>6. Shapes'
  <2>1. Tables'
    BY <1>1, <1>5 DEF IInv, Shapes, Tables, History
  <2>2. OpenerSteps' = OpenerSteps /\ AcceptorSteps' = AcceptorSteps
    BY <1>4 DEF OpenerSteps, AcceptorSteps
  <2>3. Steps'
    BY <1>1, <2>2 DEF IInv, Shapes, Steps
  <2> QED BY <1>4, <2>1, <2>3 DEF Shapes
<1>7. OpenerInv' /\ NumbersInv' /\ AcceptorInv' /\ VerifiedInv'
  BY <1>1, <1>4
  DEF IInv, OpenerInv, NumbersInv, AcceptorInv, VerifiedInv, HasCipher, Present, MutexFree
<1>8. ~history.misled => LedInv'
  BY <1>1, <1>4, <1>5 DEF IInv, LedInv, HasCipher, VerifiedTextsAsWritten
<1> QED BY <1>1, <1>4, <1>6, <1>7, <1>8 DEF IInv, OffersInv, TextsInv
-----------------------------------------------------------------------------
(* Storages and windows *)

\* A dialog leaves the storage.
LEMMA DialogGone ==
  ASSUME IInv, NEW n \in Nodes,
         dialogs' = [dialogs EXCEPT ![n] = NoDialog],
         verified' = (verified /\ n # "acceptor"),
         remote' \in [Nodes -> 0 .. MaxPairs],
         removing' \subseteq Nodes \X Threads,
         UNCHANGED <<ciphers, local, handling, sent, keys, shown, history>>
  PROVE  IInv'
<1> USE NodesAre
<1>1. Offers' = Offers /\ Proofs' = Proofs /\ Texts' = Texts /\ Network'
  BY NoneMore DEF IInv, Shapes
<1>2. /\ dialogs'[n] = NoDialog /\ \A k \in Nodes \ {n} : dialogs'[k] = dialogs[k]
      /\ dialogs' \in [Nodes -> Counters \cup {NoDialog}]
  BY DEF IInv, Shapes, Tables
<1>3. verified' \in BOOLEAN
  BY DEF IInv, Shapes, Tables
<1>4. Shapes'
  <2>1. Tables'
    BY <1>2, <1>3 DEF IInv, Shapes, Tables, History
  <2>2. OpenerSteps' = OpenerSteps /\ AcceptorSteps' = AcceptorSteps
    BY <1>1 DEF OpenerSteps, AcceptorSteps
  <2>3. Steps'
    BY <2>2 DEF IInv, Shapes, Steps
  <2> QED BY <1>1, <2>1, <2>3 DEF Shapes
<1>5. AcceptorInv' /\ OpenerInv'
  BY <1>2 DEF IInv, AcceptorInv, OpenerInv, HasCipher, Present, MutexFree
<1>6. NumbersInv'
  BY <1>1, <1>2 DEF IInv, NumbersInv, Present
<1>7. VerifiedInv'
  BY <1>1, <1>2 DEF IInv, VerifiedInv, Present
<1>8. LedInv => LedInv'
  BY <1>1 DEF LedInv, HasCipher, VerifiedTextsAsWritten
<1> QED BY <1>1, <1>4, <1>5, <1>6, <1>7, <1>8 DEF IInv, OffersInv, TextsInv

\* A program loses its cipher.
LEMMA CipherGone ==
  ASSUME IInv, NEW n \in Nodes,
         ciphers' = [ciphers EXCEPT ![n] = NoElement],
         handling' = [k \in Nodes |-> handling'[k]],
         \A k \in Nodes : handling'[k] \in {handling[k], Idle},
         handling'[n].step # "importing",
         remote' \in [Nodes -> 0 .. MaxPairs],
         removing' \subseteq Nodes \X Threads,
         UNCHANGED <<dialogs, local, sent, keys, verified, shown, history>>
  PROVE  IInv'
<1> USE NodesAre
<1>1. Offers' = Offers /\ Proofs' = Proofs /\ Texts' = Texts /\ Network'
  BY NoneMore DEF IInv, Shapes
<1>2. NoElement \in [cipher : 0 .. MaxKeys, myString : 0 .. MaxKeys]
  BY BoundsAreNat DEF NoElement, Element, None, Empty
<1>3. /\ ciphers'[n] = NoElement /\ \A k \in Nodes \ {n} : ciphers'[k] = ciphers[k]
      /\ ciphers' \in [Nodes -> [cipher : 0 .. MaxKeys, myString : 0 .. MaxKeys]]
  BY <1>2 DEF IInv, Shapes, Tables
<1>4. Shapes'
  <2>1. Tables'
    BY <1>3 DEF IInv, Shapes, Tables, History
  <2>2. /\ OpenerSteps' = OpenerSteps /\ AcceptorSteps' = AcceptorSteps
        /\ Idle \in OpenerSteps /\ Idle \in AcceptorSteps
    BY <1>1 DEF OpenerSteps, AcceptorSteps
  <2>3. Steps'
    BY <2>2 DEF IInv, Shapes, Steps
  <2> QED BY <1>1, <2>1, <2>3 DEF Shapes
<1>5. AcceptorInv'
  BY <1>3 DEF IInv, AcceptorInv, HasCipher
<1>6. OpenerInv'
  BY <1>3, StepsAre DEF IInv, OpenerInv, HasCipher, Present, MutexFree
<1>7. NumbersInv'
  BY <1>1, StepsAre DEF IInv, NumbersInv, Present
<1>8. VerifiedInv'
  BY <1>1 DEF IInv, VerifiedInv, Present
<1>9. LedInv => LedInv'
  BY <1>1, <1>3, StepsAre DEF LedInv, HasCipher, VerifiedTextsAsWritten
<1> QED BY <1>1, <1>4, <1>5, <1>6, <1>7, <1>8, <1>9 DEF IInv, OffersInv, TextsInv

LEMMA RemovalSteps ==
  ASSUME IInv, NEW n \in Nodes, RemoveDialog(n) \/ RemoveContact(n)
  PROVE  IInv'
<1>1. \A thread \in Threads : removing \cup {<<n, thread>>} \subseteq Nodes \X Threads
  BY DEF IInv, Shapes, Tables
<1>2. "work" \in Threads /\ "gui" \in Threads
  BY DEF Threads
<1>3. removing \subseteq Nodes \X Threads /\ remote \in [Nodes -> 0 .. MaxPairs]
  BY DEF IInv, Shapes, Tables
<1>4. CASE RemoveDialog(n)
  <2>1. removing' \subseteq Nodes \X Threads /\ remote' \in [Nodes -> 0 .. MaxPairs]
    BY <1>1, <1>2, <1>3, <1>4 DEF RemoveDialog
  <2> QED BY <1>4, <2>1, DialogGone DEF RemoveDialog
<1>5. CASE RemoveContact(n)
  <2>1. remote' \in [Nodes -> 0 .. MaxPairs]
    BY <1>3, <1>5, BoundsAreNat DEF RemoveContact, None
  <2>2. removing' \subseteq Nodes \X Threads
    BY <1>1, <1>2, <1>3, <1>5 DEF RemoveContact
  <2> QED BY <1>5, <2>1, <2>2, DialogGone DEF RemoveContact
<1> QED BY <1>4, <1>5

LEMMA DialogRemovedStep ==
  ASSUME IInv, NEW n \in Nodes, NEW thread \in Threads, DialogRemoved(n, thread)
  PROVE  IInv'
<1>1. removing' \subseteq Nodes \X Threads /\ remote' \in [Nodes -> 0 .. MaxPairs]
  BY DEF DialogRemoved, IInv, Shapes, Tables
<1>2. handling' = [k \in Nodes |-> handling'[k]] /\ \A k \in Nodes : handling'[k] = handling[k]
  BY DEF DialogRemoved, IInv, Shapes, Steps
<1>3. handling'[n].step # "importing"
  BY <1>2 DEF DialogRemoved, MutexFree
<1> QED BY <1>1, <1>2, <1>3, CipherGone DEF DialogRemoved

LEMMA RestartStep == ASSUME IInv, NEW n \in Nodes, Restart(n) PROVE IInv'
<1>1. removing' \subseteq Nodes \X Threads /\ remote' \in [Nodes -> 0 .. MaxPairs]
  BY BoundsAreNat DEF Restart, IInv, Shapes, Tables, None
<1>2. /\ handling'[n] = Idle /\ \A k \in Nodes : handling'[k] \in {handling[k], Idle}
      /\ handling' = [k \in Nodes |-> handling'[k]]
  BY WentOn DEF Restart, IInv, Shapes
<1> QED BY <1>1, <1>2, StepsAre, CipherGone DEF Restart

LEMMA PairSteps ==
  ASSUME IInv, NEW n \in Nodes, NEW pair \in 1 .. MaxPairs,
         UpdateContact(n, pair) \/ GenerateAsymetricKeys(n)
  PROVE  IInv'
<1>1. UNCHANGED <<dialogs, ciphers, handling, removing, sent, keys, verified, shown, history>>
  BY DEF UpdateContact, GenerateAsymetricKeys
<1>2. Offers' = Offers /\ Proofs' = Proofs /\ Texts' = Texts /\ Network'
  BY <1>1, NoneMore DEF IInv, Shapes
<1>3. local' \in [Nodes -> 1 .. MaxPairs] /\ remote' \in [Nodes -> 0 .. MaxPairs]
  <2>1. local \in [Nodes -> 1 .. MaxPairs] /\ remote \in [Nodes -> 0 .. MaxPairs] /\ MaxPairs \in Nat
    BY KeyExchangeAssumption DEF IInv, Shapes, Tables
  <2>2. CASE UpdateContact(n, pair)
    BY <2>1, <2>2 DEF UpdateContact
  <2>3. CASE GenerateAsymetricKeys(n)
    <3>1. local[n] \in 1 .. MaxPairs /\ local[n] < MaxPairs
      BY <2>1, <2>3 DEF GenerateAsymetricKeys
    <3>2. local[n] + 1 \in 1 .. MaxPairs
      BY <2>1, <3>1
    <3> QED BY <2>1, <2>3, <3>2 DEF GenerateAsymetricKeys, GeneratedPair
  <2> QED BY <2>2, <2>3
<1>4. Shapes'
  <2>1. Tables'
    BY <1>1, <1>3 DEF IInv, Shapes, Tables, History
  <2>2. OpenerSteps' = OpenerSteps /\ AcceptorSteps' = AcceptorSteps
    BY <1>2 DEF OpenerSteps, AcceptorSteps
  <2>3. Steps'
    BY <1>1, <2>2 DEF IInv, Shapes, Steps
  <2> QED BY <1>2, <2>1, <2>3 DEF Shapes
<1> QED
  BY <1>1, <1>2, <1>4
  DEF IInv, OffersInv, AcceptorInv, OpenerInv, NumbersInv, LedInv, TextsInv, VerifiedInv,
      VerifiedTextsAsWritten, HasCipher, Present, MutexFree
-----------------------------------------------------------------------------
LEMMA IInvStep == ASSUME IInv, [Next]_vars PROVE IInv'
<1>1. CASE CreateDialog
  BY <1>1, CreateDialogStep
<1>2. ASSUME NEW m \in sent,
             AddDialog(m) \/ HandleVerifyKey(m) \/ HandleKeyVerification(m) \/ ReadText(m)
      PROVE  IInv'
  BY <1>2, AddDialogStep, HandleVerifyKeyStep, HandleKeyVerificationStep, ReadTextStep
<1>3. CASE GetRemoteByAdress \/ GenerateAndExportKey
  BY <1>3, GetRemoteStep, GenerateStep
<1>4. CASE ImportKey \/ ImportVerification \/ SendVerification \/ SendText
  BY <1>4, ImportKeyStep, ImportVerificationStep, SendVerificationStep, SendTextStep
<1>5. ASSUME NEW n \in Nodes,
             \/ RemoveDialog(n) \/ RemoveContact(n)
             \/ GenerateAsymetricKeys(n) \/ Restart(n)
             \/ \E pair \in 1 .. MaxPairs : UpdateContact(n, pair)
             \/ \E thread \in Threads : DialogRemoved(n, thread)
      PROVE  IInv'
  <2>1. 1 \in 1 .. MaxPairs
    BY BoundsAreNat
  <2> QED BY <1>5, <2>1, RemovalSteps, PairSteps, RestartStep, DialogRemovedStep
<1>6. CASE UNCHANGED vars
  <2>1. Offers' = Offers /\ Proofs' = Proofs /\ Texts' = Texts /\ Network'
    BY <1>6, NoneMore DEF vars, IInv, Shapes
  <2>2. Shapes'
    BY <1>6, <2>1
    DEF vars, IInv, Shapes, Tables, History, Steps, OpenerSteps, AcceptorSteps
  <2> QED
    BY <1>6, <2>1, <2>2
    DEF vars, IInv, OffersInv, AcceptorInv, OpenerInv, NumbersInv, LedInv, TextsInv, VerifiedInv,
        VerifiedTextsAsWritten, HasCipher, Present, MutexFree
<1> QED BY <1>1, <1>2, <1>3, <1>4, <1>5, <1>6 DEF Next

LEMMA IInvHolds == IInv => VerificationHolds
<1> SUFFICES ASSUME IInv, ~history.misled PROVE VerifiedKeysAgree /\ VerifiedTextsAsWritten
  BY DEF VerificationHolds
<1>1. VerifiedTextsAsWritten
  BY DEF IInv, LedInv
<1>2. ASSUME verified, HasCipher("opener"), HasCipher("acceptor")
      PROVE  ciphers["opener"].cipher = ciphers["acceptor"].cipher
  <2>1. PICK p \in Proofs : p.content.key = history.kept
    BY <1>2 DEF IInv, VerifiedInv
  <2>2. p.content.key <= history.newest /\ history.newest \in Nat /\ history.kept \in Nat
    BY HistoryOf DEF IInv, NumbersInv
  <2>3. history.newest = history.kept
    BY <2>1, <2>2 DEF IInv, LedInv
  <2>4. ciphers["opener"].cipher = history.newest /\ ciphers["acceptor"].cipher = history.kept
    BY <1>2 DEF IInv, LedInv, AcceptorInv, Element
  <2> QED BY <2>3, <2>4
<1> QED BY <1>1, <1>2 DEF VerifiedKeysAgree

\* An accepted proof holds: whatever is lost, repeated, restarted, removed at any
\* moment and generated anew, and whatever number a dialog begins with, two
\* programs that both have a key for a verified dialog have the same one, and a
\* text shown in it is the one that was written, unless the opener was misled.
THEOREM VerificationIsSound == Spec => []VerificationHolds
<1>1. IInv /\ [Next]_vars => IInv'
  BY IInvStep
<1> QED BY <1>1, IInvHolds, IInvInit, PTL DEF Spec

\* The tables of the two crypto systems, their counters, the steps of their
\* threads and every message they send keep their types, whatever init_sequental
\* draws: there is no key and no pair that nobody made, and importKey works on a
\* message that was sent.
THEOREM KeyExchangeTypeCorrect == Spec => []TypeOK
<1>1. IInv /\ [Next]_vars => IInv'
  BY IInvStep
<1>2. IInv => TypeOK
  <2> SUFFICES ASSUME IInv PROVE TypeOK
    OBVIOUS
  <2>1. dialogs \in [Nodes -> [peerSeq : Nat \cup {-1}, thisSeq : Nat \cup {-1}]]
    BY DEF IInv, Shapes, Tables, Counters, NoDialog
  <2>2. /\ handling["opener"].step \in {"idle", "heard", "importing", "proving"}
        /\ handling["opener"].step \in {"heard", "importing"} => handling["opener"].message \in sent
        /\ handling["acceptor"].step \in {"idle", "added", "drawing"}
    BY StepsAre DEF IInv, Shapes, Steps, OpenerSteps, AcceptorSteps, Offers
  <2>3. \A m \in sent : m.from \in Nodes /\ m.seq \in Nat /\ m.sign \in 1 .. MaxPairs
    BY MessageShape, NodesAre DEF IInv
  <2> QED BY <2>1, <2>2, <2>3 DEF TypeOK, IInv, Shapes, Tables, Network, History
<1> QED BY <1>1, <1>2, IInvInit, PTL DEF Spec
=============================================================================
