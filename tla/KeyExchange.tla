----------------------------- MODULE KeyExchange -----------------------------
(***************************************************************************)
(* The cryptography of one dialog between two programs: two objects of     *)
(* CryptoSystemImpl (RSA keys of both, the cipher each keeps for the       *)
(* dialog) and the calls the message handlers, the storages and the        *)
(* windows make on them.  The network loses, repeats and reorders.         *)
(*                                                                         *)
(* Ciphertexts are symbolic: what was encrypted and with which key.        *)
(* The statuses of the dialog are left to DialogNode: a message is handled *)
(* here whatever the status is, and ABORT and ACCEPT_DIALOG, which only    *)
(* change a status, are left out.                                          *)
(*                                                                         *)
(* The receive thread handles CREATE_DIALOG and VERIFY_KEY in several      *)
(* steps; storages and crypto system have locks of their own, so the other *)
(* threads remove dialogs and contacts between any two of them.            *)
(***************************************************************************)
EXTENDS DialogState, Integers, FiniteSets

CONSTANTS
  Starts,      \* what init_sequental may draw for a dialog of the acceptor
  Restarts,    \* the programs that may be started again
  Renewing,    \* the programs that make new RSA pairs
  MaxSeq,      \* bound on the numbers of the opener
  MaxKeys,     \* bound on the symmetric keys that are made
  MaxPairs     \* bound on the RSA key pairs each program makes

Nodes == {"opener", "acceptor"}
Threads == {"work", "gui"}   \* those that remove dialogs, and contacts
Peer(n) == IF n = "opener" THEN "acceptor" ELSE "opener"

ASSUME KeyExchangeAssumption ==
  /\ Starts \subseteq Nat
  /\ Restarts \subseteq Nodes /\ Renewing \subseteq Nodes
  /\ MaxSeq \in Nat /\ MaxKeys \in Nat /\ MaxPairs \in Nat \ {0}

VARIABLES
  dialogs,     \* the dialog in the storage of each program, with its counters
  ciphers,     \* mCiphers: the key for the dialog, and the string to be proved
  local,       \* mLocal: the number of the RSA pair each program works with
  remote,      \* mRemote: the pair of the peer each program believes in
  handling,    \* where the receive thread of each program is
  removing,    \* the threads that took a dialog out of a storage and have not
               \* told the crypto system so far
  sent,        \* every message on the network, it may arrive again and again
  keys,        \* how many symmetric keys were made
  verified,    \* the acceptor accepted the proof for the dialog it has
  shown,       \* of the texts shown in a verified dialog: are they as written?
  history      \* kept: the last key the acceptor kept; newest: of the keys the
               \* opener kept; misled: see ImportKey

vars == <<dialogs, ciphers, local, remote, handling, removing, sent, keys, verified, shown,
          history>>
-----------------------------------------------------------------------------
(* Encryption.  Pairs and keys are numbers, 0 stands for none; the string   *)
(* that is to be proved is made with a key and goes by its number.          *)

NoDialog == [peerSeq |-> -1, thisSeq |-> -1]
None == 0
Empty == 0
Thrown == -1     \* an exception instead of a plain text
Garbage == -2    \* the wrong key: CFB decrypts anything

\* RemotePeerOperations::encrypt with the public key of a pair.
Encrypt(pair, plain) == [pair |-> pair, plain |-> plain]

\* Mutant: a wrong pair gives some bytes.
DecryptMut(pair, box) == IF box.pair = pair THEN box.plain ELSE Garbage

\* LocalPeerOperations::decrypt: another pair than the one it was made for throws.
Decrypt(pair, box) == IF box.pair = pair THEN box.plain ELSE Thrown

\* createSign and isValid: a text is signed with a pair; nobody changes it
\* without breaking the signature.
CreateSign(pair) == pair
IsValid(pair, sign) == sign = pair

\* AesCipher: decryption never fails.
AesEncrypt(key, plain) == [key |-> key, plain |-> plain]
AesDecrypt(key, box) == IF box.key = key THEN box.plain ELSE Garbage

\* AesKeyGenerator: key and initialisation vector are new.
GeneratedKey == keys + 1

\* serialize and deserialize of a key: its two blocks, encrypted for the peer.
Serialize(pair, key) == Encrypt(pair, key)
Deserialize(pair, message) == Decrypt(pair, message)

GenerateSymmetricalCipherTo(pair) ==
  [cipher |-> GeneratedKey, message |-> Serialize(pair, GeneratedKey)]
CreateSymmetricalCipherFrom(pair, message) == Deserialize(pair, message)

\* AsymetricalKeyGenerator: a new pair replaces the old one.
GeneratedPair(n) == local[n] + 1

Element(cipher, myString) == [cipher |-> cipher, myString |-> myString]
NoElement == Element(None, Empty)
HasCipher(n) == ciphers[n] # NoElement

\* mCiphers.emplace: an element that is there already stays.
Emplaced(n, element) == IF HasCipher(n) THEN ciphers ELSE [ciphers EXCEPT ![n] = element]
-----------------------------------------------------------------------------
Message(action, from, seq, content) ==
  [action |-> action, from |-> from, seq |-> seq, content |-> content,
   sign |-> CreateSign(local[from])]

Nothing == [plain |-> Empty]
Present(n) == dialogs[n] # NoDialog

\* The steps of the receive thread.
Idle == [step |-> "idle"]
Added(seq) == [step |-> "added", seq |-> seq]
Drawing(seq, pair) == [step |-> "drawing", seq |-> seq, pair |-> pair]
HeardKey(m) == [step |-> "heard", message |-> m]
Importing(m) == [step |-> "importing", message |-> m]
Proving(proof) == [step |-> "proving", proof |-> proof]

GoOn(n, step) == handling' = [handling EXCEPT ![n] = step]

\* mMutex of the crypto system is free; importKey holds it over both of its
\* decryptions.
MutexFree(n) == handling[n].step # "importing"

\* The receive thread of the peer takes a message: its signature is checked with
\* the pair mRemote has for the sender, then its number.
IsSignatureOk(n, m) == remote[n] # None /\ IsValid(remote[n], m.sign)
Arrives(m, n, action) ==
  /\ m \in sent /\ m.from = Peer(n) /\ m.action = action
  /\ handling[n] = Idle /\ IsSignatureOk(n, m)
Accepted(m, n) == Present(n) /\ IsSequentalOk(dialogs[n], m.seq)
Heard(n, m) == WithPeerSeq(dialogs[n], m.seq)

Init ==
  /\ dialogs = [n \in Nodes |-> NoDialog]
  /\ ciphers = [n \in Nodes |-> NoElement]
  /\ local = [n \in Nodes |-> 1]
  /\ remote = [n \in Nodes |-> 1]
  /\ handling = [n \in Nodes |-> Idle]
  /\ removing = {}
  /\ sent = {}
  /\ keys = 0
  /\ verified = FALSE
  /\ shown = {}
  /\ history = [kept |-> None, newest |-> None, misled |-> FALSE]
-----------------------------------------------------------------------------
(* The handshake *)

\* createDialog of the opener.
CreateDialog ==
  /\ ~Present("opener") /\ sent = {}
  /\ dialogs' = [dialogs EXCEPT !["opener"] = [peerSeq |-> 0, thisSeq |-> 1]]
  /\ sent' = {Message("CREATE_DIALOG", "opener", 1, Nothing)}
  /\ UNCHANGED <<ciphers, local, remote, handling, removing, keys, verified, shown, history>>

\* prepareNotFoundDialog: the dialog is stored.
AddDialog(m) ==
  /\ Arrives(m, "acceptor", "CREATE_DIALOG") /\ ~Present("acceptor")
  /\ \E start \in Starts :
       /\ dialogs' = [dialogs EXCEPT !["acceptor"] = [peerSeq |-> m.seq, thisSeq |-> start]]
       /\ GoOn("acceptor", Added(start))
  /\ UNCHANGED <<ciphers, local, remote, removing, sent, keys, verified, shown, history>>

\* The wrapper is taken and the pair of the peer is found.  Both throw when the
\* dialog or the contact is gone by then; what was found is kept in the thread.
GetRemoteByAdress ==
  /\ handling["acceptor"].step = "added"
  /\ \/ /\ remote["acceptor"] # None
        /\ GoOn("acceptor", Drawing(handling["acceptor"].seq, remote["acceptor"]))
     \/ /\ remote["acceptor"] = None \/ ~Present("acceptor")
        /\ GoOn("acceptor", Idle)
  /\ UNCHANGED <<dialogs, ciphers, local, remote, removing, sent, keys, verified, shown, history>>

\* The key is made, kept and sent: the exported key is the new one, whatever
\* emplace kept, and nobody looks whether the dialog is still there.  The number
\* of VERIFY_KEY is not saved.
GenerateAndExportKey ==
  LET pair == handling["acceptor"].pair
      made == GenerateSymmetricalCipherTo(pair)
  IN
    /\ handling["acceptor"].step = "drawing" /\ GoOn("acceptor", Idle)
    /\ keys < MaxKeys /\ keys' = GeneratedKey
    /\ ciphers' = Emplaced("acceptor", Element(made.cipher, made.cipher))
    /\ history' = IF HasCipher("acceptor") THEN history ELSE [history EXCEPT !.kept = made.cipher]
    /\ sent' = sent \cup
         {Message("VERIFY_KEY", "acceptor", handling["acceptor"].seq + 1,
                  [key |-> made.message, check |-> Encrypt(pair, made.cipher)])}
    /\ UNCHANGED <<dialogs, local, remote, removing, verified, shown>>

\* handle: the number of VERIFY_KEY is saved.
HandleVerifyKey(m) ==
  /\ Arrives(m, "opener", "VERIFY_KEY") /\ Accepted(m, "opener")
  /\ dialogs' = [dialogs EXCEPT !["opener"] = Heard("opener", m)]
  /\ GoOn("opener", HeardKey(m))
  /\ UNCHANGED <<ciphers, local, remote, removing, sent, keys, verified, shown, history>>

\* An opener that lost the key it had takes another one: an older one, or one
\* the acceptor has made and not kept.
Misled(key) ==
  history.newest # None /\ (key < history.newest \/ (key > history.newest /\ key > history.kept))

\* The first half of importKey: the key is read and kept, unless there is one.
\* A key for another pair throws before anything is kept; so do the wrapper and
\* the contact when they are gone, but they may go after they were looked at.
ImportKey ==
  LET m == handling["opener"].message
      cipher == CreateSymmetricalCipherFrom(local["opener"], m.content.key)
  IN
    /\ handling["opener"].step = "heard"
    /\ \/ /\ cipher = Thrown \/ ~Present("opener")
          /\ GoOn("opener", Idle) /\ UNCHANGED <<ciphers, history>>
       \/ /\ cipher # Thrown
          /\ GoOn("opener", Importing(m))
          /\ ciphers' = Emplaced("opener", Element(cipher, Empty))
          /\ history' = IF HasCipher("opener") THEN history
                        ELSE [history EXCEPT !.newest = IF cipher > @ THEN cipher ELSE @,
                                             !.misled = @ \/ Misled(cipher)]
    /\ UNCHANGED <<dialogs, local, remote, removing, sent, keys, verified, shown>>

\* Mutant: the string is encrypted with the key it came with.
ProofMut(check) == AesEncrypt(check, check)

\* What proves the key: the string under the cipher that is kept.
Proof(check) == AesEncrypt(ciphers["opener"].cipher, check)

\* The second half: it uses whatever pair mLocal has by now.  An exception leaves
\* the cipher where it is.
ImportVerification ==
  LET check == Decrypt(local["opener"], handling["opener"].message.content.check) IN
    /\ handling["opener"].step = "importing"
    /\ GoOn("opener", IF check # Thrown THEN Proving(Proof(check)) ELSE Idle)
    /\ UNCHANGED <<dialogs, ciphers, local, remote, removing, sent, keys, verified, shown, history>>

\* sendRequest, which throws when the dialog is gone.
SendVerification ==
  LET next == MakeNextSequental(dialogs["opener"]) IN
    /\ handling["opener"].step = "proving" /\ GoOn("opener", Idle)
    /\ \/ /\ Present("opener") /\ next.thisSeq <= MaxSeq
          /\ dialogs' = [dialogs EXCEPT !["opener"] = next]
          /\ sent' = sent \cup {Message("KEY_VERIFICATION", "opener", next.thisSeq,
                                        handling["opener"].proof)}
       \/ ~Present("opener") /\ UNCHANGED <<dialogs, sent>>
    /\ UNCHANGED <<ciphers, local, remote, removing, keys, verified, shown, history>>

CheckVerificationString(n, content) ==
  HasCipher(n) /\ AesDecrypt(ciphers[n].cipher, content) = ciphers[n].myString

\* KEY_VERIFICATION: accept, or abort, which is a matter of the status.
HandleKeyVerification(m) ==
  /\ Arrives(m, "acceptor", "KEY_VERIFICATION") /\ Accepted(m, "acceptor")
  /\ dialogs' = [dialogs EXCEPT !["acceptor"] = Heard("acceptor", m)]
  /\ verified' = (verified \/ CheckVerificationString("acceptor", m.content))
  /\ UNCHANGED <<ciphers, local, remote, handling, removing, sent, keys, shown, history>>
-----------------------------------------------------------------------------
(* Texts of the opener *)

\* MessageActionHandler::sendMessage: the number is saved, then the text is
\* encrypted; without a cipher that throws.  A text goes by its number.
SendText ==
  LET next == MakeNextSequental(dialogs["opener"]) IN
    /\ Present("opener") /\ MutexFree("opener") /\ next.thisSeq <= MaxSeq
    /\ dialogs' = [dialogs EXCEPT !["opener"] = next]
    /\ IF HasCipher("opener")
       THEN sent' = sent \cup {Message("MESSAGE", "opener", next.thisSeq,
                                       AesEncrypt(ciphers["opener"].cipher, next.thisSeq))}
       ELSE UNCHANGED sent
    /\ UNCHANGED <<ciphers, local, remote, handling, removing, keys, verified, shown, history>>

\* Mutant: the number of a text is not looked at.
ReadableMut(m) == Present("acceptor")

\* The number is checked on a copy; it is not saved.
Readable(m) == Accepted(m, "acceptor")

\* MessageActionHandler::handle: what decryptMessageBody returns is shown;
\* without a cipher it throws and the dialog is aborted.
ReadText(m) ==
  /\ Arrives(m, "acceptor", "MESSAGE") /\ Readable(m) /\ HasCipher("acceptor")
  /\ shown' = IF verified
              THEN shown \cup {AesDecrypt(ciphers["acceptor"].cipher, m.content) = m.seq}
              ELSE shown
  /\ UNCHANGED <<dialogs, ciphers, local, remote, handling, removing, sent, keys, verified, history>>
-----------------------------------------------------------------------------
(* What the windows and the storages do to the crypto system *)

\* removeDialog, in the work thread: the dialog leaves the storage.
RemoveDialog(n) ==
  /\ Present(n) /\ <<n, "work">> \notin removing
  /\ dialogs' = [dialogs EXCEPT ![n] = NoDialog]
  /\ removing' = removing \cup {<<n, "work">>}
  /\ verified' = (verified /\ n # "acceptor")
  /\ UNCHANGED <<ciphers, local, remote, handling, sent, keys, shown, history>>

\* The listener of the storage drops the cipher.
DialogRemoved(n, thread) ==
  /\ <<n, thread>> \in removing /\ MutexFree(n)
  /\ ciphers' = [ciphers EXCEPT ![n] = NoElement]
  /\ removing' = removing \ {<<n, thread>>}
  /\ UNCHANGED <<dialogs, local, remote, handling, sent, keys, verified, shown, history>>

\* updateContact: the contact is stored with one of the keys the peer gave out.
UpdateContact(n, pair) ==
  /\ MutexFree(n) /\ <<n, "gui">> \notin removing
  /\ pair \in 1 .. local[Peer(n)] /\ remote[n] # pair
  /\ remote' = [remote EXCEPT ![n] = pair]
  /\ UNCHANGED <<dialogs, ciphers, local, handling, removing, sent, keys, verified, shown, history>>

\* removeContact, from a window; the dialogs of the contact go with it, and the
\* listener for them is called next.
RemoveContact(n) ==
  /\ MutexFree(n) /\ <<n, "gui">> \notin removing /\ remote[n] # None
  /\ remote' = [remote EXCEPT ![n] = None]
  /\ dialogs' = [dialogs EXCEPT ![n] = NoDialog]
  /\ removing' = IF Present(n) THEN removing \cup {<<n, "gui">>} ELSE removing
  /\ verified' = (verified /\ n # "acceptor")
  /\ UNCHANGED <<ciphers, local, handling, sent, keys, shown, history>>

\* generateAsymetricKeys takes the mutex of LocalPeerOperations only.
GenerateAsymetricKeys(n) ==
  /\ n \in Renewing /\ local[n] < MaxPairs
  /\ local' = [local EXCEPT ![n] = GeneratedPair(n)]
  /\ UNCHANGED <<dialogs, ciphers, remote, handling, removing, sent, keys, verified, shown, history>>

\* The program is started again: dialogs and pairs come back, ciphers and the
\* keys of the contacts do not.
Restart(n) ==
  /\ n \in Restarts
  /\ ciphers' = [ciphers EXCEPT ![n] = NoElement]
  /\ remote' = [remote EXCEPT ![n] = None]
  /\ GoOn(n, Idle)
  /\ removing' = {r \in removing : r[1] # n}
  /\ UNCHANGED <<dialogs, local, sent, keys, verified, shown, history>>
-----------------------------------------------------------------------------
Next ==
  \/ CreateDialog
  \/ \E m \in sent :
       \/ AddDialog(m) \/ HandleVerifyKey(m) \/ HandleKeyVerification(m) \/ ReadText(m)
  \/ GetRemoteByAdress \/ GenerateAndExportKey
  \/ ImportKey \/ ImportVerification \/ SendVerification
  \/ SendText
  \/ \E n \in Nodes :
       \/ RemoveDialog(n) \/ RemoveContact(n)
       \/ GenerateAsymetricKeys(n) \/ Restart(n)
       \/ \E pair \in 1 .. MaxPairs : UpdateContact(n, pair)
       \/ \E thread \in Threads : DialogRemoved(n, thread)

Spec == Init /\ [][Next]_vars
-----------------------------------------------------------------------------
TypeOK ==
  /\ dialogs \in [Nodes -> [peerSeq : Nat \cup {-1}, thisSeq : Nat \cup {-1}]]
  /\ ciphers \in [Nodes -> [cipher : 0 .. MaxKeys, myString : 0 .. MaxKeys]]
  /\ local \in [Nodes -> 1 .. MaxPairs]
  /\ remote \in [Nodes -> 0 .. MaxPairs]
  /\ handling["opener"].step \in {"idle", "heard", "importing", "proving"}
  /\ handling["opener"].step \in {"heard", "importing"} => handling["opener"].message \in sent
  /\ handling["acceptor"].step \in {"idle", "added", "drawing"}
  /\ removing \subseteq Nodes \X Threads
  /\ IsFiniteSet(sent)
  /\ \A m \in sent : m.from \in Nodes /\ m.seq \in Nat /\ m.sign \in 1 .. MaxPairs
  /\ keys \in 0 .. MaxKeys /\ verified \in BOOLEAN
  /\ shown \subseteq BOOLEAN
  /\ history \in [kept : 0 .. keys, newest : 0 .. keys, misled : BOOLEAN]

\* CryptoSystemImpl: once the acceptor has accepted a proof, the opener works with the acceptor's
\* key or with none, though keys are made again, kept, lost and sent twice.
VerifiedKeysAgree ==
  verified /\ HasCipher("opener") /\ HasCipher("acceptor") =>
    ciphers["opener"].cipher = ciphers["acceptor"].cipher

\* MessageActionHandler: a text that is shown in a verified dialog is the text
\* that was written, though a wrong key decrypts anything and texts of an
\* earlier dialog still arrive.
VerifiedTextsAsWritten == FALSE \notin shown

\* What a proof that checkVerificationString has accepted is worth: both sides
\* have one key, and what is read is what was written, whatever number a dialog
\* begins with and whatever is removed while a key is made or taken.  The one
\* exception: an opener that lost its key and took an older one, or one that the
\* acceptor does not have.
VerificationHolds ==
  ~history.misled => VerifiedKeysAgree /\ VerifiedTextsAsWritten
=============================================================================
