------------------------------ MODULE Plugins ------------------------------
(* One connection and its plugin: the receive cycle of the channel           *)
(* (Channel::messsageCycle over PluginAdapter) with the communicators of the *)
(* SMTP/IMAP, VK and Gmail plugins, and a thread that sends.  The service    *)
(* behind the plugin is external: a list of mails that a peer's program, or  *)
(* anybody else, adds to, and a network that comes and goes.                 *)
(*                                                                           *)
(* Not modelled: certificates, the wording of requests, the ten seconds a    *)
(* communicator sleeps.  How the threads share the channel is in Channels.   *)
EXTENDS Wire

CONSTANTS
  Connections,      \* the connections a user may have configured
  Servers,          \* addresses of the mail servers: [smtp, imap]
  Messages,         \* messages the peer's program may send
  Peer,             \* the address the service names as their sender
  MemoryOutcomes,   \* what reading a freed string may give
  SmtpFailures,     \* how a failing connect of the SMTP plugin may end
  MaxMail           \* bound: mails that arrive

Foreign == NoMessage          \* a mail with another subject, an event of our own

SmtpInfos ==
  [userName : STRING, password : STRING, tlsUsed : BOOLEAN, from : STRING, imapAddr : STRING,
   imapPort : STRING, smtpAddr : STRING, smtpPort : STRING]

ASSUME PluginsAssumption ==
  /\ Connections \subseteq
       [name : STRING, plugin : {"smtp"}, info : SmtpInfos]
         \union [name : STRING, plugin : {"vk"}, info : [vkId : STRING, accessToken : STRING]]
         \union [name : STRING, plugin : {"gmail"}, info : [email : STRING, accessToken : STRING]]
  /\ Foreign \notin Messages
  /\ \A m \in Messages :
       /\ m.content \in Seq(STRING) \ {<<>>}
       /\ m.sign \in Seq(STRING) \ {<<>>} /\ BodyDelitimer \notin ToSet(m.sign)
  /\ MemoryOutcomes \subseteq {"kept", "garbled", "empty"}
  /\ SmtpFailures \subseteq {"caught", "nested", "other"}
  /\ MaxMail \in Nat \ {0}

VARIABLES
  conn,        \* the connection as the database restored it
  net,         \* is the service reachable
  link,        \* do the sockets of the last connect still work
  mail,        \* what arrived at the service; the number of a mail is its UID
  present,     \* the mails that nobody has deleted
  history,     \* what the long poll server will say: "ok", "gap", "expired"
  thread,      \* the receive thread: next step, or how it came to its end
  sender,      \* mSender, mApiAgent: does the object exist
  reader,      \* mReciever: "none", "made" (constructed only), "open"; VK: mServer
  last,        \* mLastMessage, mLastNumber
  newest,      \* nextLastUid of a fetch under way
  since,       \* history: the last mail that the reader takes for known
  calm,        \* history: nothing was deleted, forgotten or lost under the reader
  read,        \* history: numbers handed to the channel by this reader
  copied,      \* the last batch: the number of a mail, what its text was copied to
  result       \* what the last send returned

service == << net, mail, present, history >>
position == << last, since, calm, read >>
reading == << position, newest >>
vars == << conn, net, link, mail, present, history, thread, sender, reader,
           last, newest, since, calm, read, copied, result >>

plugin == conn.plugin
Alive == thread \in {"connect", "look", "fetch"}

MailOf(m) == Base64Encode(Marshall(m))

\* RecievedMessagesIteratorImpl::message() returns a pointer into a string that
\* is destroyed on return, PluginAdapter copies what it then finds there.
Copied(body, outcome) ==
  CASE outcome = "kept"    -> Base64Decode(body)
    [] outcome = "garbled" -> << Plain("bytes") >>
    [] outcome = "empty"   -> <<>>

\* PluginAdapter::receive and the loop of messsageCycle: what a batch of mails
\* is copied to.
Dispatch(numbers) ==
  /\ read' = read \o numbers
  /\ \E outcome \in [ToSet(numbers) -> MemoryOutcomes] :
       copied' = {[number |-> i, outcome |-> outcome[i]] : i \in ToSet(numbers)}

\* The elements of it that can be unmarshalled: they go to the despatcher.
Dispatched ==
  {Unmarshall(Copied(MailOf(mail[c.number]), c.outcome), Peer) : c \in copied} \ {NoMessage}

\* DisconectedException in the cycle: connect again.
Disconnected ==
  /\ thread' = "connect" /\ newest' = 0
  /\ UNCHANGED << conn, service, link, sender, reader, position, copied, result >>

EndsIn(state) ==
  /\ thread' = state /\ newest' = 0
  /\ UNCHANGED << conn, service, link, sender, reader, position, copied, result >>

OfPeer(numbers) == {i \in numbers : mail[i] # Foreign}
HighestOf(numbers) == CHOOSE i \in numbers : \A j \in numbers : j <= i
LowestOf(numbers) == CHOOSE i \in numbers : \A j \in numbers : i <= j

(***************************************************************************)
(* SMTP and IMAP                                                           *)
(***************************************************************************)
\* Mutant: the UID that the next message will get.
GetLastMessageUidMut == IF present = {} THEN 1 ELSE HighestOf(present) + 1

\* The UID of the last message; 1 of an empty folder.
GetLastMessageUid == IF present = {} THEN 1 ELSE HighestOf(present)

SmtpReached == net = "up" /\ conn.info.smtpAddr = Servers.smtp
ImapReached == net = "up" /\ conn.info.imapAddr = Servers.imap

\* The error is caught and connect() returns a code, unless it holds another
\* error (the loop that logs those never ends) or is of a type nobody catches.
\* The cycle does not look at what connect() returned.
ConnectFails(readerLeft) ==
  /\ \E failure \in SmtpFailures :
       thread' = CASE failure = "caught" -> "look"
                   [] failure = "nested" -> "hung"
                   [] failure = "other"  -> "terminated"
  /\ reader' = readerLeft
  /\ UNCHANGED << link, reading >>

\* Without a mail in INBOX the number it stands at is 1, too, and the fetch that
\* leaves out the first mail it gets leaves out the first one that comes: mail 1
\* is never noticed alone, and a later one is taken for the one that is known.
TakenForKnown == IF present = {} THEN Len(mail) + 1 ELSE GetLastMessageUid

ConnectSmtp ==
  /\ thread = "connect" /\ plugin = "smtp"
  /\ sender' = TRUE
  /\ \/ /\ SmtpReached /\ ImapReached
        /\ reader' = "open" /\ link' = TRUE /\ thread' = "look"
        /\ last' = GetLastMessageUid /\ since' = TakenForKnown
        /\ calm' = TRUE /\ read' = <<>> /\ UNCHANGED newest
     \/ ConnectFails(reader)                       \* the sender cannot connect
     \/ SmtpReached /\ ConnectFails("made")        \* the receiver cannot
  /\ UNCHANGED << conn, service, copied, result >>

\* Mutant: two new mails are needed.
LookSmtpMut ==
  /\ thread = "look" /\ plugin = "smtp"
  /\ IF reader # "open" THEN EndsIn("nullUse")
     ELSE IF ~link THEN Disconnected \/ EndsIn("terminated")
     ELSE /\ GetLastMessageUid > last + 1
          /\ newest' = GetLastMessageUid /\ thread' = "fetch"
          /\ UNCHANGED << conn, service, link, sender, reader, position, copied, result >>

LookSmtp ==
  /\ thread = "look" /\ plugin = "smtp"
  /\ IF reader # "open" THEN EndsIn("nullUse")
     ELSE IF ~link THEN Disconnected \/ EndsIn("terminated")
     ELSE /\ GetLastMessageUid # last
          /\ newest' = GetLastMessageUid /\ thread' = "fetch"
          /\ UNCHANGED << conn, service, link, sender, reader, position, copied, result >>

\* Messages between the two numbers, whichever is greater, without the first,
\* which is taken for the one that is known already.
Fetched == {i \in present : LowestOf({last, newest}) <= i /\ i <= HighestOf({last, newest})}

\* Mutant: the mail that is known already is handed over again.
FetchSmtpMut ==
  /\ thread = "fetch" /\ plugin = "smtp"
  /\ IF ~link THEN Disconnected \/ EndsIn("terminated")
     ELSE IF Fetched = {} THEN EndsIn("pastEnd")
     ELSE /\ Dispatch(Ascending(OfPeer(Fetched)))
          /\ last' = newest /\ newest' = 0 /\ thread' = "look"
          /\ UNCHANGED << conn, service, link, sender, reader, since, calm, result >>

FetchSmtp ==
  /\ thread = "fetch" /\ plugin = "smtp"
  /\ IF ~link THEN Disconnected \/ EndsIn("terminated")
     ELSE IF Fetched = {} THEN EndsIn("pastEnd")
     ELSE /\ Dispatch(Ascending(OfPeer(Fetched \ {LowestOf(Fetched)})))
          /\ last' = newest /\ newest' = 0 /\ thread' = "look"
          /\ UNCHANGED << conn, service, link, sender, reader, since, calm, result >>

(***************************************************************************)
(* VK: a long poll server that remembers events since a number             *)
(***************************************************************************)
\* A request that curl cannot perform throws CurlHttpSendError.
Unanswered == net = "down"

ConnectApi ==
  /\ thread = "connect" /\ plugin \in {"vk", "gmail"}
  /\ sender' = TRUE /\ reader' = "none" /\ link' = TRUE /\ thread' = "look"
  /\ last' = 0 /\ read' = <<>>
  /\ UNCHANGED << conn, service, newest, since, calm, copied, result >>

\* A request without an answer throws CurlHttpSendError; an answer other than
\* OK, or one that cannot be read, throws something else, which the cycle only
\* logs before it tries again.
GetLongPollServer ==
  /\ reader' = "open" /\ last' = Len(mail) /\ since' = Len(mail)
  /\ calm' = TRUE /\ read' = <<>> /\ history' = "ok"
  /\ UNCHANGED << conn, net, mail, present, link, thread, sender, newest, copied, result >>

LookVk ==
  /\ thread = "look" /\ plugin = "vk" /\ reader = "none"
  /\ IF Unanswered THEN Disconnected ELSE GetLongPollServer

\* The number of the answer is taken first: an exception from one of the updates,
\* which the cycle only logs, loses all of them.
PollVk ==
  /\ thread = "look" /\ plugin = "vk" /\ reader = "open"
  /\ IF Unanswered THEN Disconnected
     ELSE IF history = "expired" THEN GetLongPollServer
     ELSE IF history = "gap"
       THEN /\ last' = Len(mail) /\ history' = "ok"
            /\ UNCHANGED << conn, net, mail, present, link, thread, sender, reader, newest,
                            since, calm, read, copied, result >>
     ELSE /\ last < Len(mail) /\ last' = Len(mail)
          /\ \/ Dispatch(Ascending(OfPeer((last + 1) .. Len(mail)))) /\ UNCHANGED calm
             \/ calm' = FALSE /\ UNCHANGED << read, copied >>
          /\ UNCHANGED << conn, service, link, thread, sender, reader, newest, since, result >>

(***************************************************************************)
(* Gmail.  connect() makes a GmailOauth without the token that the         *)
(* connection holds: isExpired() is true from the start, and the service   *)
(* refuses to refresh an empty token, before anything is sent or read.     *)
(***************************************************************************)
RefreshToken == ""

\* VkOauth keeps its token for ever, a GmailOauth begins with one that is old.
Expired == plugin = "gmail"
Refused == Expired /\ RefreshToken = ""

LookGmail ==
  /\ thread = "look" /\ plugin = "gmail"
  /\ Refused /\ Unanswered /\ Disconnected

(***************************************************************************)
(* GmailApi: what getMessages reads of a mailbox.  The service lists the   *)
(* mails that its time filter lets through, those from some mail on,       *)
(* newest first, a page at a time.  Nothing of it runs at present, the     *)
(* communicator fails before (see above).                                  *)
(***************************************************************************)
InitLoadMessages == 2      \* 20 in the code

Listed(from) == {i \in OfPeer(present) : from <= i}
NewestFirst(from) == Reverse(Ascending(Listed(from)))

Smaller(a, b) == IF a < b THEN a ELSE b

\* Mutant: a page begins with the last mail of the page before.
PageMut(box, p, size) ==
  SubSeq(box, IF p = 1 THEN 1 ELSE (p - 1) * size, Smaller(p * size, Len(box)))

Page(box, p, size) == SubSeq(box, (p - 1) * size + 1, Smaller(p * size, Len(box)))

Pages(box, size) == (Len(box) + size - 1) \div size

\* A mail older than two minutes leaves an empty element.
GetMail(i, old) == IF i \in old THEN 0 ELSE i

\* How many mails of a page are read: those before lastMessage.
Until(lastMessage, page) ==
  LET hits == {i \in DOMAIN page : page[i] = lastMessage}
  IN  IF lastMessage = 0 THEN Smaller(InitLoadMessages, Len(page))
      ELSE IF hits = {} THEN Len(page) ELSE LowestOf(hits) - 1

Loaded(lastMessage, old, page) ==
  Reverse([i \in 1 .. Until(lastMessage, page) |-> GetMail(page[i], old)])

\* Pages are read until lastMessage is found, every mail is put in front of the
\* ones that are newer; a next page that does not exist throws.
LoadMessages(lastMessage, old, box, size) ==
  LET load[p \in 1 .. Pages(box, size) + 1] ==
        LET page == Page(box, p, size)
        IN  IF p > Pages(box, size) THEN [thrown |-> p > 1, mails |-> <<>>]
            ELSE IF lastMessage = 0 \/ Until(lastMessage, page) < Len(page)
              THEN [thrown |-> FALSE, mails |-> Loaded(lastMessage, old, page)]
            ELSE [load[p + 1] EXCEPT !.mails = @ \o Loaded(lastMessage, old, page)]
  IN  load[1]

\* getMessages: mLastMessage becomes the newest mail, if anything is listed and
\* nothing was thrown.
GetMessages(lastMessage, old, box, size) ==
  LET loaded == LoadMessages(lastMessage, old, box, size)
  IN  [mails |-> IF loaded.thrown THEN <<>> ELSE loaded.mails,
       lastMessage |-> IF loaded.thrown \/ box = <<>> THEN lastMessage ELSE box[1]]

(***************************************************************************)
(* Sending: PluginAdapter::send through Channel::sendMessage, which waits  *)
(* for the mutex that a connect holds.                                     *)
(***************************************************************************)
\* vmime throws when a socket is gone, and SmtpMessageCommunication names that;
\* anything else it throws, of a refused address for one, ends the process.
SmtpSent == IF net = "up" /\ link THEN {"NoError"} ELSE {"Disconected"}

\* The service may refuse a request, and the network may fail under it.
ApiResults == {"NoError", "SendFailed", "Disconected"}

VkSent == IF Unanswered THEN {"Disconected"} ELSE ApiResults

\* refreshAccessToken comes first, and its refusal is no HTTP error.
GmailSent ==
  IF Unanswered THEN {"Disconected"} ELSE IF Refused THEN {"SendFailed"} ELSE ApiResults

SendResults ==
  CASE plugin = "smtp"  -> SmtpSent
    [] plugin = "vk"    -> VkSent
    [] plugin = "gmail" -> GmailSent

Send ==
  /\ Alive
  /\ IF ~sender THEN thread' = "nullUse" /\ UNCHANGED result
     ELSE \/ result' \in SendResults /\ UNCHANGED thread
          \/ plugin = "smtp" /\ thread' = "terminated" /\ UNCHANGED result
  /\ UNCHANGED << conn, service, link, sender, reader, reading, copied >>

(***************************************************************************)
(* The service                                                             *)
(***************************************************************************)
client == << conn, thread, sender, reader, last, newest, since, read, copied, result >>

Arrive(m) ==
  /\ Len(mail) < MaxMail
  /\ mail' = Append(mail, m) /\ present' = present \union {Len(mail) + 1}
  /\ UNCHANGED << client, net, link, history, calm >>

\* The owner of the mailbox removes a mail with another program.
Delete(i) ==
  /\ plugin \in {"smtp", "gmail"} /\ i \in present
  /\ present' = present \ {i} /\ calm' = FALSE
  /\ UNCHANGED << client, net, link, mail, history >>

NetDown ==
  /\ net = "up" /\ net' = "down" /\ link' = FALSE
  /\ UNCHANGED << client, mail, present, history, calm >>

NetUp ==
  /\ net = "down" /\ net' = "up"
  /\ UNCHANGED << client, link, mail, present, history, calm >>

\* The long poll server has forgotten older events, or its key is outdated.
Forget(what) ==
  /\ plugin = "vk" /\ reader = "open" /\ history = "ok"
  /\ history' = what /\ calm' = FALSE
  /\ UNCHANGED << client, net, link, mail, present >>

(***************************************************************************)
Init ==
  /\ conn \in {RestoreConnection(StoreConnection(c), {c.plugin}) : c \in Connections}
  /\ net = "up" /\ link = FALSE /\ history = "ok"
  /\ mail = <<>> /\ present = {}
  /\ thread = "connect" /\ sender = FALSE /\ reader = "none"
  /\ last = 0 /\ newest = 0 /\ since = 0 /\ calm = TRUE
  /\ read = <<>> /\ copied = {} /\ result = "none"

ReceiveStep ==
  \/ ConnectSmtp \/ LookSmtp \/ FetchSmtp
  \/ ConnectApi \/ LookVk \/ PollVk \/ LookGmail

ServiceStep ==
  \/ \E m \in Messages \union {Foreign} : Arrive(m)
  \/ \E i \in present : Delete(i)
  \/ NetDown \/ NetUp
  \/ \E what \in {"gap", "expired"} : Forget(what)

\* What happens at the service after the end of the receive thread is not told.
Next ==
  \/ ReceiveStep
  \/ Send
  \/ Alive /\ ServiceStep

Spec == Init /\ [][Next]_vars

\* The receive thread goes on as long as it can; nothing is assumed of the
\* network, of senders or of the peer.
FairSpec == Spec /\ WF_vars(ReceiveStep)
(***************************************************************************)
(* Properties                                                              *)
(***************************************************************************)
TypeOK ==
  /\ conn \in Connections
  /\ net \in {"up", "down"} /\ link \in BOOLEAN /\ history \in {"ok", "gap", "expired"}
  /\ mail \in Seq(Messages \union {Foreign}) /\ Len(mail) <= MaxMail
  /\ present \subseteq DOMAIN mail
  /\ thread \in {"connect", "look", "fetch", "hung", "terminated", "nullUse", "pastEnd"}
  /\ sender \in BOOLEAN /\ reader \in {"none", "made", "open"}
  /\ last \in 0 .. MaxMail /\ newest \in 0 .. MaxMail /\ since \in 0 .. MaxMail + 1
  /\ calm \in BOOLEAN
  /\ read \in Seq(DOMAIN mail)
  /\ copied \subseteq [number : DOMAIN mail, outcome : MemoryOutcomes]
  /\ result \in {"none", "NoError", "SendFailed", "Disconected"}

\* A reader hands mails to the channel in the order in which they came and none
\* twice; and as long as nothing is deleted, forgotten or lost under it, it has
\* handed over exactly what came since it was connected, up to the number it
\* stands at, but for the first mail that comes into an empty INBOX: ImapReciever
\* never hands that one over.
ReadsEachOnce ==
  /\ \A i, j \in DOMAIN read : i < j => read[i] < read[j]
  /\ reader = "open" /\ calm =>
       ToSet(read) = OfPeer({i \in present : since < i /\ i <= last})

\* What reaches dispatch with a signature was sent by the peer's program: it
\* keeps its signature, and what the receiver checks the signature against is
\* what was signed, unless a line of the text is the delimiter itself.
SignedTextSurvives ==
  \A d \in Dispatched :
    d.sign # Nothing =>
      \E m \in ToSet(mail) \ {Foreign} :
        /\ d.sign = m.sign /\ d.adress = Peer
        /\ BodyDelitimer \notin ToSet(m.content)
             => MarshallExceptSignature(d) = MarshallExceptSignature(m)

\* GmailApi reads what is newer than the last mail it has read, in the order in
\* which it came, whatever the size of a page is.  When the last mail is not
\* listed any more, it was deleted or is too old for the time filter, getMessages
\* throws at the last page as long as anything is listed: nothing is read, and
\* the last mail stays what it is.
GmailReadsNews ==
  plugin = "gmail" =>
    \A lastMessage \in OfPeer(DOMAIN mail) \union {0}, from \in 1 .. MaxMail,
       old \in SUBSET present, size \in 1 .. 2 :
      LET box == NewestFirst(from)
          new == Ascending({i \in Listed(from) : i > lastMessage})
          first == IF lastMessage # 0 THEN 1
                   ELSE Len(new) - Smaller(InitLoadMessages, Smaller(size, Len(new))) + 1
          got == GetMessages(lastMessage, old, box, size)
      IN  IF lastMessage \in Listed(from) \union {0}
            THEN /\ got.mails = [i \in 1 .. Len(new) - first + 1 |-> GetMail(new[i + first - 1], old)]
                 /\ got.lastMessage = IF new = <<>> THEN lastMessage ELSE new[Len(new)]
          ELSE got.mails = <<>> /\ got.lastMessage = lastMessage

\* A mail that is there to be read: it came after the reader was connected, and
\* not as the first one into an empty INBOX, which is never read.
Due(i) ==
  /\ i \in present /\ mail[i] # Foreign /\ i > since
  /\ Alive /\ reader = "open" /\ net = "up" /\ link /\ calm

\* Such a mail is read, or the network, the service or the program prevents it.
EventuallyRead == \A i \in 1 .. MaxMail : Due(i) ~> (i \in ToSet(read) \/ ~Due(i))
=============================================================================
