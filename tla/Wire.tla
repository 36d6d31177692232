-------------------------------- MODULE Wire --------------------------------
(* The formats of SecureDialogues: the text of a message on its way between   *)
(* two programs (MessageMarshaller, base64), the content of a discovery, and  *)
(* the records of the database (the marshallers and plugin serializers).      *)
(*                                                                            *)
(* A string that may hold line breaks is the non-empty sequence of its lines; *)
(* a line is a name, Blank stands for any line of white space.  A line of a   *)
(* message is a record: key and val of a field, or NoKey and the line.        *)
(* A number is the name of its digits.                                        *)
EXTENDS Naturals, SequencesExt

CONSTANT Numbers      \* the strings that std::stoul and std::stol accept

Blank == ""                                             \* white space, or an empty name
NoKey == ""
Nothing == <<Blank>>                                   \* the empty string

(***************************************************************************)
(* DialogMessage                                                           *)
(***************************************************************************)
WireActions == {"MESSAGE", "CREATE_DIALOG", "ACCEPT_DIALOG", "CLOSE_DIALOG", "ACK",
                "ABORT", "VERIFY_KEY", "KEY_VERIFICATION", "CONTACT_DISCOVER"}

DialogMessage(action, content, dialogId, adress, number, sign, timestamp) ==
  [action |-> action, content |-> content, dialogId |-> dialogId,
   adress |-> adress, sequential |-> number, sign |-> sign, timestamp |-> timestamp]

\* The answer to a message; its signature is one blank, which is a line that a
\* field may hold.
MakeAck(m, now) ==
  DialogMessage("ACK", Nothing, m.dialogId, m.adress, m.sequential, <<" ">>, now)

MakeAbort(dialogId, contact, number, now) ==
  DialogMessage("ABORT", Nothing, dialogId, contact, number, Nothing, now)

(***************************************************************************)
(* MessageMarshaller: from a message to its text                           *)
(***************************************************************************)
Plain(line) == [key |-> NoKey, val |-> line]
Field(key, val) == [key |-> key, val |-> val]

Header == Plain("SECURE DIALOG MESSAGE")
BodyDelitimer == "----"
Version == "1.0"

\* Mutant: the white space stays.
StrippedMut(s) == s

\* The white space at the end of a string is overwritten with zeros, c_str()
\* ends there.
Stripped(s) ==
  LET written == {i \in DOMAIN s : s[i] # Blank}
  IN  IF written = {} THEN Nothing
      ELSE SubSeq(s, 1, CHOOSE i \in written : \A j \in written : j <= i)

\* The elements of a finite set of numbers in ascending order.
Rank(numbers, i) == Cardinality({j \in numbers : j <= i})
Ascending(numbers) ==
  [k \in 1 .. Cardinality(numbers) |-> CHOOSE i \in numbers : Rank(numbers, i) = k]

Plains(s) == [i \in DOMAIN s |-> Plain(s[i])]

Text(m, sign) ==
  << Header, Field("VERSION", Version), Field("ACTION", m.action),
     Field("SEQUENTAL_NUMBER", m.sequential), Field("DIALOG", m.dialogId),
     Field("TIMESTAMP", m.timestamp), Field("SIGNATURE", sign[1]) >>
  \o Plains(Tail(sign)) \o <<Plain(BodyDelitimer)>> \o Plains(Stripped(m.content))

Marshall(m) == Text(m, m.sign)

\* What is signed, and what a receiver checks the signature against.
MarshallExceptSignature(m) == Text(m, Nothing)

(***************************************************************************)
(* MessageMarshaller: from a text to a message                             *)
(***************************************************************************)
\* The action and the time of a text that ends before their lines are never
\* assigned: whatever was in memory.
Unset == "unset"

\* Neither the key nor the value may be empty.
SplitKeyVal(line, key) == line.key = key /\ line.val # Blank

HeaderFields ==
  << NoKey, "VERSION", "ACTION", "SEQUENTAL_NUMBER", "DIALOG", "TIMESTAMP", "SIGNATURE" >>

\* What a line must be is decided by its number, until the signature begins.
\* A number or an action that cannot be converted throws, which refuses the
\* text too.
PrepareLine(i, line) ==
  IF i = 1 THEN line = Header
  ELSE /\ SplitKeyVal(line, HeaderFields[i])
       /\ i = 2 => line.val = Version
       /\ i = 3 => line.val \in WireActions
       /\ i \in {4, 6} => line.val \in Numbers

\* std::getline returns nothing for an empty rest after the last line break.
Lines(text) == IF text # <<>> /\ Last(text) = Plain(Blank) THEN Front(text) ELSE text

NoMessage == DialogMessage("none", Nothing, Blank, Blank, "0", Nothing, "0")

IsDelimiter(line) == line = Plain(BodyDelitimer)

\* The signature goes on to the first delimiter.
BodyAt(lines) ==
  LET delimiters == {i \in DOMAIN lines : i >= 8 /\ IsDelimiter(lines[i])}
  IN  IF delimiters = {} THEN Len(lines) + 1
      ELSE CHOOSE i \in delimiters : \A j \in delimiters : i <= j

\* Several lines of a field, put together again.
Joined(lines, numbers) ==
  LET at == Ascending(numbers)
  IN  IF numbers = {} THEN Nothing ELSE [k \in DOMAIN at |-> lines[at[k]].val]

Signature(lines) == Joined(lines, {i \in DOMAIN lines : 7 <= i /\ i < BodyAt(lines)})

\* Delimiters in the content are dropped.
Content(lines) ==
  Joined(lines, {i \in DOMAIN lines : BodyAt(lines) < i /\ ~IsDelimiter(lines[i])})

Unmarshall(text, address) ==
  LET lines == Lines(text)
      ValueOf(i, default) == IF i \in DOMAIN lines THEN lines[i].val ELSE default
  IN  IF \E i \in DOMAIN lines \cap (1 .. 7) : ~PrepareLine(i, lines[i]) THEN NoMessage
      ELSE DialogMessage(ValueOf(3, Unset), Stripped(Content(lines)), ValueOf(5, Blank), address,
                         ValueOf(4, "0"), Signature(lines), ValueOf(6, Unset))

(***************************************************************************)
(* base64: what plugins put into a mail                                    *)
(***************************************************************************)
Base64Encode(text) == [encoded |-> TRUE, text |-> text]

\* Decoding stops at the first character that is not of the alphabet: a body
\* that somebody wrote by hand becomes some bytes without a line break.
Base64Decode(body) == IF body.encoded THEN body.text ELSE <<Plain("bytes")>>

(***************************************************************************)
(* The content of a discovery: name, delimiter, key.  The name ends at the *)
(* FIRST CHARACTER that occurs in the delimiter (find_first_of), and the   *)
(* key starts one length of the delimiter after it.                        *)
(* A content is a sequence of pieces: plain characters, "-" or line break. *)
(***************************************************************************)
ContentDelitimer == <<"\n", "-", "-", "\n">>

DiscoverContent(name, key) == name \o ContentDelitimer \o key

GetNameAndPublickKey(content) ==
  LET hits == {i \in DOMAIN content : content[i] \in ToSet(ContentDelitimer)}
      pos == CHOOSE i \in hits : \A j \in hits : i <= j
  IN  IF hits = {} \/ pos + Len(ContentDelitimer) > Len(content) + 1
        THEN [thrown |-> TRUE, name |-> <<>>, key |-> <<>>]
      ELSE [thrown |-> FALSE, name |-> SubSeq(content, 1, pos - 1),
            key |-> SubSeq(content, pos + Len(ContentDelitimer), Len(content))]

(***************************************************************************)
(* Records of the database: fields one after another, without their names. *)
(***************************************************************************)
StoreContact(c) == << c.channelMoniker, c.name, c.adress, c.id, c.publicKey >>
RestoreContact(r) ==
  [channelMoniker |-> r[1], name |-> r[2], adress |-> r[3], id |-> r[4], publicKey |-> r[5]]

StoreDiscovered(c) ==
  << c.created, c.channel_moniker, c.contact_adress, c.public_key, c.name, c.dialog_id >>
RestoreDiscovered(r) ==
  [created |-> r[1], channel_moniker |-> r[2], contact_adress |-> r[3],
   public_key |-> r[4], name |-> r[5], dialog_id |-> r[6]]

SerializeSmtp(c) ==
  << c.userName, c.password, c.tlsUsed, c.from, c.imapAddr, c.imapPort, c.smtpAddr, c.smtpPort >>
DeserializeSmtp(r) ==
  [userName |-> r[1], password |-> r[2], tlsUsed |-> r[3], from |-> r[4],
   imapAddr |-> r[5], imapPort |-> r[6], smtpAddr |-> r[7], smtpPort |-> r[8]]

SerializeGmail(c) == << c.email, c.accessToken >>
DeserializeGmail(r) == [email |-> r[1], accessToken |-> r[2]]

SerializeVk(c) == << c.vkId, c.accessToken >>
DeserializeVk(r) == [vkId |-> r[1], accessToken |-> r[2]]

NoInfo == [plugin |-> "none"]

Serialize(plugin, info) ==
  CASE plugin = "smtp"  -> SerializeSmtp(info)
    [] plugin = "gmail" -> SerializeGmail(info)
    [] plugin = "vk"    -> SerializeVk(info)

Deserialize(plugin, fields) ==
  CASE plugin = "smtp"  -> DeserializeSmtp(fields)
    [] plugin = "gmail" -> DeserializeGmail(fields)
    [] plugin = "vk"    -> DeserializeVk(fields)

\* The parameters of a connection whose plugin is not there stay unread.
StoreConnection(c) ==
  [name |-> c.name, pluginId |-> c.plugin, rest |-> Serialize(c.plugin, c.info)]
RestoreConnection(r, plugins) ==
  IF r.pluginId \in plugins
    THEN [name |-> r.name, plugin |-> r.pluginId, info |-> Deserialize(r.pluginId, r.rest)]
    ELSE [name |-> r.name, plugin |-> "none", info |-> NoInfo]
=============================================================================
