# SecureDialogues in TLA+

SecureDialogues is a messenger that sends encrypted texts over channels nobody
has to trust: mail, VK, UDP. A *dialog* between two contacts is opened by a
handshake that exchanges and proves a session key; after that the two sides
exchange texts until one of them closes the dialog. This directory models the
parts where that is decided: in `src/messages/` the dialogs and their handlers, the
repository that watches confirmations, the channels with their threads and locks, the
exchange of keys, and the way from a text to the window that shows it; in `src/plugins/`
and `src/plugins-support/` how mails are read and written; in `src/gui/` and
`src/encryption/` the windows that edit connections and contacts, the storages under them,
and the start and the end of the program. The code is C++ with Qt; there is no server, each
instance of the program talks to its peers through adapters.

    module                  models
    ----------------------  ------------------------------------------------------
    DialogState             statuses, actions, both tables, class Dialog
    DialogNode              the dialogs of one instance, three threads, the peer
    DialogHistory           the same, with a record of what its threads did to each other
    SerialDialogs           the same dialogs when each operation is one step (abstract)
    KeyExchange             CryptoSystemImpl of two instances and their network
    TimeoutedRepository     the map of delivery handlers with its detached thread
    DeliveryTracking        what that map promises (abstract)
    Channels                channels, receive threads, the three kinds of locks
    DialogView              texts, the list of dialogs and what the window shows
    Wire                    text of a message, of a discovery, records of a database
    Plugins                 a connection over each plugin, reading and sending
    PluginSupport           discovery of plugins, their widgets and addresses
    Storages                storages of connections and contacts, cascades, listeners
    Settings                the windows over them, start, end and crash
    MC*                     the same on small instances, for TLC
    DialogNodeProofs, DialogHistoryProofs, TimeoutedRepositoryProofs, ChannelsProofs,
    KeyExchangeProofs, DialogViewProofs, SettingsProofs, PluginsProofs
                            theorems about the modules they are named for

`DialogNode`, `SerialDialogs` and `KeyExchange` extend `DialogState`; `DialogHistory` extends
`DialogNode`, which has an instance of `SerialDialogs`, `TimeoutedRepository` one of `DeliveryTracking`; `Plugins`, `PluginSupport` and
`Storages` extend `Wire`; `Settings` extends `Storages` and `PluginSupport`.

To repeat the checks: `tlc -config node_history.cfg MCDialogHistory` (the configuration
names below, the module in the table), `tlapm DialogNodeProofs.tla` for the proofs.


## 1. Inventory

### Threads

| thread | where it starts | what it runs |
|---|---|---|
| receive thread, one for each channel | `Channel::startCycle`, `channel.cpp:117` | connect, receive, `MessageDespatcher::dispatch` with every handler |
| work thread, a `QThread` | the wrappers of `src/gui/src/wrappers` | commands of the user: create, close, abort, remove, send a text |
| repository thread, detached | `TimeoutedRrepository::make`, `timeoutedrepository.h:59` | every `CHECK_IDLE_ACK` (120 ms) resolves handlers whose `WAIT_ACK` (100 s) is over |
| Qt user interface thread | `main` | the window; stores contacts and connections, whose listeners add and remove channels |

There is no lock around a dialog. The storage library locks each read and each
`save()` by itself; a wrapper in between is a private copy.

### Components

| component | state | operations | interacts with |
|---|---|---|---|
| `Dialog`, `DialogStateMachine` | status, two counters | `setStatus`, `isSequentalOk`, `makeNextSequental` | everybody who holds a snapshot |
| `DialogActionHandler` | the dialog storage | `handle`, `createDialog`, `closeDialog`, `abortDialog`, `removeDialog` | despatcher, crypto system, storage |
| `MessageActionHandler` | texts, the active dialog | `handle`, `sendMessage`, `abortOnException` | the same |
| `MessageDespatcher` | `mChannels`, `mHandlers`, the repository | `dispatch`, `sendMessage`, `sendAndForget`, `sendAck`, `add`, `removeChannel` | channels, repository, handlers |
| delivery handlers | dialog wrapper, next status | `removed`, `timeouted` | called by the repository under its mutex |
| `TimeoutedRrepository` | `mValues`, `mMutex` | `store`, `remove`, `checkInThread` | despatcher, delivery handlers |
| `Channel` | adapter, mutex, thread, `isDisconected` | `messsageCycle`, `sendMessage` | despatcher, adapter, event queue |
| `ConnectStorageListener` | none | `added`, `changed`, `removed` | despatcher, adapter factory |
| `CryptoSystemImpl` | `mRemote`, `mCiphers` | keys, signatures, encryption | contact and dialog listeners |
| `CoreInitializer` | all of the above | construction, reading the storage back | |
| `MessageContainer`, `SystemMessageGenerator` | texts, the active dialog | `addMessage`, `addToActiveDialogWithWrapper`, `setActiveDialog` | handlers, models of the window |
| `DialogUserModel`, `ActiveDialogMessageModel`, `MainWindow`, wrappers | the list, the selected dialog, unread texts, shown texts, the send button | `added`, `changed`, `removed`, `messageAdded`, `rowWasSelected` | storage, container, work thread |
| storages, `eventwatchers.h` | contacts, connections, dialogs, discovered contacts | `add`, `update`, `remove`, cascades when one is removed | their listeners, one after another |
| `MessageMarshaller` | none | text format of a message, what is signed of it | channel adapters |
| marshallers of the storages, serializers of the plugins | none | record and element | storages |
| `DiscoverContactAgent` | discovered contacts | receive, show, remove, import | despatcher, window |
| `PluginAdapter` | the communicator of a plugin | `connect`, `send`, `receive` | channel, plugin |
| communicators of SMTP/IMAP, VK, Gmail | sockets, tokens, the last mail that was read | connect, read what is new, send, refresh a token | mail servers, long poll server, HTTP |
| `PluginDiscovery`, `PluginsContainer` | plugins that were loaded | validate a description, load | storages, widgets |
| `BaseSettingsDialog` with `ContactWidget` or `ConnectionInfoWidget` | state of the buttons, the element that is held | view, add, change, delete, save | storages, models |
| `RecievedContactsMenu`, `ImportDiscoveredContactDialog` | the contact that is shown | show, import, remove | storages |
| `AsymetricalKeyStore`, `FileAsyncKeySerializer`, `PublicKeyDialog` | RSA pair, two files | load, generate, save | `CryptoSystemImpl` |

`PROJECT.json` lists them with what is modelled of each.

### What is hard here, and what must hold

* **Snapshots** (`DialogActionHandler`, `MessageActionHandler`, delivery handlers).
  A wrapper is read, a message is sent, the whole dialog is written back. Two
  threads that do this at once lose one of the writes. Must hold: statuses follow
  the state machine, counters never fall, nothing leaves that the status forbids,
  a confirmation is not undone - and where the missing lock breaks that, nothing
  else may.
* **The peer and the network.** Messages are repeated, delayed, reordered,
  forged or lost. Must hold: a message is accepted once; a handler watches the
  message it was made for.
* **Failure in the middle.** `sendMessage` stores the handler, then sends, then the
  caller saves. A send that throws leaves the first without the last.
  Exceptions out of the `noexcept` `dispatch` or out of a thread end the process.
* **Confirmation against timeout.** Both resolve a handler; it must happen once.
* **Restart.** Dialogs come back, handlers and session keys do not, and the keys of
  the contacts are only put into `mRemote` when a contact is stored again.
* **One selection in four places.** The list, the container, the shown texts and
  the button each keep the selected dialog; three threads change it, partly by
  direct calls and partly through event queues. Must hold: a text goes to the dialog
  it was typed for, what is shown is what is stored, no text is missed.
* **Locks.** The mutex of the despatcher is held shared while handlers run and
  exclusively while a channel is removed, which joins the thread of the channel;
  the mutex of the repository is held while handlers send; the mutex of a channel
  is held while its adapter connects. Must hold: a channel lives as long as it
  is used, an adapter is used by one thread, nobody waits for ever.
* **Keys.** A dialog is stored in one place and its cipher in another, with a blocking
  random generator in between; the cipher is kept before it is proved, an older one is kept
  over a newer one, both are forgotten in a restart, and a wrong key decrypts anything. Must
  hold: after a proof that was accepted both sides have one key.
* **Services.** A mail server is asked for ranges of numbers, a page of mails, or
  events since a number, while mails arrive and go. Errors of `connect` are dropped, errors of
  `receive` lead to a new connect, and what a plugin returns is read after it was freed.
  Must hold: nothing is read twice, what is skipped is known, a signed text keeps what was
  signed.
* **Storages with listeners.** A removal cascades; a listener that throws leaves the
  later ones without the news; a window holds an element that may have gone. Must
  hold: storages, models and keys agree, and a window changes what it was asked to.
* **Key files.** Two files are cut and written one after the other.
* **Liveness.** A request that nobody confirms must be given up.

The list under `hazards` in `PROJECT.json` has each of them at its line.


## 2. The modules

### DialogState

`NextStatuses` and `AllowedActions` are the two `switch` tables of
`dialogstatemachine.cpp`; `Dialog`, `NewDialog`, `RequestedDialog`, `IsSequentalOk`,
`MakeNextSequental`, `SetStatus` are the class `Dialog`. `NextOnDelivery` and
`AbortNeeded` are the `make_delivery_handler_for_*` functions, `StatusOfAction` is
`DialogActionHandler::map`.

* The first number of a new dialog is random in the code and 0 here: only the
  order of numbers is ever looked at.
* `WAIT_KEY_VERIFICAION` is in the table, but no step of the program reaches it
  (see finding 1).

### DialogNode

| variable | code |
|---|---|
| `dialogs` | the dialog storage; `NoDialog` for an identifier that is not in it |
| `pending` | `MessageDespatcher::mRepo`, keyed by dialog and number |
| `ciphers`, `contactKnown` | `CryptoSystemImpl::mCiphers`, `mRemote` |
| `sent` | everything handed to an adapter |
| `shown` | texts of the peer in the container, counted to 2 |
| `thread` | where each of the three threads is, with the snapshot it holds |
| `alive` | false after `std::terminate` |
| `opener` | who made the identifier up: identifiers are unique (`make_uiid`) |

An operation is several steps, cut where another thread can see or change what
it depends on: taking the wrapper, sending, saving. `At(pc, d, action, snap, mode)`
is a thread in between; `mode` says what an exception or the end of the operation
leads back to (`"rescue"`: the `catch` of `handle`, which answers with
`abortDialog`; `"remove"`: the second half of `removeDialog`).

| code | actions |
|---|---|
| `createDialog`, `closeDialog`, `abortDialog`, `removeDialog` | `CreateDialog`, `CloseDialog`, `AbortDialog`, then `SendRequest`, `SaveRequest` or `StartAbort`, `SendAbort`, `SaveAbort`, and `RemoveDialog` |
| `MessageActionHandler::sendMessage` | `SendText`, `SaveText`, `SendRequest` |
| `dispatch`, `DialogActionHandler::handle` | `DispatchKnown`, `Accept`, then `AnswerVerifyKey`, `AnswerKeyVerification`, `AnswerWithStatus`, `SaveStatus`; `AnswerRemoved` when the dialog went meanwhile; `AnswerAsserts` for the `assert` of `map` in a debug build |
| `prepareNotFoundDialog` | `DispatchUnknown`, `DispatchCreate` |
| `MessageActionHandler::handle` | `DispatchText` |
| `sendAck`, `isSignatureValid` | `AcksOf`, `AckFails`, `DispatchRejected`: the confirmation goes out before anything is checked |
| `removed()` by an ACK | `Ack` or `TextResolved`, `SaveAck` |
| `timeouted()` | `Timeout` or `TextResolved`, `SendTimeout`, `SaveTimeout` |
| restart | `Restart` |

Decisions a reader should know:

* `Save` writes the whole snapshot over the stored dialog, and throws when the
  dialog was removed. This is how the storage library (a git submodule that is not
  part of the repository) is used; its operators are marked external in the map.
* `SendRequest` has three outcomes: sent; no channel, which drops message and
  handler without telling anybody; a failed send, after the handler was stored.
* `closeDialog` reads the dialog twice; the two reads are one step.
* The confirmation `dispatch` sends and the handler's first read are one step:
  nothing the peer or another thread does in between changes what either does.
* The number that `VERIFY_KEY` takes is never saved, as in the code.
* A peer confirms what it was really sent, by dialog and number alone. It sends
  any message of `PeerActions` at any time, also repeatedly and out of order, but
  speaks of a dialog of ours only after it was sent something for it, and
  its `CREATE_DIALOG` never carries an identifier of ours.
* Whether a signature is right, or a message too old, is a choice
  (`DispatchRejected` may happen to any message).
* In `AnswerVerifyKey` `importKey` may throw, before or after it kept the key; the answer
  is then `abortDialog`.
* Storing a dialog and keeping its key are one step in `DispatchCreate`. Nothing here depends
  on the time between; `KeyExchange`, where it matters, takes them apart.

### DialogHistory

Nothing in the code keeps the operations of the three threads apart, so a property that only
holds while they do not overlap would say nothing about the program. `DialogHistory` adds two
variables no guard reads. `stale` is the set of threads whose snapshot is out of date: another
thread stored or removed the dialog after the snapshot was taken, and the thread has not
finished with it. `doubtful` is the set of dialogs in which a number may be given out twice: two
threads held snapshots of the dialog at once (`Shared`), a send failed after its handler was
stored (`Unsent`), or an operation ended between its send and its save (`Forgotten`).

The properties say what holds *whatever* overlaps, fails or is started again, and that only
these things break it: a snapshot that is not out of date fits what is stored
(`FreshSnapshotsFit`); a status leaves the table, a counter falls, or a message leaves against the
status only by a step with a snapshot that is out of date (`StatusFollowsMachine`,
`CountersNeverFall`, `SendsOnlyWhatStatusAllows`); a handler watches a message it was not made
for only in a doubtful dialog (`HandlerGuardsOwnMessage`). Each of the ways named does occur
in the program, see the table of variations in section 3.

### SerialDialogs

What the node promises while its operations do not overlap: each of them is a single
step. `Open`, `Offered`, `Refuse`, `Send`, `Abort`, `Hear`, `Notified`, `Delivered`, `GivenUp`,
`TextTold`, `Remove` change the dialogs, the watched messages and what was sent at once; between
two of them nothing is half done. A message takes a number above all that were given out in its
dialog (`Fresh`), leaves, is watched and is counted in one step; a handler is resolved in the
step that moves its dialog on; the process may end between operations, or by a handler that
finds its dialog in a status it cannot leave, after it has sent its ABORT.

`ImplementsSerial` in `DialogNode` maps the node to it. A dialog counts as saved as soon as only
the save is left to do: `SerialView` shows the snapshot a thread holds after `sendMessage`
returned. A text goes the other way: `sendMessage` saves the new number first and sends then,
so the number is shown one less until the text is out. A handler whose thread is about to save
is no longer watched, and the confirmations the node sends are left out. The number of
`VERIFY_KEY` is not kept, there as in the code.

### TimeoutedRepository and DeliveryTracking

`values` is the map, `mutex` its mutex, `current` the element whose callback runs.
`Remove`/`RemoveEnds` are `remove()` before and after `removed()`; `WeakLock`,
`ReadClock`, `LockMutex`, `Visit`, `EraseExpired`, `LeaveCheck` are one round of
`thread_execute` and `checkInThread`, with the clock read *before* the mutex is
taken, as in the code. `Release` is the owner dropping its reference: the thread
may run one more check, then ends. `now` is `system_clock`, which `SetClock` may
set; `uptime` is the time that really passed.

`DeliveryTracking` is what the despatcher relies on: a handler is watched or refused;
a watched one is told once, removed or timeouted. `Tracks` is the refinement, with
`StatusOf(e)` as the mapping: an element is `"watched"` while it is in the map
without a callback, and `"twice"`, which the specification does not know, when two
callbacks ran.

### Channels

`channels`, `shared`, `exclusive`, `repo`, `adapter` are the map and the locks; `pc`
says where each thread is. `GuiStep` is `ConnectStorageListener` with `add` and
`removeChannel` (`~Channel` joins while `exclusive` is held), `SendStep` is
`sendMessage`/`sendAndForget` down to `Channel::sendMessage`, `CycleStep` is
`Channel::messsageCycle` with `dispatch`. Messages are kept only as far as the locks
they lead to; what they say is in `DialogNode`.

* A shared lock is counted for each thread: `dispatch` holds it around handlers that
  take it again.
* `CountChannel` is `mChannels.count` without the lock (`messagedespatcher.cpp:134`).
  While the map is changed it may see either; a crash inside the map is not modelled.
* `connect()` has three outcomes and the code looks only at the exception: with
  `false` `CONNECTED` is reported all the same (`channel.cpp:59`). After a failed send
  `FAILED_CONNECT` is shown, but the cycle still believes it is connected and never
  reports `CONNECTED` again (`channel.cpp:107`). Both can be seen in `Connect` and
  `ReportFailure`; no run is spent on them.
* `WriterFirst` is the kind of `shared_mutex` the build has. `FALSE` is glibc's default.
  With `TRUE` a waiting `add` keeps the second `lock_shared` of a handler out, and
  `ListenerReturns` of `chan_live` fails.
* `WaitsFor` says for whom a thread waits at the lock, or the join, it stands before;
  `handle` counts as waiting though a message that is rejected needs no lock. `OnlyRemovalDeadlocks`
  looks at every set of threads: one in which each waits for another is a deadlock. They exist (the
  join of `removeChannel` and the handler it waits for), and the property says there are no others.

### KeyExchange

`ciphers`, `local`, `remote` are the state of two `CryptoSystemImpl`, `dialogs` the counters of
the dialog in both programs, `sent` everything on the network: a message arrives never, once
or many times, in any order. `verified` and `shown` are history.

| code | actions |
|---|---|
| `createDialog` | `CreateDialog` |
| `prepareNotFoundDialog`: `mDialogStorage->add` | `AddDialog` |
| `wrapper`, `getRemoteByAdress` | `GetRemoteByAdress` |
| `generateAndExportKey`: `emplace`, and the send | `GenerateAndExportKey` |
| `handle` of `VERIFY_KEY`: the number is saved | `HandleVerifyKey` |
| `importKey` | `ImportKey`, `ImportVerification`: its two decryptions, because `generateAsymetricKeys` takes another mutex and may come in between |
| `sendRequest` of `KEY_VERIFICATION` | `SendVerification` |
| `handle` of `KEY_VERIFICATION`, `checkVerificationString` | `HandleKeyVerification` |
| `MessageActionHandler::sendMessage`, `handle`, `decryptMessageBody` | `SendText`, `ReadText` |
| `removeDialog`; contacts that are stored or removed | `RemoveDialog`, `UpdateContact`, `RemoveContact` |
| `CryptoSystemImpl::dialogRemoved`, called by the storage | `DialogRemoved` |
| `PublicKeyDialog::generateKey`, start | `GenerateAsymetricKeys`, `Restart` |

* Storages and crypto system have locks of their own. `handling` is where the receive thread of
  each program is, `removing` which threads have taken a dialog out of a storage and not told the
  crypto system so far; everything else runs between. So a dialog, or its contact, may
  be removed after it was stored and before its cipher is kept: `dialogRemoved` finds nothing
  then, the cipher stays, and the next dialog of that identifier keeps it while it offers
  a newer key. While `importKey` runs it holds `mMutex` (`MutexFree`).
* Ciphertexts are symbolic: what was encrypted with which key. RSA with another pair throws,
  AES with another key gives garbage and never fails, a signature names the pair.
* Statuses are left out on purpose: with them no handshake gets through (finding 1), and
  without them more happens than in the program, so what holds here holds there. `ABORT` and
  `ACCEPT_DIALOG` only change a status, and the number an `abortDialog` takes is one more
  that a text could have taken. Texts are sent by the opener; the other way differs
  by nothing the module knows.
* The acceptor's dialogs begin with any number of `Starts`, in any order, as `init_sequental`
  is random.

`VerificationHolds` has one exception, `history.misled`. An opener that has lost its key (its
program was started again, or a removal erased it) imports whatever `VERIFY_KEY` passes the
number check: an older one, which does when the acceptor's later dialog happens to begin with a
smaller number, or a newer one whose key the acceptor made and did not keep. A dialog that was
verified before, or a proof that is still on the way, then stands for another key than the
opener has. The code does not prevent it. The property says that this is the only way there.

With `ReadableMut`, which ignores the number of a text, it fails: a text of an earlier dialog is
shown as garbage in a verified one.

### DialogView

`ui` is the state of the four objects and of the two event queues; the operators
on it are their methods (`SetActiveDialog`, `AddMessage`, `Added`, `Changed`, `Removed`,
`UpdateActiveDialog`, ...), and each takes the thread it runs in where a signal is
emitted. `EmitToWrapper` and `EmitToWindow` are Qt's automatic connections: direct when
the emitting thread is the one the receiver lives in, queued otherwise. The
receivers are `MessageHandlerWrapper` (moved to the work thread in
`guiinitializer.cpp:117`) and `MainWindow`.

| code | actions |
|---|---|
| `rowWasSelected` | `RowWasSelected` |
| the send button, the menu of a dialog, the window for new dialogs | `TypeText`, `UseMenu`, `StartNewDialog` |
| wrappers in the work thread | `WrapperSetActive`, `WrapperClose`, `WrapperRemove` then `RemoveDialog`, `CreateDialog`, `CommandFails` |
| `MessageActionHandler::sendMessage` | `SendMessage`, `StoreText` |
| `MessageActionHandler::handle` | `ReceiveText`, then `AddText` or `AbortOnException` |
| handlers and the timer saving a dialog; a peer's request; a contact deleted | `SaveDialog`, `OfferDialog`, `RemoveContact` |
| slots of `MainWindow` | `WindowEvent` |

* A text is known by the dialog it was encrypted for. Delivery marks are left out; so
  are `removeDialog`, `list` and `addMessageToActivedialog` of the container, which nobody
  calls: the texts of a removed dialog stay in it.
* A save of the storage and all its listeners are one step, in the order in which
  the listeners are registered (`SystemMessageGenerator` before `DialogUserModel`).
* `DialogUserModel` has no lock, although three threads use it. A method is one
  step here: what is checked is their order, a run with a torn string is not covered.
* `createDialog` adds the dialog and saves it when its request has left; `CreateDialog` is one
  step with one or two notifications, as the list takes them the same way.
* `SaveDialog` takes any status to any other: which of them happen is `DialogNode`'s
  matter, and a stale snapshot may bring an old one back.
* The program starts without stored dialogs. With some, the constructor of
  `DialogUserModel` calls `contacts->get` on the parameter it has just moved from
  (`dialogusermodel.cpp:11` and `:15`), a null pointer.
* `seen` and `overtaken` are history: the texts that were in the rows, and the
  selections made in the work thread while older ones waited in its queue.

Two things a reader may expect do not hold. A dialog that is removed in the work
thread selects the next one by a direct call; when the user has meanwhile clicked on
a dialog, that older selection is executed afterwards, and texts go to a dialog
that is not the selected one (`ActiveFollowsSelection` without `overtaken` fails in
seven states). And the button may stay disabled for an active dialog, or enabled for a
closed one, because a click sets it at once and other threads through a queue.


### Wire

The text of a message is a sequence of lines, each a field or a plain line, and `Unmarshall`
reads it the way the state machine of `messagemarshaller.cpp` does: by the number of the line up to
the signature, then up to the first delimiter. `Text` without the signature is what is
signed. Two things it keeps of the code: white space at the end of a content is lost
(`Stripped`), and a line of the content that equals the delimiter is lost too. The code appends
line after line; here the content and the signature are the lines that belong to them, joined in the
order of their numbers (`BodyAt`, `Joined`, with `Rank` and `Ascending` in place of a loop).
`GetNameAndPublickKey` keeps `find_first_of`: the name ends at the first *character* that occurs in
the delimiter, so that a name with a hyphen cuts the key. The records of the storages are the
fields in the order the marshallers write them; their sizes are left out.

### Plugins

One connection, restored from its record, with the thread that receives and the
threads that send. `mail` is what arrived at the service, a number of a mail is its UID;
`present` what is still there; `history` what a long poll server will answer. `thread` is the next
step of the cycle or its end: `"hung"`, `"terminated"` (an exception nobody catches),
`"nullUse"`, `"pastEnd"`.

| code | actions |
|---|---|
| `SmtpMessageCommunication::connect`, `ImapReciever`, `ImapSender` | `ConnectSmtp` |
| `ImapReciever::hasNext`, `getMessages` | `LookSmtp`, `FetchSmtp`: between the two the number of the newest mail is known and the mails are not |
| `VkMessageCommunicator`, `VkApi` | `ConnectApi`, `LookVk`, `PollVk` |
| `GmailMessageCommunicator`, `GmailOauth` | `ConnectApi`, `LookGmail` |
| `GmailApi::getMessages` | operators `LoadMessages`, `GetMessages` |
| `PluginAdapter::send` over the three senders | `Send` |
| the service (external) | `Arrive`, `Delete`, `NetDown`, `NetUp`, `Forget` |

* A `connect` that fails leaves the cycle going, as its result is not looked at
  (`channel.cpp:59`), and the reader that was not made is used: `"nullUse"`. A vmime error that holds
  another one never leaves the loop that logs it (`smtpmessagecommunication.cpp:86`): `"hung"`.
* `RecievedMessagesIteratorImpl::message` returns a pointer into a string that is destroyed on
  return. What is copied is a choice, `MemoryOutcomes`.
* `GmailMessageCommunicator::connect` does not hand the stored token to `GmailOauth`
  (`gmailmessagecommunicator.cpp:83`): the token is expired from the start, there is nothing to
  refresh it with, and every read and every send fails. What `GmailApi` would read is an operator:
  the run checks it on every mailbox it reaches, `GmailReadsAll` proves it for every mailbox
  (and its lemma `PagesAreRead` for every size of a page). `Loaded` is the recursion `load` over the pages, as a recursive function.
* A message has a content and a signature of at least one line each, and no line of the signature is
  the delimiter (`PluginsAssumption`): a signature is the text `CryptoSystemImpl` encodes, a content
  is a body made by the handlers.
* `GmailApi` sees what the time filter of its query lets through: `Listed(from)`. When its last
  mail was deleted or is too old for the filter, the walk over the pages does not meet
  it, and after the last page `body.at("nextPageToken")` throws (`gmailapi.cpp:167`):
  nothing is read, and the last mail stays what it is, so that nothing is read ever after. That is
  what `GmailReadsNews` says of such a mailbox. On a page that lists nothing the code returns
  before.
* `VkApi` takes the number of an answer before it parses the updates (`vkapi.cpp:100`). An
  exception from one of them loses all: the second alternative of `PollVk`.
* vmime throws more than what `SmtpMessageCommunication` knows; out of the `noexcept` `send`
  that ends the program, in `SmtpSent` with the network up or down.
* A reader begins at the newest mail. What came while the connection was down is never
  read; `ReadsEachOnce` and `EventuallyRead` speak of mails that came after `since`.
* With an INBOX that is empty at the connect `ImapReciever` begins at 1 (`imapreciever.cpp:74`),
  which is also the number of the first mail that comes. Alone it is never noticed; with a
  later one it is fetched and dropped as the one that is known (`:94`). `TakenForKnown` counts that
  mail as known: it is lost, and the two properties hold for all others.

### PluginSupport, Storages, Settings

`PluginSupport` says which plugins a directory gives (`DiscoverPlugins`), what a widget makes of its
fields (`FillSmtp`, `FillGmail`, `FillVk`) and which addresses a plugin takes. `Storages` is one
record, `world`: the storages of connections, contacts and discovered contacts, `mRemote`, and the
rows of the models as bags. Dialogs and their ciphers are not in it: how they are stored and
removed beside each other is `KeyExchange`'s matter.
An operation stores first and then tells the listeners in the order in which they are registered;
`CryptoSystemImpl` is the first, and throws when a key cannot be read. The storage
library (`prsst`) is a submodule that is not in the repository: it is modelled from its use.

| code | actions of `Settings` |
|---|---|
| `main`, `CoreInitializer`, `loadKeys` | `Launch`: with the plugins that are there this time |
| `PublicKeyDialog::generateKey` | `GenerateKeys` |
| `MainWindow::closeEvent`, `FileAsyncKeySerializer` | `SavePublicKey`, `SavePrivateKey`, `Crash` between and inside them |
| `BaseSettingsDialog` with `ContactWidget` | `UseContactDialog`, `SaveContact`, `SaveContactFails`, `DeleteContact` |
| the same with `ConnectionInfoWidget` | `UseConnectionDialog`, `SaveNewConnection`, `SaveHeldConnection`, `SaveWithoutPlugin`, `SaveConnectionFails`, `DeleteConnection` |
| `DiscoverContactAgent::handle` | `Discover` |
| `RecievedContactsMenu`, `ImportDiscoveredContactDialog` | `ShowReceived`, `RemoveReceived`, `Import`, `CloseImport` |

* A click is one step. Discoveries come from receive threads between any two.
* A window keeps its state and the element the widget holds, `covered`; the first
  successful `getElement()` gives it away, so that a second save makes a new element. For a
  contact that is one with a new id, whose update is lost. For a connection it is one with the name
  that stands in the field, which can be edited then: the save overwrites whatever connection has
  that name, plugin included (`connectioninfowidget.cpp:161`). `OnlyAskedChanges` therefore demands
  the selected connection only while the window holds an element, and of a save after that
  that it changes one connection and no other.
* A connection whose plugin is gone is restored without parameters. Saving it reads a null
  pointer (`connectionmarshaller.cpp:41`): `SaveWithoutPlugin` ends the program.
* After a start the crypto system knows none of the stored contacts: `CryptoFollowsStorage`
  demands a key only of contacts that were saved since.

Noted while modelling and not the subject of a property: the window of a connection selects
the type one before the one it has, as item 0 of the list is the empty one
(`connectioninfowidget.cpp:128`); the lists of connections keep
the address validator of the plugin a connection had when it was added
(`channelslistmodel.cpp:80`); lists of listeners are walked without a mutex (`eventwatchers.h:72-87`);
without a schema a plugin of any version is loaded (`plugindiscovery.cpp:60`); keys that cannot
be read are replaced in silence (`coreinitializer.cpp:48`).


## 3. The runs

Every configuration says `CHECK_DEADLOCK FALSE`: a node whose user has used up its
commands, or whose process has ended, may stop.

| run | what it checks | what it shows |
|---|---|---|
| `node_history` | `TypeOK`, `FreshSnapshotsFit`, `HandlerGuardsOwnMessage`, `StatusFollowsMachine`, `CountersNeverFall`, `SendsOnlyWhatStatusAllows` | with free interleaving, every fault, restart and message, only out of date snapshots break the machine, the counters and the sends, and only the three named accidents let a handler watch a foreign message |
| `node_reliable` | `FirstRequestResolves`, `ImplementsSerial` | with sends that succeed and one operation at a time, a first request is always resolved, and every operation is one step of `SerialDialogs` |
| `node_overlap` | `OperationsFinish`, `PendingResolved` | with free interleaving and the program started again at any moment, no operation is stuck and the repository empties |
| `repo` | `TypeOK`, `Tracks`, `NeverEarly`, `EachResolved`, `ThreadEnds` | the repository implements `DeliveryTracking` with two callers, callbacks that throw and a clock that is set; until it is set nothing expires early; all is resolved, the thread ends |
| `chan_safe` | `TypeOK`, `UsesOpenChannel`, `OneInAdapter`, `ThreadLivesWithChannel`, `OnlyRemovalDeadlocks` | two channels are added, changed and removed under traffic; who waits in a circle waits for `removeChannel` |
| `chan_live` | `ListenerReturns`, `SendsReturn` | when connections are only added, nobody is stuck |
| `view` | `TypeOK`, `RowsFollowMessages`, `TextStoredWhereSent`, `ActiveFollowsSelection`, `NothingMissed` | three dialogs are selected, closed, removed and written to from three threads |
| `plugins` | `TypeOK`, `ReadsEachOnce`, `SignedTextSurvives`, `GmailReadsNews`, `EventuallyRead` | under a network that comes and goes, a mailbox that others empty and answers that are lost, each mail is handed over once and in order, but for the first into an empty INBOX; what is signed survives the way; GmailApi pages correctly or, without its last mail, reads nothing; what can be read is read |
| `settings` | `TypeOK`, `RowsFollowStorage`, `CryptoFollowsStorage`, `OnlyAskedChanges`, `KeysSurvive` | storages, models and keys of contacts stay together over every click, cascade, start and crash; an element goes or changes only when that was asked for; keys survive a regular end |
| `keys` | `TypeOK`, `VerificationHolds` | a proof that was accepted means one key on both sides, and texts are read as written, while dialogs, contacts and RSA pairs change between any two steps, programs restart and messages arrive again; the one exception is an opener that lost its key and took the wrong one |

The remaining runs each show a disagreement between the code and what its
documents or tests say:

1. `node_verify_key_ack`: the confirmation of `VERIFY_KEY` moves a dialog from
   `CREATE_REQUEST` to `WAIT_KEY_VERIFICAION`, which the state machine refuses.
   `setStatus` throws inside the `noexcept` `dispatch`: the process ends. The regression
   test expects `WAIT_KEY_VERIFICAION`.
2. `node_text_twice`: a text is checked against a copy of the dialog whose new number is
   not saved, so a repeated text is shown again.

Other variations were tried while modelling and fail, so a reader should not expect them
to hold:

| property | fails with | because |
|---|---|---|
| `CountersNeverFall`, `StatusFollowsMachine`, `SendsOnlyWhatStatusAllows` without `StaleStep` | `Overlap = TRUE` | a snapshot is saved over what another thread saved meanwhile; for instance a confirmation handled between the send and the save of `sendRequest` is undone, the dialog is `NEW` again |
| `FirstRequestResolves` | `Faults = {"channel"}` | a request without a channel is dropped silently |
| `HandlerGuardsOwnMessage` without `Unsent` | `Faults = {"send"}` | a send that throws leaves its handler, and the number is given to the next message |
| the same without `Shared` | `Overlap = TRUE` | the peer's answer is handled between the send and the save of the request: the message it leads to takes the same number |
| the same without `Forgotten` | `Faults = {"restart"}` | the program ends between the send and the save of a message: after the start its number is given out again, and a late confirmation of the old message resolves the handler of the new one |
| `ImplementsSerial` | `Faults = {"send"}`, `{"restart"}` or `Overlap = TRUE` | the same three: a number is given out that was sent already, or a snapshot is saved over what came in between (a lost channel does no harm) |
| `NeverEarly` without `clockSets = 0` | `ClockSteps = 1` | `system_clock` decides about the age of a handler |
| `ListenerReturns` | `"remove"` in `GuiTasks` | `removeChannel` joins the receive thread under the exclusive lock that thread may be waiting for |
| "nobody waits in a circle" | `"remove"` in `GuiTasks`, or `WriterFirst = TRUE` | the two lines above and below; therefore the exceptions in `OnlyRemovalDeadlocks` |
| `ListenerReturns` | `WriterFirst = TRUE` | a waiting `add` keeps the second `lock_shared` of a handler out |
| `VerificationHolds` without `misled` | `keys.cfg` | see `KeyExchange` |
| `ReadsEachOnce`, `EventuallyRead` with `GetLastMessageUid` for `TakenForKnown` | `plugins.cfg` | the first mail into an empty INBOX is lost |
| `OnlyAskedChanges` with the selected connection also after a save | two connection names | the name typed after the save may be that of another connection |

### Bounds

* One dialog in the node runs. Dialogs share nothing but the threads and the
  repository, whose keys carry the dialog; two dialogs only add the same
  interleavings. (`FirstRequestResolves` needs the single dialog for another reason
  too: `FairSpec` promises that the repository thread resolves *some* handler.)
* `MaxSeq`, `MaxPeerSeq`: two or three numbers on each side are enough for a request, a
  repetition, an older one and a newer one. `MaxSeq` bounds the user's commands;
  answers may go above it, `UlongMax` is above both.
* `Timeouts`, `MaxTime`, `ClockSteps`: periods of 1 and 2 with a clock that runs to 2, so that
  elements expire in either order and while another callback runs; the clock is set
  once, back or ahead.
* Three handlers, two under one key: a refusal, and a second element in the loop.
* Channels: two connections, three tasks of the user, one operation of each other
  thread at a time. One operation covers every lock a thread takes; the receive
  threads' own steps (connect, receive, loop) are not bounded.
* `DialogView`: three dialogs, so that one stays when another is removed and a third is
  selected, and six things that start in the user's, the peer's or the timer's
  name. What follows from them (queues, sends, removals) is not bounded. An overtaken
  selection needs four, a text missed by it five.
* `Plugins`: three mails, one connection of each plugin, in turn. A range of mails has a first, a middle
  and a last one; pages hold one or two mails (20 in the code), so that the last mail that was
  read stands inside a page, at its border, on a later one, or, deleted or filtered out, on none.
  Of the two messages one has
  a blank line at its end, the other a line that equals the delimiter and a signature of two lines.
* `Settings`: two names of connections, one id of a contact, one discovery, two RSA pairs;
  Gmail and VK in the directory, Gmail of another version at some starts. Two connections are the
  least with which the wrong one can change; names and pairs are interchangeable, hence the symmetry
  (the run has no liveness property). The theorem covers any number of contacts.
* `KeyExchange`: two symmetric keys, two RSA pairs for each program, numbers of the opener to 3 and
  first numbers of the acceptor 0 or 2: a handshake, a second one that disturbs it, with a smaller
  or a greater number, and a text; any number of removals and restarts. Only the opener makes
  a new pair: the acceptor's would be noticed by signatures alone. The theorem covers the rest.
* `DialogHistory`: two numbers on our side and one of the peer beside 0 are enough for every
  pair of operations to meet; all faults at once.

### Fairness

* `WF(ThreadStep(t))`, `WF(CallerStep)`, `WF(TimerStep)`, `WF(GuiStep)`, `WF(CycleStep(n))`: a
  thread that can go on does. For the receive cycle this means that `receive()` and
  `connect()` of an adapter come back, as `abstractchanneladapter.h` demands. (The
  UDP adapter's `receive` blocks until a datagram arrives.)
* `WF(CheckInThread)`: the repository thread looks every 120 ms, for the life of the
  repository. Nothing is assumed of the user or the peer.
* `WF(Tick)`: time passes.
* `WF(ReceiveStep)` in `Plugins`: the receive thread of a connection goes on. Of the
  network nothing is assumed: a mail is read unless the network, the mailbox or the program
  prevents it.
* `SF(SendStep(t))`: a sender competes with the receive thread for the mutex of the
  channel. `std::mutex` is not fair, but the receive thread gives the mutex up in every
  round and spends most of its time in `receive()` or asleep without it, so that a waiting
  sender gets it. Weak fairness would allow a schedule in which the sender only ever
  looks while the mutex is taken. The reconnect loop has no pause; on a real
  machine this is where a sender waits longest.


## 4. Proofs

All theorems hold for every value of the constants that satisfies the named assumption of the
module (`NodeAssumption`, `RepositoryAssumption`, `ChannelsAssumption`, `KeyExchangeAssumption`,
`ViewAssumption`, `SettingsAssumption`, `PluginsAssumption`): any number of dialogs, handlers,
threads, channels, contacts, messages and mails, any bound. Every invariant and every action
property that a run expects to hold, but for `ImplementsSerial`, is a theorem, and none assumes more of the constants than that.

**DialogNodeProofs.** `TypeCorrect` is inductive with the record types of `ThreadStates`.

**DialogHistoryProofs.** Everything here is about `HistorySpec` with free interleaving, failing
sends, lost channels and restarts; no theorem assumes anything of `Overlap` or `Faults`. The
many actions of the node are sorted first: each is of one of a few kinds (`Reads`, `Sends`, `GoesOn`,
`Stores`, `Creates`, `Removes`, `Rests`; lemmas `SaveKinds` to `ResolveKinds`), and the invariants are
proved kind by kind. `HistoryInv` is `TypeOK`, `FreshSnapshotsFit`, and three more:

* `Openers`: who opened a dialog bounds its statuses and what is sent for it. A dialog of the peer
  sends one watched message, `VERIFY_KEY`, whose number is never saved; that is why this number
  does no harm.
* `Lone(d)`: in a dialog that is not doubtful at most one thread holds a snapshot.
* `Numbered(d)`: in such a dialog the number a thread is about to give out is above all that
  were given out, what was given out is stored or about to be, and no two watched messages
  share a number.

A snapshot fits when it is taken (`MoverFits`); another thread that changes what is stored makes it
stale by definition, so it fits until it is used. `StatusesFollow`, `CountersGrow` and
`SendsFitStatus` are no invariants: they hold of each step because the snapshot fitted before it, or
was stale. `HandlersGuardOwn` follows from `Numbered` and `Openers`.

**TimeoutedRepositoryProofs.** The invariant is `TypeOK`, `MapInv` (keys in the map are unique,
elements in it have no callback but the current one), `CallbackInv` (the current element is in
the map, has been called once, and its caller holds the mutex) and `MutexInv` (who holds the
mutex and where). From it follow `RepositoryOneWatchedPerKey`, the step simulation behind
`RepositoryTracks`, and `RepositoryOutcomeFinal`. `RepositoryNeverEarly` speaks of the time
until the clock is first set and needs that the two clocks agree and the time the thread read is
not in the future.

**ChannelsProofs.** The invariant adds to `TypeOK`: a thread's place names the channel it works
on (`ChanInv`), a thread that sends holds the mutex shared (`SharedInv`), a thread inside an
adapter holds the mutex of its channel (`AdapterInv`), and the channel the user's thread waits
for is not open (`GuiInv`). `ChannelUsedOpen` is the heart of it: a channel is only closed when
no thread holds the mutex shared, and a thread that sends does.

`DeadlocksNeedRemoval` needs a second invariant, `LockInv`: the user's thread holds the mutex
exclusively only while it joins, and never shared (`WriterInv`); the timer never stores a
handler (`TimerInv`); who holds the mutex of a channel is in its adapter (`HolderInv`, the
converse of `AdapterInv`). Then who waits for a channel's mutex waits for a thread that waits for
nobody; who waits for the repository's waits for the timer, which waits for a channel or for the
despatcher's; and from that one only the user's thread keeps a reader. The circle that the
opposite orders of repository and despatcher in `sendMessage` and `checkInThread` suggest needs a
writer, so it is one of the exceptions (lemma `Circles`).

**KeyExchangeProofs.** `VerificationIsSound` assumes neither that a cipher has its dialog nor
anything of the numbers dialogs begin with. The invariant follows the keys that were offered
(`OffersInv`), the key the acceptor has, which is the last it kept (`AcceptorInv`), the one the opener
has (`OpenerInv`), the numbers of what the opener sent (`NumbersInv`), and what an accepted proof
says: one that was made with the key that is kept was heard (`VerifiedInv`). The heart is `LedInv`,
of an opener that was not misled: it has its newest key; its proofs and texts go from a key to newer
ones only; and its newest key is one the acceptor kept, or the only one it ever used. `importKey`
keeps the key that is there, so the opener changes its key only after it lost one, and then
either to a newer one that was kept or as one that is misled. `KeyExchangeTypeCorrect` is about
the types alone.

**DialogViewProofs.** `IInv` is `TypeOK`, `UiInv(ui)`, `SendingInv` and `KnownInv`. `UiInv` says
of the four objects and the two queues together: the rows are the texts of the viewed dialog, a
text is under the dialog it was made for, the selected dialog is the active one or the last that
is still queued for the work thread unless it was overtaken, each dialog is listed once, and a
text is in the rows that were shown or counted as unread. `SendingInv`: from reading the active
dialog to storing the text the work thread does nothing else, and nobody but the work thread
changes the active dialog. `KnownInv`: what the list shows is stored, and a dialog nobody has
opened yet has no text and is in no queue. The state is one record that methods transform one
after another, so there is a pair of lemmas for each method, that it keeps `Sound` and what it
leaves alone (`Frame`), and a step is a chain of them.

**SettingsProofs.** The invariant is `Database` (a contact refers to a connection
that is stored; it holds with the program off as well), `ModelsOf` and `CryptoOf` (rows
and keys of contacts follow the storages while the program runs), `WindowsInv` (a window that holds an
element holds the selected one) and `KeysInv` (between the two writes of `closeEvent` the public
file is the key in memory, after a regular end both are). There is a lemma for each cascade of
the storages. `OnlyWhatWasAsked` is an action property: with `WindowsInv`, what a step changes
besides the selected element follows from the cascade; of the save of a connection that the window
no longer holds it only promises that one connection changes.

**PluginsProofs.** `ReadsInv` is the invariant behind `ReaderReadsOnce`: of which kind a
connection and its mails are (`KindInv`); what was read is in ascending order, and a mail above
`last` is above all that was read (`OrderInv`), although `last` may fall when the newest mail is
deleted; and while nothing is deleted, forgotten or lost, the reader stands at a mail that is
there, or at 1 before the first one came (`CalmInv`, `Waits`).
`SignaturesSurvive` rests on `CopiedInv` and on two facts about texts. `MarshalledIsRead`: a
message that was written and is read again has its signature, and is checked against what was
signed unless a line of it is the delimiter; what a freed string leaves has no signature at all
(`FreedIsUnsigned`). `DiscoveryIsRead`: the name and the key of a discovery come back if no
character of the name occurs in the delimiter. `GmailReadsAll`: when the last mail is listed, `load` returns every
listed mail after it, oldest first; when there was none, the newest mails, `InitLoadMessages` of them
and at most a page; when it is not listed, `load` throws, or nothing is listed at all
(`LastMailLost`, `NothingListed`).

Induction over data is out of reach of the installed provers, and three proofs needed it. `Rank`
and `Ascending` number the elements of a finite set without recursion, so the least number of a
set (`LeastNumber`, from the well-foundedness of the naturals) does for them. For the recursion
over pages a closed form is shown to satisfy the equation of `Loaded`, and that no other
function does: the last page on which two such functions differ cannot exist, since beyond the
last page both stop.

Only model-checked is what rests on fairness, that is, everything with `~>` and `<>`:
`FirstRequestResolves`, `OperationsFinish`, `PendingResolved`, `EachResolved`, `ThreadEnds`,
`ListenerReturns`, `SendsReturn`, `EventuallyRead`. Liveness and `ENABLED` are out of the
prover's reach. The refinement
`ImplementsSerial` is model-checked, too: it holds under `Overlap = FALSE` and `Faults = {}` only,
which nothing in the code provides, and a theorem would have to assume it. The two claims that `node_verify_key_ack` and `node_text_twice` refute are of
course not theorems.


## 5. What is not modelled

* Delivery marks of texts; a start with stored dialogs in `DialogView` (a null pointer, see there).
* The primitives of Crypto++ and the formats of key files: ciphertexts are symbolic, a file
  is readable or torn.
* The password of the program and its digest; opening the databases.
* Sending a discovery: it changes nothing in the program that sends it.
* Dialogs of contacts that are gone: `createDialog` and `prepareNotFoundDialog` may store one when the
  contact was deleted meanwhile (`dialogactionhandler.cpp:106`, `:196`), and `closeDialog` and
  `abortDialog` throw for it ever after. `KeyExchange` lets it happen; no property is about it.
* The destruction of the whole despatcher at exit. (A receive thread that holds the
  last reference would destroy its own channel and join itself.)
* The second call of the adapter factory in `connectstoragelistener.cpp:83`, whose result is
  not checked.
* `UdpAdapter`: nothing in the program constructs one. The regression stand of `src/regression`.
* The language and application settings (`translationmaster.cpp`, `appsettingsdialog.cpp`), the status
  of a connection that the models show, delegates, layout.
* Certificates, wording of requests and the browser of the plugins; the ten seconds a communicator
  sleeps.
* A failed verification answers with `abortDialog` where the architecture document speaks of
  closing, and a dialog in `WAIT_CONFIRM` has no timeout: both are in `DialogNode`, no property
  is about them.


## 6. Plan

1. *Done*: `DialogState`, `DialogNode`, `TimeoutedRepository` with `DeliveryTracking`,
   `Channels`, and their proofs; `DialogView`.
2. *Done*: `Storages` and `Settings`; `Wire` with the marshallers and discoveries; `Plugins` with
   `PluginSupport`; two programs and a network in `KeyExchange`.
3. *Done*: proofs of every safety invariant and action property of the runs; the refinement of
   `SerialDialogs`, by TLC; where deadlocks of the channels' locks can come from; what it takes
   to break the dialogs' storage (`DialogHistory`); the keys of dialogs that are removed while
   they are made.
4. That `DialogNode`'s use of the repository implements `DeliveryTracking`: its `pending` and the
   callbacks of the handlers as the abstract watch, with the restart as what the abstraction allows.
5. The delivery marks of texts: a text that was delivered, timed out or failed is marked so in
   its dialog, and the mark is final.
