------------------------------ MODULE Settings ------------------------------
(* The windows in which a user edits connections and contacts and imports    *)
(* the contacts that others have sent, over the storages of module Storages; *)
(* the start of the program, its end, and what a crash leaves of the keys.   *)
(*                                                                           *)
(* The windows run in one thread; discoveries come from receive threads,     *)
(* between any two clicks.  Of the fields of a window only what is  *)
(* saved is told: the user may have typed anything before.                   *)
EXTENDS Storages, PluginSupport

CONSTANTS
  Directories,      \* what may be in the directory of plugins at a start
  Forms(_),         \* what a user may type into the widget of a plugin
  ConnectionNames,
  TypedAddresses,   \* what may be typed as the address of a contact
  Senders,          \* addresses that discoveries come from
  Keys,             \* what may be entered as a public key
  Contents,         \* what may be received as the content of a discovery
  DiscoveryIds,     \* dialog ids of discoveries
  ContactIds,       \* bound: contacts at one time
  KeyPairs          \* bound: key pairs generated

None == 0
Torn == 0

\* 0 stands for no element and for a file that cannot be read; the plugins are
\* those of the repository.
ASSUME SettingsAssumption ==
  /\ 0 \notin KeyPairs \union ConnectionNames \union ContactIds \union DiscoveryIds
  /\ \A directory \in Directories : DiscoverPlugins(directory) \subseteq ToSet(PluginIds)

VARIABLES
  app,               \* "new", "up", "saving" (closeEvent), "off", "crashed"
  plugins,           \* the plugins that were found at the start
  keys,              \* AsymetricalKeyStore: which pair the two keys are of
  files,             \* the same of conf/keys.PUB and conf/keys.PRV
  world,             \* storages, CryptoSystemImpl and models
  loaded,            \* history: contacts that were stored at the start
  contactDialog,     \* BaseSettingsDialog with a ContactWidget
  connectionDialog,  \* BaseSettingsDialog with a ConnectionInfoWidget
  import             \* ImportDiscoveredContactDialog::mDialogId

process == << app, plugins, keys, files, loaded >>
windows == << contactDialog, connectionDialog, import >>
vars == << process, world, windows >>

Up == app = "up"

(***************************************************************************)
(* Start and end                                                           *)
(***************************************************************************)
Readable(file) == file # Torn

\* Mutant: a file that cannot be read counts as a key.
LoadKeysMut(new) == files

\* loadKeys: whatever goes wrong, new keys are generated in silence.
LoadKeys(new) ==
  IF Readable(files.pub) /\ Readable(files.prv) THEN files ELSE [pub |-> new, prv |-> new]

Unused == KeyPairs \ {keys.pub, keys.prv, files.pub, files.prv}

Closed == [state |-> "ADD", selected |-> None, covered |-> None]

\* What is in memory ends with the program; keys stay to be compared with.
Forget ==
  /\ world' = [world EXCEPT !.remote = {}, !.channelNames = {},
                            !.connectionRows = EmptyBag, !.contactRows = EmptyBag,
                            !.discoveredRows = EmptyBag]
  /\ contactDialog' = Closed /\ connectionDialog' = Closed /\ import' = None
  /\ plugins' = {} /\ loaded' = {}

\* main: the password (the first one entered is the one that counts), the
\* plugins that can be loaded, databases, keys, windows.
Launch(directory, new) ==
  /\ app \in {"new", "off", "crashed"}
  /\ app' = "up" /\ plugins' = DiscoverPlugins(directory)
  /\ keys' = LoadKeys(new)
  /\ world' = Restored(world, plugins') /\ loaded' = Ids(world.contacts)
  /\ UNCHANGED << files, windows >>

\* PublicKeyDialog::generateKey: nothing is saved before the window is closed.
GenerateKeys(new) ==
  /\ Up /\ keys' = [pub |-> new, prv |-> new]
  /\ UNCHANGED << app, plugins, files, loaded, world, windows >>

\* MainWindow::closeEvent: first the public key, then the private key.
SavePublicKey ==
  /\ Up /\ app' = "saving" /\ files' = [files EXCEPT !.pub = keys.pub]
  /\ UNCHANGED << plugins, keys, loaded, world, windows >>

\* Mutant: the private key is not written.
SavePrivateKeyMut ==
  /\ app = "saving" /\ app' = "off" /\ Forget
  /\ UNCHANGED << keys, files >>

SavePrivateKey ==
  /\ app = "saving" /\ app' = "off" /\ files' = [files EXCEPT !.prv = keys.prv] /\ Forget
  /\ UNCHANGED keys

\* A file that is being written is empty or cut.
Crash ==
  /\ app \in {"up", "saving"} /\ app' = "crashed" /\ Forget
  /\ \/ UNCHANGED files
     \/ app = "saving" /\ \E file \in {"pub", "prv"} : files' = [files EXCEPT ![file] = Torn]
  /\ UNCHANGED keys

(***************************************************************************)
(* BaseSettingsDialog: covered is the element the widget holds.  The       *)
(* buttons for change and delete are shown in VIEW, save and cancel in     *)
(* the other states.                                                       *)
(***************************************************************************)
\* Mutant: the widget keeps the element it holds.
ViewAtMut(d, id, stored) ==
  [state |-> "VIEW", selected |-> id, covered |-> IF d.covered = None THEN id ELSE d.covered]

ViewAt(d, id, stored) ==
  [state |-> "VIEW", selected |-> id, covered |-> IF id \in stored THEN id ELSE d.covered]

Change(d) == [d EXCEPT !.state = "CHANGE"]
Cleared(d) == [d EXCEPT !.state = "ADD", !.covered = None]

Cancelled(d, stored) ==
  CASE d.state = "ADD" -> Cleared(d)
    [] d.state = "CHANGE" -> ViewAt(d, d.selected, stored)

\* The state after a click on save, whether or not anything was saved.
AfterSave(d) == IF d.state = "CHANGE" THEN [d EXCEPT !.state = "VIEW"] ELSE d

\* The element leaves the widget with the first successful getElement().
Taken(d) == [AfterSave(d) EXCEPT !.covered = None]

Buttons(d, next, rows, stored) ==
  \/ \E id \in DOMAIN rows : next = ViewAt(d, id, stored)
  \/ next = Closed
  \/ d.state = "VIEW" /\ next = Change(d)
  \/ d.state # "VIEW" /\ next = Cancelled(d, stored)

(***************************************************************************)
(* Contacts                                                                *)
(***************************************************************************)
UseContactDialog ==
  /\ Up
  /\ Buttons(contactDialog, contactDialog', world.contactRows, Ids(world.contacts))
  /\ UNCHANGED << process, world, connectionDialog, import >>

DeleteContact(sure) ==
  /\ Up /\ contactDialog.state = "VIEW"
  /\ contactDialog' = Cleared(contactDialog)
  /\ world' = IF sure THEN RemoveContacts(world, {contactDialog.selected}) ELSE world
  /\ UNCHANGED << process, connectionDialog, import >>

\* An id is made for an element that the widget does not hold.
NewIds == ContactIds \ (Ids(world.contacts) \union loaded
                         \union {contactDialog.selected, contactDialog.covered})

\* The connections that ChannelsListModel has an address validator for.
Usable == {k \in world.channelNames : k.validator # "none"}

\* getElement: all fields are there, the address is checked and stripped.
Entered(id) ==
  UNION {[channelMoniker : {k.name}, name : {"name"}, id : {id}, publicKey : Keys,
          adress : {PeelAddress(k.validator, a) :
                      a \in {b \in TypedAddresses : AddressIsValid(k.validator, b)}}]
         : k \in Usable}

\* A field is empty, the address is not one of the plugin.
SaveContactFails ==
  /\ Up /\ contactDialog.state # "VIEW"
  /\ contactDialog' = AfterSave(contactDialog)
  /\ UNCHANGED << process, world, connectionDialog, import >>

SaveContact ==
  /\ Up /\ contactDialog.state # "VIEW"
  /\ \E id \in IF contactDialog.covered = None THEN NewIds ELSE {contactDialog.covered} :
       \E c \in Entered(id) :
         world' = IF contactDialog.state = "ADD" THEN StoreAdded(world, c)
                                                  ELSE StoreChanged(world, c)
  /\ contactDialog' = Taken(contactDialog)
  /\ UNCHANGED << process, connectionDialog, import >>

(***************************************************************************)
(* Connections                                                             *)
(***************************************************************************)
Widgets == ToSet(InOrder(plugins))

Infos(p) == {Fill(p, form) : form \in Forms(p)} \ {Refusal}

Holder(n) ==
  RestoreConnection(CHOOSE k \in world.connections : k.name = n, plugins)

UseConnectionDialog ==
  /\ Up
  /\ Buttons(connectionDialog, connectionDialog', world.connectionRows, Names(world.connections))
  /\ UNCHANGED << process, world, contactDialog, import >>

DeleteConnection(sure) ==
  /\ Up /\ connectionDialog.state = "VIEW"
  /\ connectionDialog' = Cleared(connectionDialog)
  /\ world' = IF sure THEN RemoveConnection(world, connectionDialog.selected) ELSE world
  /\ UNCHANGED << process, contactDialog, import >>

\* No type is chosen, which is also what the window shows after the connection
\* of the first plugin was viewed; or the widget of the plugin refuses a field.
SaveConnectionFails ==
  /\ Up /\ connectionDialog.state # "VIEW"
  /\ connectionDialog' = AfterSave(connectionDialog)
  /\ UNCHANGED << process, world, contactDialog, import >>

\* The widget holds nothing: a connection is made of the fields.
SaveNewConnection ==
  /\ Up /\ connectionDialog.state # "VIEW" /\ connectionDialog.covered = None
  /\ \E n \in ConnectionNames, p \in Widgets : \E info \in Infos(p) :
       LET k == StoreConnection([name |-> n, plugin |-> p, info |-> info])
       IN  world' = IF connectionDialog.state = "ADD" THEN AddConnection(world, k, plugins)
                                                       ELSE UpdateConnection(world, k)
  /\ connectionDialog' = Taken(connectionDialog)
  /\ UNCHANGED << process, contactDialog, import >>

\* The widget of the type that is chosen fills the connection that is held; a
\* connection of another plugin stays what it was.
SaveHeldConnection ==
  LET n == connectionDialog.covered
  IN  /\ Up /\ connectionDialog.state = "CHANGE" /\ n # None
      /\ n \in Names(world.connections) /\ Holder(n).plugin # "none"
      /\ \E p \in Widgets : \E info \in Infos(p) :
           world' = IF p = Holder(n).plugin
                    THEN UpdateConnection(world, StoreConnection([Holder(n) EXCEPT !.info = info]))
                    ELSE world
      /\ connectionDialog' = Taken(connectionDialog)
      /\ UNCHANGED << process, contactDialog, import >>

\* ConnectionMarshaller reads the parameters of a connection without a plugin.
SaveWithoutPlugin ==
  LET n == connectionDialog.covered
  IN  /\ Up /\ connectionDialog.state = "CHANGE" /\ n # None /\ Widgets # {}
      /\ n \in Names(world.connections) /\ Holder(n).plugin = "none"
      /\ app' = "crashed" /\ Forget /\ UNCHANGED << keys, files >>

(***************************************************************************)
(* Contacts that others have sent                                          *)
(***************************************************************************)
\* A CONTACT_DISCOVER from an address that CryptoSystemImpl does not know.  A
\* content without delimiter throws where nothing may be thrown.
Connected == {k.name : k \in {o \in world.connections : o.pluginId \in plugins}}

Discover(n, address, content, id) ==
  LET read == GetNameAndPublickKey(content)
  IN  /\ Up /\ GetRemoteByAdress(world.remote, address) = {}
      /\ IF read.thrown THEN app' = "crashed" /\ Forget
         ELSE /\ world' = AddDiscovered(world,
                   [created |-> "now", channel_moniker |-> n, contact_adress |-> address,
                    public_key |-> read.key, name |-> read.name, dialog_id |-> id])
              /\ UNCHANGED << app, plugins, loaded, windows >>
      /\ UNCHANGED << keys, files >>

\* RecievedContactsMenu: view, or remove.
ShowReceived(id) ==
  /\ Up /\ id \in DOMAIN world.discoveredRows /\ import' = id
  /\ UNCHANGED << process, world, contactDialog, connectionDialog >>

RemoveReceived(id) ==
  /\ Up /\ id \in DOMAIN world.discoveredRows
  /\ world' = RemoveDiscovered(world, id)
  /\ UNCHANGED << process, windows >>

CloseImport ==
  /\ Up /\ import' = None
  /\ UNCHANGED << process, world, contactDialog, connectionDialog >>

\* The result of saveToContact is not looked at.
Import ==
  /\ Up /\ import # None
  /\ \E id \in NewIds : \E c \in Entered(id) :
       /\ world' = SaveToContact(world, c, import)
       /\ import' = IF Refused(c) THEN import ELSE None
  /\ UNCHANGED << process, contactDialog, connectionDialog >>

(***************************************************************************)
Init ==
  /\ app = "new" /\ plugins = {} /\ world = Start /\ loaded = {}
  /\ keys = [pub |-> Torn, prv |-> Torn] /\ files = keys
  /\ contactDialog = Closed /\ connectionDialog = Closed /\ import = None

Next ==
  \/ \E directory \in Directories, new \in Unused : Launch(directory, new)
  \/ \E new \in Unused : GenerateKeys(new)
  \/ SavePublicKey \/ SavePrivateKey \/ Crash
  \/ UseContactDialog \/ SaveContact \/ SaveContactFails
  \/ \E sure \in BOOLEAN : DeleteContact(sure) \/ DeleteConnection(sure)
  \/ UseConnectionDialog \/ SaveConnectionFails
  \/ SaveNewConnection \/ SaveHeldConnection \/ SaveWithoutPlugin
  \/ \E n \in Connected, address \in Senders, content \in Contents, id \in DiscoveryIds :
       Discover(n, address, content, id)
  \/ \E id \in DiscoveryIds : ShowReceived(id) \/ RemoveReceived(id)
  \/ CloseImport \/ Import

Spec == Init /\ [][Next]_vars

(***************************************************************************)
(* Properties                                                              *)
(***************************************************************************)
DialogType(ids) ==
  [state : {"ADD", "CHANGE", "VIEW"}, selected : ids \union {None}, covered : ids \union {None}]

\* Every part of the program keeps its type: key files may be torn, the keys of
\* a running program never are.
TypeOK ==
  /\ app \in {"new", "up", "saving", "off", "crashed"}
  /\ plugins \subseteq ToSet(PluginIds)
  /\ files \in [pub : KeyPairs \union {Torn}, prv : KeyPairs \union {Torn}]
  /\ app # "new" => keys \in [pub : KeyPairs, prv : KeyPairs]
  /\ Names(world.connections) \subseteq ConnectionNames
  /\ Ids(world.contacts) \subseteq ContactIds /\ loaded \subseteq ContactIds
  /\ DialogIds(world.discovered) \subseteq DiscoveryIds
  /\ contactDialog \in DialogType(ContactIds)
  /\ connectionDialog \in DialogType(ConnectionNames)
  /\ import \in DiscoveryIds \union {None}

\* No contact is without its connection, one element has one key; and the models
\* list what the storages hold, but for contacts with unreadable keys.
RowsFollowStorage ==
  Up =>
    /\ \A c \in world.contacts : c.channelMoniker \in Names(world.connections)
    /\ \A c, d \in world.contacts : c.id = d.id => c = d
    /\ world.connectionRows = SetToBag(Names(world.connections))
    /\ world.discoveredRows = SetToBag(DialogIds(world.discovered))
    /\ world.contactRows \sqsubseteq SetToBag(Ids(world.contacts))
    /\ \A c \in world.contacts : c.id \in DOMAIN world.contactRows \/ Refused(c)
    /\ Names(world.channelNames) = Names(world.connections)

\* CryptoSystemImpl has no key of anybody who was removed, and of the others what
\* was saved last, unless it could not be read; of contacts that nobody has saved
\* since the start it has nothing.
CryptoFollowsStorage ==
  Up =>
    /\ \A r \in world.remote :
         \E c \in world.contacts :
           c.id = r.id /\ (Refused(c) \/ (c.adress = r.adress /\ c.publicKey = r.key))
    /\ \A c \in world.contacts :
         Refused(c) \/ c.id \in loaded \union Ids(world.remote)

ContactsAsAsked ==
  \A c \in world.contacts \ world'.contacts :
    IF c.id \in Ids(world'.contacts)
      THEN contactDialog.state = "CHANGE" /\ contactDialog.selected = c.id
      ELSE \/ contactDialog.state = "VIEW" /\ contactDialog.selected = c.id
           \/ c.channelMoniker \notin Names(world'.connections)

\* Once saved, an element has left the window, and a second change is written
\* over the connection whose name the user types, which may be any one.
ConnectionsAsAsked ==
  \A k \in world.connections \ world'.connections :
    IF k.name \in Names(world'.connections)
      THEN /\ connectionDialog.state = "CHANGE"
           /\ \A o \in world.connections : o = k \/ o \in world'.connections
           /\ connectionDialog.covered # None =>
                /\ connectionDialog.selected = k.name
                /\ \E new \in world'.connections : new.name = k.name /\ new.pluginId = k.pluginId
      ELSE connectionDialog.state = "VIEW" /\ connectionDialog.selected = k.name

DiscoveredAsAsked ==
  \A d \in world.discovered \ world'.discovered :
    \/ world'.contacts = world.contacts
    \/ d.dialog_id = import /\ Cardinality(world'.contacts \ world.contacts) = 1

\* A contact changes only while it is the one selected for change, and goes only
\* when it is selected or its connection goes.  A connection goes only when it is
\* selected; it changes alone, and while the window holds an element it is the
\* one selected for change and keeps its plugin.  While the window holds none,
\* after a save, nothing is promised of which connection a change is written to.
\* A discovered contact goes when it is removed or becomes exactly one contact.
OnlyAskedChanges == [][ContactsAsAsked /\ ConnectionsAsAsked /\ DiscoveredAsAsked]_vars

\* The keys of the program are those of the program before, when that one was
\* closed and not broken off.
KeysSurvive == [][app = "off" /\ app' = "up" => keys' = keys]_vars
=============================================================================
