------------------------------ MODULE Storages ------------------------------
(* What one program knows: the records of its database (connections, their   *)
(* contacts, discovered contacts), what the listeners of the storages keep   *)
(* beside it (the contacts' keys in CryptoSystemImpl, the rows of the Qt     *)
(* models, the plugins that the lists of connections offer addresses for),   *)
(* and the operations on them.  Dialogs and their ciphers are left to        *)
(* KeyExchange.                                                              *)
(*                                                                           *)
(* The storages are a library outside the repository, used like maps whose   *)
(* add() refuses a key that is taken and whose update() and remove() of a    *)
(* key that is not there change nothing.  An operation stores first, then    *)
(* tells its listeners one after another in the thread that called it.       *)
EXTENDS Wire, FiniteSets

CONSTANTS
  GoodKeys        \* the texts that can be read as a public key

\* The world: sets of records, and the rows of models as bags of their keys.
Start ==
  [connections |-> {}, contacts |-> {}, discovered |-> {}, remote |-> {},
   channelNames |-> {},
   connectionRows |-> EmptyBag, contactRows |-> EmptyBag, discoveredRows |-> EmptyBag]

Names(connections) == {k.name : k \in connections}
Ids(records) == {r.id : r \in records}
DialogIds(discovered) == {d.dialog_id : d \in discovered}

With(rows, id) == rows (+) SetToBag({id})
Without(rows, ids) == rows (-) SetToBag(ids)

(***************************************************************************)
(* Contacts.  CryptoSystemImpl is the first listener: it throws when it    *)
(* cannot read the key, and the models after it are not told.              *)
(***************************************************************************)
Refused(c) == c.publicKey \notin GoodKeys

UpdateContact(remote, c) ==
  {r \in remote : r.id # c.id} \union {[id |-> c.id, adress |-> c.adress, key |-> c.publicKey]}

RemoveContact(remote, ids) == {r \in remote : r.id \notin ids}

\* Whoever signed a message is looked for by address.
GetRemoteByAdress(remote, address) == {r \in remote : r.adress = address}

StoreAdded(w, c) ==
  LET stored == [w EXCEPT !.contacts = @ \union {c}]
  IN  IF c.id \in Ids(w.contacts) THEN w
      ELSE IF Refused(c) THEN stored
      ELSE [stored EXCEPT !.remote = UpdateContact(@, c), !.contactRows = With(@, c.id)]

StoreChanged(w, c) ==
  LET stored == [w EXCEPT !.contacts = {o \in @ : o.id # c.id} \union {c}]
  IN  IF c.id \notin Ids(w.contacts) THEN w
      ELSE IF Refused(c) THEN stored
      ELSE [stored EXCEPT !.remote = UpdateContact(@, c)]

(***************************************************************************)
(* A contact goes from the storage, CryptoSystemImpl and the models; a     *)
(* connection takes its contacts with it.                                  *)
(***************************************************************************)
\* Mutant: the keys of a removed contact stay.
RemoveContactsMut(w, ids) ==
  [w EXCEPT !.contacts = {c \in @ : c.id \notin ids}, !.contactRows = Without(@, ids)]

RemoveContacts(w, ids) ==
  [w EXCEPT !.contacts = {c \in @ : c.id \notin ids}, !.remote = RemoveContact(@, ids),
            !.contactRows = Without(@, ids)]

\* Mutant: no cascade from a connection to its contacts.
RemoveConnectionMut(w, n) ==
  [w EXCEPT !.connections = {k \in @ : k.name # n}, !.connectionRows = Without(@, {n}),
            !.channelNames = {c \in @ : c.name # n}]

RemoveConnection(w, n) ==
  RemoveContacts([w EXCEPT !.connections = {k \in @ : k.name # n},
                           !.connectionRows = Without(@, {n}),
                           !.channelNames = {c \in @ : c.name # n}],
                 Ids({c \in w.contacts : c.channelMoniker = n}))

(***************************************************************************)
(* Connections                                                             *)
(***************************************************************************)
\* ChannelsListModel, three of them: a connection and the plugin whose address
\* validator is used for its contacts, "none" if it is not there.
ListItem(k, plugins) ==
  [name |-> k.name, validator |-> IF k.pluginId \in plugins THEN k.pluginId ELSE "none"]

AddConnection(w, k, plugins) ==
  IF k.name \in Names(w.connections) THEN w
  ELSE [w EXCEPT !.connections = @ \union {k}, !.connectionRows = With(@, k.name),
                 !.channelNames = @ \union {ListItem(k, plugins)}]

\* The lists keep the validator they have.
UpdateConnection(w, k) ==
  IF k.name \notin Names(w.connections) THEN w
  ELSE [w EXCEPT !.connections = {o \in @ : o.name # k.name} \union {k}]

(***************************************************************************)
(* Discovered contacts                                                     *)
(***************************************************************************)
AddDiscovered(w, d) ==
  IF d.dialog_id \in DialogIds(w.discovered) THEN w
  ELSE [w EXCEPT !.discovered = @ \union {d}, !.discoveredRows = With(@, d.dialog_id)]

RemoveDiscovered(w, id) ==
  [w EXCEPT !.discovered = {d \in @ : d.dialog_id # id}, !.discoveredRows = Without(@, {id})]

\* RecievedContactsStorageWrapper::saveToContact: what add() throws leaves the
\* contact where it is, and the discovered contact too.
SaveToContact(w, c, id) ==
  LET added == StoreAdded(w, c)
  IN  IF Refused(c) THEN added
      ELSE IF id \notin DialogIds(w.discovered) THEN RemoveContacts(added, {c.id})
      ELSE RemoveDiscovered(added, id)

(***************************************************************************)
(* A start of the program: the models are filled from the storages, but    *)
(* nobody tells CryptoSystemImpl of the contacts that are there.           *)
(***************************************************************************)
Restored(w, plugins) ==
  [w EXCEPT !.contacts = {RestoreContact(StoreContact(c)) : c \in @},
            !.discovered = {RestoreDiscovered(StoreDiscovered(d)) : d \in @},
            !.channelNames = {ListItem(k, plugins) : k \in w.connections},
            !.connectionRows = SetToBag(Names(w.connections)),
            !.contactRows = SetToBag(Ids(w.contacts)),
            !.discoveredRows = SetToBag(DialogIds(w.discovered))]
=============================================================================
