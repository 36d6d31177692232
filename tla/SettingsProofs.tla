--------------------------- MODULE SettingsProofs ---------------------------
(* The windows, the storages and their listeners agree, for any connections, *)
(* contacts, discoveries, plugins and keys: what a listener keeps            *)
(* follows what is stored, and an element changes only when it was asked to. *)
(*                                                                           *)
(* Each operation on the storages has a lemma: the world stays sound, and    *)
(* what happens to the elements that the operation is not about.  The lemmas *)
(* about the clicks put them together with the states of the windows.        *)
EXTENDS Settings, FiniteSetTheorems, TLAPS

(***************************************************************************)
(* The invariant                                                           *)
(***************************************************************************)
WorldFields ==
  {"connections", "contacts", "discovered", "remote",
   "channelNames", "connectionRows", "contactRows", "discoveredRows"}

\* The database: one element of a key, and nothing without what it refers to.
ConnectionsOf(w) ==
  /\ Names(w.connections) \subseteq ConnectionNames
  /\ \A k, j \in w.connections : k.name = j.name => k = j

ContactsOf(w) ==
  /\ Ids(w.contacts) \subseteq ContactIds
  /\ \A c, d \in w.contacts : c.id = d.id => c = d
  /\ \A c \in w.contacts : c.channelMoniker \in Names(w.connections)

\* A record is what its marshaller makes of it.
LastingOf(w) ==
  /\ \A c \in w.contacts : RestoreContact(StoreContact(c)) = c
  /\ \A d \in w.discovered : RestoreDiscovered(StoreDiscovered(d)) = d

Database(w) ==
  /\ DOMAIN w = WorldFields
  /\ ConnectionsOf(w) /\ ContactsOf(w) /\ LastingOf(w)
  /\ DialogIds(w.discovered) \subseteq DiscoveryIds

\* The rows of a model are different.
ModelsOf(w) ==
  /\ w.connectionRows = SetToBag(Names(w.connections))
  /\ w.discoveredRows = SetToBag(DialogIds(w.discovered))
  /\ w.contactRows = SetToBag(DOMAIN w.contactRows)
  /\ DOMAIN w.contactRows \subseteq Ids(w.contacts)
  /\ \A c \in w.contacts : c.id \in DOMAIN w.contactRows \/ Refused(c)
  /\ Names(w.channelNames) = Names(w.connections)

CryptoOf(w, old) ==
  /\ \A r \in w.remote :
       \E c \in w.contacts :
         c.id = r.id /\ (Refused(c) \/ (c.adress = r.adress /\ c.publicKey = r.key))
  /\ \A c \in w.contacts : Refused(c) \/ c.id \in old \union Ids(w.remote)

Sound(w, old) == Database(w) /\ ModelsOf(w) /\ CryptoOf(w, old)

\* A window holds nothing, or the element that is selected, which is a row of
\* its list as long as it is stored.
Holding(d) == d.covered \in {None, d.selected} /\ (d.state = "ADD" => d.covered = None)
WindowsInv ==
  /\ contactDialog \in DialogType(ContactIds) /\ Holding(contactDialog)
  /\ connectionDialog \in DialogType(ConnectionNames) /\ Holding(connectionDialog)
  /\ contactDialog.selected \in Ids(world.contacts) =>
       contactDialog.selected \in DOMAIN world.contactRows
  /\ import \in DiscoveryIds \union {None}

\* What is in the files, compared with what is in memory.
KeysInv ==
  /\ files \in [pub : KeyPairs \union {Torn}, prv : KeyPairs \union {Torn}]
  /\ app # "new" => keys \in [pub : KeyPairs, prv : KeyPairs]
  /\ app = "saving" => files.pub = keys.pub
  /\ app = "off" => files = keys

Running == app \in {"up", "saving"}

IInv ==
  /\ app \in {"new", "up", "saving", "off", "crashed"}
  /\ plugins \subseteq ToSet(PluginIds)
  /\ loaded \subseteq ContactIds
  /\ KeysInv /\ WindowsInv
  /\ Database(world)
  /\ IF Running THEN Sound(world, loaded) ELSE world.remote = {}

(***************************************************************************)
(* Rows of models                                                          *)
(***************************************************************************)
LEMMA RowAdded ==
  ASSUME NEW S, NEW x, x \notin S
  PROVE  With(SetToBag(S), x) = SetToBag(S \union {x})
  BY DEF With, SetToBag, (+)

LEMMA RowsRemoved ==
  ASSUME NEW S, NEW xs
  PROVE  Without(SetToBag(S), xs) = SetToBag(S \ xs)
  BY DEF Without, SetToBag, (-)

LEMMA RowsAre ==
  ASSUME NEW S
  PROVE  DOMAIN SetToBag(S) = S
  BY DEF SetToBag

LEMMA FewerRows ==
  ASSUME NEW S, NEW T, S \subseteq T
  PROVE  SetToBag(S) \sqsubseteq SetToBag(T)
  BY DEF SetToBag, \sqsubseteq

(***************************************************************************)
(* Contacts                                                                *)
(***************************************************************************)
\* A contact as getElement returns it.
Proper(w, c) ==
  /\ c.id \in ContactIds /\ c.channelMoniker \in Names(w.connections)
  /\ RestoreContact(StoreContact(c)) = c

LEMMA RemoteIds ==
  ASSUME NEW remote, NEW c
  PROVE  Ids(UpdateContact(remote, c)) = Ids(remote) \union {c.id}
<1> DEFINE new == [id |-> c.id, adress |-> c.adress, key |-> c.publicKey]
<1>1. UpdateContact(remote, c) = {r \in remote : r.id # c.id} \union {new} /\ new.id = c.id
  BY DEF UpdateContact
<1> HIDE DEF new
<1>2. Ids(remote) \union {c.id} \subseteq Ids(UpdateContact(remote, c))
  BY <1>1 DEF Ids
<1>3. Ids(UpdateContact(remote, c)) \subseteq Ids(remote) \union {c.id}
  BY <1>1 DEF Ids
<1> QED BY <1>2, <1>3

LEMMA StoreAddedSound ==
  ASSUME NEW w, NEW old, Sound(w, old), NEW c, Proper(w, c), c.id \notin Ids(w.contacts),
         NEW v, v = StoreAdded(w, c)
  PROVE  /\ Sound(v, old) /\ v.contacts = w.contacts \union {c}
         /\ v.connections = w.connections /\ v.discovered = w.discovered
         /\ DOMAIN w.contactRows \subseteq DOMAIN v.contactRows
<1>0. /\ DOMAIN w = WorldFields /\ c.id \notin DOMAIN w.contactRows
      /\ w.contactRows = SetToBag(DOMAIN w.contactRows)
  BY DEF Sound, Database, ModelsOf
<1>1. /\ v.contacts = w.contacts \union {c} /\ DOMAIN v = WorldFields
      /\ v.connections = w.connections /\ v.discovered = w.discovered
      /\ v.channelNames = w.channelNames
      /\ v.connectionRows = w.connectionRows /\ v.discoveredRows = w.discoveredRows
      /\ Ids(v.contacts) = Ids(w.contacts) \union {c.id}
  BY <1>0 DEF StoreAdded, WorldFields, Ids
<1>2. CASE Refused(c)
  <2>1. v.remote = w.remote /\ v.contactRows = w.contactRows
    BY <1>0, <1>2 DEF StoreAdded, WorldFields
  <2>2. Database(v)
    BY <1>1 DEF Sound, Database, ConnectionsOf, ContactsOf, LastingOf, Proper, Ids
  <2>3. ModelsOf(v)
    BY <1>1, <1>2, <2>1 DEF Sound, ModelsOf
  <2>4. CryptoOf(v, old)
    BY <1>1, <1>2, <2>1 DEF Sound, CryptoOf
  <2> QED BY <1>1, <2>1, <2>2, <2>3, <2>4 DEF Sound
<1>3. CASE ~Refused(c)
  <2>1. v.remote = UpdateContact(w.remote, c) /\ v.contactRows = With(w.contactRows, c.id)
    BY <1>0, <1>3 DEF StoreAdded, WorldFields
  <2>2. Database(v)
    BY <1>1 DEF Sound, Database, ConnectionsOf, ContactsOf, LastingOf, Proper, Ids
  <2>3. v.contactRows = SetToBag(DOMAIN w.contactRows \union {c.id})
        /\ DOMAIN v.contactRows = DOMAIN w.contactRows \union {c.id}
    BY <1>0, <2>1, RowAdded, RowsAre
  <2>4. ModelsOf(v)
    BY <1>1, <2>3 DEF Sound, ModelsOf
  <2>5. CryptoOf(v, old)
    <3>1. \A r \in v.remote :
            \E d \in v.contacts :
              d.id = r.id /\ (Refused(d) \/ (d.adress = r.adress /\ d.publicKey = r.key))
      BY <1>1, <2>1 DEF Sound, CryptoOf, UpdateContact
    <3>2. Ids(v.remote) = Ids(w.remote) \union {c.id}
      BY <2>1, RemoteIds
    <3> QED BY <1>1, <3>1, <3>2 DEF Sound, CryptoOf
  <2> QED BY <1>1, <2>2, <2>3, <2>4, <2>5 DEF Sound
<1> QED BY <1>2, <1>3

\* A contact in the window is a row of the model.
LEMMA StoreChangedSound ==
  ASSUME NEW w, NEW old, Sound(w, old), NEW c, Proper(w, c),
         c.id \in Ids(w.contacts) => c.id \in DOMAIN w.contactRows,
         NEW v, v = StoreChanged(w, c)
  PROVE  /\ Sound(v, old) /\ Ids(v.contacts) = Ids(w.contacts)
         /\ \A d \in w.contacts : d.id # c.id => d \in v.contacts
         /\ v.connections = w.connections /\ v.discovered = w.discovered
         /\ v.contactRows = w.contactRows
<1>1. CASE c.id \notin Ids(w.contacts)
  BY <1>1 DEF StoreChanged
<1>2. CASE c.id \in Ids(w.contacts)
  <2>0. DOMAIN w = WorldFields /\ c.id \in DOMAIN w.contactRows
    BY <1>2 DEF Sound, Database
  <2>1. /\ v.contacts = {o \in w.contacts : o.id # c.id} \union {c} /\ DOMAIN v = WorldFields
        /\ v.connections = w.connections /\ v.discovered = w.discovered
        /\ v.channelNames = w.channelNames
        /\ v.connectionRows = w.connectionRows /\ v.discoveredRows = w.discoveredRows
        /\ v.contactRows = w.contactRows
        /\ v.remote = IF Refused(c) THEN w.remote ELSE UpdateContact(w.remote, c)
    BY <1>2, <2>0 DEF StoreChanged, WorldFields
  <2>2. Ids(v.contacts) = Ids(w.contacts)
    BY <1>2, <2>1 DEF Ids
  <2>3. Database(v)
    BY <2>1, <2>2 DEF Sound, Database, ConnectionsOf, ContactsOf, LastingOf, Proper
  <2>4. ModelsOf(v)
    BY <2>0, <2>1, <2>2 DEF Sound, ModelsOf
  <2>5. CryptoOf(v, old)
    <3>1. ASSUME NEW r \in v.remote
          PROVE  \E d \in v.contacts :
                   d.id = r.id /\ (Refused(d) \/ (d.adress = r.adress /\ d.publicKey = r.key))
      <4>1. CASE r \in w.remote /\ (r.id # c.id \/ Refused(c))
        <5>1. PICK d \in w.contacts :
                d.id = r.id /\ (Refused(d) \/ (d.adress = r.adress /\ d.publicKey = r.key))
          BY <4>1 DEF Sound, CryptoOf
        <5> QED BY <2>1, <4>1, <5>1
      <4>2. CASE r = [id |-> c.id, adress |-> c.adress, key |-> c.publicKey]
        BY <2>1, <4>2
      <4> QED BY <2>1, <4>1, <4>2 DEF UpdateContact
    <3>2. \A d \in v.contacts : Refused(d) \/ d.id \in old \union Ids(v.remote)
      <4>1. Ids(w.remote) \subseteq Ids(v.remote)
            /\ (~Refused(c) => c.id \in Ids(v.remote))
        BY <2>1, RemoteIds
      <4> QED BY <2>1, <4>1 DEF Sound, CryptoOf
    <3> QED BY <2>1, <3>1, <3>2 DEF Sound, CryptoOf
  <2> QED BY <2>1, <2>2, <2>3, <2>4, <2>5 DEF Sound
<1> QED BY <1>1, <1>2

LEMMA RemoveContactsSound ==
  ASSUME NEW w, NEW old, NEW ids, DOMAIN w = WorldFields,
         ConnectionsOf(w), LastingOf(w),
         DialogIds(w.discovered) \subseteq DiscoveryIds, ModelsOf(w), CryptoOf(w, old),
         Ids(w.contacts) \subseteq ContactIds,
         \A c, d \in w.contacts : c.id = d.id => c = d,
         \A c \in w.contacts : c.id \in ids \/ c.channelMoniker \in Names(w.connections),
         NEW v, v = RemoveContacts(w, ids)
  PROVE  /\ Sound(v, old) /\ v.contacts = {c \in w.contacts : c.id \notin ids}
         /\ v.connections = w.connections /\ v.discovered = w.discovered
         /\ DOMAIN v.contactRows = DOMAIN w.contactRows \ ids
<1>1. /\ v.contacts = {c \in w.contacts : c.id \notin ids} /\ DOMAIN v = WorldFields
      /\ v.connections = w.connections /\ v.discovered = w.discovered
      /\ v.channelNames = w.channelNames
      /\ v.connectionRows = w.connectionRows /\ v.discoveredRows = w.discoveredRows
      /\ v.contactRows = Without(w.contactRows, ids)
      /\ v.remote = {r \in w.remote : r.id \notin ids}
  BY DEF RemoveContacts, RemoveContact, WorldFields
<1>2. Ids(v.contacts) = Ids(w.contacts) \ ids
  <2>1. Ids(v.contacts) \subseteq Ids(w.contacts) \ ids
    BY <1>1 DEF Ids
  <2>2. Ids(w.contacts) \ ids \subseteq Ids(v.contacts)
    BY <1>1 DEF Ids
  <2> QED BY <2>1, <2>2
<1>4. ContactsOf(v)
  BY <1>1, <1>2 DEF ContactsOf
<1>6. Database(v)
  BY <1>1, <1>4 DEF Database, ConnectionsOf, LastingOf
<1>7. v.contactRows = SetToBag(DOMAIN w.contactRows \ ids)
      /\ DOMAIN v.contactRows = DOMAIN w.contactRows \ ids
  BY <1>1, RowsRemoved, RowsAre DEF ModelsOf
<1>8. ModelsOf(v)
  BY <1>1, <1>2, <1>7 DEF ModelsOf
<1>9. CryptoOf(v, old)
  <2>1. Ids(w.remote) \ ids \subseteq Ids(v.remote)
    BY <1>1 DEF Ids
  <2> QED BY <1>1, <2>1 DEF CryptoOf
<1> QED BY <1>1, <1>6, <1>7, <1>8, <1>9 DEF Sound

WithoutContacts(w, ids, v) ==
  /\ v.contacts = {c \in w.contacts : c.id \notin ids}
  /\ v.connections = w.connections /\ v.discovered = w.discovered
  /\ DOMAIN v.contactRows = DOMAIN w.contactRows \ ids

LEMMA DeleteSound ==
  ASSUME NEW w, NEW old, NEW ids, Sound(w, old), NEW v, v = RemoveContacts(w, ids)
  PROVE  Sound(v, old) /\ WithoutContacts(w, ids, v)
<1>1. /\ DOMAIN w = WorldFields /\ ConnectionsOf(w) /\ LastingOf(w)
      /\ DialogIds(w.discovered) \subseteq DiscoveryIds /\ ModelsOf(w) /\ CryptoOf(w, old)
      /\ Ids(w.contacts) \subseteq ContactIds
      /\ \A c, d \in w.contacts : c.id = d.id => c = d
      /\ \A c \in w.contacts : c.id \in ids \/ c.channelMoniker \in Names(w.connections)
  BY DEF Sound, Database, ContactsOf
<1> QED BY <1>1, RemoveContactsSound DEF WithoutContacts

(***************************************************************************)
(* Connections                                                             *)
(***************************************************************************)
LEMMA RemoveConnectionSound ==
  ASSUME NEW w, NEW old, NEW n, Sound(w, old), NEW v, v = RemoveConnection(w, n)
  PROVE  /\ Sound(v, old) /\ v.connections = {k \in w.connections : k.name # n}
         /\ v.contacts = {c \in w.contacts : c.channelMoniker # n}
         /\ v.discovered = w.discovered /\ Names(v.connections) = Names(w.connections) \ {n}
         /\ DOMAIN v.contactRows \subseteq DOMAIN w.contactRows
         /\ \A i \in Ids(v.contacts) : i \in DOMAIN w.contactRows => i \in DOMAIN v.contactRows
<1> DEFINE ids == Ids({c \in w.contacts : c.channelMoniker = n})
           u == [w EXCEPT !.connections = {k \in @ : k.name # n},
                          !.connectionRows = Without(@, {n}),
                          !.channelNames = {c \in @ : c.name # n}]
<1>0. DOMAIN w = WorldFields
  BY DEF Sound, Database
<1>1. /\ DOMAIN u = WorldFields /\ u.connections = {k \in w.connections : k.name # n}
      /\ u.contacts = w.contacts /\ u.discovered = w.discovered
      /\ u.remote = w.remote
      /\ u.connectionRows = Without(w.connectionRows, {n})
      /\ u.contactRows = w.contactRows /\ u.discoveredRows = w.discoveredRows
      /\ u.channelNames = {c \in w.channelNames : c.name # n}
  BY <1>0 DEF WorldFields
<1>2. v = RemoveContacts(u, ids)
  BY DEF RemoveConnection
<1> HIDE DEF u, ids
<1>3. Names(u.connections) = Names(w.connections) \ {n}
      /\ Names(u.channelNames) = Names(w.channelNames) \ {n}
  BY <1>1 DEF Names
<1>4. \A c \in w.contacts : c.id \in ids <=> c.channelMoniker = n
  <2>1. \A c, d \in w.contacts : c.id = d.id => c = d
    BY DEF Sound, Database, ContactsOf
  <2> QED BY <2>1 DEF ids, Ids
<1>5. /\ ConnectionsOf(u) /\ LastingOf(u)
      /\ DialogIds(u.discovered) \subseteq DiscoveryIds /\ CryptoOf(u, old)
      /\ Ids(u.contacts) \subseteq ContactIds
      /\ \A c, d \in u.contacts : c.id = d.id => c = d
      /\ \A c \in u.contacts : c.id \in ids \/ c.channelMoniker \in Names(u.connections)
  BY <1>1, <1>3, <1>4
  DEF Sound, Database, ConnectionsOf, LastingOf, CryptoOf, ContactsOf
<1>6. ModelsOf(u)
  <2>1. u.connectionRows = SetToBag(Names(w.connections) \ {n})
    BY <1>1, RowsRemoved DEF Sound, ModelsOf
  <2> QED BY <1>1, <1>3, <2>1 DEF Sound, ModelsOf
<1>7. /\ Sound(v, old) /\ v.contacts = {c \in u.contacts : c.id \notin ids}
      /\ v.connections = u.connections /\ v.discovered = u.discovered
      /\ DOMAIN v.contactRows = DOMAIN u.contactRows \ ids
  BY <1>1, <1>2, <1>5, <1>6, RemoveContactsSound
<1>8. v.contacts = {c \in w.contacts : c.channelMoniker # n}
  BY <1>1, <1>4, <1>7
<1>9. \A i \in Ids(v.contacts) : i \notin ids
  BY <1>7 DEF Ids
<1> QED BY <1>1, <1>3, <1>7, <1>8, <1>9

LEMMA AddConnectionSound ==
  ASSUME NEW w, NEW old, NEW k, NEW found, Sound(w, old), k.name \in ConnectionNames,
         NEW v, v = AddConnection(w, k, found)
  PROVE  /\ Sound(v, old) /\ w.connections \subseteq v.connections
         /\ v.contacts = w.contacts /\ v.discovered = w.discovered
         /\ v.contactRows = w.contactRows
<1>1. CASE k.name \in Names(w.connections)
  BY <1>1 DEF AddConnection
<1>2. CASE k.name \notin Names(w.connections)
  <2>0. DOMAIN w = WorldFields
    BY DEF Sound, Database
  <2>1. /\ DOMAIN v = WorldFields /\ v.connections = w.connections \union {k}
        /\ v.contacts = w.contacts /\ v.discovered = w.discovered
        /\ v.remote = w.remote
        /\ v.connectionRows = With(w.connectionRows, k.name)
        /\ v.contactRows = w.contactRows /\ v.discoveredRows = w.discoveredRows
        /\ v.channelNames = w.channelNames \union {ListItem(k, found)}
    BY <1>2, <2>0 DEF AddConnection, WorldFields
  <2>2. ListItem(k, found).name = k.name
    BY DEF ListItem
  <2>3. Names(v.connections) = Names(w.connections) \union {k.name}
        /\ Names(v.channelNames) = Names(w.channelNames) \union {k.name}
    BY <2>1, <2>2 DEF Names
  <2>4. \A j \in w.connections : j.name # k.name
    BY <1>2 DEF Names
  <2>5. Database(v)
    BY <2>1, <2>3, <2>4 DEF Sound, Database, ConnectionsOf, ContactsOf, LastingOf
  <2>6. ModelsOf(v)
    <3>1. v.connectionRows = SetToBag(Names(w.connections) \union {k.name})
      BY <1>2, <2>1, RowAdded DEF Sound, ModelsOf
    <3> QED BY <2>1, <2>3, <3>1 DEF Sound, ModelsOf
  <2>7. CryptoOf(v, old)
    BY <2>1 DEF Sound, CryptoOf
  <2> QED BY <2>1, <2>5, <2>6, <2>7 DEF Sound
<1> QED BY <1>1, <1>2

LEMMA UpdateConnectionSound ==
  ASSUME NEW w, NEW old, NEW k, Sound(w, old), NEW v, v = UpdateConnection(w, k)
  PROVE  /\ Sound(v, old) /\ Names(v.connections) = Names(w.connections)
         /\ \A j \in w.connections : j \in v.connections \/ (j.name = k.name /\ k \in v.connections)
         /\ v.contacts = w.contacts /\ v.discovered = w.discovered
         /\ v.contactRows = w.contactRows
<1>1. CASE k.name \notin Names(w.connections)
  BY <1>1 DEF UpdateConnection
<1>2. CASE k.name \in Names(w.connections)
  <2>0. DOMAIN w = WorldFields
    BY DEF Sound, Database
  <2>1. /\ DOMAIN v = WorldFields
        /\ v.connections = {o \in w.connections : o.name # k.name} \union {k}
        /\ v.contacts = w.contacts /\ v.discovered = w.discovered
        /\ v.remote = w.remote
        /\ v.connectionRows = w.connectionRows
        /\ v.contactRows = w.contactRows /\ v.discoveredRows = w.discoveredRows
        /\ v.channelNames = w.channelNames
    BY <1>2, <2>0 DEF UpdateConnection, WorldFields
  <2>2. Names(v.connections) = Names(w.connections)
    BY <1>2, <2>1 DEF Names
  <2>3. Database(v)
    BY <2>1, <2>2 DEF Sound, Database, ConnectionsOf, ContactsOf, LastingOf
  <2>4. ModelsOf(v)
    BY <2>1, <2>2 DEF Sound, ModelsOf
  <2>5. CryptoOf(v, old)
    BY <2>1 DEF Sound, CryptoOf
  <2> QED BY <2>1, <2>2, <2>3, <2>4, <2>5 DEF Sound
<1> QED BY <1>1, <1>2

LEMMA OneConnectionChanges ==
  ASSUME NEW w, NEW old, NEW k, Sound(w, old), NEW v, v = UpdateConnection(w, k)
  PROVE  \A i, j \in w.connections : i = j \/ i \in v.connections \/ j \in v.connections
<1>1. \A j \in w.connections : j \in v.connections \/ j.name = k.name
  BY DEF UpdateConnection, Sound, Database, WorldFields
<1>2. \A i, j \in w.connections : i.name = j.name => i = j
  BY DEF Sound, Database, ConnectionsOf
<1> QED BY <1>1, <1>2

(***************************************************************************)
(* Discovered contacts                                                     *)
(***************************************************************************)
LEMMA AddDiscoveredSound ==
  ASSUME NEW w, NEW old, NEW d, Sound(w, old), d.dialog_id \in DiscoveryIds,
         RestoreDiscovered(StoreDiscovered(d)) = d, NEW v, v = AddDiscovered(w, d)
  PROVE  /\ Sound(v, old) /\ w.discovered \subseteq v.discovered
         /\ v.contacts = w.contacts /\ v.connections = w.connections
         /\ v.contactRows = w.contactRows
<1>1. CASE d.dialog_id \in DialogIds(w.discovered)
  BY <1>1 DEF AddDiscovered
<1>2. CASE d.dialog_id \notin DialogIds(w.discovered)
  <2>0. DOMAIN w = WorldFields
    BY DEF Sound, Database
  <2>1. /\ DOMAIN v = WorldFields /\ v.discovered = w.discovered \union {d}
        /\ v.connections = w.connections /\ v.contacts = w.contacts
        /\ v.remote = w.remote /\ v.channelNames = w.channelNames
        /\ v.connectionRows = w.connectionRows /\ v.contactRows = w.contactRows
        /\ v.discoveredRows = With(w.discoveredRows, d.dialog_id)
    BY <1>2, <2>0 DEF AddDiscovered, WorldFields
  <2>2. DialogIds(v.discovered) = DialogIds(w.discovered) \union {d.dialog_id}
    BY <2>1 DEF DialogIds
  <2>3. Database(v)
    BY <2>1, <2>2 DEF Sound, Database, ConnectionsOf, ContactsOf, LastingOf
  <2>4. v.discoveredRows = SetToBag(DialogIds(v.discovered))
    <3>1. w.discoveredRows = SetToBag(DialogIds(w.discovered))
      BY DEF Sound, ModelsOf
    <3>2. With(w.discoveredRows, d.dialog_id)
            = SetToBag(DialogIds(w.discovered) \union {d.dialog_id})
      BY <1>2, <3>1, RowAdded
    <3> QED BY <2>1, <2>2, <3>2
  <2>5. ModelsOf(v)
    BY <2>1, <2>4 DEF Sound, ModelsOf
  <2>6. CryptoOf(v, old)
    BY <2>1 DEF Sound, CryptoOf
  <2> QED BY <2>1, <2>3, <2>5, <2>6 DEF Sound
<1> QED BY <1>1, <1>2

LEMMA RemoveDiscoveredSound ==
  ASSUME NEW w, NEW old, NEW id, Sound(w, old), NEW v, v = RemoveDiscovered(w, id)
  PROVE  /\ Sound(v, old) /\ v.discovered = {d \in w.discovered : d.dialog_id # id}
         /\ v.contacts = w.contacts /\ v.connections = w.connections
         /\ v.contactRows = w.contactRows
<1>0. DOMAIN w = WorldFields
  BY DEF Sound, Database
<1>1. /\ DOMAIN v = WorldFields /\ v.discovered = {d \in w.discovered : d.dialog_id # id}
      /\ v.connections = w.connections /\ v.contacts = w.contacts
      /\ v.remote = w.remote /\ v.channelNames = w.channelNames
      /\ v.connectionRows = w.connectionRows /\ v.contactRows = w.contactRows
      /\ v.discoveredRows = Without(w.discoveredRows, {id})
  BY <1>0 DEF RemoveDiscovered, WorldFields
<1>2. DialogIds(v.discovered) = DialogIds(w.discovered) \ {id}
  <2>1. DialogIds(v.discovered) \subseteq DialogIds(w.discovered) \ {id}
    BY <1>1 DEF DialogIds
  <2>2. DialogIds(w.discovered) \ {id} \subseteq DialogIds(v.discovered)
    BY <1>1 DEF DialogIds
  <2> QED BY <2>1, <2>2
<1>3. Database(v)
  BY <1>1, <1>2 DEF Sound, Database, ConnectionsOf, ContactsOf, LastingOf
<1>4. v.discoveredRows = SetToBag(DialogIds(v.discovered))
  BY <1>1, <1>2, RowsRemoved DEF Sound, ModelsOf
<1>5. ModelsOf(v)
  BY <1>1, <1>4 DEF Sound, ModelsOf
<1>6. CryptoOf(v, old)
  BY <1>1 DEF Sound, CryptoOf
<1> QED BY <1>1, <1>3, <1>5, <1>6 DEF Sound

\* Whatever add() does, a discovered contact goes only for a new contact.
LEMMA SaveToContactSound ==
  ASSUME NEW w, NEW old, NEW c, NEW id, Sound(w, old), Proper(w, c), c.id \notin Ids(w.contacts),
         NEW v, v = SaveToContact(w, c, id)
  PROVE  /\ Sound(v, old) /\ v.connections = w.connections
         /\ w.contacts \subseteq v.contacts /\ v.contacts \subseteq w.contacts \union {c}
         /\ \A d \in w.discovered \ v.discovered :
              d.dialog_id = id /\ v.contacts = w.contacts \union {c}
         /\ \A i \in DOMAIN w.contactRows : i # c.id => i \in DOMAIN v.contactRows
<1> DEFINE added == StoreAdded(w, c)
<1>a. added = StoreAdded(w, c)
  OBVIOUS
<1>b. v = IF Refused(c) THEN added
          ELSE IF id \notin DialogIds(w.discovered) THEN RemoveContacts(added, {c.id})
          ELSE RemoveDiscovered(added, id)
  BY DEF SaveToContact
<1> HIDE DEF added
<1>1. /\ Sound(added, old) /\ added.contacts = w.contacts \union {c}
      /\ added.connections = w.connections /\ added.discovered = w.discovered
      /\ DOMAIN w.contactRows \subseteq DOMAIN added.contactRows
  BY <1>a, StoreAddedSound
<1>2. CASE v = added
  BY <1>1, <1>2
<1>3. CASE v = RemoveContacts(added, {c.id})
  <2>1. /\ Sound(v, old) /\ v.contacts = {d \in added.contacts : d.id \notin {c.id}}
        /\ v.connections = added.connections /\ v.discovered = added.discovered
        /\ DOMAIN v.contactRows = DOMAIN added.contactRows \ {c.id}
    <3> DEFINE ids == {c.id}
    <3>1. v = RemoveContacts(added, ids)
      BY <1>3
    <3> HIDE DEF ids
    <3>2. Sound(v, old) /\ WithoutContacts(added, ids, v)
      BY <1>1, <3>1, DeleteSound
    <3> QED BY <3>2 DEF ids, WithoutContacts
  <2>2. w.contacts \subseteq v.contacts
    BY <1>1, <2>1 DEF Ids
  <2> QED BY <1>1, <2>1, <2>2
<1>4. CASE v = RemoveDiscovered(added, id)
  <2>1. /\ Sound(v, old) /\ v.discovered = {d \in added.discovered : d.dialog_id # id}
        /\ v.contacts = added.contacts /\ v.connections = added.connections
        /\ v.contactRows = added.contactRows
    BY <1>1, <1>4, RemoveDiscoveredSound
  <2> QED BY <1>1, <2>1
<1> QED BY <1>b, <1>2, <1>3, <1>4

(***************************************************************************)
(* Start and end                                                           *)
(***************************************************************************)
LEMMA SameRecords ==
  ASSUME NEW w, LastingOf(w)
  PROVE  /\ {RestoreContact(StoreContact(c)) : c \in w.contacts} = w.contacts
         /\ {RestoreDiscovered(StoreDiscovered(d)) : d \in w.discovered} = w.discovered
  BY DEF LastingOf

LEMMA RestoredSound ==
  ASSUME NEW w, NEW found, Database(w), w.remote = {},
         NEW v, v = Restored(w, found)
  PROVE  /\ Sound(v, Ids(w.contacts)) /\ v.connections = w.connections
         /\ v.contacts = w.contacts /\ v.discovered = w.discovered
         /\ DOMAIN v.contactRows = Ids(v.contacts)
<1>0. DOMAIN w = WorldFields
  BY DEF Database
<1>1. /\ DOMAIN v = WorldFields
      /\ v.contacts = w.contacts /\ v.discovered = w.discovered
  BY <1>0, SameRecords DEF Restored, WorldFields, Database
<1>2. /\ v.connections = w.connections /\ v.remote = {}
      /\ v.channelNames = {ListItem(k, found) : k \in w.connections}
      /\ v.connectionRows = SetToBag(Names(w.connections))
      /\ v.contactRows = SetToBag(Ids(w.contacts))
      /\ v.discoveredRows = SetToBag(DialogIds(w.discovered))
  BY <1>0 DEF Restored, WorldFields
<1>3. Database(v)
  BY <1>1, <1>2 DEF Database, ConnectionsOf, ContactsOf, LastingOf
<1>4. Names(v.channelNames) = Names(v.connections)
  <2>1. \A k \in w.connections : ListItem(k, found).name = k.name
    BY DEF ListItem
  <2>2. Names(v.channelNames) \subseteq Names(v.connections)
    BY <1>2, <2>1 DEF Names
  <2>3. Names(v.connections) \subseteq Names(v.channelNames)
    BY <1>2, <2>1 DEF Names
  <2> QED BY <2>2, <2>3
<1>5. ModelsOf(v)
  BY <1>1, <1>2, <1>4, RowsAre DEF ModelsOf, Ids
<1>6. CryptoOf(v, Ids(w.contacts))
  BY <1>1, <1>2 DEF CryptoOf, Ids
<1> QED BY <1>1, <1>2, <1>3, <1>5, <1>6, RowsAre DEF Sound

AsAsked == ContactsAsAsked /\ ConnectionsAsAsked /\ DiscoveredAsAsked

LEMMA NoneIsNoId ==
  /\ None \notin KeyPairs /\ Torn \notin KeyPairs /\ None \notin ConnectionNames
  /\ None \notin ContactIds /\ None \notin DiscoveryIds
  BY SettingsAssumption DEF None, Torn

\* The storages outlive the program, nothing else does.
LEMMA ForgetStep ==
  ASSUME IInv, Forget, app' \in {"off", "crashed"}, KeysInv'
  PROVE  IInv' /\ AsAsked
<1>0. DOMAIN world = WorldFields /\ Ids(world.contacts) \subseteq ContactIds
  BY DEF IInv, Database, ContactsOf
<1>1. /\ DOMAIN world' = WorldFields /\ world'.remote = {}
      /\ world'.connections = world.connections /\ world'.contacts = world.contacts
      /\ world'.discovered = world.discovered
  BY <1>0 DEF Forget, WorldFields
<1>2. Database(world')
  BY <1>1 DEF IInv, Database, ConnectionsOf, ContactsOf, LastingOf
<1>3. WindowsInv'
  <2>1. /\ contactDialog' = Closed /\ connectionDialog' = Closed /\ import' = None
        /\ Ids(world'.contacts) \subseteq ContactIds
    BY <1>0, <1>1 DEF Forget
  <2> QED BY <2>1, NoneIsNoId DEF WindowsInv, Closed, DialogType, Holding
<1>4. AsAsked
  BY <1>1 DEF AsAsked, ContactsAsAsked, ConnectionsAsAsked, DiscoveredAsAsked
<1>5. plugins' = {} /\ loaded' = {} /\ ~Running'
  BY DEF Forget, Running
<1> QED BY <1>1, <1>2, <1>3, <1>4, <1>5 DEF IInv

LEMMA CrashSteps ==
  ASSUME IInv, Running, app' = "crashed", Forget, UNCHANGED <<keys, files>>
  PROVE  IInv' /\ AsAsked
<1>1. KeysInv'
  BY DEF IInv, KeysInv, Running
<1> QED BY <1>1, ForgetStep

LEMMA EndSteps ==
  ASSUME IInv, SavePrivateKey \/ Crash
  PROVE  IInv' /\ AsAsked
<1>1. Forget /\ app' \in {"off", "crashed"} /\ keys' = keys
  BY DEF SavePrivateKey, Crash
<1>2. files \in [pub : KeyPairs \union {Torn}, prv : KeyPairs \union {Torn}]
      /\ keys \in [pub : KeyPairs, prv : KeyPairs]
  BY DEF IInv, KeysInv, SavePrivateKey, Crash
<1>3. KeysInv'
  <2>1. CASE SavePrivateKey
    <3>1. app' = "off" /\ files' = [files EXCEPT !.prv = keys.prv] /\ files.pub = keys.pub
      BY <2>1 DEF SavePrivateKey, IInv, KeysInv
    <3> QED BY <1>1, <1>2, <3>1 DEF KeysInv
  <2>2. CASE Crash
    <3>1. app' = "crashed"
      BY <2>2 DEF Crash
    <3>2. files' \in [pub : KeyPairs \union {Torn}, prv : KeyPairs \union {Torn}]
      BY <1>2, <2>2 DEF Crash
    <3> QED BY <1>1, <1>2, <3>1, <3>2 DEF KeysInv
  <2> QED BY <2>1, <2>2
<1> QED BY <1>1, <1>3, ForgetStep

LEMMA LaunchStep ==
  ASSUME IInv, NEW directory \in Directories, NEW new \in KeyPairs, Launch(directory, new)
  PROVE  IInv' /\ AsAsked
<1>1. /\ app \in {"new", "off", "crashed"} /\ app' = "up" /\ keys' = LoadKeys(new)
      /\ plugins' = DiscoverPlugins(directory)
      /\ world' = Restored(world, plugins') /\ loaded' = Ids(world.contacts)
      /\ UNCHANGED <<files, contactDialog, connectionDialog, import>>
  BY DEF Launch, windows
<1>2. Database(world) /\ world.remote = {}
  BY <1>1 DEF IInv, Running
<1>3. /\ Sound(world', loaded') /\ world'.connections = world.connections
      /\ world'.contacts = world.contacts /\ world'.discovered = world.discovered
      /\ DOMAIN world'.contactRows = Ids(world'.contacts)
  BY <1>1, <1>2, RestoredSound
<1>4. KeysInv'
  <2>1. files \in [pub : KeyPairs \union {Torn}, prv : KeyPairs \union {Torn}]
    BY DEF IInv, KeysInv
  <2>2. LoadKeys(new) \in [pub : KeyPairs, prv : KeyPairs]
    BY <2>1, NoneIsNoId DEF LoadKeys, Readable
  <2> QED BY <1>1, <2>1, <2>2 DEF KeysInv
<1>5. WindowsInv'
  BY <1>1, <1>3 DEF IInv, WindowsInv
<1>6. AsAsked
  BY <1>3 DEF AsAsked, ContactsAsAsked, ConnectionsAsAsked, DiscoveredAsAsked
<1>7. loaded' \subseteq ContactIds /\ Running'
  BY <1>1, <1>2 DEF Database, ContactsOf, Running
<1>8. plugins' \subseteq ToSet(PluginIds)
  BY <1>1, SettingsAssumption
<1> QED BY <1>1, <1>3, <1>4, <1>5, <1>6, <1>7, <1>8 DEF IInv, Sound

(***************************************************************************)
(* Clicks, and what receive threads store                                  *)
(***************************************************************************)
WindowType(d, ids) == d \in DialogType(ids) /\ Holding(d)

\* A step while the program is up.
LEMMA UpStep ==
  ASSUME IInv, Up, UNCHANGED process, Sound(world', loaded),
         WindowType(contactDialog', ContactIds), WindowType(connectionDialog', ConnectionNames),
         import' \in DiscoveryIds \union {None},
         contactDialog'.selected \in Ids(world'.contacts) =>
           contactDialog'.selected \in DOMAIN world'.contactRows
  PROVE  IInv'
<1>1. UNCHANGED <<app, plugins, keys, files, loaded>>
  BY DEF process
<1>2. KeysInv' /\ WindowsInv' /\ Running' /\ loaded' \subseteq ContactIds
  BY <1>1 DEF IInv, KeysInv, WindowsInv, WindowType, Holding, Running, Up
<1> QED BY <1>1, <1>2 DEF IInv, Sound

LEMMA UpFacts ==
  ASSUME IInv, Up
  PROVE  /\ Sound(world, loaded) /\ import \in DiscoveryIds \union {None}
         /\ WindowType(contactDialog, ContactIds) /\ WindowType(connectionDialog, ConnectionNames)
         /\ contactDialog.selected \in Ids(world.contacts) =>
              contactDialog.selected \in DOMAIN world.contactRows
         /\ Running
  BY DEF IInv, WindowsInv, WindowType, Running, Up

LEMMA ButtonsFacts ==
  ASSUME NEW ids, NEW d, WindowType(d, ids), NEW rows, NEW stored, DOMAIN rows \subseteq stored,
         stored \subseteq ids, NEW next, Buttons(d, next, rows, stored)
  PROVE  WindowType(next, ids) /\ next.selected \in {None, d.selected} \union DOMAIN rows
<1>1. d \in DialogType(ids) /\ d.covered \in {None, d.selected}
  BY DEF WindowType, Holding
<1>2. ASSUME NEW id \in ids \union {None}, id = d.selected \/ id \in stored, next = ViewAt(d, id, stored)
      PROVE  WindowType(next, ids) /\ next.selected = id
  <2>1. next.state = "VIEW" /\ next.selected = id /\ next.covered \in {None, id}
        /\ next \in DialogType(ids)
    BY <1>1, <1>2 DEF ViewAt, DialogType
  <2> QED BY <2>1 DEF WindowType, Holding
<1>3. ASSUME NEW id \in DOMAIN rows, next = ViewAt(d, id, stored)
      PROVE  WindowType(next, ids) /\ next.selected \in DOMAIN rows
  BY <1>2, <1>3
<1>4. CASE next = Closed
  BY <1>4 DEF WindowType, Holding, Closed, DialogType
<1>5. CASE d.state = "VIEW" /\ next = Change(d)
  BY <1>1, <1>5 DEF WindowType, Holding, Change, DialogType
<1>6. CASE d.state # "VIEW" /\ next = Cancelled(d, stored)
  <2>1. CASE d.state = "ADD"
    BY <1>1, <1>6, <2>1 DEF Cancelled, Cleared, WindowType, Holding, DialogType
  <2>2. CASE d.state = "CHANGE"
    <3>1. next = ViewAt(d, d.selected, stored) /\ d.selected \in ids \union {None}
      BY <1>1, <1>6, <2>2 DEF Cancelled, DialogType
    <3> QED BY <1>2, <3>1
  <2> QED BY <1>1, <1>6, <2>1, <2>2 DEF DialogType
<1> QED BY <1>3, <1>4, <1>5, <1>6 DEF Buttons

LEMMA ClearedFacts ==
  ASSUME NEW ids, NEW d, WindowType(d, ids)
  PROVE  /\ WindowType(Cleared(d), ids) /\ Cleared(d).selected = d.selected
         /\ WindowType(AfterSave(d), ids) /\ AfterSave(d).selected = d.selected
         /\ WindowType(Taken(d), ids) /\ Taken(d).selected = d.selected
  BY DEF WindowType, Holding, DialogType, Cleared, AfterSave, Taken

\* Nothing is stored.
LEMMA NothingStored ==
  ASSUME world' = world
  PROVE  AsAsked
  BY DEF AsAsked, ContactsAsAsked, ConnectionsAsAsked, DiscoveredAsAsked

LEMMA RowsAreIds ==
  ASSUME NEW w, NEW old, Sound(w, old)
  PROVE  /\ DOMAIN w.contactRows \subseteq Ids(w.contacts) /\ Ids(w.contacts) \subseteq ContactIds
         /\ DOMAIN w.connectionRows = Names(w.connections)
         /\ Names(w.connections) \subseteq ConnectionNames
         /\ DOMAIN w.discoveredRows \subseteq DiscoveryIds
  BY RowsAre DEF Sound, ModelsOf, Database, ConnectionsOf, ContactsOf

LEMMA UseWindows ==
  ASSUME IInv, \/ UseContactDialog \/ UseConnectionDialog \/ SaveContactFails
               \/ SaveConnectionFails \/ CloseImport \/ \E id \in DiscoveryIds : ShowReceived(id)
  PROVE  IInv' /\ AsAsked
<1>0. Up /\ UNCHANGED process /\ world' = world
  BY DEF UseContactDialog, UseConnectionDialog, SaveContactFails, SaveConnectionFails,
         CloseImport, ShowReceived
<1>1. /\ Sound(world, loaded) /\ import \in DiscoveryIds \union {None}
      /\ WindowType(contactDialog, ContactIds) /\ WindowType(connectionDialog, ConnectionNames)
      /\ contactDialog.selected \in Ids(world.contacts) =>
           contactDialog.selected \in DOMAIN world.contactRows
  BY <1>0, UpFacts
<1>2. /\ DOMAIN world.contactRows \subseteq Ids(world.contacts)
      /\ Ids(world.contacts) \subseteq ContactIds
      /\ DOMAIN world.connectionRows \subseteq Names(world.connections)
      /\ Names(world.connections) \subseteq ConnectionNames
  BY <1>1, RowsAreIds
<1>3. WindowType(contactDialog', ContactIds)
      /\ contactDialog'.selected \in {None, contactDialog.selected} \union DOMAIN world.contactRows
  <2>1. CASE UseContactDialog
    BY <1>1, <1>2, <2>1, ButtonsFacts DEF UseContactDialog
  <2>2. CASE SaveContactFails
    BY <1>1, <2>2, ClearedFacts DEF SaveContactFails
  <2> QED
    BY <1>1, <2>1, <2>2 DEF UseConnectionDialog, SaveConnectionFails, CloseImport, ShowReceived
<1>4. WindowType(connectionDialog', ConnectionNames)
  <2>1. CASE UseConnectionDialog
    BY <1>1, <1>2, <2>1, ButtonsFacts DEF UseConnectionDialog
  <2>2. CASE SaveConnectionFails
    BY <1>1, <2>2, ClearedFacts DEF SaveConnectionFails
  <2> QED
    BY <1>1, <2>1, <2>2 DEF UseContactDialog, SaveContactFails, CloseImport, ShowReceived
<1>5. import' \in DiscoveryIds \union {None}
  BY <1>1 DEF UseContactDialog, UseConnectionDialog, SaveContactFails, SaveConnectionFails,
              CloseImport, ShowReceived
<1>6. contactDialog'.selected \in Ids(world'.contacts) =>
        contactDialog'.selected \in DOMAIN world'.contactRows
  BY <1>0, <1>1, <1>2, <1>3, NoneIsNoId
<1>7. Sound(world', loaded)
  BY <1>0, <1>1
<1> QED BY <1>0, <1>3, <1>4, <1>5, <1>6, <1>7, UpStep, NothingStored

LEMMA KeysSteps ==
  ASSUME IInv, SavePublicKey \/ \E new \in KeyPairs : GenerateKeys(new)
  PROVE  IInv' /\ AsAsked
<1>1. /\ Up /\ Running' /\ app' \in {"up", "saving"} /\ plugins' = plugins /\ loaded' = loaded
      /\ world' = world
      /\ UNCHANGED <<contactDialog, connectionDialog, import>>
  BY DEF SavePublicKey, GenerateKeys, Running, Up, windows
<1>2. KeysInv'
  <2>1. /\ files \in [pub : KeyPairs \union {Torn}, prv : KeyPairs \union {Torn}]
        /\ keys \in [pub : KeyPairs, prv : KeyPairs]
    BY <1>1 DEF IInv, KeysInv, Up
  <2>2. CASE SavePublicKey
    BY <2>1, <2>2 DEF SavePublicKey, KeysInv
  <2>3. CASE \E new \in KeyPairs : GenerateKeys(new)
    BY <2>1, <2>3 DEF GenerateKeys, KeysInv, Up
  <2> QED BY <2>2, <2>3
<1>3. WindowsInv'
  BY <1>1 DEF IInv, WindowsInv, Holding
<1>4. Sound(world, loaded)
  BY <1>1, UpFacts
<1> QED BY <1>1, <1>2, <1>3, <1>4, NothingStored DEF IInv, Sound

LEMMA DeleteContactStep ==
  ASSUME IInv, NEW sure \in BOOLEAN, DeleteContact(sure)
  PROVE  IInv' /\ AsAsked
<1> DEFINE ids == {contactDialog.selected}
<1>1. /\ Up /\ UNCHANGED <<process, connectionDialog, import>> /\ contactDialog.state = "VIEW"
      /\ contactDialog' = Cleared(contactDialog)
      /\ world' = IF sure THEN RemoveContacts(world, ids) ELSE world
  BY DEF DeleteContact
<1>a. \A id : id \in ids <=> id = contactDialog.selected
  OBVIOUS
<1> HIDE DEF ids
<1>2. /\ Sound(world, loaded) /\ import \in DiscoveryIds \union {None}
      /\ WindowType(contactDialog, ContactIds) /\ WindowType(connectionDialog, ConnectionNames)
      /\ contactDialog.selected \in Ids(world.contacts) =>
           contactDialog.selected \in DOMAIN world.contactRows
  BY <1>1, UpFacts
<1>3. WindowType(contactDialog', ContactIds) /\ contactDialog'.selected = contactDialog.selected
  BY <1>1, <1>2, ClearedFacts
<1>4. CASE sure
  <2>1. Sound(world', loaded) /\ WithoutContacts(world, ids, world')
    BY <1>1, <1>2, <1>4, DeleteSound
  <2>2. \A c \in world'.contacts : c.id # contactDialog.selected
    BY <1>a, <2>1 DEF WithoutContacts
  <2>3. contactDialog'.selected \notin Ids(world'.contacts)
    BY <1>3, <2>2 DEF Ids
  <2>4. IInv'
    BY <1>1, <1>2, <1>3, <2>1, <2>3, UpStep
  <2>5. ContactsAsAsked
    BY <1>1, <1>a, <2>1, <2>2 DEF WithoutContacts, ContactsAsAsked, Ids
  <2>6. ConnectionsAsAsked /\ DiscoveredAsAsked
    BY <2>1 DEF WithoutContacts, ConnectionsAsAsked, DiscoveredAsAsked
  <2> QED BY <2>4, <2>5, <2>6 DEF AsAsked
<1>5. CASE ~sure
  BY <1>1, <1>2, <1>3, <1>5, UpStep, NothingStored
<1> QED BY <1>4, <1>5

LEMMA DeleteConnectionStep ==
  ASSUME IInv, NEW sure \in BOOLEAN, DeleteConnection(sure)
  PROVE  IInv' /\ AsAsked
<1> DEFINE n == connectionDialog.selected
<1>1. /\ Up /\ UNCHANGED <<process, contactDialog, import>> /\ connectionDialog.state = "VIEW"
      /\ connectionDialog' = Cleared(connectionDialog)
      /\ world' = IF sure THEN RemoveConnection(world, n) ELSE world
  BY DEF DeleteConnection
<1>2. /\ Sound(world, loaded) /\ import \in DiscoveryIds \union {None}
      /\ WindowType(contactDialog, ContactIds) /\ WindowType(connectionDialog, ConnectionNames)
      /\ contactDialog.selected \in Ids(world.contacts) =>
           contactDialog.selected \in DOMAIN world.contactRows
  BY <1>1, UpFacts
<1>3. WindowType(connectionDialog', ConnectionNames)
  BY <1>1, <1>2, ClearedFacts
<1>4. CASE sure
  <2>1. /\ Sound(world', loaded)
        /\ world'.connections = {k \in world.connections : k.name # n}
        /\ world'.contacts = {c \in world.contacts : c.channelMoniker # n}
        /\ world'.discovered = world.discovered
        /\ Names(world'.connections) = Names(world.connections) \ {n}
        /\ \A i \in Ids(world'.contacts) :
             i \in DOMAIN world.contactRows => i \in DOMAIN world'.contactRows
    BY <1>1, <1>2, <1>4, RemoveConnectionSound
  <2>2. Ids(world'.contacts) \subseteq Ids(world.contacts)
    BY <2>1 DEF Ids
  <2>3. IInv'
    BY <1>1, <1>2, <1>3, <2>1, <2>2, UpStep
  <2>4. ContactsAsAsked
    <3>1. \A c, d \in world.contacts : c.id = d.id => c = d
      BY <1>2 DEF Sound, Database, ContactsOf
    <3>2. ASSUME NEW c \in world.contacts \ world'.contacts
          PROVE  c.channelMoniker = n /\ c.id \notin Ids(world'.contacts)
      BY <2>1, <3>1 DEF Ids
    <3> QED BY <2>1, <3>2 DEF ContactsAsAsked
  <2>5. ConnectionsAsAsked
    BY <1>1, <2>1 DEF ConnectionsAsAsked
  <2>6. DiscoveredAsAsked
    BY <2>1 DEF DiscoveredAsAsked
  <2> QED BY <2>3, <2>4, <2>5, <2>6 DEF AsAsked
<1>5. CASE ~sure
  BY <1>1, <1>2, <1>3, <1>5, UpStep, NothingStored
<1> QED BY <1>4, <1>5

LEMMA EnteredProper ==
  ASSUME NEW old, Sound(world, old), NEW id \in ContactIds, NEW c \in Entered(id)
  PROVE  Proper(world, c) /\ c.id = id
<1>1. PICK k \in Usable :
        c \in [channelMoniker : {k.name}, name : {"name"}, id : {id}, publicKey : Keys,
               adress : {PeelAddress(k.validator, a) :
                           a \in {b \in TypedAddresses : AddressIsValid(k.validator, b)}}]
  BY DEF Entered
<1> DEFINE addresses == {PeelAddress(k.validator, a) :
                           a \in {b \in TypedAddresses : AddressIsValid(k.validator, b)}}
<1>2. c \in [channelMoniker : {k.name}, name : {"name"}, id : {id}, publicKey : Keys,
             adress : addresses]
  BY <1>1
<1> HIDE DEF addresses
<1>3. c.channelMoniker = k.name /\ c.id = id
  BY <1>2
<1>4. RestoreContact(StoreContact(c)) = c
  BY <1>2 DEF RestoreContact, StoreContact
<1>5. k.name \in Names(world.connections)
  BY DEF Usable, Names, Sound, ModelsOf
<1> QED BY <1>3, <1>4, <1>5 DEF Proper

LEMMA SaveContactStep ==
  ASSUME IInv, SaveContact
  PROVE  IInv' /\ AsAsked
<1>1. /\ Up /\ UNCHANGED <<process, connectionDialog, import>> /\ contactDialog.state # "VIEW"
      /\ contactDialog' = Taken(contactDialog)
  BY DEF SaveContact
<1>2. /\ Sound(world, loaded) /\ import \in DiscoveryIds \union {None}
      /\ WindowType(contactDialog, ContactIds) /\ WindowType(connectionDialog, ConnectionNames)
      /\ contactDialog.selected \in Ids(world.contacts) =>
           contactDialog.selected \in DOMAIN world.contactRows
  BY <1>1, UpFacts
<1>3. WindowType(contactDialog', ContactIds) /\ contactDialog'.selected = contactDialog.selected
  BY <1>1, <1>2, ClearedFacts
<1>4. /\ contactDialog.state \in {"ADD", "CHANGE"}
      /\ contactDialog.covered \in {None, contactDialog.selected}
      /\ contactDialog.covered \in ContactIds \union {None}
      /\ contactDialog.state = "ADD" => contactDialog.covered = None
  BY <1>1, <1>2 DEF WindowType, Holding, DialogType
<1>5. PICK id \in IF contactDialog.covered = None THEN NewIds ELSE {contactDialog.covered} :
        \E c \in Entered(id) :
          world' = IF contactDialog.state = "ADD" THEN StoreAdded(world, c)
                                                  ELSE StoreChanged(world, c)
  BY DEF SaveContact
<1>6. /\ id \in ContactIds
      /\ contactDialog.state = "ADD" => id \in NewIds
      /\ id \in NewIds \/ id = contactDialog.selected
      /\ id \in NewIds => id \notin Ids(world.contacts) /\ id # contactDialog.selected
  BY <1>4, <1>5 DEF NewIds
<1>7. PICK c \in Entered(id) :
        world' = IF contactDialog.state = "ADD" THEN StoreAdded(world, c)
                                                ELSE StoreChanged(world, c)
  BY <1>5
<1>8. Proper(world, c) /\ c.id = id
  BY <1>2, <1>6, EnteredProper
<1>9. CASE contactDialog.state = "ADD"
  <2>1. /\ Sound(world', loaded) /\ world'.contacts = world.contacts \union {c}
        /\ world'.connections = world.connections /\ world'.discovered = world.discovered
        /\ DOMAIN world.contactRows \subseteq DOMAIN world'.contactRows
    BY <1>2, <1>6, <1>7, <1>8, <1>9, StoreAddedSound
  <2>2. Ids(world'.contacts) = Ids(world.contacts) \union {id}
    BY <1>8, <2>1 DEF Ids
  <2>3. contactDialog'.selected \in Ids(world'.contacts) =>
          contactDialog'.selected \in DOMAIN world'.contactRows
    BY <1>2, <1>3, <1>6, <1>9, <2>1, <2>2
  <2>4. IInv'
    BY <1>1, <1>2, <1>3, <2>1, <2>3, UpStep
  <2>5. AsAsked
    BY <2>1 DEF AsAsked, ContactsAsAsked, ConnectionsAsAsked, DiscoveredAsAsked
  <2> QED BY <2>4, <2>5
<1>10. CASE contactDialog.state = "CHANGE"
  <2>1. c.id \in Ids(world.contacts) => c.id \in DOMAIN world.contactRows
    BY <1>2, <1>6, <1>8
  <2>2. world' = StoreChanged(world, c)
    BY <1>7, <1>10
  <2>3. /\ Sound(world', loaded) /\ Ids(world'.contacts) = Ids(world.contacts)
        /\ \A d \in world.contacts : d.id # c.id => d \in world'.contacts
        /\ world'.connections = world.connections /\ world'.discovered = world.discovered
        /\ world'.contactRows = world.contactRows
    BY <1>2, <1>8, <2>1, <2>2, StoreChangedSound
  <2>4. IInv'
    BY <1>1, <1>2, <1>3, <2>3, UpStep
  <2>5. ContactsAsAsked
    <3>1. ASSUME NEW d \in world.contacts \ world'.contacts
          PROVE  d.id \in Ids(world'.contacts) /\ contactDialog.selected = d.id
      <4>1. d.id = id /\ d.id \in Ids(world.contacts)
        BY <1>8, <2>3, <3>1 DEF Ids
      <4> QED BY <1>6, <2>3, <4>1
    <3> QED BY <1>10, <3>1 DEF ContactsAsAsked
  <2>6. ConnectionsAsAsked /\ DiscoveredAsAsked
    BY <2>3 DEF ConnectionsAsAsked, DiscoveredAsAsked
  <2> QED BY <2>4, <2>5, <2>6 DEF AsAsked
<1> QED BY <1>4, <1>9, <1>10

LEMMA SaveNewConnectionStep ==
  ASSUME IInv, SaveNewConnection
  PROVE  IInv' /\ AsAsked
<1>1. /\ Up /\ UNCHANGED <<process, contactDialog, import>> /\ connectionDialog.state # "VIEW"
      /\ connectionDialog.covered = None /\ connectionDialog' = Taken(connectionDialog)
  BY DEF SaveNewConnection
<1>2. /\ Sound(world, loaded) /\ import \in DiscoveryIds \union {None}
      /\ WindowType(contactDialog, ContactIds) /\ WindowType(connectionDialog, ConnectionNames)
      /\ contactDialog.selected \in Ids(world.contacts) =>
           contactDialog.selected \in DOMAIN world.contactRows
  BY <1>1, UpFacts
<1>3. WindowType(connectionDialog', ConnectionNames)
      /\ connectionDialog.state \in {"ADD", "CHANGE"}
  BY <1>1, <1>2, ClearedFacts DEF WindowType, DialogType
<1>4. PICK k : /\ k.name \in ConnectionNames
               /\ world' = IF connectionDialog.state = "ADD" THEN AddConnection(world, k, plugins)
                                                             ELSE UpdateConnection(world, k)
  <2>1. PICK n \in ConnectionNames, p \in Widgets : \E info \in Infos(p) :
          LET k == StoreConnection([name |-> n, plugin |-> p, info |-> info])
          IN  world' = IF connectionDialog.state = "ADD" THEN AddConnection(world, k, plugins)
                                                         ELSE UpdateConnection(world, k)
    BY DEF SaveNewConnection
  <2>2. PICK info \in Infos(p) :
          LET k == StoreConnection([name |-> n, plugin |-> p, info |-> info])
          IN  world' = IF connectionDialog.state = "ADD" THEN AddConnection(world, k, plugins)
                                                         ELSE UpdateConnection(world, k)
    BY <2>1
  <2>3. StoreConnection([name |-> n, plugin |-> p, info |-> info]).name = n
    BY DEF StoreConnection
  <2> QED BY <2>2, <2>3
<1>5. CASE connectionDialog.state = "ADD"
  <2>1. k.name \in ConnectionNames /\ world' = AddConnection(world, k, plugins)
    BY <1>4, <1>5
  <2>2. /\ Sound(world', loaded) /\ world.connections \subseteq world'.connections
        /\ world'.contacts = world.contacts /\ world'.discovered = world.discovered
        /\ world'.contactRows = world.contactRows
    <3> DEFINE v == world'
    <3>1. Sound(world, loaded) /\ v = AddConnection(world, k, plugins)
      BY <1>2, <2>1
    <3> HIDE DEF v
    <3>2. /\ Sound(v, loaded) /\ world.connections \subseteq v.connections
          /\ v.contacts = world.contacts /\ v.discovered = world.discovered
          /\ v.contactRows = world.contactRows
      BY <2>1, <3>1, AddConnectionSound
    <3> QED BY <3>2 DEF v
  <2>3. IInv'
    BY <1>1, <1>2, <1>3, <2>2, UpStep
  <2> QED BY <2>2, <2>3 DEF AsAsked, ContactsAsAsked, ConnectionsAsAsked, DiscoveredAsAsked
<1>6. CASE connectionDialog.state = "CHANGE"
  <2>1. world' = UpdateConnection(world, k)
    BY <1>4, <1>6
  <2>2. /\ Sound(world', loaded) /\ Names(world'.connections) = Names(world.connections)
        /\ world'.contacts = world.contacts /\ world'.discovered = world.discovered
        /\ world'.contactRows = world.contactRows
    BY <1>2, <2>1, UpdateConnectionSound
  <2>3. IInv'
    BY <1>1, <1>2, <1>3, <2>2, UpStep
  <2>4. \A i, j \in world.connections :
          i = j \/ i \in world'.connections \/ j \in world'.connections
    BY <1>2, <2>1, OneConnectionChanges
  <2>5. ConnectionsAsAsked
    BY <1>1, <1>6, <2>2, <2>4 DEF ConnectionsAsAsked, Names
  <2> QED BY <2>2, <2>3, <2>5 DEF AsAsked, ContactsAsAsked, DiscoveredAsAsked
<1> QED BY <1>3, <1>5, <1>6

LEMMA HolderFacts ==
  ASSUME NEW old, Sound(world, old), NEW n \in Names(world.connections), Holder(n).plugin # "none"
  PROVE  /\ Holder(n).name = n
         /\ \A k \in world.connections : k.name = n => k.pluginId = Holder(n).plugin
<1> DEFINE held == CHOOSE k \in world.connections : k.name = n
<1>1. held \in world.connections /\ held.name = n
  BY DEF Names
<1>2. Holder(n) = RestoreConnection(held, plugins)
  BY DEF Holder
<1>3. \A k, j \in world.connections : k.name = j.name => k = j
  BY DEF Sound, Database, ConnectionsOf
<1> HIDE DEF held
<1> QED BY <1>1, <1>2, <1>3 DEF RestoreConnection

LEMMA SaveHeldConnectionStep ==
  ASSUME IInv, SaveHeldConnection
  PROVE  IInv' /\ AsAsked
<1> DEFINE n == connectionDialog.covered
<1>1. /\ Up /\ UNCHANGED <<process, contactDialog, import>> /\ connectionDialog.state = "CHANGE"
      /\ n # None /\ n \in Names(world.connections) /\ Holder(n).plugin # "none"
      /\ connectionDialog' = Taken(connectionDialog)
  BY DEF SaveHeldConnection
<1>2. /\ Sound(world, loaded) /\ import \in DiscoveryIds \union {None}
      /\ WindowType(contactDialog, ContactIds) /\ WindowType(connectionDialog, ConnectionNames)
      /\ contactDialog.selected \in Ids(world.contacts) =>
           contactDialog.selected \in DOMAIN world.contactRows
  BY <1>1, UpFacts
<1>3. WindowType(connectionDialog', ConnectionNames) /\ connectionDialog.selected = n
  BY <1>1, <1>2, ClearedFacts DEF WindowType, Holding
<1>4. CASE world' = world
  BY <1>1, <1>2, <1>3, <1>4, UpStep, NothingStored
<1>5. CASE \E p \in Widgets : \E info \in Infos(p) :
             /\ p = Holder(n).plugin
             /\ world' = UpdateConnection(world, StoreConnection([Holder(n) EXCEPT !.info = info]))
  <2>1. PICK info :
          world' = UpdateConnection(world, StoreConnection([Holder(n) EXCEPT !.info = info]))
    BY <1>5
  <2> DEFINE new == StoreConnection([Holder(n) EXCEPT !.info = info])
  <2>2. new.name = n /\ new.pluginId = Holder(n).plugin
    <3>1. Holder(n).name = n
      BY <1>1, <1>2, HolderFacts
    <3>2. [Holder(n) EXCEPT !.info = info].name = Holder(n).name
          /\ [Holder(n) EXCEPT !.info = info].plugin = Holder(n).plugin
      BY DEF Holder, RestoreConnection
    <3> QED BY <3>1, <3>2 DEF StoreConnection
  <2>3. world' = UpdateConnection(world, new)
    BY <2>1
  <2> HIDE DEF new
  <2>4. /\ Sound(world', loaded)
        /\ \A j \in world.connections :
             j \in world'.connections \/ (j.name = n /\ new \in world'.connections)
        /\ world'.contacts = world.contacts /\ world'.discovered = world.discovered
        /\ world'.contactRows = world.contactRows
    BY <1>2, <2>2, <2>3, UpdateConnectionSound
  <2>5. IInv'
    BY <1>1, <1>2, <1>3, <2>4, UpStep
  <2>6. ConnectionsAsAsked
    <3>1. \A k \in world.connections : k.name = n => k.pluginId = Holder(n).plugin
      BY <1>1, <1>2, HolderFacts
    <3>2. ASSUME NEW k \in world.connections \ world'.connections
          PROVE  /\ k.name = n /\ new \in world'.connections
                 /\ new.name = k.name /\ new.pluginId = k.pluginId
                 /\ k.name \in Names(world'.connections)
      BY <2>2, <2>4, <3>1 DEF Names
    <3>3. \A i, j \in world.connections :
            i = j \/ i \in world'.connections \/ j \in world'.connections
      BY <1>2, <2>3, OneConnectionChanges
    <3> QED BY <1>1, <1>3, <3>2, <3>3 DEF ConnectionsAsAsked
  <2> QED BY <2>4, <2>5, <2>6 DEF AsAsked, ContactsAsAsked, DiscoveredAsAsked
<1> QED BY <1>4, <1>5 DEF SaveHeldConnection

\* What receive threads store, and what is done with discovered contacts.
LEMMA SameWindows ==
  ASSUME IInv, Up, UNCHANGED <<process, windows>>, Sound(world', loaded),
         world'.contacts = world.contacts, world'.connections = world.connections,
         world'.contactRows = world.contactRows
  PROVE  IInv' /\ ContactsAsAsked /\ ConnectionsAsAsked
<1>1. /\ UNCHANGED <<contactDialog, connectionDialog, import>>
      /\ import \in DiscoveryIds \union {None}
      /\ WindowType(contactDialog, ContactIds) /\ WindowType(connectionDialog, ConnectionNames)
      /\ contactDialog.selected \in Ids(world.contacts) =>
           contactDialog.selected \in DOMAIN world.contactRows
  BY UpFacts DEF windows
<1>2. IInv'
  BY <1>1, UpStep
<1> QED BY <1>2 DEF ContactsAsAsked, ConnectionsAsAsked

LEMMA DiscoverStep ==
  ASSUME IInv, NEW n, NEW address, NEW content, NEW id \in DiscoveryIds,
         Discover(n, address, content, id)
  PROVE  IInv' /\ AsAsked
<1> DEFINE read == GetNameAndPublickKey(content)
           d == [created |-> "now", channel_moniker |-> n, contact_adress |-> address,
                 public_key |-> read.key, name |-> read.name, dialog_id |-> id]
<1>1. Up /\ UNCHANGED <<keys, files>>
  BY DEF Discover
<1>2. CASE read.thrown
  BY <1>1, <1>2, CrashSteps DEF Discover, Up, Running
<1>3. CASE ~read.thrown
  <2>1. world' = AddDiscovered(world, d) /\ UNCHANGED <<process, windows>>
    BY <1>1, <1>3 DEF Discover, process
  <2>2. d.dialog_id \in DiscoveryIds /\ RestoreDiscovered(StoreDiscovered(d)) = d
    BY DEF RestoreDiscovered, StoreDiscovered
  <2> HIDE DEF d
  <2>3. Sound(world, loaded)
    BY <1>1, UpFacts
  <2>4. /\ Sound(world', loaded) /\ world.discovered \subseteq world'.discovered
        /\ world'.contacts = world.contacts /\ world'.connections = world.connections
        /\ world'.contactRows = world.contactRows
    BY <2>1, <2>2, <2>3, AddDiscoveredSound
  <2>5. DiscoveredAsAsked
    BY <2>4 DEF DiscoveredAsAsked
  <2> QED BY <1>1, <2>1, <2>4, <2>5, SameWindows DEF AsAsked
<1> QED BY <1>2, <1>3

LEMMA RemoveReceivedStep ==
  ASSUME IInv, NEW id, RemoveReceived(id)
  PROVE  IInv' /\ AsAsked
<1>1. Up /\ UNCHANGED <<process, windows>> /\ world' = RemoveDiscovered(world, id)
  BY DEF RemoveReceived
<1>2. Sound(world, loaded)
  BY <1>1, UpFacts
<1>3. /\ Sound(world', loaded) /\ world'.contacts = world.contacts
      /\ world'.connections = world.connections /\ world'.contactRows = world.contactRows
  BY <1>1, <1>2, RemoveDiscoveredSound
<1>4. DiscoveredAsAsked
  BY <1>3 DEF DiscoveredAsAsked
<1> QED BY <1>1, <1>3, <1>4, SameWindows DEF AsAsked

LEMMA ImportStep ==
  ASSUME IInv, Import
  PROVE  IInv' /\ AsAsked
<1>1. Up /\ UNCHANGED <<process, contactDialog, connectionDialog>>
  BY DEF Import
<1>2. /\ Sound(world, loaded) /\ import \in DiscoveryIds \union {None}
      /\ WindowType(contactDialog, ContactIds) /\ WindowType(connectionDialog, ConnectionNames)
      /\ contactDialog.selected \in Ids(world.contacts) =>
           contactDialog.selected \in DOMAIN world.contactRows
  BY <1>1, UpFacts
<1>3. PICK id \in NewIds : \E c \in Entered(id) :
        /\ world' = SaveToContact(world, c, import)
        /\ import' = IF Refused(c) THEN import ELSE None
  BY DEF Import
<1>4. PICK c \in Entered(id) :
        /\ world' = SaveToContact(world, c, import)
        /\ import' = IF Refused(c) THEN import ELSE None
  BY <1>3
<1>5. id \in ContactIds /\ id \notin Ids(world.contacts) /\ id # contactDialog.selected
  BY DEF NewIds
<1>6. Proper(world, c) /\ c.id = id
  BY <1>2, <1>5, EnteredProper
<1>7. /\ Sound(world', loaded) /\ world'.connections = world.connections
      /\ world.contacts \subseteq world'.contacts /\ world'.contacts \subseteq world.contacts \union {c}
      /\ \A d \in world.discovered \ world'.discovered :
           d.dialog_id = import /\ world'.contacts = world.contacts \union {c}
      /\ \A i \in DOMAIN world.contactRows : i # c.id => i \in DOMAIN world'.contactRows
  BY <1>2, <1>4, <1>5, <1>6, SaveToContactSound
<1>8. contactDialog'.selected \in Ids(world'.contacts) =>
        contactDialog'.selected \in DOMAIN world'.contactRows
  <2>1. Ids(world'.contacts) \subseteq Ids(world.contacts) \union {id}
    BY <1>6, <1>7 DEF Ids
  <2> QED BY <1>1, <1>2, <1>5, <1>6, <1>7, <2>1
<1>9. IInv'
  BY <1>1, <1>2, <1>4, <1>7, <1>8, UpStep
<1>10. DiscoveredAsAsked
  <2>1. c \notin world.contacts
    BY <1>5, <1>6 DEF Ids
  <2>2. ASSUME NEW d \in world.discovered \ world'.discovered
        PROVE  d.dialog_id = import /\ Cardinality(world'.contacts \ world.contacts) = 1
    <3>1. d.dialog_id = import /\ world'.contacts = world.contacts \union {c}
      BY <1>7, <2>2
    <3>2. world'.contacts \ world.contacts = {c}
      BY <2>1, <3>1
    <3> QED BY <3>1, <3>2, FS_Singleton
  <2> QED BY <2>2 DEF DiscoveredAsAsked
<1> QED BY <1>7, <1>9, <1>10 DEF AsAsked, ContactsAsAsked, ConnectionsAsAsked

LEMMA SaveWithoutPluginStep ==
  ASSUME IInv, SaveWithoutPlugin
  PROVE  IInv' /\ AsAsked
<1>1. Running /\ app' = "crashed" /\ Forget /\ UNCHANGED <<keys, files>>
  BY DEF SaveWithoutPlugin, Up, Running
<1> QED BY <1>1, CrashSteps

(***************************************************************************)
(* The theorems                                                            *)
(***************************************************************************)
LEMMA IInvInit == Init => IInv
<1> SUFFICES ASSUME Init PROVE IInv
  OBVIOUS
<1>1. /\ app = "new" /\ plugins = {} /\ world = Start /\ loaded = {}
      /\ files = [pub |-> Torn, prv |-> Torn]
      /\ contactDialog = Closed /\ connectionDialog = Closed /\ import = None
  BY DEF Init
<1>2. Database(world) /\ world.remote = {}
  <2>1. /\ DOMAIN Start = WorldFields /\ Start.connections = {} /\ Start.contacts = {}
        /\ Start.discovered = {} /\ Start.remote = {}
    BY DEF Start, WorldFields
  <2> QED
    BY <1>1, <2>1
    DEF Database, ConnectionsOf, ContactsOf, LastingOf, Names, Ids, DialogIds
<1>3. KeysInv
  BY <1>1 DEF KeysInv
<1>4. WindowsInv
  <2>1. Ids(world.contacts) = {}
    BY <1>1 DEF Start, Ids
  <2> QED BY <1>1, <2>1 DEF WindowsInv, Closed, DialogType, Holding
<1> QED BY <1>1, <1>2, <1>3, <1>4 DEF IInv, Running

LEMMA IInvStep == IInv /\ [Next]_vars => IInv' /\ [AsAsked]_vars
<1> SUFFICES ASSUME IInv, [Next]_vars PROVE IInv' /\ [AsAsked]_vars
  OBVIOUS
<1>a. Unused \subseteq KeyPairs
  BY DEF Unused
<1>1. ASSUME NEW directory \in Directories, NEW new \in Unused, Launch(directory, new)
      PROVE  IInv' /\ AsAsked
  BY <1>1, <1>a, LaunchStep
<1>2. CASE SavePublicKey \/ \E new \in Unused : GenerateKeys(new)
  BY <1>2, <1>a, KeysSteps
<1>3. CASE SavePrivateKey \/ Crash
  BY <1>3, EndSteps
<1>4. CASE \/ UseContactDialog \/ UseConnectionDialog \/ SaveContactFails
           \/ SaveConnectionFails \/ CloseImport \/ \E id \in DiscoveryIds : ShowReceived(id)
  BY <1>4, UseWindows
<1>5. ASSUME NEW sure \in BOOLEAN, DeleteContact(sure) \/ DeleteConnection(sure)
      PROVE  IInv' /\ AsAsked
  BY <1>5, DeleteContactStep, DeleteConnectionStep
<1>6. CASE SaveContact \/ Import
  BY <1>6, SaveContactStep, ImportStep
<1>7. CASE SaveNewConnection \/ SaveHeldConnection \/ SaveWithoutPlugin
  BY <1>7, SaveNewConnectionStep, SaveHeldConnectionStep, SaveWithoutPluginStep
<1>8. ASSUME NEW n \in Connected, NEW address \in Senders, NEW content \in Contents,
             NEW id \in DiscoveryIds, Discover(n, address, content, id)
      PROVE  IInv' /\ AsAsked
  BY <1>8, DiscoverStep
<1>9. ASSUME NEW id \in DiscoveryIds, RemoveReceived(id) PROVE IInv' /\ AsAsked
  BY <1>9, RemoveReceivedStep
<1>10. CASE UNCHANGED vars
  <2>1. UNCHANGED <<app, plugins, keys, files, loaded, world, contactDialog, connectionDialog, import>>
    BY <1>10 DEF vars, process, windows
  <2> QED BY <1>10, <2>1 DEF IInv, KeysInv, WindowsInv, Holding, Running
<1> QED BY <1>1, <1>2, <1>3, <1>4, <1>5, <1>6, <1>7, <1>8, <1>9, <1>10 DEF Next

\* The inductive invariant: what is stored refers to nothing that is gone,
\* before a start and after an end too; while the program runs, models and
\* CryptoSystemImpl follow the storages; a window holds what is selected; and
\* the key files are those of the keys from the end of closeEvent on.
THEOREM SettingsInvariant == Spec => []IInv
<1>1. IInv /\ [Next]_vars => IInv'
  BY IInvStep
<1> QED BY <1>1, IInvInit, PTL DEF Spec

\* Every part keeps its type: whatever a crash leaves of the key files, the
\* keys of a program that has started are keys.
THEOREM SettingsTypeCorrect == Spec => []TypeOK
<1>1. IInv => TypeOK
  BY DEF IInv, KeysInv, WindowsInv, Database, ConnectionsOf, ContactsOf, TypeOK
<1> QED BY <1>1, SettingsInvariant, PTL

\* The cascades of BaseSettingsDialog's removals leave nothing that refers to a
\* removed element, and the rows of the Qt models are those of the storages,
\* but for contacts whose key CryptoSystemImpl could not read.
THEOREM RowsAreStored == Spec => []RowsFollowStorage
<1>1. IInv => RowsFollowStorage
  <2> SUFFICES ASSUME IInv, Up PROVE RowsFollowStorage
    BY DEF RowsFollowStorage
  <2>1. Sound(world, loaded)
    BY UpFacts
  <2>2. world.contactRows = SetToBag(DOMAIN world.contactRows)
        /\ DOMAIN world.contactRows \subseteq Ids(world.contacts)
    BY <2>1 DEF Sound, ModelsOf
  <2>3. world.contactRows \sqsubseteq SetToBag(Ids(world.contacts))
    BY <2>2, FewerRows
  <2> QED BY <2>1, <2>3
          DEF Sound, Database, ContactsOf, ModelsOf, RowsFollowStorage
<1> QED BY <1>1, SettingsInvariant, PTL

\* CryptoSystemImpl has keys of stored contacts only, the key saved last if it
\* could be read, and none is missing of a contact saved since the start.
THEOREM CryptoIsStored == Spec => []CryptoFollowsStorage
<1>1. IInv => CryptoFollowsStorage
  BY UpFacts DEF Sound, CryptoOf, CryptoFollowsStorage
<1> QED BY <1>1, SettingsInvariant, PTL

\* Whatever the windows are told in any order, with discoveries in between, an
\* element goes only when that was asked for, and changes only when it is the
\* selected one; but for a connection that a window without an element, after a
\* save, is told the name of.
THEOREM OnlyWhatWasAsked == Spec => OnlyAskedChanges
<1>1. IInv /\ [Next]_vars => [AsAsked]_vars
  BY IInvStep
<1>2. AsAsked <=> ContactsAsAsked /\ ConnectionsAsAsked /\ DiscoveredAsAsked
  BY DEF AsAsked
<1>3. IInv /\ [Next]_vars => [ContactsAsAsked /\ ConnectionsAsAsked /\ DiscoveredAsAsked]_vars
  BY <1>1, <1>2
<1> QED BY <1>3, SettingsInvariant, PTL DEF Spec, OnlyAskedChanges

\* A program that was closed, not broken off, starts with the keys it had: no
\* new ones are made in silence.
THEOREM KeysAreKept == Spec => KeysSurvive
<1>1. ASSUME IInv, [Next]_vars, app = "off", app' = "up"
      PROVE  keys' = keys
  <2>1. \E directory \in Directories, new \in Unused : Launch(directory, new)
    BY <1>1 DEF Next, GenerateKeys, SavePublicKey, SavePrivateKey, Crash, UseContactDialog,
       SaveContact, SaveContactFails, DeleteContact, DeleteConnection, UseConnectionDialog,
       SaveConnectionFails, SaveNewConnection, SaveHeldConnection, SaveWithoutPlugin, Discover,
       ShowReceived, RemoveReceived, CloseImport, Import, Up, vars, process
  <2>2. PICK new : keys' = LoadKeys(new)
    BY <2>1 DEF Launch
  <2>3. files = keys /\ keys \in [pub : KeyPairs, prv : KeyPairs]
    BY <1>1 DEF IInv, KeysInv
  <2> QED BY <2>2, <2>3, NoneIsNoId DEF LoadKeys, Readable
<1>2. IInv /\ [Next]_vars => [app = "off" /\ app' = "up" => keys' = keys]_vars
  BY <1>1
<1> QED BY <1>2, SettingsInvariant, PTL DEF Spec, KeysSurvive
=============================================================================
