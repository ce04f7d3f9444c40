---------------------------- MODULE BrokerProofs ----------------------------
(***************************************************************************)
(* Theorems about module Broker, for every set of channels, clients,       *)
(* topics, filters and messages and every number of sessions, as long as   *)
(* no client comes without an identifier: its invariants, and that it      *)
(* implements PubSub.                                                      *)
(***************************************************************************)
EXTENDS Broker, SequenceTheorems, TLAPS

-----------------------------------------------------------------------------
(* The inductive invariant.  What holds of a channel's client rests on what every *)
(* entry of every topic says, the entries of clients that are gone included.      *)

\* The entry of client identifier i in the topic object t, if there are both.
EntryOf(t, i) == IF t = NULL THEN NULL ELSE t.clients[i]
Entry(f, i) == EntryOf(topics[f], i)

\* A stored session is an allocated object, and no two identifiers share one.
SessionsApart ==
  /\ \A i \in ClientIds : sessions[i] # NULL => sessions[i] <= Len(subs)
  /\ \A i, j \in ClientIds : sessions[i] # NULL /\ sessions[i] = sessions[j] => i = j

\* An entry is found by its client's identifier, and that client had a channel.
EntriesInPlace ==
  \A f \in Filters, i \in ClientIds :
    Entry(f, i) # NULL => Entry(f, i).client.cid = i /\ chan[Entry(f, i).client.chan] # "idle"

\* EntriesAreOwned and SubscriptionIndex, entry by entry.
EntriesOwned ==
  \A f \in Filters, i \in ClientIds :
    Entry(f, i) # NULL /\ chan[Entry(f, i).client.chan] = "open"
    => param[Entry(f, i).client.chan] = Entry(f, i).client
Agrees(c, f) ==
  IF subs[c.sess][f] = NULL
    THEN Entry(f, c.cid) = NULL \/ Entry(f, c.cid).client # c
    ELSE Entry(f, c.cid) = [client |-> c, qos |-> subs[c.sess][f]]
IndexAgrees == \A ch \in Channels, f \in Filters : param[ch] # NULL => Agrees(param[ch], f)

\* A channel has no client before it is accepted.
IdleHasNoClient == \A ch \in Channels : chan[ch] = "idle" => param[ch] = NULL

IInv ==
  /\ TypeOK
  /\ IdleHasNoClient
  /\ OneChannelPerClient
  /\ SessionsApart
  /\ EntriesInPlace
  /\ EntriesOwned
  /\ IndexAgrees

-----------------------------------------------------------------------------
(* Lemmas about the operators of topic.cpp and of the handlers *)

\* The fields of an mqtt_client.
LEMMA ClientFields ==
  ASSUME NEW c \in Client
  PROVE  /\ c.chan \in Channels /\ c.cid \in ClientIds /\ c.clean \in BOOLEAN
         /\ c.sess \in 1..MaxSessions
         /\ c.will = NULL \/ c.will \in Message
         /\ c # NULL
BY MessageAssumption, NullAssumption DEF Client

\* The fields of a topic object.
LEMMA TopicFields ==
  ASSUME NEW t \in Topic, NEW i \in ClientIds
  PROVE  /\ t # NULL
         /\ t.clients \in Subscribers
         /\ t.retained \in Retained \cup {NULL}
         /\ t.clients[i] # NULL => /\ t.clients[i] \in [client : Client, qos : 0..2]
                                  /\ t.clients[i].client \in Client /\ t.clients[i].qos \in 0..2
<1>1. t # NULL
  BY NullAssumption
<1>2. t.clients \in Subscribers /\ t.retained \in Retained \cup {NULL}
  BY DEF Topic
<1>3. t.clients[i] \in [client : Client, qos : 0..2] \cup {NULL}
  BY <1>2 DEF Subscribers
<1> QED
  BY <1>1, <1>2, <1>3

\* A new topic object has nobody and nothing.
LEMMA NewTopicEntries ==
  /\ NewTopic \in Topic /\ NewTopic.retained = NULL
  /\ \A i \in ClientIds : NewTopic.clients[i] = NULL
BY DEF NewTopic, Topic, Subscribers

\* topic::subscribe (topic.cpp:67-73): the entry of that client identifier, and no
\* other, becomes the new client's.
LEMMA SubscribeEntries ==
  ASSUME NEW t \in Topic, NEW c \in Client, NEW q \in 0..2
  PROVE  /\ subscribe(t, c, q) \in Topic
         /\ subscribe(t, c, q).retained = t.retained
         /\ \A i \in ClientIds :
              subscribe(t, c, q).clients[i] =
                IF i = c.cid THEN [client |-> c, qos |-> q] ELSE t.clients[i]
<1> DEFINE e == [client |-> c, qos |-> q]
           m == [t.clients EXCEPT ![c.cid] = e]
<1>1. c.cid \in ClientIds /\ e \in [client : Client, qos : 0..2]
  BY ClientFields
<1>2. t = [clients |-> t.clients, retained |-> t.retained] /\ t.clients \in Subscribers
      /\ t.retained \in Retained \cup {NULL}
  BY DEF Topic
<1>3. subscribe(t, c, q) = [clients |-> m, retained |-> t.retained]
  BY <1>2 DEF subscribe
<1>4. m \in Subscribers /\ \A i \in ClientIds : m[i] = IF i = c.cid THEN e ELSE t.clients[i]
  BY <1>1, <1>2 DEF Subscribers
<1> QED
  BY <1>2, <1>3, <1>4 DEF Topic

\* topic::unsubscribe (topic.cpp:75-79): the entry of that client identifier is gone.
LEMMA UnsubscribeEntries ==
  ASSUME NEW t \in Topic, NEW c \in Client
  PROVE  /\ unsubscribe(t, c) \in Topic
         /\ unsubscribe(t, c).retained = t.retained
         /\ \A i \in ClientIds :
              unsubscribe(t, c).clients[i] = IF i = c.cid THEN NULL ELSE t.clients[i]
<1> DEFINE m == [t.clients EXCEPT ![c.cid] = NULL]
<1>1. c.cid \in ClientIds
  BY ClientFields
<1>2. t = [clients |-> t.clients, retained |-> t.retained] /\ t.clients \in Subscribers
      /\ t.retained \in Retained \cup {NULL}
  BY DEF Topic
<1>3. unsubscribe(t, c) = [clients |-> m, retained |-> t.retained]
  BY <1>2 DEF unsubscribe
<1>4. m \in Subscribers /\ \A i \in ClientIds : m[i] = IF i = c.cid THEN NULL ELSE t.clients[i]
  BY <1>1, <1>2 DEF Subscribers
<1> QED
  BY <1>2, <1>3, <1>4 DEF Topic

\* topic::publish keeps the subscribers, and what it stores is not empty.
LEMMA RetainedEntries ==
  ASSUME NEW t \in Topic, NEW msg \in Message
  PROVE  /\ retained_message(t, msg) \in Topic
         /\ retained_message(t, msg).clients = t.clients
         /\ retained_message(t, msg).retained =
              IF ~msg.retain THEN t.retained
              ELSE IF msg.payload = Empty THEN NULL
              ELSE [payload |-> msg.payload, qos |-> msg.qos]
<1> DEFINE r == IF msg.payload = Empty THEN NULL ELSE [payload |-> msg.payload, qos |-> msg.qos]
<1>1. t = [clients |-> t.clients, retained |-> t.retained] /\ t.clients \in Subscribers
      /\ t.retained \in Retained \cup {NULL}
  BY DEF Topic
<1>2. r \in Retained \cup {NULL}
  BY DEF Message, Retained
<1>3. CASE msg.retain
  <2>1. retained_message(t, msg) = [clients |-> t.clients, retained |-> r]
    BY <1>1, <1>3 DEF retained_message
  <2> QED
    BY <1>1, <1>2, <1>3, <2>1 DEF Topic
<1>4. CASE ~msg.retain
  BY <1>4 DEF retained_message
<1> QED
  BY <1>3, <1>4

\* Erasing an empty topic object from the map takes no entry with it, and leaves no
\* empty one.
LEMMA EraseEntries ==
  ASSUME NEW t \in Topic
  PROVE  /\ EraseIfEmpty(t) \in Topic \cup {NULL}
         /\ \A i \in ClientIds : EntryOf(EraseIfEmpty(t), i) = t.clients[i]
         /\ EraseIfEmpty(t) # NULL => EraseIfEmpty(t) = t /\ ~empty(t)
         /\ EraseIfEmpty(t) = NULL => t.retained = NULL
<1>1. t # NULL
  BY NullAssumption
<1> QED
  BY <1>1 DEF EraseIfEmpty, EntryOf, empty

\* An entry is typed, and its topic object exists.
LEMMA EntryFields ==
  ASSUME TypeOK, NEW f \in Filters, NEW i \in ClientIds, Entry(f, i) # NULL
  PROVE  /\ topics[f] # NULL /\ topics[f] \in Topic
         /\ Entry(f, i) = topics[f].clients[i]
         /\ Entry(f, i) \in [client : Client, qos : 0..2]
         /\ Entry(f, i).client \in Client /\ Entry(f, i).qos \in 0..2
         /\ Entry(f, i).client.chan \in Channels
<1>1. topics[f] # NULL /\ Entry(f, i) = topics[f].clients[i]
  BY DEF Entry, EntryOf
<1>2. topics[f] \in Topic
  BY <1>1 DEF TypeOK
<1>3. Entry(f, i) \in [client : Client, qos : 0..2] /\ Entry(f, i).client \in Client
      /\ Entry(f, i).qos \in 0..2
  BY <1>1, <1>2, TopicFields
<1> QED
  BY <1>1, <1>2, <1>3, ClientFields

\* The topic object to subscribe to, found or new: the entries are those of the map.
LEMMA ToSubscribeEntries ==
  ASSUME TypeOK, NEW f \in Filters
  PROVE  /\ get_topic_ptr_to_subscribe(f) \in Topic
         /\ \A i \in ClientIds : get_topic_ptr_to_subscribe(f).clients[i] = Entry(f, i)
         /\ get_topic_ptr_to_subscribe(f).retained =
              IF topics[f] = NULL THEN NULL ELSE topics[f].retained
<1>1. CASE topics[f] = NULL
  BY <1>1, NewTopicEntries DEF get_topic_ptr_to_subscribe, Entry, EntryOf
<1>2. CASE topics[f] # NULL
  BY <1>2 DEF get_topic_ptr_to_subscribe, Entry, EntryOf, TypeOK
<1> QED
  BY <1>1, <1>2

\* write_channel and mqtt_client::publish: the copies are packets.
LEMMA CopyIsWrite ==
  ASSUME NEW e \in [client : Client, qos : 0..2], NEW f \in Filters \cup {Trash}, NEW msg,
         msg.topic \in Topics \cup {Trash}, msg.payload \in Payloads \cup Topics,
         msg.qos \in 0..2, NEW retain \in BOOLEAN
  PROVE  Copy(e, f, msg, retain) \in PublishWrite
<1>1. e.client.chan \in Channels /\ e.qos \in 0..2
  <2>1. e.client \in Client /\ e.qos \in 0..2
    OBVIOUS
  <2> QED
    BY <2>1, ClientFields
<1>2. LeastQos(msg.qos, e.qos) \in 0..2
  BY <1>1 DEF LeastQos
<1> QED
  BY <1>1, <1>2 DEF Copy, PublishWrite

LEMMA CopiesAreWrites ==
  ASSUME NEW m \in Subscribers, NEW f \in Filters \cup {Trash}, NEW msg,
         msg.topic \in Topics \cup {Trash}, msg.payload \in Payloads \cup Topics,
         msg.qos \in 0..2
  PROVE  Copies(m, f, msg) \subseteq PublishWrite
<1>1. ASSUME NEW e \in Entries(m)
      PROVE  Copy(e, f, msg, FALSE) \in PublishWrite
  <2>1. e \in [client : Client, qos : 0..2]
    BY DEF Entries, Subscribers
  <2> QED
    BY <2>1, CopyIsWrite
<1> QED
  BY <1>1 DEF Copies

LEMMA MessageFields ==
  ASSUME NEW msg \in Message
  PROVE  /\ msg.topic \in Topics /\ msg.topic \in Filters /\ msg.payload \in Payloads
         /\ msg.qos \in 0..2 /\ msg.qos \in QoSes /\ msg.retain \in BOOLEAN
BY QoSAssumption DEF Message, Filters

LEMMA WriteTyped ==
  ASSUME NEW packets \in SUBSET (PublishWrite \cup ConnackWrite), Write(packets)
  PROVE  out' \subseteq PublishWrite \cup ConnackWrite
BY DEF Write

-----------------------------------------------------------------------------
(* Every handler preserves the inductive invariant *)

LEMMA InitIInv == Init => IInv
<1> SUFFICES ASSUME Init
             PROVE  IInv
  OBVIOUS
<1>1. TypeOK
  BY BoundAssumption DEF Init, TypeOK, Subscribers
<1>2. IdleHasNoClient /\ OneChannelPerClient /\ SessionsApart /\ IndexAgrees
  BY DEF Init, IdleHasNoClient, OneChannelPerClient, Live, SessionsApart, IndexAgrees
<1>3. EntriesInPlace /\ EntriesOwned
  BY DEF Init, EntriesInPlace, EntriesOwned, Entry, EntryOf
<1> QED
  BY <1>1, <1>2, <1>3 DEF IInv

\* Steps that change no registry, no subscription and no entry; a channel may open,
\* or be closed.
LEMMA SameEntriesIInv ==
  ASSUME IInv, TypeOK',
         UNCHANGED <<param, clients, sessions, subs>>,
         \A f \in Filters, i \in ClientIds : Entry(f, i)' = Entry(f, i),
         \A ch \in Channels : \/ chan'[ch] = chan[ch]
                              \/ chan[ch] = "idle" /\ chan'[ch] = "open"
                              \/ chan'[ch] \in {"closing", "closed"}
  PROVE  IInv'
<1>1. IdleHasNoClient' /\ OneChannelPerClient' /\ SessionsApart'
  BY DEF IInv, IdleHasNoClient, OneChannelPerClient, Live, SessionsApart
<1>2. IndexAgrees'
  <2> SUFFICES ASSUME NEW ch \in Channels, param[ch] # NULL, NEW f \in Filters
               PROVE  Agrees(param[ch], f)'
    BY DEF IndexAgrees
  <2>1. param[ch].cid \in ClientIds
    <3>1. param[ch] \in Client
      BY DEF IInv, TypeOK
    <3> QED
      BY <3>1, ClientFields
  <2>2. Agrees(param[ch], f) /\ Entry(f, param[ch].cid)' = Entry(f, param[ch].cid)
    BY <2>1 DEF IInv, IndexAgrees
  <2> QED
    BY <2>2 DEF Agrees
<1>3. EntriesInPlace' /\ EntriesOwned'
  <2> SUFFICES ASSUME NEW f \in Filters, NEW i \in ClientIds, Entry(f, i)' # NULL
               PROVE  /\ Entry(f, i)'.client.cid = i
                      /\ chan'[Entry(f, i)'.client.chan] # "idle"
                      /\ chan'[Entry(f, i)'.client.chan] = "open"
                         => param'[Entry(f, i)'.client.chan] = Entry(f, i)'.client
    BY DEF EntriesInPlace, EntriesOwned
  <2> DEFINE e == Entry(f, i)
  <2>1. Entry(f, i)' = e /\ e # NULL /\ e.client.chan \in Channels
    BY EntryFields DEF IInv
  <2>2. e.client.cid = i /\ chan[e.client.chan] # "idle"
    BY <2>1 DEF IInv, EntriesInPlace
  <2>3. chan[e.client.chan] = "open" => param[e.client.chan] = e.client
    BY <2>1 DEF IInv, EntriesOwned
  <2> QED
    BY <2>1, <2>2, <2>3
<1> QED
  BY <1>1, <1>2, <1>3 DEF IInv

\* What the invariant says of a channel that has a client.
LEMMA LiveClient ==
  ASSUME IInv, NEW ch \in Channels, param[ch] # NULL
  PROVE  /\ param[ch] \in Client /\ param[ch].chan = ch
         /\ param[ch].cid \in ClientIds
         /\ clients[param[ch].cid] = param[ch]
         /\ sessions[param[ch].cid] = param[ch].sess
         /\ param[ch].sess \in 1..Len(subs)
         /\ \A x \in Channels : param[x] # NULL /\ param[x].cid = param[ch].cid => x = ch
         /\ \A x \in Channels : param[x] # NULL /\ param[x].sess = param[ch].sess => x = ch
<1>1. /\ param[ch].chan = ch
      /\ clients[param[ch].cid] = param[ch]
      /\ sessions[param[ch].cid] = param[ch].sess
      /\ \A x \in Channels : param[x] # NULL /\ param[x].cid = param[ch].cid => x = ch
  BY DEF IInv, OneChannelPerClient, Live
<1>2. param[ch] \in Client /\ param[ch].cid \in ClientIds /\ param[ch].sess \in 1..MaxSessions
  <2>1. param[ch] \in Client
    BY DEF IInv, TypeOK
  <2> QED
    BY <2>1, ClientFields
<1>3. sessions[param[ch].cid] # NULL
  BY <1>1, <1>2, NullAssumption
<1>4. param[ch].sess <= Len(subs)
  BY <1>1, <1>2, <1>3 DEF IInv, SessionsApart
<1>5. ASSUME NEW x \in Channels, param[x] # NULL, param[x].sess = param[ch].sess
      PROVE  x = ch
  <2>1. param[x] \in Client /\ sessions[param[x].cid] = param[x].sess
    BY <1>5 DEF IInv, TypeOK, OneChannelPerClient, Live
  <2>2. param[x].cid \in ClientIds
    BY <2>1, ClientFields
  <2>3. param[x].cid = param[ch].cid
    BY <1>1, <1>2, <1>3, <1>5, <2>1, <2>2 DEF IInv, SessionsApart
  <2> QED
    BY <1>1, <1>5, <2>3
<1>6. Len(subs) \in Nat
  BY DEF IInv, TypeOK
<1> QED
  BY <1>1, <1>2, <1>4, <1>5, <1>6

\* Steps that change the subscriptions of one client that has a channel, in its
\* session and in the topics alike.
LEMMA SubscriptionsIInv ==
  ASSUME IInv, TypeOK', NEW ch \in Channels, param[ch] # NULL, chan[ch] = "open",
         UNCHANGED <<chan, param, clients, sessions>>,
         Len(subs') = Len(subs),
         \A s \in 1..Len(subs) : s # param[ch].sess => subs'[s] = subs[s],
         \A f \in Filters, i \in ClientIds : i # param[ch].cid => Entry(f, i)' = Entry(f, i),
         \A f \in Filters :
           LET c == param[ch]
               q == subs'[c.sess][f]
           IN  IF q = NULL
                 THEN \/ Entry(f, c.cid)' = NULL
                      \/ Entry(f, c.cid)' = Entry(f, c.cid) /\ Entry(f, c.cid).client # c
                 ELSE Entry(f, c.cid)' = [client |-> c, qos |-> q]
  PROVE  IInv'
<1> DEFINE c == param[ch]
<1>1. /\ c \in Client /\ c.chan = ch /\ c.cid \in ClientIds /\ c.sess \in 1..Len(subs)
      /\ \A x \in Channels : param[x] # NULL /\ param[x].cid = c.cid => x = ch
      /\ \A x \in Channels : param[x] # NULL /\ param[x].sess = c.sess => x = ch
  BY LiveClient
<1>2. IdleHasNoClient' /\ OneChannelPerClient' /\ SessionsApart'
  BY DEF IInv, IdleHasNoClient, OneChannelPerClient, Live, SessionsApart
<1>3. IndexAgrees'
  <2> SUFFICES ASSUME NEW x \in Channels, param[x] # NULL, NEW f \in Filters
               PROVE  Agrees(param[x], f)'
    BY DEF IndexAgrees
  <2>1. CASE x = ch
    <3>1. IF subs'[c.sess][f] = NULL
            THEN \/ Entry(f, c.cid)' = NULL
                 \/ Entry(f, c.cid)' = Entry(f, c.cid) /\ Entry(f, c.cid).client # c
            ELSE Entry(f, c.cid)' = [client |-> c, qos |-> subs'[c.sess][f]]
      OBVIOUS
    <3> QED
      BY <2>1, <3>1 DEF Agrees
  <2>2. CASE x # ch
    <3>1. /\ param[x].cid # c.cid /\ param[x].cid \in ClientIds
          /\ param[x].sess # c.sess /\ param[x].sess \in 1..Len(subs)
      BY <1>1, <2>2, LiveClient
    <3>2. Entry(f, param[x].cid)' = Entry(f, param[x].cid) /\ subs'[param[x].sess] = subs[param[x].sess]
      BY <3>1
    <3>3. Agrees(param[x], f)
      BY <2>2 DEF IInv, IndexAgrees
    <3> QED
      BY <3>2, <3>3 DEF Agrees
  <2> QED
    BY <2>1, <2>2
<1>4. EntriesInPlace' /\ EntriesOwned'
  <2> SUFFICES ASSUME NEW f \in Filters, NEW i \in ClientIds, Entry(f, i)' # NULL
               PROVE  /\ Entry(f, i)'.client.cid = i
                      /\ chan'[Entry(f, i)'.client.chan] # "idle"
                      /\ chan'[Entry(f, i)'.client.chan] = "open"
                         => param'[Entry(f, i)'.client.chan] = Entry(f, i)'.client
    BY DEF EntriesInPlace, EntriesOwned
  <2>1. CASE Entry(f, i)' = Entry(f, i)
    BY <2>1 DEF IInv, EntriesInPlace, EntriesOwned
  <2>2. CASE Entry(f, i)' # Entry(f, i)
    <3>1. i = c.cid
      BY <2>2
    <3>2. CASE subs'[c.sess][f] = NULL
      BY <2>2, <3>1, <3>2
    <3>3. CASE subs'[c.sess][f] # NULL
      <4>1. Entry(f, i)' = [client |-> c, qos |-> subs'[c.sess][f]]
        BY <3>1, <3>3
      <4> QED
        BY <1>1, <3>1, <4>1
    <3> QED
      BY <3>2, <3>3
  <2> QED
    BY <2>1, <2>2
<1> QED
  BY <1>2, <1>3, <1>4 DEF IInv

\* Steps that deregister the client of one channel and take it out of its topics.
LEMMA GoneIInv ==
  ASSUME IInv, TypeOK', NEW ch \in Channels, param[ch] # NULL,
         param' = [param EXCEPT ![ch] = NULL], Deregister(param[ch]), subs' = subs,
         chan' = chan \/ chan' = [chan EXCEPT ![ch] = "closed"],
         \A f \in Filters, i \in ClientIds :
           Entry(f, i)' = IF i = param[ch].cid /\ subs[param[ch].sess][f] # NULL THEN NULL
                          ELSE Entry(f, i)
  PROVE  IInv'
<1> DEFINE c == param[ch]
<1>1. /\ c \in Client /\ c.chan = ch /\ c.cid \in ClientIds /\ c.sess \in 1..Len(subs)
      /\ \A x \in Channels : param[x] # NULL /\ param[x].cid = c.cid => x = ch
  BY LiveClient
<1>2. \A x \in Channels : param'[x] = IF x = ch THEN NULL ELSE param[x]
  BY DEF IInv, TypeOK
<1>3. /\ \A i \in ClientIds : clients'[i] = IF i = c.cid THEN NULL ELSE clients[i]
      /\ \A i \in ClientIds : sessions'[i] = sessions[i] \/ (i = c.cid /\ sessions'[i] = NULL)
  BY <1>1 DEF Deregister, IInv, TypeOK
<1>4. OneChannelPerClient'
  <2>1. ASSUME NEW x \in Channels, param'[x] # NULL
        PROVE  /\ param'[x] = param[x] /\ param[x] # NULL /\ x # ch
               /\ param[x].cid \in ClientIds /\ param[x].cid # c.cid
    BY <1>1, <1>2, <2>1, LiveClient
  <2> QED
    BY <1>3, <2>1 DEF IInv, OneChannelPerClient, Live
<1>5. SessionsApart' /\ IdleHasNoClient'
  <2>1. \A x \in Channels : chan'[x] = chan[x] \/ chan'[x] = "closed"
    BY DEF IInv, TypeOK
  <2> QED
    BY <1>2, <1>3, <2>1 DEF IInv, SessionsApart, IdleHasNoClient
<1>6. IndexAgrees'
  <2> SUFFICES ASSUME NEW x \in Channels, param'[x] # NULL, NEW f \in Filters
               PROVE  Agrees(param[x], f)'
    BY DEF IndexAgrees
  <2>1. /\ param'[x] = param[x] /\ param[x] # NULL
        /\ param[x].cid \in ClientIds /\ param[x].cid # c.cid
    BY <1>1, <1>2, LiveClient
  <2>2. Entry(f, param[x].cid)' = Entry(f, param[x].cid)
    BY <2>1
  <2>3. Agrees(param[x], f)
    BY <2>1 DEF IInv, IndexAgrees
  <2> QED
    BY <2>1, <2>2, <2>3 DEF Agrees
<1>7. EntriesInPlace' /\ EntriesOwned'
  <2> SUFFICES ASSUME NEW f \in Filters, NEW i \in ClientIds, Entry(f, i)' # NULL
               PROVE  /\ Entry(f, i)'.client.cid = i
                      /\ chan'[Entry(f, i)'.client.chan] # "idle"
                      /\ chan'[Entry(f, i)'.client.chan] = "open"
                         => param'[Entry(f, i)'.client.chan] = Entry(f, i)'.client
    BY DEF EntriesInPlace, EntriesOwned
  <2> DEFINE e == Entry(f, i)
  <2>1. Entry(f, i)' = e /\ e # NULL /\ e.client.chan \in Channels /\ e.client \in Client
    BY EntryFields DEF IInv
  <2>2. e.client.cid = i /\ chan[e.client.chan] # "idle"
    BY <2>1 DEF IInv, EntriesInPlace
  <2>3. chan[e.client.chan] = "open" => param[e.client.chan] = e.client
    BY <2>1 DEF IInv, EntriesOwned
  <2>4. \A x \in Channels : chan'[x] = chan[x] \/ chan'[x] = "closed"
    BY DEF IInv, TypeOK
  <2>5. CASE chan[e.client.chan] = "open" /\ e.client.chan = ch
    <3>1. e.client = c /\ i = c.cid /\ subs[c.sess][f] = NULL
      BY <2>1, <2>2, <2>3, <2>5
    <3> QED
      BY <2>1, <3>1 DEF IInv, IndexAgrees, Agrees
  <2>6. CASE ~(chan[e.client.chan] = "open" /\ e.client.chan = ch)
    BY <1>2, <2>1, <2>2, <2>3, <2>4, <2>6
  <2> QED
    BY <2>5, <2>6
<1> QED
  BY <1>4, <1>5, <1>6, <1>7 DEF IInv

LEMMA ConnectedIInv ==
  ASSUME IInv, NEW ch \in Channels, channel_connected(ch)
  PROVE  IInv'
<1>1. TypeOK'
  BY DEF channel_connected, IInv, TypeOK
<1>2. \A f \in Filters, i \in ClientIds : Entry(f, i)' = Entry(f, i)
  BY DEF channel_connected, Entry
<1>3. \A x \in Channels : chan'[x] = chan[x] \/ (chan[x] = "idle" /\ chan'[x] = "open")
  BY DEF channel_connected, IInv, TypeOK
<1> QED
  BY <1>1, <1>2, <1>3, SameEntriesIInv DEF channel_connected

LEMMA CloseIInv ==
  ASSUME IInv, NEW ch \in Channels, close(ch)
  PROVE  IInv'
<1>1. TypeOK'
  BY DEF close, IInv, TypeOK
<1>2. \A f \in Filters, i \in ClientIds : Entry(f, i)' = Entry(f, i)
  BY DEF close, Entry
<1>3. \A x \in Channels : chan'[x] = chan[x] \/ chan'[x] = "closing"
  BY DEF close, IInv, TypeOK
<1> QED
  BY <1>1, <1>2, <1>3, SameEntriesIInv DEF close

LEMMA ConnectRefusedIInv ==
  ASSUME IInv, NEW ch \in Channels, handle_connect_refused(ch)
  PROVE  IInv'
<1>1. TypeOK'
  <2>1. {[kind |-> "CONNACK", chan |-> ch, present |-> FALSE, accepted |-> FALSE]}
          \subseteq PublishWrite \cup ConnackWrite
    BY DEF ConnackWrite
  <2>2. out' \subseteq PublishWrite \cup ConnackWrite
    BY <2>1, WriteTyped DEF handle_connect_refused
  <2>3. chan' \in [Channels -> {"idle", "open", "closing", "closed"}]
    BY DEF handle_connect_refused, IInv, TypeOK
  <2> QED
    BY <2>2, <2>3 DEF handle_connect_refused, IInv, TypeOK
<1>2. \A f \in Filters, i \in ClientIds : Entry(f, i)' = Entry(f, i)
  BY DEF handle_connect_refused, Entry
<1>3. \A x \in Channels : chan'[x] = chan[x] \/ chan'[x] = "closing"
  BY DEF handle_connect_refused, IInv, TypeOK
<1> QED
  BY <1>1, <1>2, <1>3, SameEntriesIInv DEF handle_connect_refused

\* What a step that runs topic::publish on the topics of hit does to the topics.
LEMMA PublishOnEntries ==
  ASSUME TypeOK, NEW msg \in Message, NEW hit \in SUBSET Filters,
         \A f \in hit : topics[f] # NULL,
         NEW f \in Filters, NEW t,
         t = IF f \in hit THEN retained_message(topics[f], msg) ELSE topics[f]
  PROVE  /\ t \in Topic \cup {NULL}
         /\ \A i \in ClientIds : EntryOf(t, i) = Entry(f, i)
<1>1. CASE f \in hit
  <2>1. topics[f] \in Topic
    BY <1>1 DEF TypeOK
  <2>2. t = retained_message(topics[f], msg) /\ t \in Topic /\ t.clients = topics[f].clients
    BY <1>1, <2>1, RetainedEntries
  <2> QED
    BY <1>1, <2>1, <2>2, NullAssumption DEF EntryOf, Entry
<1>2. CASE f \notin hit
  BY <1>2 DEF TypeOK, Entry
<1> QED
  BY <1>1, <1>2

LEMMA PublishIInv ==
  ASSUME IInv, NEW ch \in Channels, NEW msg \in Publications, handle_publish(ch, msg)
  PROVE  IInv'
<1> DEFINE wild == {f \in WildFilters : topics[f] # NULL /\ <<f, msg.topic>> \in Matching}
           hit == {f \in {msg.topic} : topics[f] # NULL} \cup wild
           copies == UNION {Copies(topics[f].clients, f, msg) : f \in hit}
           notice == [topic |-> Trash, qos |-> 1, payload |-> msg.topic]
<1>1. msg \in Message
  BY MessageAssumption
<1>2. hit \in SUBSET Filters /\ \A f \in hit : topics[f] # NULL
  BY <1>1, MessageFields DEF Filters
<1>3. /\ topics' = [f \in Filters |-> IF f \in hit THEN retained_message(topics[f], msg)
                                      ELSE topics[f]]
      /\ UNCHANGED <<chan, param, clients, sessions, subs, trash>>
      /\ Write(copies) \/ Write(copies \cup Copies(trash, Trash, notice))
  BY DEF handle_publish
<1> HIDE DEF hit
<1>4. /\ topics' \in [Filters -> Topic \cup {NULL}]
      /\ \A f \in Filters, i \in ClientIds : EntryOf(topics'[f], i) = Entry(f, i)
  <2>1. ASSUME NEW f \in Filters
        PROVE  /\ topics'[f] \in Topic \cup {NULL}
               /\ \A i \in ClientIds : EntryOf(topics'[f], i) = Entry(f, i)
    <3>1. topics'[f] = IF f \in hit THEN retained_message(topics[f], msg) ELSE topics[f]
      BY <1>3
    <3>2. TypeOK
      BY DEF IInv
    <3> HIDE DEF copies, notice, wild
    <3> QED
      BY <1>1, <1>2, <3>1, <3>2, PublishOnEntries
  <2> QED
    BY <1>3, <2>1
<1>5. \A f \in Filters, i \in ClientIds : Entry(f, i)' = Entry(f, i)
  BY <1>4 DEF Entry
<1>6. copies \subseteq PublishWrite
  <2>1. ASSUME NEW f \in hit
        PROVE  Copies(topics[f].clients, f, msg) \subseteq PublishWrite
    <3>1. topics[f].clients \in Subscribers /\ f \in Filters
      BY <1>2 DEF IInv, TypeOK, Topic
    <3> QED
      BY <1>1, <3>1, CopiesAreWrites, MessageFields
  <2> QED
    BY <2>1
<1>7. Copies(trash, Trash, notice) \subseteq PublishWrite
  <2>1. trash \in Subscribers /\ notice.topic = Trash /\ notice.payload \in Topics /\ notice.qos = 1
    BY <1>1, MessageFields DEF IInv, TypeOK
  <2> QED
    BY <2>1, CopiesAreWrites
<1>8. TypeOK'
  <2>1. out' \subseteq PublishWrite \cup ConnackWrite
    BY <1>3, <1>6, <1>7, WriteTyped
  <2> QED
    BY <1>3, <1>4, <2>1 DEF IInv, TypeOK
<1> QED
  BY <1>3, <1>5, <1>8, SameEntriesIInv

\* publish_retained_message to a client with an entry in each of those topics.
LEMMA RetainedAreWrites ==
  ASSUME NEW tops \in [Filters -> Topic \cup {NULL}], NEW c \in Client, NEW fs \in SUBSET Filters,
         \A f \in fs : tops[f] # NULL /\ tops[f].clients[c.cid] # NULL
  PROVE  publish_retained_message(tops, c, fs) \subseteq PublishWrite
<1> DEFINE Names(f) == {m \in Topics : /\ m = f \/ <<f, m>> \in Matching
                                       /\ tops[m] # NULL
                                       /\ tops[m].retained # NULL}
           message(n) == [topic |-> n, qos |-> tops[n].retained.qos,
                          payload |-> tops[n].retained.payload]
<1>1. ASSUME NEW f \in fs, NEW n \in Names(f)
      PROVE  Copy(tops[f].clients[c.cid], f, message(n), TRUE) \in PublishWrite
  <2>1. tops[f].clients[c.cid] \in [client : Client, qos : 0..2]
    <3>1. tops[f] \in Topic /\ c.cid \in ClientIds
      BY ClientFields
    <3> QED
      BY <3>1, TopicFields
  <2>2. /\ message(n).topic \in Topics \cup {Trash}
        /\ message(n).payload \in Payloads \cup Topics
        /\ message(n).qos \in 0..2
    <3>1. n \in Topics /\ n \in Filters /\ tops[n] # NULL /\ tops[n].retained # NULL
      BY DEF Filters
    <3>2. tops[n].retained \in Retained
      BY <3>1 DEF Topic
    <3> QED
      BY <3>1, <3>2, QoSAssumption DEF Retained
  <2> QED
    BY <2>1, <2>2, CopyIsWrite
<1>2. publish_retained_message(tops, c, fs) =
        UNION {{Copy(tops[f].clients[c.cid], f, message(n), TRUE) : n \in Names(f)} : f \in fs}
  BY DEF publish_retained_message
<1> SUFFICES ASSUME NEW w \in publish_retained_message(tops, c, fs)
             PROVE  w \in PublishWrite
  OBVIOUS
<1> HIDE DEF Names, message
<1>3. PICK f \in fs : w \in {Copy(tops[f].clients[c.cid], f, message(n), TRUE) : n \in Names(f)}
  BY <1>2
<1>4. PICK n \in Names(f) : w = Copy(tops[f].clients[c.cid], f, message(n), TRUE)
  BY <1>3
<1> QED
  BY <1>1, <1>4

LEMMA SubscribeIInv ==
  ASSUME IInv, NEW ch \in Channels, NEW rq \in Requests, handle_subscribe(ch, rq)
  PROVE  IInv'
<1> DEFINE c == param[ch]
           plain == DOMAIN rq \cap Filters
<1>1. /\ chan[ch] = "open" /\ param[ch] # NULL
      /\ topics' = [f \in Filters |->
                      IF f \in plain THEN subscribe(get_topic_ptr_to_subscribe(f), c, rq[f])
                      ELSE topics[f]]
      /\ subs' = [subs EXCEPT ![c.sess] =
                     [f \in Filters |-> IF f \in plain THEN rq[f] ELSE subs[c.sess][f]]]
      /\ trash' = IF Trash \in DOMAIN rq /\ c.cid \in Admins
                    THEN [trash EXCEPT ![c.cid] = [client |-> c, qos |-> 2]]
                    ELSE trash
      /\ UNCHANGED <<chan, param, clients, sessions>>
      /\ Write(publish_retained_message(topics', c, plain))
  BY DEF handle_subscribe, Connected
<1>2. c \in Client /\ c.cid \in ClientIds /\ c.sess \in 1..Len(subs) /\ c.sess \in 1..MaxSessions
  BY <1>1, LiveClient, ClientFields
<1>3. \A f \in plain : rq[f] \in QoSes /\ rq[f] \in 0..2 /\ rq[f] # NULL
  BY FilterAssumption, QoSAssumption, MessageAssumption
<1> HIDE DEF c
<1>4. ASSUME NEW f \in Filters
      PROVE  /\ topics'[f] \in Topic \cup {NULL}
             /\ \A i \in ClientIds :
                  EntryOf(topics'[f], i) = IF f \in plain /\ i = c.cid
                                             THEN [client |-> c, qos |-> rq[f]]
                                             ELSE Entry(f, i)
             /\ f \in plain => topics'[f] # NULL
  <2>1. CASE f \in plain
    <3> DEFINE t == get_topic_ptr_to_subscribe(f)
               q == rq[f]
               s == topics'[f]
    <3>1. t \in Topic /\ q \in 0..2 /\ \A i \in ClientIds : t.clients[i] = Entry(f, i)
      BY <1>3, <2>1, ToSubscribeEntries DEF IInv
    <3>2. s = subscribe(t, c, q)
      BY <1>1, <2>1
    <3> HIDE DEF t, q, s
    <3>3. /\ s \in Topic
          /\ \A i \in ClientIds : s.clients[i] = IF i = c.cid THEN [client |-> c, qos |-> q]
                                                ELSE t.clients[i]
      BY <1>2, <3>1, <3>2, SubscribeEntries
    <3>4. s # NULL
      BY <3>3, NullAssumption
    <3> QED
      BY <2>1, <3>1, <3>3, <3>4 DEF EntryOf, q, s
  <2>2. CASE f \notin plain
    BY <1>1, <2>2 DEF IInv, TypeOK, Entry
  <2> QED
    BY <2>1, <2>2
<1>5. /\ subs' \in Seq([Filters -> QoSes \cup {NULL}]) /\ Len(subs') = Len(subs)
      /\ \A s \in 1..Len(subs) : s # c.sess => subs'[s] = subs[s]
      /\ \A f \in Filters : subs'[c.sess][f] = IF f \in plain THEN rq[f] ELSE subs[c.sess][f]
  <2> DEFINE new == [f \in Filters |-> IF f \in plain THEN rq[f] ELSE subs[c.sess][f]]
  <2>1. subs \in Seq([Filters -> QoSes \cup {NULL}])
    BY DEF IInv, TypeOK
  <2>2. new \in [Filters -> QoSes \cup {NULL}]
    BY <1>2, <1>3, <2>1
  <2>3. \A f \in Filters : new[f] = IF f \in plain THEN rq[f] ELSE subs[c.sess][f]
    OBVIOUS
  <2>4. subs' = [subs EXCEPT ![c.sess] = new]
    BY <1>1
  <2> HIDE DEF new
  <2> QED
    BY <1>2, <2>1, <2>2, <2>3, <2>4
<1>6. TypeOK'
  <2>1. topics' \in [Filters -> Topic \cup {NULL}]
    BY <1>1, <1>4
  <2>2. trash' \in Subscribers
    BY <1>1, <1>2 DEF IInv, TypeOK, Subscribers
  <2>3. publish_retained_message(topics', c, plain) \subseteq PublishWrite
    <3> DEFINE tops == topics'
    <3>1. tops \in [Filters -> Topic \cup {NULL}] /\ plain \in SUBSET Filters
      BY <2>1
    <3>2. ASSUME NEW f \in plain
          PROVE  tops[f] # NULL /\ tops[f].clients[c.cid] # NULL
      <4>1. tops[f] # NULL /\ EntryOf(tops[f], c.cid) = [client |-> c, qos |-> rq[f]]
        BY <1>2, <1>4
      <4>2. [client |-> c, qos |-> rq[f]] # NULL
        BY <1>2, <1>3, NullAssumption
      <4> QED
        BY <4>1, <4>2 DEF EntryOf
    <3> HIDE DEF tops
    <3>3. publish_retained_message(tops, c, plain) \subseteq PublishWrite
      BY <1>2, <3>1, <3>2, RetainedAreWrites
    <3> QED
      BY <3>3 DEF tops
  <2>4. out' \subseteq PublishWrite \cup ConnackWrite
    BY <1>1, <2>3, WriteTyped
  <2> QED
    BY <1>1, <1>5, <2>1, <2>2, <2>4 DEF IInv, TypeOK
<1>7. \A f \in Filters, i \in ClientIds : i # c.cid => Entry(f, i)' = Entry(f, i)
  BY <1>4 DEF Entry
<1>8. ASSUME NEW f \in Filters
      PROVE  IF subs'[c.sess][f] = NULL
               THEN \/ Entry(f, c.cid)' = NULL
                    \/ Entry(f, c.cid)' = Entry(f, c.cid) /\ Entry(f, c.cid).client # c
               ELSE Entry(f, c.cid)' = [client |-> c, qos |-> subs'[c.sess][f]]
  <2>1. Agrees(c, f)
    BY <1>1 DEF IInv, IndexAgrees, c
  <2>2. Entry(f, c.cid)' = EntryOf(topics'[f], c.cid)
    BY <1>1 DEF c, Entry
  <2> QED
    BY <1>2, <1>3, <1>4, <1>5, <2>1, <2>2 DEF Agrees
<1> QED
  BY <1>1, <1>5, <1>6, <1>7, <1>8, SubscriptionsIInv DEF c

\* Taking a client out of a topic object and erasing the object if it became empty.
LEMMA UnsubscribedEntries ==
  ASSUME NEW t \in Topic, NEW c \in Client, NEW u, u = EraseIfEmpty(unsubscribe(t, c))
  PROVE  /\ u \in Topic \cup {NULL}
         /\ \A i \in ClientIds : EntryOf(u, i) = IF i = c.cid THEN NULL ELSE EntryOf(t, i)
         /\ u # NULL => ~empty(u) /\ u.retained = t.retained
         /\ u = NULL => t.retained = NULL
<1> DEFINE v == unsubscribe(t, c)
<1>1. /\ v \in Topic /\ v.retained = t.retained
      /\ \A i \in ClientIds : v.clients[i] = IF i = c.cid THEN NULL ELSE t.clients[i]
  BY UnsubscribeEntries
<1>2. u = EraseIfEmpty(v)
  OBVIOUS
<1> HIDE DEF v
<1>3. /\ u \in Topic \cup {NULL}
      /\ \A i \in ClientIds : EntryOf(u, i) = v.clients[i]
      /\ u # NULL => u = v /\ ~empty(v)
      /\ u = NULL => v.retained = NULL
  BY <1>1, <1>2, EraseEntries
<1>4. \A i \in ClientIds : EntryOf(t, i) = t.clients[i]
  BY NullAssumption DEF EntryOf
<1> QED
  BY <1>1, <1>3, <1>4

LEMMA UnsubscribeIInv ==
  ASSUME IInv, NEW ch \in Channels, NEW fs, handle_unsubscribe(ch, fs)
  PROVE  IInv'
<1> DEFINE c == param[ch]
           known == {f \in fs \cap Filters : topics[f] # NULL}
<1>1. /\ chan[ch] = "open" /\ param[ch] # NULL
      /\ topics' = [f \in Filters |-> IF f \in known THEN EraseIfEmpty(unsubscribe(topics[f], c))
                                      ELSE topics[f]]
      /\ subs' = [subs EXCEPT ![c.sess] =
                     [f \in Filters |-> IF f \in known THEN NULL ELSE subs[c.sess][f]]]
      /\ out' = {}
      /\ UNCHANGED <<chan, param, clients, sessions, trash>>
  BY DEF handle_unsubscribe, Connected
<1>2. c \in Client /\ c.cid \in ClientIds /\ c.sess \in 1..Len(subs)
  BY <1>1, LiveClient
<1> HIDE DEF c
<1>3. ASSUME NEW f \in Filters
      PROVE  /\ topics'[f] \in Topic \cup {NULL}
             /\ \A i \in ClientIds :
                  EntryOf(topics'[f], i) = IF f \in known /\ i = c.cid THEN NULL ELSE Entry(f, i)
  <2>1. CASE f \in known
    <3> DEFINE t == topics[f]
               u == topics'[f]
    <3>1. t \in Topic /\ u = EraseIfEmpty(unsubscribe(t, c))
      BY <1>1, <2>1 DEF IInv, TypeOK
    <3> HIDE DEF t, u
    <3>2. /\ u \in Topic \cup {NULL}
          /\ \A i \in ClientIds : EntryOf(u, i) = IF i = c.cid THEN NULL ELSE EntryOf(t, i)
      BY <1>2, <3>1, UnsubscribedEntries
    <3> QED
      BY <2>1, <3>2 DEF t, u, Entry
  <2>2. CASE f \notin known
    BY <1>1, <2>2 DEF IInv, TypeOK, Entry
  <2> QED
    BY <2>1, <2>2
<1>4. /\ subs' \in Seq([Filters -> QoSes \cup {NULL}]) /\ Len(subs') = Len(subs)
      /\ \A s \in 1..Len(subs) : s # c.sess => subs'[s] = subs[s]
      /\ \A f \in Filters : subs'[c.sess][f] = IF f \in known THEN NULL ELSE subs[c.sess][f]
  <2> DEFINE new == [f \in Filters |-> IF f \in known THEN NULL ELSE subs[c.sess][f]]
  <2>1. subs \in Seq([Filters -> QoSes \cup {NULL}])
    BY DEF IInv, TypeOK
  <2>2. new \in [Filters -> QoSes \cup {NULL}]
    BY <1>2, <2>1
  <2>3. \A f \in Filters : new[f] = IF f \in known THEN NULL ELSE subs[c.sess][f]
    OBVIOUS
  <2>4. subs' = [subs EXCEPT ![c.sess] = new]
    BY <1>1
  <2> HIDE DEF new
  <2> QED
    BY <1>2, <2>1, <2>2, <2>3, <2>4
<1>5. TypeOK'
  <2>1. topics' \in [Filters -> Topic \cup {NULL}]
    BY <1>1, <1>3
  <2> QED
    BY <1>1, <1>4, <2>1 DEF IInv, TypeOK
<1>6. \A f \in Filters, i \in ClientIds : i # c.cid => Entry(f, i)' = Entry(f, i)
  BY <1>3 DEF Entry
<1>7. ASSUME NEW f \in Filters
      PROVE  IF subs'[c.sess][f] = NULL
               THEN \/ Entry(f, c.cid)' = NULL
                    \/ Entry(f, c.cid)' = Entry(f, c.cid) /\ Entry(f, c.cid).client # c
               ELSE Entry(f, c.cid)' = [client |-> c, qos |-> subs'[c.sess][f]]
  <2>1. Agrees(c, f)
    BY <1>1 DEF IInv, IndexAgrees, c
  <2>2. Entry(f, c.cid)' = EntryOf(topics'[f], c.cid)
    BY <1>1 DEF c, Entry
  <2> QED
    BY <1>2, <1>3, <1>4, <2>1, <2>2 DEF Agrees
<1> QED
  BY <1>1, <1>4, <1>5, <1>6, <1>7, SubscriptionsIInv DEF c

\* unsubscribe_all, on topics with the same entries as those of the map.
LEMMA UnsubscribeAllEntries ==
  ASSUME TypeOK, NEW tops \in [Filters -> Topic \cup {NULL}], NEW c \in Client,
         \A f \in Filters, i \in ClientIds : EntryOf(tops[f], i) = Entry(f, i),
         NEW left, left = unsubscribe_all(tops, c)
  PROVE  /\ left \in [Filters -> Topic \cup {NULL}]
         /\ \A f \in Filters, i \in ClientIds :
              EntryOf(left[f], i) = IF i = c.cid /\ subs[c.sess][f] # NULL THEN NULL
                                    ELSE Entry(f, i)
         /\ \A f \in Filters : \/ left[f] = tops[f]
                               \/ /\ tops[f] # NULL
                                  /\ left[f] # NULL => ~empty(left[f])
                                                       /\ left[f].retained = tops[f].retained
                                  /\ left[f] = NULL => tops[f].retained = NULL
<1>1. left = [f \in Filters |->
                IF subs[c.sess][f] # NULL /\ tops[f] # NULL
                  THEN EraseIfEmpty(unsubscribe(tops[f], c))
                  ELSE tops[f]]
  BY DEF unsubscribe_all
<1>2. ASSUME NEW f \in Filters
      PROVE  /\ left[f] \in Topic \cup {NULL}
             /\ \A i \in ClientIds :
                  EntryOf(left[f], i) = IF i = c.cid /\ subs[c.sess][f] # NULL THEN NULL
                                        ELSE Entry(f, i)
             /\ \/ left[f] = tops[f]
                \/ /\ tops[f] # NULL
                   /\ left[f] # NULL => ~empty(left[f]) /\ left[f].retained = tops[f].retained
                   /\ left[f] = NULL => tops[f].retained = NULL
  <2>1. CASE subs[c.sess][f] # NULL /\ tops[f] # NULL
    <3> DEFINE t == tops[f]
               u == left[f]
    <3>1. t \in Topic /\ t # NULL /\ u = EraseIfEmpty(unsubscribe(t, c))
      BY <1>1, <2>1
    <3>2. \A i \in ClientIds : EntryOf(t, i) = Entry(f, i)
      OBVIOUS
    <3> HIDE DEF t, u
    <3>3. /\ u \in Topic \cup {NULL}
          /\ \A i \in ClientIds : EntryOf(u, i) = IF i = c.cid THEN NULL ELSE EntryOf(t, i)
          /\ u # NULL => ~empty(u) /\ u.retained = t.retained
          /\ u = NULL => t.retained = NULL
      BY <3>1, UnsubscribedEntries
    <3>4. subs[c.sess][f] # NULL
      BY <2>1
    <3>5. \A i \in ClientIds : EntryOf(u, i) = IF i = c.cid /\ subs[c.sess][f] # NULL THEN NULL
                                               ELSE Entry(f, i)
      BY <3>2, <3>3, <3>4
    <3> QED
      BY <3>1, <3>3, <3>5 DEF t, u
  <2>2. CASE subs[c.sess][f] = NULL
    BY <1>1, <2>2
  <2>3. CASE tops[f] = NULL
    BY <1>1, <2>3 DEF EntryOf
  <2> QED
    BY <2>1, <2>2, <2>3
<1> QED
  BY <1>1, <1>2

\* publish_will_message keeps every entry.
LEMMA WillEntries ==
  ASSUME TypeOK, NEW c \in Client
  PROVE  /\ WillTopics(c) \in [Filters -> Topic \cup {NULL}]
         /\ \A f \in Filters, i \in ClientIds : EntryOf(WillTopics(c)[f], i) = Entry(f, i)
         /\ \A f \in Filters : WillTopics(c)[f] # NULL =>
              topics[f] # NULL /\ WillTopics(c)[f].clients = topics[f].clients
         /\ WillCopies(c) \subseteq PublishWrite
<1>1. topics \in [Filters -> Topic \cup {NULL}]
  BY DEF TypeOK
<1>2. CASE c.will = NULL \/ topics[c.will.topic] = NULL
  BY <1>1, <1>2 DEF WillTopics, WillCopies, Entry
<1>3. CASE ~(c.will = NULL \/ topics[c.will.topic] = NULL)
  <2> DEFINE n == c.will.topic
             t == topics[n]
             r == retained_message(t, c.will)
  <2>1. /\ c.will \in Message /\ n \in Topics /\ n \in Filters
        /\ c.will.payload \in Payloads /\ c.will.qos \in 0..2
    BY <1>3, ClientFields, MessageFields
  <2>2. t \in Topic /\ t # NULL
    BY <1>1, <1>3, <2>1
  <2>3. r \in Topic /\ r.clients = t.clients /\ r # NULL
    <3> HIDE DEF t
    <3> QED
      BY <2>1, <2>2, RetainedEntries, NullAssumption
  <2>4. WillTopics(c) = [topics EXCEPT ![n] = r]
    BY <1>3 DEF WillTopics
  <2>5. WillCopies(c) = Copies(t.clients, n, c.will)
    BY <1>3 DEF WillCopies
  <2>6. t.clients \in Subscribers
    BY <2>2 DEF Topic
  <2> HIDE DEF r, n
  <2>7. WillCopies(c) \subseteq PublishWrite
    BY <2>1, <2>5, <2>6, CopiesAreWrites DEF n
  <2>8. WillTopics(c) \in [Filters -> Topic \cup {NULL}]
        /\ \A f \in Filters : WillTopics(c)[f] = IF f = n THEN r ELSE topics[f]
    BY <1>1, <2>1, <2>3, <2>4
  <2> QED
    BY <2>2, <2>3, <2>7, <2>8 DEF Entry, EntryOf
<1> QED
  BY <1>2, <1>3

LEMMA DisconnectIInv ==
  ASSUME IInv, NEW ch \in Channels, handle_disconnect(ch)
  PROVE  IInv'
<1> DEFINE c == param[ch]
<1>1. /\ param[ch] # NULL
      /\ param' = [param EXCEPT ![ch] = NULL]
      /\ topics' = unsubscribe_all(topics, c)
      /\ Deregister(c)
      /\ out' = {}
      /\ UNCHANGED <<chan, subs, trash>>
  BY DEF handle_disconnect, Connected
<1>2. c \in Client /\ c.cid \in ClientIds
  BY <1>1, LiveClient
<1> HIDE DEF c
<1>3. /\ topics' \in [Filters -> Topic \cup {NULL}]
      /\ \A f \in Filters, i \in ClientIds :
           EntryOf(topics'[f], i) = IF i = c.cid /\ subs[c.sess][f] # NULL THEN NULL
                                    ELSE Entry(f, i)
  <2>1. topics \in [Filters -> Topic \cup {NULL}]
        /\ \A f \in Filters, i \in ClientIds : EntryOf(topics[f], i) = Entry(f, i)
    BY DEF IInv, TypeOK, Entry
  <2>2. TypeOK
    BY DEF IInv
  <2> QED
    BY <1>1, <1>2, <2>1, <2>2, UnsubscribeAllEntries
<1>4. TypeOK'
  BY <1>1, <1>2, <1>3 DEF IInv, TypeOK, Deregister
<1>5. \A f \in Filters, i \in ClientIds :
        Entry(f, i)' = IF i = c.cid /\ subs[c.sess][f] # NULL THEN NULL ELSE Entry(f, i)
  BY <1>3 DEF Entry
<1> QED
  BY <1>1, <1>4, <1>5, GoneIInv DEF c

LEMMA ChannelDisconnectedIInv ==
  ASSUME IInv, NEW ch \in Channels, handle_channel_disconnected(ch)
  PROVE  IInv'
<1> DEFINE c == param[ch]
<1>1. /\ chan' = [chan EXCEPT ![ch] = "closed"]
      /\ param' = [param EXCEPT ![ch] = NULL]
      /\ UNCHANGED <<subs, trash>>
  BY DEF handle_channel_disconnected
<1>2. CASE c = NULL
  <2>1. out' = {} /\ UNCHANGED <<topics, sessions, clients>>
    BY <1>2 DEF handle_channel_disconnected
  <2>2. param' = param
    BY <1>1, <1>2 DEF IInv, TypeOK
  <2>3. TypeOK'
    BY <1>1, <2>1, <2>2 DEF IInv, TypeOK
  <2>4. \A f \in Filters, i \in ClientIds : Entry(f, i)' = Entry(f, i)
    BY <2>1 DEF Entry
  <2>5. \A x \in Channels : chan'[x] = chan[x] \/ chan'[x] = "closed"
    BY <1>1 DEF IInv, TypeOK
  <2> QED
    BY <1>1, <2>1, <2>2, <2>3, <2>4, <2>5, SameEntriesIInv
<1>3. CASE c # NULL
  <2>1. topics' = unsubscribe_all(WillTopics(c), c) /\ Deregister(c) /\ Write(WillCopies(c))
    BY <1>3 DEF handle_channel_disconnected
  <2>2. c \in Client /\ c.cid \in ClientIds
    BY <1>3, LiveClient
  <2> HIDE DEF c
  <2>3. /\ WillTopics(c) \in [Filters -> Topic \cup {NULL}]
        /\ \A f \in Filters, i \in ClientIds : EntryOf(WillTopics(c)[f], i) = Entry(f, i)
        /\ WillCopies(c) \subseteq PublishWrite
    BY <2>2, WillEntries DEF IInv
  <2>4. /\ topics' \in [Filters -> Topic \cup {NULL}]
        /\ \A f \in Filters, i \in ClientIds :
             EntryOf(topics'[f], i) = IF i = c.cid /\ subs[c.sess][f] # NULL THEN NULL
                                      ELSE Entry(f, i)
    <3>1. TypeOK
      BY DEF IInv
    <3> QED
      BY <2>1, <2>2, <2>3, <3>1, UnsubscribeAllEntries
  <2>5. out' \subseteq PublishWrite \cup ConnackWrite
    BY <2>1, <2>3, WriteTyped
  <2>6. TypeOK'
    BY <1>1, <2>1, <2>2, <2>4, <2>5 DEF IInv, TypeOK, Deregister
  <2>7. \A f \in Filters, i \in ClientIds :
          Entry(f, i)' = IF i = c.cid /\ subs[c.sess][f] # NULL THEN NULL ELSE Entry(f, i)
    BY <2>4 DEF Entry
  <2> QED
    BY <1>1, <1>3, <2>1, <2>6, <2>7, GoneIInv DEF c
<1> QED
  BY <1>2, <1>3

\* The hypothesis of the theorems: a CONNECT with an empty client identifier finds
\* and stores its client under different identifiers (mqtt_server.cpp:222-258).
NoAnonymousClient == Anonymous \notin ClientIds

LEMMA ConnectIInv ==
  ASSUME NoAnonymousClient, IInv, NEW ch \in Channels, NEW cid \in ClientIds,
         NEW clean \in BOOLEAN, NEW will \in Wills, NEW protocol_ok \in BOOLEAN,
         handle_connect(ch, cid, clean, will, protocol_ok)
  PROVE  IInv'
<1> DEFINE old == clients[cid]
           taken == IF old = NULL THEN {} ELSE {old.chan}
           present == ~clean /\ sessions[cid] # NULL
           s == IF present THEN sessions[cid] ELSE Len(subs) + 1
           c == [chan |-> ch, cid |-> cid, clean |-> clean, will |-> will, sess |-> s]
           restored == IF present THEN {f \in Filters : subs[s][f] # NULL} ELSE {}
           doomed == taken \cup (IF param[ch] # NULL \/ ~protocol_ok THEN {ch} ELSE {})
           connack == [kind |-> "CONNACK", chan |-> ch, present |-> present, accepted |-> TRUE]
<1>1. TakenOver(cid) = old
  BY DEF NoAnonymousClient, TakenOver
<1>2. /\ chan[ch] = "open" /\ s <= MaxSessions
      /\ chan' = [x \in Channels |-> IF x \in doomed /\ chan[x] = "open" THEN "closing"
                                     ELSE chan[x]]
      /\ param' = [x \in Channels |-> IF x = ch THEN c
                                      ELSE IF x \in taken THEN NULL ELSE param[x]]
      /\ sessions' = [sessions EXCEPT ![cid] = s]
      /\ subs' = IF present THEN subs ELSE Append(subs, [f \in Filters |-> NULL])
      /\ clients' = [clients EXCEPT ![cid] = c]
      /\ topics' = [f \in Filters |->
                      IF f \in restored
                        THEN subscribe(get_topic_ptr_to_subscribe(f), c, subs[s][f])
                        ELSE topics[f]]
      /\ Write({connack} \cup publish_retained_message(topics', c, restored))
      /\ trash' = trash
  BY <1>1 DEF handle_connect
<1>3. subs \in Seq([Filters -> QoSes \cup {NULL}]) /\ Len(subs) \in Nat
  BY DEF IInv, TypeOK
<1>4. s \in 1..MaxSessions /\ (present => s \in 1..Len(subs))
  BY <1>2, <1>3 DEF IInv, TypeOK, SessionsApart
<1>5. /\ c \in Client /\ c.chan = ch /\ c.cid = cid /\ c.sess = s /\ c # NULL
  BY <1>4, NullAssumption DEF Client
<1>6. ASSUME NEW f \in restored
      PROVE  f \in Filters /\ subs[s][f] \in QoSes /\ subs[s][f] \in 0..2 /\ subs[s][f] # NULL
  <2>1. f \in Filters /\ subs[s][f] # NULL /\ s \in 1..Len(subs)
    BY <1>4
  <2>2. subs[s] \in [Filters -> QoSes \cup {NULL}]
    BY <1>3, <2>1
  <2> QED
    BY <2>1, <2>2, QoSAssumption
<1>7. /\ subs' \in Seq([Filters -> QoSes \cup {NULL}])
      /\ s \in 1..Len(subs') /\ Len(subs) <= Len(subs') /\ Len(subs') <= MaxSessions
      /\ \A k \in 1..Len(subs) : subs'[k] = subs[k]
      /\ \A f \in Filters : /\ f \in restored => subs'[s][f] = subs[s][f]
                            /\ f \notin restored => subs'[s][f] = NULL
  <2>1. CASE present
    BY <1>2, <1>3, <1>4, <2>1 DEF IInv, TypeOK
  <2>2. CASE ~present
    <3> DEFINE none == [f \in Filters |-> NULL]
    <3>1. none \in [Filters -> QoSes \cup {NULL}] /\ \A f \in Filters : none[f] = NULL
      OBVIOUS
    <3>2. subs' = Append(subs, none) /\ s = Len(subs) + 1
      BY <1>2, <2>2
    <3> HIDE DEF none
    <3>3. /\ subs' \in Seq([Filters -> QoSes \cup {NULL}])
          /\ Len(subs') = Len(subs) + 1 /\ subs'[s] = none
          /\ \A k \in 1..Len(subs) : subs'[k] = subs[k]
      BY <1>3, <3>1, <3>2
    <3> QED
      BY <1>2, <1>3, <1>4, <2>2, <3>1, <3>2, <3>3
  <2> QED
    BY <2>1, <2>2
\* Every other channel of that identifier's client is taken over.
<1>8. ASSUME NEW x \in Channels, x # ch, param'[x] # NULL
      PROVE  /\ param'[x] = param[x] /\ param[x] # NULL
             /\ param[x].cid # cid /\ param[x].cid \in ClientIds
  <2>1. param'[x] = param[x] /\ param[x] # NULL /\ x \notin taken
    BY <1>2, <1>8
  <2>2. /\ param[x].chan = x /\ param[x].cid \in ClientIds
        /\ clients[param[x].cid] = param[x]
    BY <2>1, LiveClient
  <2> QED
    BY <2>1, <2>2
<1>9. param'[ch] = c /\ chan'[ch] \in {"open", "closing"}
      /\ (chan'[ch] = "open" => param[ch] = NULL)
  BY <1>2
<1>10. \A x \in Channels : /\ chan'[x] = chan[x] \/ chan'[x] = "closing"
                           /\ chan'[x] = "open" => chan[x] = "open" /\ x \notin taken
  BY <1>2
<1>11. /\ \A i \in ClientIds : clients'[i] = IF i = cid THEN c ELSE clients[i]
       /\ \A i \in ClientIds : sessions'[i] = IF i = cid THEN s ELSE sessions[i]
       /\ \A i \in ClientIds : i # cid => sessions[i] # s
  <2>1. /\ \A i \in ClientIds : clients'[i] = IF i = cid THEN c ELSE clients[i]
        /\ \A i \in ClientIds : sessions'[i] = IF i = cid THEN s ELSE sessions[i]
    BY <1>2 DEF IInv, TypeOK
  <2>2. ASSUME NEW i \in ClientIds, i # cid, sessions[i] = s
        PROVE  FALSE
    <3>1. sessions[i] # NULL /\ sessions[i] <= Len(subs)
      BY <1>4, <2>2, NullAssumption DEF IInv, SessionsApart
    <3> QED
      BY <1>3, <2>2, <3>1 DEF IInv, SessionsApart
  <2> QED
    BY <2>1, <2>2
<1> HIDE DEF c
<1>12. ASSUME NEW f \in Filters
       PROVE  /\ topics'[f] \in Topic \cup {NULL}
              /\ \A i \in ClientIds :
                   EntryOf(topics'[f], i) = IF f \in restored /\ i = cid
                                              THEN [client |-> c, qos |-> subs'[s][f]]
                                              ELSE Entry(f, i)
              /\ f \in restored => topics'[f] # NULL
  <2>1. CASE f \in restored
    <3> DEFINE t == get_topic_ptr_to_subscribe(f)
               q == subs[s][f]
               u == topics'[f]
    <3>1. t \in Topic /\ q \in 0..2 /\ c \in Client
      BY <1>5, <1>6, <2>1, ToSubscribeEntries DEF IInv
    <3>2. u = subscribe(t, c, q)
      BY <1>2, <2>1
    <3>3. q = subs'[s][f] /\ \A i \in ClientIds : t.clients[i] = Entry(f, i)
      BY <1>6, <1>7, <2>1, ToSubscribeEntries DEF IInv
    <3> HIDE DEF t, q, u
    <3>4. /\ u \in Topic
          /\ \A i \in ClientIds : u.clients[i] = IF i = c.cid THEN [client |-> c, qos |-> q]
                                                 ELSE t.clients[i]
      BY <3>1, <3>2, SubscribeEntries
    <3>5. u # NULL
      BY <3>4, NullAssumption
    <3> QED
      BY <1>5, <2>1, <3>3, <3>4, <3>5 DEF EntryOf, u
  <2>2. CASE f \notin restored
    BY <1>2, <2>2 DEF IInv, TypeOK, Entry
  <2> QED
    BY <2>1, <2>2
<1> HIDE DEF restored
<1>13. \A f \in Filters, i \in ClientIds :
         Entry(f, i)' = IF f \in restored /\ i = cid THEN [client |-> c, qos |-> subs'[s][f]]
                        ELSE Entry(f, i)
  BY <1>12 DEF Entry
<1>14. TypeOK'
  <2>1. topics' \in [Filters -> Topic \cup {NULL}]
    BY <1>2, <1>12
  <2>2. publish_retained_message(topics', c, restored) \subseteq PublishWrite
    <3> DEFINE tops == topics'
    <3>1. tops \in [Filters -> Topic \cup {NULL}] /\ restored \in SUBSET Filters
      BY <1>6, <2>1
    <3>2. ASSUME NEW f \in restored
          PROVE  tops[f] # NULL /\ tops[f].clients[c.cid] # NULL
      <4>1. tops[f] # NULL /\ EntryOf(tops[f], cid) = [client |-> c, qos |-> subs'[s][f]]
        BY <1>6, <1>12
      <4>2. [client |-> c, qos |-> subs'[s][f]] # NULL
        BY <1>5, <1>6, <1>7, NullAssumption
      <4> QED
        BY <1>5, <4>1, <4>2 DEF EntryOf
    <3> HIDE DEF tops
    <3>3. publish_retained_message(tops, c, restored) \subseteq PublishWrite
      BY <1>5, <3>1, <3>2, RetainedAreWrites
    <3> QED
      BY <3>3 DEF tops
  <2>3. connack \in ConnackWrite
    BY DEF ConnackWrite
  <2>4. out' \subseteq PublishWrite \cup ConnackWrite
    <3>1. {connack} \cup publish_retained_message(topics', c, restored)
            \in SUBSET (PublishWrite \cup ConnackWrite)
      BY <2>2, <2>3
    <3> QED
      BY <1>2, <3>1, WriteTyped
  <2>5. chan' \in [Channels -> {"idle", "open", "closing", "closed"}]
        /\ param' \in [Channels -> Client \cup {NULL}]
    BY <1>2, <1>5 DEF IInv, TypeOK
  <2>6. clients' \in [ClientIds -> Client \cup {NULL}]
        /\ sessions' \in [ClientIds -> 1..MaxSessions \cup {NULL}]
    BY <1>2, <1>4, <1>5 DEF IInv, TypeOK
  <2>7. trash' \in Subscribers
    BY <1>2 DEF IInv, TypeOK
  <2> QED
    BY <1>7, <2>1, <2>4, <2>5, <2>6, <2>7 DEF TypeOK
<1>15. OneChannelPerClient'
  <2>1. ASSUME NEW x \in Channels, param'[x] # NULL
        PROVE  /\ param'[x].chan = x
               /\ clients'[param'[x].cid] = param'[x]
               /\ sessions'[param'[x].cid] = param'[x].sess
               /\ x # ch => param'[x].cid # cid
    <3>1. CASE x = ch
      BY <1>5, <1>9, <1>11, <3>1
    <3>2. CASE x # ch
      <4>1. /\ param[x].chan = x
            /\ clients[param[x].cid] = param[x]
            /\ sessions[param[x].cid] = param[x].sess
        BY <1>8, <2>1, <3>2, LiveClient
      <4> QED
        BY <1>8, <1>11, <2>1, <3>2, <4>1
    <3> QED
      BY <3>1, <3>2
  <2>2. ASSUME NEW x \in Channels, NEW y \in Channels, param'[x] # NULL, param'[y] # NULL,
               param'[x].cid = param'[y].cid
        PROVE  x = y
    <3>1. CASE x # ch /\ y # ch
      <4>1. param[x].cid = param[y].cid /\ param[x] # NULL /\ param[y] # NULL
        BY <1>8, <2>2, <3>1
      <4> QED
        BY <4>1 DEF IInv, OneChannelPerClient, Live
    <3>2. CASE x = ch \/ y = ch
      BY <1>5, <1>9, <2>1, <2>2, <3>2
    <3> QED
      BY <3>1, <3>2
  <2> QED
    BY <2>1, <2>2 DEF OneChannelPerClient, Live
<1>16. SessionsApart' /\ IdleHasNoClient'
  <2>1. \A i \in ClientIds : sessions'[i] # NULL => sessions'[i] <= Len(subs')
    BY <1>3, <1>7, <1>11 DEF IInv, TypeOK, SessionsApart
  <2>2. SessionsApart'
    BY <1>4, <1>11, <2>1 DEF IInv, SessionsApart
  <2>3. IdleHasNoClient'
    BY <1>2, <1>9, <1>10 DEF IInv, IdleHasNoClient
  <2> QED
    BY <2>2, <2>3
<1>17. EntriesInPlace' /\ EntriesOwned'
  <2> SUFFICES ASSUME NEW f \in Filters, NEW i \in ClientIds, Entry(f, i)' # NULL
               PROVE  /\ Entry(f, i)'.client.cid = i
                      /\ chan'[Entry(f, i)'.client.chan] # "idle"
                      /\ chan'[Entry(f, i)'.client.chan] = "open"
                         => param'[Entry(f, i)'.client.chan] = Entry(f, i)'.client
    BY DEF EntriesInPlace, EntriesOwned
  <2>1. CASE f \in restored /\ i = cid
    <3>1. Entry(f, i)'.client = c
      BY <1>13, <2>1
    <3> QED
      BY <1>5, <1>9, <2>1, <3>1
  <2>2. CASE ~(f \in restored /\ i = cid)
    <3> DEFINE e == Entry(f, i)
               x == e.client.chan
    <3>1. Entry(f, i)' = e /\ e # NULL
      BY <1>13, <2>2
    <3>2. x \in Channels /\ e.client \in Client /\ e.client # NULL
      BY <3>1, EntryFields, NullAssumption DEF IInv
    <3>3. e.client.cid = i /\ chan[x] # "idle"
      BY <3>1 DEF IInv, EntriesInPlace
    <3>4. chan[x] = "open" => param[x] = e.client
      BY <3>1 DEF IInv, EntriesOwned
    <3>5. ASSUME chan'[x] = "open"
          PROVE  param'[x] = e.client
      <4>1. chan[x] = "open" /\ x \notin taken /\ param[x] = e.client
        BY <1>10, <3>2, <3>4, <3>5
      <4>2. x # ch
        BY <1>9, <3>2, <3>5, <4>1
      <4> QED
        BY <1>2, <3>2, <4>1, <4>2
    <3> QED
      BY <1>10, <3>1, <3>2, <3>3, <3>5
  <2> QED
    BY <2>1, <2>2
<1>18. IndexAgrees'
  <2> SUFFICES ASSUME NEW x \in Channels, param'[x] # NULL, NEW f \in Filters
               PROVE  Agrees(param[x], f)'
    BY DEF IndexAgrees
  <2>1. CASE x = ch
    <3>1. param'[x] = c
      BY <1>9, <2>1
    <3>2. CASE f \in restored
      <4>1. Entry(f, cid)' = [client |-> c, qos |-> subs'[s][f]] /\ subs'[s][f] # NULL
        BY <1>6, <1>7, <1>13, <3>2
      <4> QED
        BY <1>5, <3>1, <4>1 DEF Agrees
    \* An entry of the same client object is of the channel's client before.
    <3>3. CASE f \notin restored
      <4>1. Entry(f, cid)' = Entry(f, cid) /\ subs'[s][f] = NULL
        BY <1>7, <1>13, <3>3
      <4>2. ASSUME Entry(f, cid) # NULL, Entry(f, cid).client = c
            PROVE  FALSE
        <5>1. param[ch] = c
          BY <1>2, <1>5, <4>2 DEF IInv, EntriesOwned
        <5>2. s \in 1..Len(subs)
          BY <1>5, <5>1, LiveClient
        <5>3. subs[s][f] = NULL
          BY <1>7, <4>1, <5>2
        <5>4. Agrees(c, f)
          BY <1>5, <5>1 DEF IInv, IndexAgrees
        <5> QED
          BY <1>5, <4>2, <5>3, <5>4 DEF Agrees
      <4> QED
        BY <1>5, <3>1, <4>1, <4>2 DEF Agrees
    <3> QED
      BY <3>2, <3>3
  <2>2. CASE x # ch
    <3>1. param'[x] = param[x] /\ param[x] # NULL /\ param[x].cid # cid /\ param[x].cid \in ClientIds
      BY <1>8, <2>2
    <3>2. Entry(f, param[x].cid)' = Entry(f, param[x].cid)
      BY <1>13, <3>1
    <3>3. subs'[param[x].sess] = subs[param[x].sess]
      BY <1>7, <3>1, LiveClient
    <3>4. Agrees(param[x], f)
      BY <3>1 DEF IInv, IndexAgrees
    <3> QED
      BY <3>1, <3>2, <3>3, <3>4 DEF Agrees
  <2> QED
    BY <2>1, <2>2
<1> QED
  BY <1>14, <1>15, <1>16, <1>17, <1>18 DEF IInv

-----------------------------------------------------------------------------
(* Theorems *)

LEMMA NextIInv ==
  ASSUME NoAnonymousClient
  PROVE  IInv /\ [Next]_vars => IInv'
<1> SUFFICES ASSUME IInv, [Next]_vars
             PROVE  IInv'
  OBVIOUS
<1>1. CASE Next
  <2>1. PICK ch \in Channels :
          \/ channel_connected(ch)
          \/ close(ch)
          \/ handle_connect_refused(ch)
          \/ \E cid \in ClientIds, clean \in BOOLEAN, will \in Wills, protocol_ok \in BOOLEAN :
               handle_connect(ch, cid, clean, will, protocol_ok)
          \/ \E rq \in Requests : handle_subscribe(ch, rq) \/ handle_unsubscribe(ch, DOMAIN rq)
          \/ \E msg \in Publications : handle_publish(ch, msg)
          \/ handle_disconnect(ch)
          \/ handle_channel_disconnected(ch)
    BY <1>1 DEF Next
  <2>2. CASE channel_connected(ch)
    BY <2>2, ConnectedIInv
  <2>3. CASE close(ch)
    BY <2>3, CloseIInv
  <2>4. CASE handle_connect_refused(ch)
    BY <2>4, ConnectRefusedIInv
  <2>5. ASSUME NEW cid \in ClientIds, NEW clean \in BOOLEAN, NEW will \in Wills,
               NEW protocol_ok \in BOOLEAN, handle_connect(ch, cid, clean, will, protocol_ok)
        PROVE  IInv'
    BY <2>5, ConnectIInv
  <2>6. ASSUME NEW rq \in Requests, handle_subscribe(ch, rq)
        PROVE  IInv'
    BY <2>6, SubscribeIInv
  <2>7. ASSUME NEW rq \in Requests, handle_unsubscribe(ch, DOMAIN rq)
        PROVE  IInv'
    BY <2>7, UnsubscribeIInv
  <2>8. ASSUME NEW msg \in Publications, handle_publish(ch, msg)
        PROVE  IInv'
    BY <2>8, PublishIInv
  <2>9. CASE handle_disconnect(ch)
    BY <2>9, DisconnectIInv
  <2>10. CASE handle_channel_disconnected(ch)
    BY <2>10, ChannelDisconnectedIInv
  <2> QED
    BY <2>1, <2>2, <2>3, <2>4, <2>5, <2>6, <2>7, <2>8, <2>9, <2>10
<1>2. CASE UNCHANGED vars
  BY <1>2 DEF vars, IInv, TypeOK, IdleHasNoClient, OneChannelPerClient, Live, SessionsApart, EntriesInPlace,
     EntriesOwned, IndexAgrees, Agrees, Entry
<1> QED
  BY <1>1, <1>2

\* The inductive invariant holds in every reachable state.
THEOREM Invariance ==
  ASSUME NoAnonymousClient
  PROVE  Spec => []IInv
<1>1. Init => IInv
  BY InitIInv
<1>2. IInv /\ [Next]_vars => IInv'
  BY NextIInv
<1> QED
  BY <1>1, <1>2, PTL DEF Spec

\* The registries, the topic objects and every packet written keep their types.
THEOREM TypeCorrect ==
  ASSUME NoAnonymousClient
  PROVE  Spec => []TypeOK
<1>1. IInv => TypeOK
  BY DEF IInv
<1> QED
  BY <1>1, Invariance, PTL

\* The take-over in handle_connect (mqtt_server.cpp:222-258), second CONNECTs on one
\* channel and disconnect events that come late leave every client identifier with
\* one channel at most, the one that is registered and whose session is stored.
THEOREM ChannelUnique ==
  ASSUME NoAnonymousClient
  PROVE  Spec => []OneChannelPerClient
<1>1. IInv => OneChannelPerClient
  BY DEF IInv
<1> QED
  BY <1>1, Invariance, PTL

\* The two indexes of subscriptions, the session's and the topics', which
\* handle_connect, handle_subscribe and handle_unsubscribe write one after the other,
\* agree for every client that has a channel.
THEOREM SubscriptionsIndexed ==
  ASSUME NoAnonymousClient
  PROVE  Spec => []SubscriptionIndex
<1>1. IInv => SubscriptionIndex
  <2> SUFFICES ASSUME IInv, NEW ch \in Live, NEW f \in Filters
               PROVE  LET c == param[ch]
                          q == subs[c.sess][f]
                      IN  IF q = NULL
                            THEN topics[f] = NULL \/ topics[f].clients[c.cid] = NULL
                                   \/ topics[f].clients[c.cid].client # c
                            ELSE topics[f] # NULL
                                   /\ topics[f].clients[c.cid] = [client |-> c, qos |-> q]
    BY DEF SubscriptionIndex
  <2> DEFINE c == param[ch]
             q == subs[c.sess][f]
  <2>1. ch \in Channels /\ c # NULL
    BY DEF Live
  <2>2. Agrees(c, f)
    BY <2>1 DEF IInv, IndexAgrees
  <2>3. CASE q = NULL
    BY <2>2, <2>3 DEF Agrees, Entry, EntryOf
  <2>4. CASE q # NULL
    <3>1. c \in Client /\ c.sess \in 1..Len(subs) /\ subs \in Seq([Filters -> QoSes \cup {NULL}])
      BY <2>1, LiveClient DEF IInv, TypeOK
    <3>2. q \in 0..2
      <4>1. subs[c.sess] \in [Filters -> QoSes \cup {NULL}]
        BY <3>1
      <4> QED
        BY <2>4, <4>1, QoSAssumption
    <3>3. [client |-> c, qos |-> q] # NULL
      BY <3>1, <3>2, NullAssumption
    <3> QED
      BY <2>2, <2>4, <3>3 DEF Agrees, Entry, EntryOf
  <2> QED
    BY <2>3, <2>4
<1> QED
  BY <1>1, Invariance, PTL

\* No entry a topic still holds, of clients that disconnected, were taken over or
\* whose channel is being closed, writes to an open channel that is not that client's.
THEOREM EntriesOwnedAlways ==
  ASSUME NoAnonymousClient
  PROVE  Spec => []EntriesAreOwned
<1>1. IInv => EntriesAreOwned
  <2> SUFFICES ASSUME IInv, NEW f \in Filters, topics[f] # NULL,
                      NEW e \in Entries(topics[f].clients), chan[e.client.chan] = "open"
               PROVE  param[e.client.chan] = e.client
    BY DEF EntriesAreOwned
  <2>1. PICK i \in ClientIds : e = topics[f].clients[i] /\ e # NULL
    BY DEF Entries
  <2> QED
    BY <2>1 DEF IInv, EntriesOwned, Entry, EntryOf
<1> QED
  BY <1>1, Invariance, PTL

-----------------------------------------------------------------------------
(* The lifetime of topic objects *)

\* A topic object somebody has just subscribed to is not empty.
LEMMA SubscribedIsNotEmpty ==
  ASSUME TypeOK, NEW f \in Filters, NEW c \in Client, NEW q \in 0..2
  PROVE  ~empty(subscribe(get_topic_ptr_to_subscribe(f), c, q))
<1> DEFINE t == get_topic_ptr_to_subscribe(f)
           u == subscribe(t, c, q)
<1>1. t \in Topic
  BY ToSubscribeEntries
<1> HIDE DEF t
<1>2. c.cid \in ClientIds /\ u.clients[c.cid] = [client |-> c, qos |-> q]
  BY <1>1, ClientFields, SubscribeEntries
<1>3. [client |-> c, qos |-> q] # NULL
  BY NullAssumption
<1> QED
  BY <1>2, <1>3 DEF empty, t

\* What one step does to one topic object: if it leaves an empty one, the step did
\* not take the last subscriber out of it.
LEMMA StepKeepsNoEmptyTopic ==
  ASSUME NoAnonymousClient, IInv, Next, NEW f \in Filters,
         topics'[f] # NULL, empty(topics'[f])
  PROVE  topics[f] # NULL /\ topics[f].clients = topics'[f].clients
<1>1. TypeOK
  BY DEF IInv
<1>2. PICK ch \in Channels :
        \/ channel_connected(ch)
        \/ close(ch)
        \/ handle_connect_refused(ch)
        \/ \E cid \in ClientIds, clean \in BOOLEAN, will \in Wills, protocol_ok \in BOOLEAN :
             handle_connect(ch, cid, clean, will, protocol_ok)
        \/ \E rq \in Requests : handle_subscribe(ch, rq) \/ handle_unsubscribe(ch, DOMAIN rq)
        \/ \E msg \in Publications : handle_publish(ch, msg)
        \/ handle_disconnect(ch)
        \/ handle_channel_disconnected(ch)
  BY DEF Next
<1>3. CASE channel_connected(ch) \/ close(ch) \/ handle_connect_refused(ch)
  BY <1>3 DEF channel_connected, close, handle_connect_refused
<1>4. ASSUME NEW cid \in ClientIds, NEW clean \in BOOLEAN, NEW will \in Wills,
             NEW protocol_ok \in BOOLEAN, handle_connect(ch, cid, clean, will, protocol_ok)
      PROVE  topics[f] # NULL /\ topics[f].clients = topics'[f].clients
  <2> DEFINE present == ~clean /\ sessions[cid] # NULL
             s == IF present THEN sessions[cid] ELSE Len(subs) + 1
             c == [chan |-> ch, cid |-> cid, clean |-> clean, will |-> will, sess |-> s]
             restored == IF present THEN {g \in Filters : subs[s][g] # NULL} ELSE {}
  <2>1. /\ s <= MaxSessions
        /\ topics'[f] = IF f \in restored
                          THEN subscribe(get_topic_ptr_to_subscribe(f), c, subs[s][f])
                          ELSE topics[f]
    BY <1>4 DEF handle_connect
  <2>2. CASE f \in restored
    <3>1. s \in 1..MaxSessions /\ s \in 1..Len(subs) /\ subs[s][f] # NULL
          /\ subs \in Seq([Filters -> QoSes \cup {NULL}])
      BY <2>2 DEF IInv, TypeOK, SessionsApart
    <3>2. subs[s][f] \in 0..2
      <4>1. subs[s] \in [Filters -> QoSes \cup {NULL}]
        BY <3>1
      <4> QED
        BY <3>1, <4>1, QoSAssumption
    <3>3. c \in Client
      BY <3>1 DEF Client
    <3> HIDE DEF c, s
    <3> QED
      BY <1>1, <2>1, <2>2, <3>2, <3>3, SubscribedIsNotEmpty
  <2>3. CASE f \notin restored
    BY <2>1, <2>3
  <2> QED
    BY <2>2, <2>3
<1>5. ASSUME NEW rq \in Requests, handle_subscribe(ch, rq)
      PROVE  topics[f] # NULL /\ topics[f].clients = topics'[f].clients
  <2>1. param[ch] # NULL
        /\ topics'[f] = IF f \in DOMAIN rq \cap Filters
                          THEN subscribe(get_topic_ptr_to_subscribe(f), param[ch], rq[f])
                          ELSE topics[f]
    BY <1>5 DEF handle_subscribe, Connected
  <2>2. CASE f \in DOMAIN rq
    <3>1. param[ch] \in Client /\ rq[f] \in 0..2
      BY <2>1, <2>2, LiveClient, FilterAssumption, QoSAssumption
    <3> QED
      BY <1>1, <2>1, <2>2, <3>1, SubscribedIsNotEmpty
  <2>3. CASE f \notin DOMAIN rq
    BY <2>1, <2>3
  <2> QED
    BY <2>2, <2>3
<1>6. ASSUME NEW fs, handle_unsubscribe(ch, fs)
      PROVE  topics[f] # NULL /\ topics[f].clients = topics'[f].clients
  <2>1. param[ch] # NULL
        /\ \/ topics'[f] = topics[f]
           \/ topics[f] # NULL /\ topics'[f] = EraseIfEmpty(unsubscribe(topics[f], param[ch]))
    BY <1>6 DEF handle_unsubscribe, Connected
  <2>2. param[ch] \in Client /\ (topics[f] # NULL => topics[f] \in Topic)
    BY <1>1, <2>1, LiveClient DEF TypeOK
  <2> QED
    BY <2>1, <2>2, UnsubscribedEntries
<1>7. ASSUME NEW msg \in Publications, handle_publish(ch, msg)
      PROVE  topics[f] # NULL /\ topics[f].clients = topics'[f].clients
  <2>1. msg \in Message /\ msg.topic \in Filters
    BY MessageAssumption, MessageFields
  <2>2. \/ topics'[f] = topics[f]
        \/ topics[f] # NULL /\ topics'[f] = retained_message(topics[f], msg)
    BY <1>7 DEF handle_publish
  <2>3. CASE topics'[f] = topics[f]
    BY <2>3
  <2>4. CASE topics[f] # NULL /\ topics'[f] = retained_message(topics[f], msg)
    <3>1. topics[f] \in Topic
      BY <1>1, <2>4 DEF TypeOK
    <3>2. retained_message(topics[f], msg).clients = topics[f].clients
      BY <2>1, <3>1, RetainedEntries
    <3> QED
      BY <2>4, <3>2
  <2> QED
    BY <2>2, <2>3, <2>4
<1>8. ASSUME NEW tops \in [Filters -> Topic \cup {NULL}], param[ch] # NULL,
             \A g \in Filters, i \in ClientIds : EntryOf(tops[g], i) = Entry(g, i),
             tops[f] # NULL => topics[f] # NULL /\ tops[f].clients = topics[f].clients,
             topics' = unsubscribe_all(tops, param[ch])
      PROVE  topics[f] # NULL /\ topics[f].clients = topics'[f].clients
  <2>1. param[ch] \in Client
    BY <1>8, LiveClient
  <2>2. \/ topics'[f] = tops[f]
        \/ /\ tops[f] # NULL
           /\ topics'[f] # NULL => ~empty(topics'[f]) /\ topics'[f].retained = tops[f].retained
           /\ topics'[f] = NULL => tops[f].retained = NULL
    BY <1>1, <1>8, <2>1, UnsubscribeAllEntries
  <2> QED
    BY <1>8, <2>2
<1>9. CASE handle_disconnect(ch)
  <2>1. param[ch] # NULL /\ topics' = unsubscribe_all(topics, param[ch])
    BY <1>9 DEF handle_disconnect, Connected
  <2>2. topics \in [Filters -> Topic \cup {NULL}]
        /\ \A g \in Filters, i \in ClientIds : EntryOf(topics[g], i) = Entry(g, i)
    BY <1>1 DEF TypeOK, Entry
  <2> QED
    BY <1>8, <2>1, <2>2
<1>10. CASE handle_channel_disconnected(ch)
  <2>1. CASE param[ch] = NULL
    BY <1>10, <2>1 DEF handle_channel_disconnected
  <2>2. CASE param[ch] # NULL
    <3>1. topics' = unsubscribe_all(WillTopics(param[ch]), param[ch])
      BY <1>10, <2>2 DEF handle_channel_disconnected
    <3>2. param[ch] \in Client
      BY <2>2, LiveClient
    <3> DEFINE tops == WillTopics(param[ch])
    <3>3. /\ tops \in [Filters -> Topic \cup {NULL}]
          /\ \A g \in Filters, i \in ClientIds : EntryOf(tops[g], i) = Entry(g, i)
          /\ tops[f] # NULL => topics[f] # NULL /\ tops[f].clients = topics[f].clients
      BY <1>1, <3>2, WillEntries
    <3> HIDE DEF tops
    <3> QED
      BY <1>8, <2>2, <3>1, <3>3 DEF tops
  <2> QED
    BY <2>1, <2>2
<1> QED
  BY <1>2, <1>3, <1>4, <1>5, <1>6, <1>7, <1>9, <1>10

\* unsubscribe_all and handle_unsubscribe (mqtt_server.cpp:164-187, 469-489) erase a
\* topic object with its last subscriber unless it holds a retained message: no step
\* of any handler, on any topic, leaves one that is newly empty.
THEOREM TopicsErased ==
  ASSUME NoAnonymousClient
  PROVE  Spec => LastSubscriberErasesTopic
<1>1. IInv /\ [Next]_vars =>
        [\A f \in Filters :
           topics'[f] # NULL /\ empty(topics'[f]) =>
             topics[f] # NULL /\ topics[f].clients = topics'[f].clients]_vars
  BY StepKeepsNoEmptyTopic
<1> QED
  BY <1>1, Invariance, PTL DEF Spec, LastSubscriberErasesTopic

-----------------------------------------------------------------------------
(* The broker implements PubSub: every step of the channels, registries and topic *)
(* objects is a step of the promise the broker makes to its clients, or leaves it  *)
(* as it is.                                                                      *)

\* The variables of PubSub, as Broker has them.
promiseVars == <<registered, online, saved, retained, delivered>>

\* The retained message of a topic object, if there are both.
RetainedOf(t) == IF t = NULL THEN NULL ELSE t.retained

\* What PubSub calls a delivered copy, of a packet written.
DeliveredCopy(w) ==
  [to |-> IF param[w.chan] = NULL THEN NULL ELSE param[w.chan].cid, via |-> w.via,
   topic |-> w.topic, payload |-> w.payload, qos |-> w.qos, retain |-> w.retain]

-----------------------------------------------------------------------------
(* Lemmas about what the promise sees *)

\* A client is online while a channel of its is open.
LEMMA OnlineMembers ==
  \A i : i \in online <=> \E x \in Channels : chan[x] = "open" /\ param[x] # NULL /\ param[x].cid = i
BY DEF online, Connected

\* The subscriptions of a client that has a channel, by the session and by the topics.
LEMMA LiveSubscriptions ==
  ASSUME IInv, NEW x \in Channels, param[x] # NULL, NEW f \in Filters, NEW i, i = param[x].cid
  PROVE  /\ i \in ClientIds /\ saved[i] = subs[param[x].sess] /\ saved[i] # NULL
         /\ saved[i] \in [Filters -> QoSes \cup {NULL}]
         /\ saved[i][f] = NULL => Entry(f, i) = NULL \/ Entry(f, i).client # param[x]
         /\ saved[i][f] # NULL => /\ saved[i][f] \in 0..2
                                  /\ topics[f] # NULL
                                  /\ topics[f].clients[i] = [client |-> param[x], qos |-> saved[i][f]]
                                  /\ topics[f].clients[i] # NULL
<1>1. /\ param[x] \in Client /\ i \in ClientIds
      /\ sessions[i] = param[x].sess /\ sessions[i] # NULL /\ param[x].sess \in 1..Len(subs)
  <2>1. param[x].sess \in 1..MaxSessions
    BY LiveClient, ClientFields
  <2> QED
    BY <2>1, LiveClient, NullAssumption
<1>2. saved[i] = subs[param[x].sess]
  BY <1>1 DEF saved
<1>3. saved[i] \in [Filters -> QoSes \cup {NULL}] /\ saved[i] # NULL
  BY <1>1, <1>2, NullAssumption DEF IInv, TypeOK
<1>4. Agrees(param[x], f)
  BY DEF IInv, IndexAgrees
<1>5. CASE saved[i][f] = NULL
  BY <1>1, <1>2, <1>3, <1>4, <1>5 DEF Agrees
<1>6. CASE saved[i][f] # NULL
  <2>1. saved[i][f] \in 0..2
    BY <1>3, <1>6, QoSAssumption
  <2>2. Entry(f, i) = [client |-> param[x], qos |-> saved[i][f]]
    BY <1>2, <1>4, <1>6 DEF Agrees
  <2>3. [client |-> param[x], qos |-> saved[i][f]] # NULL
    BY <1>1, <2>1, NullAssumption
  <2> QED
    BY <1>1, <1>2, <1>3, <1>6, <2>1, <2>2, <2>3 DEF Entry, EntryOf
<1> QED
  BY <1>5, <1>6

\* The minimum of two QoS levels, either way round.
LEMMA SameQos ==
  ASSUME NEW p \in 0..2, NEW q \in 0..2
  PROVE  LeastQos(p, q) = IF q < p THEN q ELSE p
BY DEF LeastQos

\* Every copy the promise speaks of is of a packet written to an open channel.
LEMMA DeliveredMembersNext ==
  \A d : d \in delivered' <=>
           \E w \in out' : w.kind = "PUBLISH" /\ w.via # Trash /\ d = DeliveredCopy(w)'
BY DEF delivered, DeliveredCopy

\* The copies that the promise demands of a message, one by one.
LEMMA CopiesForMembers ==
  ASSUME NEW msg, NEW fs, NEW d
  PROVE  d \in Promise!CopiesFor(msg, fs) <=>
           \E i \in online', f \in fs :
             /\ Promise!Matches(f, msg.topic) /\ saved[i] # NULL /\ saved[i][f] # NULL
             /\ d = Promise!Copy(i, f, saved[i][f], msg.topic, msg.qos, msg.payload, FALSE)
<1> DEFINE wanted == {y \in online' \X fs : /\ Promise!Matches(y[2], msg.topic)
                                            /\ saved[y[1]] # NULL
                                            /\ saved[y[1]][y[2]] # NULL}
           copy(y) == Promise!Copy(y[1], y[2], saved[y[1]][y[2]], msg.topic, msg.qos,
                                   msg.payload, FALSE)
<1>1. d \in Promise!CopiesFor(msg, fs) <=> \E y \in wanted : d = copy(y)
  BY DEF Promise!CopiesFor
<1>2. ASSUME NEW y \in wanted, d = copy(y)
      PROVE  \E i \in online', f \in fs :
               /\ Promise!Matches(f, msg.topic) /\ saved[i] # NULL /\ saved[i][f] # NULL
               /\ d = Promise!Copy(i, f, saved[i][f], msg.topic, msg.qos, msg.payload, FALSE)
  BY <1>2
<1>3. ASSUME NEW i \in online', NEW f \in fs,
             Promise!Matches(f, msg.topic), saved[i] # NULL, saved[i][f] # NULL,
             d = Promise!Copy(i, f, saved[i][f], msg.topic, msg.qos, msg.payload, FALSE)
      PROVE  \E y \in wanted : d = copy(y)
  <2>1. <<i, f>> \in wanted /\ d = copy(<<i, f>>)
    BY <1>3
  <2> QED
    BY <2>1
<1> QED
  BY <1>1, <1>2, <1>3

\* The packets of topic::publish on the topics of hit.
CopiesOf(hit, msg) == UNION {Copies(topics[f].clients, f, msg) : f \in hit}

\* topic::publish on the topics of hit delivers what the promise says: a copy to every
\* client that is online, for every filter of fs that it subscribed to and that matches.
LEMMA CopiesDelivered ==
  ASSUME IInv, NEW msg \in Message, NEW hit \in SUBSET Filters, NEW fs \in SUBSET Filters,
         \A f \in hit : topics[f] # NULL /\ f \in fs /\ Promise!Matches(f, msg.topic),
         \A f \in fs : topics[f] # NULL /\ Promise!Matches(f, msg.topic) => f \in hit,
         \A x \in Channels : chan'[x] = "open" => chan[x] = "open" /\ param'[x] = param[x],
         NEW notices, \A w \in notices : w.via = Trash,
         Write(CopiesOf(hit, msg) \cup notices)
  PROVE  delivered' = Promise!CopiesFor(msg, fs)
<1>1. msg.qos \in 0..2
  BY MessageFields
<1>2. ASSUME NEW d \in delivered'
      PROVE  d \in Promise!CopiesFor(msg, fs)
  <2>1. PICK w \in out' : w.kind = "PUBLISH" /\ w.via # Trash /\ d = DeliveredCopy(w)'
    BY <1>2, DeliveredMembersNext
  <2>2. chan'[w.chan] = "open" /\ w \in CopiesOf(hit, msg)
    BY <2>1 DEF Write
  <2>3. PICK f \in hit : \E e \in Entries(topics[f].clients) : w = Copy(e, f, msg, FALSE)
    <3>1. PICK f \in hit : w \in Copies(topics[f].clients, f, msg)
      BY <2>2 DEF CopiesOf
    <3> QED
      BY <3>1 DEF Copies
  <2>4. PICK e \in Entries(topics[f].clients) : w = Copy(e, f, msg, FALSE)
    BY <2>3
  <2>5. PICK i \in ClientIds : e = topics[f].clients[i] /\ e # NULL
    BY <2>4 DEF Entries
  <2> DEFINE x == e.client.chan
  <2>6. f \in Filters /\ topics[f] # NULL /\ Entry(f, i) = e
    BY <2>5 DEF Entry, EntryOf
  <2>7. e.client \in Client /\ e.client # NULL /\ e.qos \in 0..2 /\ x \in Channels /\ e.client.cid = i
    BY <2>5, <2>6, EntryFields, NullAssumption DEF IInv, EntriesInPlace
  <2>8. w.chan = x /\ chan[x] = "open" /\ param'[x] = param[x]
    BY <2>2, <2>4, <2>7 DEF Copy
  <2>9. param[x] = e.client
    BY <2>5, <2>6, <2>8 DEF IInv, EntriesOwned
  <2>10. saved[i] # NULL /\ saved[i][f] # NULL /\ e = [client |-> param[x], qos |-> saved[i][f]]
    BY <2>5, <2>6, <2>7, <2>9, LiveSubscriptions
  <2>11. saved[i][f] \in 0..2
    BY <2>7, <2>10
  <2>12. i \in online'
    BY <2>2, <2>7, <2>8, <2>9 DEF online, Connected
  <2>13. d = Promise!Copy(i, f, saved[i][f], msg.topic, msg.qos, msg.payload, FALSE)
    <3>1. LeastQos(msg.qos, e.qos) = IF saved[i][f] < msg.qos THEN saved[i][f] ELSE msg.qos
      BY <1>1, <2>10, <2>11, SameQos
    <3>2. DeliveredCopy(w)' = [to |-> i, via |-> w.via, topic |-> w.topic,
                               payload |-> w.payload, qos |-> w.qos, retain |-> w.retain]
      BY <2>7, <2>8, <2>9 DEF DeliveredCopy
    <3> QED
      BY <2>1, <2>4, <3>1, <3>2 DEF Copy, Promise!Copy
  <2>14. f \in fs /\ Promise!Matches(f, msg.topic)
    OBVIOUS
  <2> QED
    BY <2>10, <2>12, <2>13, <2>14, CopiesForMembers
<1>3. ASSUME NEW d \in Promise!CopiesFor(msg, fs)
      PROVE  d \in delivered'
  <2>1. PICK i \in online', f \in fs :
          /\ Promise!Matches(f, msg.topic) /\ saved[i] # NULL /\ saved[i][f] # NULL
          /\ d = Promise!Copy(i, f, saved[i][f], msg.topic, msg.qos, msg.payload, FALSE)
    <3> DEFINE wanted == {y \in online' \X fs : /\ Promise!Matches(y[2], msg.topic)
                                                /\ saved[y[1]] # NULL
                                                /\ saved[y[1]][y[2]] # NULL}
    <3>1. PICK y \in wanted : d = Promise!Copy(y[1], y[2], saved[y[1]][y[2]], msg.topic,
                                               msg.qos, msg.payload, FALSE)
      BY <1>3 DEF Promise!CopiesFor
    <3> QED
      BY <3>1
  <2>2. i \in online' /\ f \in fs /\ f \in Filters
    OBVIOUS
  <2>3. PICK x \in Channels : chan'[x] = "open" /\ param'[x] # NULL /\ param'[x].cid = i
    BY <2>2 DEF online, Connected
  <2>4. param'[x] = param[x] /\ param[x] # NULL /\ param[x].cid = i
    BY <2>3
  <2> PICK e, w : e = [client |-> param[x], qos |-> saved[i][f]] /\ w = Copy(e, f, msg, FALSE)
    OBVIOUS
  <2>5. /\ i \in ClientIds /\ saved[i][f] \in 0..2
        /\ topics[f] # NULL /\ topics[f].clients[i] = e /\ e # NULL
    BY <2>1, <2>2, <2>4, LiveSubscriptions
  <2>6. f \in hit
    BY <2>1, <2>2, <2>5
  <2>7. e \in Entries(topics[f].clients)
    BY <2>5 DEF Entries
  <2>8. w \in CopiesOf(hit, msg)
    <3>1. w \in Copies(topics[f].clients, f, msg)
      BY <2>7 DEF Copies
    <3> QED
      BY <2>6, <3>1 DEF CopiesOf
  <2>9. w.chan = x /\ w.kind = "PUBLISH" /\ w.via = f
    BY <2>4, LiveClient DEF Copy
  <2>10. w \in out' /\ w.via # Trash
    BY <2>2, <2>3, <2>8, <2>9, FilterAssumption DEF Write
  <2>11. d = DeliveredCopy(w)'
    <3>1. LeastQos(msg.qos, e.qos) = IF saved[i][f] < msg.qos THEN saved[i][f] ELSE msg.qos
      BY <1>1, <2>5, SameQos
    <3>2. DeliveredCopy(w)' = [to |-> i, via |-> w.via, topic |-> w.topic,
                               payload |-> w.payload, qos |-> w.qos, retain |-> w.retain]
      BY <2>3, <2>9 DEF DeliveredCopy
    <3> QED
      BY <2>1, <3>1, <3>2 DEF Copy, Promise!Copy
  <2> QED
    BY <2>9, <2>10, <2>11, DeliveredMembersNext
<1> QED
  BY <1>2, <1>3

\* publish_retained_message to an open channel delivers what the promise says: for every
\* filter of fs, the retained messages of the topics that it matches.
LEMMA RetainedDelivered ==
  ASSUME NEW c \in Client, param'[c.chan] = c, c # NULL, chan'[c.chan] = "open",
         NEW fs \in SUBSET Filters, NEW acks, \A w \in acks : w.kind = "CONNACK",
         \A f \in fs : /\ topics'[f].clients[c.cid] = [client |-> c, qos |-> saved'[c.cid][f]]
                       /\ saved'[c.cid][f] \in 0..2,
         \A t \in Topics : /\ RetainedOf(topics'[t]) = retained[t]
                           /\ retained[t] # NULL => retained[t].qos \in 0..2,
         Write(acks \cup publish_retained_message(topics', c, fs))
  PROVE  delivered' = Promise!RetainedFor(c.cid, fs)
<1> DEFINE sent == publish_retained_message(topics', c, fs)
           entry(f) == topics'[f].clients[c.cid]
           kept(n) == [topic |-> n, qos |-> topics'[n].retained.qos,
                       payload |-> topics'[n].retained.payload]
           packet(f, n) == Copy(entry(f), f, kept(n), TRUE)
           promised(f, n) == Promise!Copy(c.cid, f, saved'[c.cid][f], n, retained[n].qos,
                                          retained[n].payload, TRUE)
<1>1. \A w : w \in sent <=> \E f \in fs : \E n \in Topics :
              /\ Promise!Matches(f, n) /\ retained[n] # NULL
              /\ w = packet(f, n)
  <2>1. \A n \in Topics : retained[n] # NULL <=> topics'[n] # NULL /\ topics'[n].retained # NULL
    BY DEF RetainedOf
  <2>2. ASSUME NEW w \in sent
        PROVE  \E f \in fs : \E n \in Topics :
                 /\ Promise!Matches(f, n) /\ retained[n] # NULL
                 /\ w = packet(f, n)
    <3>1. PICK f \in fs : w \in {packet(f, n) :
                                  n \in {m \in Topics : /\ m = f \/ <<f, m>> \in Matching
                                                        /\ topics'[m] # NULL
                                                        /\ topics'[m].retained # NULL}}
      BY <2>2 DEF publish_retained_message
    <3>2. PICK n \in Topics : /\ n = f \/ <<f, n>> \in Matching
                              /\ topics'[n] # NULL /\ topics'[n].retained # NULL
                              /\ w = packet(f, n)
      BY <3>1
    <3>3. Promise!Matches(f, n) /\ retained[n] # NULL
      BY <2>1, <3>2 DEF Promise!Matches
    <3> HIDE DEF packet
    <3> QED
      BY <3>2, <3>3
  <2>3. ASSUME NEW w, NEW f \in fs, NEW n \in Topics,
               Promise!Matches(f, n), retained[n] # NULL,
               w = packet(f, n)
        PROVE  w \in sent
    <3> DEFINE names(g) == {m \in Topics : /\ m = g \/ <<g, m>> \in Matching
                                           /\ topics'[m] # NULL
                                           /\ topics'[m].retained # NULL}
               packets(g) == {packet(g, m) : m \in names(g)}
    <3>1. n \in names(f)
      BY <2>1, <2>3 DEF Promise!Matches
    <3>2. w \in packets(f)
      BY <2>3, <3>1
    <3>3. sent = UNION {packets(g) : g \in fs}
      BY DEF publish_retained_message
    <3> HIDE DEF packets, sent
    <3> QED
      BY <3>2, <3>3
  <2> HIDE DEF packet, sent
  <2> QED
    BY <2>2, <2>3
<1>2. \A d : d \in Promise!RetainedFor(c.cid, fs) <=> \E f \in fs : \E n \in Topics :
              Promise!Matches(f, n) /\ retained[n] # NULL /\ d = promised(f, n)
  <2> DEFINE wanted == {y \in fs \X Topics : Promise!Matches(y[1], y[2]) /\ retained[y[2]] # NULL}
  <2>1. ASSUME NEW d \in Promise!RetainedFor(c.cid, fs)
        PROVE  \E f \in fs : \E n \in Topics :
                 Promise!Matches(f, n) /\ retained[n] # NULL /\ d = promised(f, n)
    <3>1. PICK y \in wanted : d = promised(y[1], y[2])
      BY <2>1 DEF Promise!RetainedFor
    <3>2. y[1] \in fs /\ y[2] \in Topics /\ Promise!Matches(y[1], y[2]) /\ retained[y[2]] # NULL
      BY <3>1
    <3> HIDE DEF promised
    <3> QED
      BY <3>1, <3>2
  <2>2. ASSUME NEW d, NEW f \in fs, NEW n \in Topics,
               Promise!Matches(f, n), retained[n] # NULL, d = promised(f, n)
        PROVE  d \in Promise!RetainedFor(c.cid, fs)
    <3> PICK y : y = <<f, n>>
      OBVIOUS
    <3>1. y \in wanted /\ d = promised(y[1], y[2])
      BY <2>2
    <3>2. \A z \in wanted : promised(z[1], z[2]) \in Promise!RetainedFor(c.cid, fs)
      BY DEF Promise!RetainedFor
    <3> HIDE DEF promised, wanted
    <3> QED
      BY <3>1, <3>2
  <2> HIDE DEF promised
  <2> QED
    BY <2>1, <2>2
<1>3. ASSUME NEW f \in fs, NEW n \in Topics, retained[n] # NULL, NEW w,
             w = packet(f, n)
      PROVE  /\ w.kind = "PUBLISH" /\ w.via = f /\ w.via # Trash /\ chan'[w.chan] = "open"
             /\ DeliveredCopy(w)' = promised(f, n)
  <2>1. /\ entry(f) = [client |-> c, qos |-> saved'[c.cid][f]] /\ saved'[c.cid][f] \in 0..2
        /\ topics'[n].retained = retained[n] /\ retained[n].qos \in 0..2
    BY <1>3 DEF RetainedOf
  <2>2. w = [kind |-> "PUBLISH", chan |-> c.chan, via |-> f, topic |-> n,
             payload |-> retained[n].payload,
             qos |-> LeastQos(retained[n].qos, saved'[c.cid][f]), retain |-> TRUE]
    BY <1>3, <2>1 DEF Copy
  <2>3. LeastQos(retained[n].qos, saved'[c.cid][f]) =
          IF saved'[c.cid][f] < retained[n].qos THEN saved'[c.cid][f] ELSE retained[n].qos
    BY <2>1, SameQos
  <2>4. DeliveredCopy(w)' = [to |-> c.cid, via |-> w.via, topic |-> w.topic,
                             payload |-> w.payload, qos |-> w.qos, retain |-> w.retain]
    BY <2>2 DEF DeliveredCopy
  <2>5. DeliveredCopy(w)' = promised(f, n)
    BY <2>2, <2>3, <2>4 DEF Promise!Copy
  <2> QED
    BY <2>2, <2>5, FilterAssumption
<1> HIDE DEF sent, promised, kept, entry, packet
<1>4. \A d : d \in delivered' <=> \E f \in fs : \E n \in Topics :
              Promise!Matches(f, n) /\ retained[n] # NULL /\ d = promised(f, n)
  <2>1. ASSUME NEW d \in delivered'
        PROVE  \E f \in fs : \E n \in Topics :
                 Promise!Matches(f, n) /\ retained[n] # NULL /\ d = promised(f, n)
    <3>1. PICK w \in out' : w.kind = "PUBLISH" /\ w.via # Trash /\ d = DeliveredCopy(w)'
      BY <2>1, DeliveredMembersNext
    <3>2. w \in sent
      BY <3>1 DEF Write, sent
    <3>3. PICK f \in fs, n \in Topics :
            Promise!Matches(f, n) /\ retained[n] # NULL /\ w = packet(f, n)
      BY <1>1, <3>2
    <3>4. DeliveredCopy(w)' = promised(f, n)
      BY <1>3, <3>3
    <3> QED
      BY <3>1, <3>3, <3>4
  <2>2. ASSUME NEW d, NEW f \in fs, NEW n \in Topics,
               Promise!Matches(f, n), retained[n] # NULL, d = promised(f, n)
        PROVE  d \in delivered'
    <3> PICK w : w = packet(f, n)
      OBVIOUS
    <3>1. w \in sent
      BY <1>1, <2>2
    <3>2. w.kind = "PUBLISH" /\ w.via # Trash /\ chan'[w.chan] = "open"
      BY <1>3, <2>2
    <3>4. DeliveredCopy(w)' = d
      BY <1>3, <2>2
    <3>3. w \in out'
      BY <3>1, <3>2 DEF Write, sent
    <3> QED
      BY <3>2, <3>3, <3>4, DeliveredMembersNext
  <2> QED
    BY <2>1, <2>2
<1> QED
  BY <1>2, <1>4

-----------------------------------------------------------------------------
(* What each part of the promise's state becomes *)

\* What LiveSubscriptions says, of the state after a step.
Subscriptions ==
  \A x \in Channels, f \in Filters : param[x] # NULL =>
    LET i == param[x].cid IN
    /\ i \in ClientIds /\ saved[i] = subs[param[x].sess] /\ saved[i] # NULL
    /\ saved[i][f] # NULL => /\ saved[i][f] \in 0..2
                             /\ topics[f] # NULL
                             /\ topics[f].clients[i] = [client |-> param[x], qos |-> saved[i][f]]
LEMMA SubscriptionsNext == IInv' => Subscriptions'
<1>1. IInv => Subscriptions
  BY LiveSubscriptions DEF Subscriptions
<1> QED
  BY <1>1, PTL

\* A client is online after a step while a channel of its is open.
LEMMA OnlineMembersNext ==
  \A i : i \in online' <=>
           \E x \in Channels : chan'[x] = "open" /\ param'[x] # NULL /\ param'[x].cid = i
BY DEF online, Connected

\* Nothing is delivered by a step that writes no PUBLISH.
LEMMA NothingDelivered ==
  ASSUME \A w \in out' : w.kind = "CONNACK"
  PROVE  delivered' = {}
BY DeliveredMembersNext

\* The clients online stay so when their channels keep their state.
LEMMA OnlineSame ==
  ASSUME \A x \in Channels : \/ chan'[x] = chan[x] /\ param'[x] = param[x]
                             \/ param[x] = NULL /\ param'[x] = NULL
  PROVE  online' = online
BY OnlineMembers, OnlineMembersNext

\* A channel that ends, or loses its client, leaves all other clients online.
LEMMA OnlineWithout ==
  ASSUME IInv, NEW ch \in Channels, param[ch] # NULL,
         \A x \in Channels : x # ch => chan'[x] = chan[x] /\ param'[x] = param[x],
         chan'[ch] # "open" \/ param'[ch] = NULL
  PROVE  /\ online' = online \ {param[ch].cid}
         /\ param[ch].cid \in ClientIds
         /\ chan[ch] = "open" => param[ch].cid \in online
<1>1. \A x \in Channels : param[x] # NULL /\ param[x].cid = param[ch].cid => x = ch
  BY LiveClient
<1>2. param[ch].cid \in ClientIds
  BY LiveClient
<1> QED
  BY <1>1, <1>2, OnlineMembers, OnlineMembersNext

\* The retained messages of the promise are those of the topic objects.
LEMMA RetainedSame ==
  ASSUME \A t \in Topics : RetainedOf(topics'[t]) = RetainedOf(topics[t])
  PROVE  retained' = retained
BY DEF retained, RetainedOf

\* channel_connected leaves the promise as it is.
LEMMA ConnectedStep ==
  ASSUME IInv, NEW ch \in Channels, channel_connected(ch)
  PROVE  Promise!Traffic
<1>1. \A x \in Channels : chan'[x] = chan[x] \/ param[x] = NULL
  BY DEF channel_connected, IInv, TypeOK, IdleHasNoClient
<1>2. online' = online
  BY <1>1, OnlineSame DEF channel_connected
<1>3. delivered' = {}
  BY NothingDelivered DEF channel_connected
<1>4. registered' = registered /\ saved' = saved /\ retained' = retained
  BY DEF channel_connected, registered, saved, retained
<1> QED
  BY <1>2, <1>3, <1>4 DEF Promise!Traffic, Promise!Quiet

\* close() takes the channel's client off line.
LEMMA CloseStep ==
  ASSUME IInv, NEW ch \in Channels, close(ch)
  PROVE  Promise!Next
<1>1. /\ chan[ch] = "open" /\ chan'[ch] = "closing" /\ param' = param
      /\ \A x \in Channels : x # ch => chan'[x] = chan[x]
  BY DEF close, IInv, TypeOK
<1>2. delivered' = {}
  BY NothingDelivered DEF close
<1>3. registered' = registered /\ saved' = saved /\ retained' = retained
  BY DEF close, registered, saved, retained
<1>4. CASE param[ch] = NULL
  <2>1. online' = online
    BY <1>1, <1>4, OnlineSame
  <2> QED
    BY <1>2, <1>3, <2>1 DEF Promise!Next, Promise!Traffic, Promise!Quiet
<1>5. CASE param[ch] # NULL
  BY <1>1, <1>2, <1>3, <1>5, OnlineWithout DEF Promise!Next, Promise!GoesOffline
<1> QED
  BY <1>4, <1>5

\* So does a refused CONNECT on a channel that has a client.
LEMMA ConnectRefusedStep ==
  ASSUME IInv, NEW ch \in Channels, handle_connect_refused(ch)
  PROVE  Promise!Next
<1>1. delivered' = {}
  BY NothingDelivered DEF handle_connect_refused, Write
<1>2. registered' = registered /\ saved' = saved /\ retained' = retained
  BY DEF handle_connect_refused, registered, saved, retained
<1>3. /\ chan[ch] = "open" /\ param' = param
      /\ \A x \in Channels : x # ch => chan'[x] = chan[x]
      /\ chan'[ch] = IF param[ch] = NULL THEN chan[ch] ELSE "closing"
  BY DEF handle_connect_refused, IInv, TypeOK
<1>4. CASE param[ch] = NULL
  <2>1. online' = online
    BY <1>3, <1>4, OnlineSame
  <2> QED
    BY <1>1, <1>2, <2>1 DEF Promise!Next, Promise!Traffic, Promise!Quiet
<1>5. CASE param[ch] # NULL
  BY <1>1, <1>2, <1>3, <1>5, OnlineWithout DEF Promise!Next, Promise!GoesOffline
<1> QED
  BY <1>4, <1>5

-----------------------------------------------------------------------------
(* The end of a connection *)

\* The promise's variables are functions.
LEMMA AsFunctions ==
  /\ registered = [i \in ClientIds |-> registered[i]]
  /\ registered' = [i \in ClientIds |-> registered'[i]]
  /\ saved = [i \in ClientIds |-> saved[i]]
  /\ saved' = [i \in ClientIds |-> saved'[i]]
  /\ retained = [t \in Topics |-> retained[t]]
  /\ retained' = [t \in Topics |-> retained'[t]]
BY DEF registered, saved, retained

\* What is registered of a channel's client.
LEMMA RegisteredOf ==
  ASSUME IInv, NEW ch \in Channels, param[ch] # NULL
  PROVE  LET i == param[ch].cid IN
         /\ registered[i] # NULL
         /\ registered[i].clean = param[ch].clean
         /\ registered[i].will = param[ch].will
<1> DEFINE c == param[ch]
<1>1. c \in Client /\ c.cid \in ClientIds /\ clients[c.cid] = c
  BY LiveClient
<1>2. c # NULL /\ c.clean \in BOOLEAN /\ c.will \in Wills
  BY <1>1, NullAssumption DEF Client
<1> HIDE DEF c
<1>3. registered[c.cid] = [clean |-> c.clean, will |-> c.will]
  BY <1>1, <1>2 DEF registered
<1>4. [clean |-> c.clean, will |-> c.will] # NULL
  BY <1>2, NullAssumption
<1> QED
  BY <1>3, <1>4 DEF c

\* Deregister, and the loss of the channel's client, are Forget.
LEMMA Forgotten ==
  ASSUME IInv, NEW ch \in Channels, param[ch] # NULL, Deregister(param[ch]), subs' = subs,
         \A x \in Channels : x # ch => chan'[x] = chan[x] /\ param'[x] = param[x],
         param'[ch] = NULL
  PROVE  /\ Promise!Forget(param[ch].cid)
         /\ param[ch].cid \in ClientIds
         /\ chan[ch] = "open" => param[ch].cid \in online
<1> PICK c, i : c = param[ch] /\ i = c.cid
  OBVIOUS
<1>1. c \in Client /\ i \in ClientIds /\ clients[i] = c
  BY LiveClient
<1>2. registered[i] # NULL /\ registered[i].clean = c.clean
  BY RegisteredOf
<1>3. /\ sessions' = IF c.clean THEN [sessions EXCEPT ![i] = NULL] ELSE sessions
      /\ clients' = [clients EXCEPT ![i] = NULL]
  BY DEF Deregister
<1>4. registered' = [registered EXCEPT ![i] = NULL]
  <2>1. \A j \in ClientIds : clients'[j] = IF j = i THEN NULL ELSE clients[j]
    BY <1>1, <1>3 DEF IInv, TypeOK
  <2>2. \A j \in ClientIds : registered'[j] = IF j = i THEN NULL ELSE registered[j]
    BY <2>1 DEF registered
  <2> QED
    BY <2>2, AsFunctions
<1>5. saved' = IF c.clean THEN [saved EXCEPT ![i] = NULL] ELSE saved
  <2>1. CASE c.clean
    <3>1. \A j \in ClientIds : sessions'[j] = IF j = i THEN NULL ELSE sessions[j]
      BY <1>1, <1>3, <2>1 DEF IInv, TypeOK
    <3>2. \A j \in ClientIds : saved'[j] = IF j = i THEN NULL ELSE saved[j]
      BY <3>1 DEF saved
    <3>3. saved' = [saved EXCEPT ![i] = NULL]
      BY <3>2, AsFunctions
    <3> QED
      BY <2>1, <3>3
  <2>2. CASE ~c.clean
    BY <1>3, <2>2 DEF saved
  <2> QED
    BY <2>1, <2>2
<1>6. /\ online' = online \ {i}
      /\ chan[ch] = "open" => i \in online
  BY OnlineWithout
<1> QED
  BY <1>1, <1>2, <1>4, <1>5, <1>6 DEF Promise!Forget

\* unsubscribe_all leaves the retained messages as they are.
LEMMA RetainedLeft ==
  ASSUME TypeOK, NEW tops \in [Filters -> Topic \cup {NULL}], NEW c \in Client,
         \A f \in Filters, i \in ClientIds : EntryOf(tops[f], i) = Entry(f, i),
         topics' = unsubscribe_all(tops, c)
  PROVE  retained' = [t \in Topics |-> RetainedOf(tops[t])]
<1>1. \A f \in Filters : \/ topics'[f] = tops[f]
                         \/ /\ tops[f] # NULL
                            /\ topics'[f] # NULL => topics'[f].retained = tops[f].retained
                            /\ topics'[f] = NULL => tops[f].retained = NULL
  BY UnsubscribeAllEntries
<1>2. \A t \in Topics : RetainedOf(topics'[t]) = RetainedOf(tops[t])
  BY <1>1 DEF RetainedOf, Filters
<1> QED
  BY <1>2 DEF retained, RetainedOf

\* DISCONNECT is Leave.
LEMMA DisconnectStep ==
  ASSUME IInv, NEW ch \in Channels, handle_disconnect(ch)
  PROVE  Promise!Next
<1> PICK c : c = param[ch]
  OBVIOUS
<1>1. /\ chan[ch] = "open" /\ c # NULL /\ Deregister(c) /\ subs' = subs /\ chan' = chan
      /\ param' = [param EXCEPT ![ch] = NULL]
      /\ topics' = unsubscribe_all(topics, c) /\ out' = {}
  BY DEF handle_disconnect, Connected
<1>2. delivered' = {}
  BY <1>1, NothingDelivered
<1>3. /\ param'[ch] = NULL
      /\ \A x \in Channels : x # ch => chan'[x] = chan[x] /\ param'[x] = param[x]
  BY <1>1 DEF IInv, TypeOK
<1>4. Promise!Forget(c.cid) /\ c.cid \in ClientIds /\ c.cid \in online
  BY <1>1, <1>3, Forgotten
<1>5. retained' = retained
  <2>1. c \in Client /\ TypeOK /\ topics \in [Filters -> Topic \cup {NULL}]
        /\ \A f \in Filters, i \in ClientIds : EntryOf(topics[f], i) = Entry(f, i)
    BY <1>1, LiveClient DEF IInv, TypeOK, Entry
  <2>2. retained' = [t \in Topics |-> RetainedOf(topics[t])]
    BY <1>1, <2>1, RetainedLeft
  <2> QED
    BY <2>2 DEF retained, RetainedOf
<1> QED
  BY <1>2, <1>4, <1>5 DEF Promise!Next, Promise!Leave

-----------------------------------------------------------------------------
(* Publications and wills *)

\* A topic that a connected client has subscribed to has a topic object.
LEMMA SubscribedTopicsExist ==
  ASSUME IInv, \A x \in Channels : chan'[x] = "open" => param'[x] = param[x] \/ param'[x] = NULL,
         NEW i \in online', NEW f \in Filters, saved[i][f] # NULL
  PROVE  topics[f] # NULL
<1>1. PICK x \in Channels : chan'[x] = "open" /\ param'[x] # NULL /\ param'[x].cid = i
  BY OnlineMembersNext
<1>2. param'[x] = param[x]
  BY <1>1
<1>3. param[x] # NULL /\ i = param[x].cid
  BY <1>1, <1>2
<1>4. Subscriptions
  BY LiveSubscriptions DEF Subscriptions
<1> QED
  BY <1>3, <1>4 DEF Subscriptions

\* topic::publish on the topics of hit, of which the message's own topic is the only
\* one that is not a wild filter, is Retain.
LEMMA RetainStep ==
  ASSUME TypeOK, NEW msg \in Message, NEW hit \in SUBSET Filters,
         \A f \in hit : topics[f] # NULL,
         \A t \in Topics : t \in hit <=> t = msg.topic /\ topics[t] # NULL,
         \A t \in Topics : retained'[t] =
           RetainedOf(IF t \in hit THEN retained_message(topics[t], msg) ELSE topics[t]),
         \A i \in online' : saved[i][msg.topic] # NULL => topics[msg.topic] # NULL
  PROVE  Promise!Retain(msg)
<1>1. \A t \in Topics : retained[t] = RetainedOf(topics[t])
  BY DEF retained, RetainedOf
<1> PICK n : n = msg.topic
  OBVIOUS
<1>2. n \in Topics /\ n \in Filters
  BY MessageFields
<1> PICK kept : kept = IF msg.payload = Empty THEN NULL
                       ELSE [payload |-> msg.payload, qos |-> msg.qos]
  OBVIOUS
<1>3. \A t \in Topics : t # n => retained'[t] = retained[t]
  BY <1>1
<1>4. CASE n \in hit
  <2> PICK t, r : t = topics[n] /\ r = retained_message(t, msg)
    OBVIOUS
  <2>1. t \in Topic
    BY <1>2, <1>4 DEF TypeOK
  <2>2. r \in Topic /\ r.retained = IF ~msg.retain THEN t.retained ELSE kept
    BY <2>1, RetainedEntries
  <2>3. RetainedOf(r) = r.retained /\ RetainedOf(t) = t.retained
    BY <2>1, <2>2, NullAssumption DEF RetainedOf
  <2>4. retained'[n] = IF ~msg.retain THEN retained[n] ELSE kept
    BY <1>1, <1>2, <1>4, <2>2, <2>3
  <2>5. CASE msg.retain
    <3>1. retained' = [retained EXCEPT ![n] = kept]
      BY <1>3, <2>4, <2>5, AsFunctions
    <3> QED
      BY <2>5, <3>1 DEF Promise!Retain
  <2>6. CASE ~msg.retain
    <3>1. retained' = retained
      BY <1>3, <2>4, <2>6, AsFunctions
    <3> QED
      BY <2>6, <3>1 DEF Promise!Retain
  <2> QED
    BY <2>5, <2>6
<1>5. CASE n \notin hit
  <2>1. topics[n] = NULL
    BY <1>2, <1>5
  <2>2. retained[n] = NULL /\ retained'[n] = retained[n]
    BY <1>1, <1>2, <1>5, <2>1 DEF RetainedOf
  <2>3. retained' = retained
    BY <1>3, <2>2, AsFunctions
  <2>4. \A i \in online' : saved[i][n] = NULL
    BY <2>1
  <2> QED
    BY <2>2, <2>3, <2>4 DEF Promise!Retain
<1> QED
  BY <1>4, <1>5

\* PUBLISH is Publish.
LEMMA PublishStep ==
  ASSUME IInv, NEW ch \in Channels, NEW msg \in Publications, handle_publish(ch, msg)
  PROVE  Promise!Traffic
<1> DEFINE wild == {f \in WildFilters : topics[f] # NULL /\ <<f, msg.topic>> \in Matching}
           hit == {f \in {msg.topic} : topics[f] # NULL} \cup wild
           notice == [topic |-> Trash, qos |-> 1, payload |-> msg.topic]
           notices == Copies(trash, Trash, notice)
<1>1. msg \in Message /\ msg.topic \in Topics /\ msg.topic \in Filters
  BY MessageAssumption, MessageFields
<1>2. hit \in SUBSET Filters /\ \A f \in hit : topics[f] # NULL
  BY <1>1 DEF Filters
<1>3. \A t \in Topics : t \in hit <=> t = msg.topic /\ topics[t] # NULL
  BY FilterAssumption
<1>4. /\ \A f \in hit : Promise!Matches(f, msg.topic)
      /\ \A f \in Filters : topics[f] # NULL /\ Promise!Matches(f, msg.topic) => f \in hit
  BY FilterAssumption DEF Promise!Matches
<1>5. /\ topics' = [f \in Filters |-> IF f \in hit THEN retained_message(topics[f], msg)
                                      ELSE topics[f]]
      /\ UNCHANGED <<chan, param, clients, sessions, subs, trash>>
      /\ Write(CopiesOf(hit, msg)) \/ Write(CopiesOf(hit, msg) \cup notices)
      /\ chan[ch] = "open" /\ param[ch] # NULL
  BY DEF handle_publish, Connected, CopiesOf
<1> HIDE DEF hit
<1>6. \A w \in notices : w.via = Trash
  BY DEF Copies, Copy
<1>7. delivered' = Promise!CopiesFor(msg, Filters)
  <2> PICK ns : (ns = {} \/ ns = notices) /\ Write(CopiesOf(hit, msg) \cup ns)
    <3>1. CASE Write(CopiesOf(hit, msg))
      <4>1. CopiesOf(hit, msg) \cup {} = CopiesOf(hit, msg)
        OBVIOUS
      <4> QED
        BY <3>1, <4>1
    <3> QED
      BY <1>5, <3>1
  <2>1. \A w \in ns : w.via = Trash
    BY <1>6
  <2>2. \A x \in Channels : chan'[x] = "open" => chan[x] = "open" /\ param'[x] = param[x]
    BY <1>5
  <2>3. Filters \in SUBSET Filters
    OBVIOUS
  <2> HIDE DEF notices
  <2> QED
    BY <1>1, <1>2, <1>4, <2>1, <2>2, <2>3, CopiesDelivered
<1>8. Promise!Retain(msg)
  <2>1. \A t \in Topics : retained'[t] =
          RetainedOf(IF t \in hit THEN retained_message(topics[t], msg) ELSE topics[t])
    <3>1. \A t \in Topics : retained'[t] = RetainedOf(topics'[t])
      BY DEF retained, RetainedOf
    <3> QED
      BY <1>5, <3>1 DEF Filters
  <2>2. \A i \in online' : saved[i][msg.topic] # NULL => topics[msg.topic] # NULL
    BY <1>1, <1>5, SubscribedTopicsExist
  <2>3. TypeOK
    BY DEF IInv
  <2> QED
    BY <1>1, <1>2, <1>3, <2>1, <2>2, <2>3, RetainStep
<1>9. /\ online' = online /\ registered' = registered /\ saved' = saved
      /\ online # {}
  <2>1. online' = online
    BY <1>5, OnlineSame
  <2> QED
    BY <1>5, <2>1, OnlineMembers DEF registered, saved
<1> QED
  BY <1>7, <1>8, <1>9 DEF Promise!Traffic, Promise!Publish, Promise!Filters, Filters

\* The end of a connection without DISCONNECT is Lost.
LEMMA ChannelDisconnectedStep ==
  ASSUME IInv, NEW ch \in Channels, handle_channel_disconnected(ch)
  PROVE  Promise!Next
<1> PICK c : c = param[ch]
  OBVIOUS
<1>1. /\ chan' = [chan EXCEPT ![ch] = "closed"]
      /\ param' = [param EXCEPT ![ch] = NULL]
      /\ UNCHANGED <<subs, trash>>
  BY DEF handle_channel_disconnected
<1>2. /\ param'[ch] = NULL /\ chan'[ch] = "closed"
      /\ \A x \in Channels : x # ch => chan'[x] = chan[x] /\ param'[x] = param[x]
  BY <1>1 DEF IInv, TypeOK
<1>3. CASE c = NULL
  <2>1. out' = {} /\ UNCHANGED <<topics, sessions, clients>>
    BY <1>3 DEF handle_channel_disconnected
  <2>2. delivered' = {}
    BY <2>1, NothingDelivered
  <2>3. online' = online
    BY <1>2, <1>3, OnlineSame
  <2>4. registered' = registered /\ saved' = saved /\ retained' = retained
    BY <1>1, <2>1 DEF registered, saved, retained
  <2> QED
    BY <2>2, <2>3, <2>4 DEF Promise!Next, Promise!Traffic, Promise!Quiet
<1>4. CASE c # NULL
  <2>1. topics' = unsubscribe_all(WillTopics(c), c) /\ Deregister(c) /\ Write(WillCopies(c))
    BY <1>4 DEF handle_channel_disconnected
  <2>2. c \in Client /\ c.cid \in ClientIds /\ TypeOK
    BY <1>4, LiveClient DEF IInv
  <2>3. Promise!Forget(c.cid)
    BY <1>1, <1>2, <1>4, <2>1, Forgotten
  <2>4. registered[c.cid].will = c.will
    BY <1>4, RegisteredOf
  <2>5. retained' = [t \in Topics |-> RetainedOf(WillTopics(c)[t])]
    <3>1. /\ WillTopics(c) \in [Filters -> Topic \cup {NULL}]
          /\ \A f \in Filters, i \in ClientIds : EntryOf(WillTopics(c)[f], i) = Entry(f, i)
      BY <2>2, WillEntries
    <3> QED
      BY <2>1, <2>2, <3>1, RetainedLeft
  <2>6. CASE c.will = NULL
    <3>1. retained' = retained
      BY <2>5, <2>6 DEF WillTopics, retained, RetainedOf
    <3>2. delivered' = {}
      BY <2>1, <2>6, NothingDelivered DEF WillCopies, Write
    <3> QED
      BY <2>2, <2>3, <2>4, <2>6, <3>1, <3>2 DEF Promise!Next, Promise!Lost
  <2>7. CASE c.will # NULL
    <3> PICK msg, n : msg = c.will /\ n = msg.topic
      OBVIOUS
    <3> PICK hit : hit = {f \in {n} : topics[f] # NULL}
      OBVIOUS
    <3>1. msg \in Message /\ n \in Topics /\ n \in Filters
      BY <2>2, <2>7, ClientFields, MessageFields
    <3>2. hit \in SUBSET Filters /\ \A f \in hit : topics[f] # NULL
      BY <3>1
    <3>3. \A t \in Topics : t \in hit <=> t = n /\ topics[t] # NULL
      OBVIOUS
    <3>4. Promise!Retain(msg)
      <4>1. \A t \in Topics : retained'[t] =
              RetainedOf(IF t \in hit THEN retained_message(topics[t], msg) ELSE topics[t])
        <5>1. \A t \in Topics : WillTopics(c)[t] =
                IF t \in hit THEN retained_message(topics[t], msg) ELSE topics[t]
          BY <2>2, <2>7, <3>1, <3>3 DEF WillTopics, TypeOK, Filters
        <5> QED
          BY <2>5, <5>1
      <4>2. \A i \in online' : saved[i][n] # NULL => topics[n] # NULL
        <5>1. \A x \in Channels : chan'[x] = "open" => param'[x] = param[x] \/ param'[x] = NULL
          BY <1>2
        <5> QED
          BY <3>1, <5>1, SubscribedTopicsExist
      <4> QED
        BY <2>2, <3>1, <3>2, <3>3, <4>1, <4>2, RetainStep
    <3>5. delivered' = Promise!CopiesFor(msg, Topics)
      <4>1. \A f \in hit : topics[f] # NULL /\ f \in Topics /\ Promise!Matches(f, msg.topic)
        BY <3>1 DEF Promise!Matches
      <4>2. \A f \in Topics : topics[f] # NULL /\ Promise!Matches(f, msg.topic) => f \in hit
        BY FilterAssumption DEF Promise!Matches
      <4>3. \A x \in Channels : chan'[x] = "open" => chan[x] = "open" /\ param'[x] = param[x]
        BY <1>2
      <4> PICK notices : notices = {}
        OBVIOUS
      <4>4. Write(CopiesOf(hit, msg) \cup notices)
        <5>1. WillCopies(c) = CopiesOf(hit, msg) \cup notices
          BY <2>7 DEF WillCopies, CopiesOf
        <5> QED
          BY <2>1, <5>1
      <4>5. Topics \in SUBSET Filters /\ \A w \in notices : w.via = Trash
        BY DEF Filters
      <4>6. IInv /\ msg \in Message /\ hit \in SUBSET Filters
        BY <3>1, <3>2
      <4> QED
        BY ONLY <4>1, <4>2, <4>3, <4>4, <4>5, <4>6, CopiesDelivered
    <3> QED
      BY <2>2, <2>3, <2>4, <2>7, <3>4, <3>5 DEF Promise!Next, Promise!Lost
  <2> QED
    BY <2>6, <2>7
<1> QED
  BY <1>3, <1>4

-----------------------------------------------------------------------------
(* Subscriptions *)

\* Writing to the session object of a channel's client is writing to what is saved of
\* that client, and of no other.
LEMMA SavedWritten ==
  ASSUME IInv, NEW ch \in Channels, param[ch] # NULL, sessions' = sessions,
         NEW new, subs' = [subs EXCEPT ![param[ch].sess] = new]
  PROVE  /\ saved[param[ch].cid] = subs[param[ch].sess]
         /\ saved' = [saved EXCEPT ![param[ch].cid] = new]
<1> PICK i, s : i = param[ch].cid /\ s = param[ch].sess
  OBVIOUS
<1>1. i \in ClientIds /\ sessions[i] = s /\ s \in 1..Len(subs) /\ s # NULL
  BY LiveClient, ClientFields, NullAssumption
<1>2. \A j \in ClientIds : sessions[j] # NULL =>
        sessions[j] \in 1..Len(subs) /\ (sessions[j] = s => j = i)
  BY <1>1, NullAssumption DEF IInv, TypeOK, SessionsApart
<1>3. \A k \in 1..Len(subs) : subs'[k] = IF k = s THEN new ELSE subs[k]
  BY <1>1 DEF IInv, TypeOK
<1>4. \A j \in ClientIds : saved'[j] = IF j = i THEN new ELSE saved[j]
  BY <1>1, <1>2, <1>3 DEF saved
<1>5. saved[i] = subs[s]
  BY <1>1 DEF saved
<1> QED
  BY <1>4, <1>5, AsFunctions

\* UNSUBSCRIBE is Unsubscribe.
LEMMA UnsubscribeStep ==
  ASSUME IInv, NEW ch \in Channels, NEW fs, handle_unsubscribe(ch, fs)
  PROVE  Promise!Traffic
<1> PICK c, i : c = param[ch] /\ i = c.cid
  OBVIOUS
<1> PICK known : known = {f \in fs \cap Filters : topics[f] # NULL}
  OBVIOUS
<1>1. /\ chan[ch] = "open" /\ c # NULL
      /\ topics' = [f \in Filters |-> IF f \in known THEN EraseIfEmpty(unsubscribe(topics[f], c))
                                      ELSE topics[f]]
      /\ subs' = [subs EXCEPT ![c.sess] =
                     [f \in Filters |-> IF f \in known THEN NULL ELSE subs[c.sess][f]]]
      /\ out' = {}
      /\ UNCHANGED <<chan, param, clients, sessions, trash>>
  BY DEF handle_unsubscribe, Connected
<1>2. c \in Client /\ i \in ClientIds /\ i \in online
  BY <1>1, LiveClient, OnlineMembers
<1>3. saved' = [saved EXCEPT ![i] = [f \in Filters |-> IF f \in fs \cap Filters THEN NULL
                                                        ELSE saved[i][f]]]
  <2> DEFINE new == [f \in Filters |-> IF f \in known THEN NULL ELSE subs[c.sess][f]]
             asked == [f \in Filters |-> IF f \in fs \cap Filters THEN NULL ELSE saved[i][f]]
  <2>1. saved[i] = subs[c.sess] /\ saved' = [saved EXCEPT ![i] = new]
    <3>1. subs' = [subs EXCEPT ![c.sess] = new]
      BY <1>1
    <3> HIDE DEF new
    <3> QED
      BY <1>1, <3>1, SavedWritten
  <2>2. \A f \in Filters : topics[f] = NULL => saved[i][f] = NULL
    <3>1. Subscriptions
      BY LiveSubscriptions DEF Subscriptions
    <3> QED
      BY <1>1, <3>1 DEF Subscriptions
  <2>3. new = asked
    <3>1. ASSUME NEW f \in Filters
          PROVE  (IF f \in known THEN NULL ELSE subs[c.sess][f]) =
                 (IF f \in fs \cap Filters THEN NULL ELSE saved[i][f])
      BY <2>1, <2>2
    <3> QED
      BY <3>1
  <2> HIDE DEF new
  <2> QED
    BY <2>1, <2>3
<1>4. retained' = retained
  <2>1. ASSUME NEW n \in Topics
        PROVE  RetainedOf(topics'[n]) = RetainedOf(topics[n])
    <3>1. CASE n \in known
      <4> PICK t, u : t = topics[n] /\ u = topics'[n]
        OBVIOUS
      <4>1. t \in Topic /\ u = EraseIfEmpty(unsubscribe(t, c)) /\ t # NULL
        BY <1>1, <3>1 DEF IInv, TypeOK
      <4>2. (u # NULL => u.retained = t.retained) /\ (u = NULL => t.retained = NULL)
        BY <1>2, <4>1, UnsubscribedEntries
      <4> QED
        BY <4>1, <4>2 DEF RetainedOf
    <3>2. CASE n \notin known
      BY <1>1, <3>2 DEF Filters
    <3> QED
      BY <3>1, <3>2
  <2> QED
    BY <2>1, RetainedSame
<1>5. delivered' = {} /\ online' = online /\ registered' = registered
  <2>1. delivered' = {}
    BY <1>1, NothingDelivered
  <2>2. online' = online
    BY <1>1, OnlineSame
  <2> QED
    BY <1>1, <2>1, <2>2 DEF registered
<1>6. Promise!Unsubscribe(i, fs \cap Filters)
  BY <1>3, <1>4, <1>5 DEF Promise!Unsubscribe, Promise!Filters, Filters
<1>7. fs \cap Filters \in SUBSET Promise!Filters
  BY DEF Promise!Filters, Filters
<1> QED
  BY <1>2, <1>5, <1>6, <1>7 DEF Promise!Traffic

\* topic::subscribe leaves the retained message as it is, a new topic object has none.
LEMMA RetainedOnSubscribe ==
  ASSUME TypeOK, NEW n \in Topics, NEW c \in Client, NEW q \in 0..2
  PROVE  RetainedOf(subscribe(get_topic_ptr_to_subscribe(n), c, q)) = RetainedOf(topics[n])
<1> PICK t, u : t = get_topic_ptr_to_subscribe(n) /\ u = subscribe(t, c, q)
  OBVIOUS
<1>1. n \in Filters
  BY DEF Filters
<1>2. t \in Topic /\ t.retained = RetainedOf(topics[n])
  BY <1>1, ToSubscribeEntries DEF RetainedOf
<1>3. u \in Topic /\ u.retained = t.retained
  <2>1. t \in Topic /\ c \in Client /\ q \in 0..2
    BY <1>2
  <2>2. subscribe(t, c, q) \in Topic /\ subscribe(t, c, q).retained = t.retained
    BY ONLY <2>1, SubscribeEntries
  <2> QED
    BY <2>2
<1> QED
  BY <1>2, <1>3, NullAssumption DEF RetainedOf

\* The QoS of a retained message is one.
LEMMA RetainedQos ==
  ASSUME TypeOK, NEW n \in Topics, retained[n] # NULL
  PROVE  retained[n].qos \in 0..2
<1>1. topics[n] # NULL /\ topics[n] \in Topic /\ retained[n] = topics[n].retained
  BY DEF TypeOK, retained, Filters
<1>2. retained[n] \in Retained
  BY <1>1 DEF Topic
<1> QED
  BY <1>2, QoSAssumption DEF Retained

\* SUBSCRIBE is Subscribe.
LEMMA SubscribeStep ==
  ASSUME IInv, NEW ch \in Channels, NEW rq \in Requests, handle_subscribe(ch, rq)
  PROVE  Promise!Traffic
<1> PICK c, i, plain : c = param[ch] /\ i = c.cid /\ plain = DOMAIN rq \cap Filters
  OBVIOUS
<1> PICK asked : asked = [f \in plain |-> rq[f]]
  OBVIOUS
<1>1. /\ chan[ch] = "open" /\ c # NULL
      /\ topics' = [f \in Filters |->
                      IF f \in plain THEN subscribe(get_topic_ptr_to_subscribe(f), c, rq[f])
                      ELSE topics[f]]
      /\ subs' = [subs EXCEPT ![c.sess] =
                     [f \in Filters |-> IF f \in plain THEN rq[f] ELSE subs[c.sess][f]]]
      /\ UNCHANGED <<chan, param, clients, sessions>>
      /\ Write(publish_retained_message(topics', c, plain))
  BY DEF handle_subscribe, Connected
<1>2. c \in Client /\ c.chan = ch /\ i \in ClientIds /\ i \in online
  BY <1>1, LiveClient, OnlineMembers
<1>3. /\ \A f \in plain : rq[f] \in QoSes /\ rq[f] \in 0..2 /\ rq[f] # NULL
      /\ plain \in SUBSET Filters
      /\ asked \in [plain -> QoSes] /\ DOMAIN asked = plain
  BY FilterAssumption, QoSAssumption, MessageAssumption
<1>4. saved' = [saved EXCEPT ![i] = [f \in Filters |-> IF f \in DOMAIN asked THEN asked[f]
                                                        ELSE saved[i][f]]]
  <2> DEFINE new == [f \in Filters |-> IF f \in plain THEN rq[f] ELSE subs[c.sess][f]]
             added == [f \in Filters |-> IF f \in DOMAIN asked THEN asked[f] ELSE saved[i][f]]
  <2>1. saved[i] = subs[c.sess] /\ saved' = [saved EXCEPT ![i] = new]
    <3>1. subs' = [subs EXCEPT ![c.sess] = new]
      BY <1>1
    <3> HIDE DEF new
    <3> QED
      BY <1>1, <3>1, SavedWritten
  <2>2. new = added
    <3>1. ASSUME NEW f \in Filters
          PROVE  (IF f \in plain THEN rq[f] ELSE subs[c.sess][f]) =
                 (IF f \in DOMAIN asked THEN asked[f] ELSE saved[i][f])
      BY <1>3, <2>1
    <3> QED
      BY <3>1
  <2> HIDE DEF new
  <2> QED
    BY <2>1, <2>2
<1>5. \A n \in Topics : RetainedOf(topics'[n]) = RetainedOf(topics[n])
  BY <1>1, <1>2, <1>3, RetainedOnSubscribe DEF IInv, Filters
<1>6. retained' = retained
  BY <1>5, RetainedSame
<1>7. delivered' = Promise!RetainedFor(i, plain)
  <2>1. ASSUME NEW f \in plain
        PROVE  /\ topics'[f].clients[i] = [client |-> c, qos |-> saved'[i][f]]
               /\ saved'[i][f] \in 0..2
    <3>1. Subscriptions'
      BY SubscribeIInv, SubscriptionsNext
    <3>2. saved'[i][f] = rq[f] /\ f \in Filters
      <4>1. saved \in [ClientIds -> {saved[j] : j \in ClientIds}]
        BY DEF saved
      <4> QED
        BY <1>2, <1>3, <1>4, <4>1
    <3>3. saved'[i][f] # NULL /\ param'[ch] = c
      BY <1>1, <1>3, <3>2
    <3> QED
      BY <1>1, <3>1, <3>2, <3>3 DEF Subscriptions
  <2>2. \A n \in Topics : /\ RetainedOf(topics'[n]) = retained[n]
                          /\ retained[n] # NULL => retained[n].qos \in 0..2
    BY <1>5, RetainedQos DEF IInv, retained, RetainedOf
  <2> PICK acks : acks = {}
    OBVIOUS
  <2>3. /\ \A w \in acks : w.kind = "CONNACK"
        /\ acks \cup publish_retained_message(topics', c, plain)
             = publish_retained_message(topics', c, plain)
    OBVIOUS
  <2>4. Write(acks \cup publish_retained_message(topics', c, plain))
    BY <1>1, <2>3
  <2>5. param'[c.chan] = c /\ c # NULL /\ chan'[c.chan] = "open" /\ i = c.cid /\ c \in Client
        /\ plain \in SUBSET Filters
    BY <1>1, <1>2, <1>3
  <2> QED
    BY ONLY <2>1, <2>2, <2>3, <2>4, <2>5, RetainedDelivered
<1>8. online' = online /\ registered' = registered
  <2>1. online' = online
    BY <1>1, OnlineSame
  <2> QED
    BY <1>1, <2>1 DEF registered
<1>9. Promise!Subscribe(i, asked)
  BY <1>3, <1>4, <1>6, <1>7 DEF Promise!Subscribe, Promise!Filters, Filters
<1> QED
  <2>1. plain \in SUBSET Promise!Filters
    BY <1>3 DEF Promise!Filters, Filters
  <2> QED
    BY <1>2, <1>3, <1>8, <1>9, <2>1 DEF Promise!Traffic

-----------------------------------------------------------------------------
(* CONNECT *)

\* publish_retained_message to a channel that is closing, or for no filter, delivers
\* nothing.
LEMMA RetainedUnsent ==
  ASSUME NEW c, NEW fs, NEW acks, \A w \in acks : w.kind = "CONNACK",
         \A f \in fs : topics'[f].clients[c.cid].client = c /\ chan'[c.chan] # "open",
         Write(acks \cup publish_retained_message(topics', c, fs))
  PROVE  delivered' = {}
<1>1. ASSUME NEW w \in publish_retained_message(topics', c, fs)
      PROVE  chan'[w.chan] # "open"
  <2>1. PICK f \in fs : \E n \in Topics :
          w = Copy(topics'[f].clients[c.cid], f,
                   [topic |-> n, qos |-> topics'[n].retained.qos,
                    payload |-> topics'[n].retained.payload], TRUE)
    BY <1>1 DEF publish_retained_message
  <2>2. w.chan = topics'[f].clients[c.cid].client.chan
    BY <2>1 DEF Copy
  <2> QED
    BY <2>2
<1> QED
  BY <1>1, NothingDelivered DEF Write

\* CONNECT is Connect.
LEMMA ConnectStep ==
  ASSUME NoAnonymousClient, IInv, NEW ch \in Channels, NEW cid \in ClientIds,
         NEW clean \in BOOLEAN, NEW will \in Wills, NEW protocol_ok \in BOOLEAN,
         handle_connect(ch, cid, clean, will, protocol_ok)
  PROVE  Promise!Connect(cid, clean, will)
<1> DEFINE old == clients[cid]
           taken == IF old = NULL THEN {} ELSE {old.chan}
           present == ~clean /\ sessions[cid] # NULL
           s == IF present THEN sessions[cid] ELSE Len(subs) + 1
           c == [chan |-> ch, cid |-> cid, clean |-> clean, will |-> will, sess |-> s]
           restored == IF present THEN {f \in Filters : subs[s][f] # NULL} ELSE {}
           doomed == taken \cup (IF param[ch] # NULL \/ ~protocol_ok THEN {ch} ELSE {})
           connack == [kind |-> "CONNACK", chan |-> ch, present |-> present, accepted |-> TRUE]
<1>1. TakenOver(cid) = old
  BY DEF NoAnonymousClient, TakenOver
<1>2. /\ chan[ch] = "open" /\ s <= MaxSessions
      /\ chan' = [x \in Channels |-> IF x \in doomed /\ chan[x] = "open" THEN "closing"
                                     ELSE chan[x]]
      /\ param' = [x \in Channels |-> IF x = ch THEN c
                                      ELSE IF x \in taken THEN NULL ELSE param[x]]
      /\ sessions' = [sessions EXCEPT ![cid] = s]
      /\ subs' = IF present THEN subs ELSE Append(subs, [f \in Filters |-> NULL])
      /\ clients' = [clients EXCEPT ![cid] = c]
      /\ topics' = [f \in Filters |->
                      IF f \in restored
                        THEN subscribe(get_topic_ptr_to_subscribe(f), c, subs[s][f])
                        ELSE topics[f]]
      /\ Write({connack} \cup publish_retained_message(topics', c, restored))
      /\ trash' = trash
  BY <1>1 DEF handle_connect
<1>3. IInv'
  BY ConnectIInv
<1>4. Subscriptions'
  BY <1>3, SubscriptionsNext
<1>5. subs \in Seq([Filters -> QoSes \cup {NULL}]) /\ Len(subs) \in Nat
  BY DEF IInv, TypeOK
<1>6. s \in 1..MaxSessions /\ (present => s \in 1..Len(subs)) /\ s # NULL
  BY <1>2, <1>5, NullAssumption DEF IInv, TypeOK, SessionsApart
<1>7. /\ c \in Client /\ c.chan = ch /\ c.cid = cid /\ c.sess = s /\ c # NULL
      /\ c.clean = clean /\ c.will = will
  BY <1>6, NullAssumption DEF Client
<1>8. /\ \A i \in ClientIds : clients'[i] = IF i = cid THEN c ELSE clients[i]
      /\ \A i \in ClientIds : sessions'[i] = IF i = cid THEN s ELSE sessions[i]
  BY <1>2 DEF IInv, TypeOK
<1>9. param'[ch] = c
  BY <1>2
<1> HIDE DEF c
<1>10. registered' = [registered EXCEPT ![cid] = [clean |-> clean, will |-> will]]
  <2>1. \A i \in ClientIds : registered'[i] = IF i = cid THEN [clean |-> clean, will |-> will]
                                              ELSE registered[i]
    BY <1>7, <1>8 DEF registered
  <2> QED
    BY <2>1, AsFunctions
<1>11. online' \subseteq online \cup {cid}
  <2>1. ASSUME NEW x \in Channels, chan'[x] = "open", param'[x] # NULL, x # ch
        PROVE  chan[x] = "open" /\ param'[x] = param[x]
    BY <1>2, <2>1
  <2> QED
    BY <1>7, <1>9, <2>1, OnlineMembers, OnlineMembersNext
<1>12. (saved[cid] # NULL) <=> (sessions[cid] # NULL)
  <2>1. ASSUME sessions[cid] # NULL
        PROVE  saved[cid] # NULL
    <3>1. sessions[cid] \in 1..Len(subs)
      BY <1>5, <2>1 DEF IInv, TypeOK, SessionsApart
    <3>2. subs[sessions[cid]] \in [Filters -> QoSes \cup {NULL}]
      BY <1>5, <3>1
    <3> QED
      BY <2>1, <3>2, NullAssumption DEF saved
  <2> QED
    BY <2>1 DEF saved
<1>13. present => saved[cid] = subs[s]
  BY DEF saved
<1>14. saved'[cid] = IF present THEN saved[cid] ELSE Promise!NoSubscription
  <2>1. saved'[cid] = subs'[s]
    BY <1>6, <1>8 DEF saved
  <2>2. CASE present
    BY <1>2, <1>13, <2>1, <2>2
  <2>3. CASE ~present
    <3> PICK none : none = [f \in Filters |-> NULL]
      OBVIOUS
    <3>1. subs' = Append(subs, none) /\ s = Len(subs) + 1
      BY <1>2, <2>3
    <3>2. subs'[s] = none
      BY <1>5, <3>1
    <3> QED
      BY <2>1, <2>3, <3>2 DEF Promise!NoSubscription, Promise!Filters, Filters
  <2> QED
    BY <2>2, <2>3
<1>15. \A i \in ClientIds : i # cid => saved'[i] = saved[i]
  <2>1. \A k \in 1..Len(subs) : subs'[k] = subs[k]
    BY <1>2, <1>5
  <2>2. \A i \in ClientIds : sessions[i] # NULL => sessions[i] \in 1..Len(subs)
    BY <1>5 DEF IInv, TypeOK, SessionsApart
  <2> QED
    BY <1>8, <2>1, <2>2 DEF saved
<1>16. saved' = [saved EXCEPT ![cid] = IF present THEN saved[cid] ELSE Promise!NoSubscription]
  BY <1>14, <1>15, AsFunctions
<1>17. ASSUME NEW f \in restored
       PROVE  f \in Filters /\ saved'[cid][f] # NULL /\ saved'[cid][f] = subs[s][f]
  BY <1>13, <1>14, <1>17
<1>18. ASSUME NEW f \in restored
       PROVE  /\ saved'[cid][f] \in 0..2
              /\ topics'[f].clients[cid] = [client |-> c, qos |-> saved'[cid][f]]
  BY <1>4, <1>7, <1>9, <1>17 DEF Subscriptions
<1>19. \A n \in Topics : RetainedOf(topics'[n]) = RetainedOf(topics[n])
  <2>1. ASSUME NEW n \in Topics
        PROVE  RetainedOf(topics'[n]) = RetainedOf(topics[n])
    <3>1. n \in Filters /\ TypeOK
      BY DEF Filters, IInv
    <3>2. CASE n \in restored
      <4>1. subs[s][n] \in 0..2
        BY <1>17, <1>18, <3>2
      <4>2. topics'[n] = subscribe(get_topic_ptr_to_subscribe(n), c, subs[s][n])
        BY <1>2, <3>1, <3>2
      <4> HIDE DEF s
      <4> QED
        BY <1>7, <3>1, <4>1, <4>2, RetainedOnSubscribe
    <3>3. CASE n \notin restored
      BY <1>2, <3>1, <3>3
    <3> QED
      BY <3>2, <3>3
  <2> QED
    BY <2>1
<1>20. retained' = retained
  BY <1>19, RetainedSame
<1> PICK fs, acks : fs = restored /\ acks = {connack}
  OBVIOUS
<1>21. /\ \A w \in acks : w.kind = "CONNACK"
       /\ Write(acks \cup publish_retained_message(topics', c, fs))
       /\ fs \in SUBSET Filters
  BY <1>2
<1>22. CASE present /\ cid \in online'
  <2>1. chan'[ch] = "open"
    <3>1. PICK x \in Channels : chan'[x] = "open" /\ param'[x] # NULL /\ param'[x].cid = cid
      BY <1>22, OnlineMembersNext
    <3>2. x = ch
      BY <1>3, <1>7, <1>9, <3>1 DEF IInv, OneChannelPerClient, Live
    <3> QED
      BY <3>1, <3>2
  <2>2. \A f \in fs : /\ topics'[f].clients[c.cid] = [client |-> c, qos |-> saved'[c.cid][f]]
                      /\ saved'[c.cid][f] \in 0..2
    BY <1>7, <1>18
  <2>3. \A n \in Topics : /\ RetainedOf(topics'[n]) = retained[n]
                          /\ retained[n] # NULL => retained[n].qos \in 0..2
    BY <1>19, RetainedQos DEF IInv, retained, RetainedOf
  <2>4. c \in Client /\ param'[c.chan] = c /\ c # NULL /\ chan'[c.chan] = "open"
    BY <1>7, <1>9, <2>1
  <2>5. delivered' = Promise!RetainedFor(c.cid, fs)
    BY ONLY <1>21, <2>2, <2>3, <2>4, RetainedDelivered
  <2>6. fs = {f \in Promise!Filters : saved[cid][f] # NULL}
    BY <1>13, <1>22 DEF Promise!Filters, Filters
  <2> QED
    BY <1>7, <1>10, <1>11, <1>12, <1>16, <1>20, <1>22, <2>5, <2>6 DEF Promise!Connect
<1>23. CASE ~(present /\ cid \in online')
  <2>1. ASSUME NEW f \in fs
        PROVE  topics'[f].clients[c.cid].client = c /\ chan'[c.chan] # "open"
    <3>1. present
      OBVIOUS
    <3>2. chan'[ch] # "open"
      BY <1>7, <1>9, <1>23, <3>1, OnlineMembersNext
    <3>3. topics'[f].clients[cid] = [client |-> c, qos |-> saved'[cid][f]]
      BY <1>18
    <3> HIDE DEF restored, present, s
    <3> QED
      BY <1>7, <3>2, <3>3
  <2>2. delivered' = {}
    BY ONLY <1>21, <2>1, RetainedUnsent
  <2> QED
    BY <1>10, <1>11, <1>12, <1>16, <1>20, <1>23, <2>2 DEF Promise!Connect
<1> QED
  BY <1>22, <1>23

-----------------------------------------------------------------------------
(* The refinement *)

LEMMA InitStep == Init => Promise!Init
<1> SUFFICES ASSUME Init
             PROVE  Promise!Init
  OBVIOUS
<1>1. online = {} /\ delivered = {}
  BY DEF Init, online, Connected, delivered
<1>2. registered = [i \in ClientIds |-> NULL] /\ saved = [i \in ClientIds |-> NULL]
  BY DEF Init, registered, saved
<1>3. retained = [t \in Topics |-> NULL]
  BY DEF Init, retained, Filters
<1> QED
  BY <1>1, <1>2, <1>3 DEF Promise!Init

LEMMA NextStep ==
  ASSUME NoAnonymousClient
  PROVE  IInv /\ [Next]_vars => [Promise!Next]_promiseVars
<1> SUFFICES ASSUME IInv, [Next]_vars
             PROVE  [Promise!Next]_promiseVars
  OBVIOUS
<1>1. CASE Next
  <2>1. PICK ch \in Channels :
          \/ channel_connected(ch)
          \/ close(ch)
          \/ handle_connect_refused(ch)
          \/ \E cid \in ClientIds, clean \in BOOLEAN, will \in Wills, protocol_ok \in BOOLEAN :
               handle_connect(ch, cid, clean, will, protocol_ok)
          \/ \E rq \in Requests : handle_subscribe(ch, rq) \/ handle_unsubscribe(ch, DOMAIN rq)
          \/ \E msg \in Publications : handle_publish(ch, msg)
          \/ handle_disconnect(ch)
          \/ handle_channel_disconnected(ch)
    BY <1>1 DEF Next
  <2>2. CASE channel_connected(ch)
    BY <2>2, ConnectedStep DEF Promise!Next
  <2>3. CASE close(ch)
    BY <2>3, CloseStep
  <2>4. CASE handle_connect_refused(ch)
    BY <2>4, ConnectRefusedStep
  <2>5. ASSUME NEW cid \in ClientIds, NEW clean \in BOOLEAN, NEW will \in Wills,
               NEW protocol_ok \in BOOLEAN,
               handle_connect(ch, cid, clean, will, protocol_ok)
        PROVE  Promise!Next
    <3>1. Promise!Connect(cid, clean, will)
      BY <2>5, ConnectStep
    <3> QED
      BY <3>1 DEF Promise!Next
  <2>6. ASSUME NEW rq \in Requests, handle_subscribe(ch, rq)
        PROVE  Promise!Next
    BY <2>6, SubscribeStep DEF Promise!Next
  <2>7. ASSUME NEW rq \in Requests, handle_unsubscribe(ch, DOMAIN rq)
        PROVE  Promise!Next
    BY <2>7, UnsubscribeStep DEF Promise!Next
  <2>8. ASSUME NEW msg \in Publications, handle_publish(ch, msg)
        PROVE  Promise!Next
    BY <2>8, PublishStep DEF Promise!Next
  <2>9. CASE handle_disconnect(ch)
    BY <2>9, DisconnectStep
  <2>10. CASE handle_channel_disconnected(ch)
    BY <2>10, ChannelDisconnectedStep
  <2> QED
    BY <2>1, <2>2, <2>3, <2>4, <2>5, <2>6, <2>7, <2>8, <2>9, <2>10
<1>2. CASE UNCHANGED vars
  BY <1>2 DEF vars, promiseVars, registered, online, Connected, saved, retained, delivered
<1> QED
  BY <1>1, <1>2

\* The broker keeps the promise of PubSub: through take-overs, clean and persistent
\* sessions, subscriptions, retained messages and wills, every handler of
\* mqtt_server.cpp delivers the copies PubSub allows, and no others.
THEOREM BrokerImplementsPubSub ==
  ASSUME NoAnonymousClient
  PROVE  Spec => Refinement
<1>1. Init => Promise!Init
  BY InitStep
<1>2. IInv /\ [Next]_vars => [Promise!Next]_promiseVars
  BY NextStep
<1> QED
  BY <1>1, <1>2, Invariance, PTL DEF Spec, Refinement, Promise!Spec, Promise!vars, promiseVars

=============================================================================
