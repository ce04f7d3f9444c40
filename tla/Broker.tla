------------------------------- MODULE Broker ------------------------------
(***************************************************************************)
(* The broker's registries - clients, sessions, topics - and the handlers  *)
(* of mqtt_server that change them, driven by channels that connect, send  *)
(* packets, are taken over, are closed by the server and disconnect.       *)
(*                                                                         *)
(* Each handler is one action: this is the broker with one worker thread.  *)
(* The packet identifiers and acknowledgements inside a session are the    *)
(* subject of modules Session and Receiver.  The network library is not    *)
(* under src/: a channel is opened once, delivers packets while open,      *)
(* neither delivers nor takes packets once close() was called on it, and   *)
(* ends with one channel_disconnected event.                               *)
(***************************************************************************)
EXTENDS Integers, Sequences, FiniteSets, SequencesExt

CONSTANTS
  Channels,     \* channel ids, never reused
  ClientIds,    \* client identifiers
  Anonymous,    \* the empty client identifier; not in ClientIds unless a run wants it
  Admins,       \* the identifiers whose CONNECT carries the admin's credentials
  Topics,       \* topic names, and the filters equal to them: keys of _topics
  WildFilters,  \* filters with wildcards: keys of _wild_topics
  Matching,     \* the pairs <<wild filter, topic name>> for which topic::match holds
  Trash,        \* the filter "$sys/trash"
  Requests,     \* the filters one SUBSCRIBE may carry, each with its max QoS; an
                \* UNSUBSCRIBE carries the filters alone
  Payloads,     \* payloads of publications
  Empty,        \* the payload of length 0
  QoSes,        \* the QoS levels in use, a subset of 0..2
  Publications, \* the messages a PUBLISH may carry
  Wills,        \* the wills a CONNECT may carry, NULL for none
  MaxSessions,  \* bound: how many session objects are allocated
  NULL

Filters == Topics \cup WildFilters

ASSUME FilterAssumption ==
  /\ Topics \cap WildFilters = {}
  /\ Trash \notin Filters
  /\ Matching \subseteq WildFilters \X Topics
  /\ \A rq \in Requests : /\ DOMAIN rq \subseteq Filters \cup {Trash}
                          /\ \A f \in DOMAIN rq : rq[f] \in QoSes
ASSUME QoSAssumption == QoSes \subseteq 0..2
ASSUME BoundAssumption == MaxSessions \in Nat

Message == [topic : Topics, qos : QoSes, retain : BOOLEAN, payload : Payloads]

ASSUME MessageAssumption ==
  /\ Empty \in Payloads
  /\ Publications \subseteq Message
  /\ Wills \subseteq Message \cup {NULL}
  /\ NULL \notin Message \cup Payloads \cup QoSes \cup ClientIds

VARIABLES
  chan,         \* "idle" (not yet accepted), "open", "closing" or "closed"
  param,        \* ctx->param(): the mqtt_client a channel belongs to, or NULL
  clients,      \* _clients: the registered mqtt_client of each identifier, or NULL
  sessions,     \* _sessions: the session object stored for each identifier, or NULL
  subs,         \* _subscriptions of each session object, by order of allocation
  topics,       \* _topics and _wild_topics: the topic object of each filter, or NULL
  trash,        \* the subscribers of _trash_topic
  out           \* the packets the last handler wrote to open channels

vars == <<chan, param, clients, sessions, subs, topics, trash, out>>

Client == [chan : Channels, cid : ClientIds, clean : BOOLEAN, will : Wills,
           sess : 1..MaxSessions]
Subscribers == [ClientIds -> [client : Client, qos : 0..2] \cup {NULL}]
Retained == [payload : Payloads \ {Empty}, qos : QoSes]
Topic == [clients : Subscribers, retained : Retained \cup {NULL}]
PublishWrite == [kind : {"PUBLISH"}, chan : Channels, via : Filters \cup {Trash},
                 topic : Topics \cup {Trash}, payload : Payloads \cup Topics,
                 qos : 0..2, retain : BOOLEAN]
ConnackWrite == [kind : {"CONNACK"}, chan : Channels, present : BOOLEAN, accepted : BOOLEAN]

\* A null pointer is none of the objects.
ASSUME NullAssumption == NULL \notin Client \cup Topic \cup [client : Client, qos : 0..2]
                                \cup Retained \cup 1..MaxSessions
                                \cup [Filters -> QoSes \cup {NULL}]
                                \cup [clean : BOOLEAN, will : Wills]

TypeOK ==
  /\ chan \in [Channels -> {"idle", "open", "closing", "closed"}]
  /\ param \in [Channels -> Client \cup {NULL}]
  /\ clients \in [ClientIds -> Client \cup {NULL}]
  /\ sessions \in [ClientIds -> 1..MaxSessions \cup {NULL}]
  /\ subs \in Seq([Filters -> QoSes \cup {NULL}])
  /\ Len(subs) <= MaxSessions
  /\ topics \in [Filters -> Topic \cup {NULL}]
  /\ trash \in Subscribers
  /\ out \subseteq PublishWrite \cup ConnackWrite

Init ==
  /\ chan = [ch \in Channels |-> "idle"]
  /\ param = [ch \in Channels |-> NULL]
  /\ clients = [i \in ClientIds |-> NULL]
  /\ sessions = [i \in ClientIds |-> NULL]
  /\ subs = <<>>
  /\ topics = [f \in Filters |-> NULL]
  /\ trash = [i \in ClientIds |-> NULL]
  /\ out = {}

-----------------------------------------------------------------------------
(* topic.cpp.  A topic's map compares clients by client id only. *)

NewTopic == [clients |-> [i \in ClientIds |-> NULL], retained |-> NULL]

empty(t) == t.retained = NULL /\ \A i \in ClientIds : t.clients[i] = NULL

\* Mutant: insert without erase keeps an old entry of the same client id.
subscribeInsertOnly(t, c, q) ==
  IF t.clients[c.cid] = NULL THEN [t EXCEPT !.clients[c.cid] = [client |-> c, qos |-> q]] ELSE t
subscribe(t, c, q) == [t EXCEPT !.clients[c.cid] = [client |-> c, qos |-> q]]
unsubscribe(t, c) == [t EXCEPT !.clients[c.cid] = NULL]

\* topic::publish stores a message with the RETAIN flag, or with an empty payload
\* forgets the one it has.
\* Mutant: the empty payload is stored.
retained_messageEmptyToo(t, msg) ==
  IF msg.retain THEN [t EXCEPT !.retained = [payload |-> msg.payload, qos |-> msg.qos]] ELSE t
retained_message(t, msg) ==
  IF ~msg.retain THEN t
  ELSE [t EXCEPT !.retained =
          IF msg.payload = Empty THEN NULL ELSE [payload |-> msg.payload, qos |-> msg.qos]]

\* Mutant: the granted QoS is ignored.
LeastQosPublished(p, g) == p
LeastQos(p, g) == IF p < g THEN p ELSE g

\* mqtt_client::publish to the subscriber e of filter f.
Copy(e, f, msg, retain) ==
  [kind |-> "PUBLISH", chan |-> e.client.chan, via |-> f, topic |-> msg.topic,
   payload |-> msg.payload, qos |-> LeastQos(msg.qos, e.qos), retain |-> retain]

\* topic::publish: a copy for every subscriber.
Entries(clientMap) == {clientMap[i] : i \in ClientIds} \ {NULL}
Copies(clientMap, f, msg) == {Copy(e, f, msg, FALSE) : e \in Entries(clientMap)}

\* The topic object for a filter, a new one if there is none, and the object kept
\* in the map: one that has become empty is erased.
get_topic_ptr_to_subscribe(f) == IF topics[f] = NULL THEN NewTopic ELSE topics[f]
\* Mutant: it stays.
EraseIfEmptyNever(t) == t
EraseIfEmpty(t) == IF empty(t) THEN NULL ELSE t

-----------------------------------------------------------------------------
(* Parts of the handlers of mqtt_server.cpp *)

\* write_channel and ctx->write: only an open channel takes a packet.
Write(packets) == out' = {w \in packets : chan'[w.chan] = "open"}

\* publish_retained_message for the filters fs client c has just subscribed to,
\* in the topics map tops: a wild filter gets the retained messages of the plain
\* topics it matches.
publish_retained_message(tops, c, fs) ==
  UNION {{Copy(tops[f].clients[c.cid], f,
               [topic |-> n, qos |-> tops[n].retained.qos,
                payload |-> tops[n].retained.payload], TRUE) :
          n \in {m \in Topics : /\ m = f \/ <<f, m>> \in Matching
                                /\ tops[m] # NULL
                                /\ tops[m].retained # NULL}} : f \in fs}

\* publish_will_message reaches the topic object of the will's topic, if any,
\* and no wild topic.
WillTopics(c) ==
  IF c.will = NULL \/ topics[c.will.topic] = NULL THEN topics
  ELSE [topics EXCEPT ![c.will.topic] = retained_message(@, c.will)]
WillCopies(c) ==
  IF c.will = NULL \/ topics[c.will.topic] = NULL THEN {}
  ELSE Copies(topics[c.will.topic].clients, c.will.topic, c.will)

\* unsubscribe_all: by the subscriptions of the client's session.
\* Mutant: the topics of a persistent session are left alone.
unsubscribe_allClean(tops, c) ==
  [f \in Filters |->
     IF c.clean /\ subs[c.sess][f] # NULL /\ tops[f] # NULL
       THEN EraseIfEmpty(unsubscribe(tops[f], c))
       ELSE tops[f]]
unsubscribe_all(tops, c) ==
  [f \in Filters |->
     IF subs[c.sess][f] # NULL /\ tops[f] # NULL
       THEN EraseIfEmpty(unsubscribe(tops[f], c))
       ELSE tops[f]]

\* The end of handle_disconnect and handle_channel_disconnected.
Deregister(c) ==
  /\ sessions' = IF c.clean THEN [sessions EXCEPT ![c.cid] = NULL] ELSE sessions
  /\ clients' = [clients EXCEPT ![c.cid] = NULL]

Connected(ch) == chan[ch] = "open" /\ param[ch] # NULL

-----------------------------------------------------------------------------
(* The handlers *)

channel_connected(ch) ==
  /\ chan[ch] = "idle"
  /\ chan' = [chan EXCEPT ![ch] = "open"]
  /\ out' = {}
  /\ UNCHANGED <<param, clients, sessions, subs, topics, trash>>

\* close() on a channel: by a timer (user_event), after an exception in a handler
\* (exception_caught), or after a write to a channel with no client
\* (channel_written).
close(ch) ==
  /\ chan[ch] = "open"
  /\ chan' = [chan EXCEPT ![ch] = "closing"]
  /\ out' = {}
  /\ UNCHANGED <<param, clients, sessions, subs, topics, trash>>

\* handle_connect when check_integrity or authentication fails: CONNACK with an
\* error, and nothing registered.  A second CONNECT closes the channel as well.
handle_connect_refused(ch) ==
  /\ chan[ch] = "open"
  /\ chan' = IF param[ch] = NULL THEN chan ELSE [chan EXCEPT ![ch] = "closing"]
  /\ Write({[kind |-> "CONNACK", chan |-> ch, present |-> FALSE, accepted |-> FALSE]})
  /\ UNCHANGED <<param, clients, sessions, subs, topics, trash>>

\* The client CONNECT takes over: the registered one of that identifier.
\* Mutant: it is registered over.
TakenOverNot(cid) == NULL
TakenOver(cid) == IF cid = Anonymous THEN NULL ELSE clients[cid]

\* handle_connect.  On a channel that has a client already, or with a foreign
\* protocol name, close() is called and the handler goes on.  The mqtt_client is
\* built from the packet before check_integrity generates an identifier for an
\* anonymous client, so that client is looked up by the new identifier (nobody
\* has it) and stored under the empty one; insert keeps an entry that is there.
handle_connect(ch, cid, clean, will, protocol_ok) ==
  LET old == TakenOver(cid)
      taken == IF old = NULL THEN {} ELSE {old.chan}
      session_present == ~clean /\ sessions[cid] # NULL
      s == IF session_present THEN sessions[cid] ELSE Len(subs) + 1
      c == [chan |-> ch, cid |-> cid, clean |-> clean, will |-> will, sess |-> s]
      restored == IF session_present THEN {f \in Filters : subs[s][f] # NULL} ELSE {}
      doomed == taken \cup (IF param[ch] # NULL \/ ~protocol_ok THEN {ch} ELSE {})
  IN
  /\ chan[ch] = "open"
  /\ cid = Anonymous => clean
  /\ s <= MaxSessions
  /\ chan' = [x \in Channels |-> IF x \in doomed /\ chan[x] = "open" THEN "closing"
                                 ELSE chan[x]]
  /\ param' = [x \in Channels |-> IF x = ch THEN c
                                  ELSE IF x \in taken THEN NULL ELSE param[x]]
  /\ sessions' = [sessions EXCEPT ![cid] = s]
  /\ subs' = IF session_present THEN subs ELSE Append(subs, [f \in Filters |-> NULL])
  /\ clients' = IF clients[cid] = old THEN [clients EXCEPT ![cid] = c] ELSE clients
  /\ topics' = [f \in Filters |->
                  IF f \in restored
                    THEN subscribe(get_topic_ptr_to_subscribe(f), c, subs[s][f])
                    ELSE topics[f]]
  /\ Write({[kind |-> "CONNACK", chan |-> ch, present |-> session_present,
             accepted |-> TRUE]}
           \cup publish_retained_message(topics', c, restored))
  /\ UNCHANGED trash

\* handle_subscribe.  Only the admin may subscribe to $sys/trash, and that
\* subscription is not recorded in the session.
handle_subscribe(ch, rq) ==
  LET c == param[ch]
      plain == DOMAIN rq \cap Filters
  IN
  /\ Connected(ch)
  /\ topics' = [f \in Filters |->
                  IF f \in plain THEN subscribe(get_topic_ptr_to_subscribe(f), c, rq[f])
                  ELSE topics[f]]
  /\ subs' = [subs EXCEPT ![c.sess] =
                 [f \in Filters |-> IF f \in plain THEN rq[f] ELSE @[f]]]
  /\ trash' = IF Trash \in DOMAIN rq /\ c.cid \in Admins
                THEN [trash EXCEPT ![c.cid] = [client |-> c, qos |-> 2]]
                ELSE trash
  /\ UNCHANGED <<chan, param, clients, sessions>>
  /\ Write(publish_retained_message(topics', c, plain))

\* handle_unsubscribe: a filter with no topic object is passed over.
handle_unsubscribe(ch, fs) ==
  LET c == param[ch]
      known == {f \in fs \cap Filters : topics[f] # NULL}
  IN
  /\ Connected(ch)
  /\ topics' = [f \in Filters |-> IF f \in known THEN EraseIfEmpty(unsubscribe(topics[f], c))
                                  ELSE topics[f]]
  /\ subs' = [subs EXCEPT ![c.sess] = [f \in Filters |-> IF f \in known THEN NULL ELSE @[f]]]
  /\ out' = {}
  /\ UNCHANGED <<chan, param, clients, sessions, trash>>

\* handle_publish: to the topic of that name, then to every wild topic that
\* matches, in the order of an unordered_map.  sent is what the last of them
\* returned; if it is false the topic's name is published to $sys/trash.
handle_publish(ch, msg) ==
  LET wild == {f \in WildFilters : topics[f] # NULL /\ <<f, msg.topic>> \in Matching}
      hit  == {f \in {msg.topic} : topics[f] # NULL} \cup wild
      sent(f) == Entries(topics[f].clients) # {}
      copies == UNION {Copies(topics[f].clients, f, msg) : f \in hit}
      notice == [topic |-> Trash, qos |-> 1, payload |-> msg.topic]
  IN
  /\ Connected(ch)
  /\ topics' = [f \in Filters |-> IF f \in hit THEN retained_message(topics[f], msg)
                                  ELSE topics[f]]
  /\ UNCHANGED <<chan, param, clients, sessions, subs, trash>>
  /\ \E last \in (IF wild # {} THEN wild ELSE {msg.topic}) :
       IF last \in hit /\ sent(last)
         THEN Write(copies)
         ELSE Write(copies \cup Copies(trash, Trash, notice))

\* handle_disconnect.  The channel stays open, with no client.
handle_disconnect(ch) ==
  LET c == param[ch] IN
  /\ Connected(ch)
  /\ param' = [param EXCEPT ![ch] = NULL]
  /\ topics' = unsubscribe_all(topics, c)
  /\ Deregister(c)
  /\ out' = {}
  /\ UNCHANGED <<chan, subs, trash>>

\* handle_channel_disconnected, with a client that sent no DISCONNECT and without.
handle_channel_disconnected(ch) ==
  LET c == param[ch] IN
  /\ chan[ch] \in {"open", "closing"}
  /\ chan' = [chan EXCEPT ![ch] = "closed"]
  /\ param' = [param EXCEPT ![ch] = NULL]
  /\ IF c # NULL
       THEN /\ topics' = unsubscribe_all(WillTopics(c), c)
            /\ Deregister(c)
            /\ Write(WillCopies(c))
       ELSE /\ out' = {}
            /\ UNCHANGED <<topics, sessions, clients>>
  /\ UNCHANGED <<subs, trash>>

-----------------------------------------------------------------------------

Next ==
  \E ch \in Channels :
    \/ channel_connected(ch)
    \/ close(ch)
    \/ handle_connect_refused(ch)
    \/ \E cid \in ClientIds, clean \in BOOLEAN, will \in Wills, protocol_ok \in BOOLEAN :
         handle_connect(ch, cid, clean, will, protocol_ok)
    \/ \E rq \in Requests : handle_subscribe(ch, rq) \/ handle_unsubscribe(ch, DOMAIN rq)
    \/ \E msg \in Publications : handle_publish(ch, msg)
    \/ handle_disconnect(ch)
    \/ handle_channel_disconnected(ch)

Spec == Init /\ [][Next]_vars

-----------------------------------------------------------------------------
(* Properties *)

Live == {ch \in Channels : param[ch] # NULL}

\* mqtt_server.cpp:222-232 and 256-258: through take-overs, second CONNECTs and
\* late disconnect events, a client identifier belongs to one channel at most, and
\* that channel's client is the one registered and uses the session stored.
OneChannelPerClient ==
  /\ \A a, b \in Live : param[a].cid = param[b].cid => a = b
  /\ \A ch \in Live : /\ param[ch].chan = ch
                      /\ clients[param[ch].cid] = param[ch]
                      /\ sessions[param[ch].cid] = param[ch].sess

\* Two records of every subscription, the session's and the topic's, agree for
\* every client that has a channel (subscribe, unsubscribe and the resumption of a
\* session update both; topic entries are found by client id alone).
SubscriptionIndex ==
  \A ch \in Live, f \in Filters :
    LET c == param[ch]
        q == subs[c.sess][f]
    IN  IF q = NULL
          THEN topics[f] = NULL \/ topics[f].clients[c.cid] = NULL
                 \/ topics[f].clients[c.cid].client # c
          ELSE topics[f] # NULL /\ topics[f].clients[c.cid] = [client |-> c, qos |-> q]

\* Whatever a topic still holds, no entry of it writes to an open channel that is
\* not, or no longer, that client's: after DISCONNECT and a new CONNECT on the same
\* channel, for one, nothing subscribed to before is delivered.
EntriesAreOwned ==
  \A f \in Filters : topics[f] # NULL =>
    \A e \in Entries(topics[f].clients) :
      chan[e.client.chan] = "open" => param[e.client.chan] = e.client

\* mqtt_server.cpp:174-181 and 479-485: a topic object does not outlive its last
\* subscriber unless it holds a retained message.
LastSubscriberErasesTopic ==
  [][\A f \in Filters :
       topics'[f] # NULL /\ empty(topics'[f]) =>
         topics[f] # NULL /\ topics[f].clients = topics'[f].clients]_vars

\* The comments at mqtt_server.cpp:507 and 527, "always unsubscribe regardless of
\* clean session", and 537, "already DISCONNECTed, so the clean-up is done": a
\* closed channel's client is in no topic.
GoneMeansUnsubscribed ==
  \A f \in Filters : topics[f] # NULL =>
    \A e \in Entries(topics[f].clients) : chan[e.client.chan] # "closed"

\* The comment at mqtt_server.cpp:355: the $sys/trash notice is for a message that
\* was delivered to no client at all.
TrashOnlyUndelivered ==
  \A w \in out : w.kind = "PUBLISH" /\ w.via = Trash =>
    \A x \in out : x.kind = "PUBLISH" => x.via = Trash

\* The comment at mqtt_connect.cpp:140, "server should assign an unique client id":
\* two channels are never the same client.
UniqueClients == \A a, b \in Live : param[a].cid = param[b].cid => a = b

-----------------------------------------------------------------------------
(* What the broker promises: module PubSub.  A client is online while its channel *)
(* is open; its subscriptions are those of the session stored for it; a copy goes *)
(* to the client that holds the channel it was written to.                        *)

registered ==
  [i \in ClientIds |-> IF clients[i] = NULL THEN NULL
                       ELSE [clean |-> clients[i].clean, will |-> clients[i].will]]
online == {param[ch].cid : ch \in {x \in Channels : Connected(x)}}
saved == [i \in ClientIds |-> IF sessions[i] = NULL THEN NULL ELSE subs[sessions[i]]]
retained ==
  [t \in Topics |-> IF topics[t] = NULL THEN NULL ELSE topics[t].retained]
delivered ==
  {[to |-> IF param[w.chan] = NULL THEN NULL ELSE param[w.chan].cid, via |-> w.via,
    topic |-> w.topic, payload |-> w.payload, qos |-> w.qos, retain |-> w.retain] :
     w \in {x \in out : x.kind = "PUBLISH" /\ x.via # Trash}}

Promise == INSTANCE PubSub
Refinement == Promise!Spec

=============================================================================
