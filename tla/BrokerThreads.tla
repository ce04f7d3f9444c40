---------------------------- MODULE BrokerThreads ----------------------------
(***************************************************************************)
(* The handlers of mqtt_server as the worker threads run them: one step    *)
(* for each critical section and each unprotected access to a channel's    *)
(* client or to a session, so that handlers of different channels          *)
(* interleave as they may in the program.  The network library is not      *)
(* under src/: it has Workers threads and runs one handler of a channel at *)
(* a time.                                                                 *)
(*                                                                         *)
(* The mutexes that are held over several steps are _topic_mutex and the   *)
(* _client_mutex of each topic object.  The server's _client_mutex and     *)
(* _session_mutex protect single accesses and need no state.               *)
(*                                                                         *)
(* What module Broker has in full is reduced here to what the order of     *)
(* steps can change: publications have QoS 1, a session is the set of its  *)
(* filters and the number of its exchanges, and nobody is the admin.       *)
(***************************************************************************)
EXTENDS Integers, Sequences, FiniteSets

CONSTANTS
  Channels,    \* channel ids, never reused
  ClientIds,   \* client identifiers
  Plain,       \* topic names, and the filters equal to them: keys of _topics
  Wild,        \* filters with wildcards: keys of _wild_topics
  Matching,    \* the pairs <<wild filter, topic name>> for which topic::match holds
  Scripts,     \* what the clients may do: for every channel a sequence of requests
  Workers,     \* how many handlers can run at once (worker_thread in mqttd.cfg)
  PacketIds,   \* how many packet identifiers a session has (65535 in the code)
  NULL

Filters == Plain \cup Wild
Message(op) == [op : {op}, topic : Plain, retain : {"no", "store", "clear"}]
Request ==
  [op : {"connect"}, cid : ClientIds, clean : BOOLEAN, will : Plain \cup {NULL}]
  \cup [op : {"subscribe", "unsubscribe"}, filters : SUBSET Filters]
  \cup Message("publish") \cup [op : {"disconnect", "lost"}]

ASSUME FilterAssumption == Plain \cap Wild = {} /\ Matching \subseteq Wild \X Plain
ASSUME ScriptAssumption == Scripts \subseteq [Channels -> Seq(Request)]
ASSUME BoundAssumption == Workers \in Nat \ {0} /\ PacketIds \in Nat \ {0}

\* A null pointer is none of the objects.
ASSUME NullAssumption ==
  NULL \notin ClientIds \cup Filters \cup Channels \cup Nat
              \cup [chan : Channels, cid : ClientIds, clean : BOOLEAN,
                    will : Plain \cup {NULL}, sess : Nat \cup {NULL}]

VARIABLES
  script,      \* what each channel's client has still to do
  chan,        \* "open", "closing" (close() called, or lost) or "closed"
  unread,      \* PUBLISHes written to a channel and not yet acknowledged by its client
  crashed,     \* which null pointer was used: "param", "message" or "no"
  param,       \* ctx->param(): the mqtt_client a channel belongs to, or NULL
  clients,     \* _clients: the registered mqtt_client of each identifier, or NULL
  sessions,    \* _sessions: the session stored for each identifier, or NULL
  store,       \* the session objects, by order of allocation
  map,         \* _topics and _wild_topics: the topic object of each filter, or NULL
  objects,     \* the topic objects, by order of allocation
  topic_mutex, \* the channel whose handler holds _topic_mutex, or NULL
  frame,       \* the handler running for each channel: its place and local variables
  contended,   \* history: the identifiers two handlers were running for at a time
  raced,       \* history: the filters a subscriber of which got a discarded object
  due          \* history: the clients a running handle_publish has still to reach

outside == <<script, chan, unread, crashed>>
registries == <<param, clients, sessions>>
topics == <<map, objects>>
history == <<contended, raced, due>>
program == <<outside, registries, store, topics, topic_mutex, frame>>
vars == <<program, history>>

Client == [chan : Channels, cid : ClientIds, clean : BOOLEAN, will : Plain \cup {NULL},
           sess : DOMAIN store \cup {NULL}]
Places ==
  {"idle", "get_client", "delete_client", "take_over", "close_old", "session", "new_session",
   "reg_client", "set_param", "restore", "to_subscribe", "subscribe", "add_subscription",
   "resend", "retained", "retained_wild", "retained_of", "read_retained", "send_retained",
   "send_null", "publish", "wild", "wild_next", "store", "lock", "deliver", "will", "will_id",
   "unsubscribe_all", "lookup", "unsubscribe", "delete_subscription", "empty", "erase",
   "delete_session", "deregister", "puback"}
Frame == [pc : Places,
          rq : Request \cup [op : {"idle", "puback", "disconnected", "resume"}]
               \cup Message("disconnected"),
          agent : Client \cup {NULL},           \* the client the handler works for
          to : SUBSET (Client \cup {NULL}),     \* the clients to take over or to publish to
          todo : SUBSET Filters,                \* filters not yet dealt with
          obj : DOMAIN objects \cup {NULL},     \* the topic object at hand
          source : DOMAIN objects \cup {NULL},  \* the one whose retained message is sent
          objs : SUBSET DOMAIN objects]         \* topic objects not yet dealt with

TypeOK ==
  /\ chan \in [Channels -> {"open", "closing", "closed"}]
  /\ unread \in [Channels -> Nat]
  /\ param \in [Channels -> Client \cup {NULL}]
  /\ clients \in [ClientIds -> Client \cup {NULL}]
  /\ sessions \in [ClientIds -> DOMAIN store \cup {NULL}]
  /\ \A s \in DOMAIN store : store[s] \in [subs : SUBSET Filters, open : 0..PacketIds]
  /\ map \in [Filters -> DOMAIN objects \cup {NULL}]
  /\ \A o \in DOMAIN objects :
       objects[o] \in [filter : Filters, clients : [ClientIds -> Client \cup {NULL}],
                       retained : BOOLEAN, mutex : Channels \cup {NULL}]
  /\ topic_mutex \in Channels \cup {NULL}
  /\ \A ch \in Channels : frame[ch] \in Frame
  /\ crashed \in {"no", "param", "message"}
  /\ contended \subseteq ClientIds /\ raced \subseteq Filters
  /\ \A ch \in Channels : due[ch] \subseteq Client

Idle == [pc |-> "idle", rq |-> [op |-> "idle"], agent |-> NULL, to |-> {}, todo |-> {},
         obj |-> NULL, source |-> NULL, objs |-> {}]

Init ==
  /\ script \in Scripts
  /\ chan = [ch \in Channels |-> "open"]
  /\ unread = [ch \in Channels |-> 0]
  /\ crashed = "no"
  /\ param = [ch \in Channels |-> NULL]
  /\ clients = [i \in ClientIds |-> NULL]
  /\ sessions = [i \in ClientIds |-> NULL]
  /\ store = <<>>
  /\ map = [f \in Filters |-> NULL]
  /\ objects = <<>>
  /\ topic_mutex = NULL
  /\ frame = [ch \in Channels |-> Idle]
  /\ contended = {}
  /\ raced = {}
  /\ due = [ch \in Channels |-> {}]

-----------------------------------------------------------------------------
(* Mutexes and places *)

\* _topic_mutex is mutex 0, that of a topic object has the object's number.
TopicMutex == 0
Holder(m) == IF m = TopicMutex THEN topic_mutex ELSE objects[m].mutex
Holds(ch) == {m \in 0..Len(objects) : Holder(m) = ch}

\* The mutexes the next step of a handler takes; unsubscribe_all erases with
\* _topic_mutex already held.
Wants(ch) ==
  LET fr == frame[ch] IN
  CASE fr.pc \in {"to_subscribe", "retained_wild", "publish", "wild", "will", "lookup"} -> {TopicMutex}
    [] fr.pc = "erase" /\ fr.rq.op = "unsubscribe" -> {TopicMutex}
    [] fr.pc \in {"subscribe", "send_retained", "send_null", "lock", "unsubscribe", "empty"} -> {fr.obj}
    [] OTHER -> {}

\* Mutant: nobody waits for a mutex.
AvailableAlways(ch) == TRUE
Available(ch) == \A m \in Wants(ch) : Holder(m) = NULL

At(ch, pc) == frame[ch].pc = pc /\ Available(ch) /\ crashed = "no"
Goto(ch, fr, pc) == frame' = [frame EXCEPT ![ch] = [fr EXCEPT !.pc = pc]]
Step(ch, from, pc) == At(ch, from) /\ Goto(ch, frame[ch], pc)
Return(ch) == frame' = [frame EXCEPT ![ch] = Idle]
Busy(ch) == frame[ch].pc # "idle"
Ready(ch) == ~Busy(ch) /\ Cardinality({x \in Channels : Busy(x)}) < Workers /\ crashed = "no"

\* close().
Close(channels) ==
  chan' = [x \in Channels |-> IF x \in channels /\ chan[x] = "open" THEN "closing" ELSE chan[x]]

\* The end of a scope that may hold _topic_mutex.
ReleaseTopics(ch) == topic_mutex' = IF topic_mutex = ch THEN NULL ELSE topic_mutex

topic(f) ==
  [filter |-> f, clients |-> [i \in ClientIds |-> NULL], retained |-> FALSE, mutex |-> NULL]
Entries(o) == {objects[o].clients[i] : i \in ClientIds} \ {NULL}

-----------------------------------------------------------------------------
(* A handler begins *)

FirstPlace(op) ==
  CASE op = "subscribe" -> "to_subscribe"
    [] op = "unsubscribe" -> "lookup"
    [] op = "publish" -> "publish"
    [] op = "disconnect" -> "unsubscribe_all"

\* packet_handler::channel_read up to the first critical section of the handler, which
\* gets its client from ctx->param(), or throws and has the channel closed.
\* DISCONNECT takes the client from the channel.
channel_read(ch) ==
  LET rq == Head(script[ch])
      todo == IF "filters" \in DOMAIN rq THEN rq.filters ELSE {}
  IN
  /\ Ready(ch) /\ chan[ch] = "open" /\ script[ch] # <<>>
  /\ rq.op \notin {"connect", "lost"}
  /\ script' = [script EXCEPT ![ch] = Tail(@)]
  /\ IF param[ch] = NULL
       THEN Close({ch}) /\ UNCHANGED frame
       ELSE /\ Goto(ch, [Idle EXCEPT !.rq = rq, !.agent = param[ch], !.todo = todo],
                    FirstPlace(rq.op))
            /\ UNCHANGED chan
  /\ param' = IF rq.op = "disconnect" THEN [param EXCEPT ![ch] = NULL] ELSE param
  /\ unread' = IF rq.op = "disconnect" THEN [unread EXCEPT ![ch] = 0] ELSE unread
  /\ UNCHANGED <<crashed, clients, sessions, store, topics, topic_mutex>>

\* A second CONNECT closes the channel and goes on.
handle_connect(ch) ==
  LET rq == Head(script[ch]) IN
  /\ Ready(ch) /\ chan[ch] = "open" /\ script[ch] # <<>> /\ rq.op = "connect"
  /\ script' = [script EXCEPT ![ch] = Tail(@)]
  /\ Close(IF param[ch] = NULL THEN {} ELSE {ch})
  /\ Goto(ch, [Idle EXCEPT !.rq = rq, !.agent = [chan |-> ch, cid |-> rq.cid, clean |-> rq.clean,
                                                 will |-> rq.will, sess |-> NULL]], "get_client")
  /\ UNCHANGED <<unread, crashed, registries, store, topics, topic_mutex>>

\* The client acknowledges a PUBLISH it has read.
CanAcknowledge(ch) == Ready(ch) /\ chan[ch] = "open" /\ unread[ch] > 0 /\ param[ch] # NULL
handle_puback(ch) ==
  /\ CanAcknowledge(ch)
  /\ unread' = [unread EXCEPT ![ch] = @ - 1]
  /\ Goto(ch, [Idle EXCEPT !.rq.op = "puback", !.agent = param[ch]], "puback")
  /\ UNCHANGED <<script, chan, crashed, registries, store, topics, topic_mutex>>

\* The end of a channel, with a client that sent no DISCONNECT and without.
handle_channel_disconnected(ch) ==
  LET c == param[ch] IN
  /\ Ready(ch) /\ chan[ch] = "closing"
  /\ chan' = [chan EXCEPT ![ch] = "closed"]
  /\ param' = [param EXCEPT ![ch] = NULL]
  /\ unread' = [unread EXCEPT ![ch] = 0]
  /\ IF c = NULL THEN UNCHANGED frame
     ELSE IF c.will = NULL
       THEN Goto(ch, [Idle EXCEPT !.rq.op = "disconnected", !.agent = c], "unsubscribe_all")
       ELSE Goto(ch, [Idle EXCEPT !.rq = [op |-> "disconnected", topic |-> c.will,
                                          retain |-> "no"], !.agent = c], "will")
  /\ UNCHANGED <<script, crashed, clients, sessions, store, topics, topic_mutex>>

\* A connection breaks or a timer closes it, also while its handler runs.
ConnectionLost(ch) ==
  /\ chan[ch] = "open" /\ script[ch] # <<>> /\ Head(script[ch]).op = "lost" /\ crashed = "no"
  /\ script' = [script EXCEPT ![ch] = Tail(@)]
  /\ Close({ch})
  /\ UNCHANGED <<unread, crashed, registries, store, topics, topic_mutex, frame>>

-----------------------------------------------------------------------------
(* handle_connect: the old client of the identifier, the session, the new client *)

get_client(ch) ==
  LET old == clients[frame[ch].agent.cid] IN
  /\ At(ch, "get_client")
  /\ IF old = NULL THEN Goto(ch, frame[ch], "session")
     ELSE Goto(ch, [frame[ch] EXCEPT !.to = {old}], "delete_client")
  /\ UNCHANGED <<outside, registries, store, topics, topic_mutex>>

\* Mutant: it stays registered.
WithoutNot(cid) == clients
Without(cid) == [clients EXCEPT ![cid] = NULL]

delete_client(ch) ==
  /\ Step(ch, "delete_client", "take_over")
  /\ clients' = Without(frame[ch].agent.cid)
  /\ UNCHANGED <<outside, param, sessions, store, topics, topic_mutex>>

\* Mutant: it keeps its client.
DisplacedNone(fr) == {}
Displaced(fr) == {c.chan : c \in fr.to}

\* The old client's channel loses its client and is closed, whatever its handler is
\* doing.
take_over(ch) ==
  LET old == Displaced(frame[ch]) IN
  /\ Step(ch, "take_over", "close_old")
  /\ param' = [x \in Channels |-> IF x \in old THEN NULL ELSE param[x]]
  /\ UNCHANGED <<outside, clients, sessions, store, topics, topic_mutex>>

close_old(ch) ==
  /\ At(ch, "close_old")
  /\ Close({c.chan : c \in frame[ch].to})
  /\ Goto(ch, [frame[ch] EXCEPT !.to = {}], "session")
  /\ UNCHANGED <<script, unread, crashed, registries, store, topics, topic_mutex>>

\* A stored session is looked up, or for a clean session deleted.
session(ch) ==
  LET c == frame[ch].agent
      s == sessions[c.cid]
  IN
  /\ At(ch, "session")
  /\ IF ~c.clean /\ s # NULL
       THEN Goto(ch, [frame[ch] EXCEPT !.agent.sess = s, !.rq = [op |-> "resume"]], "reg_client")
       ELSE Goto(ch, frame[ch], "new_session")
  /\ sessions' = IF c.clean THEN [sessions EXCEPT ![c.cid] = NULL] ELSE sessions
  /\ UNCHANGED <<outside, param, clients, store, topics, topic_mutex>>

\* reg_session_ptr and reg_client_ptr: insert keeps what another handler has stored.
new_session(ch) ==
  LET s == Len(store) + 1 IN
  /\ At(ch, "new_session")
  /\ store' = Append(store, [subs |-> {}, open |-> 0])
  /\ sessions' = [sessions EXCEPT ![frame[ch].agent.cid] = IF @ = NULL THEN s ELSE @]
  /\ Goto(ch, [frame[ch] EXCEPT !.agent.sess = s], "reg_client")
  /\ UNCHANGED <<outside, param, clients, topics, topic_mutex>>

reg_client(ch) ==
  LET c == frame[ch].agent IN
  /\ Step(ch, "reg_client", "set_param")
  /\ clients' = [clients EXCEPT ![c.cid] = IF @ = NULL THEN c ELSE @]
  /\ UNCHANGED <<outside, param, sessions, store, topics, topic_mutex>>

\* Where the loop over the filters to subscribe to goes on.
NextToSubscribe(fr) ==
  IF fr.todo # {} THEN "to_subscribe" ELSE IF fr.rq.op = "resume" THEN "resend" ELSE "retained"

\* ctx->param(client_ptr) and CONNACK.
set_param(ch) ==
  LET fr == frame[ch] IN
  /\ At(ch, "set_param")
  /\ param' = [param EXCEPT ![ch] = fr.agent]
  /\ IF fr.rq.op = "resume" THEN Goto(ch, fr, "restore") ELSE Return(ch)
  /\ UNCHANGED <<outside, clients, sessions, store, topics, topic_mutex>>

\* The subscriptions of a resumed session.
restore(ch) ==
  LET fr == [frame[ch] EXCEPT !.todo = store[frame[ch].agent.sess].subs] IN
  /\ At(ch, "restore")
  /\ Goto(ch, fr, NextToSubscribe(fr))
  /\ UNCHANGED <<outside, registries, store, topics, topic_mutex>>

\* The open exchanges of a resumed session are written again.
resend(ch) ==
  /\ Step(ch, "resend", "retained")
  /\ unread' = [unread EXCEPT ![ch] =
                  IF chan[ch] = "open" THEN @ + store[frame[ch].agent.sess].open ELSE @]
  /\ UNCHANGED <<script, chan, crashed, registries, store, topics, topic_mutex>>

-----------------------------------------------------------------------------
(* Subscription, by handle_subscribe and by handle_connect *)

\* The topic object of a filter; a new one is put into the map.
get_topic_ptr_to_subscribe(ch) ==
  /\ At(ch, "to_subscribe")
  /\ \E f \in frame[ch].todo :
       LET o == IF map[f] = NULL THEN Len(objects) + 1 ELSE map[f] IN
       /\ objects' = IF map[f] = NULL THEN Append(objects, topic(f)) ELSE objects
       /\ map' = [map EXCEPT ![f] = o]
       /\ Goto(ch, [frame[ch] EXCEPT !.obj = o, !.objs = @ \cup {o}, !.todo = @ \ {f}],
               "subscribe")
  /\ UNCHANGED <<outside, registries, store, topic_mutex>>

subscribe(ch) ==
  LET fr == frame[ch] IN
  /\ Step(ch, "subscribe",
          IF fr.rq.op = "subscribe" THEN "add_subscription" ELSE NextToSubscribe(fr))
  /\ objects' = [objects EXCEPT ![fr.obj].clients[fr.agent.cid] = fr.agent]
  /\ UNCHANGED <<outside, registries, store, map, topic_mutex>>

add_subscription(ch) ==
  LET fr == frame[ch] IN
  /\ Step(ch, "add_subscription", NextToSubscribe(fr))
  /\ store' = [store EXCEPT ![fr.agent.sess].subs = @ \cup {objects[fr.obj].filter}]
  /\ UNCHANGED <<outside, registries, topics, topic_mutex>>

-----------------------------------------------------------------------------
(* publish_retained_message and topic::publish_retained *)

\* One topic object after the other, those of wild filters last.
retained(ch) ==
  LET fr == frame[ch]
      plain == {o \in fr.objs : objects[o].filter \in Plain}
  IN
  /\ At(ch, "retained")
  /\ \/ fr.objs = {} /\ Return(ch)
     \/ \E o \in IF plain # {} THEN plain ELSE fr.objs :
          Goto(ch, [fr EXCEPT !.obj = o, !.source = o, !.objs = @ \ {o}],
               CASE objects[o].filter \in Wild -> "retained_wild"
                 [] objects[o].filter \in Plain /\ objects[o].retained -> "read_retained"
                 [] OTHER -> "retained")
  /\ UNCHANGED <<outside, registries, store, topics, topic_mutex>>

\* A wild topic's client gets the messages of _topics, under _topic_mutex.
retained_wild(ch) ==
  LET fr == frame[ch]
      matched == {n \in Plain : <<objects[fr.obj].filter, n>> \in Matching /\ map[n] # NULL}
  IN
  /\ At(ch, "retained_wild")
  /\ topic_mutex' = ch
  /\ Goto(ch, [fr EXCEPT !.todo = matched], "retained_of")
  /\ UNCHANGED <<outside, registries, store, topics>>

retained_of(ch) ==
  LET fr == frame[ch] IN
  /\ At(ch, "retained_of")
  /\ \/ fr.todo = {} /\ Goto(ch, fr, "retained") /\ topic_mutex' = NULL
     \/ \E n \in fr.todo :
          /\ Goto(ch, [fr EXCEPT !.todo = @ \ {n}, !.source = map[n]],
                  IF objects[map[n]].retained THEN "read_retained" ELSE "retained_of")
          /\ UNCHANGED topic_mutex
  /\ UNCHANGED <<outside, registries, store, topics>>

\* The message is read a second time for the call of publish_retained, which reads
\* ctx->param(): either may be null by now.
read_retained(ch) ==
  LET fr == frame[ch] IN
  /\ At(ch, "read_retained")
  /\ Goto(ch, [fr EXCEPT !.to = {param[ch]}],
          IF objects[fr.source].retained THEN "send_retained" ELSE "send_null")
  /\ UNCHANGED <<outside, registries, store, topics, topic_mutex>>

\* publish_retained looks the client up among the topic's: a null client is used by
\* the comparison if there is anything to compare with, a null message by the
\* client's publish.  A client that is not found is an mqtt_error.
Found(fr) == {c \in fr.to \ {NULL} : objects[fr.obj].clients[c.cid] # NULL}
NullUsed(fr) ==
  IF fr.to = {NULL} /\ Entries(fr.obj) # {} THEN "param"
  ELSE IF fr.pc = "send_null" /\ Found(fr) # {} THEN "message" ELSE "no"

send_retained(ch) ==
  LET fr == frame[ch] IN
  /\ At(ch, "send_retained") \/ At(ch, "send_null")
  /\ crashed' = NullUsed(fr)
  /\ IF crashed' # "no"
       THEN UNCHANGED <<chan, topic_mutex, objects, frame>>
     ELSE IF Found(fr) # {}
       THEN /\ objects' = [objects EXCEPT ![fr.obj].mutex = ch]
            /\ Goto(ch, fr, "deliver")
            /\ UNCHANGED <<chan, topic_mutex>>
     ELSE /\ Close({ch}) /\ ReleaseTopics(ch) /\ Return(ch)
          /\ UNCHANGED objects
  /\ UNCHANGED <<script, unread, registries, store, map>>

-----------------------------------------------------------------------------
(* topic::publish and mqtt_client::publish *)

\* The call of publish on topic object o.
PublishOn(ch, fr, o) ==
  Goto(ch, [fr EXCEPT !.obj = o], IF fr.rq.retain = "no" THEN "lock" ELSE "store")

store_retained(ch) ==
  /\ Step(ch, "store", "lock")
  /\ objects' = [objects EXCEPT ![frame[ch].obj].retained = (frame[ch].rq.retain = "store")]
  /\ UNCHANGED <<outside, registries, store, map, topic_mutex>>

\* Where the handler goes on after publish or publish_retained.
AfterPublish(ch) ==
  LET fr == frame[ch] IN
  CASE fr.rq.op = "publish" -> IF objects[fr.obj].filter \in Wild THEN "wild_next" ELSE "wild"
    [] fr.rq.op = "disconnected" -> "unsubscribe_all"
    [] OTHER -> IF topic_mutex = ch THEN "retained_of" ELSE "retained"

\* The topic's mutex is held from here to the last client.
lock(ch) ==
  LET fr == frame[ch]
      entries == Entries(fr.obj)
  IN
  /\ At(ch, "lock")
  /\ Goto(ch, [fr EXCEPT !.to = entries], IF entries = {} THEN AfterPublish(ch) ELSE "deliver")
  /\ objects' = [objects EXCEPT ![fr.obj].mutex = IF entries = {} THEN NULL ELSE ch]
  /\ UNCHANGED <<outside, registries, store, map, topic_mutex>>

\* new_packet_id tries identifiers until it finds a free one: without any the
\* handler stays where it is, with its mutexes.
\* Mutant: one in use is taken.
HasFreeIdAlways(s) == TRUE
HasFreeId(s) == store[s].open < PacketIds

\* The holder of the topic's mutex when the clients in rest are left.
\* Mutants: a plain topic's is kept while the wild topics are visited; it is never
\* released.
HolderWithKept(ch, rest) == IF rest = {} /\ AfterPublish(ch) # "wild" THEN NULL ELSE ch
HolderWithNever(ch, rest) == ch
HolderWith(ch, rest) == IF rest = {} THEN NULL ELSE ch

deliver(ch) ==
  LET fr == frame[ch] IN
  /\ At(ch, "deliver")
  /\ \E c \in fr.to :
       LET rest == fr.to \ {c} IN
       /\ HasFreeId(c.sess)
       /\ store' = [store EXCEPT ![c.sess].open = @ + 1]
       /\ unread' = [unread EXCEPT ![c.chan] = IF chan[c.chan] = "open" THEN @ + 1 ELSE @]
       /\ objects' = [objects EXCEPT ![fr.obj].mutex = HolderWith(ch, rest)]
       /\ Goto(ch, [fr EXCEPT !.to = rest], IF rest = {} THEN AfterPublish(ch) ELSE "deliver")
  /\ UNCHANGED <<script, chan, crashed, registries, map, topic_mutex>>

\* mqtt_client::handle_puback.
puback(ch) ==
  /\ At(ch, "puback")
  /\ store' = [store EXCEPT ![frame[ch].agent.sess].open = IF @ > 0 THEN @ - 1 ELSE @]
  /\ Return(ch)
  /\ UNCHANGED <<outside, registries, topics, topic_mutex>>

-----------------------------------------------------------------------------
(* handle_publish and publish_will_message *)

publish(ch) ==
  LET o == map[frame[ch].rq.topic] IN
  /\ At(ch, "publish")
  /\ IF o = NULL THEN Goto(ch, frame[ch], "wild") ELSE PublishOn(ch, frame[ch], o)
  /\ UNCHANGED <<outside, registries, store, topics, topic_mutex>>

\* The wild topics, under _topic_mutex.
wild(ch) ==
  LET matched == {w \in Wild : map[w] # NULL /\ <<w, frame[ch].rq.topic>> \in Matching} IN
  /\ At(ch, "wild")
  /\ topic_mutex' = ch
  /\ Goto(ch, [frame[ch] EXCEPT !.objs = {map[w] : w \in matched}], "wild_next")
  /\ UNCHANGED <<outside, registries, store, topics>>

wild_next(ch) ==
  LET fr == frame[ch] IN
  /\ At(ch, "wild_next")
  /\ \/ fr.objs = {} /\ Return(ch) /\ topic_mutex' = NULL
     \/ \E o \in fr.objs : PublishOn(ch, [fr EXCEPT !.objs = @ \ {o}], o) /\ UNCHANGED topic_mutex
  /\ UNCHANGED <<outside, registries, store, topics>>

\* The will goes to the topic of its name, with an identifier of the client's own
\* session.
will(ch) ==
  LET o == map[frame[ch].rq.topic] IN
  /\ At(ch, "will")
  /\ Goto(ch, [frame[ch] EXCEPT !.obj = o], IF o = NULL THEN "unsubscribe_all" ELSE "will_id")
  /\ UNCHANGED <<outside, registries, store, topics, topic_mutex>>

will_id(ch) ==
  /\ At(ch, "will_id")
  /\ HasFreeId(frame[ch].agent.sess)
  /\ PublishOn(ch, frame[ch], frame[ch].obj)
  /\ UNCHANGED <<outside, registries, store, topics, topic_mutex>>

-----------------------------------------------------------------------------
(* Unsubscription, by handle_unsubscribe and by unsubscribe_all *)

\* What follows after a filter.
NextToUnsubscribe(ch, fr) ==
  IF fr.todo # {} THEN Goto(ch, fr, "lookup")
  ELSE IF fr.rq.op = "unsubscribe" THEN Return(ch)
  ELSE Goto(ch, fr, IF fr.agent.clean THEN "delete_session" ELSE "deregister")

unsubscribe_all(ch) ==
  /\ At(ch, "unsubscribe_all")
  /\ NextToUnsubscribe(ch, [frame[ch] EXCEPT !.todo = store[frame[ch].agent.sess].subs])
  /\ UNCHANGED <<outside, registries, store, topics, topic_mutex>>

\* unsubscribe_all keeps _topic_mutex until it is done with the filter.
lookup(ch) ==
  /\ At(ch, "lookup")
  /\ \E f \in frame[ch].todo :
       LET fr == [frame[ch] EXCEPT !.todo = @ \ {f}, !.obj = map[f]] IN
       IF map[f] = NULL
         THEN NextToUnsubscribe(ch, fr) /\ UNCHANGED topic_mutex
         ELSE /\ topic_mutex' = IF fr.rq.op = "unsubscribe" THEN NULL ELSE ch
              /\ Goto(ch, fr, "unsubscribe")
  /\ UNCHANGED <<outside, registries, store, topics>>

\* By client id: whichever client of that identifier is in the topic.
unsubscribe(ch) ==
  LET fr == frame[ch] IN
  /\ Step(ch, "unsubscribe", IF fr.rq.op = "unsubscribe" THEN "delete_subscription" ELSE "empty")
  /\ objects' = [objects EXCEPT ![fr.obj].clients[fr.agent.cid] = NULL]
  /\ UNCHANGED <<outside, registries, store, map, topic_mutex>>

delete_subscription(ch) ==
  LET fr == frame[ch] IN
  /\ Step(ch, "delete_subscription", "empty")
  /\ store' = [store EXCEPT ![fr.agent.sess].subs = @ \ {objects[fr.obj].filter}]
  /\ UNCHANGED <<outside, registries, topics, topic_mutex>>

\* Mutant: only the message is looked at.
IsEmptyNoMessage(o) == ~objects[o].retained
IsEmpty(o) == ~objects[o].retained /\ Entries(o) = {}

empty(ch) ==
  LET fr == frame[ch] IN
  /\ At(ch, "empty")
  /\ IF IsEmpty(fr.obj)
       THEN Goto(ch, fr, "erase") /\ UNCHANGED topic_mutex
       ELSE NextToUnsubscribe(ch, fr) /\ ReleaseTopics(ch)
  /\ UNCHANGED <<outside, registries, store, topics>>

\* By filter: whichever object the map has by now.
erase(ch) ==
  LET fr == frame[ch] IN
  /\ At(ch, "erase")
  /\ map' = [map EXCEPT ![objects[fr.obj].filter] = NULL]
  /\ NextToUnsubscribe(ch, fr) /\ ReleaseTopics(ch)
  /\ UNCHANGED <<outside, registries, store, objects>>

\* The end of handle_disconnect and handle_channel_disconnected.
delete_session(ch) ==
  /\ Step(ch, "delete_session", "deregister")
  /\ sessions' = [sessions EXCEPT ![frame[ch].agent.cid] = NULL]
  /\ UNCHANGED <<outside, param, clients, store, topics, topic_mutex>>

deregister(ch) ==
  /\ At(ch, "deregister")
  /\ clients' = Without(frame[ch].agent.cid)
  /\ Return(ch)
  /\ UNCHANGED <<outside, param, sessions, store, topics, topic_mutex>>

-----------------------------------------------------------------------------
(* History *)

\* Identifiers with handlers on two channels.
RunsFor(ch) == IF Busy(ch) THEN {frame[ch].agent.cid} ELSE {}
Overlapping ==
  UNION {UNION {RunsFor(x) \cap RunsFor(y) : y \in Channels \ {x}} : x \in Channels}

\* A subscriber is put into an object that has been erased or is about to be; an
\* object is erased that is not the one found empty.
Discarded(o) ==
  map[objects[o].filter] # o \/ \E y \in Channels : frame[y].pc = "erase" /\ frame[y].obj = o
Losing ==
  {objects[frame[ch].obj].filter :
     ch \in {x \in Channels : /\ frame[x].pc \in {"subscribe", "erase"} /\ frame'[x] # frame[x]
                              /\ IF frame[x].pc = "subscribe" THEN Discarded(frame[x].obj)
                                 ELSE map[objects[frame[x].obj].filter] # frame[x].obj}}

\* The clients that have subscribed to a topic and are not changing that nor being
\* taken over; those the other history variables exempt are not counted.
Settled(ch) ==
  /\ chan[ch] = "open" /\ param[ch] # NULL
  /\ frame[ch].rq.op \in {"idle", "publish", "puback"}
  /\ \A x \in Channels \ {ch} : param[ch].cid \notin RunsFor(x)
  /\ param[ch].cid \notin contended
HasSubscribed(c, t) ==
  \E f \in store[c.sess].subs \ raced : f = t \/ <<f, t>> \in Matching
Subscribers(t) == {param[ch] : ch \in {x \in Channels : Settled(x) /\ HasSubscribed(param[x], t)}}

Reached(ch) == IF frame[ch].pc = "deliver" THEN frame[ch].to \ frame'[ch].to ELSE {}

History ==
  /\ contended' = contended \cup Overlapping'
  /\ raced' = raced \cup Losing
  /\ due' = [ch \in Channels |->
               IF frame'[ch].rq.op # "publish" THEN {}
               ELSE LET now == Subscribers(frame[ch].rq.topic)'
                    IN  IF Busy(ch) THEN now \cap (due[ch] \ Reached(ch)) ELSE now]

-----------------------------------------------------------------------------

\* A handler goes on.
Continue(ch) ==
  \/ get_client(ch) \/ delete_client(ch) \/ take_over(ch) \/ close_old(ch)
  \/ session(ch) \/ new_session(ch) \/ reg_client(ch) \/ set_param(ch) \/ restore(ch) \/ resend(ch)
  \/ get_topic_ptr_to_subscribe(ch) \/ subscribe(ch) \/ add_subscription(ch)
  \/ retained(ch) \/ retained_wild(ch) \/ retained_of(ch)
  \/ read_retained(ch) \/ send_retained(ch)
  \/ store_retained(ch) \/ lock(ch) \/ deliver(ch) \/ puback(ch)
  \/ publish(ch) \/ wild(ch) \/ wild_next(ch) \/ will(ch) \/ will_id(ch)
  \/ unsubscribe_all(ch) \/ lookup(ch) \/ unsubscribe(ch) \/ delete_subscription(ch)
  \/ empty(ch) \/ erase(ch) \/ delete_session(ch) \/ deregister(ch)

Next ==
  /\ \E ch \in Channels :
       \/ channel_read(ch) \/ handle_connect(ch) \/ handle_puback(ch)
       \/ handle_channel_disconnected(ch) \/ ConnectionLost(ch)
       \/ Continue(ch)
  /\ History

Spec == Init /\ [][Next]_vars

\* What can go on does, some handler before another: the system schedules the threads
\* and hands over mutexes, clients acknowledge what they read, and the end of a
\* channel is handled.
Progress ==
  \E ch \in Channels : Continue(ch) \/ handle_puback(ch) \/ handle_channel_disconnected(ch)
FairSpec == Spec /\ WF_program(Progress)

-----------------------------------------------------------------------------
(* Properties *)

\* The mutexes are taken in one order, _topic_mutex before that of a topic object
\* (mqtt_server.cpp:129-134, 170-182 and 338-343) and never two of the latter, so no
\* handlers wait for each other's mutex.
MutexOrder ==
  \A ch \in Channels :
    /\ Holds(ch) # {} => TopicMutex \notin Wants(ch)
    /\ Holds(ch) \ {TopicMutex} # {} => Wants(ch) = {}

\* topic.cpp:41-53 and 58-65: whoever is still to be published to is in the topic at
\* that moment, so a client that got its UNSUBACK receives nothing more from it.
OnlySubscribersReceive ==
  \A ch \in Channels : frame[ch].pc = "deliver" =>
    \A c \in frame[ch].to : objects[frame[ch].obj].clients[c.cid] # NULL

\* A publication reaches everyone who is subscribed for as long as its handler runs,
\* whatever subscribes, unsubscribes, comes and goes next to it.
ReachesSubscribers ==
  [][\A ch \in Channels : frame[ch].rq.op = "publish" /\ ~Busy(ch)' => due[ch] = {}]_vars

\* The registries agree for every client whose handler has returned: as in module
\* Broker, but whatever handlers of other clients are in the middle of.  Exempt are
\* an identifier that had two handlers at a time and a filter that lost a subscriber.
RegistriesAgree ==
  \A ch \in Channels : Settled(ch) =>
    LET c == param[ch] IN
    /\ clients[c.cid] = c /\ sessions[c.cid] = c.sess
    /\ \A f \in Filters \ raced :
         f \in store[c.sess].subs <=> map[f] # NULL /\ objects[map[f]].clients[c.cid] = c

\* Two channels have one client only if two handlers of its identifier ran at a time.
\* A handler finds that its channel has no client any more for the same reason, or
\* because its CONNECT was the channel's second: the client of the first is still
\* registered, and who takes that one over takes the channel's new client away.
HandlersApart ==
  /\ crashed = "param" =>
       \/ contended # {}
       \/ \E ch \in Channels : /\ frame[ch].rq.op = "resume" /\ chan[ch] = "closing"
                              /\ frame[ch].to = {NULL}
  /\ \A x, y \in Channels :
       /\ x # y /\ param[x] # NULL /\ param[y] # NULL /\ param[x].cid = param[y].cid
       => param[x].cid \in contended

\* A handler waits for a packet identifier of a session that nobody can free: the
\* client is gone, or a handler of its channel or all worker threads wait as well.
Jammed ==
  \E ch \in Channels :
    \/ /\ frame[ch].pc = "will_id"
       /\ ~HasFreeId(frame[ch].agent.sess)
    \/ /\ frame[ch].pc = "deliver"
       /\ \A c \in frame[ch].to : ~HasFreeId(c.sess) /\ ~CanAcknowledge(c.chan)

\* Every handler returns, unless identifiers are exhausted.
HandlersEnd ==
  \A ch \in Channels : Busy(ch) ~> (~Busy(ch) \/ crashed # "no" \/ []Jammed)

\* The comment at session.h:20: a session is accessed only by its client, and the
\* client only by handlers, so no synchronization is needed.  Two handlers never have
\* the same part of a session before them if one of them changes it.
Access(s, part, writes) == [sess |-> s, part |-> part, writes |-> writes]
NextAccesses(ch) ==
  LET fr == frame[ch]
      own(part, writes) == {Access(fr.agent.sess, part, writes)}
  IN
  CASE fr.pc = "deliver" -> {Access(c.sess, "exchanges", TRUE) : c \in fr.to}
    [] fr.pc \in {"will_id", "puback"} -> own("exchanges", TRUE)
    [] fr.pc = "resend" -> own("exchanges", FALSE)
    [] fr.pc \in {"add_subscription", "delete_subscription"} -> own("subscriptions", TRUE)
    [] fr.pc \in {"restore", "unsubscribe_all"} -> own("subscriptions", FALSE)
    [] OTHER -> {}
SessionExclusive ==
  \A x, y \in Channels : x # y =>
    \A p \in NextAccesses(x), q \in NextAccesses(y) :
      p.sess = q.sess /\ p.part = q.part => ~p.writes /\ ~q.writes

=============================================================================
