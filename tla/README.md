# Shan.MqttBroker in TLA+

A verification development kept beside the C++ MQTT 3.1.1 broker
Shan.MqttBroker. TLA+ modules describe the broker's state and its handlers as
the code has them, TLC checks them on small instances, and TLAPS checks proofs
of the most important results for every value of the constants. Paths such as
`mqtt_server.cpp:287` are under `src/Shan.MqttBroker/Shan.MqttBroker/`
(`object/`, `player/`, `handler/`, `packet/`).

Contents: 1 inventory of the program, 2 the modules and how they correspond to
the code, 3 what the runs check, 4 fairness, 5 what is proved, 6 where code and
comments disagree, 7 what is not modelled, 8 the plan.

## 1. The program

The broker runs on the external library Shan.Net: a TCP (or TLS) server whose
channels pass what they read through a pipeline of two handlers, `mqtt_codec`
(bytes to packets) and `packet_handler` (packets to calls of `mqtt_server`).
Every channel has its own context `ctx`, with a parameter `ctx->param()` that
holds the `mqtt_client` of that channel. A configured number of worker threads
(`mqttd.cfg`: 4) run the handlers: those of one channel one after the other,
those of different channels at the same time. There are no tests, and the only
documentation is the (mostly Korean) comments.

| component | state | operations | talks to |
|---|---|---|---|
| session (`object/session.*`) | the 16-bit identifier counter; lists of unacknowledged QoS 1 and QoS 2 PUBLISH objects; identifiers awaiting PUBCOMP (outgoing) and PUBREL (incoming); the subscriptions | `new_packet_id`, add and release for each list, (un)subscribe, `run_...` iterators | called by client and server, no locks of its own |
| client (`player/mqtt_client.*`) | channel id, client id, clean flag, will, session | `publish` (a copy to this subscriber), `handle_puback/pubrec/pubrel/pubcomp` | session; writes to its channel |
| topic (`object/topic.*`) | the subscribers with their QoS, the retained message, a mutex | `subscribe`, `unsubscribe`, `publish`, `match`, `empty` | called by the server, calls `mqtt_client::publish` |
| server (`player/mqtt_server.*`) | `_clients`, `_sessions`, `_topics`, `_wild_topics`, `_trash_topic`, three mutexes | one handler per packet type, channel connected and disconnected, wills, retained messages, `$sys/trash` | all of the above; closes channels |
| packet handler (`handler/packet_handler.cpp`) | three timers per channel | dispatches packets; `close()` on exceptions, timeouts, writes to a channel with no client | server |
| codec and packet classes (`handler/mqtt_codec.cpp`, `packet/`) | the unread bytes of the channel (`streambuf`) | fixed header, one parser and one `serialize` per packet type | Shan.Net, packet handler |
| configuration, start, logging, `str` functions | read once | | |

What is hard here, and what makes each component correct:

* **Sessions outlive connections.** A QoS 2 exchange of four packets may break
  between any two; the containers must say exactly where it stood, identifiers
  must not be used twice although the counter wraps, nothing may be delivered
  twice or forgotten, and order must survive retransmission. The same for the
  incoming direction with its one list of identifiers.
* **One state, several registries.** `ctx->param()`, `_clients`, `_sessions`, the
  session's subscriptions and the topics' subscribers are five records of the
  same facts, changed by take-overs, second CONNECTs, resubscription, DISCONNECT,
  and a `channel_disconnected` that may come late. They have to agree.
* **Topic objects come and go.** A topic object exists while it has a subscriber
  or a retained message.
* **Text.** Filters are validated and matched with iterators; both ends of
  filter and name are boundaries.
* **Streams.** A segment ends anywhere, or holds many packets: the codec must
  rewind to the start of the incomplete one and leave no complete one behind.
* **Threads.** A publisher's thread is inside the subscriber's session, also while
  `handle_connect` resumes it; a publisher reads an acknowledgement before its message is
  forwarded; two critical sections follow each other where one was meant; locks nest; a
  thread takes the client from another thread's channel.

`PROJECT.json` lists the hazards one by one, at the line where each bites, with
the properties that cover it.

## 2. The modules

| module | models | promises |
|---|---|---|
| `Delivery` | abstract: QoS 0 at most once, 1 at least once, 2 exactly once; nothing owed is forgotten before it was delivered | |
| `Session` | `session.cpp`, `mqtt_client::publish`, `handle_puback/pubrec/pubcomp`, resumption at the end of `handle_connect` | implements `Delivery` |
| `SessionProofs` | proofs about `Session`, and that it implements `Delivery` | |
| `Receiver` | `handle_publish` and `handle_pubrel` as receiver of QoS 1 and 2 publications | |
| `ReceiverProofs` | proofs about `Receiver` | |
| `SequenceLemmas` | what `Append`, `Tail`, `RemoveAt` and `RemoveFirst` do to the elements of a sequence | |
| `PubSub` | abstract: who is connected, who subscribed to what, which copies a step sends | |
| `Broker` | the registries and every handler of `mqtt_server`, topics with subscribers and retained messages | implements `PubSub` |
| `BrokerProofs` | proofs about `Broker`, and that it implements `PubSub` | |
| `Wildcards` | `mqtt_subscribe::is_topic_filter_valid` | |
| `TopicFilter` | `topic::match`, one step per iteration of its loop | matching level by level |
| `TopicFilterProofs` | proofs about `TopicFilter` | |
| `Codec` | `mqtt_codec::channel_read`, `fixed_header`, the packet classes' parsers | inverse of `Serialize`, the wire format of a client |
| `CodecProofs` | proofs about `Codec` | |
| `BrokerThreads` | the handlers of `mqtt_server` again, one step per critical section, with worker threads and mutexes | |
| `ThreadsProofs`, `RegistryProofs` | proofs about `BrokerThreads`: mutexes, places and take-overs; what the registries say of each other | |
| `MC...` | small instances for TLC | |

Actions bear the names of the functions they model. In `Broker` an action is a whole
handler with every call it makes, and what it writes is the set `out`. `Session` and
`Receiver` take apart those handlers between whose steps another thread or the client
can act (publication, the resuming `handle_connect`, `handle_publish`); what is written
goes to a stream. Actions of the environment (clients, network) are set apart in each
module.

**Session.** One session, the connections of its client, one after the other, and the
publishers of its topics. `forAck`, `forRec`, `forComp` are the three containers, `nextId`
the counter, with `MaxId` in place of 65535. A connection is two FIFO streams, lossless while
it is up; when it breaks both are emptied. `conn` is "up", "broken" (the network
knows, the broker does not: it still publishes into the session, and the bytes
are discarded) or "down" (after `channel_disconnected`, which takes the client
out of its topics: nothing is published then). `new_packet_id` is the first free identifier
at or after the counter; with none free the loop of the code spins, and the action waits. The
object's `dup` and the flag that goes on the wire are two fields, as in
`mqtt_publish`. The client is a conforming MQTT client.

A publication and a resumption are not atomic, since they run on different threads with no
lock in common but the topic's mutex:

| code | action |
|---|---|
| `mqtt_client.cpp:24-29`: identifier and storing | `Publish`; the packet is then in `writing` |
| `mqtt_client.cpp:31`: `write_channel` | `write_channel` |
| `mqtt_server.cpp:222-261` | `handle_connect`; from "broken" it is a take-over |
| 284, once per filter | `subscribe(t)`: `entry[t]` becomes "live" |
| 288, 293, 298: the copies | `unacked_publish_for_ack`, `unacked_publish_for_rec`, `unacked_packet_id_for_pubcomp`: what is to be written is in `todo` |
| 290-291, 295-296, 300-301: one turn | `retry` |
| the end of the last loop | `resumed` |

`entry[t]` says whose `mqtt_client` is in topic t: with a "stale" one, which a take-over or
a broken connection leaves, a publication is stored and its write goes to a channel that is
gone. `topic::publish` holds the topic's mutex until it has written, so one publication of a
topic is in `writing` at a time (`TopicFree`); those of different topics are not ordered. The
client's own packets are handled when `handle_connect` has returned (one handler per channel).

Four history variables serve the properties. `twice` are the identifiers of PUBLISH packets
stored after `subscribe(t)` and before the copy of their container, which are written both by
their publisher and by the loop; `disturbed` are the messages published with such an
identifier then or later, since an identifier once written twice is not taken out of `twice`
(a late acknowledgement may release a later exchange that reuses it); `overtaking` are the
messages stored while `handle_connect` still had older ones of their QoS to write; `published`
is the order of publication.

**Receiver.** The other direction. `forRel` is `_packet_id_for_pubrel`. A message
is its packet identifier. `handle_publish` acknowledges and records
(`mqtt_server.cpp:315-321`), and leaves the message in `forwarding[c]`, c being the number of
its connection; `forward(c)` is the rest of the handler (323-360), in which it waits for
mutexes. In between the client may read the acknowledgement, lose the connection, open
another and have packets handled on that one; `forwarding[c]` of the old one stays
(`StillForwarding`). `forwarded` counts how often a message was passed to the topics. The
publisher repeats after reconnecting what was not acknowledged, in any order.

**Broker.** Channels, their `param`, `clients`, `sessions` (the identifier of a
session object in `subs`), `topics`, `trash`. A topic finds its subscribers by
client id alone, as the code's comparator does, and the entries keep the
`mqtt_client` of the time of subscription, whose channel may be gone: that is why
`OneChannelPerClient`, `SubscriptionIndex` and `EntriesAreOwned` are not obvious.
Matching is a relation here (`Matching`); the text is the subject of
`TopicFilter`. `close(ch)` may happen whenever the channel is open: this covers
the three timers and exceptions. Handlers are atomic;
`BrokerThreads` takes them apart.

**PubSub** has no channels and no topic objects. The mapping: a client is online
while it has an open channel; its subscriptions are those of the session stored
for it; a copy goes to the client that holds the channel it was written to. A copy that goes out
by a stale entry, a lost subscription, a copy at the wrong QoS, or a retained
message that is lost while somebody subscribes would be a step `PubSub` does not
have. `PubSub!Retain` allows what the code does with a retained message for a
topic that has no object: it is dropped. It also allows a CONNECT with clean session 0 to
resume a session left over from a clean client, and a take-over without a will. The
refinement says nothing against these three; section 6 lists them.

**TopicFilter** has the iterators `fit` and `nit` of `match`, one past the length
being `end()`, and a step for each branch of the loop. The reference
(`LevelsOf`, `ValidLevels`, `LevelsMatch`) splits filter and name into levels, at the
separators taken in order by rank (`CutsOf`).

**Codec** computes with bytes. The stream of a script of packets is cut into segments in every way; `channel_read`
parses what has arrived. A parser is a set of results, {} when it throws. All
recursion is by recursive functions. `PacketType` is what a client may send: packets of
every class with any fields, and `Raw` for bytes that are no packet. They are serialized in the wire format of a conforming
client (`Serialize`), which is not always what the broker's own `serialize` functions would
write: the broker never serializes a CONNECT or SUBSCRIBE. `Sound` are those that
a conforming client sends and the parsers support: strings are UTF-8 (`IsText`), the payload
of a CONNECT has the fields its flags announce, topic names have no wildcards, filters are
valid, and the remaining length has at most three bytes.

**BrokerThreads.** At most `Workers` handlers run at once, one per channel. A running
handler is a `frame`: its place `pc` in the code, the request, the client `agent` it
took from `ctx->param()` when it began, and the local variables (`todo`: filters left,
`objs`: topic objects left, `obj`: the one at hand, `to`: clients left to publish to,
`source`: the topic whose retained message is sent). The steps are:

* each access to `_clients` and `_sessions` under their mutexes, which are held for
  that access only and so are no state of their own;
* each critical section of `_topic_mutex`, whose holder is state where it is held over
  several steps: the wild topics in `handle_publish`, `publish_retained_message`, and
  a filter in `unsubscribe_all`;
* each critical section of a topic's mutex, held from the first client to the last
  in `topic::publish`;
* each unprotected access: to another channel's `param` (`take_over`), to the retained
  message (atomic), to a session (`deliver`, `puback`, `resend`, `restore`,
  `add_subscription`, `delete_subscription`, `will_id`).

| place in the code | actions |
|---|---|
| `handle_connect` 223-258 | `get_client`, `delete_client`, `take_over`, `close_old`, `session`, `new_session`, `reg_client`, `set_param` |
| `handle_connect` 268-305 | `restore`, then as SUBSCRIBE, `resend`, then `retained` |
| `handle_subscribe` | `get_topic_ptr_to_subscribe`, `subscribe`, `add_subscription`, then `retained` |
| `publish_retained_message`, `topic::publish_retained` | `retained`, `retained_wild`, `retained_of`, `read_retained`, `send_retained`, `deliver` |
| `handle_publish`, `topic::publish`, `mqtt_client::publish` | `publish`, `store_retained`, `lock`, `deliver` per client, `wild`, `wild_next` |
| `handle_unsubscribe` | `lookup`, `unsubscribe`, `delete_subscription`, `empty`, `erase` |
| `handle_disconnect`, `handle_channel_disconnected` | `will`, `will_id`, `unsubscribe_all`, then `lookup`, `unsubscribe`, `empty`, `erase` under one hold of `_topic_mutex`, `delete_session`, `deregister` |

Topic objects and sessions are kept in order of allocation, so that a handler can hold
on to an object that is no longer in a map, as a `shared_ptr` does. What `Broker` and
`Session` say in full is reduced: publications have QoS 1, a session is its set of filters
and the number of its open exchanges (at most `PacketIds`), wills are not retained, there
is no admin and no `$sys/trash`. `resend` writes nothing here: what it writes, and in which
order with the publications of others, is the subject of `Session`. The loops over hash tables and sets go in any order.
The handlers of QoS 2 packets and of PINGREQ touch their own session only, as `puback`
does, and are left out. An access to a session is one step here; in the program two of
them that meet are a data race (`SessionExclusive`, section 6), and what becomes of the
containers then is not modelled. `Scripts` says what each channel's client sends, one
script per hazard, and every interleaving of its handlers is taken.

Three history variables serve the properties: `contended`, the identifiers for which
handlers ran on two channels at a time; `raced`, the filters of which a subscriber was put into
a topic object discarded by another handler; `due`, whom a running `handle_publish` has
still to reach.

**Shan.Net**, which is not in the repository, is assumed to behave as the handlers
use it: a channel is opened once and its id never reused; after `close()` it
neither delivers nor takes packets; `channel_disconnected` comes exactly once for
it; the codec is called again while the streambuf is not empty and `ctx->done(true)`
was not called; a TCP stream loses and reorders nothing while it is up.

## 3. What the runs check

Run a configuration with `tlc -workers 2 -config X.cfg M`.

| run | instance | result |
|---|---|---|
| `MCSession` | two messages of QoS 1 in a topic, two of QoS 2 in another; 2 identifiers; 2 broken connections (2.4 million states) | `TypeOK`, `PacketIdsDistinct`, `ExactlyOnce`, `DeliveredInOrder`, `OnePacketPerExchange`, `Refinement` (of `Delivery`) |
| `MCSessionLive` | one message of each QoS, 2 identifiers, 2 broken connections | with fairness `EventuallyDelivered`, `ExchangesEnd` |
| `MCSessionTwice` | one message of QoS 1 and one of QoS 2, 2 identifiers, 1 broken connection | `QosExactlyOnce` is violated |
| `MCReceiver` | one QoS 1 and two QoS 2 publications, 2 broken connections | `TypeOK`, `AcknowledgedInHand`, `RecordedUntilReleased`, `CopiesBounded`, and with fairness `AcknowledgedIsForwarded`, `ExchangesComplete` |
| `MCBroker` | 3 channels, 2 clients, a topic and a wild filter that matches it, one will, 2 session objects | `TypeOK`, `OneChannelPerClient`, `SubscriptionIndex`, `EntriesAreOwned`, `LastSubscriberErasesTopic`, `Refinement` (of `PubSub`) |
| `MCBrokerGhost` | as `MCBroker` | `GoneMeansUnsubscribed` is violated |
| `MCBrokerTrash` | with an admin | `TrashOnlyUndelivered` is violated |
| `MCBrokerAnonymous` | with an anonymous client | `UniqueClients` is violated |
| `MCTopicFilter` | all filters of up to 5 characters over a letter, `/`, `+`, `#`; all names of up to 4 over two letters and `/` | `TypeOK`, `AcceptedAreValid`, `MatchesLevels`, `MatchEnds` |
| `MCCodec` | nine scripts with every packet a client sends, cut in every way | `TypeOK`, `HandedAreSent`, `ClosedOnlyInsideLength`, `EverythingHandled` |
| `MCThreads` | 3 channels, 2 handlers at a time, 1 identifier per session; nine scripts | `TypeOK`, `MutexOrder`, `OnlySubscribersReceive`, `RegistriesAgree`, `HandlersApart`, `ReachesSubscribers`, and with fairness `HandlersEnd` |
| `MCThreadsSession` | a subscriber and a publisher, 2 identifiers | `SessionExclusive` is violated |

The bounds, all named in the .cfg files, and why they are enough:

* `MaxId` = 2 with four messages: the counter wraps past 0 while
  older identifiers are in use, also in the middle of an exchange; with two open
  exchanges none is free and publishing waits. The safety properties compare two exchanges
  or two messages at a time: two of a topic and QoS for the order, two topics so that two
  publishers write at a time and `handle_connect` enters one topic before the other. The
  proofs (section 5) do not depend on the numbers. QoS 0, which is stored nowhere, is in
  `MCSessionLive`, where three messages keep the graph small enough for liveness.
* `MaxDrops` = 2: an exchange is interrupted, resumed, and interrupted again in
  what was retransmitted. A third break repeats the second.
* Two clients on three channels: a client taken over by a new channel while the
  old one is closing and another client is connected; a channel reused after
  DISCONNECT or by a second CONNECT. Two session objects: a stored session and a
  clean one, or those of both clients. Channels and clients are symmetric.
* `Workers` = 2 and three channels: every race listed in section 1 is between two
  handlers, and a third channel's client is affected by what they do. Handlers of all
  three channels follow each other in any order. `PacketIds` = 1: identifiers are
  exhausted by the second publication.
* The scripts of `MCThreads`: two subscribers and a publisher, on a plain and on a wild
  topic; retained messages stored and cleared during a subscription; a subscriber that
  publishes to a topic whose mutex waits for its acknowledgement; wills; resumption;
  take-over with a stale entry; second CONNECTs, one of them with a take-over of the
  first identifier while the handler of the second passes on retained messages. Each has few requests, so that the
  states stay few; longer scripts put the same handlers one after the other.
* Five characters of filter have every position of a wildcard next to every
  neighbour and three separators; four of name have names with empty first, middle
  and last levels.
* The scripts have a remaining length of one, two and four bytes, the smallest and
  largest parts of every optional field, UTF-8 of one, two and three bytes, and
  unsound packets: invalid filters, wrong flags, a packet only a server sends.
  Nothing is claimed of what follows an unsound packet, except that handing on
  stops being compared there.

`CHECK_DEADLOCK FALSE` is in every configuration: messages, connections, channels
and scripts are finite and the system stops when they are used up.

## 4. Fairness

`Session!FairSpec` and `Receiver!FairSpec` assume that a worker thread eventually
handles a packet that has arrived (weak fairness of each handler) and goes on with the
handler it is in (each step of a resuming `handle_connect`, a publisher's write, each
`forward(c)`), that the client reads what was written to it, and that it reconnects.
`forward` ends unless an identifier is missing for ever, which is the subject of
`BrokerThreads` (`Jammed`). Nothing is assumed about
publishing or about connections breaking; they break a bounded number of times,
which is what "connections eventually stay up long enough" means in a finite
model. Weak fairness is enough, since a packet at the head of a stream stays there
until it is handled or the connection ends. In `TopicFilter` the loop of `match`
runs on (one thread, no blocking). In `Codec` the client sends all of its bytes and
handlers run when there is something to read. `Broker` has no liveness property:
its promises are about what each step does.

`BrokerThreads!FairSpec` has one weak fairness condition, on `Progress`: while some handler
can go on, or a client can acknowledge, or the end of a channel can be handled, one of
these happens. It does not say which, so it is weaker than a fair scheduler: a handler
may be passed over as long as others have something to do, which with finite scripts is not
for ever. Requests are under no fairness: a client may stop sending. A spinning
`new_packet_id` is a step that cannot be taken, and its mutexes stay held.

## 5. What is proved

Eight modules of proofs, checked by `tlapm`, for every value of the constants: any number
of messages, identifiers, channels, clients, topics, worker threads and broken
connections, filters and names of any length, packets of any size and segments cut anywhere. What is assumed of the constants are the `ASSUME`s of the modules: `NULL` is
no object (`NullAssumption`), plain and wild filters are different keys and `Matching`
relates the ones to the others (`FilterAssumption`), messages have a QoS
(`QosAssumption`, `QoSAssumption`, `MessageAssumption`), `Receiver`'s messages are finitely
many (they are its packet identifiers), scripts are made of requests
(in `Codec`: of packets; `ScriptAssumption`), filters and names are sequences that are not empty, names without
wildcards (`NameAssumption`), and numbers are numbers. TLC evaluates all of them in the runs. The
theorems about `Broker` have one more hypothesis, `NoAnonymousClient`: every client comes with
an identifier. It is needed, and `MCBrokerAnonymous` shows why: clients without one are all
registered under the empty identifier.

| module | theorem | says |
|---|---|---|
| `SessionProofs` | `TypeCorrect`, `IdsDistinct`, `DeliveredOnce` | `TypeOK`, `PacketIdsDistinct`, `ExactlyOnce`, the latter two for identifiers not written twice |
| `SessionProofs` | `InOrderOfPublication`, `OnePacketEach` | `DeliveredInOrder`, `OnePacketPerExchange` |
| `SessionProofs` | `ImplementsDelivery` | `Refinement` of `Delivery` |
| `ReceiverProofs` | `TypeCorrect`, `NothingAcknowledgedIsLost`, `IdentifiersRecorded`, `DuplicatesBounded` | `TypeOK`, `AcknowledgedInHand`, `RecordedUntilReleased`, `CopiesBounded` |
| `BrokerProofs` | `TypeCorrect`, `ChannelUnique`, `SubscriptionsIndexed`, `EntriesOwnedAlways`, `TopicsErased` | `TypeOK`, `OneChannelPerClient`, `SubscriptionIndex`, `EntriesAreOwned`, `LastSubscriberErasesTopic` |
| `BrokerProofs` | `BrokerImplementsPubSub` | `Refinement` of `PubSub` |
| `ThreadsProofs` | `TypeCorrect`, `OneOrder`, `SubscribersOnly`, `ClientsApart` | `TypeOK`, `MutexOrder`, `OnlySubscribersReceive`, `HandlersApart` |
| `ThreadsProofs` | `NoCircle`, `NothingLeftLocked` | no thread waits for one that waits for a third; a handler that has returned holds no mutex |
| `RegistryProofs` | `RegistriesAgreeThroughout` | `RegistriesAgree` |
| `RegistryProofs` | `PublicationsReach` | `ReachesSubscribers` |
| `TopicFilterProofs` | `TypeCorrect`, `AcceptedAccordingToLevels`, `MatchAgrees` | `TypeOK`, `AcceptedAreValid`, `MatchesLevels` |
| `CodecProofs` | `TypeCorrect`, `HandedAreAsSent`, `ClosedInsideLength` | `TypeOK`, `HandedAreSent`, `ClosedOnlyInsideLength` |
| `CodecProofs` | `ReadAsWritten` | a streambuf that begins with a sound packet is read as that packet, and exactly its bytes are consumed |

Each module has a theorem `Invariance`, `Spec => []IInv`, for the inductive invariant the
others rest on. TLC checked each `IInv` on the instance of the module's run before it was
proved. Every action has a lemma that it preserves `IInv`, with a step per conjunct it
disturbs.

**Session.** `PacketIdsDistinct` and `ExactlyOnce` are not inductive: that a QoS 2 message
is delivered once depends on what is under way. A second copy of its PUBLISH would be
harmful only after the client has forgotten the identifier, which it does on PUBREL, which
is sent on PUBREC, and so on around the exchange. `IInv` speaks of the identifiers that were
not written twice (`Alone`). A packet is under way in a stream, in a publisher's hands
(`writing`), in what a loop has left (`todo`), or is yet to be copied (`Ahead`: it stands in a
container `handle_connect` has not come to). For each of them it says what the containers and
the client must look like:

* `OutgoingExpected`: a PUBLISH has its object in `forAck` or `forRec`
  (or is QoS 0 and was not delivered), a PUBREL its identifier in `forComp`.
* `AnswersExpected`: a PUBACK, PUBREC or PUBCOMP has its object or identifier in
  the container it will be taken from, and the client has the message.
* `OneInFlight`: at most one packet per identifier is under way, over all these places;
  `OneOfQosZero` the same for a QoS 0 message. `NoneIsStuck`: at least one for every
  unfinished exchange of a connection that is up. The two are `OnePacketPerExchange`.
* `IdsApart`, `StoredOnce`, `ReceivedOnce`: identifiers in the containers differ, a message
  has one object, in the container of its QoS, and the client holds the identifier of a message
  in `forRec` exactly if it was delivered.
* `Connection`: what the stage of `handle_connect`, the topics' entries and `todo` say of
  each other; nothing is under way on a connection that is not up.

What the exception does not touch is in it without exception: identifiers in `forAck` and
`forRec` differ whatever is written twice, and every message of an identifier in `twice` that
is still stored is in `disturbed`.

`DeliveredInOrder` needs more, and `OInv` says it on top of `IInv`. A message can overtake
another of its topic and QoS only if the other one is not delivered while it is, so
`UndeliveredIsStored` says that the other one still has its object, `StoredInOrder` that the
containers are in the order of publication, in which the loops write them again,
`LastOfItsTopic` that nothing is published on a topic that is writing (the topic's mutex),
`NoneOvertaken` that a stream and `todo` have no two messages in the wrong order, and
`NoneLeftBehind` that nothing already written or with a publisher comes after what
`handle_connect` has still to write. The exception is exactly a message in `overtaking`.

`ImplementsDelivery` then shows that `Publish` is `Accept`, the client's reading a
PUBLISH is `Deliver` (or a stutter, for a duplicate of QoS 2), PUBACK and PUBREC
are `Release`, and the steps of `handle_connect` and `write_channel` are stutters. The mapping
leaves out the messages in `disturbed`.

**Receiver.** The same idea in the other direction. One packet about a message is under way
at most (`OneUnderWay`); `Passed(m)` counts the copies forwarded and those handlers of this or
of earlier connections have at hand. A PUBLISH on its way is a first copy or is paid for by a
broken connection (`ToBrokerAgrees`), an acknowledgement is of a message that was passed
(`ToClientAgrees`), and breaking a connection pays for one more copy of everything
(`BrokenIsEmpty`). `AcknowledgedInHand` rests on `StillForwarding`: it fails if a handler
whose channel is gone gives up. That what is in a handler's hands is forwarded in the end is
`AcknowledgedIsForwarded`, checked by TLC.
The cardinality in `CopiesBounded` is that of the set `Copies(m)` of the
positions of m in `_packet_id_for_pubrel`, which a recording enlarges by one and a release
makes smaller by one.

**Broker.** What a channel's client may rely on depends on every topic entry, those of
clients long gone included: topics find entries by client identifier, and entries write to
the channel of the time of subscription. `IInv` adds to the properties that two identifiers
never have one session (`SessionsApart`), that an entry stands under its own client's identifier
and its channel was used (`EntriesInPlace`, from which it follows that a channel accepted
later has no entries), and states `EntriesAreOwned` and `SubscriptionIndex` entry by
entry (`EntriesOwned`, `IndexAgrees`). `TopicsErased` is an action property: no handler leaves
behind a topic object that has newly become empty.

`BrokerImplementsPubSub` has a lemma per handler. The two directions of "the copies that are
written are those `PubSub` allows" are the heart of it: `CopiesForMembers`, `CopiesDelivered`
and `RetainedDelivered` turn the entries of the topics that match into the subscriptions of
the clients online, for which `IndexAgrees` is used in one direction and `EntriesOwned` in
the other.

**BrokerThreads.** The step of one handler is seen from its own channel only. `TopicsKept(ch)`
says what a step of channel ch may do to topics and mutexes: an object whose mutex somebody else
holds keeps its entries and its mutex, what _topic_mutex protects stays while somebody else
holds it, filters never change, and new objects are free. `OthersKeep` concludes that the
other channels keep all that the invariant says of them, and `CoreStep` that a step has to be
looked at for its own channel only. `IInv` says

* `FramesInv`: what a handler serves and has at hand at each place (`Serves`, `Has`), and
  that it works for a client of its own channel;
* `HoldersInv`: at exactly which places a handler holds `_topic_mutex` (`HoldsTopics`) and
  a topic's mutex (`deliver`). `MutexOrder` follows by comparing with the places where
  they are taken;
* `ListedInv`: what was read under `_topic_mutex` stays true while it is held: the filters
  `publish_retained_message` still has to visit are in the map, the objects
  `handle_publish` still has to visit are wild topics;
* `ObjectsInv`: an object is in the map under its own filter.

`NoCircle` follows from `MutexOrder`: in a chain x waits for y, y waits for z, the mutex
between y and z is that of a topic, and who holds one waits for nothing.

`HandlersApart` is about who may work for an identifier, and has three invariants of its own on
top of `Core`, the part of `IInv` about places and objects:

* `AloneInv`: for an identifier that is not in `contended`, every client of a channel is
  registered or is what the only handler of the identifier is about to take over, and that
  handler knows what the registry holds at each place (`Knows`): after `delete_client` nobody
  is registered, after `take_over` no channel has a client of the identifier, after
  `reg_client` its own is registered. Each step of `handle_connect` and of the two ends of a
  connection reads what an earlier step of the same handler has left, and that is still so
  because nobody else works for the identifier (`SoleHandler`, `SoleAccounted`, `AloneStep`).
* `ApartInv`: as long as no identifier had two handlers, the registered client of an open
  channel, or one about to be taken over, is the channel's own or the one its handler has at
  hand (`OwnedWhileOpen`), so that nobody takes over a client a SUBSCRIBE is served for
  (`SubscribesForOwn`); a resumed CONNECT loses its client only after the channel was closed
  (`ResumesForOwn`), which is the case of a channel's second CONNECT. `SendsToOwn` says the
  same of the value that `publish_retained` has read.
* `CrashInv`: so a handler uses a null client only in that case.

`NoTwins` concludes that two channels' clients are both the registered one or both the one
taken over. Most steps change neither registries nor places that matter (`Quiet`); the lemmas
in ...`Moves` say once what each of the others does to them, those in ...`Alone` and ...`Apart`
use it.

`RegistriesAgree` says of a client at rest that the channel, `_clients`, `_sessions`, the
session's list of filters and the topics' entries agree. None of these is changed together
with another: they are five critical sections apart. `AgreeInv` (`RegistryProofs`) says what holds
in between, for every identifier that is not in `contended` and every filter that is not in `raced`:

* `SessionKept`: the registered client has the stored session, unless its handler is ending it.
* `EntryListed`: a client in a topic has the filter in its session, or its handler is at
  `add_subscription` with just this object and this client.
* `ListedEntered`: the registered client is in the topics of its session's filters, unless its
  handler is about to put it there or take it away (`Changing`): a resumed session's
  filters from `reg_client` to the last `subscribe`, an UNSUBSCRIBE's between `unsubscribe` and
  `delete_subscription`, all of them at the end of the client.
* `KnowsSession`, `Sees`: what the handler has read and relies on: nobody has stored a session
  since `session` found none; the object it entered is still the map's; the entry it took out
  has not come back.
* `EraseSees`: an object at `erase` is still empty. That it was found empty in another critical
  section is what `raced` is about; for every other filter this is an invariant.
* `SessionsOwned`: a session is that of one identifier, whichever clients still point to it, so
  that a handler that changes a session's filters changes nobody else's. It needs no exception.

`Untouched(ch, j)` is what a handler of identifier j leaves to the others: their registry entries,
their sessions' filters and, but for filters in `raced`, their topic entries. `AgreeStep` concludes
that a step has to be looked at for its own identifier only, and there only if its handler is the
only one (`Sole`). `KeptAgrees` and `WorkAgree` deal with the steps after which topics and
sessions say what they said; left are the five that change them.

`ReachesSubscribers` is about the moment a publication's handler returns; `DueInv`, checked on
`MCThreads` before it was proved, says where that handler still has each client it owes the
message (`due`). `Ahead(fr, c)`: up to `wild`, where the wild topics are listed, a client with
the topic's name among its filters is in that topic's object, or among the clients `deliver` has
left; from then on a client without it is in an object that is listed or at hand, or among the
clients left. `wild` is where `RegistriesAgree` is needed: what the session says of the client
(a matching filter) has to be in the map and in the object at the moment of the listing, and
`SettledAgree` says so. After it the map may change, the objects listed stay and so do the
client's entries in them: `SettledKept` shows with `SessionsOwned` that no other handler
writes them. A client is at the end of the walk still ahead or reached; nothing is ahead of a
handler that returns (`PublishStays`), so nobody is owed.

**TopicFilter.** No induction over the strings is needed, and none would be possible: the
only facts about `CutsOf` that are used are those of `CutUp` (the cuts rise from 0 to one past
the end and are exactly the separators), which are proved from the rank of a number in a
finite set, and wherever an argument wants the first separator, the first difference or the
next cut, `LeastNat` gives a least element. `ValidityAgrees` is about `is_topic_filter_valid` alone: what
stands left and right of a wildcard, against what a level consists of. For the loop of
`match`, `At(f, n, i, p, q)` says where the iterators are: in level i of both strings, all
levels before matching, and what was read of these two the same, or the level of the name
passed by '+'. Every branch of the loop has a lemma: `BothEnd`, `FilterEnds`, `NameEnds`,
`HashMatches`, `OtherDiffers` for the returns, `PlusPasses`, `SameIsRead`, `NextLevel` for the
steps that go on. `PassedPlus` is where the exception of `MatchesLevels` comes from: '+' is
not passed at the end of a name. `PlainMatches` is about the filters without
wildcards that `handle_publish` looks up by name. `TypeCorrect` says that the iterators
stay inside, so that `match` dereferences none that is `end()`.

Two steps of proofs about `BrokerThreads` failed for a good reason. The two guards of the CASE
in `retained` were both true of a wild topic with a retained message, so that TLA+ leaves
open which branch is meant; the model now says what `mqtt_server.cpp:124-138` does. And
`HandlersApart` used to say that only two handlers of one identifier can take a handler's
client away, which a second CONNECT on a channel refutes: its exception for the resumed
CONNECT of a closing channel, and the script of `MCThreads` that reaches it, come from there.

**Codec.** What a recursive function computes would need an induction over the data, whose
theorems take an operator as a parameter. `RecursiveFunction` takes a function instead: if
`step[g][d]` depends on g at arguments of a lower rank only, then some f is `step[f]`. Its
proof, and every other that goes along a sequence, takes the least counterexample (`LeastNat`).
It gives `EncodeLength`, `FlattenSeq`, `Characters`, `ParseFields` and `ParseFilters` the values
their definitions state. From there the proof has two parts.

* What a parser reads of any bytes: it ends behind where it began and not past the end
  (`StringRead`, `ConnectRead`, `PublishRead`, `FiltersRead`, `PacketRead`). `TypeCorrect` follows.
* What it reads of bytes that were serialized: `Holds(b, p, s)` says that the bytes s stand in
  the streambuf b behind position p. `HoldsConcat` and `HoldsJoined` take it apart along the
  fields, `ConnectHeld`, `PublishHeld` and `FiltersHeld` put the packet together again,
  `LengthEncoded` and `HeaderRead` do so for the remaining length, and `ReadAsWritten` is the
  result. `Unparsed` is about a streambuf that ends before the packet does: the codec asks for
  more, unless it ends inside the remaining length.

`HandedAreSent` is not inductive: it does not say where in the stream the next packet begins.
`IInv` adds `ReadAreHanded`: while all is sound, what has been read is, to the byte, the packets
handed on. TLC checked it on `MCCodec`. The theorems led to one correction of the model: `Sound`
used to say only that a packet is not raw and its filters are valid, which the packets of the scripts made
true; it now says what the parsers require of every field.

Checked by TLC and not proved is what must eventually happen: liveness under fairness and
ENABLED are beyond the prover used.

## 6. Where code and comments disagree

Shown by a run that TLC finds violated:

* **What is published while a session is resumed is written twice** (`MCSessionTwice`).
  `handle_connect` puts the client back in its topics at
  `mqtt_server.cpp:284` and copies the containers at 288, 293 and 298, with no lock over
  both. A PUBLISH that a publisher's thread stores in between is written by the publisher
  (`mqtt_client.cpp:31`) and by the loop. The client answers both copies, so that
  `_packet_id_for_pubcomp` has the identifier twice, or the second copy is still under way
  when the answer to the first has released the identifier; `session.cpp:33` says that the
  three containers are all there is of identifiers in use. A QoS 1 message is delivered after
  its release. A QoS 2 message is delivered twice if the publisher is late: the first copy's
  PUBREL is read before the publisher writes the second (`constants.h:45`,
  QOS_EXACTLY_ONCE). `PacketIdsDistinct`, `ExactlyOnce`, `OnePacketPerExchange` and
  `Refinement` hold for every other identifier, and exempt these (`twice`, `disturbed`), as
  does `EventuallyDelivered`; `ExchangesEnd` holds for these as well.
* **Taken-over clients stay in their topics** (`MCBrokerGhost`). Their `ctx->param()`
  is gone by the time of `channel_disconnected`, so nobody unsubscribes them, unless
  the session is the one resumed. The entries are harmless to others
  (`EntriesAreOwned`), but the topic object stays, and a message for it counts as sent.
* **`$sys/trash` announces delivered messages** (`MCBrokerTrash`). `sent` is that of the
  last wild topic visited (`mqtt_server.cpp:341`).
* **Two threads meet in a session** (`MCThreadsSession`). `session.h:20` says (in Korean)
  that a session is accessed by its client only, and the client by handlers only, so that
  no synchronization is needed. But `topic::publish` calls the subscriber's
  `mqtt_client::publish` on the publisher's thread, which is in `new_packet_id` and
  `add_publish_for_ack` (`mqtt_client.cpp:24-27`) while the subscriber's own thread is in
  `release_publish_for_ack`. The topic's mutex does not help: the acknowledgement does not
  take it, and a client has entries in many topics.
* **Anonymous clients are one client** (`MCBrokerAnonymous`). The id is copied
  (`mqtt_server.cpp:195`) before one is generated (202).

Met while modelling, described by the models but with no run of their own:

* DUP is not set on the wire. `mqtt_server.cpp:290` "set dup": `dup(true)`
  (`mqtt_publish.h:22`) sets a member, `serialize` writes the flags computed by the
  constructor (`SetDup`, `Serialize`).
* QoS 2 is not exactly once for incoming messages. `handle_publish`
  (`mqtt_server.cpp:318`) does not look whether the identifier is recorded; a repeated
  PUBLISH is forwarded again. `CopiesBounded` says how often: every extra copy costs a
  broken connection, and with one broken connection there can be two.
* A message published while `handle_connect` resumes the session goes out before older ones
  that the loops at `mqtt_server.cpp:288-297` have yet to write: it is delivered first.
  No comment promises the order; `DeliveredInOrder` exempts these messages (`overtaking`),
  and those of an identifier written twice (`disturbed`).
* The acknowledgement is written before the message is forwarded (`mqtt_server.cpp:316`,
  320): a publisher may be past it with nothing forwarded. The message is then in the hands
  of a handler (`AcknowledgedInHand`) and is forwarded unless the handler never ends.
* The session of a clean client that was taken over stays in `_sessions`, and a later
  CONNECT with clean session 0 resumes it (`mqtt_server.cpp:236`; the comment at 510
  says such sessions are deleted). `PubSub!Connect` allows it.
* A take-over publishes no will, although the connection ends without DISCONNECT
  (`mqtt_server.cpp:525`).
* A will reaches the topic of its name only, no wild topic (`PubSub!Lost`).
* The admin's subscription to `$sys/trash` is in no session and is never removed
  (`mqtt_server.cpp:414`).
* A retained message for a topic without object is dropped (`PubSub!Retain`), and one
  cleared on a topic without subscribers leaves an empty object, which nothing removes.
  `LastSubscriberErasesTopic` allows it: it is about the steps of the other handlers.
* A wildcard does not match an empty last level: "a/+" and "a/#" do not match "a/"
  (`topic.cpp:92`). `MatchesLevels` states it as the only exception.
* A segment that ends inside a remaining length of several bytes closes the channel of a
  conforming client (`mqtt_codec.cpp:94` rewinds but does not wait;
  `ClosedOnlyInsideLength` states it as the only reason).
* A remaining length of four bytes is encoded but not decoded (`fixed_header.cpp:191`
  and 181).
* After an invalid filter in a SUBSCRIBE the QoS byte is not skipped
  (`mqtt_subscribe.cpp:42`), so in place of the SUBACK with 0x80 that is prepared there
  the parser runs out of step, and the script in `MCCodec` ends with a closed channel.

* When the configuration file cannot be loaded, `config.cpp:35` says "Server will use
  default values" and returns before any is assigned. `g_cfg` is a global, so its members
  are zero: no worker threads, port 0 (the default port is set further down), an empty
  protocol name, which `mqtt_server.cpp:198` compares with that of every CONNECT.

What the interleavings do (`BrokerThreads`; the properties hold with these exceptions, and
say so in the form of `contended`, `raced`, `crashed` and `Jammed`):

* Two CONNECTs of one identifier at a time both find no old client. `reg_client_ptr`
  and `reg_session_ptr` keep the first (`insert`), and both channels go on with a client
  of their own, one of which is registered nowhere. The end of a channel that overlaps
  with the CONNECT that takes it over deletes the *new* client, by its identifier
  (`mqtt_server.cpp:534`). `HandlersApart` and `RegistriesAgree` show that nothing else
  gets the registries out of step.
* A subscriber can be put into a topic object that is erased, or about to be, because
  `mqtt_server.cpp:277` / 433 and 479-480 are separate critical sections: it is
  subscribed and receives nothing.
* A take-over sets `ctx->param()` of a channel to null while that channel's handler is in
  `publish_retained_message`: `topic.cpp:56-60` looks up a null client, which either
  dereferences it in the comparison or, in a topic without entries, ends in an exception
  (`crashed` = "param"). That takes two handlers of one identifier at a time, or a second
  CONNECT: the client of a channel's first CONNECT stays registered
  (`mqtt_server.cpp:219-258`), so a CONNECT of the first identifier elsewhere takes the
  channel's *second* client away, although nobody else runs for it. `HandlersApart` names
  both ways, and a script of `MCThreads` has the second.
* A retained message that is cleared between the two calls of `retained_message()` in
  `mqtt_server.cpp:126-127` (or 132-133) is passed on as null (`crashed` = "message").
* With no packet identifier free, `new_packet_id` spins with the topic's mutex held, and
  with `_topic_mutex` held for a wild topic. Usually an acknowledgement frees one. It does
  not when the client is gone (an entry left by a take-over, the will of a dead
  connection), when the spinning handler is that of the same channel, or when every
  worker thread spins: `Jammed`. `HandlersEnd` shows that handlers stop for no other reason.

## 7. What is not modelled

* Configuration, start and signals, TLS, logging, `str`: no state the handlers change.
  Configured values are constants or choices (admins, refused authentication,
  `Workers`).
* `check_integrity` and authentication beyond their outcome: an accepted or a refused
  CONNECT.
* The values of the three timers: a timer may fire at any time.
* PINGREQ in `Broker`: it answers and changes nothing. It is a packet in `Codec`.
* The order in which one handler writes to different clients: `out` is a set. Within one
  session order is the subject of `Session`.
* In `Session`: handlers of two channels of its own client at a time (`contended` in
  `BrokerThreads`), and a change of the subscriptions, which are fixed. `new_packet_id` with
  `add_publish_...` is one step, and so is `handle_pubrec`, whose PUBLISH object is released
  (`mqtt_client.cpp:41`) a moment before its identifier is stored for PUBCOMP (43): a
  publisher's `new_packet_id` between the two, or two publishers in it, meet in a data race
  (`SessionExclusive`).
* Steps inside an access to a session, and what a data race does to its vectors. QoS 2,
  admins, `$sys/trash` and retained wills in `BrokerThreads`.
* `channel_written` closing a channel without client (`packet_handler.cpp:80`): in
  `Broker` an instance of `close`, in `BrokerThreads` of `ConnectionLost`.
* A PUBLISH whose topic is longer than its remaining length says (`mqtt_publish.cpp:45`): in
  `Codec` the negative payload length closes the channel, as the size check of the code does
  for the huge unsigned number. No script has one and no property speaks of it.
* Packets beyond the sizes of the scripts and identifiers beyond `MaxId`, for what is only
  model-checked.

## 8. Plan

Done, in the order of importance: `Session` with `Delivery`, `Broker` with `PubSub`,
`Receiver`, `TopicFilter`, `BrokerThreads` and `Codec`: checked, every invariant and
action property proved, and the first two shown to refine their abstract specifications.

Next: the composition of `Receiver` and `Session`, a message from publisher to subscriber
with the QoS of both sides.
