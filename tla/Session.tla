------------------------------ MODULE Session ------------------------------
(***************************************************************************)
(* One persistent session object of the broker (session.cpp) with the      *)
(* mqtt_client handlers that drive it (mqtt_client.cpp) while the broker   *)
(* sends PUBLISH packets to one subscriber over connections that break and *)
(* are resumed (the last part of mqtt_server::handle_connect).             *)
(*                                                                         *)
(* A TCP connection is a pair of FIFO streams of packets: it loses nothing *)
(* and reorders nothing while it is up, and everything in it when it       *)
(* breaks.  The subscriber is a conforming MQTT 3.1.1 client; it is not    *)
(* under src/ and its actions only answer what the broker's code sends.    *)
(*                                                                         *)
(* The subscriber's own handlers run one at a time, but publishers are     *)
(* other clients' handlers: mqtt_client::publish, which stores a PUBLISH   *)
(* and then writes it, and the steps of a resumed handle_connect, which    *)
(* enters the topics again and then copies and writes again what is        *)
(* stored, interleave in every way.  An access to the session is one step. *)
(***************************************************************************)
EXTENDS Integers, Sequences, FiniteSets, SequencesExt

CONSTANTS
  Messages,   \* application messages published to the subscriber
  Topics,     \* the topics it subscribed to
  Topic,      \* Topic[m]: the topic m is published to
  Qos,        \* Qos[m]: min(QoS of the publication, max QoS granted)
  MaxId,      \* largest packet identifier: 2^16 - 1 in the code
  MaxDrops    \* bound: how many times the connection breaks

ASSUME TopicAssumption == Topic \in [Messages -> Topics]
ASSUME QosAssumption == Qos \in [Messages -> 0..2]
ASSUME MaxIdAssumption == MaxId \in Nat \ {0}
ASSUME MaxDropsAssumption == MaxDrops \in Nat

VARIABLES
  nextId,     \* _next_packet_id, a uint16_t
  forAck,     \* _publish_for_ack: QoS 1 PUBLISH objects awaiting PUBACK
  forRec,     \* _publish_for_rec: QoS 2 PUBLISH objects awaiting PUBREC
  forComp,    \* _packet_id_for_pubcomp: identifiers awaiting PUBCOMP
  conn,       \* "up", "broken" (not yet noticed by the broker) or "down"
  entry,      \* entry[t]: the mqtt_client in topic t is that of the connection
              \* ("live"), that of an earlier one ("stale"), or there is "none"
  stage,      \* what handle_connect does: "none", "subscribing", or writing again
              \* what it copied of forAck ("acks"), forRec ("recs"), forComp ("comps")
  todo,       \* packets handle_connect still has to write of that copy
  writing,    \* PUBLISH packets stored by a publisher and not yet written
  toClient,   \* packets written by the broker and not yet read by the client
  toBroker,   \* packets written by the client and not yet handled
  recIds,     \* client: QoS 2 identifiers received and not yet released
  count,      \* client: how often each message was given to the application
  published,  \* history: the messages published so far, in order
  twice,      \* history: identifiers of PUBLISH packets written by their
              \* publisher and by handle_connect as well
  disturbed,  \* history: the messages published with one of these identifiers
  overtaking, \* history: the messages published while handle_connect still had
              \* older ones of their QoS to write
  drops       \* how many times the connection has broken

sessionVars == <<nextId, forAck, forRec, forComp>>
connectVars == <<entry, stage, todo>>
clientVars  == <<recIds, count>>
historyVars == <<published, twice, disturbed, overtaking>>
vars == <<sessionVars, conn, connectVars, writing, toClient, toBroker,
          clientVars, historyVars, drops>>

PacketIds == 1..MaxId

\* An mqtt_publish object: dup is the member _dup, flag the DUP bit of the
\* member _flags, which the constructor computes and serialize writes.
PublishObject == [id : PacketIds, msg : Messages, dup : BOOLEAN, flag : BOOLEAN]

\* Packets on the wire.  A QoS 0 PUBLISH carries no identifier (0 here).
PublishPacket == [type : {"PUBLISH"}, id : 0..MaxId, msg : Messages, dup : BOOLEAN]
Acknowledge(types) == [type : types, id : PacketIds]

TypeOK ==
  /\ nextId \in 0..MaxId
  /\ forAck \in Seq(PublishObject)
  /\ forRec \in Seq(PublishObject)
  /\ forComp \in Seq(PacketIds)
  /\ conn \in {"up", "broken", "down"}
  /\ entry \in [Topics -> {"live", "stale", "none"}]
  /\ stage \in {"none", "subscribing", "acks", "recs", "comps"}
  /\ todo \in Seq(PublishPacket \cup Acknowledge({"PUBREL"}))
  /\ writing \subseteq PublishPacket
  /\ toClient \in Seq(PublishPacket \cup Acknowledge({"PUBREL"}))
  /\ toBroker \in Seq(Acknowledge({"PUBACK", "PUBREC", "PUBCOMP"}))
  /\ recIds \subseteq PacketIds
  /\ count \in [Messages -> Nat]
  /\ published \in Seq(Messages)
  /\ twice \subseteq PacketIds
  /\ disturbed \subseteq Messages
  /\ overtaking \subseteq Messages
  /\ drops \in 0..MaxDrops

Init ==
  /\ nextId = 1
  /\ forAck = <<>>
  /\ forRec = <<>>
  /\ forComp = <<>>
  /\ conn = "up"
  /\ entry = [t \in Topics |-> "live"]
  /\ stage = "none"
  /\ todo = <<>>
  /\ writing = {}
  /\ toClient = <<>>
  /\ toBroker = <<>>
  /\ recIds = {}
  /\ count = [m \in Messages |-> 0]
  /\ published = <<>>
  /\ twice = {}
  /\ disturbed = {}
  /\ overtaking = {}
  /\ drops = 0

-----------------------------------------------------------------------------
(* session.cpp *)

IdsOf(pubs) == {pubs[k].id : k \in DOMAIN pubs}

\* Mutants: the search of one of the containers is missing.
IdsInUseNoComp == IdsOf(forAck) \cup IdsOf(forRec)
IdsInUseNoRec == IdsOf(forAck) \cup {forComp[k] : k \in DOMAIN forComp}

IdsInUse == IdsOf(forAck) \cup IdsOf(forRec) \cup {forComp[k] : k \in DOMAIN forComp}

\* How many increments of the counter lead from nextId to id, modulo 2^16.
Distance(id) == IF id >= nextId THEN id - nextId ELSE id + MaxId + 1 - nextId

\* new_packet_id: the first identifier at or after the counter that is neither
\* 0 nor in use.  With no such identifier the loop spins until one is released,
\* which is what an action guarded by \E id \in NewPacketId does.
NewPacketId ==
  LET free == PacketIds \ IdsInUse
  IN  {id \in free : \A other \in free : Distance(id) <= Distance(other)}

\* The counter after new_packet_id has returned id.
\* Mutant: the counter is wider than the identifiers.
IncrementIdNoWrap(id) == id + 1
IncrementId(id) == IF id = MaxId THEN 0 ELSE id + 1

\* std::find_if / std::find and erase: the first match goes, if there is one.
FirstMatch(s, Test(_)) ==
  {k \in DOMAIN s : Test(s[k]) /\ \A j \in 1..(k - 1) : ~Test(s[j])}
EraseFirst(s, Test(_)) ==
  IF \E k \in DOMAIN s : Test(s[k])
    THEN {RemoveAt(s, k) : k \in FirstMatch(s, Test)}
    ELSE {s}

\* Mutant: the PUBLISH object stays in its container.
ReleasePublishKeeps(pubs, id) == {pubs}
ReleasePublish(pubs, id) == EraseFirst(pubs, LAMBDA p : p.id = id)
ReleaseId(ids, id) == EraseFirst(ids, LAMBDA i : i = id)

-----------------------------------------------------------------------------
(* Packets *)

\* The constructor of mqtt_publish, and its setter dup(true): the setter
\* changes the member and leaves the flags computed by the constructor alone.
NewPublish(id, m) == [id |-> id, msg |-> m, dup |-> FALSE, flag |-> FALSE]
SetDup(p) == [p EXCEPT !.dup = TRUE]

\* add_publish_for_ack and add_publish_for_rec.
AddPublish(pubs, id, m) == Append(pubs, NewPublish(id, m))

\* mqtt_publish::serialize writes _flags, and the identifier if QoS > 0.
Serialize(p) ==
  [type |-> "PUBLISH", id |-> IF Qos[p.msg] = 0 THEN 0 ELSE p.id,
   msg |-> p.msg, dup |-> p.flag]

Pubrel(id) == [type |-> "PUBREL", id |-> id]
Ack(type, id) == [type |-> type, id |-> id]

Write(packet) == toClient' = Append(toClient, packet)

-----------------------------------------------------------------------------
(* mqtt_client::publish, called by a publisher's handler *)

\* What handle_connect is still to copy, and to write, when m is stored.
ToBeCopied(m) == stage = "subscribing" \/ (Qos[m] = 2 /\ stage = "acks")
OlderToWrite(m) == stage \in {"subscribing", "acks"} \/ (Qos[m] = 2 /\ stage = "recs")

\* The topic's mutex is held until the PUBLISH is written: one publication at a time
\* goes out for a topic.  Mutant: the mutex is not held.
TopicFreeNoMutex(m) == TRUE
TopicFree(m) == \A p \in writing : Topic[p.msg] # Topic[m]

\* Lines 24-29: the PUBLISH is stored.  Written by the mqtt_client of an earlier
\* connection it goes to a channel that is gone.
Publish(m) ==
  /\ entry[Topic[m]] # "none"
  /\ m \notin Range(published)
  /\ TopicFree(m)
  /\ \E id \in NewPacketId :
       LET again == entry[Topic[m]] = "live" /\ Qos[m] > 0 /\ ToBeCopied(m)
       IN  /\ nextId' = IncrementId(id)
           /\ forAck' = IF Qos[m] = 1 THEN AddPublish(forAck, id, m) ELSE forAck
           /\ forRec' = IF Qos[m] = 2 THEN AddPublish(forRec, id, m) ELSE forRec
           /\ writing' = IF entry[Topic[m]] = "live"
                           THEN writing \cup {Serialize(NewPublish(id, m))} ELSE writing
           /\ twice' = IF again THEN twice \cup {id} ELSE twice
           /\ disturbed' = IF Qos[m] > 0 /\ id \in twice' THEN disturbed \cup {m} ELSE disturbed
  /\ overtaking' = IF entry[Topic[m]] = "live" /\ OlderToWrite(m)
                      THEN overtaking \cup {m} ELSE overtaking
  /\ published' = Append(published, m)
  /\ UNCHANGED <<forComp, conn, connectVars, toClient, toBroker, clientVars, drops>>

\* Line 31.
write_channel(p) ==
  /\ p \in writing
  /\ writing' = writing \ {p}
  /\ Write(p)
  /\ UNCHANGED <<sessionVars, conn, connectVars, toBroker, clientVars, historyVars, drops>>

-----------------------------------------------------------------------------
(* The handlers of the subscriber's channel *)

\* The next packet of the client's stream, if it has this type.  A channel has
\* one handler at a time: handle_connect comes first.
Receive(type) ==
  /\ conn = "up"
  /\ stage = "none"
  /\ toBroker # <<>>
  /\ Head(toBroker).type = type
  /\ toBroker' = Tail(toBroker)

handle_puback ==
  /\ Receive("PUBACK")
  /\ forAck' \in ReleasePublish(forAck, Head(toBroker).id)
  /\ UNCHANGED <<nextId, forRec, forComp, conn, connectVars, writing, toClient,
                 clientVars, historyVars, drops>>

\* The identifier moves to _packet_id_for_pubcomp whether or not a PUBLISH
\* waited for this PUBREC.
handle_pubrec ==
  /\ Receive("PUBREC")
  /\ forRec' \in ReleasePublish(forRec, Head(toBroker).id)
  /\ forComp' = Append(forComp, Head(toBroker).id)
  /\ Write(Pubrel(Head(toBroker).id))
  /\ UNCHANGED <<nextId, forAck, conn, connectVars, writing, clientVars, historyVars, drops>>

handle_pubcomp ==
  /\ Receive("PUBCOMP")
  /\ forComp' \in ReleaseId(forComp, Head(toBroker).id)
  /\ UNCHANGED <<nextId, forAck, forRec, conn, connectVars, writing, toClient,
                 clientVars, historyVars, drops>>

\* The client leaves its topics.
handle_channel_disconnected ==
  /\ conn = "broken"
  /\ conn' = "down"
  /\ entry' = [t \in Topics |-> "none"]
  /\ UNCHANGED <<sessionVars, stage, todo, writing, toClient, toBroker, clientVars,
                 historyVars, drops>>

-----------------------------------------------------------------------------
(* handle_connect with clean_session = 0 and a stored session, on a new channel *)

\* Up to line 261.  From "broken" this takes over a connection the broker still holds.
handle_connect ==
  /\ conn # "up"
  /\ conn' = "up"
  /\ stage' = "subscribing"
  /\ UNCHANGED <<sessionVars, entry, todo, writing, toClient, toBroker, clientVars,
                 historyVars, drops>>

\* Line 284, for each of the session's filters: topic::subscribe replaces the entry.
subscribe(t) ==
  /\ stage = "subscribing"
  /\ entry[t] # "live"
  /\ entry' = [entry EXCEPT ![t] = "live"]
  /\ UNCHANGED <<sessionVars, conn, stage, todo, writing, toClient, toBroker, clientVars,
                 historyVars, drops>>

\* What the loops write of the copies they go through.
\* Mutants: a container is not written again.
PublishesNone(pubs) == <<>>
Publishes(pubs) == [k \in DOMAIN pubs |-> Serialize(SetDup(pubs[k]))]
PubrelsNone(ids) == <<>>
Pubrels(ids) == [k \in DOMAIN ids |-> Pubrel(ids[k])]

\* A copy is taken when the loop before has ended.
Copy(from, to, packets) ==
  /\ stage = from
  /\ todo = <<>>
  /\ stage' = to
  /\ todo' = packets
  /\ UNCHANGED <<sessionVars, conn, entry, writing, toClient, toBroker, clientVars,
                 historyVars, drops>>

\* Lines 288, 293, 298, and the end of the last loop.
unacked_publish_for_ack ==
  (\A t \in Topics : entry[t] = "live") /\ Copy("subscribing", "acks", Publishes(forAck))
unacked_publish_for_rec == Copy("acks", "recs", Publishes(forRec))
unacked_packet_id_for_pubcomp == Copy("recs", "comps", Pubrels(forComp))
resumed == Copy("comps", "none", <<>>)

\* Lines 290-291, 295-296, 300-301: one turn of a loop.  The PUBLISH object is
\* shared with the container.
Mark(pubs, id) == [k \in DOMAIN pubs |-> IF pubs[k].id = id THEN SetDup(pubs[k]) ELSE pubs[k]]
retry ==
  /\ todo # <<>>
  /\ todo' = Tail(todo)
  /\ Write(Head(todo))
  /\ forAck' = IF stage = "acks" THEN Mark(forAck, Head(todo).id) ELSE forAck
  /\ forRec' = IF stage = "recs" THEN Mark(forRec, Head(todo).id) ELSE forRec
  /\ UNCHANGED <<nextId, forComp, conn, entry, stage, writing, toBroker, clientVars,
                 historyVars, drops>>

-----------------------------------------------------------------------------
(* The environment: the network and a conforming subscriber *)

\* What is on the wire is lost, and what publishers and handle_connect have still to
\* write goes to a channel that is gone.  A handle_connect that is subscribing goes on
\* to do so, with an mqtt_client that is now of the past.
ConnectionBreaks ==
  /\ conn = "up"
  /\ drops < MaxDrops
  /\ drops' = drops + 1
  /\ conn' = "broken"
  /\ entry' = [t \in Topics |-> "stale"]
  /\ stage' = "none"
  /\ todo' = <<>>
  /\ writing' = {}
  /\ toClient' = <<>>
  /\ toBroker' = <<>>
  /\ UNCHANGED <<sessionVars, clientVars, historyVars>>

\* The client reads the head of its stream and answers it, if at all, with reply.
ClientReads(reply) ==
  /\ toClient' = Tail(toClient)
  /\ toBroker' = toBroker \o reply
  /\ UNCHANGED <<sessionVars, conn, connectVars, writing, historyVars, drops>>

Deliver(m) == count' = [count EXCEPT ![m] = @ + 1]

ClientGetsPublish ==
  /\ conn = "up"
  /\ toClient # <<>>
  /\ Head(toClient).type = "PUBLISH"
  /\ LET p == Head(toClient)
     IN  \/ /\ Qos[p.msg] = 0
            /\ Deliver(p.msg)
            /\ recIds' = recIds
            /\ ClientReads(<<>>)
         \/ /\ Qos[p.msg] = 1
            /\ Deliver(p.msg)
            /\ recIds' = recIds
            /\ ClientReads(<<Ack("PUBACK", p.id)>>)
         \/ /\ Qos[p.msg] = 2
            /\ IF p.id \in recIds THEN count' = count ELSE Deliver(p.msg)
            /\ recIds' = recIds \cup {p.id}
            /\ ClientReads(<<Ack("PUBREC", p.id)>>)

ClientGetsPubrel ==
  /\ conn = "up"
  /\ toClient # <<>>
  /\ Head(toClient).type = "PUBREL"
  /\ recIds' = recIds \ {Head(toClient).id}
  /\ count' = count
  /\ ClientReads(<<Ack("PUBCOMP", Head(toClient).id)>>)

-----------------------------------------------------------------------------

Next ==
  \/ \E m \in Messages : Publish(m)
  \/ \E p \in writing : write_channel(p)
  \/ handle_puback
  \/ handle_pubrec
  \/ handle_pubcomp
  \/ handle_channel_disconnected
  \/ handle_connect
  \/ \E t \in Topics : subscribe(t)
  \/ unacked_publish_for_ack
  \/ unacked_publish_for_rec
  \/ unacked_packet_id_for_pubcomp
  \/ retry
  \/ resumed
  \/ ConnectionBreaks
  \/ ClientGetsPublish
  \/ ClientGetsPubrel

Spec == Init /\ [][Next]_vars

\* Worker threads handle what has arrived and go on with the handlers they are in,
\* and the subscriber reads what was written to it and reconnects.  Nothing says
\* that a connection breaks or that anybody publishes.
Fairness ==
  /\ WF_vars(\E p \in writing : write_channel(p))
  /\ WF_vars(handle_puback)
  /\ WF_vars(handle_pubrec)
  /\ WF_vars(handle_pubcomp)
  /\ WF_vars(handle_connect)
  /\ WF_vars(\E t \in Topics : subscribe(t))
  /\ WF_vars(unacked_publish_for_ack)
  /\ WF_vars(unacked_publish_for_rec)
  /\ WF_vars(unacked_packet_id_for_pubcomp)
  /\ WF_vars(retry)
  /\ WF_vars(resumed)
  /\ WF_vars(ClientGetsPublish)
  /\ WF_vars(ClientGetsPubrel)

FairSpec == Spec /\ Fairness

-----------------------------------------------------------------------------
(* Properties *)

\* session.cpp:21-33: no identifier is ever in two of the broker's unfinished
\* exchanges, or twice in one of them, through wrap-around, retransmission and
\* release, unless a PUBLISH with it was stored between lines 284 and 293 of
\* handle_connect and so written twice.
PacketIdsDistinct ==
  /\ \A j, k \in DOMAIN forAck : forAck[j].id = forAck[k].id => j = k
  /\ \A j, k \in DOMAIN forRec : forRec[j].id = forRec[k].id => j = k
  /\ \A j \in DOMAIN forAck, k \in DOMAIN forRec : forAck[j].id # forRec[k].id
  /\ \A j, k \in DOMAIN forComp : forComp[j] = forComp[k] => j = k \/ forComp[j] \in twice
  /\ \A j \in DOMAIN forAck, k \in DOMAIN forComp : forAck[j].id = forComp[k] => forComp[k] \in twice
  /\ \A j \in DOMAIN forRec, k \in DOMAIN forComp : forRec[j].id = forComp[k] => forComp[k] \in twice

\* A QoS 2 message reaches the application at most once, however often the
\* connection breaks between PUBLISH, PUBREC, PUBREL and PUBCOMP, unless its
\* identifier is one that was written twice.
ExactlyOnce == \A m \in Messages \ disturbed : Qos[m] = 2 => count[m] <= 1

\* Messages of one topic and one QoS > 0 are first delivered in the order of
\* publication, whatever was retransmitted in between.  Only a message stored while
\* handle_connect still had older ones to write may come before them.
DeliveredInOrder ==
  \A j, k \in DOMAIN published :
    /\ j < k
    /\ Topic[published[j]] = Topic[published[k]]
    /\ Qos[published[j]] = Qos[published[k]]
    /\ Qos[published[k]] > 0
    /\ {published[j], published[k]} \cap disturbed = {}
    /\ published[k] \notin overtaking
    /\ count[published[k]] > 0
    => count[published[j]] > 0

\* Where a packet with an identifier is: under way, about to be written by its
\* publisher, or one that handle_connect has yet to write or even to copy.
AtPlaces(place, s, id) == {<<place, k>> : k \in {j \in DOMAIN s : s[j].id = id}}
InFlight(id) ==
  AtPlaces("toClient", toClient, id) \cup AtPlaces("toBroker", toBroker, id)
  \cup AtPlaces("todo", todo, id) \cup {<<"writing", p>> : p \in {q \in writing : q.id = id}}
  \cup (IF stage = "subscribing" THEN AtPlaces("forAck", forAck, id) ELSE {})
  \cup (IF stage \in {"subscribing", "acks"} THEN AtPlaces("forRec", forRec, id) ELSE {})
  \cup (IF stage \in {"subscribing", "acks", "recs"}
           THEN {<<"forComp", k>> : k \in {j \in DOMAIN forComp : forComp[j] = id}} ELSE {})

\* While a connection is up there is exactly one packet for every unfinished
\* exchange: none is stuck, and none is answered twice.
OnePacketPerExchange ==
  conn = "up" => \A id \in IdsInUse \ twice : \E x \in InFlight(id) : InFlight(id) = {x}

\* constants.h:45, QOS_EXACTLY_ONCE: without an exception.
QosExactlyOnce == \A m \in Messages : Qos[m] = 2 => count[m] <= 1

\* Every QoS 1 and QoS 2 message published is eventually delivered, unless its
\* identifier is one that was written twice.
EventuallyDelivered ==
  \A m \in Messages :
    (m \in Range(published) \ disturbed /\ Qos[m] > 0) ~> (count[m] > 0)

\* Every exchange ends: the session becomes empty once publishing stops, with no
\* exception.
ExchangesEnd == \A id \in PacketIds : (id \in IdsInUse) ~> (id \notin IdsInUse)

-----------------------------------------------------------------------------
\* What the session promises, without packets or connections, about every message
\* whose identifier was not written twice.
MessagesOf(pubs) == {pubs[k].msg : k \in DOMAIN pubs}
accepted == Range(published) \ disturbed
owed == (MessagesOf(forAck) \cup MessagesOf(forRec)) \ disturbed
delivered == [m \in Messages |-> IF m \in disturbed THEN 0 ELSE count[m]]
Promise == INSTANCE Delivery WITH count <- delivered
Refinement == Promise!Spec

=============================================================================
