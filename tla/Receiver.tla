------------------------------ MODULE Receiver -----------------------------
(***************************************************************************)
(* The broker as the receiver of a client's QoS 1 and QoS 2 publications:  *)
(* handle_publish and handle_pubrel with the identifiers the session keeps *)
(* for them (_packet_id_for_pubrel), over connections that break and are   *)
(* resumed.  The publisher is a conforming MQTT 3.1.1 client: it keeps     *)
(* what was not acknowledged and sends it again, with DUP set, after it    *)
(* has reconnected to its persistent session.                              *)
(*                                                                         *)
(* handle_publish writes the acknowledgement and then passes the message   *)
(* to the topics, which may wait for mutexes.  The publisher can read the  *)
(* acknowledgement, and lose the connection and open another, before that; *)
(* the handler goes on.                                                    *)
(***************************************************************************)
EXTENDS Integers, Sequences, FiniteSets, SequencesExt

CONSTANTS
  Messages,   \* the client's publications; a message is its packet identifier
  None,       \* no message
  Qos,        \* Qos[m] \in 1..2
  MaxDrops    \* bound: how many times the connection breaks

\* A packet identifier has 16 bits.
ASSUME MessagesAssumption == IsFiniteSet(Messages)
ASSUME NoneAssumption == None \notin Messages
ASSUME QosAssumption == Qos \in [Messages -> 1..2]
ASSUME MaxDropsAssumption == MaxDrops \in Nat

VARIABLES
  forRel,     \* _packet_id_for_pubrel
  forwarding, \* forwarding[c]: the message that the handler of the c-th connection
              \* has acknowledged and not yet passed to the topics, or None
  forwarded,  \* how often handle_publish passed each message to the topics
  connected,  \* the connection is up
  toBroker,   \* packets written by the client and not yet handled
  toClient,   \* packets written by the broker and not yet read
  exchange,   \* client: "new", "sent", "released" (PUBREL sent) or "done"
  drops       \* how many times the connection has broken: the present one's number

vars == <<forRel, forwarding, forwarded, connected, toBroker, toClient, exchange, drops>>
clientVars == <<exchange>>

Packet(types) == [type : types, id : Messages]

TypeOK ==
  /\ forRel \in Seq(Messages)
  /\ forwarding \in [0..MaxDrops -> Messages \cup {None}]
  /\ forwarded \in [Messages -> Nat]
  /\ connected \in BOOLEAN
  /\ toBroker \in Seq(Packet({"PUBLISH", "PUBREL"}))
  /\ toClient \in Seq(Packet({"PUBACK", "PUBREC", "PUBCOMP"}))
  /\ exchange \in [Messages -> {"new", "sent", "released", "done"}]
  /\ drops \in 0..MaxDrops

Init ==
  /\ forRel = <<>>
  /\ forwarding = [c \in 0..MaxDrops |-> None]
  /\ forwarded = [m \in Messages |-> 0]
  /\ connected = TRUE
  /\ toBroker = <<>>
  /\ toClient = <<>>
  /\ exchange = [m \in Messages |-> "new"]
  /\ drops = 0

Msg(type, id) == [type |-> type, id |-> id]

-----------------------------------------------------------------------------
(* The broker *)

\* A channel has one handler at a time: a handle_publish that is still forwarding
\* keeps the next packet of its channel waiting.
Receive(type) ==
  /\ connected
  /\ forwarding[drops] = None
  /\ toBroker # <<>>
  /\ Head(toBroker).type = type
  /\ toBroker' = Tail(toBroker)

\* add_packet_id_for_pubrel.
\* Mutants: only the last identifier is kept; it is recorded twice.
RecordLast(m) == <<m>>
RecordTwice(m) == forRel \o <<m, m>>
Record(m) == Append(forRel, m)

\* handle_publish, lines 315-321: acknowledge, and record the identifier of a QoS 2
\* message.  Nothing is looked up: a message the client sends again is recorded
\* again and forwarded again.
handle_publish ==
  /\ Receive("PUBLISH")
  /\ LET m == Head(toBroker).id
     IN  /\ forRel' = IF Qos[m] = 2 THEN Record(m) ELSE forRel
         /\ toClient' = Append(toClient, Msg(IF Qos[m] = 2 THEN "PUBREC" ELSE "PUBACK", m))
         /\ forwarding' = [forwarding EXCEPT ![drops] = m]
  /\ UNCHANGED <<forwarded, connected, clientVars, drops>>

\* Lines 324-357, on any connection that still has a handler: the message goes to the
\* topics.  Mutant: QoS 2 messages are not forwarded.
ForwardQos1(m) == IF Qos[m] = 2 THEN forwarded ELSE [forwarded EXCEPT ![m] = @ + 1]
Forward(m) == [forwarded EXCEPT ![m] = @ + 1]

forward(c) ==
  /\ forwarding[c] # None
  /\ forwarded' = Forward(forwarding[c])
  /\ forwarding' = [forwarding EXCEPT ![c] = None]
  /\ UNCHANGED <<forRel, connected, toBroker, toClient, clientVars, drops>>

\* The packets written for a PUBREL.
\* Mutants: a PUBREL is sent back; nothing is sent for an identifier not recorded.
AnswerPubrelWrongType(id) == <<Msg("PUBREL", id)>>
AnswerPubrelIfRecorded(id) == IF id \in Range(forRel) THEN <<Msg("PUBCOMP", id)>> ELSE <<>>
AnswerPubrel(id) == <<Msg("PUBCOMP", id)>>

\* release_packet_id_for_pubrel erases the first match; PUBCOMP is sent with or
\* without one.
handle_pubrel ==
  /\ Receive("PUBREL")
  /\ forRel' = RemoveFirst(forRel, Head(toBroker).id)
  /\ toClient' = toClient \o AnswerPubrel(Head(toBroker).id)
  /\ UNCHANGED <<forwarding, forwarded, connected, clientVars, drops>>

-----------------------------------------------------------------------------
(* The environment: the network and a conforming publisher *)

ClientPublishes(m) ==
  /\ connected
  /\ exchange[m] = "new"
  /\ exchange' = [exchange EXCEPT ![m] = "sent"]
  /\ toBroker' = Append(toBroker, Msg("PUBLISH", m))
  /\ UNCHANGED <<forRel, forwarding, forwarded, connected, toClient, drops>>

ClientReads ==
  /\ connected
  /\ toClient # <<>>
  /\ toClient' = Tail(toClient)
  /\ LET p == Head(toClient)
     IN  IF p.type = "PUBREC"
           THEN /\ exchange' = [exchange EXCEPT ![p.id] = "released"]
                /\ toBroker' = Append(toBroker, Msg("PUBREL", p.id))
           ELSE /\ exchange' = [exchange EXCEPT ![p.id] = "done"]
                /\ toBroker' = toBroker
  /\ UNCHANGED <<forRel, forwarding, forwarded, connected, drops>>

\* Mutant: a handler gives up when its channel is closed.
StillForwardingNot == [c \in 0..MaxDrops |-> None]
StillForwarding == forwarding

ConnectionBreaks ==
  /\ connected
  /\ drops < MaxDrops
  /\ drops' = drops + 1
  /\ connected' = FALSE
  /\ forwarding' = StillForwarding
  /\ toBroker' = <<>>
  /\ toClient' = <<>>
  /\ UNCHANGED <<forRel, forwarded, clientVars>>

\* The client reconnects and sends again what the broker has not acknowledged,
\* in some order.
ClientReconnects ==
  /\ ~connected
  /\ connected' = TRUE
  /\ \E order \in SetToSeqs({m \in Messages : exchange[m] \in {"sent", "released"}}) :
       toBroker' = [k \in DOMAIN order |->
         Msg(IF exchange[order[k]] = "sent" THEN "PUBLISH" ELSE "PUBREL", order[k])]
  /\ UNCHANGED <<forRel, forwarding, forwarded, toClient, clientVars, drops>>

-----------------------------------------------------------------------------

Next ==
  \/ handle_publish
  \/ \E c \in 0..MaxDrops : forward(c)
  \/ handle_pubrel
  \/ \E m \in Messages : ClientPublishes(m)
  \/ ClientReads
  \/ ConnectionBreaks
  \/ ClientReconnects

Spec == Init /\ [][Next]_vars

\* The broker handles what has arrived and ends the handlers it has begun (when they
\* may not is the subject of BrokerThreads); the client reads and reconnects.
Fairness ==
  /\ WF_vars(handle_publish)
  /\ \A c \in 0..MaxDrops : WF_vars(forward(c))
  /\ WF_vars(handle_pubrel)
  /\ WF_vars(ClientReads)
  /\ WF_vars(ClientReconnects)

FairSpec == Spec /\ Fairness

-----------------------------------------------------------------------------
(* Properties *)

\* The handlers that have m at hand.
Forwarding(m) == {c \in 0..MaxDrops : forwarding[c] = m}

\* handle_publish acknowledges before it forwards.  Once the client is past the first
\* acknowledgement of a message and will not send it again, the message was forwarded or
\* a handler of this or of an earlier connection has it at hand, so that nothing
\* acknowledged is lost.
AcknowledgedInHand ==
  \A m \in Messages :
    exchange[m] \in {"released", "done"} => forwarded[m] >= 1 \/ Forwarding(m) # {}

\* The identifier of a QoS 2 message that is or was being forwarded stays recorded until
\* its PUBREL.
RecordedUntilReleased ==
  \A m \in Messages :
    Qos[m] = 2 /\ exchange[m] = "sent" /\ (forwarded[m] > 0 \/ Forwarding(m) # {})
    => m \in Range(forRel)

\* The copies of m that were passed to the topics or are at hand.
Passed(m) == forwarded[m] + Cardinality(Forwarding(m))

\* Every extra copy of a message is paid for by a broken connection, those included that
\* are still at hand, and every copy of an identifier still recorded is one of them.
CopiesBounded ==
  \A m \in Messages :
    /\ Passed(m) <= 1 + drops
    /\ Cardinality({k \in DOMAIN forRel : forRel[k] = m}) <= Passed(m)

\* What was acknowledged is eventually forwarded, whatever becomes of its connection.
AcknowledgedIsForwarded ==
  \A m \in Messages : (exchange[m] \in {"released", "done"}) ~> (forwarded[m] >= 1)

\* Every publication is eventually acknowledged to its end.
ExchangesComplete == \A m \in Messages : (exchange[m] = "sent") ~> (exchange[m] = "done")

=============================================================================
