--------------------------- MODULE SessionProofs ---------------------------
(***************************************************************************)
(* Theorems about module Session, for every set of messages and topics,    *)
(* every number of packet identifiers and every number of broken           *)
(* connections.                                                            *)
(***************************************************************************)
EXTENDS Session, SequenceLemmas

-----------------------------------------------------------------------------
(* The places of an exchange.  The invariants speak of what is in a container or a *)
(* stream, not of positions, and a step of the program takes something out of one  *)
(* place and puts it into another.                                                 *)

\* An element with this identifier; at most one.
Holds(s, id) == \E k \in DOMAIN s : s[k].id = id
Once(s, id) == \A j, k \in DOMAIN s : s[j].id = id /\ s[k].id = id => j = k

\* A container has the object of message m under this identifier.
Has(pubs, id, m) == \E k \in DOMAIN pubs : pubs[k].id = id /\ pubs[k].msg = m

\* forComp holds the identifier; once.
InComp(id) == \E k \in DOMAIN forComp : forComp[k] = id
OnceInComp(id) == \A j, k \in DOMAIN forComp : forComp[j] = id /\ forComp[k] = id => j = k

\* A stream has a packet of this type, or the PUBLISH of message m; at most one.
TypeIn(s, type, id) == \E k \in DOMAIN s : s[k].type = type /\ s[k].id = id
PubAt(s, k, id, m) == s[k].type = "PUBLISH" /\ s[k].id = id /\ s[k].msg = m
PubIn(s, id, m) == \E k \in DOMAIN s : PubAt(s, k, id, m)
PubOnce(s, id, m) == \A j, k \in DOMAIN s : PubAt(s, j, id, m) /\ PubAt(s, k, id, m) => j = k

\* A publisher is about to write it.
Writing(id, m) == \E p \in writing : p.id = id /\ p.msg = m
WritingId(id) == \E p \in writing : p.id = id

\* Written to the client, or about to be.
Outgoing(id, m) == PubIn(toClient, id, m) \/ PubIn(todo, id, m) \/ Writing(id, m)
OutgoingPubrel(id) == TypeIn(toClient, "PUBREL", id) \/ TypeIn(todo, "PUBREL", id)

\* handle_connect has yet to copy the container it is in.
Ahead(id) ==
  \/ stage = "subscribing" /\ Holds(forAck, id)
  \/ stage \in {"subscribing", "acks"} /\ Holds(forRec, id)
  \/ stage \in {"subscribing", "acks", "recs"} /\ InComp(id)

-----------------------------------------------------------------------------
(* The inductive invariant.  PacketIdsDistinct and ExactlyOnce are not inductive: *)
(* they rest on what a packet under way says about the broker's and the client's  *)
(* records of its exchange, and on there being one packet for an exchange.  All   *)
(* of it is about identifiers that were not written twice.                        *)

Alone == PacketIds \ twice

\* The connection and the handle_connect that resumes the session on it.
Connection ==
  /\ conn # "up" => /\ toClient = <<>> /\ toBroker = <<>> /\ todo = <<>> /\ writing = {}
                    /\ stage = "none"
                    /\ \A t \in Topics : entry[t] # "live"
  /\ stage \in {"none", "subscribing"} => todo = <<>>
  /\ conn = "up" /\ stage # "subscribing" => \A t \in Topics : entry[t] = "live"
  /\ \A id \in 0..MaxId, m \in Messages :
       PubIn(todo, id, m) => \/ stage = "acks" /\ Qos[m] = 1
                             \/ stage = "recs" /\ Qos[m] = 2
  /\ \A p, q \in writing : Topic[p.msg] = Topic[q.msg] => p = q

\* No identifier is twice in the containers.
IdsApart ==
  /\ \A id \in PacketIds : /\ Once(forAck, id) /\ Once(forRec, id)
                           /\ Holds(forAck, id) => ~Holds(forRec, id)
  /\ \A id \in Alone : /\ OnceInComp(id)
                       /\ InComp(id) => ~Holds(forAck, id) /\ ~Holds(forRec, id)

\* The stored PUBLISH objects are of published messages, one for each.
StoredOnce ==
  \A id \in PacketIds, m \in Messages :
    /\ Has(forAck, id, m) => Qos[m] = 1
    /\ Has(forRec, id, m) => Qos[m] = 2
    /\ Has(forAck, id, m) \/ Has(forRec, id, m)
       => m \in Range(published) /\ (m \in disturbed <=> id \in twice)
    /\ \A i \in PacketIds : /\ Has(forAck, id, m) /\ Has(forAck, i, m) => id = i
                            /\ Has(forRec, id, m) /\ Has(forRec, i, m) => id = i

\* The client has a stored QoS 2 message if and only if it holds its identifier, holds
\* only identifiers of QoS 2 exchanges, and has nothing that was not published.
ReceivedOnce ==
  /\ \A id \in Alone, m \in Messages :
       Has(forRec, id, m) => count[m] = IF id \in recIds THEN 1 ELSE 0
  /\ \A id \in Alone : id \in recIds => Holds(forRec, id) \/ InComp(id)
  /\ \A m \in Messages : m \notin Range(published) => count[m] = 0 /\ m \notin disturbed
  /\ ExactlyOnce

\* What a packet to the client means: the broker waits for its answer.
OutgoingExpected ==
  /\ \A id \in 0..MaxId, m \in Messages :
       Outgoing(id, m) =>
         /\ m \in Range(published)
         /\ Qos[m] = 0 => id = 0 /\ count[m] = 0
         /\ Qos[m] > 0 => id # 0 /\ (m \in disturbed <=> id \in twice)
         /\ Qos[m] = 1 /\ id \notin twice => Has(forAck, id, m)
         /\ Qos[m] = 2 /\ id \notin twice => Has(forRec, id, m)
  /\ \A id \in Alone : OutgoingPubrel(id) => InComp(id)

\* What a packet to the broker means: the client has the message, and has or has
\* not released its identifier.
AnswersExpected ==
  \A id \in Alone :
    /\ TypeIn(toBroker, "PUBACK", id)
       => \E m \in Messages : Has(forAck, id, m) /\ count[m] > 0
    /\ TypeIn(toBroker, "PUBREC", id) => Holds(forRec, id) /\ id \in recIds
    /\ TypeIn(toBroker, "PUBCOMP", id) => InComp(id) /\ id \notin recIds

\* At most one packet is under way or to come for an identifier...
OneInFlight ==
  \A id \in Alone :
    /\ Once(toClient, id) /\ Once(toBroker, id) /\ Once(todo, id)
    /\ Holds(toClient, id) =>
         ~Holds(toBroker, id) /\ ~Holds(todo, id) /\ ~WritingId(id) /\ ~Ahead(id)
    /\ Holds(toBroker, id) => ~Holds(todo, id) /\ ~WritingId(id) /\ ~Ahead(id)
    /\ Holds(todo, id) => ~WritingId(id) /\ ~Ahead(id)
    /\ WritingId(id) => ~Ahead(id)

\* ... and for a QoS 0 message ...
OneOfQosZero ==
  \A m \in Messages :
    Qos[m] = 0 => PubOnce(toClient, 0, m) /\ (PubIn(toClient, 0, m) => ~Writing(0, m))

\* ... and at least one for every unfinished exchange of a connection that is up.
Unfinished(id) == Holds(forAck, id) \/ Holds(forRec, id) \/ InComp(id)
UnderWay(id) ==
  Holds(toClient, id) \/ Holds(toBroker, id) \/ Holds(todo, id) \/ WritingId(id) \/ Ahead(id)
NoneIsStuck == conn = "up" => \A id \in Alone : Unfinished(id) => UnderWay(id)

IInv ==
  /\ TypeOK
  /\ Connection
  /\ IdsApart
  /\ StoredOnce
  /\ ReceivedOnce
  /\ OutgoingExpected
  /\ AnswersExpected
  /\ OneInFlight
  /\ OneOfQosZero
  /\ NoneIsStuck

-----------------------------------------------------------------------------
(* Order.  That messages are delivered in the order of publication rests on every *)
(* unfinished exchange having its packet under way, on the order of the           *)
(* containers, which handle_connect writes again, and on a topic writing one      *)
(* publication at a time.                                                         *)

\* m comes before n.
Before(s, m, n) == \E j, k \in DOMAIN s : j < k /\ s[j] = m /\ s[k] = n
PublishedOnce == \A j, k \in DOMAIN published : published[j] = published[k] => j = k

\* DeliveredInOrder is about these messages.
Ordered(m, n) ==
  /\ Before(published, m, n)
  /\ Topic[m] = Topic[n]
  /\ Qos[m] = Qos[n]
  /\ Qos[n] > 0
  /\ m \notin disturbed
  /\ n \notin disturbed \cup overtaking

\* A message that was published and not delivered has its object.
Stored(m) == \E id \in PacketIds : Has(forAck, id, m) \/ Has(forRec, id, m)
UndeliveredIsStored ==
  \A m \in Messages :
    m \in Range(published) \ disturbed /\ Qos[m] > 0 /\ count[m] = 0 => Stored(m)

\* The containers are in the order of publication.
InOrder(pubs) == \A j, k \in DOMAIN pubs : j < k => Before(published, pubs[j].msg, pubs[k].msg)
StoredInOrder == InOrder(forAck) /\ InOrder(forRec)

\* Nothing is published on a topic that is writing.
LastOfItsTopic ==
  \A p \in writing, n \in Messages : Before(published, p.msg, n) => Topic[p.msg] # Topic[n]

\* No message is behind one that must come after it: in a stream ...
NoneOvertaken(s) ==
  \A j, k \in DOMAIN s :
    j < k /\ s[j].type = "PUBLISH" /\ s[k].type = "PUBLISH" => ~Ordered(s[k].msg, s[j].msg)

\* ... or what handle_connect has still to write, behind what was written.
MsgIn(s, m) == \E k \in DOMAIN s : s[k].type = "PUBLISH" /\ s[k].msg = m
MsgWriting(m) == \E p \in writing : p.msg = m
MsgAhead(m) ==
  \E id \in PacketIds : \/ stage = "subscribing" /\ Has(forAck, id, m)
                        \/ stage \in {"subscribing", "acks"} /\ Has(forRec, id, m)
NoneLeftBehind ==
  \A m, n \in Messages :
    (MsgIn(toClient, n) \/ MsgWriting(n)) /\ (MsgIn(todo, m) \/ MsgAhead(m)) => ~Ordered(m, n)

\* DeliveredInOrder, by Ordered.
FirstDeliveries ==
  \A m, n \in Messages : Ordered(m, n) /\ count[n] > 0 => count[m] > 0

OInv ==
  /\ PublishedOnce
  /\ UndeliveredIsStored
  /\ StoredInOrder
  /\ LastOfItsTopic
  /\ NoneOvertaken(toClient)
  /\ NoneOvertaken(todo)
  /\ NoneLeftBehind
  /\ FirstDeliveries

-----------------------------------------------------------------------------
(* Lemmas about the sequences *)

\* A packet is written behind the others, an object stored behind the others.
Appended(s, x, t) ==
  /\ \A id : Holds(t, id) <=> Holds(s, id) \/ x.id = id
  /\ \A id, m : Has(t, id, m) <=> Has(s, id, m) \/ (x.id = id /\ x.msg = m)
  /\ \A id, type : TypeIn(t, type, id) <=> TypeIn(s, type, id) \/ (x.type = type /\ x.id = id)
  /\ \A id, m : PubIn(t, id, m) <=>
       PubIn(s, id, m) \/ (x.type = "PUBLISH" /\ x.id = id /\ x.msg = m)
  /\ \A id : Once(s, id) /\ ~(Holds(s, id) /\ x.id = id) => Once(t, id)
  /\ \A id, m : PubOnce(s, id, m) /\ ~(PubIn(s, id, m) /\ x.id = id /\ x.msg = m)
                => PubOnce(t, id, m)

LEMMA AppendPlaces ==
  ASSUME NEW S, NEW s \in Seq(S), NEW x \in S, NEW t, t = Append(s, x)
  PROVE  t \in Seq(S) /\ Appended(s, x, t)
<1>1. /\ t \in Seq(S)
      /\ \A j \in DOMAIN s : j \in DOMAIN t /\ t[j] = s[j]
      /\ \A j \in DOMAIN t : j \notin DOMAIN s => j = Len(s) + 1 /\ t[j] = x
      /\ \E j \in DOMAIN t : t[j] = x
  BY AppendElements
<1>2. \A id : Holds(t, id) <=> Holds(s, id) \/ x.id = id
  BY <1>1 DEF Holds
<1>3. \A id, m : Has(t, id, m) <=> Has(s, id, m) \/ (x.id = id /\ x.msg = m)
  BY <1>1 DEF Has
<1>4. \A id, type : TypeIn(t, type, id) <=> TypeIn(s, type, id) \/ (x.type = type /\ x.id = id)
  BY <1>1 DEF TypeIn
<1>5. \A id, m : PubIn(t, id, m) <=>
        PubIn(s, id, m) \/ (x.type = "PUBLISH" /\ x.id = id /\ x.msg = m)
  BY <1>1 DEF PubIn, PubAt
<1>6. ASSUME NEW id, Once(s, id), ~(Holds(s, id) /\ x.id = id)
      PROVE  Once(t, id)
  BY <1>1, <1>6 DEF Once, Holds
<1>7. ASSUME NEW id, NEW m, PubOnce(s, id, m), ~(PubIn(s, id, m) /\ x.id = id /\ x.msg = m)
      PROVE  PubOnce(t, id, m)
  BY <1>1, <1>7 DEF PubOnce, PubIn, PubAt
<1> QED
  BY <1>1, <1>2, <1>3, <1>4, <1>5, <1>6, <1>7 DEF Appended

\* The head of a stream is read.
Taken(s, h, t) ==
  /\ \A id : Holds(s, id) <=> Holds(t, id) \/ h.id = id
  /\ \A id, type : TypeIn(s, type, id) <=> TypeIn(t, type, id) \/ (h.type = type /\ h.id = id)
  /\ \A id, m : PubIn(s, id, m) <=>
       PubIn(t, id, m) \/ (h.type = "PUBLISH" /\ h.id = id /\ h.msg = m)
  /\ \A id : Once(s, id) => Once(t, id) /\ (h.id = id => ~Holds(t, id))
  /\ \A id, m : PubOnce(s, id, m)
       => /\ PubOnce(t, id, m)
          /\ h.type = "PUBLISH" /\ h.id = id /\ h.msg = m => ~PubIn(t, id, m)

LEMMA TailPlaces ==
  ASSUME NEW S, NEW s \in Seq(S), s # <<>>, NEW t, t = Tail(s), NEW h, h = Head(s)
  PROVE  t \in Seq(S) /\ h \in S /\ Taken(s, h, t)
<1>1. /\ t \in Seq(S)
      /\ h = s[1] /\ 1 \in DOMAIN s /\ h \in S
      /\ \A j \in DOMAIN t : j + 1 \in DOMAIN s /\ j + 1 # 1 /\ t[j] = s[j + 1]
      /\ \A j, k \in DOMAIN t : j + 1 = k + 1 => j = k
  BY TailElements
<1>2. \A k \in DOMAIN s : k # 1 => \E j \in DOMAIN t : k = j + 1 /\ t[j] = s[k]
  <2>1. ASSUME NEW k \in DOMAIN s, k # 1
        PROVE  k - 1 \in DOMAIN t /\ k = (k - 1) + 1 /\ t[k - 1] = s[k]
    <3>1. k \in 1..Len(s) /\ Len(t) = Len(s) - 1 /\ \A j \in 1..Len(t) : t[j] = s[j + 1]
      OBVIOUS
    <3> QED
      BY <1>1, <2>1, <3>1
  <2> QED
    BY <2>1
<1>8. /\ \A k \in DOMAIN s : s[k] = h \/ \E j \in DOMAIN t : t[j] = s[k]
      /\ \A j \in DOMAIN t : \E k \in DOMAIN s : s[k] = t[j]
      /\ \E k \in DOMAIN s : s[k] = h
  BY <1>1, <1>2
<1>3. \A id : Holds(s, id) <=> Holds(t, id) \/ h.id = id
  BY ONLY <1>8 DEF Holds
<1>4. \A id, type : TypeIn(s, type, id) <=> TypeIn(t, type, id) \/ (h.type = type /\ h.id = id)
  BY ONLY <1>8 DEF TypeIn
<1>5. \A id, m : PubIn(s, id, m) <=>
        PubIn(t, id, m) \/ (h.type = "PUBLISH" /\ h.id = id /\ h.msg = m)
  BY ONLY <1>8 DEF PubIn, PubAt
<1>6. ASSUME NEW id, Once(s, id)
      PROVE  Once(t, id) /\ (h.id = id => ~Holds(t, id))
  <2>1. ASSUME NEW j \in DOMAIN t, NEW k \in DOMAIN t, t[j].id = id, t[k].id = id
        PROVE  j = k
    <3>1. j + 1 = k + 1
      BY <1>1, <1>6, <2>1 DEF Once
    <3> QED
      BY <1>1, <3>1
  <2>2. ASSUME NEW j \in DOMAIN t, t[j].id = id, h.id = id
        PROVE  FALSE
    BY <1>1, <1>6, <2>2 DEF Once
  <2> QED
    BY <2>1, <2>2 DEF Once, Holds
<1>7. ASSUME NEW id, NEW m, PubOnce(s, id, m)
      PROVE  /\ PubOnce(t, id, m)
             /\ h.type = "PUBLISH" /\ h.id = id /\ h.msg = m => ~PubIn(t, id, m)
  <2>1. ASSUME NEW j \in DOMAIN t, NEW k \in DOMAIN t, PubAt(t, j, id, m), PubAt(t, k, id, m)
        PROVE  j = k
    <3>1. j + 1 = k + 1
      BY <1>1, <1>7, <2>1 DEF PubOnce, PubAt
    <3> QED
      BY <1>1, <3>1
  <2>2. ASSUME NEW j \in DOMAIN t, PubAt(t, j, id, m), PubAt(s, 1, id, m)
        PROVE  FALSE
    BY <1>1, <1>7, <2>2 DEF PubOnce, PubAt
  <2> QED
    BY <1>1, <2>1, <2>2 DEF PubOnce, PubIn, PubAt
<1> QED
  BY <1>1, <1>3, <1>4, <1>5, <1>6, <1>7 DEF Taken

\* Nothing is in an empty stream.
LEMMA EmptyPlaces ==
  /\ \A id : ~Holds(<<>>, id) /\ Once(<<>>, id)
  /\ \A id, type : ~TypeIn(<<>>, type, id)
  /\ \A id, m : ~PubIn(<<>>, id, m) /\ PubOnce(<<>>, id, m) /\ ~Has(<<>>, id, m)
BY DEF Holds, Once, TypeIn, PubIn, PubOnce, Has

\* What is in the containers and streams, by type.
LEMMA ContainerKinds ==
  ASSUME NEW pubs \in Seq(PublishObject)
  PROVE  /\ \A id : Holds(pubs, id) => \E m \in Messages : Has(pubs, id, m)
         /\ \A id, m : Has(pubs, id, m) => id \in PacketIds /\ m \in Messages /\ Holds(pubs, id)
         /\ \A id, m, n : Once(pubs, id) /\ Has(pubs, id, m) /\ Has(pubs, id, n) => m = n
<1>1. \A k \in DOMAIN pubs : pubs[k].id \in PacketIds /\ pubs[k].msg \in Messages
  <2>1. ASSUME NEW k \in DOMAIN pubs
        PROVE  pubs[k].id \in PacketIds /\ pubs[k].msg \in Messages
    <3>1. pubs[k] \in PublishObject
      OBVIOUS
    <3> QED
      BY <3>1 DEF PublishObject
  <2> QED
    BY <2>1
<1> QED
  BY <1>1 DEF Holds, Has, Once

ToClientPacket == PublishPacket \cup Acknowledge({"PUBREL"})
ToBrokerPacket == Acknowledge({"PUBACK", "PUBREC", "PUBCOMP"})

LEMMA PacketKinds ==
  ASSUME NEW p \in ToClientPacket
  PROVE  /\ p.id \in 0..MaxId
         /\ \/ p.type = "PUBLISH" /\ p.msg \in Messages /\ p \in PublishPacket
            \/ p.type = "PUBREL" /\ p.id \in PacketIds
         /\ p.type # "PUBLISH" => p.type = "PUBREL"
BY MaxIdAssumption DEF ToClientPacket, PublishPacket, Acknowledge, PacketIds

LEMMA StreamKinds ==
  ASSUME NEW s \in Seq(ToClientPacket)
  PROVE  /\ \A id : Holds(s, id) =>
              (\E m \in Messages : PubIn(s, id, m)) \/ TypeIn(s, "PUBREL", id)
         /\ \A id, m : PubIn(s, id, m) => id \in 0..MaxId /\ m \in Messages /\ Holds(s, id)
         /\ \A id : TypeIn(s, "PUBREL", id) => id \in PacketIds /\ Holds(s, id)
<1>1. \A k \in DOMAIN s : s[k] \in ToClientPacket
  OBVIOUS
<1>2. \A k \in DOMAIN s :
        /\ s[k].id \in 0..MaxId
        /\ \/ s[k].type = "PUBLISH" /\ s[k].msg \in Messages
           \/ s[k].type = "PUBREL" /\ s[k].id \in PacketIds
        /\ s[k].type # "PUBLISH" => s[k].type = "PUBREL"
  BY <1>1, PacketKinds
<1>3. \A k \in DOMAIN s : s[k].type = "PUBREL" => s[k].id \in PacketIds
  <2>1. "PUBREL" # "PUBLISH"
    OBVIOUS
  <2> QED
    BY <1>2, <2>1
<1>4. \A k \in DOMAIN s : s[k].type = "PUBLISH" => s[k].msg \in Messages
  <2>1. "PUBREL" # "PUBLISH"
    OBVIOUS
  <2> QED
    BY <1>2, <2>1
<1> QED
  BY <1>2, <1>3, <1>4 DEF Holds, PubIn, PubAt, TypeIn

LEMMA AnswerKinds ==
  ASSUME NEW s \in Seq(ToBrokerPacket)
  PROVE  /\ \A id : Holds(s, id) => /\ id \in PacketIds
                                    /\ \/ TypeIn(s, "PUBACK", id) \/ TypeIn(s, "PUBREC", id)
                                       \/ TypeIn(s, "PUBCOMP", id)
         /\ \A id, type : TypeIn(s, type, id) => Holds(s, id)
<1>1. ASSUME NEW k \in DOMAIN s
      PROVE  s[k].id \in PacketIds /\ s[k].type \in {"PUBACK", "PUBREC", "PUBCOMP"}
  <2>1. s[k] \in ToBrokerPacket
    OBVIOUS
  <2> QED
    BY <2>1 DEF ToBrokerPacket, Acknowledge
<1> QED
  BY <1>1 DEF Holds, TypeIn

\* What comes last comes behind everything.
LEMMA LastIsBehind ==
  ASSUME NEW S, NEW s \in Seq(S), NEW x \in S, NEW t, t = Append(s, x)
  PROVE  /\ \A m, n : Before(s, m, n) => Before(t, m, n)
         /\ \A m \in Range(s) : Before(t, m, x)
         /\ Range(t) = Range(s) \cup {x}
<1>1. /\ t \in Seq(S) /\ Len(t) = Len(s) + 1 /\ t[Len(s) + 1] = x
      /\ \A j \in 1..Len(s) : t[j] = s[j]
      /\ DOMAIN t = 1..(Len(s) + 1) /\ DOMAIN s = 1..Len(s) /\ Len(s) \in Nat
  OBVIOUS
<1>2. ASSUME NEW m, NEW n, Before(s, m, n)
      PROVE  Before(t, m, n)
  <2>1. PICK j, k \in 1..Len(s) : j < k /\ s[j] = m /\ s[k] = n
    BY <1>1, <1>2 DEF Before
  <2>2. j \in DOMAIN t /\ k \in DOMAIN t /\ t[j] = m /\ t[k] = n
    BY <1>1, <2>1
  <2> QED
    BY <2>1, <2>2 DEF Before
<1>3. ASSUME NEW m \in Range(s)
      PROVE  Before(t, m, x)
  <2>1. PICK j \in 1..Len(s) : s[j] = m
    BY <1>1 DEF Range
  <2>2. j \in DOMAIN t /\ Len(s) + 1 \in DOMAIN t /\ j < Len(s) + 1 /\ t[j] = m
    BY <1>1, <2>1
  <2> QED
    BY <1>1, <2>2 DEF Before
<1>4. Range(t) = Range(s) \cup {x}
  BY <1>1 DEF Range
<1> QED
  BY <1>2, <1>3, <1>4

\* What is left when the head of a stream was read was behind it, in the same order.
LEMMA TailKeeps ==
  ASSUME NEW S, NEW s \in Seq(S), s # <<>>, NEW k \in DOMAIN s, k # 1
  PROVE  \E j \in DOMAIN Tail(s) : Tail(s)[j] = s[k]
<1>1. PICK t : t = Tail(s)
  OBVIOUS
<1>2. t \in Seq(S) /\ Len(t) = Len(s) - 1 /\ Len(s) >= 1 /\ \A j \in 1..Len(t) : t[j] = s[j + 1]
  BY <1>1
<1>3. k - 1 \in DOMAIN t /\ (k - 1) + 1 = k
  BY <1>2
<1>4. t[k - 1] = s[k]
  BY <1>2, <1>3
<1> QED
  BY <1>1, <1>3, <1>4

LEMMA TailOrder ==
  ASSUME NEW S, NEW s \in Seq(S), s # <<>>, NEW t, t = Tail(s)
  PROVE  \A j, k \in DOMAIN t :
           j < k => /\ j + 1 \in DOMAIN s /\ k + 1 \in DOMAIN s /\ j + 1 < k + 1
                    /\ t[j] = s[j + 1] /\ t[k] = s[k + 1]
<1>1. t \in Seq(S) /\ Len(t) = Len(s) - 1 /\ Len(s) >= 1 /\ \A j \in 1..Len(t) : t[j] = s[j + 1]
  OBVIOUS
<1> QED
  BY <1>1


-----------------------------------------------------------------------------
(* Lemmas about the containers *)

\* release_publish_for_ack and release_publish_for_rec, on objects whose identifiers
\* differ: the objects with another identifier are left, in their order.
LEMMA ReleasePublishPlaces ==
  ASSUME NEW pubs \in Seq(PublishObject), NEW id, NEW r \in ReleasePublish(pubs, id),
         \A i \in PacketIds : Once(pubs, i)
  PROVE  /\ r \in Seq(PublishObject)
         /\ \A i, m : Has(r, i, m) <=> Has(pubs, i, m) /\ i # id
         /\ \A i : Holds(r, i) <=> Holds(pubs, i) /\ i # id
         /\ \A i \in PacketIds : Once(r, i)
         /\ InOrder(pubs) => InOrder(r)
<1>1. \A j, k \in DOMAIN pubs : pubs[j].id = pubs[k].id => j = k
  <2>1. \A j \in DOMAIN pubs : pubs[j].id \in PacketIds
    <3>1. ASSUME NEW j \in DOMAIN pubs
          PROVE  pubs[j].id \in PacketIds
      <4>1. pubs[j] \in PublishObject
        OBVIOUS
      <4> QED
        BY <4>1 DEF PublishObject
    <3> QED
      BY <3>1
  <2> QED
    BY <2>1 DEF Once
<1>2. CASE \E k \in DOMAIN pubs : pubs[k].id = id
  <2>1. PICK p \in 1..Len(pubs) : pubs[p].id = id /\ r = RemoveAt(pubs, p)
    BY <1>2 DEF ReleasePublish, EraseFirst, FirstMatch
  <2>2. /\ r \in Seq(PublishObject)
        /\ Len(r) = Len(pubs) - 1
        /\ \A k \in 1..(Len(pubs) - 1) : r[k] = IF k < p THEN pubs[k] ELSE pubs[k + 1]
    BY <2>1, RemoveAtElements
  <2>3. \A j \in DOMAIN r : \E i \in DOMAIN pubs : r[j] = pubs[i] /\ pubs[i].id # id
    BY <1>1, <2>1, <2>2
  <2>4. ASSUME NEW i \in DOMAIN pubs, pubs[i].id # id
        PROVE  \E j \in DOMAIN r : r[j] = pubs[i]
    <3>1. CASE i < p
      BY <2>2, <3>1
    <3>2. CASE i > p
      <4>1. i - 1 \in DOMAIN r /\ r[i - 1] = pubs[i]
        BY <2>2, <3>2
      <4> QED
        BY <4>1
    <3> QED
      BY <2>1, <2>4, <3>1, <3>2
  <2> DEFINE from(x) == IF x < p THEN x ELSE x + 1
  <2>5. \A j \in DOMAIN r : j \in Nat /\ from(j) \in DOMAIN pubs /\ r[j] = pubs[from(j)]
    BY <2>2
  <2>6. \A j, k \in Nat : (j < k => from(j) < from(k)) /\ (from(j) = from(k) => j = k)
    OBVIOUS
  <2> HIDE DEF from
  <2>7. \A i, m : Has(r, i, m) <=> Has(pubs, i, m) /\ i # id
    BY <2>3, <2>4 DEF Has
  <2>8. \A i : Holds(r, i) <=> Holds(pubs, i) /\ i # id
    BY <2>3, <2>4 DEF Holds
  <2>9. \A i \in PacketIds : Once(r, i)
    BY <1>1, <2>5, <2>6 DEF Once
  <2>10. InOrder(pubs) => InOrder(r)
    BY <2>5, <2>6 DEF InOrder
  <2> QED
    BY <2>2, <2>7, <2>8, <2>9, <2>10
<1>3. CASE ~\E k \in DOMAIN pubs : pubs[k].id = id
  <2>1. r = pubs
    BY <1>3 DEF ReleasePublish, EraseFirst
  <2>2. \A i, m : Has(pubs, i, m) => i # id
    BY <1>3 DEF Has
  <2>3. \A i : Holds(pubs, i) => i # id
    BY <1>3 DEF Holds
  <2> QED
    BY <2>1, <2>2, <2>3
<1> QED
  BY <1>2, <1>3

\* release_packet_id_for_pubcomp takes away one identifier, or nothing.
LEMMA ReleaseIdPlaces ==
  ASSUME forComp \in Seq(PacketIds), NEW id, forComp' \in ReleaseId(forComp, id)
  PROVE  /\ forComp' \in Seq(PacketIds)
         /\ \A i : i # id => (InComp(i)' <=> InComp(i))
         /\ \A i : OnceInComp(i) => OnceInComp(i)'
         /\ OnceInComp(id) => ~InComp(id)'
<1>1. CASE \E k \in DOMAIN forComp : forComp[k] = id
  <2>1. PICK p \in 1..Len(forComp) : forComp[p] = id /\ forComp' = RemoveAt(forComp, p)
    BY <1>1 DEF ReleaseId, EraseFirst, FirstMatch
  <2>2. /\ forComp' \in Seq(PacketIds)
        /\ Len(forComp') = Len(forComp) - 1
        /\ \A k \in 1..(Len(forComp) - 1) :
             forComp'[k] = IF k < p THEN forComp[k] ELSE forComp[k + 1]
    BY <2>1, RemoveAtElements
  <2> DEFINE from(x) == IF x < p THEN x ELSE x + 1
  <2>3. \A j \in DOMAIN forComp' :
          j \in Nat /\ from(j) \in DOMAIN forComp /\ from(j) # p /\ forComp'[j] = forComp[from(j)]
    BY <2>1, <2>2
  <2>4. \A j, k \in Nat : from(j) = from(k) => j = k
    OBVIOUS
  <2>5. ASSUME NEW i \in DOMAIN forComp, forComp[i] # id
        PROVE  \E j \in DOMAIN forComp' : forComp'[j] = forComp[i]
    <3>1. CASE i < p
      BY <2>2, <3>1
    <3>2. CASE i > p
      <4>1. i - 1 \in DOMAIN forComp' /\ forComp'[i - 1] = forComp[i]
        BY <2>2, <3>2
      <4> QED
        BY <4>1
    <3> QED
      BY <2>1, <2>5, <3>1, <3>2
  <2> HIDE DEF from
  <2>6. \A i : i # id => (InComp(i)' <=> InComp(i))
    BY <2>3, <2>5 DEF InComp
  <2>7. \A i : OnceInComp(i) => OnceInComp(i)'
    BY <2>3, <2>4 DEF OnceInComp
  <2>8. OnceInComp(id) => ~InComp(id)'
    BY <2>1, <2>3 DEF OnceInComp, InComp
  <2> QED
    BY <2>2, <2>6, <2>7, <2>8
<1>2. CASE ~\E k \in DOMAIN forComp : forComp[k] = id
  <2>1. forComp' = forComp
    BY <1>2 DEF ReleaseId, EraseFirst
  <2> QED
    BY <1>2, <2>1 DEF InComp, OnceInComp
<1> QED
  BY <1>1, <1>2

\* handle_pubrec adds one identifier.
LEMMA AddIdPlaces ==
  ASSUME forComp \in Seq(PacketIds), NEW id \in PacketIds, forComp' = Append(forComp, id)
  PROVE  /\ forComp' \in Seq(PacketIds)
         /\ \A i : InComp(i)' <=> InComp(i) \/ i = id
         /\ \A i : OnceInComp(i) /\ ~(InComp(i) /\ i = id) => OnceInComp(i)'
<1>1. /\ forComp' \in Seq(PacketIds)
      /\ \A j \in DOMAIN forComp : j \in DOMAIN forComp' /\ forComp'[j] = forComp[j]
      /\ \A j \in DOMAIN forComp' : j \notin DOMAIN forComp => j = Len(forComp) + 1 /\ forComp'[j] = id
      /\ \E j \in DOMAIN forComp' : forComp'[j] = id
  BY AppendElements
<1>2. \A i : InComp(i)' <=> InComp(i) \/ i = id
  BY <1>1 DEF InComp
<1>3. ASSUME NEW i, OnceInComp(i), ~(InComp(i) /\ i = id)
      PROVE  OnceInComp(i)'
  BY <1>1, <1>3 DEF OnceInComp, InComp
<1> QED
  BY <1>1, <1>2, <1>3

\* dup(true) in one turn of a loop changes no identifier and no message.
LEMMA MarkPlaces ==
  ASSUME NEW pubs \in Seq(PublishObject), NEW id, NEW r, r = Mark(pubs, id)
  PROVE  /\ r \in Seq(PublishObject)
         /\ \A i, m : Has(r, i, m) <=> Has(pubs, i, m)
         /\ \A i : (Holds(r, i) <=> Holds(pubs, i)) /\ (Once(r, i) <=> Once(pubs, i))
         /\ InOrder(pubs) => InOrder(r)
         /\ MessagesOf(r) = MessagesOf(pubs)
<1>1. DOMAIN r = DOMAIN pubs /\ DOMAIN pubs = 1..Len(pubs)
  BY DEF Mark
<1>2. ASSUME NEW k \in DOMAIN pubs
      PROVE  r[k] \in PublishObject /\ r[k].id = pubs[k].id /\ r[k].msg = pubs[k].msg
  <2>1. pubs[k] \in PublishObject /\ r[k] = IF pubs[k].id = id THEN SetDup(pubs[k]) ELSE pubs[k]
    BY DEF Mark
  <2> QED
    BY <2>1 DEF SetDup, PublishObject
<1>3. r \in Seq(PublishObject)
  <2>1. r = [k \in 1..Len(pubs) |-> r[k]]
    BY <1>1 DEF Mark
  <2>2. r \in [1..Len(pubs) -> PublishObject]
    BY <1>1, <1>2, <2>1
  <2> QED
    BY <2>2
<1> QED
  BY <1>1, <1>2, <1>3 DEF Has, Holds, Once, InOrder, MessagesOf

\* The loops write one PUBLISH for every object ...
LEMMA PublishesPlaces ==
  ASSUME NEW pubs \in Seq(PublishObject), NEW s, s = Publishes(pubs),
         \A i, m : Has(pubs, i, m) => Qos[m] # 0
  PROVE  /\ s \in Seq(ToClientPacket)
         /\ \A i, m : PubIn(s, i, m) <=> Has(pubs, i, m)
         /\ \A i, type : TypeIn(s, type, i) => type = "PUBLISH"
         /\ \A i : (Holds(s, i) <=> Holds(pubs, i)) /\ (Once(s, i) <=> Once(pubs, i))
         /\ DOMAIN s = DOMAIN pubs /\ \A k \in DOMAIN s : s[k].msg = pubs[k].msg
<1>1. DOMAIN s = DOMAIN pubs /\ DOMAIN pubs = 1..Len(pubs)
  BY DEF Publishes
<1>2. ASSUME NEW k \in DOMAIN pubs
      PROVE  /\ s[k] \in ToClientPacket /\ s[k].id = pubs[k].id /\ s[k].msg = pubs[k].msg
             /\ s[k].type = "PUBLISH"
  <2>1. pubs[k] \in PublishObject /\ s[k] = Serialize(SetDup(pubs[k]))
    BY DEF Publishes
  <2>2. PICK i, m : i = pubs[k].id /\ m = pubs[k].msg
    OBVIOUS
  <2>3. Qos[m] # 0
    BY <2>2 DEF Has
  <2>4. SetDup(pubs[k]).id = i /\ SetDup(pubs[k]).msg = m /\ SetDup(pubs[k]) \in PublishObject
    BY <2>1, <2>2 DEF SetDup, PublishObject
  <2>5. PICK p \in PublishObject : p = SetDup(pubs[k])
    BY <2>4
  <2>6. p.id \in PacketIds /\ p.msg \in Messages /\ p.flag \in BOOLEAN /\ p.id \in 0..MaxId
    BY <2>5, MaxIdAssumption DEF PublishObject, PacketIds
  <2>7. s[k] = [type |-> "PUBLISH", id |-> p.id, msg |-> p.msg, dup |-> p.flag]
    BY <2>1, <2>3, <2>4, <2>5 DEF Serialize
  <2>8. s[k] \in PublishPacket /\ s[k].id = p.id /\ s[k].msg = p.msg /\ s[k].type = "PUBLISH"
    BY <2>6, <2>7 DEF PublishPacket
  <2> QED
    BY <2>2, <2>4, <2>5, <2>8 DEF ToClientPacket
<1>3. s \in Seq(ToClientPacket)
  <2>1. s = [k \in 1..Len(pubs) |-> s[k]]
    BY <1>1 DEF Publishes
  <2>2. s \in [1..Len(pubs) -> ToClientPacket]
    BY <1>1, <1>2, <2>1
  <2> QED
    BY <2>2
<1> QED
  BY <1>1, <1>2, <1>3 DEF Has, Holds, Once, PubIn, PubAt, TypeIn

\* ... and one PUBREL for every identifier.
LEMMA PubrelsPlaces ==
  ASSUME forComp \in Seq(PacketIds), NEW s, s = Pubrels(forComp)
  PROVE  /\ s \in Seq(ToClientPacket)
         /\ \A i, m : ~PubIn(s, i, m)
         /\ \A i : TypeIn(s, "PUBREL", i) <=> InComp(i)
         /\ \A i : (Holds(s, i) <=> InComp(i)) /\ (Once(s, i) <=> OnceInComp(i))
         /\ \A k \in DOMAIN s : s[k].type = "PUBREL"
<1>1. DOMAIN s = DOMAIN forComp /\ DOMAIN forComp = 1..Len(forComp)
  BY DEF Pubrels
<1>2. ASSUME NEW k \in DOMAIN forComp
      PROVE  s[k] \in ToClientPacket /\ s[k].id = forComp[k] /\ s[k].type = "PUBREL"
  <2>1. forComp[k] \in PacketIds /\ s[k] = Pubrel(forComp[k])
    BY DEF Pubrels
  <2> QED
    BY <2>1 DEF Pubrel, ToClientPacket, Acknowledge
<1>3. s \in Seq(ToClientPacket)
  <2>1. s = [k \in 1..Len(forComp) |-> s[k]]
    BY <1>1 DEF Pubrels
  <2>2. s \in [1..Len(forComp) -> ToClientPacket]
    BY <1>1, <1>2, <2>1
  <2> QED
    BY <2>2
<1> QED
  BY <1>1, <1>2, <1>3 DEF Holds, Once, InComp, OnceInComp, PubIn, PubAt, TypeIn

-----------------------------------------------------------------------------
(* Every action preserves the inductive invariant *)

LEMMA Types ==
  ASSUME TypeOK
  PROVE  /\ forAck \in Seq(PublishObject) /\ forRec \in Seq(PublishObject)
         /\ forComp \in Seq(PacketIds)
         /\ toClient \in Seq(ToClientPacket) /\ todo \in Seq(ToClientPacket)
         /\ toBroker \in Seq(ToBrokerPacket)
         /\ writing \subseteq PublishPacket
         /\ published \in Seq(Messages)
BY DEF TypeOK, ToClientPacket, ToBrokerPacket

LEMMA InitIInv == Init => IInv
<1> SUFFICES ASSUME Init
             PROVE  IInv
  OBVIOUS
<1>1. TypeOK
  BY MaxIdAssumption, MaxDropsAssumption DEF Init, TypeOK
<1>2. /\ forAck = <<>> /\ forRec = <<>> /\ toClient = <<>> /\ toBroker = <<>> /\ todo = <<>>
      /\ writing = {} /\ recIds = {} /\ disturbed = {} /\ DOMAIN forComp = {}
      /\ conn = "up" /\ stage = "none" /\ \A t \in Topics : entry[t] = "live"
      /\ \A m \in Messages : count[m] = 0
  BY DEF Init
<1>3. \A id : ~InComp(id) /\ OnceInComp(id) /\ ~WritingId(id)
  BY <1>2 DEF InComp, OnceInComp, WritingId
<1>4. \A id, m : ~Writing(id, m)
  BY <1>2 DEF Writing
<1>5. Connection
  BY <1>2, EmptyPlaces DEF Connection
<1>6. IdsApart /\ StoredOnce
  BY <1>2, <1>3, EmptyPlaces DEF IdsApart, StoredOnce
<1>7. ReceivedOnce
  BY <1>2, <1>3, EmptyPlaces DEF ReceivedOnce, ExactlyOnce
<1>8. OutgoingExpected /\ AnswersExpected
  BY <1>2, <1>4, EmptyPlaces DEF OutgoingExpected, AnswersExpected, Outgoing, OutgoingPubrel
<1>9. OneInFlight /\ OneOfQosZero /\ NoneIsStuck
  BY <1>2, <1>3, <1>4, EmptyPlaces DEF OneInFlight, OneOfQosZero, NoneIsStuck, Unfinished
<1> QED
  BY <1>1, <1>5, <1>6, <1>7, <1>8, <1>9 DEF IInv

\* Steps that only move packets leave the exchanges as they are: what is stored (an
\* object may be marked), what the client has, and what was published.
Same(pubs, new) ==
  /\ new \in Seq(PublishObject)
  /\ \A id, m : Has(new, id, m) <=> Has(pubs, id, m)
  /\ \A id : (Holds(new, id) <=> Holds(pubs, id)) /\ (Once(new, id) <=> Once(pubs, id))
KeepsExchanges ==
  /\ Same(forAck, forAck') /\ Same(forRec, forRec')
  /\ UNCHANGED <<nextId, forComp, recIds, count, published, twice, disturbed>>

LEMMA SameItself == ASSUME NEW pubs \in Seq(PublishObject) PROVE Same(pubs, pubs)
BY DEF Same

LEMMA KeptExchanges ==
  ASSUME IInv, KeepsExchanges
  PROVE  IdsApart' /\ StoredOnce' /\ ReceivedOnce'
<1>1. /\ \A id, m : Has(forAck', id, m) <=> Has(forAck, id, m)
      /\ \A id, m : Has(forRec', id, m) <=> Has(forRec, id, m)
      /\ \A id : (Holds(forAck', id) <=> Holds(forAck, id)) /\ (Once(forAck', id) <=> Once(forAck, id))
      /\ \A id : (Holds(forRec', id) <=> Holds(forRec, id)) /\ (Once(forRec', id) <=> Once(forRec, id))
      /\ \A id : (InComp(id)' <=> InComp(id)) /\ (OnceInComp(id)' <=> OnceInComp(id))
      /\ UNCHANGED <<recIds, count, published, twice, disturbed>>
      /\ Alone' = Alone
  BY DEF KeepsExchanges, Same, InComp, OnceInComp, Alone
<1>2. IdsApart'
  BY <1>1 DEF IInv, IdsApart
<1>3. StoredOnce'
  BY <1>1 DEF IInv, StoredOnce
<1>4. ReceivedOnce'
  BY <1>1 DEF IInv, ReceivedOnce, ExactlyOnce
<1> QED
  BY <1>2, <1>3, <1>4

\* What they write was on its way before, or is of something stored.
LEMMA KeptOutgoing ==
  ASSUME IInv, KeepsExchanges,
         \A id \in 0..MaxId, m \in Messages :
           Outgoing(id, m)' => Outgoing(id, m) \/ Has(forAck, id, m) \/ Has(forRec, id, m),
         \A id \in PacketIds : OutgoingPubrel(id)' => OutgoingPubrel(id) \/ InComp(id)
  PROVE  OutgoingExpected'
<1>1. /\ \A id, m : Has(forAck', id, m) <=> Has(forAck, id, m)
      /\ \A id, m : Has(forRec', id, m) <=> Has(forRec, id, m)
      /\ \A id : InComp(id)' <=> InComp(id)
      /\ UNCHANGED <<count, published, twice, disturbed>>
      /\ Alone' = Alone
  BY DEF KeepsExchanges, Same, InComp, Alone
<1>2. ASSUME NEW id \in 0..MaxId, NEW m \in Messages, Outgoing(id, m)'
      PROVE  /\ m \in Range(published)
             /\ Qos[m] = 0 => id = 0 /\ count[m] = 0
             /\ Qos[m] > 0 => id # 0 /\ (m \in disturbed <=> id \in twice)
             /\ Qos[m] = 1 /\ id \notin twice => Has(forAck, id, m)
             /\ Qos[m] = 2 /\ id \notin twice => Has(forRec, id, m)
  <2>1. CASE Outgoing(id, m)
    BY <2>1 DEF IInv, OutgoingExpected
  <2>2. CASE Has(forAck, id, m) \/ Has(forRec, id, m)
    <3>1. id \in PacketIds /\ id # 0
      BY <2>2, Types, ContainerKinds DEF IInv, PacketIds
    <3>2. /\ m \in Range(published) /\ (m \in disturbed <=> id \in twice)
          /\ Has(forAck, id, m) => Qos[m] = 1
          /\ Has(forRec, id, m) => Qos[m] = 2
      BY <2>2, <3>1 DEF IInv, StoredOnce
    <3> QED
      BY <2>2, <3>1, <3>2
  <2> QED
    BY <1>2, <2>1, <2>2
<1>3. \A id \in Alone : OutgoingPubrel(id)' => InComp(id)
  BY DEF IInv, OutgoingExpected, Alone
<1> QED
  BY <1>1, <1>2, <1>3 DEF OutgoingExpected

LEMMA KeptAnswers ==
  ASSUME IInv, KeepsExchanges, toBroker' = toBroker \/ toBroker' = <<>>
  PROVE  AnswersExpected'
<1>1. /\ \A id, m : Has(forAck', id, m) <=> Has(forAck, id, m)
      /\ \A id : Holds(forRec', id) <=> Holds(forRec, id)
      /\ \A id : InComp(id)' <=> InComp(id)
      /\ UNCHANGED <<recIds, count, twice>>
      /\ Alone' = Alone
  BY DEF KeepsExchanges, Same, InComp, Alone
<1>2. \A id, type : TypeIn(toBroker', type, id) => TypeIn(toBroker, type, id)
  BY EmptyPlaces
<1> QED
  BY <1>1, <1>2 DEF IInv, AnswersExpected

\* What is placed in the containers does not change with them unchanged.
LEMMA UnchangedExchanges ==
  ASSUME TypeOK, UNCHANGED <<sessionVars, recIds, count, published, twice, disturbed>>
  PROVE  /\ KeepsExchanges
         /\ \A id : (InComp(id)' <=> InComp(id)) /\ (Unfinished(id)' <=> Unfinished(id))
<1>1. KeepsExchanges
  BY Types, SameItself DEF KeepsExchanges, sessionVars
<1>2. \A id : InComp(id)' <=> InComp(id)
  BY DEF InComp, sessionVars
<1> QED
  BY <1>1, <1>2 DEF Unfinished, sessionVars

\* handle_connect and handle_channel_disconnected find nothing on the wire, and a
\* break leaves nothing there.
LEMMA SilentIInv ==
  ASSUME IInv, TypeOK', Connection',
         UNCHANGED <<sessionVars, recIds, count, published, twice, disturbed>>,
         toClient' = <<>>, toBroker' = <<>>, todo' = <<>>, writing' = {},
         conn' = "up" => stage' = "subscribing"
  PROVE  IInv'
<1>1. /\ KeepsExchanges
      /\ \A id : (InComp(id)' <=> InComp(id)) /\ (Unfinished(id)' <=> Unfinished(id))
  BY UnchangedExchanges DEF IInv
<1>2. /\ \A id : ~WritingId(id)' /\ ~OutgoingPubrel(id)'
      /\ \A id, m : ~Writing(id, m)' /\ ~Outgoing(id, m)'
  BY EmptyPlaces DEF WritingId, Writing, Outgoing, OutgoingPubrel
<1>3. OutgoingExpected' /\ AnswersExpected'
  BY <1>1, <1>2, KeptOutgoing, KeptAnswers
<1>4. OneInFlight' /\ OneOfQosZero'
  BY <1>2, EmptyPlaces DEF OneInFlight, OneOfQosZero
<1>5. NoneIsStuck'
  BY DEF NoneIsStuck, Unfinished, UnderWay, Ahead
<1> QED
  BY <1>1, <1>3, <1>4, <1>5, KeptExchanges DEF IInv

LEMMA BreakIInv ==
  ASSUME IInv, ConnectionBreaks
  PROVE  IInv'
<1>1. /\ drops < MaxDrops /\ drops' = drops + 1
      /\ conn' = "broken" /\ entry' = [t \in Topics |-> "stale"] /\ stage' = "none"
      /\ todo' = <<>> /\ writing' = {} /\ toClient' = <<>> /\ toBroker' = <<>>
      /\ UNCHANGED <<sessionVars, recIds, count, published, twice, disturbed, overtaking>>
  BY DEF ConnectionBreaks, clientVars, historyVars
<1>2. TypeOK'
  BY <1>1, MaxDropsAssumption DEF IInv, TypeOK, sessionVars
<1>3. Connection'
  BY <1>1, EmptyPlaces DEF Connection
<1> QED
  BY <1>1, <1>2, <1>3, SilentIInv

LEMMA DisconnectedIInv ==
  ASSUME IInv, handle_channel_disconnected
  PROVE  IInv'
<1>1. /\ conn = "broken" /\ conn' = "down" /\ entry' = [t \in Topics |-> "none"]
      /\ UNCHANGED <<sessionVars, stage, todo, writing, toClient, toBroker, recIds, count,
                     published, twice, disturbed, overtaking, drops>>
  BY DEF handle_channel_disconnected, clientVars, historyVars
<1>2. /\ toClient = <<>> /\ toBroker = <<>> /\ todo = <<>> /\ writing = {} /\ stage = "none"
  BY <1>1 DEF IInv, Connection
<1>3. TypeOK'
  BY <1>1 DEF IInv, TypeOK, sessionVars
<1>4. Connection'
  BY <1>1, <1>2, EmptyPlaces DEF Connection
<1> QED
  BY <1>1, <1>2, <1>3, <1>4, SilentIInv

LEMMA ConnectIInv ==
  ASSUME IInv, handle_connect
  PROVE  IInv'
<1>1. /\ conn # "up" /\ conn' = "up" /\ stage' = "subscribing"
      /\ UNCHANGED <<sessionVars, entry, todo, writing, toClient, toBroker, recIds, count,
                     published, twice, disturbed, overtaking, drops>>
  BY DEF handle_connect, clientVars, historyVars
<1>2. /\ toClient = <<>> /\ toBroker = <<>> /\ todo = <<>> /\ writing = {}
  BY <1>1 DEF IInv, Connection
<1>3. TypeOK'
  BY <1>1 DEF IInv, TypeOK, sessionVars
<1>4. Connection'
  BY <1>1, <1>2, EmptyPlaces DEF Connection
<1> QED
  BY <1>1, <1>2, <1>3, <1>4, SilentIInv

LEMMA SubscribeIInv ==
  ASSUME IInv, NEW t \in Topics, subscribe(t)
  PROVE  IInv'
<1>1. /\ stage = "subscribing" /\ entry' = [entry EXCEPT ![t] = "live"]
      /\ UNCHANGED <<sessionVars, conn, stage, todo, writing, toClient, toBroker, recIds, count,
                     published, twice, disturbed, overtaking, drops>>
  BY DEF subscribe, clientVars, historyVars
<1>2. /\ KeepsExchanges
      /\ \A id : (InComp(id)' <=> InComp(id)) /\ (Unfinished(id)' <=> Unfinished(id))
  BY <1>1, UnchangedExchanges DEF IInv
<1>3. /\ \A id : WritingId(id)' <=> WritingId(id)
      /\ \A id : OutgoingPubrel(id)' <=> OutgoingPubrel(id)
      /\ \A id, m : Writing(id, m)' <=> Writing(id, m)
      /\ \A id, m : Outgoing(id, m)' <=> Outgoing(id, m)
      /\ \A id : Ahead(id)' <=> Ahead(id)
      /\ Alone' = Alone
  BY <1>1, <1>2 DEF WritingId, OutgoingPubrel, Writing, Outgoing, Ahead, Alone, sessionVars
<1>4. TypeOK'
  BY <1>1 DEF IInv, TypeOK, sessionVars
<1>5. Connection'
  BY <1>1 DEF IInv, Connection
<1>6. OutgoingExpected' /\ AnswersExpected'
  BY <1>1, <1>2, <1>3, KeptOutgoing, KeptAnswers
<1>7. OneInFlight' /\ OneOfQosZero' /\ NoneIsStuck'
  BY <1>1, <1>2, <1>3 DEF IInv, OneInFlight, OneOfQosZero, NoneIsStuck, UnderWay
<1> QED
  BY <1>2, <1>4, <1>5, <1>6, <1>7, KeptExchanges DEF IInv

\* A copy is taken when there is nothing left to write, and what is in it was ahead.
LEMMA CopyIInv ==
  ASSUME IInv, NEW from, NEW to \in {"none", "acks", "recs", "comps"}, from # "none",
         NEW packets, Copy(from, to, packets),
         packets \in Seq(ToClientPacket), to = "none" => packets = <<>>,
         from = "subscribing" => \A t \in Topics : entry[t] = "live",
         \A id, m : PubIn(packets, id, m) => \/ to = "acks" /\ Has(forAck, id, m)
                                             \/ to = "recs" /\ Has(forRec, id, m),
         \A id : TypeIn(packets, "PUBREL", id) => InComp(id),
         \A id \in Alone : /\ Once(packets, id)
                           /\ Ahead(id) <=> Holds(packets, id) \/ Ahead(id)'
                           /\ Holds(packets, id) => ~Ahead(id)'
  PROVE  IInv'
<1>1. /\ stage = from /\ todo = <<>> /\ stage' = to /\ todo' = packets
      /\ UNCHANGED <<sessionVars, conn, entry, writing, toClient, toBroker, recIds, count,
                     published, twice, disturbed, overtaking, drops>>
  BY DEF Copy, clientVars, historyVars
<1>2. /\ KeepsExchanges
      /\ \A id : (InComp(id)' <=> InComp(id)) /\ (Unfinished(id)' <=> Unfinished(id))
  BY <1>1, UnchangedExchanges DEF IInv
<1>3. conn = "up" /\ \A t \in Topics : entry[t] = "live"
  BY <1>1 DEF IInv, Connection
<1>4. /\ \A id : WritingId(id)' <=> WritingId(id)
      /\ \A id, m : Writing(id, m)' <=> Writing(id, m)
      /\ \A id, m : Outgoing(id, m)' => Outgoing(id, m) \/ PubIn(packets, id, m)
      /\ \A id : OutgoingPubrel(id)' => OutgoingPubrel(id) \/ TypeIn(packets, "PUBREL", id)
      /\ Alone' = Alone
  BY <1>1, EmptyPlaces DEF WritingId, OutgoingPubrel, Writing, Outgoing, Alone
<1>5. TypeOK'
  <2>1. todo' \in Seq(PublishPacket \cup Acknowledge({"PUBREL"}))
    BY <1>1 DEF ToClientPacket
  <2> QED
    BY <1>1, <2>1 DEF IInv, TypeOK, sessionVars
<1>6. Connection'
  <2>1. ASSUME NEW id \in 0..MaxId, NEW m \in Messages, PubIn(packets, id, m)
        PROVE  \/ to = "acks" /\ Qos[m] = 1
               \/ to = "recs" /\ Qos[m] = 2
    <3>1. forAck \in Seq(PublishObject) /\ forRec \in Seq(PublishObject)
      BY Types DEF IInv
    <3>2. \/ to = "acks" /\ Has(forAck, id, m) /\ id \in PacketIds
          \/ to = "recs" /\ Has(forRec, id, m) /\ id \in PacketIds
      BY <2>1, <3>1, ContainerKinds
    <3> QED
      BY <3>2 DEF IInv, StoredOnce
  <2> QED
    BY <1>1, <1>3, <2>1 DEF IInv, Connection
<1>7. OutgoingExpected'
  BY <1>2, <1>4, KeptOutgoing
<1>8. AnswersExpected'
  BY <1>1, <1>2, KeptAnswers
<1>9. OneInFlight'
  BY <1>1, <1>4 DEF IInv, OneInFlight
<1>10. OneOfQosZero'
  BY <1>1, <1>4 DEF IInv, OneOfQosZero
<1>11. NoneIsStuck'
  <2>1. \A id : ~Holds(todo, id)
    BY <1>1, EmptyPlaces
  <2> QED
    BY <1>1, <1>2, <1>4, <2>1 DEF IInv, NoneIsStuck, UnderWay
<1> QED
  BY <1>2, <1>5, <1>6, <1>7, <1>8, <1>9, <1>10, <1>11, KeptExchanges DEF IInv

LEMMA CopiesIInv ==
  ASSUME IInv,
         \/ unacked_publish_for_ack \/ unacked_publish_for_rec
         \/ unacked_packet_id_for_pubcomp \/ resumed
  PROVE  IInv'
<1>1. /\ forAck \in Seq(PublishObject) /\ forRec \in Seq(PublishObject)
      /\ forComp \in Seq(PacketIds)
  BY Types DEF IInv
<1>2. /\ \A i, m : Has(forAck, i, m) => Qos[m] # 0
      /\ \A i, m : Has(forRec, i, m) => Qos[m] # 0
  BY <1>1, ContainerKinds DEF IInv, StoredOnce
<1>3. \A id \in Alone : /\ Once(forAck, id) /\ Once(forRec, id) /\ OnceInComp(id)
                        /\ Holds(forAck, id) => ~Holds(forRec, id)
                        /\ InComp(id) => ~Holds(forAck, id) /\ ~Holds(forRec, id)
  BY DEF IInv, IdsApart, Alone
<1>4. CASE unacked_publish_for_ack
  <2> PICK packets : packets = Publishes(forAck)
    OBVIOUS
  <2>1. /\ Copy("subscribing", "acks", packets) /\ \A t \in Topics : entry[t] = "live"
        /\ stage = "subscribing" /\ stage' = "acks" /\ UNCHANGED <<forAck, forRec, forComp>>
    BY <1>4 DEF unacked_publish_for_ack, Copy, sessionVars
  <2>2. /\ packets \in Seq(ToClientPacket)
        /\ \A i, m : PubIn(packets, i, m) <=> Has(forAck, i, m)
        /\ \A i, type : TypeIn(packets, type, i) => type = "PUBLISH"
        /\ \A i : (Holds(packets, i) <=> Holds(forAck, i)) /\ (Once(packets, i) <=> Once(forAck, i))
    BY <1>1, <1>2, PublishesPlaces
  <2>3. \A id : /\ Ahead(id) <=> Holds(forAck, id) \/ Holds(forRec, id) \/ InComp(id)
                /\ Ahead(id)' <=> Holds(forRec, id) \/ InComp(id)
    BY <2>1 DEF Ahead, InComp
  <2>4. \A id : ~TypeIn(packets, "PUBREL", id)
    BY <2>2
  <2> QED
    BY <1>3, <2>1, <2>2, <2>3, <2>4, CopyIInv
<1>5. CASE unacked_publish_for_rec
  <2> PICK packets : packets = Publishes(forRec)
    OBVIOUS
  <2>1. /\ Copy("acks", "recs", packets)
        /\ stage = "acks" /\ stage' = "recs" /\ UNCHANGED <<forAck, forRec, forComp>>
    BY <1>5 DEF unacked_publish_for_rec, Copy, sessionVars
  <2>2. /\ packets \in Seq(ToClientPacket)
        /\ \A i, m : PubIn(packets, i, m) <=> Has(forRec, i, m)
        /\ \A i, type : TypeIn(packets, type, i) => type = "PUBLISH"
        /\ \A i : (Holds(packets, i) <=> Holds(forRec, i)) /\ (Once(packets, i) <=> Once(forRec, i))
    BY <1>1, <1>2, PublishesPlaces
  <2>3. \A id : /\ Ahead(id) <=> Holds(forRec, id) \/ InComp(id)
                /\ Ahead(id)' <=> InComp(id)
    BY <2>1 DEF Ahead, InComp
  <2>4. \A id : ~TypeIn(packets, "PUBREL", id)
    BY <2>2
  <2> QED
    BY <1>3, <2>1, <2>2, <2>3, <2>4, CopyIInv
<1>6. CASE unacked_packet_id_for_pubcomp
  <2> PICK packets : packets = Pubrels(forComp)
    OBVIOUS
  <2>1. /\ Copy("recs", "comps", packets)
        /\ stage = "recs" /\ stage' = "comps" /\ UNCHANGED <<forAck, forRec, forComp>>
    BY <1>6 DEF unacked_packet_id_for_pubcomp, Copy, sessionVars
  <2>2. /\ packets \in Seq(ToClientPacket)
        /\ \A i, m : ~PubIn(packets, i, m)
        /\ \A i : TypeIn(packets, "PUBREL", i) <=> InComp(i)
        /\ \A i : (Holds(packets, i) <=> InComp(i)) /\ (Once(packets, i) <=> OnceInComp(i))
    BY <1>1, PubrelsPlaces
  <2>3. \A id : (Ahead(id) <=> InComp(id)) /\ ~Ahead(id)'
    BY <2>1 DEF Ahead, InComp
  <2> QED
    BY <1>3, <2>1, <2>2, <2>3, CopyIInv
<1>7. CASE resumed
  <2> PICK packets : packets = <<>>
    OBVIOUS
  <2>1. Copy("comps", "none", packets) /\ stage = "comps" /\ stage' = "none"
    BY <1>7 DEF resumed, Copy
  <2>2. /\ packets \in Seq(ToClientPacket) /\ packets = <<>>
        /\ \A i, m : ~PubIn(packets, i, m)
        /\ \A i : ~TypeIn(packets, "PUBREL", i) /\ ~Holds(packets, i) /\ Once(packets, i)
    BY EmptyPlaces
  <2>3. \A id : ~Ahead(id) /\ ~Ahead(id)'
    BY <2>1 DEF Ahead
  <2> QED
    BY <2>1, <2>2, <2>3, CopyIInv
<1> QED
  BY <1>4, <1>5, <1>6, <1>7

\* A packet that no other of its exchange is under way with is written.
LEMMA WriteIInv ==
  ASSUME IInv, KeepsExchanges, TypeOK', Connection', NEW p \in ToClientPacket, Write(p),
         UNCHANGED <<conn, stage, toBroker>>,
         \A id, m : PubIn(todo', id, m) => PubIn(todo, id, m),
         \A id, m : Writing(id, m)' => Writing(id, m),
         \A id : TypeIn(todo', "PUBREL", id) => TypeIn(todo, "PUBREL", id),
         p.type = "PUBLISH" => Outgoing(p.id, p.msg),
         p.type = "PUBREL" => OutgoingPubrel(p.id),
         \A id \in Alone :
           /\ Once(todo', id)
           /\ Holds(todo', id) => Holds(todo, id) /\ p.id # id
           /\ Holds(todo, id) => Holds(todo', id) \/ p.id = id
           /\ WritingId(id)' => WritingId(id) /\ p.id # id
           /\ WritingId(id) => WritingId(id)' \/ p.id = id
           /\ p.id = id => /\ ~Holds(toClient, id) /\ ~Holds(toBroker, id)
                           /\ ~Ahead(id),
         \A m \in Messages : Qos[m] = 0 /\ p.type = "PUBLISH" /\ p.msg = m
                             => ~PubIn(toClient, 0, m) /\ ~Writing(0, m)'
  PROVE  IInv'
<1>1. /\ \A id : Holds(toClient', id) <=> Holds(toClient, id) \/ p.id = id
      /\ \A id, type : TypeIn(toClient', type, id) <=>
           TypeIn(toClient, type, id) \/ (p.type = type /\ p.id = id)
      /\ \A id, m : PubIn(toClient', id, m) <=>
           PubIn(toClient, id, m) \/ (p.type = "PUBLISH" /\ p.id = id /\ p.msg = m)
      /\ \A id : Once(toClient, id) /\ ~(Holds(toClient, id) /\ p.id = id) => Once(toClient', id)
      /\ \A id, m : PubOnce(toClient, id, m) /\ ~(PubIn(toClient, id, m) /\ p.id = id /\ p.msg = m)
                    => PubOnce(toClient', id, m)
  <2>1. toClient' = Append(toClient, p) /\ toClient \in Seq(ToClientPacket)
    BY Types DEF Write, IInv
  <2>2. Appended(toClient, p, toClient')
    BY <2>1, AppendPlaces
  <2> QED
    BY <2>2 DEF Appended
<1>2. /\ \A id : Holds(forAck', id) <=> Holds(forAck, id)
      /\ \A id : Holds(forRec', id) <=> Holds(forRec, id)
      /\ \A id : InComp(id)' <=> InComp(id)
      /\ UNCHANGED twice /\ Alone' = Alone
  BY DEF KeepsExchanges, Same, InComp, Alone
<1>3. \A id : (Ahead(id)' <=> Ahead(id)) /\ (Unfinished(id)' <=> Unfinished(id))
  BY <1>2 DEF Ahead, Unfinished
<1>4. /\ \A id, m : Outgoing(id, m)' => Outgoing(id, m)
      /\ \A id : OutgoingPubrel(id)' => OutgoingPubrel(id)
  BY <1>1 DEF Outgoing, OutgoingPubrel
<1>5. OutgoingExpected' /\ AnswersExpected'
  BY <1>4, KeptOutgoing, KeptAnswers
<1>6. OneInFlight'
  <2>1. ASSUME NEW id \in Alone
        PROVE  /\ Once(toClient', id) /\ Once(toBroker', id) /\ Once(todo', id)
               /\ Holds(toClient', id) =>
                    ~Holds(toBroker', id) /\ ~Holds(todo', id) /\ ~WritingId(id)' /\ ~Ahead(id)'
               /\ Holds(toBroker', id) => ~Holds(todo', id) /\ ~WritingId(id)' /\ ~Ahead(id)'
               /\ Holds(todo', id) => ~WritingId(id)' /\ ~Ahead(id)'
               /\ WritingId(id)' => ~Ahead(id)'
    BY <1>1, <1>3 DEF IInv, OneInFlight
  <2> QED
    BY <1>2, <2>1 DEF OneInFlight
<1>7. OneOfQosZero'
  <2>1. ASSUME NEW m \in Messages, Qos[m] = 0
        PROVE  PubOnce(toClient', 0, m) /\ (PubIn(toClient', 0, m) => ~Writing(0, m)')
    <3>1. PubOnce(toClient, 0, m) /\ (PubIn(toClient, 0, m) => ~Writing(0, m))
      BY <2>1 DEF IInv, OneOfQosZero
    <3>2. CASE p.type = "PUBLISH" /\ p.msg = m
      BY <1>1, <2>1, <3>1, <3>2
    <3>3. CASE p.type = "PUBLISH" /\ p.msg # m
      BY <1>1, <2>1, <3>1, <3>3
    <3>4. CASE p.type # "PUBLISH"
      <4>1. p.id # 0
        BY <3>4, PacketKinds DEF PacketIds
      <4> QED
        BY <1>1, <2>1, <3>1, <3>4, <4>1
    <3> QED
      BY <3>2, <3>3, <3>4
  <2> QED
    BY <2>1 DEF OneOfQosZero
<1>8. NoneIsStuck'
  <2>1. ASSUME conn = "up", NEW id \in Alone, Unfinished(id)
        PROVE  \/ Holds(toClient', id) \/ Holds(toBroker', id) \/ Holds(todo', id)
               \/ WritingId(id)' \/ Ahead(id)'
    BY <1>1, <1>3, <2>1 DEF IInv, NoneIsStuck, UnderWay
  <2> QED
    BY <1>2, <1>3, <2>1 DEF NoneIsStuck, UnderWay
<1> QED
  BY <1>5, <1>6, <1>7, <1>8, KeptExchanges DEF IInv

\* An identifier that is not written twice is written by one publisher, of one object.
LEMMA WritingOnce ==
  ASSUME IInv, NEW p \in writing, NEW q \in writing, p.id = q.id, p.id \in Alone
  PROVE  p = q
<1>1. p \in PublishPacket /\ q \in PublishPacket
  BY Types DEF IInv
<1>2. p.msg \in Messages /\ q.msg \in Messages /\ p.id \in 0..MaxId /\ q.id \in 0..MaxId
  BY <1>1 DEF PublishPacket
<1>3. Outgoing(p.id, p.msg) /\ Outgoing(q.id, q.msg)
  BY DEF Outgoing, Writing
<1>4. p.id # 0 /\ p.id \notin twice
  BY DEF Alone, PacketIds
<1>5. Qos[p.msg] \in 0..2 /\ Qos[q.msg] \in 0..2
  BY <1>2, QosAssumption
<1>6. /\ Has(forAck, p.id, p.msg) \/ Has(forRec, p.id, p.msg)
      /\ Has(forAck, p.id, q.msg) \/ Has(forRec, p.id, q.msg)
  BY <1>2, <1>3, <1>4, <1>5 DEF IInv, OutgoingExpected
<1>7. p.msg = q.msg
  <2>1. forAck \in Seq(PublishObject) /\ forRec \in Seq(PublishObject)
    BY Types DEF IInv
  <2>2. Once(forAck, p.id) /\ Once(forRec, p.id) /\ (Holds(forAck, p.id) => ~Holds(forRec, p.id))
    BY DEF IInv, IdsApart, Alone
  <2> QED
    BY <1>6, <2>1, <2>2, ContainerKinds
<1> QED
  BY <1>7 DEF IInv, Connection

\* A publisher writes what it has stored.
LEMMA WriteChannelIInv ==
  ASSUME IInv, NEW p \in writing, write_channel(p)
  PROVE  IInv'
<1>1. /\ writing' = writing \ {p} /\ Write(p)
      /\ UNCHANGED <<sessionVars, conn, entry, stage, todo, toBroker, recIds, count,
                     published, twice, disturbed, overtaking, drops>>
  BY DEF write_channel, connectVars, clientVars, historyVars
<1>2. p \in PublishPacket /\ p \in ToClientPacket
  BY Types DEF IInv, ToClientPacket
<1>3. p.type = "PUBLISH" /\ p.msg \in Messages /\ p.id \in 0..MaxId
  BY <1>2 DEF PublishPacket
<1>4. KeepsExchanges
  BY <1>1, UnchangedExchanges DEF IInv
<1>5. /\ \A id, m : Writing(id, m)' => Writing(id, m)
      /\ \A id : WritingId(id)' => WritingId(id)
      /\ \A id : WritingId(id) => WritingId(id)' \/ p.id = id
      /\ Writing(p.id, p.msg) /\ WritingId(p.id)
  BY <1>1 DEF Writing, WritingId
<1>6. Outgoing(p.id, p.msg)
  BY <1>5 DEF Outgoing
<1>7. ASSUME NEW id \in Alone, p.id = id
      PROVE  ~WritingId(id)'
  BY <1>1, <1>7, WritingOnce DEF WritingId
<1>8. ASSUME NEW id \in Alone, p.id = id
      PROVE  ~Holds(toClient, id) /\ ~Holds(toBroker, id) /\ ~Holds(todo, id) /\ ~Ahead(id)
  BY <1>5, <1>8 DEF IInv, OneInFlight
<1>9. ASSUME NEW m \in Messages, Qos[m] = 0, p.msg = m
      PROVE  ~PubIn(toClient, 0, m) /\ ~Writing(0, m)'
  <2>1. p.id = 0
    BY <1>3, <1>6, <1>9 DEF IInv, OutgoingExpected
  <2>2. ~PubIn(toClient, 0, m)
    BY <1>5, <1>9, <2>1 DEF IInv, OneOfQosZero
  <2>3. ~Writing(0, m)'
    BY <1>1, <1>9 DEF Writing, IInv, Connection
  <2> QED
    BY <2>2, <2>3
<1>10. TypeOK'
  <2>1. toClient' \in Seq(ToClientPacket)
    BY <1>1, <1>2, Types, AppendPlaces DEF Write, IInv
  <2> QED
    BY <1>1, <2>1 DEF IInv, TypeOK, sessionVars, ToClientPacket
<1>11. Connection'
  <2>1. conn = "up"
    BY DEF IInv, Connection
  <2> QED
    BY <1>1, <2>1 DEF IInv, Connection
<1>12. \A id \in Alone : Once(todo', id)
  BY <1>1 DEF IInv, OneInFlight
<1>13. p.type # "PUBREL"
  BY <1>3
<1> QED
  BY <1>1, <1>2, <1>4, <1>5, <1>6, <1>7, <1>8, <1>9, <1>10, <1>11, <1>12, <1>13, WriteIInv

\* handle_connect writes what it has copied.
LEMMA RetryIInv ==
  ASSUME IInv, retry
  PROVE  IInv'
<1> PICK p : p = Head(todo)
  OBVIOUS
<1>1. /\ todo # <<>> /\ todo' = Tail(todo) /\ Write(p)
      /\ forAck' = IF stage = "acks" THEN Mark(forAck, p.id) ELSE forAck
      /\ forRec' = IF stage = "recs" THEN Mark(forRec, p.id) ELSE forRec
      /\ UNCHANGED <<nextId, forComp, conn, entry, stage, writing, toBroker, recIds, count,
                     published, twice, disturbed, overtaking, drops>>
  BY DEF retry, clientVars, historyVars
<1>2. todo \in Seq(ToClientPacket) /\ forAck \in Seq(PublishObject) /\ forRec \in Seq(PublishObject)
  BY Types DEF IInv
<1>3. /\ todo' \in Seq(ToClientPacket) /\ p \in ToClientPacket
      /\ \A id : Holds(todo, id) <=> Holds(todo', id) \/ p.id = id
      /\ \A id, type : TypeIn(todo, type, id) <=>
           TypeIn(todo', type, id) \/ (p.type = type /\ p.id = id)
      /\ \A id, m : PubIn(todo, id, m) <=>
           PubIn(todo', id, m) \/ (p.type = "PUBLISH" /\ p.id = id /\ p.msg = m)
      /\ \A id : Once(todo, id) => Once(todo', id) /\ (p.id = id => ~Holds(todo', id))
  <2>1. todo' \in Seq(ToClientPacket) /\ p \in ToClientPacket /\ Taken(todo, p, todo')
    BY <1>1, <1>2, TailPlaces
  <2> QED
    BY <2>1 DEF Taken
<1>4. KeepsExchanges
  <2>1. Same(forAck, forAck') /\ Same(forRec, forRec')
    BY <1>1, <1>2, MarkPlaces, SameItself DEF Same
  <2> QED
    BY <1>1, <2>1 DEF KeepsExchanges
<1>5. /\ \A id : WritingId(id)' <=> WritingId(id)
      /\ \A id, m : Writing(id, m)' <=> Writing(id, m)
      /\ p.type = "PUBLISH" => PubIn(todo, p.id, p.msg) /\ Outgoing(p.id, p.msg)
      /\ p.type = "PUBREL" => OutgoingPubrel(p.id)
  BY <1>1, <1>3 DEF WritingId, Writing, Outgoing, OutgoingPubrel
<1>6. \A id \in Alone :
        /\ Once(todo', id)
        /\ Holds(todo', id) => Holds(todo, id) /\ p.id # id
        /\ Holds(todo, id) => Holds(todo', id) \/ p.id = id
        /\ WritingId(id)' => WritingId(id) /\ p.id # id
        /\ WritingId(id) => WritingId(id)' \/ p.id = id
        /\ p.id = id => /\ ~Holds(toClient, id) /\ ~Holds(toBroker, id)
                        /\ ~Ahead(id)
  BY <1>3, <1>5 DEF IInv, OneInFlight
<1>7. ASSUME p.type = "PUBLISH"
      PROVE  Qos[p.msg] # 0
  BY <1>3, <1>5, <1>7, PacketKinds DEF IInv, Connection
<1>8. TypeOK'
  <2>1. toClient' \in Seq(ToClientPacket)
    BY <1>1, <1>3, Types, AppendPlaces DEF Write, IInv
  <2>2. forAck' \in Seq(PublishObject) /\ forRec' \in Seq(PublishObject)
    BY <1>4 DEF KeepsExchanges, Same
  <2> QED
    BY <1>1, <1>3, <2>1, <2>2 DEF IInv, TypeOK, ToClientPacket
<1>9. Connection'
  <2>1. conn = "up" /\ stage \notin {"none", "subscribing"}
    BY <1>1 DEF IInv, Connection
  <2> QED
    BY <1>1, <1>3, <2>1 DEF IInv, Connection
<1> QED
  BY <1>1, <1>3, <1>4, <1>5, <1>6, <1>7, <1>8, <1>9, WriteIInv

\* A packet of the subscriber is handled when handle_connect has done its work, and for
\* an identifier that is not written twice it is the only one of its exchange.
LEMMA ReceiveFacts ==
  ASSUME IInv, NEW type, Receive(type), NEW h, h = Head(toBroker)
  PROVE  /\ conn = "up" /\ stage = "none" /\ todo = <<>>
         /\ h.type = type /\ h.id \in PacketIds /\ TypeIn(toBroker, type, h.id)
         /\ toBroker' \in Seq(ToBrokerPacket)
         /\ \A id : Holds(toBroker, id) <=> Holds(toBroker', id) \/ h.id = id
         /\ \A id, ty : TypeIn(toBroker', ty, id) => TypeIn(toBroker, ty, id)
         /\ \A id : Once(toBroker, id) => Once(toBroker', id)
         /\ \A id : ~Ahead(id) /\ ~Holds(todo, id)
         /\ h.id \in Alone => /\ ~Holds(toClient, h.id) /\ ~WritingId(h.id)
                              /\ ~Holds(toBroker', h.id)
                              /\ ~OutgoingPubrel(h.id)
                              /\ \A m \in Messages : ~Outgoing(h.id, m)
<1>1. /\ conn = "up" /\ stage = "none" /\ toBroker # <<>> /\ h.type = type
      /\ toBroker' = Tail(toBroker)
  BY DEF Receive
<1>2. toBroker \in Seq(ToBrokerPacket) /\ toClient \in Seq(ToClientPacket)
      /\ todo \in Seq(ToClientPacket)
  BY Types DEF IInv
<1>3. toBroker' \in Seq(ToBrokerPacket) /\ h \in ToBrokerPacket /\ Taken(toBroker, h, toBroker')
  BY <1>1, <1>2, TailPlaces
<1>4. h.id \in PacketIds
  BY <1>3 DEF ToBrokerPacket, Acknowledge
<1>5. /\ \A id : Holds(toBroker, id) <=> Holds(toBroker', id) \/ h.id = id
      /\ \A id, ty : TypeIn(toBroker, ty, id) <=>
           TypeIn(toBroker', ty, id) \/ (h.type = ty /\ h.id = id)
      /\ \A id : Once(toBroker, id) => Once(toBroker', id) /\ (h.id = id => ~Holds(toBroker', id))
  BY <1>3 DEF Taken
<1>6. todo = <<>>
  BY <1>1 DEF IInv, Connection
<1>7. \A id : ~Ahead(id) /\ ~Holds(todo, id)
  BY <1>1, <1>6, EmptyPlaces DEF Ahead
<1>8. ASSUME h.id \in Alone
      PROVE  /\ ~Holds(toClient, h.id) /\ ~WritingId(h.id)
             /\ ~Holds(toBroker', h.id)
             /\ ~OutgoingPubrel(h.id)
             /\ \A m \in Messages : ~Outgoing(h.id, m)
  <2>1. ~Holds(toClient, h.id) /\ ~WritingId(h.id) /\ ~Holds(toBroker', h.id)
    BY <1>5, <1>8 DEF IInv, OneInFlight
  <2>2. ~OutgoingPubrel(h.id) /\ \A m \in Messages : ~Outgoing(h.id, m)
    BY <1>2, <1>7, <2>1, StreamKinds DEF OutgoingPubrel, Outgoing, WritingId, Writing
  <2> QED
    BY <2>1, <2>2
<1> QED
  BY <1>1, <1>3, <1>4, <1>5, <1>6, <1>7, <1>8

LEMMA PubackIInv ==
  ASSUME IInv, handle_puback
  PROVE  IInv'
<1> PICK h, id : h = Head(toBroker) /\ id = h.id
  OBVIOUS
<1>1. /\ Receive("PUBACK") /\ forAck' \in ReleasePublish(forAck, id)
      /\ UNCHANGED <<nextId, forRec, forComp, conn, entry, stage, todo, writing, toClient,
                     recIds, count, published, twice, disturbed, overtaking, drops>>
  BY DEF handle_puback, connectVars, clientVars, historyVars
<1>2. /\ conn = "up" /\ stage = "none" /\ todo = <<>>
      /\ id \in PacketIds /\ TypeIn(toBroker, "PUBACK", id)
      /\ toBroker' \in Seq(ToBrokerPacket)
      /\ \A i : Holds(toBroker, i) <=> Holds(toBroker', i) \/ id = i
      /\ \A i, ty : TypeIn(toBroker', ty, i) => TypeIn(toBroker, ty, i)
      /\ \A i : Once(toBroker, i) => Once(toBroker', i)
      /\ \A i : ~Ahead(i) /\ ~Holds(todo, i)
      /\ id \in Alone => /\ ~Holds(toBroker', id)
                         /\ \A m \in Messages : ~Outgoing(id, m)
  BY <1>1, ReceiveFacts
<1>3. forAck \in Seq(PublishObject) /\ forRec \in Seq(PublishObject)
  BY Types DEF IInv
<1>4. /\ forAck' \in Seq(PublishObject)
      /\ \A i, m : Has(forAck', i, m) <=> Has(forAck, i, m) /\ i # id
      /\ \A i : Holds(forAck', i) <=> Holds(forAck, i) /\ i # id
      /\ \A i \in PacketIds : Once(forAck', i)
  BY <1>1, <1>3, ReleasePublishPlaces DEF IInv, IdsApart
<1>5. /\ \A i : (InComp(i)' <=> InComp(i)) /\ (OnceInComp(i)' <=> OnceInComp(i))
      /\ \A i : WritingId(i)' <=> WritingId(i)
      /\ \A i, m : Writing(i, m)' <=> Writing(i, m)
      /\ \A i, m : Outgoing(i, m)' <=> Outgoing(i, m)
      /\ \A i : OutgoingPubrel(i)' <=> OutgoingPubrel(i)
      /\ \A i : ~Ahead(i)'
      /\ Alone' = Alone
  BY <1>1, <1>2 DEF InComp, OnceInComp, WritingId, Writing, Outgoing, OutgoingPubrel, Ahead, Alone
<1>6. TypeOK'
  BY <1>1, <1>2, <1>4 DEF IInv, TypeOK, ToBrokerPacket
<1>7. Connection'
  BY <1>1, <1>2 DEF IInv, Connection
<1>8. IdsApart'
  BY <1>1, <1>4, <1>5 DEF IInv, IdsApart
<1>9. StoredOnce'
  BY <1>1, <1>4 DEF IInv, StoredOnce
<1>10. ReceivedOnce'
  BY <1>1, <1>5 DEF IInv, ReceivedOnce, ExactlyOnce
<1>11. OutgoingExpected'
  <2>1. ASSUME NEW i \in 0..MaxId, NEW m \in Messages, Outgoing(i, m), i \notin twice, Qos[m] = 1
        PROVE  Has(forAck', i, m)
    <3>1. Has(forAck, i, m) /\ i \in PacketIds
      BY <1>3, <2>1, ContainerKinds DEF IInv, OutgoingExpected
    <3>2. i # id
      BY <1>2, <2>1, <3>1 DEF Alone
    <3> QED
      BY <1>4, <3>1, <3>2
  <2> QED
    BY <1>1, <1>5, <2>1 DEF IInv, OutgoingExpected
<1>12. AnswersExpected'
  <2>1. ASSUME NEW i \in Alone, TypeIn(toBroker', "PUBACK", i)
        PROVE  \E m \in Messages : Has(forAck', i, m) /\ count[m] > 0
    <3>1. i # id
      BY <1>2, <2>1, AnswerKinds
    <3>2. PICK m \in Messages : Has(forAck, i, m) /\ count[m] > 0
      BY <1>2, <2>1 DEF IInv, AnswersExpected
    <3> QED
      BY <1>4, <3>1, <3>2
  <2> QED
    BY <1>1, <1>2, <1>5, <2>1 DEF IInv, AnswersExpected
<1>13. OneInFlight'
  BY <1>1, <1>2, <1>5 DEF IInv, OneInFlight
<1>14. OneOfQosZero'
  BY <1>1, <1>5 DEF IInv, OneOfQosZero
<1>15. NoneIsStuck'
  <2>1. ASSUME NEW i \in Alone, Unfinished(i)'
        PROVE  UnderWay(i)'
    <3>1. Unfinished(i)
      BY <1>1, <1>4, <1>5, <2>1 DEF Unfinished
    <3>2. i # id
      <4>1. ASSUME i = id
            PROVE  FALSE
        <5>1. Holds(forAck, id)
          BY <1>2, <1>3, <2>1, <4>1, ContainerKinds DEF IInv, AnswersExpected
        <5>2. ~Holds(forRec, id) /\ ~InComp(id)
          BY <2>1, <4>1, <5>1 DEF IInv, IdsApart, Alone
        <5> QED
          BY <1>1, <1>4, <1>5, <2>1, <4>1, <5>2 DEF Unfinished
      <4> QED
        BY <4>1
    <3>3. UnderWay(i)
      BY <1>2, <2>1, <3>1 DEF IInv, NoneIsStuck
    <3> QED
      BY <1>1, <1>2, <1>5, <3>2, <3>3 DEF UnderWay
  <2> QED
    BY <1>5, <2>1 DEF NoneIsStuck
<1> QED
  BY <1>6, <1>7, <1>8, <1>9, <1>10, <1>11, <1>12, <1>13, <1>14, <1>15 DEF IInv

LEMMA PubrecIInv ==
  ASSUME IInv, handle_pubrec
  PROVE  IInv'
<1> PICK h, id : h = Head(toBroker) /\ id = h.id
  OBVIOUS
<1>1. /\ Receive("PUBREC") /\ forRec' \in ReleasePublish(forRec, id)
      /\ forComp' = Append(forComp, id)
      /\ toClient' = Append(toClient, Pubrel(id))
      /\ UNCHANGED <<nextId, forAck, conn, entry, stage, todo, writing,
                     recIds, count, published, twice, disturbed, overtaking, drops>>
  BY DEF handle_pubrec, Write, connectVars, clientVars, historyVars
<1>2. /\ conn = "up" /\ stage = "none" /\ todo = <<>>
      /\ id \in PacketIds /\ TypeIn(toBroker, "PUBREC", id)
      /\ toBroker' \in Seq(ToBrokerPacket)
      /\ \A i : Holds(toBroker, i) <=> Holds(toBroker', i) \/ id = i
      /\ \A i, ty : TypeIn(toBroker', ty, i) => TypeIn(toBroker, ty, i)
      /\ \A i : Once(toBroker, i) => Once(toBroker', i)
      /\ \A i : ~Ahead(i) /\ ~Holds(todo, i)
      /\ id \in Alone => /\ ~Holds(toBroker', id) /\ ~Holds(toClient, id) /\ ~WritingId(id)
                         /\ \A m \in Messages : ~Outgoing(id, m)
  BY <1>1, ReceiveFacts
<1>3. forAck \in Seq(PublishObject) /\ forRec \in Seq(PublishObject) /\ forComp \in Seq(PacketIds)
      /\ toClient \in Seq(ToClientPacket)
  BY Types DEF IInv
<1>4. /\ forRec' \in Seq(PublishObject)
      /\ \A i, m : Has(forRec', i, m) <=> Has(forRec, i, m) /\ i # id
      /\ \A i : Holds(forRec', i) <=> Holds(forRec, i) /\ i # id
      /\ \A i \in PacketIds : Once(forRec', i)
  BY <1>1, <1>3, ReleasePublishPlaces DEF IInv, IdsApart
<1>5. /\ forComp' \in Seq(PacketIds)
      /\ \A i : InComp(i)' <=> InComp(i) \/ i = id
      /\ \A i : OnceInComp(i) /\ ~(InComp(i) /\ i = id) => OnceInComp(i)'
  BY <1>1, <1>2, <1>3, AddIdPlaces
<1>6. /\ toClient' \in Seq(ToClientPacket)
      /\ \A i : Holds(toClient', i) <=> Holds(toClient, i) \/ id = i
      /\ \A i : TypeIn(toClient', "PUBREL", i) <=> TypeIn(toClient, "PUBREL", i) \/ id = i
      /\ \A i, m : PubIn(toClient', i, m) <=> PubIn(toClient, i, m)
      /\ \A i : Once(toClient, i) /\ ~(Holds(toClient, i) /\ id = i) => Once(toClient', i)
      /\ \A m : PubOnce(toClient, 0, m) => PubOnce(toClient', 0, m)
  <2> PICK x : x = Pubrel(id)
    OBVIOUS
  <2>1. x \in ToClientPacket /\ x.id = id /\ x.type = "PUBREL" /\ x.id # 0
    BY <1>2 DEF Pubrel, ToClientPacket, Acknowledge, PacketIds
  <2>2. toClient' \in Seq(ToClientPacket) /\ Appended(toClient, x, toClient')
    BY <1>1, <1>3, <2>1, AppendPlaces
  <2> QED
    BY <2>1, <2>2 DEF Appended
<1>7. /\ \A i : WritingId(i)' <=> WritingId(i)
      /\ \A i, m : Writing(i, m)' <=> Writing(i, m)
      /\ \A i, m : Outgoing(i, m)' <=> Outgoing(i, m)
      /\ \A i : OutgoingPubrel(i)' => OutgoingPubrel(i) \/ id = i
      /\ \A i : ~Ahead(i)'
      /\ Alone' = Alone
  BY <1>1, <1>2, <1>6 DEF WritingId, Writing, Outgoing, OutgoingPubrel, Ahead, Alone
<1>8. id \in Alone => Holds(forRec, id) /\ id \in recIds /\ ~InComp(id) /\ ~Holds(forAck, id)
  BY <1>2 DEF IInv, AnswersExpected, IdsApart, Alone
<1>9. TypeOK'
  BY <1>1, <1>2, <1>4, <1>5, <1>6 DEF IInv, TypeOK, ToBrokerPacket, ToClientPacket
<1>10. Connection'
  BY <1>1, <1>2 DEF IInv, Connection
<1>11. IdsApart'
  <2>1. \A i \in PacketIds : /\ Once(forAck', i) /\ Once(forRec', i)
                             /\ Holds(forAck', i) => ~Holds(forRec', i)
    BY <1>1, <1>4 DEF IInv, IdsApart
  <2>2. ASSUME NEW i \in Alone
        PROVE  OnceInComp(i)' /\ (InComp(i)' => ~Holds(forAck', i) /\ ~Holds(forRec', i))
    BY <1>1, <1>4, <1>5, <1>8 DEF IInv, IdsApart
  <2> QED
    BY <1>7, <2>1, <2>2 DEF IdsApart
<1>12. StoredOnce'
  BY <1>1, <1>4 DEF IInv, StoredOnce
<1>13. ReceivedOnce'
  BY <1>1, <1>4, <1>5, <1>7 DEF IInv, ReceivedOnce, ExactlyOnce
<1>14. OutgoingExpected'
  <2>1. ASSUME NEW i \in 0..MaxId, NEW m \in Messages, Outgoing(i, m), i \notin twice, Qos[m] = 2
        PROVE  Has(forRec', i, m)
    <3>1. Has(forRec, i, m) /\ i \in PacketIds
      BY <1>3, <2>1, ContainerKinds DEF IInv, OutgoingExpected
    <3>2. i # id
      BY <1>2, <2>1, <3>1 DEF Alone
    <3> QED
      BY <1>4, <3>1, <3>2
  <2>2. \A i \in Alone : OutgoingPubrel(i)' => InComp(i)'
    BY <1>5, <1>7 DEF IInv, OutgoingExpected
  <2> QED
    BY <1>1, <1>7, <2>1, <2>2 DEF IInv, OutgoingExpected
<1>15. AnswersExpected'
  <2>1. ASSUME NEW i \in Alone, Holds(toBroker', i)
        PROVE  i # id
    BY <1>2, <2>1
  <2>2. \A i, ty : TypeIn(toBroker', ty, i) => Holds(toBroker', i)
    BY <1>2, AnswerKinds
  <2> QED
    BY <1>1, <1>2, <1>4, <1>5, <1>7, <2>1, <2>2 DEF IInv, AnswersExpected
<1>16. OneInFlight'
  <2>1. ASSUME NEW i \in Alone
        PROVE  /\ Once(toClient', i) /\ Once(toBroker', i) /\ Once(todo', i)
               /\ Holds(toClient', i) => ~Holds(toBroker', i) /\ ~WritingId(i)'
               /\ Holds(toBroker', i) => ~WritingId(i)'
    BY <1>1, <1>2, <1>6, <1>7 DEF IInv, OneInFlight
  <2>2. \A i : ~Holds(todo', i) /\ ~Ahead(i)'
    BY <1>1, <1>2, <1>7
  <2> QED
    BY <1>7, <2>1, <2>2 DEF OneInFlight
<1>17. OneOfQosZero'
  BY <1>6, <1>7 DEF IInv, OneOfQosZero
<1>18. NoneIsStuck'
  <2>1. ASSUME NEW i \in Alone, Unfinished(i)'
        PROVE  UnderWay(i)'
    <3>1. CASE i = id
      BY <1>6, <3>1 DEF UnderWay
    <3>2. CASE i # id
      <4>1. Unfinished(i)
        BY <1>1, <1>4, <1>5, <2>1, <3>2 DEF Unfinished
      <4>2. UnderWay(i)
        BY <1>2, <2>1, <4>1 DEF IInv, NoneIsStuck
      <4> QED
        BY <1>1, <1>2, <1>6, <1>7, <3>2, <4>2 DEF UnderWay
    <3> QED
      BY <3>1, <3>2
  <2> QED
    BY <1>7, <2>1 DEF NoneIsStuck
<1> QED
  BY <1>9, <1>10, <1>11, <1>12, <1>13, <1>14, <1>15, <1>16, <1>17, <1>18 DEF IInv

LEMMA PubcompIInv ==
  ASSUME IInv, handle_pubcomp
  PROVE  IInv'
<1> PICK h, id : h = Head(toBroker) /\ id = h.id
  OBVIOUS
<1>1. /\ Receive("PUBCOMP") /\ forComp' \in ReleaseId(forComp, id)
      /\ UNCHANGED <<nextId, forAck, forRec, conn, entry, stage, todo, writing, toClient,
                     recIds, count, published, twice, disturbed, overtaking, drops>>
  BY DEF handle_pubcomp, connectVars, clientVars, historyVars
<1>2. /\ conn = "up" /\ stage = "none" /\ todo = <<>>
      /\ id \in PacketIds /\ TypeIn(toBroker, "PUBCOMP", id)
      /\ toBroker' \in Seq(ToBrokerPacket)
      /\ \A i : Holds(toBroker, i) <=> Holds(toBroker', i) \/ id = i
      /\ \A i, ty : TypeIn(toBroker', ty, i) => TypeIn(toBroker, ty, i)
      /\ \A i : Once(toBroker, i) => Once(toBroker', i)
      /\ \A i : ~Ahead(i) /\ ~Holds(todo, i)
      /\ id \in Alone => /\ ~Holds(toBroker', id) /\ ~OutgoingPubrel(id)
                         /\ \A m \in Messages : ~Outgoing(id, m)
  BY <1>1, ReceiveFacts
<1>3. forComp \in Seq(PacketIds)
  BY Types DEF IInv
<1>4. /\ forComp' \in Seq(PacketIds)
      /\ \A i : i # id => (InComp(i)' <=> InComp(i))
      /\ \A i : OnceInComp(i) => OnceInComp(i)'
      /\ OnceInComp(id) => ~InComp(id)'
  BY <1>1, <1>3, ReleaseIdPlaces
<1>5. /\ \A i : WritingId(i)' <=> WritingId(i)
      /\ \A i, m : Writing(i, m)' <=> Writing(i, m)
      /\ \A i, m : Outgoing(i, m)' <=> Outgoing(i, m)
      /\ \A i : OutgoingPubrel(i)' <=> OutgoingPubrel(i)
      /\ \A i : ~Ahead(i)'
      /\ Alone' = Alone
  BY <1>1, <1>2 DEF WritingId, Writing, Outgoing, OutgoingPubrel, Ahead, Alone
<1>6. id \in Alone => /\ InComp(id) /\ ~InComp(id)' /\ id \notin recIds
                      /\ ~Holds(forAck, id) /\ ~Holds(forRec, id)
  BY <1>2, <1>4 DEF IInv, AnswersExpected, IdsApart, Alone
<1>7. \A i \in Alone : InComp(i)' => InComp(i) /\ i # id
  BY <1>4, <1>6
<1>8. TypeOK'
  BY <1>1, <1>2, <1>4 DEF IInv, TypeOK, ToBrokerPacket
<1>9. Connection'
  BY <1>1, <1>2 DEF IInv, Connection
<1>10. IdsApart'
  BY <1>1, <1>4, <1>5, <1>7 DEF IInv, IdsApart
<1>11. StoredOnce'
  BY <1>1 DEF IInv, StoredOnce
<1>12. ReceivedOnce'
  BY <1>1, <1>4, <1>5, <1>6 DEF IInv, ReceivedOnce, ExactlyOnce
<1>13. OutgoingExpected'
  <2>1. ASSUME NEW i \in Alone, OutgoingPubrel(i)'
        PROVE  InComp(i)'
    BY <1>2, <1>4, <1>5, <2>1 DEF IInv, OutgoingExpected
  <2> QED
    BY <1>1, <1>5, <2>1 DEF IInv, OutgoingExpected
<1>14. AnswersExpected'
  <2>1. ASSUME NEW i \in Alone, Holds(toBroker', i)
        PROVE  i # id
    BY <1>2, <2>1
  <2>2. \A i, ty : TypeIn(toBroker', ty, i) => Holds(toBroker', i)
    BY <1>2, AnswerKinds
  <2> QED
    BY <1>1, <1>2, <1>4, <1>5, <2>1, <2>2 DEF IInv, AnswersExpected
<1>15. OneInFlight'
  BY <1>1, <1>2, <1>5 DEF IInv, OneInFlight
<1>16. OneOfQosZero'
  BY <1>1, <1>5 DEF IInv, OneOfQosZero
<1>17. NoneIsStuck'
  <2>1. ASSUME NEW i \in Alone, Unfinished(i)'
        PROVE  UnderWay(i)'
    <3>1. Unfinished(i) /\ i # id
      BY <1>1, <1>6, <1>7, <2>1 DEF Unfinished
    <3>2. UnderWay(i)
      BY <1>2, <2>1, <3>1 DEF IInv, NoneIsStuck
    <3> QED
      BY <1>1, <1>2, <1>5, <3>1, <3>2 DEF UnderWay
  <2> QED
    BY <1>5, <2>1 DEF NoneIsStuck
<1> QED
  BY <1>8, <1>9, <1>10, <1>11, <1>12, <1>13, <1>14, <1>15, <1>16, <1>17 DEF IInv

\* The subscriber reads one packet and answers it, if it answers, with the same
\* identifier: the exchange moves from one stream to the other.
Read(h, reply) ==
  /\ conn = "up" /\ toClient # <<>> /\ h = Head(toClient)
  /\ ClientReads(reply)
  /\ recIds' \subseteq PacketIds /\ count' \in [Messages -> Nat]
  /\ \/ reply = <<>> /\ h.id = 0
     \/ \E a \in ToBrokerPacket : reply = <<a>> /\ a.id = h.id /\ h.id # 0

LEMMA ReadFacts ==
  ASSUME IInv, NEW h, NEW reply, Read(h, reply)
  PROVE  /\ h \in ToClientPacket /\ toClient' \in Seq(ToClientPacket)
         /\ toBroker' \in Seq(ToBrokerPacket)
         /\ Taken(toClient, h, toClient')
         /\ \A a \in ToBrokerPacket : reply = <<a>> => Appended(toBroker, a, toBroker')
         /\ reply = <<>> => toBroker' = toBroker
         /\ UNCHANGED <<nextId, forAck, forRec, forComp, conn, entry, stage, todo, writing,
                        published, twice, disturbed, overtaking, drops>>
<1>1. /\ conn = "up" /\ toClient # <<>> /\ h = Head(toClient) /\ toClient' = Tail(toClient)
      /\ toBroker' = toBroker \o reply
      /\ \/ reply = <<>> /\ h.id = 0
         \/ \E a \in ToBrokerPacket : reply = <<a>> /\ a.id = h.id /\ h.id # 0
      /\ UNCHANGED <<nextId, forAck, forRec, forComp, conn, entry, stage, todo, writing,
                     published, twice, disturbed, overtaking, drops>>
  BY DEF Read, ClientReads, sessionVars, connectVars, historyVars
<1>2. toBroker \in Seq(ToBrokerPacket) /\ toClient \in Seq(ToClientPacket)
  BY Types DEF IInv
<1>3. toClient' \in Seq(ToClientPacket) /\ h \in ToClientPacket /\ Taken(toClient, h, toClient')
  BY <1>1, <1>2, TailPlaces
<1>4. ASSUME NEW a \in ToBrokerPacket, reply = <<a>>
      PROVE  toBroker' \in Seq(ToBrokerPacket) /\ Appended(toBroker, a, toBroker')
  <2>1. toBroker' = Append(toBroker, a)
    BY <1>1, <1>2, <1>4, ConcatOne
  <2> QED
    BY <1>2, <2>1, AppendPlaces
<1>5. reply = <<>> => toBroker' = toBroker
  BY <1>1, <1>2
<1> QED
  BY <1>1, <1>2, <1>3, <1>4, <1>5

\* What the steps need to know of the two streams.
LEMMA ReadPlaces ==
  ASSUME IInv, NEW h, NEW reply, Read(h, reply)
  PROVE  /\ \A id, m : PubIn(toClient', id, m) => PubIn(toClient, id, m)
         /\ \A id, type : TypeIn(toClient', type, id) => TypeIn(toClient, type, id)
         /\ \A id : Once(toClient, id) => Once(toClient', id)
         /\ \A id, m : PubOnce(toClient, id, m) => PubOnce(toClient', id, m)
         /\ \A id \in PacketIds :
              /\ Holds(toClient', id) => Holds(toClient, id)
              /\ Holds(toClient, id) => Holds(toClient', id) \/ id = h.id
              /\ Holds(toBroker', id) <=> Holds(toBroker, id) \/ id = h.id
              /\ Once(toBroker, id) /\ (id = h.id => ~Holds(toBroker, id)) => Once(toBroker', id)
              /\ id = h.id /\ Once(toClient, id) => Holds(toClient, id) /\ ~Holds(toClient', id)
         /\ h.id = 0 => reply = <<>> /\ toBroker' = toBroker
<1>1. /\ Taken(toClient, h, toClient')
      /\ \A a \in ToBrokerPacket : reply = <<a>> => Appended(toBroker, a, toBroker')
      /\ reply = <<>> => toBroker' = toBroker
  BY ReadFacts
<1>2. \/ reply = <<>> /\ h.id = 0
      \/ \E a \in ToBrokerPacket : reply = <<a>> /\ a.id = h.id /\ h.id # 0
  BY DEF Read
<1>3. /\ \A id, m : PubIn(toClient', id, m) => PubIn(toClient, id, m)
      /\ \A id, type : TypeIn(toClient', type, id) => TypeIn(toClient, type, id)
      /\ \A id : Once(toClient, id) => Once(toClient', id)
      /\ \A id, m : PubOnce(toClient, id, m) => PubOnce(toClient', id, m)
      /\ \A id : /\ Holds(toClient, id) <=> Holds(toClient', id) \/ h.id = id
                 /\ Once(toClient, id) => (h.id = id => ~Holds(toClient', id))
  BY <1>1 DEF Taken
<1>4. ASSUME NEW id \in PacketIds
      PROVE  /\ Holds(toBroker', id) <=> Holds(toBroker, id) \/ id = h.id
             /\ Once(toBroker, id) /\ (id = h.id => ~Holds(toBroker, id)) => Once(toBroker', id)
  <2>1. CASE reply = <<>> /\ h.id = 0
    BY <1>1, <2>1 DEF PacketIds
  <2>2. CASE \E a \in ToBrokerPacket : reply = <<a>> /\ a.id = h.id
    <3>1. PICK a \in ToBrokerPacket : reply = <<a>> /\ a.id = h.id
      BY <2>2
    <3>2. Appended(toBroker, a, toBroker')
      BY <1>1, <3>1
    <3> QED
      BY <3>1, <3>2 DEF Appended
  <2> QED
    BY <1>2, <2>1, <2>2
<1> QED
  BY <1>1, <1>2, <1>3, <1>4

LEMMA ReadIInv ==
  ASSUME IInv, NEW h, NEW reply, Read(h, reply),
         ReceivedOnce', OutgoingExpected', AnswersExpected'
  PROVE  IInv'
<1>1. /\ \A id, m : PubIn(toClient', id, m) => PubIn(toClient, id, m)
      /\ \A id : Once(toClient, id) => Once(toClient', id)
      /\ \A id, m : PubOnce(toClient, id, m) => PubOnce(toClient', id, m)
      /\ \A id \in PacketIds :
           /\ Holds(toClient', id) => Holds(toClient, id)
           /\ Holds(toClient, id) => Holds(toClient', id) \/ id = h.id
           /\ Holds(toBroker', id) <=> Holds(toBroker, id) \/ id = h.id
           /\ Once(toBroker, id) /\ (id = h.id => ~Holds(toBroker, id)) => Once(toBroker', id)
           /\ id = h.id /\ Once(toClient, id) => Holds(toClient, id) /\ ~Holds(toClient', id)
  BY ReadPlaces
<1>2. /\ toClient' \in Seq(ToClientPacket) /\ toBroker' \in Seq(ToBrokerPacket)
      /\ UNCHANGED <<nextId, forAck, forRec, forComp, conn, entry, stage, todo, writing,
                     published, twice, disturbed, overtaking, drops>>
  BY ReadFacts
<1>3. conn = "up" /\ recIds' \subseteq PacketIds /\ count' \in [Messages -> Nat]
  BY DEF Read
<1>4. /\ \A i : (InComp(i)' <=> InComp(i)) /\ (OnceInComp(i)' <=> OnceInComp(i))
      /\ \A i : WritingId(i)' <=> WritingId(i)
      /\ \A i, m : Writing(i, m)' <=> Writing(i, m)
      /\ \A i : Ahead(i)' <=> Ahead(i)
      /\ \A i : Unfinished(i)' <=> Unfinished(i)
      /\ Alone' = Alone
  BY <1>2 DEF InComp, OnceInComp, WritingId, Writing, Ahead, Unfinished, Alone
<1>5. TypeOK'
  BY <1>2, <1>3 DEF IInv, TypeOK, ToBrokerPacket, ToClientPacket
<1>6. Connection'
  BY <1>2, <1>3 DEF IInv, Connection
<1>7. IdsApart'
  BY <1>2, <1>4 DEF IInv, IdsApart
<1>8. StoredOnce'
  BY <1>2 DEF IInv, StoredOnce
<1>9. OneInFlight'
  <2>1. ASSUME NEW i \in Alone
        PROVE  /\ Once(toClient', i) /\ Once(toBroker', i) /\ Once(todo', i)
               /\ Holds(toClient', i) =>
                    ~Holds(toBroker', i) /\ ~Holds(todo', i) /\ ~WritingId(i)' /\ ~Ahead(i)'
               /\ Holds(toBroker', i) => ~Holds(todo', i) /\ ~WritingId(i)' /\ ~Ahead(i)'
               /\ Holds(todo', i) => ~WritingId(i)' /\ ~Ahead(i)'
               /\ WritingId(i)' => ~Ahead(i)'
    <3>1. i \in PacketIds
      BY DEF Alone
    <3> QED
      BY <1>1, <1>2, <1>4, <3>1 DEF IInv, OneInFlight
  <2> QED
    BY <1>4, <2>1 DEF OneInFlight
<1>10. OneOfQosZero'
  BY <1>1, <1>4 DEF IInv, OneOfQosZero
<1>11. NoneIsStuck'
  <2>1. ASSUME NEW i \in Alone, Unfinished(i)
        PROVE  UnderWay(i)'
    <3>1. i \in PacketIds
      BY DEF Alone
    <3>2. UnderWay(i)
      BY <1>3, <2>1 DEF IInv, NoneIsStuck
    <3> QED
      BY <1>1, <1>2, <1>4, <3>1, <3>2 DEF UnderWay
  <2> QED
    BY <1>4, <2>1 DEF NoneIsStuck
<1> QED
  BY <1>5, <1>6, <1>7, <1>8, <1>9, <1>10, <1>11 DEF IInv

LEMMA ClientPubrelIInv ==
  ASSUME IInv, ClientGetsPubrel
  PROVE  IInv'
<1> PICK h, id, a : h = Head(toClient) /\ id = h.id /\ a = Ack("PUBCOMP", id)
  OBVIOUS
<1>1. /\ conn = "up" /\ toClient # <<>> /\ h.type = "PUBREL"
      /\ recIds' = recIds \ {id} /\ count' = count /\ ClientReads(<<a>>)
  BY DEF ClientGetsPubrel
<1>2. toClient \in Seq(ToClientPacket) /\ toBroker \in Seq(ToBrokerPacket)
  BY Types DEF IInv
<1>3. id \in PacketIds /\ id # 0
  <2>1. h \in ToClientPacket
    BY <1>1, <1>2, TailPlaces
  <2>2. h.type # "PUBLISH"
    BY <1>1
  <2> QED
    BY <2>1, <2>2, PacketKinds DEF PacketIds
<1>4. a \in ToBrokerPacket /\ a.id = id /\ a.type = "PUBCOMP"
  BY <1>3 DEF Ack, ToBrokerPacket, Acknowledge
<1>5. Read(h, <<a>>)
  BY <1>1, <1>3, <1>4 DEF Read, IInv, TypeOK
<1>6. /\ UNCHANGED <<nextId, forAck, forRec, forComp, conn, entry, stage, todo, writing,
                     published, twice, disturbed, overtaking, drops>>
      /\ Appended(toBroker, a, toBroker') /\ Taken(toClient, h, toClient')
  BY <1>4, <1>5, ReadFacts
<1>7. /\ \A i, m : PubIn(toClient', i, m) => PubIn(toClient, i, m)
      /\ \A i, ty : TypeIn(toClient', ty, i) => TypeIn(toClient, ty, i)
      /\ TypeIn(toClient, "PUBREL", id) /\ Holds(toClient, id)
  BY <1>1, <1>6 DEF Taken
<1>8. /\ \A i : InComp(i)' <=> InComp(i)
      /\ \A i, m : Outgoing(i, m)' => Outgoing(i, m)
      /\ \A i : OutgoingPubrel(i)' => OutgoingPubrel(i)
      /\ OutgoingPubrel(id)
      /\ Alone' = Alone
  BY <1>6, <1>7 DEF InComp, Writing, Outgoing, OutgoingPubrel, Alone
<1>9. id \in Alone => InComp(id) /\ ~Holds(forRec, id) /\ ~Holds(toBroker, id)
  BY <1>7, <1>8 DEF IInv, OutgoingExpected, IdsApart, OneInFlight
<1>10. ReceivedOnce'
  <2>1. \A i, m : Has(forRec, i, m) => Holds(forRec, i)
    BY ContainerKinds, Types DEF IInv
  <2>2. \A i \in Alone, m \in Messages : Has(forRec, i, m) => (i \in recIds' <=> i \in recIds)
    BY <1>1, <1>9, <2>1
  <2>3. \A i : i \in recIds' => i \in recIds
    BY <1>1
  <2> QED
    BY <1>1, <1>6, <1>8, <2>2, <2>3 DEF IInv, ReceivedOnce, ExactlyOnce
<1>11. OutgoingExpected'
  BY <1>1, <1>6, <1>8 DEF IInv, OutgoingExpected
<1>12. AnswersExpected'
  <2>1. \A i, ty : TypeIn(toBroker', ty, i) <=> TypeIn(toBroker, ty, i) \/ (ty = "PUBCOMP" /\ i = id)
    BY <1>4, <1>6 DEF Appended
  <2>2. \A i, ty : TypeIn(toBroker, ty, i) => Holds(toBroker, i)
    BY <1>2, AnswerKinds
  <2>3. ASSUME NEW i \in Alone
        PROVE  /\ TypeIn(toBroker', "PUBACK", i) => TypeIn(toBroker, "PUBACK", i)
               /\ TypeIn(toBroker', "PUBREC", i) => TypeIn(toBroker, "PUBREC", i) /\ i # id
               /\ TypeIn(toBroker', "PUBCOMP", i) => TypeIn(toBroker, "PUBCOMP", i) \/ i = id
    BY <1>9, <2>1, <2>2
  <2> QED
    BY <1>1, <1>6, <1>8, <1>9, <2>3 DEF IInv, AnswersExpected
<1> QED
  BY <1>5, <1>10, <1>11, <1>12, ReadIInv

\* The subscriber gives the message to the application, unless it holds its identifier.
LEMMA ClientPublishFacts ==
  ASSUME IInv, ClientGetsPublish, NEW h, h = Head(toClient), NEW id, id = h.id, NEW m, m = h.msg
  PROVE  /\ m \in Messages /\ Qos[m] \in 0..2 /\ id \in 0..MaxId
         /\ m \in Range(published)
         /\ PubIn(toClient, id, m) /\ Outgoing(id, m) /\ Holds(toClient, id)
         /\ Qos[m] = 0 => id = 0 /\ Read(h, <<>>) /\ count[m] = 0
         /\ Qos[m] = 1 => /\ id \in PacketIds /\ Ack("PUBACK", id) \in ToBrokerPacket
                          /\ Read(h, <<Ack("PUBACK", id)>>)
                          /\ id \in Alone => Has(forAck, id, m) /\ m \notin disturbed
                          /\ id \notin Alone => m \in disturbed
         /\ Qos[m] = 2 => /\ id \in PacketIds /\ Ack("PUBREC", id) \in ToBrokerPacket
                          /\ Read(h, <<Ack("PUBREC", id)>>)
                          /\ id \in Alone => Has(forRec, id, m) /\ m \notin disturbed
                          /\ id \notin Alone => m \in disturbed
         /\ recIds' = IF Qos[m] = 2 THEN recIds \cup {id} ELSE recIds
         /\ count' = IF Qos[m] = 2 /\ id \in recIds THEN count ELSE [count EXCEPT ![m] = @ + 1]
         /\ \A n \in Messages : /\ count[n] \in Nat /\ count'[n] \in Nat
                                /\ n # m => count'[n] = count[n]
                                /\ count[n] > 0 => count'[n] > 0
<1>1. /\ conn = "up" /\ toClient # <<>> /\ h.type = "PUBLISH"
      /\ recIds' = IF Qos[m] = 2 THEN recIds \cup {id} ELSE recIds
      /\ count' = IF Qos[m] = 2 /\ id \in recIds THEN count ELSE [count EXCEPT ![m] = @ + 1]
      /\ Qos[m] \in 0..2
      /\ Qos[m] = 0 => ClientReads(<<>>)
      /\ Qos[m] = 1 => ClientReads(<<Ack("PUBACK", id)>>)
      /\ Qos[m] = 2 => ClientReads(<<Ack("PUBREC", id)>>)
  BY DEF ClientGetsPublish, Deliver
<1>2. toClient \in Seq(ToClientPacket)
  BY Types DEF IInv
<1>3. h \in ToClientPacket /\ Taken(toClient, h, Tail(toClient))
  BY <1>1, <1>2, TailPlaces
<1>4. m \in Messages /\ id \in 0..MaxId
  BY <1>1, <1>3, PacketKinds
<1>5. PubIn(toClient, id, m) /\ Outgoing(id, m) /\ Holds(toClient, id)
  BY <1>1, <1>3 DEF Taken, Outgoing
<1>6. /\ m \in Range(published)
      /\ Qos[m] = 0 => id = 0 /\ count[m] = 0
      /\ Qos[m] > 0 => id # 0 /\ (m \in disturbed <=> id \in twice)
      /\ Qos[m] = 1 /\ id \notin twice => Has(forAck, id, m)
      /\ Qos[m] = 2 /\ id \notin twice => Has(forRec, id, m)
  BY <1>4, <1>5 DEF IInv, OutgoingExpected
<1>7. count \in [Messages -> Nat] /\ recIds \subseteq PacketIds
  BY DEF IInv, TypeOK
<1>8. count' \in [Messages -> Nat]
  BY <1>1, <1>4, <1>7
<1>9. \A n \in Messages : /\ count[n] \in Nat /\ count'[n] \in Nat
                          /\ n # m => count'[n] = count[n]
                          /\ count[n] > 0 => count'[n] > 0
  BY <1>1, <1>4, <1>7, <1>8
<1>10. Qos[m] > 0 => id \in PacketIds
  BY <1>4, <1>6, MaxIdAssumption DEF PacketIds
<1>11. recIds' \subseteq PacketIds
  BY <1>1, <1>7, <1>10
<1>12. /\ Qos[m] > 0 => /\ Ack("PUBACK", id) \in ToBrokerPacket /\ Ack("PUBACK", id).id = id
                        /\ Ack("PUBREC", id) \in ToBrokerPacket /\ Ack("PUBREC", id).id = id
  BY <1>10 DEF Ack, ToBrokerPacket, Acknowledge
<1>13. Qos[m] = 0 => Read(h, <<>>)
  BY <1>1, <1>6, <1>8, <1>11 DEF Read
<1>14. Qos[m] = 1 => Read(h, <<Ack("PUBACK", id)>>)
  BY <1>1, <1>6, <1>8, <1>11, <1>12 DEF Read
<1>15. Qos[m] = 2 => Read(h, <<Ack("PUBREC", id)>>)
  BY <1>1, <1>6, <1>8, <1>11, <1>12 DEF Read
<1> QED
  BY <1>1, <1>4, <1>5, <1>6, <1>9, <1>10, <1>12, <1>13, <1>14, <1>15 DEF Alone

LEMMA ClientPublishIInv ==
  ASSUME IInv, ClientGetsPublish
  PROVE  IInv'
<1> PICK h, id, m : h = Head(toClient) /\ id = h.id /\ m = h.msg
  OBVIOUS
<1>1. /\ m \in Messages /\ Qos[m] \in 0..2 /\ id \in 0..MaxId
      /\ m \in Range(published)
      /\ PubIn(toClient, id, m) /\ Outgoing(id, m) /\ Holds(toClient, id)
      /\ Qos[m] = 0 => id = 0 /\ Read(h, <<>>) /\ count[m] = 0
      /\ Qos[m] = 1 => /\ id \in PacketIds /\ Ack("PUBACK", id) \in ToBrokerPacket
                       /\ Read(h, <<Ack("PUBACK", id)>>)
                       /\ id \in Alone => Has(forAck, id, m) /\ m \notin disturbed
      /\ Qos[m] = 2 => /\ id \in PacketIds /\ Ack("PUBREC", id) \in ToBrokerPacket
                       /\ Read(h, <<Ack("PUBREC", id)>>)
                       /\ id \in Alone => Has(forRec, id, m) /\ m \notin disturbed
                       /\ id \notin Alone => m \in disturbed
      /\ recIds' = IF Qos[m] = 2 THEN recIds \cup {id} ELSE recIds
      /\ count' = IF Qos[m] = 2 /\ id \in recIds THEN count ELSE [count EXCEPT ![m] = @ + 1]
      /\ \A n \in Messages : /\ count[n] \in Nat /\ count'[n] \in Nat
                             /\ n # m => count'[n] = count[n]
                             /\ count[n] > 0 => count'[n] > 0
  BY ClientPublishFacts
<1> PICK reply : /\ Read(h, reply)
                 /\ Qos[m] = 0 => reply = <<>>
                 /\ Qos[m] = 1 => reply = <<Ack("PUBACK", id)>>
                 /\ Qos[m] = 2 => reply = <<Ack("PUBREC", id)>>
  BY <1>1
<1>2. /\ UNCHANGED <<nextId, forAck, forRec, forComp, conn, entry, stage, todo, writing,
                     published, twice, disturbed, overtaking, drops>>
      /\ Taken(toClient, h, toClient') /\ h.type = "PUBLISH"
      /\ \A a \in ToBrokerPacket : reply = <<a>> => Appended(toBroker, a, toBroker')
      /\ reply = <<>> => toBroker' = toBroker
  BY ReadFacts DEF ClientGetsPublish
<1>3. /\ \A i, n : PubIn(toClient', i, n) => PubIn(toClient, i, n)
      /\ \A i, ty : TypeIn(toClient', ty, i) => TypeIn(toClient, ty, i)
      /\ PubOnce(toClient, id, m) => ~PubIn(toClient', id, m)
  BY <1>2 DEF Taken
<1>4. /\ \A i : InComp(i)' <=> InComp(i)
      /\ \A i, n : Outgoing(i, n)' => Outgoing(i, n)
      /\ \A i : OutgoingPubrel(i)' => OutgoingPubrel(i)
      /\ Alone' = Alone
  BY <1>2, <1>3 DEF InComp, Writing, Outgoing, OutgoingPubrel, Alone
<1>5. forAck \in Seq(PublishObject) /\ forRec \in Seq(PublishObject)
      /\ toBroker \in Seq(ToBrokerPacket) /\ toBroker' \in Seq(ToBrokerPacket)
  BY Types, ReadFacts DEF IInv
<1>6. ASSUME NEW i \in Alone, NEW n \in Messages, Has(forRec, i, n)
      PROVE  count'[n] = IF i \in recIds' THEN 1 ELSE 0
  <2>1. Qos[n] = 2 /\ (n \in disturbed <=> i \in twice) /\ i \notin twice
    BY <1>6 DEF IInv, StoredOnce, Alone
  <2>2. count[n] = IF i \in recIds THEN 1 ELSE 0
    BY <1>6 DEF IInv, ReceivedOnce
  <2>3. CASE n = m
    <3>1. id \in Alone /\ Has(forRec, id, m)
      BY <1>1, <2>1, <2>3
    <3>2. i = id
      BY <1>6, <2>3, <3>1 DEF IInv, StoredOnce, Alone
    <3> QED
      BY <1>1, <2>1, <2>2, <2>3, <3>2 DEF IInv, TypeOK
  <2>4. CASE n # m
    <3>1. i # id \/ Qos[m] # 2
      <4>1. ASSUME i = id, Qos[m] = 2
            PROVE  FALSE
        <5>1. Has(forRec, i, m) /\ Once(forRec, i)
          BY <1>1, <1>6, <4>1 DEF IInv, IdsApart, Alone
        <5> QED
          BY <1>5, <1>6, <2>4, <5>1, ContainerKinds
      <4> QED
        BY <4>1
    <3> QED
      BY <1>1, <2>2, <2>4, <3>1
  <2> QED
    BY <2>3, <2>4
<1>7. ReceivedOnce'
  <2>1. \A i \in Alone : i \in recIds' => Holds(forRec, i) \/ InComp(i)
    <3>1. id \in Alone /\ Qos[m] = 2 => Holds(forRec, id)
      BY <1>1, <1>5, ContainerKinds
    <3> QED
      BY <1>1, <3>1 DEF IInv, ReceivedOnce
  <2>2. \A n \in Messages : n \notin Range(published) => count'[n] = 0 /\ n \notin disturbed
    BY <1>1 DEF IInv, ReceivedOnce
  <2>3. ASSUME NEW n \in Messages \ disturbed, Qos[n] = 2
        PROVE  count'[n] <= 1
    <3>1. CASE n = m
      <4>1. id \in Alone /\ Has(forRec, id, m)
        BY <1>1, <2>3, <3>1
      <4> QED
        BY <1>6, <3>1, <4>1
    <3>2. CASE n # m
      BY <1>1, <2>3, <3>2 DEF IInv, ReceivedOnce, ExactlyOnce
    <3> QED
      BY <3>1, <3>2
  <2> QED
    BY <1>2, <1>4, <1>6, <2>1, <2>2, <2>3 DEF ReceivedOnce, ExactlyOnce
<1>8. OutgoingExpected'
  <2>1. ASSUME NEW i \in 0..MaxId, NEW n \in Messages, Outgoing(i, n)', Qos[n] = 0
        PROVE  i = 0 /\ count'[n] = 0
    <3>1. i = 0 /\ count[n] = 0
      BY <1>4, <2>1 DEF IInv, OutgoingExpected
    <3>2. n # m
      <4>1. ASSUME n = m
            PROVE  FALSE
        <5>1. id = 0 /\ PubOnce(toClient, 0, m) /\ ~Writing(0, m)
          BY <1>1, <2>1, <4>1 DEF IInv, OneOfQosZero
        <5>2. ~PubIn(toClient', 0, m)
          BY <1>3, <5>1
        <5>3. ~PubIn(todo, 0, m)
          BY <1>1, <2>1, <4>1, <5>1 DEF IInv, Connection
        <5>4. ~Outgoing(0, m)'
          BY <1>2, <5>1, <5>2, <5>3 DEF Outgoing, Writing
        <5> QED
          BY <2>1, <3>1, <4>1, <5>4
      <4> QED
        BY <4>1
    <3> QED
      BY <1>1, <3>1, <3>2
  <2> QED
    BY <1>2, <1>4, <2>1 DEF IInv, OutgoingExpected
<1>9. AnswersExpected'
  <2>1. \A i, ty : TypeIn(toBroker, ty, i) => Holds(toBroker, i)
    BY <1>5, AnswerKinds
  <2>2. id \in Alone => ~Holds(toBroker, id)
    BY <1>1 DEF IInv, OneInFlight
  <2>3. CASE Qos[m] = 0
    BY <1>1, <1>2, <1>4, <2>3 DEF IInv, AnswersExpected
  <2>4. CASE Qos[m] = 1
    <3> PICK a : a = Ack("PUBACK", id)
      OBVIOUS
    <3>1. a \in ToBrokerPacket /\ reply = <<a>> /\ a.type = "PUBACK" /\ a.id = id
      BY <1>1, <2>4 DEF Ack
    <3>2. \A i, ty : TypeIn(toBroker', ty, i) <=> TypeIn(toBroker, ty, i) \/ (ty = "PUBACK" /\ i = id)
      BY <1>2, <3>1 DEF Appended
    <3>3. ASSUME NEW i \in Alone, TypeIn(toBroker', "PUBACK", i)
          PROVE  \E n \in Messages : Has(forAck', i, n) /\ count'[n] > 0
      <4>1. CASE i = id
        <5>1. Has(forAck, id, m)
          BY <1>1, <2>4, <4>1
        <5>2. count'[m] > 0
          BY <1>1, <2>4 DEF IInv, TypeOK
        <5> QED
          BY <1>1, <1>2, <4>1, <5>1, <5>2
      <4>2. CASE i # id
        <5>1. PICK n \in Messages : Has(forAck, i, n) /\ count[n] > 0
          BY <3>2, <3>3, <4>2 DEF IInv, AnswersExpected
        <5> QED
          BY <1>1, <1>2, <5>1
      <4> QED
        BY <4>1, <4>2
    <3>4. \A i : /\ TypeIn(toBroker', "PUBREC", i) => TypeIn(toBroker, "PUBREC", i)
                 /\ TypeIn(toBroker', "PUBCOMP", i) => TypeIn(toBroker, "PUBCOMP", i)
      BY <3>2
    <3> QED
      BY <1>1, <1>2, <1>4, <2>4, <3>3, <3>4 DEF IInv, AnswersExpected
  <2>5. CASE Qos[m] = 2
    <3> PICK a : a = Ack("PUBREC", id)
      OBVIOUS
    <3>1. a \in ToBrokerPacket /\ reply = <<a>> /\ a.type = "PUBREC" /\ a.id = id
      BY <1>1, <2>5 DEF Ack
    <3>2. \A i, ty : TypeIn(toBroker', ty, i) <=> TypeIn(toBroker, ty, i) \/ (ty = "PUBREC" /\ i = id)
      BY <1>2, <3>1 DEF Appended
    <3>3. ASSUME NEW i \in Alone
          PROVE  /\ TypeIn(toBroker', "PUBACK", i) => TypeIn(toBroker, "PUBACK", i)
                 /\ TypeIn(toBroker', "PUBREC", i) => TypeIn(toBroker, "PUBREC", i) \/ i = id
                 /\ TypeIn(toBroker', "PUBCOMP", i) => TypeIn(toBroker, "PUBCOMP", i) /\ i # id
      BY <2>1, <2>2, <3>2
    <3>4. id \in Alone => Holds(forRec, id)
      BY <1>1, <1>5, <2>5, ContainerKinds
    <3>5. \A i \in Alone : TypeIn(toBroker', "PUBACK", i)
            => \E n \in Messages : Has(forAck', i, n) /\ count'[n] > 0
      BY <1>1, <1>2, <3>3 DEF IInv, AnswersExpected
    <3>6. ASSUME NEW i \in Alone, TypeIn(toBroker', "PUBREC", i)
          PROVE  Holds(forRec', i) /\ i \in recIds'
      BY <1>1, <1>2, <2>5, <3>3, <3>4, <3>6 DEF IInv, AnswersExpected
    <3>7. ASSUME NEW i \in Alone, TypeIn(toBroker', "PUBCOMP", i)
          PROVE  InComp(i)' /\ i \notin recIds'
      BY <1>1, <1>4, <2>5, <3>3, <3>7 DEF IInv, AnswersExpected
    <3> QED
      BY <1>4, <3>5, <3>6, <3>7 DEF AnswersExpected
  <2> QED
    BY <1>1, <2>3, <2>4, <2>5
<1> QED
  BY <1>7, <1>8, <1>9, ReadIInv

\* An identifier that new_packet_id returns is in no container ...
LEMMA NewPacketIdIsFree ==
  ASSUME NEW id \in NewPacketId
  PROVE  id \in PacketIds /\ ~Holds(forAck, id) /\ ~Holds(forRec, id) /\ ~InComp(id)
BY DEF NewPacketId, IdsInUse, IdsOf, Holds, InComp

\* ... and if it was not written twice nothing of an earlier exchange is under way.
LEMMA FreeIsQuiet ==
  ASSUME IInv, NEW id \in Alone, ~Holds(forAck, id), ~Holds(forRec, id), ~InComp(id)
  PROVE  /\ ~Holds(toClient, id) /\ ~Holds(toBroker, id) /\ ~Holds(todo, id)
         /\ ~WritingId(id) /\ ~Ahead(id) /\ id \notin recIds
         /\ \A n \in Messages : ~Outgoing(id, n)
<1>1. /\ forAck \in Seq(PublishObject) /\ forRec \in Seq(PublishObject)
      /\ toClient \in Seq(ToClientPacket) /\ todo \in Seq(ToClientPacket)
      /\ toBroker \in Seq(ToBrokerPacket) /\ writing \subseteq PublishPacket
  BY Types DEF IInv
<1>2. id \in PacketIds /\ id # 0 /\ id \notin twice /\ id \in 0..MaxId
  BY MaxIdAssumption DEF Alone, PacketIds
<1>3. \A n \in Messages : ~Outgoing(id, n)
  <2>1. ASSUME NEW n \in Messages, Outgoing(id, n)
        PROVE  FALSE
    <3>1. Qos[n] \in 0..2
      BY QosAssumption
    <3>2. Has(forAck, id, n) \/ Has(forRec, id, n)
      BY <1>2, <2>1, <3>1 DEF IInv, OutgoingExpected
    <3> QED
      BY <1>1, <3>2, ContainerKinds
  <2> QED
    BY <2>1
<1>4. ~OutgoingPubrel(id)
  BY DEF IInv, OutgoingExpected
<1>5. ~Holds(toClient, id) /\ ~Holds(todo, id)
  BY <1>1, <1>3, <1>4, StreamKinds DEF Outgoing, OutgoingPubrel
<1>6. ~WritingId(id)
  <2>1. ASSUME NEW p \in writing, p.id = id
        PROVE  FALSE
    <3>1. p.msg \in Messages /\ Outgoing(id, p.msg)
      BY <1>1, <2>1 DEF PublishPacket, Outgoing, Writing
    <3> QED
      BY <1>3, <3>1
  <2> QED
    BY <2>1 DEF WritingId
<1>7. ~Holds(toBroker, id)
  <2>1. ~TypeIn(toBroker, "PUBACK", id)
    BY <1>1, ContainerKinds DEF IInv, AnswersExpected
  <2> QED
    BY <1>1, <2>1, AnswerKinds DEF IInv, AnswersExpected
<1>8. ~Ahead(id)
  BY DEF Ahead
<1>9. id \notin recIds
  BY DEF IInv, ReceivedOnce
<1> QED
  BY <1>3, <1>5, <1>6, <1>7, <1>8, <1>9

\* What Publish(m) does under the identifier id; the packet has none for QoS 0.
Live(m) == entry[Topic[m]] = "live"
WireId(id, m) == IF Qos[m] = 0 THEN 0 ELSE id
Stores(id, m) ==
  /\ id \in PacketIds
  /\ ~Holds(forAck, id) /\ ~Holds(forRec, id) /\ ~InComp(id)
  /\ m \notin Range(published) /\ Range(published') = Range(published) \cup {m}
  /\ published' = Append(published, m) /\ TopicFree(m)
  /\ forAck' = IF Qos[m] = 1 THEN AddPublish(forAck, id, m) ELSE forAck
  /\ forRec' = IF Qos[m] = 2 THEN AddPublish(forRec, id, m) ELSE forRec
  /\ \A i, n : Has(forAck', i, n) <=> Has(forAck, i, n) \/ (Qos[m] = 1 /\ i = id /\ n = m)
  /\ \A i, n : Has(forRec', i, n) <=> Has(forRec, i, n) \/ (Qos[m] = 2 /\ i = id /\ n = m)
  /\ \A i : Holds(forAck', i) <=> Holds(forAck, i) \/ (Qos[m] = 1 /\ i = id)
  /\ \A i : Holds(forRec', i) <=> Holds(forRec, i) \/ (Qos[m] = 2 /\ i = id)
  /\ \A i : Once(forAck, i) => Once(forAck', i)
  /\ \A i : Once(forRec, i) => Once(forRec', i)
  /\ \A i, n : Writing(i, n)' <=> Writing(i, n) \/ (Live(m) /\ i = WireId(id, m) /\ n = m)
  /\ \A i : WritingId(i)' <=> WritingId(i) \/ (Live(m) /\ i = WireId(id, m))
  /\ twice' = IF Live(m) /\ Qos[m] > 0 /\ ToBeCopied(m) THEN twice \cup {id} ELSE twice
  /\ disturbed' = IF Qos[m] > 0 /\ id \in twice' THEN disturbed \cup {m} ELSE disturbed
  /\ overtaking' = IF Live(m) /\ OlderToWrite(m) THEN overtaking \cup {m} ELSE overtaking
  /\ UNCHANGED <<forComp, conn, entry, stage, todo, toClient, toBroker, recIds, count, drops>>

\* An object is put behind the others of its container.
LEMMA AddPlaces ==
  ASSUME NEW pubs \in Seq(PublishObject), NEW id \in PacketIds, NEW m \in Messages,
         ~Holds(pubs, id), NEW r, r = AddPublish(pubs, id, m)
  PROVE  /\ r \in Seq(PublishObject)
         /\ \A i, n : Has(r, i, n) <=> Has(pubs, i, n) \/ (i = id /\ n = m)
         /\ \A i : Holds(r, i) <=> Holds(pubs, i) \/ i = id
         /\ \A i : Once(pubs, i) => Once(r, i)
<1> PICK x : x = NewPublish(id, m)
  OBVIOUS
<1>1. x \in PublishObject /\ x.id = id /\ x.msg = m
  BY DEF NewPublish, PublishObject
<1>2. r = Append(pubs, x)
  BY DEF AddPublish
<1>3. r \in Seq(PublishObject) /\ Appended(pubs, x, r)
  BY <1>1, <1>2, AppendPlaces
<1> QED
  BY <1>1, <1>3 DEF Appended

LEMMA PublishStores ==
  ASSUME IInv, NEW m \in Messages, Publish(m)
  PROVE  TypeOK' /\ Connection' /\ \E id \in PacketIds : Stores(id, m)
<1>1. PICK id \in NewPacketId :
        /\ nextId' = IncrementId(id)
        /\ forAck' = IF Qos[m] = 1 THEN AddPublish(forAck, id, m) ELSE forAck
        /\ forRec' = IF Qos[m] = 2 THEN AddPublish(forRec, id, m) ELSE forRec
        /\ writing' = IF Live(m) THEN writing \cup {Serialize(NewPublish(id, m))} ELSE writing
        /\ twice' = IF Live(m) /\ Qos[m] > 0 /\ ToBeCopied(m) THEN twice \cup {id} ELSE twice
        /\ disturbed' = IF Qos[m] > 0 /\ id \in twice' THEN disturbed \cup {m} ELSE disturbed
  BY DEF Publish, Live
<1>2. /\ m \notin Range(published) /\ TopicFree(m) /\ published' = Append(published, m)
      /\ overtaking' = IF Live(m) /\ OlderToWrite(m) THEN overtaking \cup {m} ELSE overtaking
      /\ UNCHANGED <<forComp, conn, entry, stage, todo, toClient, toBroker, recIds, count, drops>>
  BY DEF Publish, Live, connectVars, clientVars
<1>3. id \in PacketIds /\ ~Holds(forAck, id) /\ ~Holds(forRec, id) /\ ~InComp(id)
  BY NewPacketIdIsFree
<1>4. forAck \in Seq(PublishObject) /\ forRec \in Seq(PublishObject) /\ published \in Seq(Messages)
  BY Types DEF IInv
<1>5. /\ published' \in Seq(Messages) /\ Range(published') = Range(published) \cup {m}
  <2>1. published' \in Seq(Messages)
    BY <1>2, <1>4
  <2>2. Range(published') = Range(published) \cup {m}
    BY <1>2, <1>4, LastIsBehind
  <2> QED
    BY <2>1, <2>2
<1>6. /\ forAck' \in Seq(PublishObject)
      /\ \A i, n : Has(forAck', i, n) <=> Has(forAck, i, n) \/ (Qos[m] = 1 /\ i = id /\ n = m)
      /\ \A i : Holds(forAck', i) <=> Holds(forAck, i) \/ (Qos[m] = 1 /\ i = id)
      /\ \A i : Once(forAck, i) => Once(forAck', i)
  <2>1. CASE Qos[m] = 1
    <3>1. forAck' = AddPublish(forAck, id, m)
      BY <1>1, <2>1
    <3> QED
      BY <1>3, <1>4, <2>1, <3>1, AddPlaces
  <2>2. CASE Qos[m] # 1
    BY <1>1, <1>4, <2>2
  <2> QED
    BY <2>1, <2>2
<1>7. /\ forRec' \in Seq(PublishObject)
      /\ \A i, n : Has(forRec', i, n) <=> Has(forRec, i, n) \/ (Qos[m] = 2 /\ i = id /\ n = m)
      /\ \A i : Holds(forRec', i) <=> Holds(forRec, i) \/ (Qos[m] = 2 /\ i = id)
      /\ \A i : Once(forRec, i) => Once(forRec', i)
  <2>1. CASE Qos[m] = 2
    <3>1. forRec' = AddPublish(forRec, id, m)
      BY <1>1, <2>1
    <3> QED
      BY <1>3, <1>4, <2>1, <3>1, AddPlaces
  <2>2. CASE Qos[m] # 2
    BY <1>1, <1>4, <2>2
  <2> QED
    BY <2>1, <2>2
<1> PICK p : p = Serialize(NewPublish(id, m))
  OBVIOUS
<1>8. p.id = WireId(id, m) /\ p.msg = m /\ p \in PublishPacket
  BY <1>3, MaxIdAssumption DEF Serialize, NewPublish, PublishPacket, PacketIds, WireId
<1>9. /\ \A i, n : Writing(i, n)' <=> Writing(i, n) \/ (Live(m) /\ i = WireId(id, m) /\ n = m)
      /\ \A i : WritingId(i)' <=> WritingId(i) \/ (Live(m) /\ i = WireId(id, m))
  BY <1>1, <1>8 DEF Writing, WritingId
<1>10. TypeOK'
  <2>1. nextId' \in 0..MaxId
    BY <1>1, <1>3, MaxIdAssumption DEF IncrementId, PacketIds
  <2>2. writing' \subseteq PublishPacket
    BY <1>1, <1>8, Types DEF IInv
  <2>3. twice' \subseteq PacketIds /\ disturbed' \subseteq Messages /\ overtaking' \subseteq Messages
    BY <1>1, <1>2, <1>3 DEF IInv, TypeOK
  <2> QED
    BY <1>2, <1>5, <1>6, <1>7, <2>1, <2>2, <2>3 DEF IInv, TypeOK
<1>11. Connection'
  <2>1. ASSUME conn # "up"
        PROVE  writing' = writing
    <3>1. Topic[m] \in Topics
      BY TopicAssumption
    <3> QED
      BY <1>1, <2>1, <3>1 DEF IInv, Connection, Live
  <2>2. \A q, r \in writing' : Topic[q.msg] = Topic[r.msg] => q = r
    <3>1. \A q \in writing : Topic[q.msg] # Topic[p.msg]
      BY <1>2, <1>8 DEF TopicFree
    <3> QED
      BY <1>1, <3>1 DEF IInv, Connection
  <2> QED
    BY <1>2, <2>1, <2>2 DEF IInv, Connection
<1>12. Stores(id, m)
  BY <1>1, <1>2, <1>3, <1>5, <1>6, <1>7, <1>9 DEF Stores
<1> QED
  BY <1>3, <1>10, <1>11, <1>12

LEMMA PublishIInv ==
  ASSUME IInv, NEW m \in Messages, Publish(m)
  PROVE  IInv'
<1>1. TypeOK' /\ Connection'
  BY PublishStores
<1>2. PICK id \in PacketIds : Stores(id, m)
  BY PublishStores
<1>3. /\ ~Holds(forAck, id) /\ ~Holds(forRec, id) /\ ~InComp(id)
      /\ m \notin Range(published) /\ Range(published') = Range(published) \cup {m}
      /\ UNCHANGED <<forComp, conn, entry, stage, todo, toClient, toBroker, recIds, count, drops>>
  BY <1>2 DEF Stores
<1>4. /\ \A i, n : Has(forAck', i, n) <=> Has(forAck, i, n) \/ (Qos[m] = 1 /\ i = id /\ n = m)
      /\ \A i, n : Has(forRec', i, n) <=> Has(forRec, i, n) \/ (Qos[m] = 2 /\ i = id /\ n = m)
      /\ \A i : Holds(forAck', i) <=> Holds(forAck, i) \/ (Qos[m] = 1 /\ i = id)
      /\ \A i : Holds(forRec', i) <=> Holds(forRec, i) \/ (Qos[m] = 2 /\ i = id)
      /\ \A i : Once(forAck, i) => Once(forAck', i)
      /\ \A i : Once(forRec, i) => Once(forRec', i)
  BY <1>2 DEF Stores
<1>5. /\ \A i, n : Writing(i, n)' <=> Writing(i, n) \/ (Live(m) /\ i = WireId(id, m) /\ n = m)
      /\ \A i : WritingId(i)' <=> WritingId(i) \/ (Live(m) /\ i = WireId(id, m))
      /\ twice' = IF Live(m) /\ Qos[m] > 0 /\ ToBeCopied(m) THEN twice \cup {id} ELSE twice
      /\ disturbed' = IF Qos[m] > 0 /\ id \in twice' THEN disturbed \cup {m} ELSE disturbed
  BY <1>2 DEF Stores
<1>6. /\ forAck \in Seq(PublishObject) /\ forRec \in Seq(PublishObject)
      /\ toClient \in Seq(ToClientPacket)
  BY Types DEF IInv
<1>7. /\ \A i, n : Has(forAck, i, n) => i # id
      /\ \A i, n : Has(forRec, i, n) => i # id
      /\ id \in PacketIds /\ id # 0
      /\ Qos[m] \in 0..2
  BY <1>3, <1>6, ContainerKinds, QosAssumption DEF PacketIds
<1>8. /\ count[m] = 0 /\ m \notin disturbed
      /\ \A i : i # id => (i \in twice' <=> i \in twice)
      /\ \A i : i \in twice => i \in twice'
      /\ \A n : n # m => (n \in disturbed' <=> n \in disturbed)
      /\ Qos[m] > 0 => (m \in disturbed' <=> id \in twice')
      /\ \A i \in Alone' : i \in Alone /\ i \in PacketIds /\ i \notin twice'
  BY <1>3, <1>5 DEF IInv, ReceivedOnce, Alone
<1>9. id \in Alone => /\ ~Holds(toClient, id) /\ ~Holds(toBroker, id) /\ ~Holds(todo, id)
                      /\ ~WritingId(id) /\ ~Ahead(id) /\ id \notin recIds
                      /\ \A n \in Messages : ~Outgoing(id, n)
  BY <1>3, FreeIsQuiet
<1>10. \A i : (InComp(i)' <=> InComp(i)) /\ (OnceInComp(i)' <=> OnceInComp(i))
  BY <1>3 DEF InComp, OnceInComp
<1>11. /\ \A i, n : Outgoing(i, n)' <=> Outgoing(i, n) \/ (Live(m) /\ i = WireId(id, m) /\ n = m)
       /\ \A i : OutgoingPubrel(i)' <=> OutgoingPubrel(i)
       /\ \A i : i # id => (Ahead(i)' <=> Ahead(i)) /\ (Unfinished(i)' <=> Unfinished(i))
  BY <1>3, <1>4, <1>5, <1>10 DEF Outgoing, OutgoingPubrel, Ahead, Unfinished
<1>12. IdsApart'
  <2>1. ASSUME NEW i \in PacketIds
        PROVE  /\ Once(forAck', i) /\ Once(forRec', i)
               /\ Holds(forAck', i) => ~Holds(forRec', i)
    BY <1>3, <1>4, <2>1 DEF IInv, IdsApart
  <2>2. ASSUME NEW i \in Alone'
        PROVE  OnceInComp(i)' /\ (InComp(i)' => ~Holds(forAck', i) /\ ~Holds(forRec', i))
    BY <1>3, <1>4, <1>8, <1>10, <2>2 DEF IInv, IdsApart
  <2> QED
    BY <2>1, <2>2 DEF IdsApart
<1>13. StoredOnce'
  <2>1. ASSUME NEW i \in PacketIds, NEW n \in Messages, Has(forAck, i, n) \/ Has(forRec, i, n)
        PROVE  /\ n # m /\ i # id
               /\ Has(forAck, i, n) => Qos[n] = 1
               /\ Has(forRec, i, n) => Qos[n] = 2
               /\ n \in Range(published') /\ (n \in disturbed' <=> i \in twice')
    BY <1>3, <1>7, <1>8, <2>1 DEF IInv, StoredOnce
  <2>2. ASSUME NEW i \in PacketIds, NEW n \in Messages
        PROVE  /\ Has(forAck', i, n) => Qos[n] = 1
               /\ Has(forRec', i, n) => Qos[n] = 2
               /\ Has(forAck', i, n) \/ Has(forRec', i, n)
                  => n \in Range(published') /\ (n \in disturbed' <=> i \in twice')
    BY <1>3, <1>4, <1>8, <2>1
  <2>3. ASSUME NEW i \in PacketIds, NEW n \in Messages, NEW j \in PacketIds
        PROVE  /\ Has(forAck', i, n) /\ Has(forAck', j, n) => i = j
               /\ Has(forRec', i, n) /\ Has(forRec', j, n) => i = j
    BY <1>4, <2>1 DEF IInv, StoredOnce
  <2> QED
    BY <2>2, <2>3 DEF StoredOnce
<1>14. ReceivedOnce'
  <2>1. ASSUME NEW i \in Alone', NEW n \in Messages, Has(forRec', i, n)
        PROVE  count'[n] = IF i \in recIds' THEN 1 ELSE 0
    <3>1. CASE i = id /\ n = m
      BY <1>3, <1>8, <1>9, <2>1, <3>1
    <3>2. CASE ~(i = id /\ n = m)
      BY <1>3, <1>4, <1>8, <2>1, <3>2 DEF IInv, ReceivedOnce
    <3> QED
      BY <3>1, <3>2
  <2>2. \A i \in Alone' : i \in recIds' => Holds(forRec', i) \/ InComp(i)'
    BY <1>3, <1>4, <1>8, <1>10 DEF IInv, ReceivedOnce
  <2>3. \A n \in Messages : n \notin Range(published') => count'[n] = 0 /\ n \notin disturbed'
    BY <1>3, <1>8 DEF IInv, ReceivedOnce
  <2>4. ExactlyOnce'
    BY <1>3, <1>5 DEF IInv, ReceivedOnce, ExactlyOnce
  <2> QED
    BY <2>1, <2>2, <2>3, <2>4 DEF ReceivedOnce
<1>15. OutgoingExpected'
  <2>1. ASSUME NEW i \in 0..MaxId, NEW n \in Messages, Outgoing(i, n)'
        PROVE  /\ n \in Range(published')
               /\ Qos[n] = 0 => i = 0 /\ count'[n] = 0
               /\ Qos[n] > 0 => i # 0 /\ (n \in disturbed' <=> i \in twice')
               /\ Qos[n] = 1 /\ i \notin twice' => Has(forAck', i, n)
               /\ Qos[n] = 2 /\ i \notin twice' => Has(forRec', i, n)
    <3>1. CASE Outgoing(i, n)
      <4>1. /\ n \in Range(published)
            /\ Qos[n] = 0 => i = 0 /\ count[n] = 0
            /\ Qos[n] > 0 => i # 0 /\ (n \in disturbed <=> i \in twice)
            /\ Qos[n] = 1 /\ i \notin twice => Has(forAck, i, n)
            /\ Qos[n] = 2 /\ i \notin twice => Has(forRec, i, n)
        BY <3>1 DEF IInv, OutgoingExpected
      <4>2. i # id \/ id \in twice
        BY <1>7, <1>9, <3>1 DEF Alone
      <4> QED
        BY <1>3, <1>4, <1>8, <4>1, <4>2
    <3>2. CASE i = WireId(id, m) /\ n = m
      BY <1>3, <1>4, <1>7, <1>8, <3>2 DEF WireId
    <3> QED
      BY <1>11, <2>1, <3>1, <3>2
  <2>2. \A i \in Alone' : OutgoingPubrel(i)' => InComp(i)'
    BY <1>8, <1>10, <1>11 DEF IInv, OutgoingExpected
  <2> QED
    BY <2>1, <2>2 DEF OutgoingExpected
<1>16. AnswersExpected'
  BY <1>3, <1>4, <1>8, <1>10 DEF IInv, AnswersExpected
<1>17. id \in Alone' /\ WritingId(id)' => ~Ahead(id)'
  <2>1. ASSUME id \in Alone', WritingId(id)', Ahead(id)'
        PROVE  FALSE
    <3>1. Live(m) /\ Qos[m] > 0
      BY <1>5, <1>7, <1>8, <1>9, <2>1 DEF WireId
    <3>2. ~ToBeCopied(m)
      BY <1>5, <1>8, <2>1, <3>1
    <3> QED
      BY <1>3, <1>4, <1>10, <2>1, <3>2 DEF Ahead, ToBeCopied
  <2> QED
    BY <2>1
<1>18. OneInFlight'
  <2>1. ASSUME NEW i \in Alone'
        PROVE  /\ Once(toClient', i) /\ Once(toBroker', i) /\ Once(todo', i)
               /\ Holds(toClient', i) =>
                    ~Holds(toBroker', i) /\ ~Holds(todo', i) /\ ~WritingId(i)' /\ ~Ahead(i)'
               /\ Holds(toBroker', i) => ~Holds(todo', i) /\ ~WritingId(i)' /\ ~Ahead(i)'
               /\ Holds(todo', i) => ~WritingId(i)' /\ ~Ahead(i)'
               /\ WritingId(i)' => ~Ahead(i)'
    <3>1. i \in Alone /\ i # 0
      BY <1>8, <2>1 DEF PacketIds
    <3>2. CASE i = id
      BY <1>3, <1>9, <1>17, <2>1, <3>1, <3>2 DEF IInv, OneInFlight
    <3>3. CASE i # id
      <4>1. WritingId(i)' <=> WritingId(i)
        BY <1>5, <3>1, <3>3 DEF WireId
      <4> QED
        BY <1>3, <1>11, <3>1, <3>3, <4>1 DEF IInv, OneInFlight
    <3> QED
      BY <3>2, <3>3
  <2> QED
    BY <2>1 DEF OneInFlight
<1>19. OneOfQosZero'
  <2>1. ASSUME NEW n \in Messages, Qos[n] = 0, PubIn(toClient, 0, n)
        PROVE  Writing(0, n)' <=> Writing(0, n)
    <3>1. 0 \in 0..MaxId /\ Outgoing(0, n)
      BY <2>1, MaxIdAssumption DEF Outgoing
    <3>2. n # m
      BY <1>3, <3>1 DEF IInv, OutgoingExpected
    <3> QED
      BY <1>5, <3>2
  <2> QED
    BY <1>3, <2>1 DEF IInv, OneOfQosZero
<1>20. NoneIsStuck'
  <2>1. ASSUME conn = "up", NEW i \in Alone', Unfinished(i)'
        PROVE  UnderWay(i)'
    <3>1. CASE i = id
      <4>1. Qos[m] > 0 /\ (Holds(forAck', id) \/ Holds(forRec', id))
        BY <1>3, <1>4, <1>7, <1>10, <2>1, <3>1 DEF Unfinished
      <4>2. CASE Live(m)
        BY <1>5, <3>1, <4>1, <4>2 DEF WireId, UnderWay
      <4>3. CASE ~Live(m)
        <5>1. stage' = "subscribing"
          BY <1>3, <2>1, <4>3, TopicAssumption DEF IInv, Connection, Live
        <5> QED
          BY <3>1, <4>1, <5>1 DEF UnderWay, Ahead
      <4> QED
        BY <4>2, <4>3
    <3>2. CASE i # id
      <4>1. UnderWay(i)
        BY <1>8, <1>11, <2>1, <3>2 DEF IInv, NoneIsStuck
      <4> QED
        BY <1>3, <1>5, <1>11, <3>2, <4>1 DEF UnderWay
    <3> QED
      BY <3>1, <3>2
  <2> QED
    BY <1>3, <2>1 DEF NoneIsStuck
<1> QED
  BY <1>1, <1>12, <1>13, <1>14, <1>15, <1>16, <1>18, <1>19, <1>20 DEF IInv

LEMMA NextIInv == IInv /\ [Next]_vars => IInv'
<1> SUFFICES ASSUME IInv, [Next]_vars
             PROVE  IInv'
  OBVIOUS
<1>1. CASE UNCHANGED vars
  <2>1. UNCHANGED <<nextId, forAck, forRec, forComp, conn, entry, stage, todo, writing, toClient,
                    toBroker, recIds, count, published, twice, disturbed, overtaking, drops>>
    BY <1>1 DEF vars, sessionVars, connectVars, clientVars, historyVars
  <2>2. TypeOK' /\ Connection'
    BY <2>1 DEF IInv, TypeOK, Connection
  <2>3. IdsApart' /\ StoredOnce' /\ ReceivedOnce' /\ AnswersExpected'
    BY <2>1 DEF IInv, IdsApart, StoredOnce, ReceivedOnce, AnswersExpected, ExactlyOnce, Alone,
                InComp, OnceInComp
  <2>4. OutgoingExpected'
    BY <2>1 DEF IInv, OutgoingExpected, Alone, InComp, Outgoing, OutgoingPubrel, Writing
  <2>5. OneInFlight' /\ OneOfQosZero' /\ NoneIsStuck'
    BY <2>1 DEF IInv, OneInFlight, OneOfQosZero, NoneIsStuck, Alone, InComp, WritingId, Writing,
                Ahead, Unfinished, UnderWay
  <2> QED
    BY <2>2, <2>3, <2>4, <2>5 DEF IInv
<1>2. CASE \E m \in Messages : Publish(m)
  BY <1>2, PublishIInv
<1>3. CASE \E p \in writing : write_channel(p)
  BY <1>3, WriteChannelIInv
<1>4. CASE handle_puback \/ handle_pubrec \/ handle_pubcomp
  BY <1>4, PubackIInv, PubrecIInv, PubcompIInv
<1>5. CASE handle_channel_disconnected \/ handle_connect \/ ConnectionBreaks
  BY <1>5, DisconnectedIInv, ConnectIInv, BreakIInv
<1>6. CASE \E t \in Topics : subscribe(t)
  BY <1>6, SubscribeIInv
<1>7. CASE \/ unacked_publish_for_ack \/ unacked_publish_for_rec
           \/ unacked_packet_id_for_pubcomp \/ resumed
  BY <1>7, CopiesIInv
<1>8. CASE retry
  BY <1>8, RetryIInv
<1>9. CASE ClientGetsPublish \/ ClientGetsPubrel
  BY <1>9, ClientPublishIInv, ClientPubrelIInv
<1> QED
  BY <1>1, <1>2, <1>3, <1>4, <1>5, <1>6, <1>7, <1>8, <1>9 DEF Next

-----------------------------------------------------------------------------

\* The inductive invariant holds throughout: what is under way and what is stored agree
\* on every exchange whose PUBLISH was written once at a time.
THEOREM Invariance == Spec => []IInv
BY InitIInv, NextIInv, PTL DEF Spec

\* Whatever is published, broken off and resumed, the session, the streams and what
\* handle_connect has still to write are as TypeOK says.
THEOREM TypeCorrect == Spec => []TypeOK
<1>1. IInv => TypeOK
  BY DEF IInv
<1> QED
  BY <1>1, Invariance, PTL

\* What session.cpp:21-33 ensures for the PUBLISH containers at all times, and for
\* _packet_id_for_pubcomp unless a publisher stored a PUBLISH with the identifier while
\* handle_connect had yet to copy its container.
THEOREM IdsDistinct == Spec => []PacketIdsDistinct
<1>1. IInv => PacketIdsDistinct
  <2> SUFFICES ASSUME IInv
               PROVE  PacketIdsDistinct
    OBVIOUS
  <2>1. /\ \A j \in DOMAIN forAck : forAck[j].id \in PacketIds
        /\ \A j \in DOMAIN forRec : forRec[j].id \in PacketIds
        /\ \A j \in DOMAIN forComp : forComp[j] \in PacketIds
    <3>1. forAck \in Seq(PublishObject) /\ forRec \in Seq(PublishObject) /\ forComp \in Seq(PacketIds)
      BY Types DEF IInv
    <3>2. \A o \in PublishObject : o.id \in PacketIds
      BY DEF PublishObject
    <3> QED
      BY <3>1, <3>2
  <2>2. /\ \A id \in PacketIds : /\ Once(forAck, id) /\ Once(forRec, id)
                                 /\ Holds(forAck, id) => ~Holds(forRec, id)
        /\ \A id \in PacketIds : id \notin twice =>
             /\ OnceInComp(id)
             /\ InComp(id) => ~Holds(forAck, id) /\ ~Holds(forRec, id)
    BY DEF IInv, IdsApart, Alone
  <2>3. /\ \A j, k \in DOMAIN forAck : forAck[j].id = forAck[k].id => j = k
        /\ \A j, k \in DOMAIN forRec : forRec[j].id = forRec[k].id => j = k
    BY <2>1, <2>2 DEF Once
  <2>4. \A j \in DOMAIN forAck, k \in DOMAIN forRec : forAck[j].id # forRec[k].id
    BY <2>1, <2>2 DEF Holds
  <2>5. \A j, k \in DOMAIN forComp : forComp[j] = forComp[k] => j = k \/ forComp[j] \in twice
    BY <2>1, <2>2 DEF OnceInComp
  <2>6. /\ \A j \in DOMAIN forAck, k \in DOMAIN forComp :
             forAck[j].id = forComp[k] => forComp[k] \in twice
        /\ \A j \in DOMAIN forRec, k \in DOMAIN forComp :
             forRec[j].id = forComp[k] => forComp[k] \in twice
    BY <2>1, <2>2 DEF Holds, InComp
  <2> QED
    BY <2>3, <2>4, <2>5, <2>6 DEF PacketIdsDistinct
<1> QED
  BY <1>1, Invariance, PTL

\* A QoS 2 message is given to the application at most once, over any number of broken
\* connections, unless handle_connect wrote again what a publisher was writing.
THEOREM DeliveredOnce == Spec => []ExactlyOnce
<1>1. IInv => ExactlyOnce
  BY DEF IInv, ReceivedOnce
<1> QED
  BY <1>1, Invariance, PTL

-----------------------------------------------------------------------------
(* Every action preserves the order *)

\* A step that neither publishes nor disturbs leaves the order of publication as it is.
LEMMA SameOrder ==
  ASSUME UNCHANGED <<published, disturbed, overtaking>>
  PROVE  /\ \A m, n : Ordered(m, n)' <=> Ordered(m, n)
         /\ \A m, n : Before(published', m, n) <=> Before(published, m, n)
         /\ PublishedOnce => PublishedOnce'
         /\ LastOfItsTopic /\ writing' \subseteq writing => LastOfItsTopic'
BY DEF Ordered, PublishedOnce, LastOfItsTopic

\* No message comes before another and behind it.
LEMMA BeforeIsStrict ==
  ASSUME published \in Seq(Messages), PublishedOnce, NEW m, NEW n, Before(published, m, n)
  PROVE  ~Before(published, n, m) /\ m # n
<1>1. DOMAIN published \subseteq Nat
  OBVIOUS
<1>2. PICK j \in DOMAIN published, k \in DOMAIN published :
        j < k /\ published[j] = m /\ published[k] = n
  BY DEF Before
<1>3. ASSUME NEW i \in DOMAIN published, NEW l \in DOMAIN published,
             i < l, published[i] = n, published[l] = m
      PROVE  FALSE
  <2>1. i = k /\ l = j
    BY <1>2, <1>3 DEF PublishedOnce
  <2> QED
    BY <1>1, <1>2, <1>3, <2>1
<1>4. m # n
  <2>1. ASSUME m = n
        PROVE  FALSE
    <3>1. j = k
      BY <1>2, <2>1 DEF PublishedOnce
    <3> QED
      BY <1>1, <1>2, <3>1
  <2> QED
    BY <2>1
<1> QED
  BY <1>3, <1>4 DEF Before

\* What is read of a stream, and what is put behind it.
Leaves(s, h, t) ==
  /\ NoneOvertaken(t)
  /\ \A m : h.type = "PUBLISH" /\ MsgIn(t, m) => ~Ordered(m, h.msg)
  /\ \A m : MsgIn(s, m) <=> MsgIn(t, m) \/ (h.type = "PUBLISH" /\ h.msg = m)

LEMMA TakenOrder ==
  ASSUME NEW s \in Seq(ToClientPacket), s # <<>>, NEW t, t = Tail(s), NEW h, h = Head(s),
         NoneOvertaken(s)
  PROVE  Leaves(s, h, t)
<1>1. \A j, k \in DOMAIN t :
        j < k => /\ j + 1 \in DOMAIN s /\ k + 1 \in DOMAIN s /\ j + 1 < k + 1
                 /\ t[j] = s[j + 1] /\ t[k] = s[k + 1]
  BY TailOrder
<1>2. /\ h = s[1] /\ 1 \in DOMAIN s
      /\ \A j \in DOMAIN t : j + 1 \in DOMAIN s /\ 1 < j + 1 /\ t[j] = s[j + 1]
  <2>1. t \in Seq(ToClientPacket) /\ Len(t) = Len(s) - 1 /\ Len(s) >= 1
        /\ \A j \in 1..Len(t) : t[j] = s[j + 1]
    OBVIOUS
  <2> QED
    BY <2>1
<1>3. NoneOvertaken(t)
  BY <1>1 DEF NoneOvertaken
<1>4. ASSUME NEW j \in DOMAIN t, t[j].type = "PUBLISH", h.type = "PUBLISH"
      PROVE  ~Ordered(t[j].msg, h.msg)
  BY <1>2, <1>4 DEF NoneOvertaken
<1>5. \A k \in DOMAIN s : s[k] = h \/ \E j \in DOMAIN t : t[j] = s[k]
  BY TailKeeps, <1>2
<1>6. \A m : MsgIn(s, m) <=> MsgIn(t, m) \/ (h.type = "PUBLISH" /\ h.msg = m)
  <2>1. /\ \A k \in DOMAIN s : s[k] = h \/ \E j \in DOMAIN t : t[j] = s[k]
        /\ \A j \in DOMAIN t : \E k \in DOMAIN s : s[k] = t[j]
        /\ \E k \in DOMAIN s : s[k] = h
    BY <1>2, <1>5
  <2> QED
    BY ONLY <2>1 DEF MsgIn
<1> QED
  BY <1>3, <1>4, <1>6 DEF MsgIn, Leaves

LEMMA AppendedOrder ==
  ASSUME NEW s \in Seq(ToClientPacket), NEW x \in ToClientPacket, NEW t, t = Append(s, x),
         NoneOvertaken(s),
         \A n : x.type = "PUBLISH" /\ MsgIn(s, n) => ~Ordered(x.msg, n)
  PROVE  /\ NoneOvertaken(t)
         /\ \A m : MsgIn(t, m) <=> MsgIn(s, m) \/ (x.type = "PUBLISH" /\ x.msg = m)
<1>1. /\ \A j \in DOMAIN s : j \in DOMAIN t /\ t[j] = s[j]
      /\ \A j \in DOMAIN t : j \notin DOMAIN s => j = Len(s) + 1 /\ t[j] = x
      /\ \E j \in DOMAIN t : t[j] = x
  BY AppendElements
<1>2. ASSUME NEW j \in DOMAIN t, NEW k \in DOMAIN t, j < k,
             t[j].type = "PUBLISH", t[k].type = "PUBLISH"
      PROVE  ~Ordered(t[k].msg, t[j].msg)
  <2>1. j \in DOMAIN s
    <3>1. t \in Seq(ToClientPacket) /\ Len(t) = Len(s) + 1 /\ Len(s) \in Nat
      OBVIOUS
    <3> QED
      BY <1>2, <3>1
  <2>2. CASE k \in DOMAIN s
    BY <1>1, <1>2, <2>1, <2>2 DEF NoneOvertaken
  <2>3. CASE k \notin DOMAIN s
    BY <1>1, <1>2, <2>1, <2>3 DEF MsgIn
  <2> QED
    BY <2>2, <2>3
<1>3. \A m : MsgIn(t, m) <=> MsgIn(s, m) \/ (x.type = "PUBLISH" /\ x.msg = m)
  BY <1>1 DEF MsgIn
<1> QED
  BY <1>2, <1>3 DEF NoneOvertaken

LEMMA EmptyOrder == NoneOvertaken(<<>>) /\ \A m : ~MsgIn(<<>>, m)
BY DEF NoneOvertaken, MsgIn

LEMMA InitOInv == Init => OInv
<1> SUFFICES ASSUME Init
             PROVE  OInv
  OBVIOUS
<1>1. /\ forAck = <<>> /\ forRec = <<>> /\ toClient = <<>> /\ todo = <<>>
      /\ writing = {} /\ published = <<>>
  BY DEF Init
<1>2. Range(published) = {} /\ \A m, n : ~Before(published, m, n)
  BY <1>1 DEF Range, Before
<1>3. PublishedOnce /\ UndeliveredIsStored /\ StoredInOrder /\ LastOfItsTopic
  BY <1>1, <1>2 DEF PublishedOnce, UndeliveredIsStored, StoredInOrder, InOrder, LastOfItsTopic
<1>4. NoneLeftBehind /\ FirstDeliveries
  BY <1>2 DEF NoneLeftBehind, FirstDeliveries, Ordered
<1> QED
  BY <1>1, <1>3, <1>4, EmptyOrder DEF OInv

\* Nothing is on the wire.
LEMMA SilentOInv ==
  ASSUME OInv, UNCHANGED <<sessionVars, count, published, disturbed, overtaking>>,
         toClient' = <<>>, todo' = <<>>, writing' = {}
  PROVE  OInv'
<1>1. /\ \A m, n : Ordered(m, n)' <=> Ordered(m, n)
      /\ PublishedOnce' /\ LastOfItsTopic'
  BY SameOrder DEF OInv
<1>2. UndeliveredIsStored' /\ StoredInOrder' /\ FirstDeliveries'
  BY <1>1 DEF OInv, UndeliveredIsStored, Stored, StoredInOrder, InOrder, FirstDeliveries, sessionVars
<1>3. NoneOvertaken(toClient)' /\ NoneOvertaken(todo)'
  BY DEF NoneOvertaken
<1>4. NoneLeftBehind'
  BY EmptyOrder DEF NoneLeftBehind, MsgWriting
<1> QED
  BY <1>1, <1>2, <1>3, <1>4 DEF OInv

LEMMA ConnectionOInv ==
  ASSUME IInv, OInv, ConnectionBreaks \/ handle_channel_disconnected \/ handle_connect
  PROVE  OInv'
<1>1. CASE ConnectionBreaks
  BY <1>1, SilentOInv DEF ConnectionBreaks, clientVars, historyVars
<1>2. CASE handle_channel_disconnected \/ handle_connect
  <2>1. /\ conn # "up"
        /\ UNCHANGED <<sessionVars, todo, writing, toClient, count, published, disturbed, overtaking>>
    BY <1>2 DEF handle_channel_disconnected, handle_connect, clientVars, historyVars
  <2>2. toClient = <<>> /\ todo = <<>> /\ writing = {}
    BY <2>1 DEF IInv, Connection
  <2> QED
    BY <2>1, <2>2, SilentOInv
<1> QED
  BY <1>1, <1>2

LEMMA SubscribeOInv ==
  ASSUME OInv, NEW t \in Topics, subscribe(t)
  PROVE  OInv'
<1>1. UNCHANGED <<sessionVars, stage, todo, writing, toClient, count, published, disturbed, overtaking>>
  BY DEF subscribe, clientVars, historyVars
<1>2. /\ \A m, n : Ordered(m, n)' <=> Ordered(m, n)
      /\ PublishedOnce' /\ LastOfItsTopic'
  BY <1>1, SameOrder DEF OInv
<1>3. UndeliveredIsStored' /\ StoredInOrder' /\ FirstDeliveries'
  BY <1>1, <1>2 DEF OInv, UndeliveredIsStored, Stored, StoredInOrder, InOrder, FirstDeliveries, sessionVars
<1>4. NoneOvertaken(toClient)' /\ NoneOvertaken(todo)'
  BY <1>1, <1>2 DEF OInv, NoneOvertaken
<1>5. NoneLeftBehind'
  BY <1>1, <1>2 DEF OInv, NoneLeftBehind, MsgWriting, MsgAhead, sessionVars
<1> QED
  BY <1>2, <1>3, <1>4, <1>5 DEF OInv

\* What is copied was ahead, and a container is in the order of publication.
LEMMA CopyOInv ==
  ASSUME OInv, NEW from, NEW to, NEW packets, Copy(from, to, packets), NoneOvertaken(packets),
         \A m : MsgIn(packets, m) \/ MsgAhead(m)' => MsgAhead(m)
  PROVE  OInv'
<1>1. /\ todo' = packets
      /\ UNCHANGED <<sessionVars, writing, toClient, count, published, disturbed, overtaking>>
  BY DEF Copy, clientVars, historyVars
<1>2. /\ \A m, n : Ordered(m, n)' <=> Ordered(m, n)
      /\ PublishedOnce' /\ LastOfItsTopic'
  BY <1>1, SameOrder DEF OInv
<1>3. UndeliveredIsStored' /\ StoredInOrder' /\ FirstDeliveries'
  BY <1>1, <1>2 DEF OInv, UndeliveredIsStored, Stored, StoredInOrder, InOrder, FirstDeliveries, sessionVars
<1>4. NoneOvertaken(toClient)' /\ NoneOvertaken(todo)'
  BY <1>1, <1>2 DEF OInv, NoneOvertaken
<1>5. NoneLeftBehind'
  BY <1>1, <1>2 DEF OInv, NoneLeftBehind, MsgWriting
<1> QED
  BY <1>2, <1>3, <1>4, <1>5 DEF OInv

LEMMA CopiedInOrder ==
  ASSUME IInv, OInv, NEW pubs, pubs = forAck \/ pubs = forRec
  PROVE  /\ NoneOvertaken(Publishes(pubs))
         /\ \A m : MsgIn(Publishes(pubs), m) => \E id \in PacketIds : Has(pubs, id, m)
<1> PICK s : s = Publishes(pubs)
  OBVIOUS
<1>1. forAck \in Seq(PublishObject) /\ forRec \in Seq(PublishObject) /\ published \in Seq(Messages)
  BY Types DEF IInv
<1>2. pubs \in Seq(PublishObject) /\ \A i, m : Has(pubs, i, m) => Qos[m] # 0
  BY <1>1, ContainerKinds DEF IInv, StoredOnce
<1>3. DOMAIN s = DOMAIN pubs /\ \A k \in DOMAIN s : s[k].msg = pubs[k].msg
  BY <1>2, PublishesPlaces
<1>4. InOrder(pubs)
  BY DEF OInv, StoredInOrder
<1>5. NoneOvertaken(s)
  BY <1>1, <1>3, <1>4, BeforeIsStrict DEF OInv, NoneOvertaken, InOrder, Ordered
<1>6. ASSUME NEW m, MsgIn(s, m)
      PROVE  \E id \in PacketIds : Has(pubs, id, m)
  <2>1. PICK k \in DOMAIN pubs : pubs[k].msg = m
    BY <1>3, <1>6 DEF MsgIn
  <2>2. Has(pubs, pubs[k].id, m)
    BY <2>1 DEF Has
  <2> QED
    BY <1>2, <2>2, ContainerKinds
<1> QED
  BY <1>5, <1>6

LEMMA CopiesOInv ==
  ASSUME IInv, OInv,
         \/ unacked_publish_for_ack \/ unacked_publish_for_rec
         \/ unacked_packet_id_for_pubcomp \/ resumed
  PROVE  OInv'
<1>1. CASE unacked_publish_for_ack
  <2> PICK packets : packets = Publishes(forAck)
    OBVIOUS
  <2>1. /\ Copy("subscribing", "acks", packets)
        /\ stage = "subscribing" /\ stage' = "acks" /\ UNCHANGED <<forAck, forRec>>
    BY <1>1 DEF unacked_publish_for_ack, Copy, sessionVars
  <2>2. \A m : MsgIn(packets, m) \/ MsgAhead(m)' => MsgAhead(m)
    BY <2>1, CopiedInOrder DEF MsgAhead
  <2> QED
    BY <2>1, <2>2, CopiedInOrder, CopyOInv
<1>2. CASE unacked_publish_for_rec
  <2> PICK packets : packets = Publishes(forRec)
    OBVIOUS
  <2>1. /\ Copy("acks", "recs", packets)
        /\ stage = "acks" /\ stage' = "recs" /\ UNCHANGED <<forAck, forRec>>
    BY <1>2 DEF unacked_publish_for_rec, Copy, sessionVars
  <2>2. \A m : MsgIn(packets, m) \/ MsgAhead(m)' => MsgAhead(m)
    BY <2>1, CopiedInOrder DEF MsgAhead
  <2> QED
    BY <2>1, <2>2, CopiedInOrder, CopyOInv
<1>3. CASE unacked_packet_id_for_pubcomp
  <2> PICK packets : packets = Pubrels(forComp)
    OBVIOUS
  <2>1. Copy("recs", "comps", packets) /\ stage' = "comps"
    BY <1>3 DEF unacked_packet_id_for_pubcomp, Copy
  <2>2. forComp \in Seq(PacketIds)
    BY Types DEF IInv
  <2>3. \A k \in DOMAIN packets : packets[k].type # "PUBLISH"
    BY <2>2, PubrelsPlaces
  <2>4. NoneOvertaken(packets) /\ \A m : ~MsgIn(packets, m)
    BY <2>3 DEF NoneOvertaken, MsgIn
  <2>5. \A m : ~MsgAhead(m)'
    BY <2>1 DEF MsgAhead
  <2> QED
    BY <2>1, <2>4, <2>5, CopyOInv
<1>4. CASE resumed
  <2> PICK packets : packets = <<>>
    OBVIOUS
  <2>1. Copy("comps", "none", packets) /\ stage' = "none"
    BY <1>4 DEF resumed, Copy
  <2>2. \A m : ~MsgAhead(m)' /\ ~MsgIn(packets, m)
    BY <2>1, EmptyOrder DEF MsgAhead
  <2> QED
    BY <2>1, <2>2, EmptyOrder, CopyOInv
<1> QED
  BY <1>1, <1>2, <1>3, <1>4

\* The topic whose publication is written has published nothing since.
LEMMA WriteChannelOInv ==
  ASSUME IInv, OInv, NEW p \in writing, write_channel(p)
  PROVE  OInv'
<1>1. /\ writing' = writing \ {p} /\ toClient' = Append(toClient, p)
      /\ UNCHANGED <<sessionVars, stage, todo, count, published, disturbed, overtaking>>
  BY DEF write_channel, Write, connectVars, clientVars, historyVars
<1>2. /\ \A m, n : Ordered(m, n)' <=> Ordered(m, n)
      /\ PublishedOnce' /\ LastOfItsTopic'
  BY <1>1, SameOrder DEF OInv
<1>3. UndeliveredIsStored' /\ StoredInOrder' /\ FirstDeliveries'
  BY <1>1, <1>2 DEF OInv, UndeliveredIsStored, Stored, StoredInOrder, InOrder, FirstDeliveries, sessionVars
<1>4. p \in ToClientPacket /\ toClient \in Seq(ToClientPacket)
  BY Types DEF IInv, ToClientPacket
<1>5. \A n : MsgIn(toClient, n) => n \in Messages
  <2>1. ASSUME NEW k \in DOMAIN toClient, toClient[k].type = "PUBLISH"
        PROVE  toClient[k].msg \in Messages
    BY <1>4, <2>1, PacketKinds
  <2> QED
    BY <2>1 DEF MsgIn
<1>6. \A n : p.type = "PUBLISH" /\ MsgIn(toClient, n) => ~Ordered(p.msg, n)
  BY <1>5 DEF OInv, LastOfItsTopic, Ordered
<1>7. /\ NoneOvertaken(toClient')
      /\ \A m : MsgIn(toClient', m) <=> MsgIn(toClient, m) \/ (p.type = "PUBLISH" /\ p.msg = m)
  BY <1>1, <1>4, <1>6, AppendedOrder DEF OInv
<1>8. NoneOvertaken(toClient)' /\ NoneOvertaken(todo)'
  BY <1>1, <1>2, <1>7 DEF OInv, NoneOvertaken
<1>9. NoneLeftBehind'
  <2>1. \A n : MsgIn(toClient', n) \/ MsgWriting(n)' => MsgIn(toClient, n) \/ MsgWriting(n)
    BY <1>1, <1>7 DEF MsgWriting
  <2>2. \A m : MsgIn(todo', m) \/ MsgAhead(m)' => MsgIn(todo, m) \/ MsgAhead(m)
    BY <1>1 DEF MsgAhead, sessionVars
  <2> QED
    BY <1>2, <2>1, <2>2 DEF OInv, NoneLeftBehind
<1> QED
  BY <1>2, <1>3, <1>8, <1>9 DEF OInv

\* handle_connect goes through a copy in its order, and what it has yet to copy is of
\* another QoS.
LEMMA RetryOInv ==
  ASSUME IInv, OInv, retry
  PROVE  OInv'
<1> PICK p : p = Head(todo)
  OBVIOUS
<1>1. /\ todo # <<>> /\ todo' = Tail(todo) /\ toClient' = Append(toClient, p)
      /\ forAck' = IF stage = "acks" THEN Mark(forAck, p.id) ELSE forAck
      /\ forRec' = IF stage = "recs" THEN Mark(forRec, p.id) ELSE forRec
      /\ UNCHANGED <<stage, writing, count, published, disturbed, overtaking>>
  BY DEF retry, Write, clientVars, historyVars
<1>2. /\ toClient \in Seq(ToClientPacket) /\ todo \in Seq(ToClientPacket)
      /\ forAck \in Seq(PublishObject) /\ forRec \in Seq(PublishObject)
  BY Types DEF IInv
<1>3. /\ \A m, n : Ordered(m, n)' <=> Ordered(m, n)
      /\ \A m, n : Before(published', m, n) <=> Before(published, m, n)
      /\ PublishedOnce' /\ LastOfItsTopic'
  BY <1>1, SameOrder DEF OInv
<1>4. /\ \A id, m : Has(forAck', id, m) <=> Has(forAck, id, m)
      /\ \A id, m : Has(forRec', id, m) <=> Has(forRec, id, m)
      /\ InOrder(forAck') /\ InOrder(forRec')
  BY <1>1, <1>2, MarkPlaces DEF OInv, StoredInOrder
<1>5. UndeliveredIsStored' /\ FirstDeliveries'
  BY <1>1, <1>3, <1>4 DEF OInv, UndeliveredIsStored, Stored, FirstDeliveries
<1>6. StoredInOrder'
  BY <1>3, <1>4 DEF StoredInOrder, InOrder
<1>7. /\ NoneOvertaken(todo')
      /\ \A m : p.type = "PUBLISH" /\ MsgIn(todo', m) => ~Ordered(m, p.msg)
      /\ \A m : MsgIn(todo, m) <=> MsgIn(todo', m) \/ (p.type = "PUBLISH" /\ p.msg = m)
  <2>1. NoneOvertaken(todo)
    BY DEF OInv
  <2>2. Leaves(todo, p, todo')
    BY <1>1, <1>2, <2>1, TakenOrder
  <2> QED
    BY <2>2 DEF Leaves
<1>8. \A s \in Seq(ToClientPacket) : \A n : MsgIn(s, n) =>
        n \in Messages /\ \E id \in 0..MaxId : PubIn(s, id, n)
  <2>1. ASSUME NEW s \in Seq(ToClientPacket), NEW k \in DOMAIN s, s[k].type = "PUBLISH"
        PROVE  s[k].msg \in Messages /\ s[k].id \in 0..MaxId
    <3>1. s[k] \in ToClientPacket
      OBVIOUS
    <3> QED
      BY <2>1, <3>1, PacketKinds
  <2> QED
    BY <2>1 DEF MsgIn, PubIn, PubAt
<1>9. \A n : p.type = "PUBLISH" /\ MsgIn(toClient, n) => ~Ordered(p.msg, n)
  <2>1. ASSUME NEW n, p.type = "PUBLISH", MsgIn(toClient, n)
        PROVE  ~Ordered(p.msg, n)
    <3>1. MsgIn(todo, p.msg) /\ p.msg \in Messages /\ n \in Messages
      BY <1>2, <1>7, <1>8, <2>1
    <3> QED
      BY <2>1, <3>1 DEF OInv, NoneLeftBehind
  <2> QED
    BY <2>1
<1>10. p \in ToClientPacket
  BY <1>1, <1>2, TailPlaces
<1>11. /\ NoneOvertaken(toClient')
       /\ \A m : MsgIn(toClient', m) <=> MsgIn(toClient, m) \/ (p.type = "PUBLISH" /\ p.msg = m)
  BY <1>1, <1>2, <1>9, <1>10, AppendedOrder DEF OInv
<1>12. NoneOvertaken(toClient)' /\ NoneOvertaken(todo)'
  BY <1>3, <1>7, <1>11 DEF NoneOvertaken
<1>13. NoneLeftBehind'
  <2>1. \A m : MsgAhead(m)' <=> MsgAhead(m)
    BY <1>1, <1>4 DEF MsgAhead
  <2>2. ASSUME NEW m \in Messages, NEW n \in Messages,
               MsgIn(toClient, n) \/ MsgWriting(n), MsgIn(todo', m) \/ MsgAhead(m)
        PROVE  ~Ordered(m, n)
    BY <1>7, <2>2 DEF OInv, NoneLeftBehind
  <2>3. ASSUME NEW m \in Messages, p.type = "PUBLISH", MsgAhead(m)
        PROVE  ~Ordered(m, p.msg)
    <3>1. PICK id \in 0..MaxId : PubIn(todo, id, p.msg) /\ p.msg \in Messages
      BY <1>2, <1>7, <1>8, <2>3
    <3>2. \/ stage = "acks" /\ Qos[p.msg] = 1
          \/ stage = "recs" /\ Qos[p.msg] = 2
      BY <3>1 DEF IInv, Connection
    <3>3. stage = "acks" /\ \E i \in PacketIds : Has(forRec, i, m)
      BY <2>3, <3>2 DEF MsgAhead
    <3>4. Qos[m] = 2
      BY <3>3 DEF IInv, StoredOnce
    <3> QED
      BY <3>2, <3>3, <3>4 DEF Ordered
  <2>4. \A n : MsgWriting(n)' <=> MsgWriting(n)
    BY <1>1 DEF MsgWriting
  <2> QED
    BY <1>3, <1>7, <1>11, <2>1, <2>2, <2>3, <2>4 DEF NoneLeftBehind
<1> QED
  BY <1>3, <1>5, <1>6, <1>12, <1>13 DEF OInv

\* What is released was delivered.
LEMMA ReleaseOInv ==
  ASSUME IInv, OInv, stage = "none", stage' = "none",
         UNCHANGED <<todo, writing, count, published, disturbed, overtaking>>,
         NoneOvertaken(toClient'), \A m : MsgIn(toClient', m) => MsgIn(toClient, m),
         \A id \in PacketIds, m \in Messages :
           Has(forAck, id, m) => Has(forAck', id, m) \/ count[m] > 0 \/ m \in disturbed,
         \A id \in PacketIds, m \in Messages :
           Has(forRec, id, m) => Has(forRec', id, m) \/ count[m] > 0 \/ m \in disturbed,
         InOrder(forAck'), InOrder(forRec')
  PROVE  OInv'
<1>1. /\ \A m, n : Ordered(m, n)' <=> Ordered(m, n)
      /\ \A m, n : Before(published', m, n) <=> Before(published, m, n)
      /\ PublishedOnce' /\ LastOfItsTopic'
  BY SameOrder DEF OInv
<1>2. UndeliveredIsStored'
  <2>1. ASSUME NEW m \in Messages, m \in Range(published) \ disturbed, Qos[m] > 0, count[m] = 0
        PROVE  Stored(m)'
    <3>1. PICK id \in PacketIds : Has(forAck, id, m) \/ Has(forRec, id, m)
      BY <2>1 DEF OInv, UndeliveredIsStored, Stored
    <3>2. Has(forAck', id, m) \/ Has(forRec', id, m)
      BY <2>1, <3>1
    <3> QED
      BY <3>2 DEF Stored
  <2> QED
    BY <2>1 DEF UndeliveredIsStored
<1>3. StoredInOrder' /\ FirstDeliveries'
  BY <1>1 DEF OInv, StoredInOrder, InOrder, FirstDeliveries
<1>4. NoneOvertaken(toClient)' /\ NoneOvertaken(todo)'
  BY <1>1 DEF OInv, NoneOvertaken
<1>5. NoneLeftBehind'
  <2>1. todo' = <<>>
    BY DEF IInv, Connection
  <2>2. \A m : ~MsgIn(todo', m) /\ ~MsgAhead(m)'
    BY <2>1, EmptyOrder DEF MsgAhead
  <2> QED
    BY <2>2 DEF NoneLeftBehind
<1> QED
  BY <1>1, <1>2, <1>3, <1>4, <1>5 DEF OInv

LEMMA PubackOInv ==
  ASSUME IInv, OInv, handle_puback
  PROVE  OInv'
<1> PICK h, id : h = Head(toBroker) /\ id = h.id
  OBVIOUS
<1>1. /\ Receive("PUBACK") /\ forAck' \in ReleasePublish(forAck, id)
      /\ UNCHANGED <<forRec, stage, todo, writing, toClient, count, published, disturbed, overtaking>>
  BY DEF handle_puback, connectVars, clientVars, historyVars
<1>2. stage = "none" /\ id \in PacketIds /\ TypeIn(toBroker, "PUBACK", id)
  BY <1>1, ReceiveFacts
<1>3. forAck \in Seq(PublishObject)
  BY Types DEF IInv
<1>4. /\ \A i, m : Has(forAck', i, m) <=> Has(forAck, i, m) /\ i # id
      /\ InOrder(forAck')
  BY <1>1, <1>3, ReleasePublishPlaces DEF IInv, IdsApart, OInv, StoredInOrder
<1>5. ASSUME NEW m \in Messages, Has(forAck, id, m)
      PROVE  count[m] > 0 \/ m \in disturbed
  <2>1. CASE id \in Alone
    <3>1. PICK n \in Messages : Has(forAck, id, n) /\ count[n] > 0
      BY <1>2, <2>1 DEF IInv, AnswersExpected
    <3>2. n = m
      BY <1>2, <1>3, <1>5, <3>1, ContainerKinds DEF IInv, IdsApart
    <3> QED
      BY <3>1, <3>2
  <2>2. CASE id \notin Alone
    BY <1>2, <1>5, <2>2 DEF IInv, StoredOnce, Alone
  <2> QED
    BY <2>1, <2>2
<1>6. NoneOvertaken(toClient') /\ InOrder(forRec')
  BY <1>1 DEF OInv, StoredInOrder
<1> QED
  BY <1>1, <1>2, <1>4, <1>5, <1>6, ReleaseOInv

LEMMA PubrecOInv ==
  ASSUME IInv, OInv, handle_pubrec
  PROVE  OInv'
<1> PICK h, id, x : h = Head(toBroker) /\ id = h.id /\ x = Pubrel(id)
  OBVIOUS
<1>1. /\ Receive("PUBREC") /\ forRec' \in ReleasePublish(forRec, id)
      /\ toClient' = Append(toClient, x)
      /\ UNCHANGED <<forAck, stage, todo, writing, count, published, disturbed, overtaking>>
  BY DEF handle_pubrec, Write, connectVars, clientVars, historyVars
<1>2. stage = "none" /\ id \in PacketIds /\ TypeIn(toBroker, "PUBREC", id)
  BY <1>1, ReceiveFacts
<1>3. forRec \in Seq(PublishObject) /\ toClient \in Seq(ToClientPacket)
  BY Types DEF IInv
<1>4. /\ \A i, m : Has(forRec', i, m) <=> Has(forRec, i, m) /\ i # id
      /\ InOrder(forRec')
  BY <1>1, <1>3, ReleasePublishPlaces DEF IInv, IdsApart, OInv, StoredInOrder
<1>5. ASSUME NEW m \in Messages, Has(forRec, id, m)
      PROVE  count[m] > 0 \/ m \in disturbed
  <2>1. CASE id \in Alone
    <3>1. id \in recIds
      BY <1>2, <2>1 DEF IInv, AnswersExpected
    <3>2. count[m] = 1
      BY <1>5, <2>1, <3>1 DEF IInv, ReceivedOnce
    <3> QED
      BY <3>2
  <2>2. CASE id \notin Alone
    BY <1>2, <1>5, <2>2 DEF IInv, StoredOnce, Alone
  <2> QED
    BY <2>1, <2>2
<1>6. x \in ToClientPacket /\ x.type # "PUBLISH"
  BY <1>2 DEF Pubrel, ToClientPacket, Acknowledge
<1>7. NoneOvertaken(toClient') /\ \A m : MsgIn(toClient', m) => MsgIn(toClient, m)
  BY <1>1, <1>3, <1>6, AppendedOrder DEF OInv
<1>8. InOrder(forAck')
  BY <1>1 DEF OInv, StoredInOrder
<1> QED
  BY <1>1, <1>2, <1>4, <1>5, <1>7, <1>8, ReleaseOInv

LEMMA PubcompOInv ==
  ASSUME IInv, OInv, handle_pubcomp
  PROVE  OInv'
<1>1. /\ Receive("PUBCOMP")
      /\ UNCHANGED <<forAck, forRec, stage, todo, writing, toClient, count, published, disturbed,
                     overtaking>>
  BY DEF handle_pubcomp, connectVars, clientVars, historyVars
<1>2. stage = "none"
  BY <1>1 DEF Receive
<1>3. NoneOvertaken(toClient') /\ InOrder(forAck') /\ InOrder(forRec')
  BY <1>1 DEF OInv, StoredInOrder
<1> QED
  BY <1>1, <1>2, <1>3, ReleaseOInv

\* The subscriber reads a packet that no earlier one of its order is behind.
LEMMA ReadOInv ==
  ASSUME IInv, OInv, NEW h, NEW reply, Read(h, reply),
         \A m \in Messages : count[m] > 0 => count'[m] > 0,
         \A m \in Messages : count'[m] = 0 => count[m] = 0,
         FirstDeliveries'
  PROVE  OInv'
<1>1. UNCHANGED <<forAck, forRec, stage, todo, writing, published, disturbed, overtaking>>
  BY ReadFacts
<1>2. /\ \A m, n : Ordered(m, n)' <=> Ordered(m, n)
      /\ PublishedOnce' /\ LastOfItsTopic'
  BY <1>1, SameOrder DEF OInv
<1>3. UndeliveredIsStored' /\ StoredInOrder'
  BY <1>1, <1>2 DEF OInv, UndeliveredIsStored, Stored, StoredInOrder, InOrder
<1>4. toClient # <<>> /\ h = Head(toClient) /\ toClient' = Tail(toClient)
      /\ toClient \in Seq(ToClientPacket) /\ NoneOvertaken(toClient)
  BY Types DEF IInv, OInv, Read, ClientReads
<1>5. Leaves(toClient, h, toClient')
  BY <1>4, TakenOrder
<1>6. NoneOvertaken(toClient)' /\ NoneOvertaken(todo)'
  BY <1>1, <1>2, <1>5 DEF OInv, NoneOvertaken, Leaves
<1>7. NoneLeftBehind'
  <2>1. \A n : MsgIn(toClient', n) \/ MsgWriting(n)' => MsgIn(toClient, n) \/ MsgWriting(n)
    BY <1>1, <1>5 DEF Leaves, MsgWriting
  <2>2. \A m : MsgIn(todo', m) \/ MsgAhead(m)' => MsgIn(todo, m) \/ MsgAhead(m)
    BY <1>1 DEF MsgAhead
  <2> QED
    BY <1>2, <2>1, <2>2 DEF OInv, NoneLeftBehind
<1> QED
  BY <1>2, <1>3, <1>6, <1>7 DEF OInv

LEMMA ClientPubrelOInv ==
  ASSUME IInv, OInv, ClientGetsPubrel
  PROVE  OInv'
<1> PICK h, id, a : h = Head(toClient) /\ id = h.id /\ a = Ack("PUBCOMP", id)
  OBVIOUS
<1>1. /\ conn = "up" /\ toClient # <<>> /\ h.type = "PUBREL"
      /\ recIds' = recIds \ {id} /\ count' = count /\ ClientReads(<<a>>)
  BY DEF ClientGetsPubrel
<1>2. id \in PacketIds /\ id # 0
  <2>1. h \in ToClientPacket
    BY <1>1, Types, TailPlaces DEF IInv
  <2>2. h.type # "PUBLISH"
    BY <1>1
  <2> QED
    BY <2>1, <2>2, PacketKinds DEF PacketIds
<1>3. a \in ToBrokerPacket /\ a.id = id
  BY <1>2 DEF Ack, ToBrokerPacket, Acknowledge
<1>4. Read(h, <<a>>)
  BY <1>1, <1>2, <1>3 DEF Read, IInv, TypeOK
<1>5. UNCHANGED <<published, disturbed, overtaking>>
  BY <1>4, ReadFacts
<1>6. FirstDeliveries'
  BY <1>1, <1>5, SameOrder DEF OInv, FirstDeliveries
<1> QED
  BY <1>1, <1>4, <1>6, ReadOInv

\* A message that was not delivered is behind none that must come after it: its
\* exchange has a packet, and wherever that is it comes first.
LEMMA Undelivered ==
  ASSUME IInv, OInv, conn = "up", NEW m \in Messages, NEW n \in Messages, Ordered(m, n),
         count[m] = 0, MsgIn(toClient, n)
  PROVE  MsgIn(toClient, m)
<1>1. /\ forAck \in Seq(PublishObject) /\ forRec \in Seq(PublishObject)
      /\ toClient \in Seq(ToClientPacket) /\ todo \in Seq(ToClientPacket)
      /\ toBroker \in Seq(ToBrokerPacket) /\ writing \subseteq PublishPacket
      /\ published \in Seq(Messages)
  BY Types DEF IInv
<1>2. m \in Range(published) \ disturbed /\ Qos[m] > 0
  BY <1>1 DEF Ordered, Before, Range
<1>3. PICK id \in PacketIds : Has(forAck, id, m) \/ Has(forRec, id, m)
  BY <1>2 DEF OInv, UndeliveredIsStored, Stored
<1>4. id \in Alone
  BY <1>2, <1>3 DEF IInv, StoredOnce, Alone
<1>5. /\ Once(forAck, id) /\ Once(forRec, id) /\ (Holds(forAck, id) => ~Holds(forRec, id))
      /\ Holds(forAck, id) \/ Holds(forRec, id)
      /\ ~InComp(id)
  BY <1>1, <1>3, <1>4, ContainerKinds DEF IInv, IdsApart
<1>6. \A l \in Messages : Has(forAck, id, l) \/ Has(forRec, id, l) => l = m
  BY <1>1, <1>3, <1>5, ContainerKinds
<1>7. id # 0 /\ id \notin twice /\ id \in 0..MaxId
  BY <1>4, MaxIdAssumption DEF Alone, PacketIds
<1>8. \A l \in Messages : Outgoing(id, l) => l = m
  BY <1>6, <1>7, QosAssumption DEF IInv, OutgoingExpected
<1>9. ~OutgoingPubrel(id)
  BY <1>4, <1>5 DEF IInv, OutgoingExpected
<1>10. UnderWay(id)
  BY <1>4, <1>5 DEF IInv, NoneIsStuck, Unfinished
<1>11. \A s, l : PubIn(s, id, l) => MsgIn(s, l)
  BY DEF PubIn, PubAt, MsgIn
<1>12. Holds(toClient, id) => MsgIn(toClient, m)
  BY <1>1, <1>8, <1>9, <1>11, StreamKinds DEF Outgoing, OutgoingPubrel
<1>13. ~(MsgIn(todo, m) \/ MsgAhead(m))
  BY DEF OInv, NoneLeftBehind
<1>14. ~Holds(todo, id)
  BY <1>1, <1>8, <1>9, <1>11, <1>13, StreamKinds DEF Outgoing, OutgoingPubrel
<1>15. ~Ahead(id)
  <2>1. ASSUME Ahead(id)
        PROVE  MsgAhead(m)
    <3>1. CASE Has(forAck, id, m)
      BY <1>1, <1>3, <1>5, <2>1, <3>1, ContainerKinds DEF Ahead, MsgAhead
    <3>2. CASE Has(forRec, id, m)
      BY <1>1, <1>3, <1>5, <2>1, <3>2, ContainerKinds DEF Ahead, MsgAhead
    <3> QED
      BY <1>3, <3>1, <3>2
  <2> QED
    BY <1>13, <2>1
<1>16. ~WritingId(id)
  <2>1. ASSUME NEW p \in writing, p.id = id
        PROVE  FALSE
    <3>1. p.msg \in Messages /\ Outgoing(id, p.msg)
      BY <1>1, <2>1 DEF PublishPacket, Outgoing, Writing
    <3>2. p.msg = m
      BY <1>8, <3>1
    <3> QED
      BY <3>2 DEF OInv, LastOfItsTopic, Ordered
  <2> QED
    BY <2>1 DEF WritingId
<1>17. ~Holds(toBroker, id)
  <2>1. ~TypeIn(toBroker, "PUBACK", id)
    BY <1>4, <1>6 DEF IInv, AnswersExpected
  <2>2. ~TypeIn(toBroker, "PUBREC", id)
    <3>1. ASSUME TypeIn(toBroker, "PUBREC", id)
          PROVE  FALSE
      <4>1. Has(forRec, id, m) /\ id \in recIds
        BY <1>1, <1>3, <1>4, <1>5, <3>1, ContainerKinds DEF IInv, AnswersExpected
      <4> QED
        BY <1>4, <4>1 DEF IInv, ReceivedOnce
    <3> QED
      BY <3>1
  <2>3. ~TypeIn(toBroker, "PUBCOMP", id)
    BY <1>4, <1>5 DEF IInv, AnswersExpected
  <2> QED
    BY <1>1, <2>1, <2>2, <2>3, AnswerKinds
<1> QED
  BY <1>10, <1>12, <1>14, <1>15, <1>16, <1>17 DEF UnderWay

LEMMA ClientPublishOInv ==
  ASSUME IInv, OInv, ClientGetsPublish
  PROVE  OInv'
<1> PICK h, id, x : h = Head(toClient) /\ id = h.id /\ x = h.msg
  OBVIOUS
<1>1. /\ x \in Messages /\ Qos[x] \in 0..2
      /\ Qos[x] = 0 => Read(h, <<>>)
      /\ Qos[x] = 1 => Read(h, <<Ack("PUBACK", id)>>)
      /\ Qos[x] = 2 => Read(h, <<Ack("PUBREC", id)>>)
      /\ \A n \in Messages : /\ count[n] \in Nat /\ count'[n] \in Nat
                             /\ n # x => count'[n] = count[n]
                             /\ count[n] > 0 => count'[n] > 0
  BY ClientPublishFacts
<1>2. /\ conn = "up" /\ toClient # <<>> /\ h.type = "PUBLISH"
  BY DEF ClientGetsPublish
<1>3. PICK reply : Read(h, reply)
  BY <1>1
<1>4. UNCHANGED <<published, disturbed, overtaking>>
  BY <1>3, ReadFacts
<1>5. Leaves(toClient, h, Tail(toClient))
  BY <1>2, Types, TakenOrder DEF IInv, OInv
<1>6. ASSUME NEW m \in Messages, NEW n \in Messages, Ordered(m, n), count'[n] > 0
      PROVE  count'[m] > 0
  <2>1. CASE count[n] > 0
    BY <1>1, <1>6, <2>1 DEF OInv, FirstDeliveries
  <2>2. CASE ~(count[n] > 0)
    <3>1. n = x /\ MsgIn(toClient, n)
      BY <1>1, <1>2, <1>5, <1>6, <2>2 DEF Leaves
    <3>2. m # n
      BY <1>6, BeforeIsStrict, Types DEF IInv, OInv, Ordered
    <3>3. ~MsgIn(Tail(toClient), m)
      BY <1>2, <1>5, <1>6, <3>1 DEF Leaves
    <3>4. ~MsgIn(toClient, m)
      BY <1>5, <3>1, <3>2, <3>3 DEF Leaves
    <3>5. count[m] # 0
      BY <1>2, <1>6, <3>1, <3>4, Undelivered
    <3> QED
      BY <1>1, <3>5
  <2> QED
    BY <2>1, <2>2
<1>7. FirstDeliveries'
  BY <1>4, <1>6, SameOrder DEF FirstDeliveries
<1>8. \A m \in Messages : count'[m] = 0 => count[m] = 0
  BY <1>1
<1> QED
  BY <1>1, <1>3, <1>7, <1>8, ReadOInv

\* What is published comes behind everything published before.
LEMMA PublishOInv ==
  ASSUME IInv, OInv, NEW m \in Messages, Publish(m)
  PROVE  OInv'
<1>1. PICK id \in PacketIds : Stores(id, m)
  BY PublishStores
<1>2. /\ ~Holds(forAck, id) /\ ~Holds(forRec, id)
      /\ m \notin Range(published) /\ published' = Append(published, m) /\ TopicFree(m)
      /\ forAck' = IF Qos[m] = 1 THEN AddPublish(forAck, id, m) ELSE forAck
      /\ forRec' = IF Qos[m] = 2 THEN AddPublish(forRec, id, m) ELSE forRec
      /\ disturbed' = IF Qos[m] > 0 /\ id \in twice' THEN disturbed \cup {m} ELSE disturbed
      /\ overtaking' = IF Live(m) /\ OlderToWrite(m) THEN overtaking \cup {m} ELSE overtaking
      /\ UNCHANGED <<stage, todo, toClient, count>>
  BY <1>1 DEF Stores
<1>3. /\ \A i, n : Has(forAck', i, n) <=> Has(forAck, i, n) \/ (Qos[m] = 1 /\ i = id /\ n = m)
      /\ \A i, n : Has(forRec', i, n) <=> Has(forRec, i, n) \/ (Qos[m] = 2 /\ i = id /\ n = m)
      /\ \A i, n : Writing(i, n)' <=> Writing(i, n) \/ (Live(m) /\ i = WireId(id, m) /\ n = m)
  BY <1>1 DEF Stores
<1>4. /\ published \in Seq(Messages) /\ forAck \in Seq(PublishObject) /\ forRec \in Seq(PublishObject)
      /\ toClient \in Seq(ToClientPacket) /\ todo \in Seq(ToClientPacket)
  BY Types DEF IInv
<1>5. /\ \A j \in DOMAIN published : j \in DOMAIN published' /\ published'[j] = published[j]
      /\ \A j \in DOMAIN published' : j \notin DOMAIN published => j = Len(published) + 1 /\ published'[j] = m
      /\ \A a, b : Before(published, a, b) => Before(published', a, b)
      /\ \A a \in Range(published) : Before(published', a, m)
      /\ DOMAIN published = 1..Len(published) /\ Len(published) \in Nat
      /\ \A j \in DOMAIN published : published[j] # m
  <2>1. /\ \A j \in DOMAIN published : j \in DOMAIN published' /\ published'[j] = published[j]
        /\ \A j \in DOMAIN published' :
             j \notin DOMAIN published => j = Len(published) + 1 /\ published'[j] = m
    BY <1>2, <1>4, AppendElements
  <2>2. /\ \A a, b : Before(published, a, b) => Before(published', a, b)
        /\ \A a \in Range(published) : Before(published', a, m)
    BY <1>2, <1>4, LastIsBehind
  <2>3. DOMAIN published = 1..Len(published) /\ Len(published) \in Nat
    BY <1>4
  <2>4. \A j \in DOMAIN published : published[j] # m
    BY <1>2 DEF Range
  <2> QED
    BY <2>1, <2>2, <2>3, <2>4
<1>6. \A a, b : Before(published', a, b) =>
        a \in Range(published) /\ a # m /\ (Before(published, a, b) \/ b = m)
  <2>1. ASSUME NEW j \in DOMAIN published', NEW k \in DOMAIN published', j < k
        PROVE  j \in DOMAIN published /\ (k \in DOMAIN published \/ published'[k] = m)
    <3>1. DOMAIN published' = 1..(Len(published) + 1)
      BY <1>2, <1>4
    <3> QED
      BY <1>5, <2>1, <3>1
  <2> QED
    BY <1>5, <2>1 DEF Before, Range
<1>7. /\ \A n : n # m => (n \in disturbed' <=> n \in disturbed)
      /\ \A n : n # m => (n \in overtaking' <=> n \in overtaking)
  BY <1>2
<1>8. \A a, b : Ordered(a, b)' =>
        a \in Range(published) /\ a # m /\ (b # m => Ordered(a, b))
  BY <1>6, <1>7 DEF Ordered
<1>9. PublishedOnce'
  BY <1>5 DEF OInv, PublishedOnce
<1>10. UndeliveredIsStored'
  <2>1. ASSUME NEW n \in Messages, n \in Range(published') \ disturbed', Qos[n] > 0, count[n] = 0
        PROVE  Stored(n)'
    <3>1. CASE n = m
      <4>1. Has(forAck', id, m) \/ Has(forRec', id, m)
        BY <1>3, <2>1, <3>1, QosAssumption
      <4> QED
        BY <3>1, <4>1 DEF Stored
    <3>2. CASE n # m
      <4>1. n \in Range(published) \ disturbed
        BY <1>5, <1>7, <2>1, <3>2 DEF Range
      <4>2. PICK i \in PacketIds : Has(forAck, i, n) \/ Has(forRec, i, n)
        BY <2>1, <4>1 DEF OInv, UndeliveredIsStored, Stored
      <4>3. Has(forAck', i, n) \/ Has(forRec', i, n)
        BY <1>3, <4>2
      <4> QED
        BY <4>3 DEF Stored
    <3> QED
      BY <3>1, <3>2
  <2> QED
    BY <1>2, <2>1 DEF UndeliveredIsStored
<1>11. StoredInOrder'
  <2>1. ASSUME NEW pubs \in Seq(PublishObject), InOrder(pubs),
               \A i, n : Has(pubs, i, n) => n \in Range(published),
               NEW r, r = pubs \/ r = AddPublish(pubs, id, m)
        PROVE  \A j, k \in DOMAIN r : j < k => Before(published', r[j].msg, r[k].msg)
    <3>1. \A j \in DOMAIN pubs : pubs[j].msg \in Range(published)
      BY <2>1 DEF Has
    <3>2. CASE r = pubs
      BY <1>5, <2>1, <3>2 DEF InOrder
    <3>3. CASE r = AddPublish(pubs, id, m)
      <4> PICK x : x = NewPublish(id, m)
        OBVIOUS
      <4>1. x \in PublishObject /\ x.msg = m /\ r = Append(pubs, x)
        BY <3>3 DEF NewPublish, PublishObject, AddPublish
      <4>2. /\ \A j \in DOMAIN pubs : j \in DOMAIN r /\ r[j] = pubs[j]
            /\ \A j \in DOMAIN r : j \notin DOMAIN pubs => j = Len(pubs) + 1 /\ r[j] = x
        BY <2>1, <4>1, AppendElements
      <4>3. ASSUME NEW j \in DOMAIN r, NEW k \in DOMAIN r, j < k
            PROVE  Before(published', r[j].msg, r[k].msg)
        <5>1. j \in DOMAIN pubs
          <6>1. Len(r) = Len(pubs) + 1 /\ DOMAIN r = 1..(Len(pubs) + 1) /\ Len(pubs) \in Nat
            BY <2>1, <4>1
          <6> QED
            BY <2>1, <4>3, <6>1
        <5>2. CASE k \in DOMAIN pubs
          BY <1>5, <2>1, <4>2, <4>3, <5>1, <5>2 DEF InOrder
        <5>3. CASE k \notin DOMAIN pubs
          BY <1>5, <3>1, <4>1, <4>2, <5>1, <5>3
        <5> QED
          BY <5>2, <5>3
      <4> QED
        BY <4>3
    <3> QED
      BY <2>1, <3>2, <3>3
  <2>2. /\ \A i, n : Has(forAck, i, n) => n \in Range(published)
        /\ \A i, n : Has(forRec, i, n) => n \in Range(published)
    BY <1>4, ContainerKinds DEF IInv, StoredOnce
  <2>3. InOrder(forAck) /\ InOrder(forRec)
    BY DEF OInv, StoredInOrder
  <2>4. \A j, k \in DOMAIN forAck' : j < k => Before(published', forAck'[j].msg, forAck'[k].msg)
    BY <1>2, <1>4, <2>1, <2>2, <2>3
  <2>5. \A j, k \in DOMAIN forRec' : j < k => Before(published', forRec'[j].msg, forRec'[k].msg)
    BY <1>2, <1>4, <2>1, <2>2, <2>3
  <2> QED
    BY <2>4, <2>5 DEF StoredInOrder, InOrder
<1>12. /\ \A n : MsgWriting(n) <=> \E i : Writing(i, n)
       /\ \A n : MsgWriting(n)' <=> \E i : Writing(i, n)'
  BY DEF MsgWriting, Writing
<1>13. \A n : MsgWriting(n)' => MsgWriting(n) \/ (Live(m) /\ n = m)
  BY <1>3, <1>12
<1>14. LastOfItsTopic'
  <2>1. ASSUME NEW p \in writing', NEW n \in Messages, Before(published', p.msg, n)
        PROVE  Topic[p.msg] # Topic[n]
    <3>1. p.msg # m
      BY <1>6, <2>1
    <3>2. PICK q \in writing : q.msg = p.msg
      BY <1>13, <2>1, <3>1 DEF MsgWriting
    <3>3. CASE n = m
      BY <1>2, <3>2, <3>3 DEF TopicFree
    <3>4. CASE n # m
      BY <1>6, <2>1, <3>2, <3>4 DEF OInv, LastOfItsTopic
    <3> QED
      BY <3>3, <3>4
  <2> QED
    BY <2>1 DEF LastOfItsTopic
<1>15. ASSUME NEW s, s = toClient \/ s = todo, NEW n, MsgIn(s, n)
       PROVE  /\ n \in Messages /\ n # m
              /\ s = todo => \/ stage = "acks" /\ Qos[n] = 1
                             \/ stage = "recs" /\ Qos[n] = 2
  <2>1. PICK k \in DOMAIN s : s[k].type = "PUBLISH" /\ s[k].msg = n
    BY <1>15 DEF MsgIn
  <2>2. s \in Seq(ToClientPacket)
    BY <1>4, <1>15
  <2>3. s[k] \in ToClientPacket
    BY <2>2
  <2> PICK i : i = s[k].id
    OBVIOUS
  <2>4. n \in Messages /\ i \in 0..MaxId /\ PubIn(s, i, n)
    BY <2>1, <2>3, PacketKinds DEF PubIn, PubAt
  <2>5. Outgoing(i, n)
    BY <1>15, <2>4 DEF Outgoing
  <2> QED
    BY <1>2, <2>4, <2>5 DEF IInv, OutgoingExpected, Connection
<1>16. ASSUME NEW s, s = toClient \/ s = todo
       PROVE  \A j, k \in DOMAIN s :
                j < k /\ s[j].type = "PUBLISH" /\ s[k].type = "PUBLISH"
                => ~Ordered(s[k].msg, s[j].msg)'
  <2>1. ASSUME NEW j \in DOMAIN s, NEW k \in DOMAIN s, j < k,
               s[j].type = "PUBLISH", s[k].type = "PUBLISH"
        PROVE  ~Ordered(s[k].msg, s[j].msg)'
    <3> PICK a, b : a = s[k].msg /\ b = s[j].msg
      OBVIOUS
    <3>1. b # m
      BY <1>15, <1>16, <2>1 DEF MsgIn
    <3>2. ~Ordered(a, b)
      BY <1>16, <2>1 DEF OInv, NoneOvertaken
    <3>3. ~Ordered(a, b)'
      BY <1>8, <3>1, <3>2
    <3> QED
      BY <3>3 DEF Ordered
  <2> QED
    BY <2>1
<1>17. NoneOvertaken(toClient)' /\ NoneOvertaken(todo)'
  BY <1>2, <1>16 DEF NoneOvertaken
<1>18. NoneLeftBehind'
  <2>1. ASSUME NEW a \in Messages, NEW n \in Messages, Ordered(a, n)',
               MsgIn(toClient, n) \/ MsgWriting(n)', MsgIn(todo, a) \/ MsgAhead(a)'
        PROVE  FALSE
    <3>1. a # m /\ a \in Range(published)
      BY <1>8, <2>1
    <3>2. MsgAhead(a)' => MsgAhead(a)
      BY <1>2, <1>3, <3>1 DEF MsgAhead
    <3>3. CASE n # m
      BY <1>8, <1>13, <2>1, <3>2, <3>3 DEF OInv, NoneLeftBehind
    <3>4. CASE n = m
      <4>1. ~MsgIn(toClient, m)
        BY <1>15
      <4>2. ~MsgWriting(m)
        <5>1. ASSUME NEW p \in writing, p.msg = m
              PROVE  FALSE
          <6>1. p.id \in 0..MaxId
            BY Types DEF IInv, PublishPacket
          <6>2. Outgoing(p.id, m)
            BY <5>1 DEF Outgoing, Writing
          <6> QED
            BY <1>2, <6>1, <6>2 DEF IInv, OutgoingExpected
        <5> QED
          BY <5>1 DEF MsgWriting
      <4>3. Live(m)
        BY <1>13, <2>1, <3>4, <4>1, <4>2
      <4>4. ~OlderToWrite(m)
        BY <1>2, <2>1, <3>4, <4>3 DEF Ordered
      <4>5. Qos[a] = Qos[m]
        BY <2>1, <3>4 DEF Ordered
      <4>6. ~MsgIn(todo, a)
        BY <1>15, <4>4, <4>5 DEF OlderToWrite
      <4>7. ~MsgAhead(a)
        BY <4>4 DEF OlderToWrite, MsgAhead
      <4> QED
        BY <2>1, <3>2, <4>6, <4>7
    <3> QED
      BY <3>3, <3>4
  <2> QED
    BY <1>2, <2>1 DEF NoneLeftBehind
<1>19. FirstDeliveries'
  <2>1. count[m] = 0
    BY <1>2 DEF IInv, ReceivedOnce
  <2>2. ASSUME NEW a \in Messages, NEW n \in Messages, Ordered(a, n)', count[n] > 0
        PROVE  count[a] > 0
    <3>1. n # m
      BY <2>1, <2>2
    <3> QED
      BY <1>8, <2>2, <3>1 DEF OInv, FirstDeliveries
  <2> QED
    BY <1>2, <2>2 DEF FirstDeliveries
<1> QED
  BY <1>9, <1>10, <1>11, <1>14, <1>17, <1>18, <1>19 DEF OInv

LEMMA NextOInv == IInv /\ OInv /\ [Next]_vars => OInv'
<1> SUFFICES ASSUME IInv, OInv, [Next]_vars
             PROVE  OInv'
  OBVIOUS
<1>1. CASE UNCHANGED vars
  <2>1. UNCHANGED <<forAck, forRec, stage, todo, writing, toClient, count, published, disturbed,
                    overtaking>>
    BY <1>1 DEF vars, sessionVars, connectVars, clientVars, historyVars
  <2>2. /\ \A m, n : Ordered(m, n)' <=> Ordered(m, n)
        /\ PublishedOnce' /\ LastOfItsTopic'
    BY <2>1, SameOrder DEF OInv
  <2>3. UndeliveredIsStored' /\ StoredInOrder' /\ FirstDeliveries'
    BY <2>1, <2>2 DEF OInv, UndeliveredIsStored, Stored, StoredInOrder, InOrder, FirstDeliveries
  <2>4. NoneOvertaken(toClient)' /\ NoneOvertaken(todo)'
    BY <2>1, <2>2 DEF OInv, NoneOvertaken
  <2>5. NoneLeftBehind'
    BY <2>1, <2>2 DEF OInv, NoneLeftBehind, MsgWriting, MsgAhead
  <2> QED
    BY <2>2, <2>3, <2>4, <2>5 DEF OInv
<1>2. CASE \E m \in Messages : Publish(m)
  BY <1>2, PublishOInv
<1>3. CASE \E p \in writing : write_channel(p)
  BY <1>3, WriteChannelOInv
<1>4. CASE handle_puback \/ handle_pubrec \/ handle_pubcomp
  BY <1>4, PubackOInv, PubrecOInv, PubcompOInv
<1>5. CASE handle_channel_disconnected \/ handle_connect \/ ConnectionBreaks
  BY <1>5, ConnectionOInv
<1>6. CASE \E t \in Topics : subscribe(t)
  BY <1>6, SubscribeOInv
<1>7. CASE \/ unacked_publish_for_ack \/ unacked_publish_for_rec
           \/ unacked_packet_id_for_pubcomp \/ resumed
  BY <1>7, CopiesOInv
<1>8. CASE retry
  BY <1>8, RetryOInv
<1>9. CASE ClientGetsPublish \/ ClientGetsPubrel
  BY <1>9, ClientPublishOInv, ClientPubrelOInv
<1> QED
  BY <1>1, <1>2, <1>3, <1>4, <1>5, <1>6, <1>7, <1>8, <1>9 DEF Next

-----------------------------------------------------------------------------

\* What is published, copied and read stays in the order of publication.
THEOREM OrderInvariance == Spec => [](IInv /\ OInv)
<1>1. Init => IInv /\ OInv
  BY InitIInv, InitOInv
<1>2. IInv /\ OInv /\ [Next]_vars => (IInv /\ OInv)'
  BY NextIInv, NextOInv
<1> QED
  BY <1>1, <1>2, PTL DEF Spec

\* Of two messages of one topic and one QoS > 0 the first published is the first
\* delivered, through any number of resumptions, if handle_connect had no older one to
\* write when the second was stored.
THEOREM InOrderOfPublication == Spec => []DeliveredInOrder
<1>1. IInv /\ OInv => DeliveredInOrder
  <2> SUFFICES ASSUME IInv, OInv,
                      NEW j \in DOMAIN published, NEW k \in DOMAIN published, j < k,
                      Topic[published[j]] = Topic[published[k]],
                      Qos[published[j]] = Qos[published[k]], Qos[published[k]] > 0,
                      {published[j], published[k]} \cap disturbed = {},
                      published[k] \notin overtaking, count[published[k]] > 0
               PROVE  count[published[j]] > 0
    BY DEF DeliveredInOrder
  <2>1. published \in Seq(Messages)
    BY Types DEF IInv
  <2>2. published[j] \in Messages /\ published[k] \in Messages
    BY <2>1
  <2>3. Ordered(published[j], published[k])
    BY DEF Ordered, Before
  <2> QED
    BY <2>2, <2>3 DEF OInv, FirstDeliveries
<1> QED
  BY <1>1, OrderInvariance, PTL

\* Where a sequence has the identifier.
LEMMA PlacesOf ==
  ASSUME NEW place, NEW s, NEW id
  PROVE  /\ ~Holds(s, id) => AtPlaces(place, s, id) = {}
         /\ Holds(s, id) /\ Once(s, id) => \E x : AtPlaces(place, s, id) = {x}
<1>1. ASSUME Holds(s, id), Once(s, id)
      PROVE  \E x : AtPlaces(place, s, id) = {x}
  <2>1. PICK k \in DOMAIN s : s[k].id = id
    BY <1>1 DEF Holds
  <2>2. {j \in DOMAIN s : s[j].id = id} = {k}
    BY <1>1, <2>1 DEF Once
  <2>3. AtPlaces(place, s, id) = {<<place, k>>}
    BY <2>2 DEF AtPlaces
  <2> QED
    BY <2>3
<1>2. ASSUME ~Holds(s, id)
      PROVE  AtPlaces(place, s, id) = {}
  BY <1>2 DEF Holds, AtPlaces
<1> QED
  BY <1>1, <1>2

\* While a connection is up every unfinished exchange whose PUBLISH was not written
\* twice has exactly one packet under way or to come.
THEOREM OnePacketEach == Spec => []OnePacketPerExchange
<1>1. IInv => OnePacketPerExchange
  <2> SUFFICES ASSUME IInv, conn = "up", NEW id \in IdsInUse \ twice
               PROVE  \E x \in InFlight(id) : InFlight(id) = {x}
    BY DEF OnePacketPerExchange
  <2>1. /\ forAck \in Seq(PublishObject) /\ forRec \in Seq(PublishObject)
        /\ forComp \in Seq(PacketIds)
    BY Types DEF IInv
  <2>2. Unfinished(id) /\ id \in PacketIds
    <3>1. \A o \in PublishObject : o.id \in PacketIds
      BY DEF PublishObject
    <3>2. \/ \E k \in DOMAIN forAck : id = forAck[k].id
          \/ \E k \in DOMAIN forRec : id = forRec[k].id
          \/ \E k \in DOMAIN forComp : id = forComp[k]
      BY DEF IdsInUse, IdsOf
    <3>3. id \in PacketIds
      BY <2>1, <3>1, <3>2
    <3> QED
      BY <3>2, <3>3 DEF Unfinished, Holds, InComp
  <2>3. id \in Alone
    BY <2>2 DEF Alone
  <2>4. UnderWay(id)
    BY <2>2, <2>3 DEF IInv, NoneIsStuck
  <2>5. /\ Once(toClient, id) /\ Once(toBroker, id) /\ Once(todo, id)
        /\ Holds(toClient, id) =>
             ~Holds(toBroker, id) /\ ~Holds(todo, id) /\ ~WritingId(id) /\ ~Ahead(id)
        /\ Holds(toBroker, id) => ~Holds(todo, id) /\ ~WritingId(id) /\ ~Ahead(id)
        /\ Holds(todo, id) => ~WritingId(id) /\ ~Ahead(id)
        /\ WritingId(id) => ~Ahead(id)
    BY <2>3 DEF IInv, OneInFlight
  <2>6. /\ Once(forAck, id) /\ Once(forRec, id) /\ OnceInComp(id)
        /\ Holds(forAck, id) => ~Holds(forRec, id)
        /\ InComp(id) => ~Holds(forAck, id) /\ ~Holds(forRec, id)
    BY <2>2, <2>3 DEF IInv, IdsApart
  <2> DEFINE A == AtPlaces("toClient", toClient, id)
             B == AtPlaces("toBroker", toBroker, id)
             C == AtPlaces("todo", todo, id)
             D == {<<"writing", p>> : p \in {q \in writing : q.id = id}}
             E == IF stage = "subscribing" THEN AtPlaces("forAck", forAck, id) ELSE {}
             F == IF stage \in {"subscribing", "acks"} THEN AtPlaces("forRec", forRec, id) ELSE {}
             G == IF stage \in {"subscribing", "acks", "recs"}
                    THEN {<<"forComp", k>> : k \in {j \in DOMAIN forComp : forComp[j] = id}} ELSE {}
  <2>7. InFlight(id) = A \cup B \cup C \cup D \cup E \cup F \cup G
    BY DEF InFlight
  <2>8. /\ (~Holds(toClient, id) => A = {}) /\ (Holds(toClient, id) => \E x : A = {x})
        /\ (~Holds(toBroker, id) => B = {}) /\ (Holds(toBroker, id) => \E x : B = {x})
        /\ (~Holds(todo, id) => C = {}) /\ (Holds(todo, id) => \E x : C = {x})
    BY <2>5, PlacesOf
  <2>9. /\ (~WritingId(id) => D = {})
        /\ (WritingId(id) => \E x : D = {x})
    <3>1. ASSUME WritingId(id)
          PROVE  \E x : D = {x}
      <4>1. PICK p \in writing : p.id = id
        BY <3>1 DEF WritingId
      <4>2. {q \in writing : q.id = id} = {p}
        BY <2>3, <4>1, WritingOnce
      <4>3. D = {<<"writing", p>>}
        BY <4>2
      <4> QED
        BY <4>3
    <3> QED
      BY <3>1 DEF WritingId
  <2>10. /\ (~(stage = "subscribing" /\ Holds(forAck, id)) => E = {})
         /\ (stage = "subscribing" /\ Holds(forAck, id) => \E x : E = {x})
         /\ (~(stage \in {"subscribing", "acks"} /\ Holds(forRec, id)) => F = {})
         /\ (stage \in {"subscribing", "acks"} /\ Holds(forRec, id) => \E x : F = {x})
    BY <2>6, PlacesOf
  <2>11. /\ (~(stage \in {"subscribing", "acks", "recs"} /\ InComp(id)) => G = {})
         /\ (stage \in {"subscribing", "acks", "recs"} /\ InComp(id) => \E x : G = {x})
    <3>1. ASSUME stage \in {"subscribing", "acks", "recs"}, InComp(id)
          PROVE  \E x : G = {x}
      <4>1. PICK k \in DOMAIN forComp : forComp[k] = id
        BY <3>1 DEF InComp
      <4>2. {j \in DOMAIN forComp : forComp[j] = id} = {k}
        BY <2>6, <4>1 DEF OnceInComp
      <4>3. G = {<<"forComp", k>>}
        BY <3>1, <4>2
      <4> QED
        BY <4>3
    <3> QED
      BY <3>1 DEF InComp
  <2> HIDE DEF A, B, C, D, E, F, G
  <2>12. \E x : InFlight(id) = {x}
    <3>1. CASE Holds(toClient, id)
      <4>1. B = {} /\ C = {} /\ D = {} /\ E = {} /\ F = {} /\ G = {}
        BY <2>5, <2>8, <2>9, <2>10, <2>11, <3>1 DEF Ahead
      <4> QED
        BY <2>7, <2>8, <3>1, <4>1
    <3>2. CASE Holds(toBroker, id)
      <4>1. A = {} /\ C = {} /\ D = {} /\ E = {} /\ F = {} /\ G = {}
        BY <2>5, <2>8, <2>9, <2>10, <2>11, <3>2 DEF Ahead
      <4> QED
        BY <2>7, <2>8, <3>2, <4>1
    <3>3. CASE Holds(todo, id)
      <4>1. A = {} /\ B = {} /\ D = {} /\ E = {} /\ F = {} /\ G = {}
        BY <2>5, <2>8, <2>9, <2>10, <2>11, <3>3 DEF Ahead
      <4> QED
        BY <2>7, <2>8, <3>3, <4>1
    <3>4. CASE WritingId(id)
      <4>1. A = {} /\ B = {} /\ C = {} /\ E = {} /\ F = {} /\ G = {}
        BY <2>5, <2>8, <2>9, <2>10, <2>11, <3>4 DEF Ahead
      <4> QED
        BY <2>7, <2>9, <3>4, <4>1
    <3>5. CASE Ahead(id)
      <4>1. A = {} /\ B = {} /\ C = {} /\ D = {}
        BY <2>5, <2>8, <2>9, <3>5
      <4>2. CASE stage = "subscribing" /\ Holds(forAck, id)
        <5>1. F = {} /\ G = {}
          BY <2>6, <2>10, <2>11, <4>2
        <5> QED
          BY <2>7, <2>10, <4>1, <4>2, <5>1
      <4>3. CASE stage \in {"subscribing", "acks"} /\ Holds(forRec, id)
        <5>1. E = {} /\ G = {}
          BY <2>6, <2>10, <2>11, <4>3
        <5> QED
          BY <2>7, <2>10, <4>1, <4>3, <5>1
      <4>4. CASE stage \in {"subscribing", "acks", "recs"} /\ InComp(id)
        <5>1. E = {} /\ F = {}
          BY <2>6, <2>10, <4>4
        <5> QED
          BY <2>7, <2>11, <4>1, <4>4, <5>1
      <4> QED
        BY <3>5, <4>2, <4>3, <4>4 DEF Ahead
    <3> QED
      BY <2>4, <3>1, <3>2, <3>3, <3>4, <3>5 DEF UnderWay
  <2> QED
    BY <2>12
<1> QED
  BY <1>1, Invariance, PTL

-----------------------------------------------------------------------------
(* The session implements Delivery: every step of the packets, connections *)
(* and containers of module Session is a step of the delivery promise or   *)
(* leaves it as it is.                                                     *)

\* The variables of Delivery, as Session has them.
promiseVars == <<accepted, owed, delivered>>

\* Where an object is stored.
StoredAt(id, m) == Has(forAck, id, m) \/ Has(forRec, id, m)

LEMMA MessagesHas ==
  ASSUME NEW pubs \in Seq(PublishObject)
  PROVE  \A m : m \in MessagesOf(pubs) <=> \E id \in PacketIds : Has(pubs, id, m)
<1>1. \A k \in DOMAIN pubs : pubs[k].id \in PacketIds
  <2>1. \A o \in PublishObject : o.id \in PacketIds
    BY DEF PublishObject
  <2> QED
    BY <2>1
<1> QED
  BY <1>1 DEF MessagesOf, Has

\* The session owes what is stored.
LEMMA OwedIsStored ==
  ASSUME TypeOK, TypeOK'
  PROVE  /\ \A m : m \in owed <=> m \notin disturbed /\ \E id \in PacketIds : StoredAt(id, m)
         /\ \A m : m \in owed' <=> m \notin disturbed' /\ \E id \in PacketIds : StoredAt(id, m)'
<1>1. /\ forAck \in Seq(PublishObject) /\ forRec \in Seq(PublishObject)
      /\ forAck' \in Seq(PublishObject) /\ forRec' \in Seq(PublishObject)
  BY DEF TypeOK
<1>2. /\ \A m : m \in MessagesOf(forAck) <=> \E id \in PacketIds : Has(forAck, id, m)
      /\ \A m : m \in MessagesOf(forRec) <=> \E id \in PacketIds : Has(forRec, id, m)
      /\ \A m : m \in MessagesOf(forAck') <=> \E id \in PacketIds : Has(forAck', id, m)
      /\ \A m : m \in MessagesOf(forRec') <=> \E id \in PacketIds : Has(forRec', id, m)
  BY <1>1, MessagesHas
<1> QED
  BY <1>2 DEF owed, StoredAt

\* Publish accepts the message, unless it disturbs it.
LEMMA PublishAccepts ==
  ASSUME IInv, NEW m \in Messages, Publish(m)
  PROVE  Promise!Accept(m) \/ UNCHANGED promiseVars
<1>1. PICK id \in PacketIds : Stores(id, m)
  BY PublishStores
<1>2. /\ m \notin Range(published) /\ Range(published') = Range(published) \cup {m}
      /\ \A i, n : Has(forAck', i, n) <=> Has(forAck, i, n) \/ (Qos[m] = 1 /\ i = id /\ n = m)
      /\ \A i, n : Has(forRec', i, n) <=> Has(forRec, i, n) \/ (Qos[m] = 2 /\ i = id /\ n = m)
      /\ disturbed' = IF Qos[m] > 0 /\ id \in twice' THEN disturbed \cup {m} ELSE disturbed
      /\ count' = count
  BY <1>1 DEF Stores
<1>3. TypeOK /\ TypeOK' /\ Qos[m] \in 0..2
  BY PublishStores, QosAssumption DEF IInv
<1>4. \A n, i : StoredAt(i, n)' <=> StoredAt(i, n) \/ (Qos[m] > 0 /\ i = id /\ n = m)
  BY <1>2, <1>3 DEF StoredAt
<1>5. count[m] = 0 /\ m \notin disturbed
  BY <1>2 DEF IInv, ReceivedOnce
<1>6. \A i \in PacketIds : ~StoredAt(i, m)
  BY <1>2 DEF IInv, StoredOnce, StoredAt
<1>7. CASE m \in disturbed'
  <2>1. disturbed' = disturbed \cup {m}
    BY <1>2, <1>5, <1>7
  <2>2. accepted' = accepted
    BY <1>2, <2>1 DEF accepted
  <2>3. owed' = owed
    <3>1. \A n : n \in owed' <=> n \in owed
      BY <1>3, <1>4, <1>6, <2>1, OwedIsStored
    <3> QED
      BY <3>1 DEF owed
  <2>4. delivered' = delivered
    BY <1>2, <1>5, <2>1 DEF delivered
  <2> QED
    BY <2>2, <2>3, <2>4 DEF promiseVars
<1>8. CASE m \notin disturbed'
  <2>1. disturbed' = disturbed
    BY <1>2, <1>8
  <2>2. m \notin accepted /\ accepted' = accepted \cup {m}
    BY <1>2, <1>5, <2>1 DEF accepted
  <2>3. owed' = IF Qos[m] = 0 THEN owed ELSE owed \cup {m}
    <3>1. \A n : n \in owed' <=> n \in owed \/ (Qos[m] > 0 /\ n = m)
      BY <1>3, <1>4, <1>5, <2>1, OwedIsStored
    <3>2. CASE Qos[m] = 0
      <4>1. \A n : n \in owed' <=> n \in owed
        BY <3>1, <3>2
      <4> QED
        BY <3>2, <4>1 DEF owed
    <3>3. CASE Qos[m] # 0
      <4>1. Qos[m] > 0
        BY <1>3, <3>3
      <4>2. \A n : n \in owed' <=> n \in owed \cup {m}
        BY <3>1, <4>1
      <4> QED
        BY <3>3, <4>2 DEF owed
    <3> QED
      BY <3>2, <3>3
  <2>4. delivered' = delivered
    BY <1>2, <2>1 DEF delivered
  <2> QED
    BY <2>2, <2>3, <2>4 DEF Promise!Accept
<1> QED
  BY <1>7, <1>8

\* PUBACK and PUBREC release a message that the client has, if its identifier was not
\* written twice.
LEMMA Releases ==
  ASSUME IInv, TypeOK', NEW id \in PacketIds, UNCHANGED <<published, disturbed, count>>,
         \A i, n : i # id => (StoredAt(i, n)' <=> StoredAt(i, n)),
         \A n : StoredAt(id, n)' => StoredAt(id, n),
         id \in Alone => \E m \in Messages : StoredAt(id, m) /\ count[m] > 0,
         id \in Alone => \A n : ~StoredAt(id, n)'
  PROVE  (\E m \in Messages : Promise!Release(m)) \/ UNCHANGED promiseVars
<1>1. accepted' = accepted /\ delivered' = delivered
  BY DEF accepted, delivered
<1>2. /\ \A m : m \in owed <=> m \notin disturbed /\ \E i \in PacketIds : StoredAt(i, m)
      /\ \A m : m \in owed' <=> m \notin disturbed' /\ \E i \in PacketIds : StoredAt(i, m)'
  BY OwedIsStored DEF IInv
<1>3. forAck \in Seq(PublishObject) /\ forRec \in Seq(PublishObject)
  BY Types DEF IInv
<1>4. \A i, n : StoredAt(i, n) => n \in Messages
  BY <1>3, ContainerKinds DEF StoredAt
<1>5. CASE id \in Alone
  <2>1. PICK m \in Messages : StoredAt(id, m) /\ count[m] > 0
    BY <1>5
  <2>2. m \notin disturbed
    BY <1>5, <2>1 DEF IInv, StoredOnce, StoredAt, Alone
  <2>3. \A n : StoredAt(id, n) => n = m
    <3>1. Once(forAck, id) /\ Once(forRec, id) /\ (Holds(forAck, id) => ~Holds(forRec, id))
      BY DEF IInv, IdsApart
    <3> QED
      BY <1>3, <2>1, <3>1, ContainerKinds DEF StoredAt
  <2>4. \A i \in PacketIds : StoredAt(i, m) => i = id
    BY <2>1 DEF IInv, StoredOnce, StoredAt
  <2>5. m \in owed
    BY <1>2, <2>1, <2>2
  <2>6. owed' = owed \ {m}
    <3>1. \A n : n \in owed' <=> n \in owed /\ n # m
      BY <1>2, <1>5, <2>3, <2>4
    <3>2. \A n : n \in owed' <=> n \in owed \ {m}
      BY <3>1
    <3> QED
      BY <3>2 DEF owed
  <2>7. delivered[m] > 0
    BY <2>1, <2>2 DEF delivered
  <2>8. Promise!Release(m)
    BY <1>1, <2>5, <2>6, <2>7 DEF Promise!Release
  <2> QED
    BY <2>8
<1>6. CASE id \notin Alone
  <2>1. \A n : StoredAt(id, n) => n \in disturbed
    BY <1>4, <1>6 DEF IInv, StoredOnce, StoredAt, Alone
  <2>2. \A n : n \in owed' <=> n \in owed
    BY <1>2, <2>1
  <2>3. owed' = owed
    BY <2>2 DEF owed
  <2> QED
    BY <1>1, <2>3 DEF promiseVars
<1> QED
  BY <1>5, <1>6

LEMMA PubackReleases ==
  ASSUME IInv, TypeOK', handle_puback
  PROVE  (\E m \in Messages : Promise!Release(m)) \/ UNCHANGED promiseVars
<1> PICK h, id : h = Head(toBroker) /\ id = h.id
  OBVIOUS
<1>1. /\ Receive("PUBACK") /\ forAck' \in ReleasePublish(forAck, id)
      /\ UNCHANGED <<forRec, published, disturbed, count>>
  BY DEF handle_puback, clientVars, historyVars
<1>2. id \in PacketIds /\ TypeIn(toBroker, "PUBACK", id)
  BY <1>1, ReceiveFacts
<1>3. forAck \in Seq(PublishObject) /\ forRec \in Seq(PublishObject)
  BY Types DEF IInv
<1>4. \A i, m : Has(forAck', i, m) <=> Has(forAck, i, m) /\ i # id
  BY <1>1, <1>3, ReleasePublishPlaces DEF IInv, IdsApart
<1>5. /\ \A i, n : i # id => (StoredAt(i, n)' <=> StoredAt(i, n))
      /\ \A n : StoredAt(id, n)' => StoredAt(id, n)
      /\ \A n : StoredAt(id, n)' => Has(forRec, id, n)
  BY <1>1, <1>4 DEF StoredAt
<1>6. id \in Alone => \E m \in Messages : Has(forAck, id, m) /\ count[m] > 0
  BY <1>2 DEF IInv, AnswersExpected
<1>7. id \in Alone => ~Holds(forRec, id)
  BY <1>3, <1>6, ContainerKinds DEF IInv, IdsApart, Alone
<1>8. id \in Alone => \A n : ~StoredAt(id, n)'
  BY <1>3, <1>5, <1>7, ContainerKinds
<1>9. id \in Alone => \E m \in Messages : StoredAt(id, m) /\ count[m] > 0
  BY <1>6 DEF StoredAt
<1> QED
  BY <1>1, <1>2, <1>5, <1>8, <1>9, Releases

LEMMA PubrecReleases ==
  ASSUME IInv, TypeOK', handle_pubrec
  PROVE  (\E m \in Messages : Promise!Release(m)) \/ UNCHANGED promiseVars
<1> PICK h, id : h = Head(toBroker) /\ id = h.id
  OBVIOUS
<1>1. /\ Receive("PUBREC") /\ forRec' \in ReleasePublish(forRec, id)
      /\ UNCHANGED <<forAck, published, disturbed, count>>
  BY DEF handle_pubrec, clientVars, historyVars
<1>2. id \in PacketIds /\ TypeIn(toBroker, "PUBREC", id)
  BY <1>1, ReceiveFacts
<1>3. forAck \in Seq(PublishObject) /\ forRec \in Seq(PublishObject)
  BY Types DEF IInv
<1>4. \A i, m : Has(forRec', i, m) <=> Has(forRec, i, m) /\ i # id
  BY <1>1, <1>3, ReleasePublishPlaces DEF IInv, IdsApart
<1>5. /\ \A i, n : i # id => (StoredAt(i, n)' <=> StoredAt(i, n))
      /\ \A n : StoredAt(id, n)' => StoredAt(id, n)
      /\ \A n : StoredAt(id, n)' => Has(forAck, id, n)
  BY <1>1, <1>4 DEF StoredAt
<1>6. id \in Alone => Holds(forRec, id) /\ id \in recIds
  BY <1>2 DEF IInv, AnswersExpected
<1>7. id \in Alone => ~Holds(forAck, id)
  BY <1>6 DEF IInv, IdsApart, Alone
<1>8. id \in Alone => \A n : ~StoredAt(id, n)'
  BY <1>3, <1>5, <1>7, ContainerKinds
<1>9. ASSUME id \in Alone
      PROVE  \E m \in Messages : StoredAt(id, m) /\ count[m] > 0
  <2>1. PICK m \in Messages : Has(forRec, id, m)
    BY <1>3, <1>6, <1>9, ContainerKinds
  <2>2. count[m] = 1
    BY <1>6, <1>9, <2>1 DEF IInv, ReceivedOnce
  <2> QED
    BY <2>1, <2>2 DEF StoredAt
<1> QED
  BY <1>1, <1>2, <1>5, <1>8, <1>9, Releases

\* A PUBLISH that the client reads is a delivery of a message it may have, one whose
\* identifier it holds already, or one whose identifier was written twice.
LEMMA ClientDelivers ==
  ASSUME IInv, TypeOK', ClientGetsPublish
  PROVE  (\E m \in Messages : Promise!Deliver(m)) \/ UNCHANGED promiseVars
<1> PICK h, id, m : h = Head(toClient) /\ id = h.id /\ m = h.msg
  OBVIOUS
<1>1. /\ m \in Messages /\ Qos[m] \in 0..2 /\ id \in 0..MaxId
      /\ m \in Range(published)
      /\ PubIn(toClient, id, m) /\ Outgoing(id, m) /\ Holds(toClient, id)
      /\ Qos[m] = 0 => id = 0 /\ Read(h, <<>>) /\ count[m] = 0
      /\ Qos[m] = 1 => /\ id \in PacketIds /\ Ack("PUBACK", id) \in ToBrokerPacket
                       /\ Read(h, <<Ack("PUBACK", id)>>)
                       /\ id \in Alone => Has(forAck, id, m) /\ m \notin disturbed
                       /\ id \notin Alone => m \in disturbed
      /\ Qos[m] = 2 => /\ id \in PacketIds /\ Ack("PUBREC", id) \in ToBrokerPacket
                       /\ Read(h, <<Ack("PUBREC", id)>>)
                       /\ id \in Alone => Has(forRec, id, m) /\ m \notin disturbed
                       /\ id \notin Alone => m \in disturbed
      /\ recIds' = IF Qos[m] = 2 THEN recIds \cup {id} ELSE recIds
      /\ count' = IF Qos[m] = 2 /\ id \in recIds THEN count ELSE [count EXCEPT ![m] = @ + 1]
      /\ \A n \in Messages : /\ count[n] \in Nat /\ count'[n] \in Nat
                             /\ n # m => count'[n] = count[n]
                             /\ count[n] > 0 => count'[n] > 0
  BY ClientPublishFacts
<1>2. UNCHANGED <<forAck, forRec, published, disturbed>>
  BY DEF ClientGetsPublish, ClientReads, sessionVars, historyVars
<1>3. accepted' = accepted /\ owed' = owed
  BY <1>2 DEF accepted, owed
<1>4. count \in [Messages -> Nat]
  BY DEF IInv, TypeOK
<1>5. CASE m \in disturbed \/ (Qos[m] = 2 /\ id \in recIds)
  <2>1. delivered' = delivered
    BY <1>1, <1>2, <1>4, <1>5 DEF delivered
  <2> QED
    BY <1>3, <2>1 DEF promiseVars
<1>6. CASE m \notin disturbed /\ ~(Qos[m] = 2 /\ id \in recIds)
  <2>1. m \in accepted
    BY <1>1, <1>6 DEF accepted
  <2>2. delivered' = [delivered EXCEPT ![m] = @ + 1]
    BY <1>1, <1>2, <1>4, <1>6 DEF delivered
  <2>3. delivered[m] = count[m]
    BY <1>1, <1>6 DEF delivered
  <2>4. Qos[m] # 0 => m \in owed
    <3>1. Qos[m] # 0 => Has(forAck, id, m) \/ Has(forRec, id, m)
      BY <1>1, <1>6
    <3>2. ASSUME NEW pubs, Has(pubs, id, m)
          PROVE  m \in MessagesOf(pubs)
      BY <3>2 DEF Has, MessagesOf
    <3> QED
      BY <1>6, <3>1, <3>2 DEF owed
  <2>5. Qos[m] # 1 => count[m] = 0
    BY <1>1, <1>6 DEF IInv, ReceivedOnce
  <2>6. Promise!Deliver(m)
    BY <1>3, <2>1, <2>2, <2>3, <2>4, <2>5 DEF Promise!Deliver
  <2> QED
    BY <1>1, <2>6
<1> QED
  BY <1>5, <1>6

-----------------------------------------------------------------------------

LEMMA InitPromise == Init => Promise!Init
BY DEF Init, Promise!Init, accepted, owed, delivered, MessagesOf, Range

LEMMA StepPromise ==
  ASSUME IInv, [Next]_vars
  PROVE  [Promise!Next]_promiseVars
<1>1. TypeOK'
  BY NextIInv DEF IInv
<1>2. ASSUME NEW m \in Messages, Publish(m)
      PROVE  [Promise!Next]_promiseVars
  BY <1>2, PublishAccepts DEF Promise!Next
<1>3. CASE handle_puback
  BY <1>1, <1>3, PubackReleases DEF Promise!Next
<1>4. CASE handle_pubrec
  BY <1>1, <1>4, PubrecReleases DEF Promise!Next
<1>5. CASE ClientGetsPublish
  BY <1>1, <1>5, ClientDelivers DEF Promise!Next
<1>6. CASE retry
  <2>1. /\ forAck' = IF stage = "acks" THEN Mark(forAck, Head(todo).id) ELSE forAck
        /\ forRec' = IF stage = "recs" THEN Mark(forRec, Head(todo).id) ELSE forRec
        /\ UNCHANGED <<published, disturbed, count>>
    BY <1>6 DEF retry, clientVars, historyVars
  <2>2. forAck \in Seq(PublishObject) /\ forRec \in Seq(PublishObject)
    BY Types DEF IInv
  <2>3. MessagesOf(forAck') = MessagesOf(forAck) /\ MessagesOf(forRec') = MessagesOf(forRec)
    BY <2>1, <2>2, MarkPlaces
  <2> QED
    BY <2>1, <2>3 DEF promiseVars, accepted, owed, delivered
<1>7. CASE \/ \E p \in writing : write_channel(p)
           \/ handle_pubcomp \/ handle_channel_disconnected \/ handle_connect
           \/ \E t \in Topics : subscribe(t)
           \/ unacked_publish_for_ack \/ unacked_publish_for_rec
           \/ unacked_packet_id_for_pubcomp \/ resumed
           \/ ConnectionBreaks \/ ClientGetsPubrel \/ UNCHANGED vars
  <2>1. UNCHANGED <<forAck, forRec, published, disturbed, count>>
    BY <1>7 DEF write_channel, handle_pubcomp, handle_channel_disconnected, handle_connect,
       subscribe, unacked_publish_for_ack, unacked_publish_for_rec, unacked_packet_id_for_pubcomp,
       resumed, Copy, ConnectionBreaks, ClientGetsPubrel, ClientReads,
       vars, sessionVars, clientVars, historyVars
  <2> QED
    BY <2>1 DEF promiseVars, accepted, owed, delivered
<1> QED
  BY <1>2, <1>3, <1>4, <1>5, <1>6, <1>7 DEF Next

\* The session implements its promise, with any number of packet identifiers, about every
\* message whose identifier was not written twice: it is delivered only after it was
\* published, at most once for QoS 0 and exactly once for QoS 2, and it leaves the broker's
\* containers only after it was delivered (mqtt_client.cpp:17-60, mqtt_server.cpp:284-302).
THEOREM ImplementsDelivery == Spec => Refinement
<1>1. Init => Promise!Init
  BY InitPromise
<1>2. IInv /\ [Next]_vars => [Promise!Next]_promiseVars
  BY StepPromise
<1> QED
  BY <1>1, <1>2, Invariance, PTL DEF Spec, Refinement, Promise!Spec, Promise!vars, promiseVars

=============================================================================
