------------------------------- MODULE Codec -------------------------------
(***************************************************************************)
(* The way of a client's bytes into the broker: mqtt_codec::channel_read   *)
(* finds packets in what has arrived of a TCP stream, the packet classes   *)
(* parse them, and packet_handler::channel_read takes them.  The stream    *)
(* arrives in segments cut anywhere.  Bytes are the integers 0..255.       *)
(*                                                                         *)
(* Whatever goes wrong in a parser - mqtt_error, or not_enough_error after *)
(* which packet_handler is given the raw buffer and throws - ends in       *)
(* exception_caught and close(): a parser here returns the set of its      *)
(* results, and {} is failure.                                             *)
(***************************************************************************)
EXTENDS Integers, Sequences, SequencesExt

CONSTANTS
  Scripts    \* sequences of packets a client may send

VARIABLES
  packets,   \* the packets the client sends, one of Scripts
  arrived,   \* how many bytes of them have arrived in the channel's streambuf
  read,      \* how many of these the codec has consumed
  waiting,   \* the codec has asked for more (ctx->done) or the streambuf is empty
  open,      \* the channel is open
  handed     \* the packets given to packet_handler

vars == <<packets, arrived, read, waiting, open, handed>>

CONNECT == 1
PUBLISH == 3
PUBACK == 4
PUBREC == 5
PUBREL == 6
PUBCOMP == 7
SUBSCRIBE == 8
UNSUBSCRIBE == 10
PINGREQ == 12
DISCONNECT == 14
Raw == -1
Acknowledgements == {PUBACK, PUBREC, PUBREL, PUBCOMP}

Byte == 0..255
Uint16 == 0..65535
\* What encode_string and encode_binary take.
Bytes16 == {s \in Seq(Byte) : Len(s) \in Uint16}

\* What a client may send: the packets of the classes, and any bytes.
PacketType ==
  [type : {CONNECT}, protocol : Bytes16, level : Byte, flags : Byte, keep_alive : Uint16,
   payload : Seq(Bytes16)]
  \cup [type : {PUBLISH}, dup : BOOLEAN, qos : 0..2, retain : BOOLEAN, topic : Bytes16,
        id : Uint16, payload : Seq(Byte)]
  \cup {p \in [type : {SUBSCRIBE}, id : Uint16, filters : Seq(Bytes16), qoses : Seq(0..2)] :
          Len(p.qoses) = Len(p.filters)}
  \cup [type : {UNSUBSCRIBE}, id : Uint16, filters : Seq(Bytes16), qoses : {<<>>}]
  \cup [type : Acknowledgements, id : Uint16]
  \cup [type : {PINGREQ, DISCONNECT}]
  \cup [type : {Raw}, bytes : Seq(Byte)]

ASSUME ScriptAssumption == Scripts \subseteq Seq(PacketType)

Filter == INSTANCE Wildcards WITH Slash <- 47, Plus <- 43, Hash <- 35
ValidFilter(f) == Filter!is_topic_filter_valid(f)

-----------------------------------------------------------------------------
(* serialize, which a client would do as the packet classes do *)

Word(n) == <<n \div 256, n % 256>>
Encoded(s) == Word(Len(s)) \o s

\* fixed_header::serialize and encode_remaining_length.
EncodeLength[n \in Nat] ==
  IF n < 128 THEN <<n>> ELSE <<128 + (n % 128)>> \o EncodeLength[n \div 128]

If(condition, s) == IF condition THEN s ELSE <<>>
Bit(condition, value) == IF condition THEN value ELSE 0

\* The fields of the payload of a CONNECT, those present by the flags, follow each other.
SerializeConnect(p) ==
  Encoded(p.protocol) \o <<p.level, p.flags>> \o Word(p.keep_alive)
  \o FlattenSeq([k \in DOMAIN p.payload |-> Encoded(p.payload[k])])

SerializePublish(p) == Encoded(p.topic) \o If(p.qos > 0, Word(p.id)) \o p.payload

\* A packet with a list of filters; those of a SUBSCRIBE are followed by the QoS.
SerializeFilters(p) ==
  Word(p.id) \o FlattenSeq([k \in DOMAIN p.filters |->
                   Encoded(p.filters[k]) \o If(p.type = SUBSCRIBE, <<p.qoses[k]>>)])

\* What follows the fixed header, and the flags in it.
Body(p) ==
  CASE p.type = CONNECT -> SerializeConnect(p)
    [] p.type = PUBLISH -> SerializePublish(p)
    [] p.type \in {SUBSCRIBE, UNSUBSCRIBE} -> SerializeFilters(p)
    [] p.type \in Acknowledgements -> Word(p.id)
    [] p.type \in {PINGREQ, DISCONNECT} -> <<>>
Flags(p) ==
  CASE p.type = PUBLISH -> Bit(p.dup, 8) + 2 * p.qos + Bit(p.retain, 1)
    [] p.type \in {PUBREL, SUBSCRIBE, UNSUBSCRIBE} -> 2
    [] OTHER -> 0

\* Raw packets are bytes that no serialize produces.
Serialize(p) ==
  IF p.type = Raw THEN p.bytes
  ELSE <<16 * p.type + Flags(p)>> \o EncodeLength[Len(Body(p))] \o Body(p)

StreamOf(ps) == FlattenSeq([k \in DOMAIN ps |-> Serialize(ps[k])])
Stream == StreamOf(packets)

-----------------------------------------------------------------------------
(* Parsers.  b is the streambuf from the start of the packet; p is how many *)
(* bytes of it have been read.  A result has the position after it as at.   *)

Has(b, p, n) == p + n <= Len(b)
WordAt(b, p) == 256 * b[p + 1] + b[p + 2]

\* The length of the UTF-8 character that begins with this byte; a byte that
\* begins none is dropped.
Width(byte) == IF byte <= 127 \/ byte > 247 THEN 1
               ELSE IF byte <= 223 THEN 2 ELSE IF byte <= 239 THEN 3 ELSE 4
IllFormed(s, k) ==
  \/ s[k] = 0
  \/ k + Width(s[k]) > Len(s) + 1
  \/ s[k] = 237 /\ s[k + 1] >= 160

\* The characters from byte k on.
Characters(s) ==
  LET from[k \in 1..(Len(s) + 1)] ==
        IF k = Len(s) + 1 THEN {<<>>}
        ELSE IF IllFormed(s, k) THEN {}
        ELSE {If(s[k] <= 247, SubSeq(s, k, k + Width(s[k]) - 1)) \o t : t \in from[k + Width(s[k])]}
  IN  from[1]

decode_binary(b, p) ==
  LET end == p + 2 + WordAt(b, p)
  IN  IF Has(b, p, 2) /\ end <= Len(b)
        THEN {[at |-> end, text |-> SubSeq(b, p + 3, end)]}
        ELSE {}

decode_string(b, p) ==
  UNION {{[at |-> r.at, text |-> t] : t \in Characters(r.text)} : r \in decode_binary(b, p)}

ConnectFlagsOk(flags) ==
  LET will == (flags \div 4) % 2 = 1
      qos  == (flags \div 8) % 4
  IN  /\ flags % 2 = 0
      /\ ~will => qos = 0 /\ (flags \div 32) % 2 = 0
      /\ qos < 3

\* What is in the payload: client id, will topic and message, user name, password.
ConnectFields(flags) ==
  <<"string">> \o If((flags \div 4) % 2 = 1, <<"string", "binary">>)
  \o If((flags \div 128) % 2 = 1, <<"string">>) \o If((flags \div 64) % 2 = 1, <<"binary">>)

\* Fields of these kinds, one after the other.
ParseFields(b, p, kinds) ==
  LET fields[k \in 0..Len(kinds)] ==
        IF k = 0 THEN {[at |-> p, texts |-> <<>>]}
        ELSE UNION {{[at |-> s.at, texts |-> Append(r.texts, s.text)] :
                       s \in IF kinds[k] = "string" THEN decode_string(b, r.at)
                                                    ELSE decode_binary(b, r.at)} :
                    r \in fields[k - 1]}
  IN  fields[Len(kinds)]

\* mqtt_connect::mqtt_connect.
ParseConnect(b, p) ==
  UNION {
    {[at |-> r.at,
      packet |-> [type |-> CONNECT, protocol |-> s.text, level |-> b[s.at + 1],
                  flags |-> b[s.at + 2], keep_alive |-> WordAt(b, s.at + 2),
                  payload |-> r.texts]] :
       r \in ParseFields(b, s.at + 4, ConnectFields(b[s.at + 2]))} :
    s \in {t \in decode_string(b, p) : Has(b, t.at, 4) /\ ConnectFlagsOk(b[t.at + 2])}}

\* The rest of a PUBLISH is its payload.
\* Mutant: the packet identifier is not part of the variable header.
PayloadLengthNoId(length, name, qos) == length - (Len(name) + 2)
PayloadLength(length, name, qos) == length - (Len(name) + 2 + Bit(qos > 0, 2))

\* mqtt_publish::mqtt_publish: no name that is empty, or begins with '$' (36), or has
\* a wildcard.
ParsePublish(b, p, flags, length) ==
  LET qos == (flags \div 2) % 4
      Ok(s) == LET id == s.at + Bit(qos > 0, 2)
                   size == PayloadLength(length, s.text, qos)
               IN  /\ s.text # <<>> /\ s.text[1] # 36
                   /\ {s.text[k] : k \in DOMAIN s.text} \cap {35, 43} = {}
                   /\ size >= 0 /\ Has(b, id, size)
  IN  {LET id == s.at + Bit(qos > 0, 2)
           end == id + PayloadLength(length, s.text, qos)
       IN  [at |-> end,
            packet |-> [type |-> PUBLISH, dup |-> flags >= 8, qos |-> qos,
                        retain |-> flags % 2 = 1, topic |-> s.text,
                        id |-> IF qos > 0 THEN WordAt(b, s.at) ELSE 0,
                        payload |-> SubSeq(b, id + 1, end)]] :
         s \in {r \in decode_string(b, p) : (qos = 0 => flags < 8) /\ qos < 3 /\ Ok(r)}}

\* Filters as long as something remains.  The QoS byte of a SUBSCRIBE is not read
\* after an invalid filter, and 128 (0x80) is put in its place.
ParseFilters(b, p, type, length) ==
  LET filters[q \in 1..Len(b)] == [remain \in Int |->
        IF remain <= 0 THEN {[at |-> q, filters |-> <<>>, qoses |-> <<>>]}
        ELSE UNION {
          LET withQos == type = SUBSCRIBE /\ ValidFilter(s.text)
              next == s.at + Bit(withQos, 1)
              qos == IF withQos THEN <<b[next]>> ELSE If(type = SUBSCRIBE, <<128>>)
          IN  IF next > Len(b) \/ (withQos /\ b[next] >= 3) THEN {}
              ELSE {[at |-> r.at, filters |-> <<s.text>> \o r.filters, qoses |-> qos \o r.qoses] :
                      r \in filters[next][remain - (Len(s.text) + 2 + Bit(withQos, 1))]} :
          s \in {t \in decode_string(b, q) : t.text # <<>>}}]
  IN  IF ~Has(b, p, 2) THEN {}
      ELSE {[at |-> r.at, packet |-> [type |-> type, id |-> WordAt(b, p),
                                      filters |-> r.filters, qoses |-> r.qoses]] :
              r \in {x \in filters[p + 2][length - 2] : x.filters # <<>>}}

\* mqtt_subscribe::mqtt_subscribe and mqtt_unsubscribe::mqtt_unsubscribe.
ParseSubscribe(b, p, length) == ParseFilters(b, p, SUBSCRIBE, length)
ParseUnsubscribe(b, p, length) == ParseFilters(b, p, UNSUBSCRIBE, length)

\* Where the packet identifier of an acknowledgement ends.
\* Mutant: it has three bytes.
AckEndWide(p) == p + 3
AckEnd(p) == p + 2

\* The packet classes, by the type in the fixed header.  A packet only a server
\* sends, or one of no type, fails in packet_handler.
Parse(b, p, type, flags, length) ==
  CASE type = CONNECT -> ParseConnect(b, p)
    [] type = PUBLISH -> ParsePublish(b, p, flags, length)
    [] type = SUBSCRIBE -> ParseSubscribe(b, p, length)
    [] type = UNSUBSCRIBE -> ParseUnsubscribe(b, p, length)
    [] type \in Acknowledgements ->
         IF Has(b, p, 2)
           THEN {[at |-> AckEnd(p), packet |-> [type |-> type, id |-> WordAt(b, p)]]}
           ELSE {}
    [] type \in {PINGREQ, DISCONNECT} -> {[at |-> p, packet |-> [type |-> type]]}
    [] OTHER -> {}

-----------------------------------------------------------------------------
(* fixed_header and the codec *)

FlagsOk(type, flags) ==
  CASE type \in {PUBREL, SUBSCRIBE, UNSUBSCRIBE} -> flags = 2
    [] type = PUBLISH -> (flags \div 2) % 4 # 3
    [] type \in {0, 15} -> TRUE
    [] OTHER -> flags = 0

\* decode_remaining_length: at most three bytes, all but the last with bit 7 set.
Digits(b) == {n \in 1..3 : /\ Has(b, 1, n)
                           /\ b[n + 1] < 128
                           /\ \A k \in 2..n : b[k] >= 128}
decode_remaining_length(b) ==
  {LET digit(k) == IF k <= n THEN b[k + 1] % 128 ELSE 0
   IN  [at |-> n + 1, length |-> digit(1) + 128 * digit(2) + 16384 * digit(3)] : n \in Digits(b)}

\* fixed_header::fixed_header.
Header(b) ==
  IF FlagsOk(b[1] \div 16, b[1] % 16) THEN decode_remaining_length(b) ELSE {}

\* The streambuf holds less than the fixed header announces.
\* Mutants: this is not looked at; the last byte is not counted.
IncompleteNot(b, h) == FALSE
IncompleteAtEnd(b, h) == Len(b) - h.at <= h.length
Incomplete(b, h) == Len(b) - h.at < h.length

\* What the codec makes of the streambuf b: {} is an exception.
Packet(b) ==
  UNION {Parse(b, h.at, b[1] \div 16, b[1] % 16, h.length) : h \in Header(b)}

AwaitsMore(b) == Len(b) < 2 \/ \E h \in Header(b) : Incomplete(b, h)

Init ==
  /\ packets \in Scripts
  /\ arrived = 0
  /\ read = 0
  /\ waiting = TRUE
  /\ open = TRUE
  /\ handed = <<>>

\* The network library reads a segment when the handlers have no use for what is there.
SegmentArrives(n) ==
  /\ open /\ waiting
  /\ arrived + n <= Len(Stream)
  /\ arrived' = arrived + n
  /\ waiting' = FALSE
  /\ UNCHANGED <<packets, read, open, handed>>

\* mqtt_codec::channel_read and packet_handler::channel_read, once.
channel_read ==
  LET b == SubSeq(Stream, read + 1, arrived)
  IN  /\ open /\ ~waiting
      /\ \/ /\ AwaitsMore(b)
            /\ waiting' = TRUE
            /\ UNCHANGED <<read, open, handed>>
         \/ /\ ~AwaitsMore(b)
            /\ \E r \in Packet(b) :
                 /\ read' = read + r.at
                 /\ handed' = Append(handed, r.packet)
            /\ waiting' = (read' = arrived)
            /\ open' = open
         \/ /\ ~AwaitsMore(b)
            /\ Packet(b) = {}
            /\ open' = FALSE
            /\ UNCHANGED <<read, waiting, handed>>
      /\ UNCHANGED <<packets, arrived>>

Next ==
  \/ \E n \in 1..(Len(Stream) - arrived) : SegmentArrives(n)
  \/ channel_read

\* The client sends all of its packets, and worker threads handle what arrives.
FairSpec ==
  Init /\ [][Next]_vars
  /\ WF_vars(\E n \in 1..(Len(Stream) - arrived) : SegmentArrives(n))
  /\ WF_vars(channel_read)

-----------------------------------------------------------------------------
(* Properties *)

TypeOK ==
  /\ packets \in Scripts
  /\ arrived \in 0..Len(Stream)
  /\ read \in 0..arrived
  /\ waiting \in BOOLEAN
  /\ open \in BOOLEAN
  /\ Len(handed) <= read

\* Characters of UTF-8, by the bytes they begin with, and none of them U+0000 or a
\* surrogate: bytes that decode_string passes on as they are.
IsText(s) ==
  \E starts \in SUBSET (1..Len(s)) :
    /\ s # <<>> => 1 \in starts
    /\ \A k \in starts : /\ s[k] \in 1..247
                         /\ k + Width(s[k]) \in starts \cup {Len(s) + 1}
                         /\ s[k] = 237 => s[k + 1] < 160

SoundConnect(p) ==
  LET kinds == ConnectFields(p.flags) IN
  /\ IsText(p.protocol) /\ ConnectFlagsOk(p.flags)
  /\ Len(p.payload) = Len(kinds)
  /\ \A k \in DOMAIN kinds : kinds[k] = "string" => IsText(p.payload[k])
SoundPublish(p) ==
  /\ IsText(p.topic) /\ p.topic # <<>> /\ p.topic[1] # 36
  /\ \A k \in DOMAIN p.topic : p.topic[k] \notin {35, 43}
  /\ p.qos = 0 => ~p.dup /\ p.id = 0
SoundFilters(p) ==
  /\ p.filters # <<>>
  /\ \A k \in DOMAIN p.filters : /\ IsText(p.filters[k]) /\ p.filters[k] # <<>>
                                 /\ p.type = SUBSCRIBE => ValidFilter(p.filters[k])

\* A packet a conforming client may send and the broker's parsers support.
Sound(p) ==
  /\ p.type # Raw
  /\ Len(Body(p)) < 128 * 128 * 128
  /\ p.type = CONNECT => SoundConnect(p)
  /\ p.type = PUBLISH => SoundPublish(p)
  /\ p.type \in {SUBSCRIBE, UNSUBSCRIBE} => SoundFilters(p)
SoundUpTo(k) == \A j \in 1..k : j \in DOMAIN packets /\ Sound(packets[j])

\* What is handed on is what was serialized, packet by packet and field by field,
\* wherever the stream was cut - up to the first packet that is not sound.
HandedAreSent ==
  \A k \in DOMAIN handed : SoundUpTo(k) => handed[k] = packets[k]

\* The bytes up to the end of packet k.
EndOf(k) == Len(StreamOf(SubSeq(packets, 1, k)))

\* While all is sound the channel is closed in one case only: a segment ended inside
\* the remaining length of a packet (mqtt_codec.cpp:94-95 rewinds the streambuf but
\* lets it through to packet_handler.cpp:24-25).
ClosedOnlyInsideLength ==
  LET k == Len(handed) + 1
  IN  ~open /\ SoundUpTo(k) =>
        \E n \in 1..2 : /\ arrived = EndOf(k - 1) + 1 + n
                        /\ \A j \in 1..n : Stream[EndOf(k - 1) + 1 + j] >= 128

\* No sound packet stays in the streambuf: all are handed on, or the channel closed.
EverythingHandled ==
  SoundUpTo(Len(packets)) => <>(handed = packets \/ ~open)

=============================================================================
