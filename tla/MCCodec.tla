------------------------------ MODULE MCCodec ------------------------------
(***************************************************************************)
(* A small instance of Codec: scripts with every packet a client sends, a  *)
(* PUBLISH whose remaining length takes two bytes, and packets that are    *)
(* not sound.                                                              *)
(***************************************************************************)
EXTENDS Codec

\* 'x', and 'x/#'.
X == <<120>>
XHash == <<120, 47, 35>>

Connect ==
  [type |-> CONNECT, protocol |-> <<77, 81, 84, 84>>, level |-> 4, flags |-> 206,
   keep_alive |-> 300, payload |-> <<X, <<195, 169>>, <<0>>, <<226, 130, 172>>, <<255>>>>]
Publication(qos, size) ==
  [type |-> PUBLISH, dup |-> FALSE, qos |-> qos, retain |-> TRUE, topic |-> X,
   id |-> IF qos = 0 THEN 0 ELSE 258, payload |-> [k \in 1..size |-> 7]]
Subscription(filters, qoses) ==
  [type |-> SUBSCRIBE, id |-> 1, filters |-> filters, qoses |-> qoses]
Unsubscription(filters) ==
  [type |-> UNSUBSCRIBE, id |-> 2, filters |-> filters, qoses |-> <<>>]
Acknowledgement(type) == [type |-> type, id |-> 258]
RawBytes(bytes) == [type |-> Raw, bytes |-> bytes]

MCScripts == {
  <<Connect, Subscription(<<X, XHash>>, <<0, 2>>), [type |-> PINGREQ]>>,
  <<Publication(0, 130), [type |-> PINGREQ], Publication(2, 1)>>,
  <<Acknowledgement(PUBREC), Unsubscription(<<XHash, X>>), Acknowledgement(PUBREL),
    Publication(1, 0), Acknowledgement(PUBCOMP), [type |-> DISCONNECT]>>,
  <<Acknowledgement(PUBACK)>>,
  \* An invalid filter, alone and with enough bytes after it to be read on.
  <<Subscription(<<<<120, 35>>>>, <<0>>), [type |-> PINGREQ]>>,
  <<Subscription(<<<<120, 35>>>>, <<0>>), Publication(0, 130)>>,
  \* A remaining length of four bytes, bad flags, a packet only a server sends.
  <<[type |-> PINGREQ], RawBytes(<<48, 128, 128, 128, 1>>)>>,
  <<RawBytes(<<193, 0>>)>>,
  <<RawBytes(<<32, 2, 0, 0>>)>>}

=============================================================================
