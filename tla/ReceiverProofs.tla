--------------------------- MODULE ReceiverProofs ---------------------------
(***************************************************************************)
(* Theorems about module Receiver, for every set of messages and QoS       *)
(* levels and every number of broken connections.                          *)
(***************************************************************************)
EXTENDS Receiver, SequenceLemmas

-----------------------------------------------------------------------------
(* The inductive invariant: what the packets under way say of the message they are *)
(* about.                                                                           *)

\* At most one packet about a message is under way, in either direction.
OneUnderWay ==
  /\ \A j, k \in DOMAIN toBroker : toBroker[j].id = toBroker[k].id => j = k
  /\ \A j, k \in DOMAIN toClient : toClient[j].id = toClient[k].id => j = k
  /\ \A j \in DOMAIN toBroker, k \in DOMAIN toClient : toBroker[j].id # toClient[k].id

\* A PUBLISH on its way is the first copy, or sent again after a broken connection.
ToBrokerAgrees ==
  \A k \in DOMAIN toBroker, m \in Messages :
    toBroker[k].id = m =>
      \/ toBroker[k].type = "PUBLISH" /\ exchange[m] = "sent" /\ Passed(m) <= drops
      \/ toBroker[k].type = "PUBREL" /\ exchange[m] = "released"

\* An acknowledgement on its way is of a message that was forwarded or is at hand.
ToClientAgrees ==
  \A k \in DOMAIN toClient, m \in Messages :
    toClient[k].id = m =>
      \/ toClient[k].type \in {"PUBACK", "PUBREC"} /\ exchange[m] = "sent" /\ Passed(m) >= 1
      \/ toClient[k].type = "PUBCOMP" /\ exchange[m] = "released"

\* A broken connection has no packets under way and pays for one more copy of each.
BrokenIsEmpty ==
  ~connected => toBroker = <<>> /\ toClient = <<>> /\ \A m \in Messages : Passed(m) <= drops

\* Nothing is at hand for a connection still to come.
NothingAhead == \A c \in 0..MaxDrops : c > drops => forwarding[c] = None

NewIsUnknown == \A m \in Messages : exchange[m] = "new" => Passed(m) = 0

\* AcknowledgedInHand and RecordedUntilReleased, by the number of copies.
Acknowledged == \A m \in Messages : exchange[m] \in {"released", "done"} => Passed(m) >= 1
Recorded ==
  \A m \in Messages :
    Qos[m] = 2 /\ exchange[m] = "sent" /\ Passed(m) >= 1 => m \in Range(forRel)

Copies(m) == {k \in DOMAIN forRel : forRel[k] = m}

IInv ==
  /\ TypeOK
  /\ OneUnderWay
  /\ ToBrokerAgrees
  /\ ToClientAgrees
  /\ BrokenIsEmpty
  /\ NothingAhead
  /\ NewIsUnknown
  /\ Acknowledged
  /\ Recorded
  /\ CopiesBounded

-----------------------------------------------------------------------------
(* Lemmas about what a step does to a stream and to forRel *)

\* Reading the head of the client's stream.
LEMMA ReceiveElements ==
  ASSUME IInv, NEW type, Receive(type)
  PROVE  /\ connected
         /\ 1 \in DOMAIN toBroker /\ Head(toBroker) = toBroker[1]
         /\ toBroker[1].type = type /\ toBroker[1].id \in Messages
         /\ toBroker' \in Seq(Packet({"PUBLISH", "PUBREL"}))
         /\ \A j \in DOMAIN toBroker' :
              j + 1 \in DOMAIN toBroker /\ j + 1 # 1 /\ toBroker'[j] = toBroker[j + 1]
<1>1. toBroker \in Seq(Packet({"PUBLISH", "PUBREL"})) /\ toBroker # <<>>
      /\ toBroker' = Tail(toBroker) /\ Head(toBroker).type = type /\ connected
  BY DEF IInv, TypeOK, Receive
<1>2. /\ toBroker' \in Seq(Packet({"PUBLISH", "PUBREL"}))
      /\ 1 \in DOMAIN toBroker /\ Head(toBroker) = toBroker[1]
      /\ Head(toBroker) \in Packet({"PUBLISH", "PUBREL"})
      /\ \A j \in DOMAIN toBroker' :
           j + 1 \in DOMAIN toBroker /\ j + 1 # 1 /\ toBroker'[j] = toBroker[j + 1]
  BY <1>1, TailElements
<1> QED
  BY <1>1, <1>2 DEF Packet

\* Writing a packet behind those under way.
LEMMA SendElements ==
  ASSUME NEW types, NEW s \in Seq(Packet(types)), NEW type \in types, NEW m \in Messages,
         NEW t, t = Append(s, Msg(type, m))
  PROVE  /\ t \in Seq(Packet(types))
         /\ \A j \in DOMAIN t : \/ j \in DOMAIN s /\ t[j] = s[j]
                                \/ j = Len(s) + 1 /\ t[j].type = type /\ t[j].id = m
         /\ Len(s) + 1 \notin DOMAIN s
<1> PICK x : x = Msg(type, m)
  OBVIOUS
<1>1. x \in Packet(types) /\ x.type = type /\ x.id = m
  BY DEF Packet, Msg
<1>2. /\ t \in Seq(Packet(types))
      /\ \A j \in DOMAIN s : j \in DOMAIN t /\ t[j] = s[j]
      /\ \A j \in DOMAIN t : j \notin DOMAIN s => j = Len(s) + 1 /\ t[j] = x
  BY <1>1, AppendElements
<1> QED
  BY <1>1, <1>2

\* A packet is about one of the messages.
LEMMA PacketIds ==
  ASSUME IInv
  PROVE  /\ \A j \in DOMAIN toBroker : toBroker[j].id \in Messages
         /\ \A j \in DOMAIN toClient : toClient[j].id \in Messages
<1>1. ASSUME NEW types, NEW s \in Seq(Packet(types)), NEW j \in DOMAIN s
      PROVE  s[j].id \in Messages
  <2>1. s[j] \in Packet(types)
    BY <1>1
  <2> QED
    BY <2>1 DEF Packet
<1> QED
  BY <1>1 DEF IInv, TypeOK

\* CopiesBounded, by the sets of copies.
LEMMA CopiesMembers ==
  ASSUME IInv
  PROVE  \A m \in Messages : Passed(m) <= 1 + drops /\ Cardinality(Copies(m)) <= Passed(m)
BY DEF IInv, CopiesBounded, Copies

\* The copies of an identifier are finitely many.
LEMMA CopiesFinite ==
  ASSUME forRel \in Seq(Messages), NEW m
  PROVE  IsFiniteSet(Copies(m)) /\ Cardinality(Copies(m)) \in Nat
<1>1. IsFiniteSet(1..Len(forRel))
  BY FS_Interval
<1>2. Copies(m) \in SUBSET (1..Len(forRel))
  BY DEF Copies
<1> QED
  BY <1>1, <1>2, FS_Subset, FS_CardinalityType

\* add_packet_id_for_pubrel adds one copy of the identifier it is given.
LEMMA RecordCopies ==
  ASSUME forRel \in Seq(Messages), NEW m \in Messages, forRel' = Record(m)
  PROVE  /\ forRel' \in Seq(Messages)
         /\ \A n \in Messages : n \in Range(forRel') <=> n \in Range(forRel) \/ n = m
         /\ \A n \in Messages : Cardinality(Copies(n)') = Cardinality(Copies(n)) + (IF n = m THEN 1 ELSE 0)
<1>1. /\ forRel' \in Seq(Messages) /\ Len(forRel') = Len(forRel) + 1
      /\ forRel'[Len(forRel) + 1] = m
      /\ \A k \in 1..Len(forRel) : forRel'[k] = forRel[k]
  BY DEF Record
<1>2. ASSUME NEW n \in Messages
      PROVE  Cardinality(Copies(n)') = Cardinality(Copies(n)) + (IF n = m THEN 1 ELSE 0)
  <2>1. IsFiniteSet(Copies(n)) /\ Cardinality(Copies(n)) \in Nat
    BY CopiesFinite
  <2>2. Len(forRel) + 1 \notin Copies(n)
    BY DEF Copies
  <2>3. CASE n = m
    <3>1. Copies(n)' = Copies(n) \cup {Len(forRel) + 1}
      BY <1>1, <2>3 DEF Copies
    <3> QED
      BY <2>1, <2>2, <2>3, <3>1, FS_AddElement
  <2>4. CASE n # m
    <3>1. Copies(n)' = Copies(n)
      BY <1>1, <2>4 DEF Copies
    <3> QED
      BY <2>1, <2>4, <3>1
  <2> QED
    BY <2>3, <2>4
<1>3. \A n \in Messages : n \in Range(forRel') <=> n \in Range(forRel) \/ n = m
  BY <1>1 DEF Range
<1> QED
  BY <1>1, <1>2, <1>3

\* release_packet_id_for_pubrel takes away a copy of the identifier it is given, or
\* nothing: all other identifiers stay recorded, and no copy comes to be.
LEMMA ReleaseCopies ==
  ASSUME forRel \in Seq(Messages), NEW m \in Messages, forRel' = RemoveFirst(forRel, m)
  PROVE  /\ forRel' \in Seq(Messages)
         /\ \A n \in Messages : n # m /\ n \in Range(forRel) => n \in Range(forRel')
         /\ \A n \in Messages : Cardinality(Copies(n)') <= Cardinality(Copies(n))
<1>1. /\ forRel' \in Seq(Messages)
      /\ \/ forRel' = forRel
         \/ \E i \in 1..Len(forRel) :
              /\ forRel[i] = m
              /\ Len(forRel') = Len(forRel) - 1
              /\ \A k \in 1..(Len(forRel) - 1) :
                   forRel'[k] = IF k < i THEN forRel[k] ELSE forRel[k + 1]
  BY RemoveFirstElements
<1>2. CASE forRel' = forRel
  <2>1. \A n \in Messages : Copies(n)' = Copies(n) /\ Cardinality(Copies(n)) \in Nat
    BY <1>2, CopiesFinite DEF Copies
  <2> QED
    BY <1>1, <1>2, <2>1
<1>3. ASSUME NEW i \in 1..Len(forRel), forRel[i] = m, Len(forRel') = Len(forRel) - 1,
             \A k \in 1..(Len(forRel) - 1) :
               forRel'[k] = IF k < i THEN forRel[k] ELSE forRel[k + 1]
      PROVE  /\ \A n \in Messages : n # m /\ n \in Range(forRel) => n \in Range(forRel')
             /\ \A n \in Messages : Cardinality(Copies(n)') <= Cardinality(Copies(n))
  <2>1. DOMAIN forRel = 1..Len(forRel) /\ DOMAIN forRel' = 1..(Len(forRel) - 1)
    BY <1>1, <1>3
  <2>2. ASSUME NEW n \in Messages, n # m, n \in Range(forRel)
        PROVE  n \in Range(forRel')
    <3>1. PICK k \in 1..Len(forRel) : forRel[k] = n
      BY <2>2 DEF Range
    <3>2. k # i
      BY <1>3, <2>2, <3>1
    <3>3. CASE k < i
      <4>1. k \in DOMAIN forRel' /\ forRel'[k] = n
        BY <1>3, <2>1, <3>1, <3>3
      <4> QED
        BY <4>1 DEF Range
    <3>4. CASE k > i
      <4>1. k - 1 \in DOMAIN forRel' /\ ~(k - 1 < i) /\ (k - 1) + 1 = k
        BY <2>1, <3>1, <3>4
      <4>2. forRel'[k - 1] = n
        BY <1>3, <2>1, <3>1, <4>1
      <4> QED
        BY <4>1, <4>2 DEF Range
    <3> QED
      BY <3>1, <3>2, <3>3, <3>4
  <2>3. ASSUME NEW n \in Messages
        PROVE  Cardinality(Copies(n)') <= Cardinality(Copies(n))
    <3> PICK new, old : new = Copies(n)' /\ old = Copies(n)
      OBVIOUS
    <3> DEFINE f == [k \in new |-> IF k < i THEN k ELSE k + 1]
    <3>1. \A k \in new : k \in 1..(Len(forRel) - 1) /\ f[k] \in old
      BY <1>3, <2>1 DEF Copies
    <3>2. f \in [new -> old]
      BY <3>1
    <3>3. \A j, k \in new : f[j] = f[k] => j = k
      BY <3>1
    <3>4. f \in Injection(new, old)
      BY <3>2, <3>3 DEF Injection, IsInjective
    <3>5. IsFiniteSet(old)
      BY CopiesFinite
    <3> QED
      BY <3>4, <3>5, FS_Injection
  <2> QED
    BY <2>2, <2>3
<1> QED
  BY <1>1, <1>2, <1>3

-----------------------------------------------------------------------------
(* Lemmas about the copies that were passed to the topics or are at hand *)

LEMMA PassedFacts ==
  ASSUME TypeOK, NEW m \in Messages
  PROVE  /\ IsFiniteSet(Forwarding(m)) /\ Cardinality(Forwarding(m)) \in Nat
         /\ forwarded[m] \in Nat /\ drops \in Nat /\ Passed(m) \in Nat
         /\ Passed(m) >= 1 <=> forwarded[m] >= 1 \/ Forwarding(m) # {}
<1>1. IsFiniteSet(Forwarding(m)) /\ Cardinality(Forwarding(m)) \in Nat
  <2>1. IsFiniteSet(0..MaxDrops)
    BY MaxDropsAssumption, FS_Interval
  <2>2. Forwarding(m) \in SUBSET (0..MaxDrops)
    BY DEF Forwarding
  <2> QED
    BY <2>1, <2>2, FS_Subset, FS_CardinalityType
<1>2. forwarded[m] \in Nat /\ drops \in Nat
  BY MaxDropsAssumption DEF TypeOK
<1>3. Cardinality(Forwarding(m)) = 0 <=> Forwarding(m) = {}
  BY <1>1, FS_EmptySet
<1> QED
  BY <1>1, <1>2, <1>3 DEF Passed

LEMMA PassedUnchanged ==
  ASSUME UNCHANGED <<forwarded, forwarding>>
  PROVE  \A m : Passed(m)' = Passed(m)
BY DEF Passed, Forwarding

\* A handler takes a message in hand: one copy more.
LEMMA TakenPassed ==
  ASSUME TypeOK, NEW m \in Messages, forwarding[drops] = None,
         forwarding' = [forwarding EXCEPT ![drops] = m], UNCHANGED forwarded
  PROVE  /\ \A n \in Messages : Passed(n)' = IF n = m THEN Passed(m) + 1 ELSE Passed(n)
         /\ forwarding' \in [0..MaxDrops -> Messages \cup {None}]
<1>1. /\ forwarding \in [0..MaxDrops -> Messages \cup {None}]
      /\ drops \in 0..MaxDrops
  BY DEF TypeOK
<1>2. \A c \in 0..MaxDrops : forwarding'[c] = IF c = drops THEN m ELSE forwarding[c]
  BY <1>1
<1>3. ASSUME NEW n \in Messages
      PROVE  Passed(n)' = IF n = m THEN Passed(m) + 1 ELSE Passed(n)
  <2>1. IsFiniteSet(Forwarding(n)) /\ Cardinality(Forwarding(n)) \in Nat /\ forwarded[n] \in Nat
    BY PassedFacts
  <2>2. drops \notin Forwarding(n)
    BY NoneAssumption DEF Forwarding
  <2>3. CASE n = m
    <3>1. Forwarding(n)' = Forwarding(n) \cup {drops}
      BY <1>1, <1>2, <2>3 DEF Forwarding
    <3>2. Cardinality(Forwarding(n)') = Cardinality(Forwarding(n)) + 1
      BY <2>1, <2>2, <3>1, FS_AddElement
    <3> QED
      BY <2>1, <2>3, <3>2 DEF Passed
  <2>4. CASE n # m
    <3>1. Forwarding(n)' = Forwarding(n)
      BY <1>1, <1>2, <2>2, <2>4 DEF Forwarding
    <3> QED
      BY <2>4, <3>1 DEF Passed
  <2> QED
    BY <2>3, <2>4
<1> QED
  BY <1>1, <1>3

\* A message at hand is passed to the topics: as many copies as before.
LEMMA ForwardPassed ==
  ASSUME TypeOK, NEW c \in 0..MaxDrops, forward(c)
  PROVE  /\ \A n \in Messages : Passed(n)' = Passed(n)
         /\ forwarding' \in [0..MaxDrops -> Messages \cup {None}]
         /\ forwarded' \in [Messages -> Nat]
<1> PICK m : m = forwarding[c]
  OBVIOUS
<1>1. /\ forwarding \in [0..MaxDrops -> Messages \cup {None}]
      /\ m \in Messages
      /\ forwarded' = [forwarded EXCEPT ![m] = @ + 1]
      /\ forwarding' = [forwarding EXCEPT ![c] = None]
      /\ forwarded \in [Messages -> Nat]
  BY DEF TypeOK, forward, Forward
<1>2. \A d \in 0..MaxDrops : forwarding'[d] = IF d = c THEN None ELSE forwarding[d]
  BY <1>1
<1>3. \A n \in Messages : forwarded'[n] = IF n = m THEN forwarded[n] + 1 ELSE forwarded[n]
  BY <1>1
<1>4. ASSUME NEW n \in Messages
      PROVE  Passed(n)' = Passed(n)
  <2>1. IsFiniteSet(Forwarding(n)) /\ Cardinality(Forwarding(n)) \in Nat /\ forwarded[n] \in Nat
    BY PassedFacts
  <2>2. CASE n = m
    <3>1. Forwarding(n)' = Forwarding(n) \ {c} /\ c \in Forwarding(n)
      BY <1>2, <2>2, NoneAssumption DEF Forwarding
    <3>2. Cardinality(Forwarding(n)') = Cardinality(Forwarding(n)) - 1
      BY <2>1, <3>1, FS_RemoveElement
    <3> QED
      BY <1>3, <2>1, <2>2, <3>2 DEF Passed
  <2>3. CASE n # m
    <3>1. Forwarding(n)' = Forwarding(n)
      BY <1>2, <2>3, NoneAssumption DEF Forwarding
    <3> QED
      BY <1>3, <2>3, <3>1 DEF Passed
  <2> QED
    BY <2>2, <2>3
<1>5. forwarded' \in [Messages -> Nat] /\ forwarding' \in [0..MaxDrops -> Messages \cup {None}]
  BY <1>1
<1> QED
  BY <1>4, <1>5

-----------------------------------------------------------------------------
(* Every step preserves the inductive invariant *)

LEMMA InitIInv == Init => IInv
<1> SUFFICES ASSUME Init
             PROVE  IInv
  OBVIOUS
<1>1. TypeOK
  BY MaxDropsAssumption DEF Init, TypeOK
<1>3. \A m \in Messages : Passed(m) = 0
  <2>1. \A m \in Messages : Forwarding(m) = {} /\ forwarded[m] = 0
    BY NoneAssumption DEF Init, Forwarding
  <2> QED
    BY <2>1, FS_EmptySet DEF Passed
<1>2. CopiesBounded
  <2>1. \A m \in Messages : Copies(m) = {}
    BY DEF Init, Copies
  <2> QED
    BY <1>3, <2>1, FS_EmptySet DEF Init, CopiesBounded, Copies
<1> QED
  BY <1>1, <1>2, <1>3 DEF Init, IInv, OneUnderWay, ToBrokerAgrees, ToClientAgrees,
                          BrokenIsEmpty, NothingAhead, NewIsUnknown, Acknowledged, Recorded

LEMMA PublishIInv ==
  ASSUME IInv, handle_publish
  PROVE  IInv'
<1> PICK m, type : m = toBroker[1].id /\ type = IF Qos[m] = 2 THEN "PUBREC" ELSE "PUBACK"
  OBVIOUS
<1>1. /\ connected /\ 1 \in DOMAIN toBroker /\ Head(toBroker) = toBroker[1]
      /\ toBroker[1].type = "PUBLISH" /\ m \in Messages
      /\ toBroker' \in Seq(Packet({"PUBLISH", "PUBREL"}))
      /\ \A j \in DOMAIN toBroker' :
           j + 1 \in DOMAIN toBroker /\ j + 1 # 1 /\ toBroker'[j] = toBroker[j + 1]
  BY ReceiveElements DEF handle_publish
<1>2. /\ forRel' = IF Qos[m] = 2 THEN Record(m) ELSE forRel
      /\ toClient' = Append(toClient, Msg(type, m))
      /\ forwarding[drops] = None /\ forwarding' = [forwarding EXCEPT ![drops] = m]
      /\ UNCHANGED <<forwarded, connected, exchange, drops>>
  BY <1>1 DEF handle_publish, Receive, clientVars
<1>3. exchange[m] = "sent" /\ Passed(m) <= drops
  BY <1>1 DEF IInv, ToBrokerAgrees
<1>4. /\ \A n \in Messages : Passed(n)' = IF n = m THEN Passed(m) + 1 ELSE Passed(n)
      /\ \A n \in Messages : Passed(n) \in Nat /\ drops \in Nat
      /\ forwarding' \in [0..MaxDrops -> Messages \cup {None}]
  BY <1>1, <1>2, TakenPassed, PassedFacts DEF IInv
<1>5. /\ toClient' \in Seq(Packet({"PUBACK", "PUBREC", "PUBCOMP"}))
      /\ \A j \in DOMAIN toClient' :
           \/ j \in DOMAIN toClient /\ toClient'[j] = toClient[j]
           \/ j = Len(toClient) + 1 /\ toClient'[j].type = type /\ toClient'[j].id = m
  <2> PICK types : types = {"PUBACK", "PUBREC", "PUBCOMP"}
    OBVIOUS
  <2>1. toClient \in Seq(Packet(types)) /\ type \in types /\ m \in Messages
    BY <1>1 DEF IInv, TypeOK
  <2>2. /\ toClient' \in Seq(Packet(types))
        /\ \A j \in DOMAIN toClient' :
             \/ j \in DOMAIN toClient /\ toClient'[j] = toClient[j]
             \/ j = Len(toClient) + 1 /\ toClient'[j].type = type /\ toClient'[j].id = m
    BY ONLY <1>2, <2>1, SendElements
  <2> QED
    BY <2>2
<1>6. /\ forRel' \in Seq(Messages)
      /\ \A n \in Messages : n \in Range(forRel) => n \in Range(forRel')
      /\ Qos[m] = 2 => m \in Range(forRel')
      /\ \A n \in Messages : /\ Cardinality(Copies(n)) \in Nat
                             /\ Cardinality(Copies(n)') \in Nat
                             /\ n # m => Cardinality(Copies(n)') = Cardinality(Copies(n))
                             /\ Cardinality(Copies(m)') <= Cardinality(Copies(m)) + 1
  <2>1. forRel \in Seq(Messages)
    BY DEF IInv, TypeOK
  <2>2. \A n \in Messages : Cardinality(Copies(n)) \in Nat
    BY <2>1, CopiesFinite
  <2>3. CASE Qos[m] = 2
    <3>1. forRel' = Record(m)
      BY <1>2, <2>3
    <3>2. /\ forRel' \in Seq(Messages)
          /\ \A n \in Messages : n \in Range(forRel') <=> n \in Range(forRel) \/ n = m
          /\ \A n \in Messages :
               Cardinality(Copies(n)') = Cardinality(Copies(n)) + (IF n = m THEN 1 ELSE 0)
      BY <1>1, <2>1, <3>1, RecordCopies
    <3> QED
      BY <1>1, <2>2, <3>2
  <2>4. CASE Qos[m] # 2
    <3>1. forRel' = forRel /\ \A n : Copies(n)' = Copies(n)
      BY <1>2, <2>4 DEF Copies
    <3> QED
      BY <1>1, <2>1, <2>2, <2>4, <3>1
  <2> QED
    BY <2>3, <2>4
<1>7. TypeOK'
  BY <1>1, <1>2, <1>4, <1>5, <1>6 DEF IInv, TypeOK
<1>8. OneUnderWay'
  <2>1. \A j, k \in DOMAIN toBroker' : toBroker'[j].id = toBroker'[k].id => j = k
    <3>1. ASSUME NEW j \in DOMAIN toBroker', NEW k \in DOMAIN toBroker',
                 toBroker'[j].id = toBroker'[k].id
          PROVE  j = k
      <4>1. j + 1 = k + 1
        BY <1>1, <3>1 DEF IInv, OneUnderWay
      <4> QED
        BY <1>1, <4>1
    <3> QED
      BY <3>1
  <2>2. \A j \in DOMAIN toBroker' : toBroker'[j].id # m
    BY <1>1 DEF IInv, OneUnderWay
  <2>3. \A k \in DOMAIN toClient : toClient[k].id # m
    BY <1>1 DEF IInv, OneUnderWay
  <2> QED
    BY <1>1, <1>5, <2>1, <2>2, <2>3 DEF IInv, OneUnderWay
<1>9. ToBrokerAgrees'
  <2>1. ASSUME NEW j \in DOMAIN toBroker', NEW n \in Messages, toBroker'[j].id = n
        PROVE  \/ toBroker'[j].type = "PUBLISH" /\ exchange'[n] = "sent" /\ Passed(n)' <= drops'
               \/ toBroker'[j].type = "PUBREL" /\ exchange'[n] = "released"
    <3>1. n # m
      BY <1>1, <2>1 DEF IInv, OneUnderWay
    <3> QED
      BY <1>1, <1>2, <1>4, <2>1, <3>1 DEF IInv, ToBrokerAgrees
  <2> QED
    BY <2>1 DEF ToBrokerAgrees
<1>10. ToClientAgrees'
  <2>1. ASSUME NEW j \in DOMAIN toClient', NEW n \in Messages, toClient'[j].id = n
        PROVE  \/ /\ toClient'[j].type \in {"PUBACK", "PUBREC"} /\ exchange'[n] = "sent"
                  /\ Passed(n)' >= 1
               \/ toClient'[j].type = "PUBCOMP" /\ exchange'[n] = "released"
    <3>1. CASE j \in DOMAIN toClient /\ toClient'[j] = toClient[j]
      <4>1. Passed(n)' >= Passed(n) /\ Passed(n) \in Nat /\ Passed(n)' \in Nat
        BY <1>4
      <4>2. \/ toClient[j].type \in {"PUBACK", "PUBREC"} /\ exchange[n] = "sent" /\ Passed(n) >= 1
            \/ toClient[j].type = "PUBCOMP" /\ exchange[n] = "released"
        BY <2>1, <3>1 DEF IInv, ToClientAgrees
      <4> QED
        BY <1>2, <3>1, <4>1, <4>2
    <3>2. CASE toClient'[j].type = type /\ toClient'[j].id = m
      BY <1>1, <1>2, <1>3, <1>4, <2>1, <3>2
    <3> QED
      BY <1>5, <3>1, <3>2
  <2> QED
    BY <2>1 DEF ToClientAgrees
<1>11. BrokenIsEmpty' /\ NewIsUnknown' /\ Acknowledged'
  BY <1>1, <1>2, <1>3, <1>4
     DEF IInv, BrokenIsEmpty, NewIsUnknown, Acknowledged
<1>14. NothingAhead'
  <2>1. \A c \in 0..MaxDrops : c > drops => forwarding'[c] = forwarding[c]
    BY <1>2, <1>4 DEF IInv, TypeOK
  <2> QED
    BY <1>2, <2>1 DEF IInv, NothingAhead
<1>12. Recorded'
  BY <1>2, <1>4, <1>6 DEF IInv, Recorded
<1>13. CopiesBounded'
  <2>1. \A n \in Messages : Passed(n)' <= 1 + drops /\ Cardinality(Copies(n)') <= Passed(n)'
    <3>1. ASSUME NEW n \in Messages
          PROVE  Passed(n)' <= 1 + drops /\ Cardinality(Copies(n)') <= Passed(n)'
      <4>1. /\ Passed(n) \in Nat /\ drops \in Nat
            /\ Passed(n) <= 1 + drops /\ Cardinality(Copies(n)) <= Passed(n)
        BY <1>4, CopiesMembers
      <4>2. Cardinality(Copies(n)) \in Nat /\ Cardinality(Copies(n)') \in Nat
        BY <1>6
      <4>3. CASE n = m
        <5>1. Cardinality(Copies(n)') <= Cardinality(Copies(n)) + 1
          BY <1>6, <4>3
        <5>2. Passed(n)' = Passed(n) + 1 /\ Passed(n) <= drops
          BY <1>1, <1>3, <1>4, <4>3
        <5> QED
          BY <4>1, <4>2, <5>1, <5>2
      <4>4. CASE n # m
        BY <1>4, <1>6, <4>1, <4>4
      <4> QED
        BY <4>3, <4>4
    <3> QED
      BY <3>1
  <2> QED
    BY <1>2, <2>1 DEF CopiesBounded, Copies
<1> QED
  BY <1>7, <1>8, <1>9, <1>10, <1>11, <1>12, <1>13, <1>14 DEF IInv

LEMMA ForwardIInv ==
  ASSUME IInv, NEW c \in 0..MaxDrops, forward(c)
  PROVE  IInv'
<1>1. /\ \A n \in Messages : Passed(n)' = Passed(n)
      /\ forwarding' \in [0..MaxDrops -> Messages \cup {None}]
      /\ forwarded' \in [Messages -> Nat]
  BY ForwardPassed DEF IInv
<1>2. /\ UNCHANGED <<forRel, connected, toBroker, toClient, exchange, drops>>
      /\ forwarding' = [forwarding EXCEPT ![c] = None]
  BY DEF forward, clientVars
<1>3. TypeOK' /\ OneUnderWay' /\ ToBrokerAgrees' /\ ToClientAgrees'
  BY <1>1, <1>2 DEF IInv, TypeOK, OneUnderWay, ToBrokerAgrees, ToClientAgrees
<1>4. BrokenIsEmpty' /\ NewIsUnknown' /\ Acknowledged' /\ Recorded'
  BY <1>1, <1>2 DEF IInv, BrokenIsEmpty, NewIsUnknown, Acknowledged, Recorded
<1>5. NothingAhead'
  BY <1>2 DEF IInv, TypeOK, NothingAhead
<1>6. CopiesBounded'
  BY <1>1, <1>2 DEF IInv, CopiesBounded
<1> QED
  BY <1>3, <1>4, <1>5, <1>6 DEF IInv

LEMMA PubrelIInv ==
  ASSUME IInv, handle_pubrel
  PROVE  IInv'
<1> PICK m, types : m = toBroker[1].id /\ types = {"PUBACK", "PUBREC", "PUBCOMP"}
  OBVIOUS
<1>1. /\ connected /\ 1 \in DOMAIN toBroker /\ Head(toBroker) = toBroker[1]
      /\ toBroker[1].type = "PUBREL" /\ m \in Messages
      /\ toBroker' \in Seq(Packet({"PUBLISH", "PUBREL"}))
      /\ \A j \in DOMAIN toBroker' :
           j + 1 \in DOMAIN toBroker /\ j + 1 # 1 /\ toBroker'[j] = toBroker[j + 1]
  BY ReceiveElements DEF handle_pubrel
<1>2. /\ forRel' = RemoveFirst(forRel, m)
      /\ toClient' = toClient \o <<Msg("PUBCOMP", m)>>
      /\ UNCHANGED <<forwarding, forwarded, connected, exchange, drops>>
      /\ \A n : Passed(n)' = Passed(n)
  BY <1>1, PassedUnchanged DEF handle_pubrel, AnswerPubrel, clientVars
<1>3. exchange[m] = "released"
  BY <1>1 DEF IInv, ToBrokerAgrees
<1>4. forRel \in Seq(Messages)
  BY DEF IInv, TypeOK
<1>5. /\ toClient' \in Seq(Packet(types))
      /\ \A j \in DOMAIN toClient' :
           \/ j \in DOMAIN toClient /\ toClient'[j] = toClient[j]
           \/ j = Len(toClient) + 1 /\ toClient'[j].type = "PUBCOMP" /\ toClient'[j].id = m
  <2>1. toClient \in Seq(Packet(types)) /\ "PUBCOMP" \in types /\ m \in Messages
        /\ Msg("PUBCOMP", m) \in Packet(types)
    BY <1>1 DEF IInv, TypeOK, Msg, Packet
  <2>2. toClient' = Append(toClient, Msg("PUBCOMP", m))
    BY <1>2, <2>1, ConcatOne
  <2> QED
    BY ONLY <2>1, <2>2, SendElements
<1>6. /\ forRel' \in Seq(Messages)
      /\ \A n \in Messages : n # m /\ n \in Range(forRel) => n \in Range(forRel')
      /\ \A n \in Messages : Cardinality(Copies(n)') <= Cardinality(Copies(n))
  BY <1>1, <1>2, <1>4, ReleaseCopies
<1>7. TypeOK'
  BY <1>1, <1>2, <1>5, <1>6 DEF IInv, TypeOK
<1>8. OneUnderWay'
  <2>1. ASSUME NEW j \in DOMAIN toBroker', NEW k \in DOMAIN toBroker',
               toBroker'[j].id = toBroker'[k].id
        PROVE  j = k
    <3>1. j + 1 = k + 1
      BY <1>1, <2>1 DEF IInv, OneUnderWay
    <3> QED
      BY <1>1, <3>1
  <2>2. \A j \in DOMAIN toBroker' : toBroker'[j].id # m
    BY <1>1 DEF IInv, OneUnderWay
  <2>3. \A k \in DOMAIN toClient : toClient[k].id # m
    BY <1>1 DEF IInv, OneUnderWay
  <2> QED
    BY <1>1, <1>5, <2>1, <2>2, <2>3 DEF IInv, OneUnderWay
<1>9. ToBrokerAgrees'
  BY <1>1, <1>2 DEF IInv, ToBrokerAgrees
<1>10. ToClientAgrees'
  BY <1>2, <1>3, <1>5 DEF IInv, ToClientAgrees
<1>11. BrokenIsEmpty' /\ NothingAhead' /\ NewIsUnknown' /\ Acknowledged'
  BY <1>1, <1>2 DEF IInv, BrokenIsEmpty, NothingAhead, NewIsUnknown, Acknowledged
<1>12. Recorded'
  BY <1>2, <1>3, <1>6 DEF IInv, Recorded
<1>13. CopiesBounded'
  <2>1. ASSUME NEW n \in Messages
        PROVE  Passed(n) <= 1 + drops /\ Cardinality(Copies(n)') <= Passed(n)
    <3>1. Cardinality(Copies(n)') \in Nat /\ Cardinality(Copies(n)) \in Nat
      <4>1. IsFiniteSet(1..Len(forRel')) /\ Copies(n)' \in SUBSET (1..Len(forRel'))
        BY <1>6, FS_Interval DEF Copies
      <4> QED
        BY <1>4, <4>1, FS_Subset, FS_CardinalityType, CopiesFinite
    <3>2. Passed(n) \in Nat
      BY PassedFacts DEF IInv
    <3>3. Passed(n) <= 1 + drops /\ Cardinality(Copies(n)) <= Passed(n)
      BY CopiesMembers
    <3> QED
      BY <1>6, <3>1, <3>2, <3>3
  <2> QED
    BY <1>2, <2>1 DEF CopiesBounded, Copies
<1> QED
  BY <1>7, <1>8, <1>9, <1>10, <1>11, <1>12, <1>13 DEF IInv

LEMMA ClientPublishesIInv ==
  ASSUME IInv, NEW m \in Messages, ClientPublishes(m)
  PROVE  IInv'
<1> PICK types : types = {"PUBLISH", "PUBREL"}
  OBVIOUS
<1>1. /\ connected /\ exchange[m] = "new"
      /\ exchange' = [exchange EXCEPT ![m] = "sent"]
      /\ toBroker' = Append(toBroker, Msg("PUBLISH", m))
      /\ UNCHANGED <<forRel, forwarding, forwarded, connected, toClient, drops>>
      /\ \A n : Passed(n)' = Passed(n)
  BY PassedUnchanged DEF ClientPublishes
<1>2. \A n \in Messages : exchange'[n] = IF n = m THEN "sent" ELSE exchange[n]
  BY <1>1 DEF IInv, TypeOK
<1>3. /\ toBroker' \in Seq(Packet(types))
      /\ \A j \in DOMAIN toBroker' :
           \/ j \in DOMAIN toBroker /\ toBroker'[j] = toBroker[j]
           \/ j = Len(toBroker) + 1 /\ toBroker'[j].type = "PUBLISH" /\ toBroker'[j].id = m
  <2>1. toBroker \in Seq(Packet(types)) /\ "PUBLISH" \in types /\ m \in Messages
    BY DEF IInv, TypeOK
  <2> QED
    BY ONLY <1>1, <2>1, SendElements
<1>4. /\ \A j \in DOMAIN toBroker : toBroker[j].id # m
      /\ \A j \in DOMAIN toClient : toClient[j].id # m
  BY <1>1 DEF IInv, ToBrokerAgrees, ToClientAgrees
<1>5. TypeOK'
  BY <1>1, <1>3 DEF IInv, TypeOK
<1>6. OneUnderWay'
  BY <1>1, <1>3, <1>4 DEF IInv, OneUnderWay
<1>7. ToBrokerAgrees'
  <2>1. Passed(m) <= drops
    BY <1>1, MaxDropsAssumption DEF IInv, NewIsUnknown, TypeOK
  <2> QED
    BY <1>1, <1>2, <1>3, <1>4, <2>1, PacketIds DEF IInv, ToBrokerAgrees
<1>8. ToClientAgrees'
  BY <1>1, <1>2, <1>4, PacketIds DEF IInv, ToClientAgrees
<1>9. BrokenIsEmpty' /\ NothingAhead' /\ NewIsUnknown' /\ Acknowledged'
  BY <1>1, <1>2 DEF IInv, BrokenIsEmpty, NothingAhead, NewIsUnknown, Acknowledged
<1>10. Recorded'
  BY <1>1, <1>2 DEF IInv, Recorded, NewIsUnknown
<1>11. CopiesBounded'
  BY <1>1 DEF IInv, CopiesBounded
<1> QED
  BY <1>5, <1>6, <1>7, <1>8, <1>9, <1>10, <1>11 DEF IInv

LEMMA ClientReadsIInv ==
  ASSUME IInv, ClientReads
  PROVE  IInv'
<1> PICK m, type : m = toClient[1].id /\ type = toClient[1].type
  OBVIOUS
<1>1. /\ connected /\ toClient # <<>> /\ toClient' = Tail(toClient)
      /\ UNCHANGED <<forRel, forwarding, forwarded, connected, drops>>
      /\ \A n : Passed(n)' = Passed(n)
  BY PassedUnchanged DEF ClientReads
<1>2. /\ 1 \in DOMAIN toClient /\ Head(toClient) = toClient[1]
      /\ toClient' \in Seq(Packet({"PUBACK", "PUBREC", "PUBCOMP"}))
      /\ \A j \in DOMAIN toClient' :
           j + 1 \in DOMAIN toClient /\ j + 1 # 1 /\ toClient'[j] = toClient[j + 1]
  <2>1. toClient \in Seq(Packet({"PUBACK", "PUBREC", "PUBCOMP"}))
    BY DEF IInv, TypeOK
  <2> QED
    BY <1>1, <2>1, TailElements
<1>3. m \in Messages
  BY <1>2, PacketIds
<1>4. \/ /\ type = "PUBREC"
         /\ exchange' = [exchange EXCEPT ![m] = "released"]
         /\ toBroker' = Append(toBroker, Msg("PUBREL", m))
      \/ /\ type # "PUBREC"
         /\ exchange' = [exchange EXCEPT ![m] = "done"]
         /\ toBroker' = toBroker
  BY <1>2 DEF ClientReads
<1>5. \/ type \in {"PUBACK", "PUBREC"} /\ exchange[m] = "sent" /\ Passed(m) >= 1
      \/ type = "PUBCOMP" /\ exchange[m] = "released"
  BY <1>2, <1>3 DEF IInv, ToClientAgrees
<1>6. /\ \A n \in Messages : exchange'[n] = IF n # m THEN exchange[n]
                                            ELSE IF type = "PUBREC" THEN "released" ELSE "done"
      /\ exchange' \in [Messages -> {"new", "sent", "released", "done"}]
  BY <1>3, <1>4 DEF IInv, TypeOK
<1>7. /\ toBroker' \in Seq(Packet({"PUBLISH", "PUBREL"}))
      /\ \A j \in DOMAIN toBroker' :
           \/ j \in DOMAIN toBroker /\ toBroker'[j] = toBroker[j]
           \/ /\ j = Len(toBroker) + 1 /\ toBroker'[j].type = "PUBREL" /\ toBroker'[j].id = m
              /\ type = "PUBREC"
  <2> PICK types : types = {"PUBLISH", "PUBREL"}
    OBVIOUS
  <2>1. toBroker \in Seq(Packet(types)) /\ "PUBREL" \in types /\ m \in Messages
    BY <1>3 DEF IInv, TypeOK
  <2>2. CASE type = "PUBREC"
    <3>1. toBroker' = Append(toBroker, Msg("PUBREL", m))
      BY <1>4, <2>2
    <3>2. /\ toBroker' \in Seq(Packet(types))
          /\ \A j \in DOMAIN toBroker' :
               \/ j \in DOMAIN toBroker /\ toBroker'[j] = toBroker[j]
               \/ j = Len(toBroker) + 1 /\ toBroker'[j].type = "PUBREL" /\ toBroker'[j].id = m
      BY ONLY <2>1, <3>1, SendElements
    <3> QED
      BY <2>2, <3>2
  <2>3. CASE type # "PUBREC"
    BY <1>4, <2>1, <2>3
  <2> QED
    BY <2>2, <2>3
<1>8. /\ \A j \in DOMAIN toBroker : toBroker[j].id # m
      /\ \A j \in DOMAIN toClient' : toClient'[j].id # m
  BY <1>2 DEF IInv, OneUnderWay
<1>9. TypeOK'
  BY <1>1, <1>2, <1>6, <1>7 DEF IInv, TypeOK
<1>10. OneUnderWay'
  <2>1. ASSUME NEW j \in DOMAIN toClient', NEW k \in DOMAIN toClient',
               toClient'[j].id = toClient'[k].id
        PROVE  j = k
    <3>1. j + 1 = k + 1
      BY <1>2, <2>1 DEF IInv, OneUnderWay
    <3> QED
      BY <1>2, <3>1
  <2>2. \A j, k \in DOMAIN toBroker' : toBroker'[j].id = toBroker'[k].id => j = k
    BY <1>7, <1>8 DEF IInv, OneUnderWay
  <2>3. \A j \in DOMAIN toBroker', k \in DOMAIN toClient' : toBroker'[j].id # toClient'[k].id
    BY <1>2, <1>7, <1>8 DEF IInv, OneUnderWay
  <2> QED
    BY <2>1, <2>2, <2>3 DEF OneUnderWay
<1>11. ToBrokerAgrees'
  BY <1>1, <1>3, <1>6, <1>7, <1>8, PacketIds DEF IInv, ToBrokerAgrees
<1>12. ToClientAgrees'
  <2>1. ASSUME NEW j \in DOMAIN toClient', NEW n \in Messages, toClient'[j].id = n
        PROVE  \/ /\ toClient'[j].type \in {"PUBACK", "PUBREC"} /\ exchange'[n] = "sent"
                  /\ Passed(n)' >= 1
               \/ toClient'[j].type = "PUBCOMP" /\ exchange'[n] = "released"
    <3>1. n # m /\ j + 1 \in DOMAIN toClient /\ toClient'[j] = toClient[j + 1]
      BY <1>2, <1>8, <2>1
    <3> QED
      BY <1>1, <1>6, <2>1, <3>1 DEF IInv, ToClientAgrees
  <2> QED
    BY <2>1 DEF ToClientAgrees
<1>13. BrokenIsEmpty' /\ NothingAhead' /\ NewIsUnknown' /\ Acknowledged'
  BY <1>1, <1>3, <1>5, <1>6
     DEF IInv, BrokenIsEmpty, NothingAhead, NewIsUnknown, Acknowledged
<1>14. Recorded'
  BY <1>1, <1>6 DEF IInv, Recorded
<1>15. CopiesBounded'
  BY <1>1 DEF IInv, CopiesBounded
<1> QED
  BY <1>9, <1>10, <1>11, <1>12, <1>13, <1>14, <1>15 DEF IInv

LEMMA ConnectionBreaksIInv ==
  ASSUME IInv, ConnectionBreaks
  PROVE  IInv'
<1>1. /\ drops < MaxDrops /\ drops' = drops + 1 /\ connected' = FALSE
      /\ toBroker' = <<>> /\ toClient' = <<>>
      /\ UNCHANGED <<forRel, forwarding, forwarded, exchange>>
      /\ \A n : Passed(n)' = Passed(n)
  BY PassedUnchanged DEF ConnectionBreaks, StillForwarding, clientVars
<1>2. TypeOK'
  <2>1. drops \in 0..MaxDrops
    BY DEF IInv, TypeOK
  <2>2. drops' \in 0..MaxDrops
    BY <1>1, <2>1, MaxDropsAssumption
  <2>3. toBroker' \in Seq(Packet({"PUBLISH", "PUBREL"}))
        /\ toClient' \in Seq(Packet({"PUBACK", "PUBREC", "PUBCOMP"}))
    BY <1>1
  <2> QED
    BY <1>1, <2>2, <2>3 DEF IInv, TypeOK
<1>3. OneUnderWay' /\ ToBrokerAgrees' /\ ToClientAgrees'
  BY <1>1 DEF OneUnderWay, ToBrokerAgrees, ToClientAgrees
<1>4. \A m \in Messages : Passed(m) \in Nat /\ drops \in Nat /\ Passed(m) <= 1 + drops
  <2>1. \A m \in Messages : Passed(m) \in Nat /\ drops \in Nat
    BY PassedFacts DEF IInv
  <2> QED
    BY <2>1, CopiesMembers
<1>5. BrokenIsEmpty' /\ NewIsUnknown' /\ Acknowledged' /\ Recorded'
  BY <1>1, <1>4 DEF IInv, BrokenIsEmpty, NewIsUnknown, Acknowledged, Recorded
<1>7. NothingAhead'
  BY <1>1 DEF IInv, TypeOK, NothingAhead
<1>6. CopiesBounded'
  BY <1>1, <1>4 DEF IInv, CopiesBounded
<1> QED
  BY <1>2, <1>3, <1>5, <1>6, <1>7 DEF IInv

LEMMA ClientReconnectsIInv ==
  ASSUME IInv, ClientReconnects
  PROVE  IInv'
<1> DEFINE again == {m \in Messages : exchange[m] \in {"sent", "released"}}
           n == Cardinality(again)
<1>1. /\ ~connected /\ connected' = TRUE
      /\ UNCHANGED <<forRel, forwarding, forwarded, toClient, exchange, drops>>
      /\ \A m : Passed(m)' = Passed(m)
  BY PassedUnchanged DEF ClientReconnects, clientVars
<1>2. PICK order \in SetToSeqs(again) :
        toBroker' = [k \in DOMAIN order |->
          Msg(IF exchange[order[k]] = "sent" THEN "PUBLISH" ELSE "PUBREL", order[k])]
  BY DEF ClientReconnects
<1>3. n \in Nat
  BY MessagesAssumption, FS_Subset, FS_CardinalityType
<1>4. /\ DOMAIN order = 1..n
      /\ \A k \in 1..n : /\ order[k] \in Messages
                         /\ exchange[order[k]] \in {"sent", "released"}
      /\ \A j, k \in 1..n : order[j] = order[k] => j = k
  BY DEF SetToSeqs
<1> HIDE DEF again, n
<1>5. /\ DOMAIN toBroker' = 1..n
      /\ \A k \in 1..n :
           /\ toBroker'[k] = Msg(IF exchange[order[k]] = "sent" THEN "PUBLISH" ELSE "PUBREL",
                                 order[k])
           /\ toBroker'[k].id = order[k]
           /\ toBroker'[k].type = IF exchange[order[k]] = "sent" THEN "PUBLISH" ELSE "PUBREL"
  BY <1>2, <1>4 DEF Msg
<1>6. toBroker' \in Seq(Packet({"PUBLISH", "PUBREL"}))
  <2>1. \A k \in 1..n : toBroker'[k] \in Packet({"PUBLISH", "PUBREL"})
    BY <1>4, <1>5 DEF Msg, Packet
  <2>2. toBroker' = [k \in 1..n |-> toBroker'[k]]
    BY <1>2, <1>4
  <2>3. toBroker' \in [1..n -> Packet({"PUBLISH", "PUBREL"})]
    BY <2>1, <2>2
  <2> QED
    BY <1>3, <2>3
<1>7. toClient = <<>> /\ \A m \in Messages : Passed(m) <= drops
  BY <1>1 DEF IInv, BrokenIsEmpty
<1>8. TypeOK'
  BY <1>1, <1>6 DEF IInv, TypeOK
<1>9. OneUnderWay' /\ ToClientAgrees'
  BY <1>1, <1>4, <1>5, <1>7 DEF OneUnderWay, ToClientAgrees
<1>10. ToBrokerAgrees'
  BY <1>1, <1>4, <1>5, <1>7 DEF ToBrokerAgrees
<1>11. BrokenIsEmpty' /\ NothingAhead' /\ NewIsUnknown' /\ Acknowledged' /\ Recorded'
       /\ CopiesBounded'
  BY <1>1 DEF IInv, BrokenIsEmpty, NothingAhead, NewIsUnknown, Acknowledged, Recorded,
              CopiesBounded
<1> QED
  BY <1>8, <1>9, <1>10, <1>11 DEF IInv

LEMMA NextIInv == IInv /\ [Next]_vars => IInv'
<1> SUFFICES ASSUME IInv, [Next]_vars
             PROVE  IInv'
  OBVIOUS
<1>1. CASE handle_publish
  BY <1>1, PublishIInv
<1>2. CASE handle_pubrel
  BY <1>2, PubrelIInv
<1>3. ASSUME NEW m \in Messages, ClientPublishes(m)
      PROVE  IInv'
  BY <1>3, ClientPublishesIInv
<1>4. CASE ClientReads
  BY <1>4, ClientReadsIInv
<1>5. CASE ConnectionBreaks
  BY <1>5, ConnectionBreaksIInv
<1>6. CASE ClientReconnects
  BY <1>6, ClientReconnectsIInv
<1>7. ASSUME NEW c \in 0..MaxDrops, forward(c)
      PROVE  IInv'
  BY <1>7, ForwardIInv
<1>8. CASE UNCHANGED vars
  <2>1. \A m : Passed(m)' = Passed(m)
    BY <1>8, PassedUnchanged DEF vars
  <2>2. UNCHANGED <<forRel, forwarding, forwarded, connected, toBroker, toClient, exchange, drops>>
    BY <1>8 DEF vars
  <2>3. TypeOK'
    BY <2>2 DEF IInv, TypeOK
  <2>4. OneUnderWay'
    BY <2>2 DEF IInv, OneUnderWay
  <2>5. ToBrokerAgrees' /\ ToClientAgrees'
    BY <2>1, <2>2 DEF IInv, ToBrokerAgrees, ToClientAgrees
  <2>6. BrokenIsEmpty' /\ NothingAhead' /\ NewIsUnknown'
    BY <2>1, <2>2 DEF IInv, BrokenIsEmpty, NothingAhead, NewIsUnknown
  <2>7. Acknowledged' /\ Recorded' /\ CopiesBounded'
    BY <2>1, <2>2 DEF IInv, Acknowledged, Recorded, CopiesBounded
  <2> QED
    BY <2>3, <2>4, <2>5, <2>6, <2>7 DEF IInv
<1> QED
  BY <1>1, <1>2, <1>3, <1>4, <1>5, <1>6, <1>7, <1>8 DEF Next

-----------------------------------------------------------------------------
(* The theorems *)

\* Whatever is lost with a broken connection and sent again, the packets under way
\* agree with the client's exchanges, with what was forwarded and with the
\* identifiers recorded.
THEOREM Invariance == Spec => []IInv
<1>1. Init => IInv
  BY InitIInv
<1>2. IInv /\ [Next]_vars => IInv'
  BY NextIInv
<1> QED
  BY <1>1, <1>2, PTL DEF Spec

\* Every variable has its type, in every reachable state.
THEOREM TypeCorrect == Spec => []TypeOK
<1>1. IInv => TypeOK
  BY DEF IInv
<1> QED
  BY <1>1, Invariance, PTL

\* handle_publish writes the acknowledgement (mqtt_server.cpp:316, 320) before it
\* forwards (325-344): what a client is past the first acknowledgement of was forwarded,
\* or some handler has it at hand, that of a connection long broken included.
THEOREM NothingAcknowledgedIsLost == Spec => []AcknowledgedInHand
<1>1. IInv => AcknowledgedInHand
  BY PassedFacts DEF IInv, Acknowledged, AcknowledgedInHand
<1> QED
  BY <1>1, Invariance, PTL

\* The identifier of a QoS 2 message that was forwarded or is at hand is in
\* _packet_id_for_pubrel until the client releases it.
THEOREM IdentifiersRecorded == Spec => []RecordedUntilReleased
<1>1. IInv => RecordedUntilReleased
  <2> SUFFICES ASSUME IInv, NEW m \in Messages, Qos[m] = 2, exchange[m] = "sent",
                      forwarded[m] > 0 \/ Forwarding(m) # {}
               PROVE  m \in Range(forRel)
    BY DEF RecordedUntilReleased
  <2>1. Passed(m) >= 1
    BY PassedFacts DEF IInv
  <2> QED
    BY <2>1 DEF IInv, Recorded
<1> QED
  BY <1>1, Invariance, PTL

\* A message is forwarded once more at most for every broken connection, and
\* _packet_id_for_pubrel holds no more copies of an identifier than were forwarded or
\* are at hand.
THEOREM DuplicatesBounded == Spec => []CopiesBounded
<1>1. IInv => CopiesBounded
  BY DEF IInv
<1> QED
  BY <1>1, Invariance, PTL

=============================================================================
