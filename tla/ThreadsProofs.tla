--------------------------- MODULE ThreadsProofs ---------------------------
(***************************************************************************)
(* Theorems about module BrokerThreads, for every number of channels,      *)
(* worker threads, clients, topics and packet identifiers and whatever the *)
(* clients do: the mutexes are taken in one order, nobody waits for ever   *)
(* for another's, and topic::publish reaches subscribers only.             *)
(***************************************************************************)
EXTENDS BrokerThreads, SequenceTheorems, TLAPS

-----------------------------------------------------------------------------
(* Types, by the number n of session objects and m of topic objects *)

\* A client that is known to others has its session.
ClientUpTo(n) == [chan : Channels, cid : ClientIds, clean : BOOLEAN,
                  will : Plain \cup {NULL}, sess : 1..n]
AgentUpTo(n) == [chan : Channels, cid : ClientIds, clean : BOOLEAN,
                 will : Plain \cup {NULL}, sess : 1..n \cup {NULL}]
Requests == Request \cup [op : {"idle", "puback", "disconnected", "resume"}]
                    \cup Message("disconnected")
FrameUpTo(n, m) ==
  [pc : Places, rq : Requests, agent : AgentUpTo(n) \cup {NULL},
   to : SUBSET (ClientUpTo(n) \cup {NULL}), todo : SUBSET Filters,
   obj : 1..m \cup {NULL}, source : 1..m \cup {NULL}, objs : SUBSET (1..m)]
ObjectUpTo(n) ==
  [filter : Filters, clients : [ClientIds -> ClientUpTo(n) \cup {NULL}],
   retained : BOOLEAN, mutex : Channels \cup {NULL}]
SessionObject == [subs : SUBSET Filters, open : 0..PacketIds]

-----------------------------------------------------------------------------
(* The inductive invariant *)

Connecting == {"get_client", "delete_client", "take_over", "close_old", "session", "new_session"}
Publishing == {"publish", "wild", "wild_next"}
Passing == {"retained", "retained_wild", "retained_of", "read_retained", "send_retained", "send_null"}
Leaving == {"disconnect", "disconnected"}

\* The places at which a topic object is at hand.
AtObject ==
  {"subscribe", "add_subscription", "retained_wild", "retained_of", "read_retained",
   "send_retained", "send_null", "store", "lock", "deliver", "will_id", "unsubscribe",
   "delete_subscription", "empty", "erase"}

\* What a handler serves where it is.
Serves(fr) ==
  /\ fr.pc \in Connecting => fr.rq.op = "connect"
  /\ fr.pc \in {"reg_client", "set_param"} => fr.rq.op \in {"connect", "resume"}
  /\ fr.pc \in {"restore", "resend"} => fr.rq.op = "resume"
  /\ fr.pc \in {"to_subscribe", "subscribe"} \cup Passing => fr.rq.op \in {"subscribe", "resume"}
  /\ fr.pc = "add_subscription" => fr.rq.op = "subscribe"
  /\ fr.pc \in Publishing => fr.rq.op = "publish"
  /\ fr.pc \in {"store", "lock"} => fr.rq.op \in {"publish", "disconnected"}
  /\ fr.pc = "deliver" => fr.rq.op \in {"subscribe", "resume", "publish", "disconnected"}
  /\ fr.pc \in {"will", "will_id"} => fr.rq.op = "disconnected"
  /\ fr.pc \in {"unsubscribe_all", "delete_session", "deregister"} => fr.rq.op \in Leaving
  /\ fr.pc \in {"lookup", "unsubscribe", "empty", "erase"} => fr.rq.op \in Leaving \cup {"unsubscribe"}
  /\ fr.pc = "delete_subscription" => fr.rq.op = "unsubscribe"
  /\ fr.pc = "puback" => fr.rq.op = "puback"

\* What a handler has at hand where it is.
Has(fr) ==
  /\ fr.pc = "idle" => fr = Idle
  /\ fr.pc # "idle" => fr.agent # NULL
  /\ fr.pc \notin Connecting \cup {"idle"} => fr.agent.sess # NULL
  /\ fr.pc \in AtObject => fr.obj # NULL
  /\ fr.pc \in {"read_retained", "send_retained", "send_null"} => fr.source # NULL
  /\ fr.pc \in {"send_retained", "send_null"} => \E c \in fr.to : fr.to = {c}
  /\ fr.pc = "deliver" => fr.to # {} /\ NULL \notin fr.to
  /\ fr.rq.op = "publish" \/ fr.pc = "will" => fr.rq.topic \in Plain

OutsideTypes ==
  /\ script \in [Channels -> Seq(Request)]
  /\ chan \in [Channels -> {"open", "closing", "closed"}]
  /\ unread \in [Channels -> Nat]
  /\ crashed \in {"no", "param", "message"}
RegistryTypes ==
  /\ store \in Seq(SessionObject)
  /\ param \in [Channels -> ClientUpTo(Len(store)) \cup {NULL}]
  /\ clients \in [ClientIds -> ClientUpTo(Len(store)) \cup {NULL}]
  /\ sessions \in [ClientIds -> 1..Len(store) \cup {NULL}]
TopicTypes ==
  /\ objects \in Seq(ObjectUpTo(Len(store)))
  /\ map \in [Filters -> 1..Len(objects) \cup {NULL}]
  /\ topic_mutex \in Channels \cup {NULL}
FrameTypes == frame \in [Channels -> FrameUpTo(Len(store), Len(objects))]
TypesInv == OutsideTypes /\ RegistryTypes /\ TopicTypes /\ FrameTypes

\* A channel's handler works for a client of that channel.
FramesInv ==
  \A ch \in Channels :
    /\ Serves(frame[ch]) /\ Has(frame[ch])
    /\ Busy(ch) => frame[ch].agent.chan = ch
    /\ param[ch] # NULL => param[ch].chan = ch

\* An object is in the map under its filter, and a client in an object by its identifier.
ObjectsInv ==
  /\ \A f \in Filters : map[f] # NULL => objects[map[f]].filter = f
  /\ \A o \in 1..Len(objects), i \in ClientIds :
       objects[o].clients[i] # NULL => objects[o].clients[i].cid = i

\* Where a handler holds _topic_mutex: at the wild topics of handle_publish and of
\* publish_retained_message, and in unsubscribe_all.
AtWild(ch) == objects[frame[ch].obj].filter \in Wild
HoldsTopics(ch) ==
  LET fr == frame[ch] IN
  \/ fr.pc \in {"wild_next", "retained_of"}
  \/ fr.pc \in {"unsubscribe", "empty", "erase"} /\ fr.rq.op # "unsubscribe"
  \/ /\ fr.pc \in {"read_retained", "send_retained", "send_null", "store", "lock", "deliver"}
     /\ fr.rq.op # "disconnected" /\ AtWild(ch)

\* Who holds which mutex.
HoldersInv ==
  \A ch \in Channels :
    /\ topic_mutex = ch <=> HoldsTopics(ch)
    /\ \A o \in 1..Len(objects) :
         objects[o].mutex = ch <=> frame[ch].pc = "deliver" /\ frame[ch].obj = o

\* What a handler has read under _topic_mutex stays true while it holds it.
ListedInv ==
  \A ch \in Channels :
    /\ frame[ch].pc \in {"retained_wild", "retained_of"} => AtWild(ch)
    /\ frame[ch].rq.op = "publish" => \A o \in frame[ch].objs : objects[o].filter \in Wild
    /\ HoldsTopics(ch) /\ frame[ch].rq.op \in {"subscribe", "resume"} =>
         \A f \in frame[ch].todo : map[f] # NULL

Core ==
  /\ TypesInv
  /\ FramesInv
  /\ ObjectsInv
  /\ HoldersInv
  /\ ListedInv
  /\ OnlySubscribersReceive

\* The history variables.
HistoryInv ==
  /\ contended \subseteq ClientIds
  /\ raced \subseteq Filters
  /\ due \in [Channels -> SUBSET ClientUpTo(Len(store))]

IInv == Core /\ HistoryInv

-----------------------------------------------------------------------------
(* Lemmas about types *)

\* The fields of a client, of a frame and of a topic object.
LEMMA ClientFields ==
  ASSUME NEW n \in Nat, NEW c \in AgentUpTo(n)
  PROVE  /\ c # NULL /\ c.chan \in Channels /\ c.cid \in ClientIds /\ c.clean \in BOOLEAN
         /\ c.will \in Plain \cup {NULL} /\ c.sess \in 1..n \cup {NULL}
         /\ c.sess # NULL => c \in ClientUpTo(n)
<1>1. c \in [chan : Channels, cid : ClientIds, clean : BOOLEAN, will : Plain \cup {NULL},
             sess : Nat \cup {NULL}]
  BY DEF AgentUpTo
<1>2. c # NULL
  BY <1>1, NullAssumption
<1> QED
  BY <1>2 DEF AgentUpTo, ClientUpTo

LEMMA KnownFields ==
  ASSUME NEW n \in Nat, NEW c \in ClientUpTo(n)
  PROVE  /\ c \in AgentUpTo(n) /\ c # NULL
         /\ c.chan \in Channels /\ c.cid \in ClientIds /\ c.clean \in BOOLEAN
         /\ c.will \in Plain \cup {NULL} /\ c.sess \in 1..n /\ c.sess # NULL
<1>1. c \in AgentUpTo(n)
  BY DEF ClientUpTo, AgentUpTo
<1>2. c.sess \in 1..n
  BY DEF ClientUpTo
<1>3. c.sess # NULL
  BY <1>2, NullAssumption
<1> QED
  BY <1>1, <1>2, <1>3, ClientFields

LEMMA FrameFields ==
  ASSUME NEW n \in Nat, NEW m \in Nat, NEW fr \in FrameUpTo(n, m)
  PROVE  /\ fr.pc \in Places /\ fr.rq \in Requests
         /\ fr.agent \in AgentUpTo(n) \cup {NULL}
         /\ fr.to \in SUBSET (ClientUpTo(n) \cup {NULL})
         /\ fr.todo \in SUBSET Filters
         /\ fr.obj \in 1..m \cup {NULL} /\ fr.source \in 1..m \cup {NULL}
         /\ fr.objs \in SUBSET (1..m)
BY DEF FrameUpTo

LEMMA ObjectFields ==
  ASSUME NEW n \in Nat, NEW t \in ObjectUpTo(n)
  PROVE  /\ t.filter \in Filters
         /\ t.clients \in [ClientIds -> ClientUpTo(n) \cup {NULL}]
         /\ t.retained \in BOOLEAN
         /\ t.mutex \in Channels \cup {NULL}
BY DEF ObjectUpTo

\* What there is stays when sessions and topic objects are allocated.
LEMMA Larger ==
  ASSUME NEW n \in Nat, NEW k \in Nat, NEW m \in Nat, NEW l \in Nat, n <= k, m <= l
  PROVE  /\ 1..n \subseteq 1..k
         /\ ClientUpTo(n) \subseteq ClientUpTo(k)
         /\ AgentUpTo(n) \subseteq AgentUpTo(k)
         /\ ObjectUpTo(n) \subseteq ObjectUpTo(k)
         /\ FrameUpTo(n, m) \subseteq FrameUpTo(k, l)
<1>1. 1..n \subseteq 1..k /\ 1..m \subseteq 1..l
  OBVIOUS
<1>2. ClientUpTo(n) \subseteq ClientUpTo(k) /\ AgentUpTo(n) \subseteq AgentUpTo(k)
  BY <1>1 DEF ClientUpTo, AgentUpTo
<1>3. ASSUME NEW t \in ObjectUpTo(n)
      PROVE  t \in ObjectUpTo(k)
  <2>1. t.clients \in [ClientIds -> ClientUpTo(k) \cup {NULL}]
    BY <1>2, ObjectFields
  <2> QED
    BY <2>1 DEF ObjectUpTo
<1>4. ASSUME NEW fr \in FrameUpTo(n, m)
      PROVE  fr \in FrameUpTo(k, l)
  <2>1. /\ fr.agent \in AgentUpTo(k) \cup {NULL}
        /\ fr.to \in SUBSET (ClientUpTo(k) \cup {NULL})
        /\ fr.obj \in 1..l \cup {NULL} /\ fr.source \in 1..l \cup {NULL} /\ fr.objs \in SUBSET (1..l)
    BY <1>1, <1>2, FrameFields
  <2> QED
    BY <2>1 DEF FrameUpTo
<1> QED
  BY <1>1, <1>2, <1>3, <1>4

\* The frame of a channel becomes g, those of the others stay.
LEMMA FrameSet ==
  ASSUME NEW n \in Nat, NEW m \in Nat, NEW ch \in Channels, NEW g \in FrameUpTo(n, m),
         frame \in [Channels -> FrameUpTo(n, m)], frame' = [frame EXCEPT ![ch] = g]
  PROVE  /\ frame' \in [Channels -> FrameUpTo(n, m)]
         /\ frame'[ch] = g
         /\ \A x \in Channels \ {ch} : frame'[x] = frame[x]
OBVIOUS

\* An object that was there stays under its filter, for those who hold it.
LEMMA FrameRefers ==
  ASSUME TypesInv, NEW x \in Channels
  PROVE  /\ frame[x] \in FrameUpTo(Len(store), Len(objects))
         /\ Len(store) \in Nat /\ Len(objects) \in Nat
         /\ \A o \in 1..Len(objects) : objects[o] \in ObjectUpTo(Len(store))
         /\ frame[x].obj \in 1..Len(objects) \cup {NULL}
         /\ frame[x].objs \in SUBSET (1..Len(objects))
         /\ frame[x].pc \in Places
<1>1. Len(store) \in Nat /\ Len(objects) \in Nat
  BY DEF TypesInv, RegistryTypes, TopicTypes
<1>2. frame[x] \in FrameUpTo(Len(store), Len(objects))
  BY DEF TypesInv, FrameTypes
<1>3. \A o \in 1..Len(objects) : objects[o] \in ObjectUpTo(Len(store))
  BY DEF TypesInv, TopicTypes
<1> QED
  BY <1>1, <1>2, <1>3, FrameFields

-----------------------------------------------------------------------------
(* A step of one handler *)

\* What a handler changes of the topics and the mutexes is out of the others' sight:
\* it has the mutexes itself.
TopicsKept(ch) ==
  /\ Len(objects) <= Len(objects')
  /\ \A o \in 1..Len(objects) : objects'[o].filter = objects[o].filter
  /\ \A o \in 1..Len(objects) :
       objects[o].mutex \notin {ch, NULL} =>
         objects'[o].mutex = objects[o].mutex /\ objects'[o].clients = objects[o].clients
  /\ \A o \in 1..Len(objects) :
       objects[o].mutex \in {ch, NULL} => objects'[o].mutex \in {ch, NULL}
  /\ \A o \in 1..Len(objects') \ 1..Len(objects) : objects'[o].mutex = NULL
  /\ topic_mutex \notin {ch, NULL} =>
       topic_mutex' = topic_mutex /\ \A f \in Filters : map[f] # NULL => map'[f] # NULL
  /\ topic_mutex \in {ch, NULL} => topic_mutex' \in {ch, NULL}

\* What FramesInv, HoldersInv, ListedInv and OnlySubscribersReceive say of one channel.
FrameInv(ch) ==
  /\ Serves(frame[ch]) /\ Has(frame[ch])
  /\ Busy(ch) => frame[ch].agent.chan = ch
HoldersOf(ch) ==
  /\ topic_mutex = ch <=> HoldsTopics(ch)
  /\ \A o \in 1..Len(objects) :
       objects[o].mutex = ch <=> frame[ch].pc = "deliver" /\ frame[ch].obj = o
ListedOf(ch) ==
  /\ frame[ch].pc \in {"retained_wild", "retained_of"} => AtWild(ch)
  /\ frame[ch].rq.op = "publish" => \A o \in frame[ch].objs : objects[o].filter \in Wild
  /\ HoldsTopics(ch) /\ frame[ch].rq.op \in {"subscribe", "resume"} =>
       \A f \in frame[ch].todo : map[f] # NULL
Receives(ch) ==
  frame[ch].pc = "deliver" =>
    \A c \in frame[ch].to : objects[frame[ch].obj].clients[c.cid] # NULL
ChannelInv(ch) == FrameInv(ch) /\ HoldersOf(ch) /\ ListedOf(ch) /\ Receives(ch)
ParamInv == \A ch \in Channels : param[ch] # NULL => param[ch].chan = ch

LEMMA CoreParts ==
  Core <=> TypesInv /\ ParamInv /\ ObjectsInv /\ \A ch \in Channels : ChannelInv(ch)
BY DEF Core, FramesInv, HoldersInv, ListedInv, OnlySubscribersReceive, ParamInv, ChannelInv,
       FrameInv, HoldersOf, ListedOf, Receives

\* The others keep what holds of them.
LEMMA OthersKeep ==
  ASSUME Core, TypesInv', NEW ch \in Channels, TopicsKept(ch),
         NEW x \in Channels \ {ch}, frame'[x] = frame[x]
  PROVE  ChannelInv(x)'
<1> DEFINE fr == frame[x]
<1>1. ChannelInv(x) /\ TypesInv
  BY CoreParts
<1>2. /\ fr \in FrameUpTo(Len(store), Len(objects))
      /\ fr.obj \in 1..Len(objects) \cup {NULL} /\ fr.objs \in SUBSET (1..Len(objects))
      /\ Len(objects) \in Nat
      /\ \A o \in 1..Len(objects) : objects[o].mutex \in Channels \cup {NULL}
  BY <1>1, FrameRefers, ObjectFields
<1>3. x # NULL /\ ch # NULL /\ x # ch
  BY NullAssumption
<1>4. Len(objects') \in Nat
  BY DEF TypesInv, TopicTypes
<1>5. FrameInv(x)'
  BY <1>1 DEF ChannelInv, FrameInv, Busy
<1>6. \A o \in 1..Len(objects) : objects'[o].filter = objects[o].filter
  BY DEF TopicsKept
<1>7. fr.pc \in AtObject => fr.obj \in 1..Len(objects)
  BY <1>1, <1>2 DEF ChannelInv, FrameInv, Has
<1>8. HoldsTopics(x)' <=> HoldsTopics(x)
  BY <1>6, <1>7 DEF HoldsTopics, AtWild, AtObject
<1>9. topic_mutex' = x <=> topic_mutex = x
  BY <1>3 DEF TopicsKept
<1>10. ASSUME NEW o \in 1..Len(objects')
       PROVE  objects'[o].mutex = x <=> fr.pc = "deliver" /\ fr.obj = o
  <2>1. CASE o \in 1..Len(objects)
    <3>1. objects[o].mutex = x <=> fr.pc = "deliver" /\ fr.obj = o
      BY <1>1, <2>1 DEF ChannelInv, HoldersOf
    <3>2. objects'[o].mutex = x <=> objects[o].mutex = x
      BY <1>2, <1>3, <2>1 DEF TopicsKept
    <3> QED
      BY <3>1, <3>2
  <2>2. CASE o \notin 1..Len(objects)
    <3>1. objects'[o].mutex = NULL
      BY <2>2 DEF TopicsKept
    <3>2. fr.pc = "deliver" => fr.obj # o
      BY <1>7, <2>2 DEF AtObject
    <3> QED
      BY <1>3, <3>1, <3>2
  <2> QED
    BY <2>1, <2>2
<1>11. HoldersOf(x)'
  BY <1>1, <1>8, <1>9, <1>10 DEF ChannelInv, HoldersOf
<1>12. ListedOf(x)'
  <2>1. HoldsTopics(x) => \A f \in Filters : map[f] # NULL => map'[f] # NULL
    BY <1>1, <1>3 DEF ChannelInv, HoldersOf, TopicsKept
  <2>2. fr.todo \in SUBSET Filters
    BY <1>1, <1>2, FrameFields, FrameRefers
  <2>3. fr.pc \in {"retained_wild", "retained_of"} => AtWild(x)'
    BY <1>1, <1>6, <1>7 DEF ChannelInv, ListedOf, AtWild, AtObject
  <2>4. fr.rq.op = "publish" => \A o \in fr.objs : objects'[o].filter \in Wild
    BY <1>1, <1>2, <1>6 DEF ChannelInv, ListedOf
  <2>5. HoldsTopics(x)' /\ fr.rq.op \in {"subscribe", "resume"} => \A f \in fr.todo : map'[f] # NULL
    BY <1>1, <1>8, <2>1, <2>2 DEF ChannelInv, ListedOf
  <2> QED
    BY <2>3, <2>4, <2>5 DEF ListedOf
<1>13. Receives(x)'
  <2>1. SUFFICES ASSUME fr.pc = "deliver"
                 PROVE  objects'[fr.obj].clients = objects[fr.obj].clients
    BY <1>1 DEF ChannelInv, Receives
  <2>2. fr.obj \in 1..Len(objects) /\ objects[fr.obj].mutex = x
    BY <1>1, <1>7, <2>1 DEF ChannelInv, HoldersOf, AtObject
  <2> QED
    BY <1>3, <2>2 DEF TopicsKept
<1> QED
  BY <1>5, <1>11, <1>12, <1>13 DEF ChannelInv

\* So a step of a handler needs to be looked at from its own channel only.
LEMMA CoreStep ==
  ASSUME Core, TypesInv', ParamInv', ObjectsInv', NEW ch \in Channels, TopicsKept(ch),
         \A x \in Channels \ {ch} : frame'[x] = frame[x], ChannelInv(ch)'
  PROVE  Core'
<1>1. \A x \in Channels : ChannelInv(x)'
  BY OthersKeep
<1> QED
  BY <1>1 DEF Core, FramesInv, HoldersInv, ListedInv, OnlySubscribersReceive, ParamInv, ChannelInv,
              FrameInv, HoldersOf, ListedOf, Receives

\* A step that leaves topics and mutexes alone.
LEMMA QuietStep ==
  ASSUME Core, NEW ch \in Channels, UNCHANGED <<topics, topic_mutex>>,
         OutsideTypes', RegistryTypes', Len(store) <= Len(store'), ParamInv',
         NEW g \in FrameUpTo(Len(store'), Len(objects)), frame' = [frame EXCEPT ![ch] = g],
         Serves(g), Has(g), g.pc # "idle" => g.agent.chan = ch,
         frame[ch].pc # "deliver", g.pc # "deliver",
         HoldsTopics(ch)' <=> HoldsTopics(ch), ListedOf(ch)'
  PROVE  Core'
<1> DEFINE n == Len(store)
           k == Len(store')
           m == Len(objects)
<1>1. TypesInv /\ ParamInv /\ ObjectsInv /\ ChannelInv(ch)
  BY CoreParts
<1>2. n \in Nat /\ m \in Nat /\ k \in Nat
  BY <1>1 DEF TypesInv, RegistryTypes, TopicTypes
<1>3. objects' = objects /\ map' = map /\ topic_mutex' = topic_mutex
  BY DEF topics
<1>4. FrameUpTo(n, m) \subseteq FrameUpTo(k, m) /\ ObjectUpTo(n) \subseteq ObjectUpTo(k)
  BY <1>2, Larger
<1>5. frame \in [Channels -> FrameUpTo(k, m)]
  BY <1>1, <1>4 DEF TypesInv, FrameTypes
<1>6. frame' \in [Channels -> FrameUpTo(k, m)] /\ frame'[ch] = g
      /\ \A x \in Channels \ {ch} : frame'[x] = frame[x]
  BY <1>2, <1>5, FrameSet
<1>7. TypesInv'
  <2>1. objects \in Seq(ObjectUpTo(k))
    BY <1>1, <1>4 DEF TypesInv, TopicTypes
  <2> QED
    BY <1>1, <1>3, <1>6, <2>1 DEF TypesInv, TopicTypes, FrameTypes
<1>8. TopicsKept(ch)
  BY <1>1, <1>2, <1>3 DEF TopicsKept
<1>9. ObjectsInv'
  BY <1>1, <1>3 DEF ObjectsInv
<1>10. ChannelInv(ch)'
  <2>1. FrameInv(ch)'
    BY <1>6 DEF FrameInv, Busy
  <2>2. HoldersOf(ch)'
    BY <1>1, <1>3, <1>6 DEF ChannelInv, HoldersOf
  <2>3. Receives(ch)'
    BY <1>6 DEF Receives
  <2> QED
    BY <2>1, <2>2, <2>3 DEF ChannelInv
<1> QED
  BY <1>6, <1>7, <1>8, <1>9, <1>10, CoreStep

\* Places at which a handler may hold a mutex.
Holding == {"wild_next", "retained_of", "unsubscribe", "empty", "erase", "read_retained",
            "send_retained", "send_null", "store", "lock", "deliver"}

\* A quiet step between places where no mutex is held.
LEMMA FreeStep ==
  ASSUME Core, NEW ch \in Channels, UNCHANGED <<topics, topic_mutex>>,
         OutsideTypes', RegistryTypes', Len(store) <= Len(store'), ParamInv',
         NEW g \in FrameUpTo(Len(store'), Len(objects)), frame' = [frame EXCEPT ![ch] = g],
         Serves(g), Has(g), g.pc # "idle" => g.agent.chan = ch,
         frame[ch].pc \notin Holding, g.pc \notin Holding \cup {"retained_wild"},
         g.rq.op = "publish" => \A o \in g.objs : objects[o].filter \in Wild
  PROVE  Core'
<1>1. objects' = objects /\ ch \in DOMAIN frame
  BY DEF topics, Core, TypesInv, FrameTypes
<1>2. frame'[ch] = g
  BY <1>1
<1>3. ~HoldsTopics(ch) /\ ~HoldsTopics(ch)'
  BY <1>2 DEF HoldsTopics, Holding
<1>4. ListedOf(ch)'
  BY <1>1, <1>2, <1>3 DEF ListedOf, Holding
<1>5. frame[ch].pc # "deliver" /\ g.pc # "deliver"
  BY DEF Holding
<1> QED
  BY <1>3, <1>4, <1>5, QuietStep

\* The facts about the handler that takes the step.
LEMMA HandlerFacts ==
  ASSUME Core, NEW ch \in Channels
  PROVE  /\ frame[ch] \in FrameUpTo(Len(store), Len(objects))
         /\ Len(store) \in Nat /\ Len(objects) \in Nat
         /\ frame[ch].pc \in Places /\ frame[ch].rq \in Requests
         /\ frame[ch].agent \in AgentUpTo(Len(store)) \cup {NULL}
         /\ frame[ch].to \in SUBSET (ClientUpTo(Len(store)) \cup {NULL})
         /\ frame[ch].todo \in SUBSET Filters
         /\ frame[ch].obj \in 1..Len(objects) \cup {NULL}
         /\ frame[ch].source \in 1..Len(objects) \cup {NULL}
         /\ frame[ch].objs \in SUBSET (1..Len(objects))
         /\ Serves(frame[ch]) /\ Has(frame[ch])
         /\ frame[ch].pc # "idle" =>
              frame[ch].agent \in AgentUpTo(Len(store)) /\ frame[ch].agent.chan = ch
              /\ frame[ch].agent.cid \in ClientIds
         /\ frame[ch].pc \notin Connecting \cup {"idle"} => frame[ch].agent \in ClientUpTo(Len(store))
<1>1. TypesInv /\ FrameInv(ch)
  BY CoreParts DEF ChannelInv
<1>2. frame[ch] \in FrameUpTo(Len(store), Len(objects)) /\ Len(store) \in Nat /\ Len(objects) \in Nat
  BY <1>1, FrameRefers
<1>3. /\ frame[ch].pc \in Places /\ frame[ch].rq \in Requests
      /\ frame[ch].agent \in AgentUpTo(Len(store)) \cup {NULL}
      /\ frame[ch].to \in SUBSET (ClientUpTo(Len(store)) \cup {NULL})
      /\ frame[ch].todo \in SUBSET Filters
      /\ frame[ch].obj \in 1..Len(objects) \cup {NULL}
      /\ frame[ch].source \in 1..Len(objects) \cup {NULL}
      /\ frame[ch].objs \in SUBSET (1..Len(objects))
  BY <1>2, FrameFields
<1>4. Serves(frame[ch]) /\ Has(frame[ch])
  BY <1>1 DEF FrameInv
<1>5. ASSUME frame[ch].pc # "idle"
      PROVE  /\ frame[ch].agent \in AgentUpTo(Len(store)) /\ frame[ch].agent.chan = ch
             /\ frame[ch].agent.cid \in ClientIds
  <2>1. frame[ch].agent \in AgentUpTo(Len(store))
    BY <1>3, <1>4, <1>5 DEF Has
  <2>2. frame[ch].agent.chan = ch
    BY <1>1, <1>5 DEF FrameInv, Busy
  <2> QED
    BY <1>2, <2>1, <2>2, ClientFields
<1>6. ASSUME frame[ch].pc \notin Connecting \cup {"idle"}
      PROVE  frame[ch].agent \in ClientUpTo(Len(store))
  BY <1>2, <1>4, <1>5, <1>6, ClientFields DEF Has
<1> QED
  BY <1>2, <1>3, <1>4, <1>5, <1>6

\* A step no handler takes.
LEMMA StillStep ==
  ASSUME Core, UNCHANGED <<topics, topic_mutex, store, frame>>,
         OutsideTypes', RegistryTypes', ParamInv'
  PROVE  Core'
BY CoreParts
   DEF topics, Core, TypesInv, TopicTypes, FrameTypes, FramesInv, ParamInv, Busy, ObjectsInv,
       HoldersInv, HoldsTopics, AtWild, ListedInv, OnlySubscribersReceive

LEMMA IdleFrame ==
  /\ \A n, m \in Nat : Idle \in FrameUpTo(n, m)
  /\ Idle.pc = "idle" /\ Idle.rq = [op |-> "idle"] /\ Idle.agent = NULL /\ Idle.to = {}
  /\ Idle.todo = {} /\ Idle.obj = NULL /\ Idle.source = NULL /\ Idle.objs = {}
  /\ Serves(Idle) /\ Has(Idle)
<1>1. /\ Idle.pc = "idle" /\ Idle.rq = [op |-> "idle"] /\ Idle.agent = NULL /\ Idle.to = {}
      /\ Idle.todo = {} /\ Idle.obj = NULL /\ Idle.source = NULL /\ Idle.objs = {}
  BY DEF Idle
<1>2. \A n, m \in Nat : Idle \in FrameUpTo(n, m)
  BY DEF Idle, FrameUpTo, Requests, Places
<1>3. Serves(Idle) /\ Has(Idle)
  BY <1>1 DEF Serves, Has, Connecting, Passing, Publishing, Leaving, AtObject
<1> QED
  BY <1>1, <1>2, <1>3

\* The handler returns.
LEMMA ReturnStep ==
  ASSUME Core, NEW ch \in Channels, UNCHANGED <<topics, topic_mutex>>,
         OutsideTypes', RegistryTypes', Len(store) = Len(store'), ParamInv',
         Return(ch), frame[ch].pc \notin Holding
  PROVE  Core'
<1>1. Idle \in FrameUpTo(Len(store'), Len(objects)) /\ Serves(Idle) /\ Has(Idle)
      /\ Idle.pc = "idle" /\ Idle.rq.op = "idle"
  BY HandlerFacts, IdleFrame
<1>2. frame' = [frame EXCEPT ![ch] = Idle]
  BY DEF Return
<1>3. Idle.pc \notin Holding \cup {"retained_wild"}
  BY <1>1 DEF Holding
<1>4. Len(store) <= Len(store')
  BY HandlerFacts
<1> QED
  BY <1>1, <1>2, <1>3, <1>4, FreeStep

LEMMA InitCore == Init => Core
<1> SUFFICES ASSUME Init PROVE Core
  OBVIOUS
<1>1. store = <<>> /\ objects = <<>> /\ Len(store) = 0 /\ Len(objects) = 0
  BY DEF Init
<1>2. OutsideTypes
  BY ScriptAssumption DEF Init, OutsideTypes
<1>3. RegistryTypes /\ TopicTypes
  BY <1>1 DEF Init, RegistryTypes, TopicTypes
<1>4. \A ch \in Channels : frame[ch] = Idle
  BY DEF Init
<1>5. FrameTypes
  BY <1>1, IdleFrame DEF Init, FrameTypes
<1>6. FramesInv
  BY <1>4, IdleFrame DEF FramesInv, Busy, Init
<1>7. ObjectsInv
  BY <1>1 DEF Init, ObjectsInv
<1>8. \A ch \in Channels : ~HoldsTopics(ch)
  BY <1>4, IdleFrame DEF HoldsTopics
<1>9. HoldersInv
  BY <1>1, <1>8, NullAssumption DEF Init, HoldersInv
<1>10. ListedInv
  BY <1>4, <1>8, IdleFrame DEF ListedInv
<1>11. OnlySubscribersReceive
  BY <1>4, IdleFrame DEF OnlySubscribersReceive
<1> QED
  BY <1>2, <1>3, <1>5, <1>6, <1>7, <1>9, <1>10, <1>11 DEF Core, TypesInv

-----------------------------------------------------------------------------
(* A handler begins *)

LEMMA RequestFields ==
  ASSUME NEW rq \in Request
  PROVE  /\ rq \in Requests
         /\ rq.op \in {"connect", "subscribe", "unsubscribe", "publish", "disconnect", "lost"}
         /\ rq.op = "connect" => /\ rq.cid \in ClientIds /\ rq.clean \in BOOLEAN
                                 /\ rq.will \in Plain \cup {NULL}
         /\ rq.op = "publish" => rq.topic \in Plain
         /\ "filters" \in DOMAIN rq => rq.filters \in SUBSET Filters
<1>1. rq \in Requests
  BY DEF Requests
<1>2. CASE rq \in [op : {"connect"}, cid : ClientIds, clean : BOOLEAN, will : Plain \cup {NULL}]
  BY <1>1, <1>2
<1>3. CASE rq \in [op : {"subscribe", "unsubscribe"}, filters : SUBSET Filters]
  BY <1>1, <1>3
<1>4. CASE rq \in Message("publish")
  BY <1>1, <1>4 DEF Message
<1>5. CASE rq \in [op : {"disconnect", "lost"}]
  BY <1>1, <1>5
<1> QED
  BY <1>2, <1>3, <1>4, <1>5 DEF Request

\* The frame a handler begins with, without filters and with.
Begun(rq, c, pc) == [[Idle EXCEPT !.rq = rq, !.agent = c] EXCEPT !.pc = pc]
BegunFor(rq, c, todo, pc) ==
  [[Idle EXCEPT !.rq = rq, !.agent = c, !.todo = todo] EXCEPT !.pc = pc]

LEMMA BeginFrame ==
  ASSUME NEW n \in Nat, NEW m \in Nat, NEW rq \in Requests, NEW c \in AgentUpTo(n),
         NEW pc \in Places, NEW g, g = Begun(rq, c, pc)
  PROVE  /\ g \in FrameUpTo(n, m)
         /\ g.pc = pc /\ g.rq = rq /\ g.agent = c /\ g.objs = {}
<1> PICK i : i = Idle
  OBVIOUS
<1>1. i \in FrameUpTo(n, m) /\ i.objs = {}
  BY IdleFrame
<1>2. g = [[i EXCEPT !.rq = rq, !.agent = c] EXCEPT !.pc = pc]
  BY DEF Begun
<1> QED
  BY ONLY <1>1, <1>2, rq \in Requests, c \in AgentUpTo(n), pc \in Places DEF FrameUpTo

LEMMA BeginFrameFor ==
  ASSUME NEW n \in Nat, NEW m \in Nat, NEW rq \in Requests, NEW c \in AgentUpTo(n),
         NEW todo \in SUBSET Filters, NEW pc \in Places, NEW g, g = BegunFor(rq, c, todo, pc)
  PROVE  /\ g \in FrameUpTo(n, m)
         /\ g.pc = pc /\ g.rq = rq /\ g.agent = c /\ g.objs = {}
<1> PICK i : i = Idle
  OBVIOUS
<1>1. i \in FrameUpTo(n, m) /\ i.objs = {}
  BY IdleFrame
<1>2. g = [[i EXCEPT !.rq = rq, !.agent = c, !.todo = todo] EXCEPT !.pc = pc]
  BY DEF BegunFor
<1> QED
  BY ONLY <1>1, <1>2, rq \in Requests, c \in AgentUpTo(n), pc \in Places, todo \in SUBSET Filters
     DEF FrameUpTo

\* The request of a handler that no packet but an event or an acknowledgement begins.
LEMMA PlainRequest ==
  ASSUME NEW op \in {"puback", "disconnected"}, NEW c
  PROVE  /\ [op |-> op] \in Requests
         /\ [Idle EXCEPT !.rq.op = op, !.agent = c] = [Idle EXCEPT !.rq = [op |-> op], !.agent = c]
<1>1. [op |-> op] \in Requests
  BY DEF Requests
<1>2. [Idle.rq EXCEPT !.op = op] = [op |-> op]
  BY IdleFrame
<1>3. [Idle EXCEPT !.rq.op = op] = [Idle EXCEPT !.rq = [Idle.rq EXCEPT !.op = op]]
  OBVIOUS
<1> QED
  BY <1>1, <1>2, <1>3

LEMMA ScriptHead ==
  ASSUME Core, NEW ch \in Channels, script[ch] # <<>>
  PROVE  /\ Head(script[ch]) \in Request
         /\ [script EXCEPT ![ch] = Tail(@)] \in [Channels -> Seq(Request)]
<1>1. script \in [Channels -> Seq(Request)]
  BY DEF Core, TypesInv, OutsideTypes
<1> QED
  BY <1>1

LEMMA CloseTypes ==
  ASSUME Core, NEW s, Close(s)
  PROVE  chan' \in [Channels -> {"open", "closing", "closed"}]
BY DEF Core, TypesInv, OutsideTypes, Close

LEMMA ReadCore ==
  ASSUME Core, NEW ch \in Channels, channel_read(ch)
  PROVE  Core'
<1> DEFINE rq == Head(script[ch])
           todo == IF "filters" \in DOMAIN rq THEN rq.filters ELSE {}
           g == [[Idle EXCEPT !.rq = rq, !.agent = param[ch], !.todo = todo]
                   EXCEPT !.pc = FirstPlace(rq.op)]
<1>1. /\ script[ch] # <<>> /\ rq.op \notin {"connect", "lost"} /\ frame[ch].pc = "idle"
      /\ script' = [script EXCEPT ![ch] = Tail(@)]
      /\ param' = IF rq.op = "disconnect" THEN [param EXCEPT ![ch] = NULL] ELSE param
      /\ unread' = IF rq.op = "disconnect" THEN [unread EXCEPT ![ch] = 0] ELSE unread
      /\ crashed' = crashed /\ clients' = clients /\ sessions' = sessions /\ store' = store
      /\ UNCHANGED <<topics, topic_mutex>>
  BY DEF channel_read, Ready, Busy
<1>2. rq \in Request /\ script' \in [Channels -> Seq(Request)]
  BY <1>1, ScriptHead
<1>3. OutsideTypes /\ RegistryTypes /\ ParamInv
  BY CoreParts DEF TypesInv
<1>4. RegistryTypes' /\ ParamInv'
  BY <1>1, <1>3 DEF RegistryTypes, ParamInv
<1>5. unread' \in [Channels -> Nat] /\ crashed' \in {"no", "param", "message"}
  BY <1>1, <1>3 DEF OutsideTypes
<1>6. CASE param[ch] = NULL
  <2>1. Close({ch}) /\ frame' = frame
    BY <1>6 DEF channel_read
  <2>2. OutsideTypes'
    BY <1>2, <1>5, <2>1, CloseTypes DEF OutsideTypes
  <2> QED
    BY <1>1, <1>4, <2>1, <2>2, StillStep
<1>7. CASE param[ch] # NULL
  <2>1. frame' = [frame EXCEPT ![ch] = g] /\ chan' = chan
    BY <1>7 DEF channel_read, Goto
  <2>2. OutsideTypes'
    BY <1>2, <1>3, <1>5, <2>1 DEF OutsideTypes
  <2>3. param[ch] \in ClientUpTo(Len(store)) /\ param[ch].chan = ch
    BY <1>3, <1>7 DEF RegistryTypes, ParamInv
  <2>4. /\ rq \in Requests /\ todo \in SUBSET Filters
        /\ rq.op \in {"subscribe", "unsubscribe", "publish", "disconnect"}
        /\ rq.op = "publish" => rq.topic \in Plain
    BY <1>1, <1>2, RequestFields
  <2>5. /\ rq.op = "subscribe" => FirstPlace(rq.op) = "to_subscribe"
        /\ rq.op = "unsubscribe" => FirstPlace(rq.op) = "lookup"
        /\ rq.op = "publish" => FirstPlace(rq.op) = "publish"
        /\ rq.op = "disconnect" => FirstPlace(rq.op) = "unsubscribe_all"
    BY DEF FirstPlace
  <2>13. g = BegunFor(rq, param[ch], todo, FirstPlace(rq.op))
    BY DEF BegunFor
  <2> HIDE DEF rq, todo, g
  <2>6. Len(store) \in Nat /\ param[ch] \in AgentUpTo(Len(store)) /\ param[ch].sess # NULL
        /\ param[ch] # NULL /\ Len(objects) \in Nat
    BY <1>7, <2>3, HandlerFacts, KnownFields
  <2>7. FirstPlace(rq.op) \in Places
    BY <2>4, <2>5 DEF Places
  <2>8. /\ g \in FrameUpTo(Len(store), Len(objects))
        /\ g.pc = FirstPlace(rq.op) /\ g.rq = rq /\ g.agent = param[ch] /\ g.objs = {}
    BY ONLY <2>4, <2>13, <2>6, <2>7, BeginFrameFor
  <2>9. Serves(g)
    BY <2>4, <2>5, <2>8 DEF Serves, Connecting, Passing, Publishing, Leaving
  <2>10. Has(g)
    BY <2>4, <2>5, <2>6, <2>8 DEF Has, Connecting, AtObject
  <2>11. g.pc \notin Holding \cup {"retained_wild"} /\ frame[ch].pc \notin Holding
    BY <1>1, <2>4, <2>5, <2>8 DEF Holding
  <2>12. g.agent.chan = ch /\ g.objs = {}
    BY <2>3, <2>8
  <2>14. Len(store') = Len(store) /\ Len(store) <= Len(store')
    BY <1>1, <2>6
  <2> QED
    BY <1>1, <1>4, <2>1, <2>2, <2>8, <2>9, <2>10, <2>11, <2>12, <2>14, FreeStep
<1> QED
  BY <1>6, <1>7

LEMMA ConnectCore ==
  ASSUME Core, NEW ch \in Channels, handle_connect(ch)
  PROVE  Core'
<1> DEFINE rq == Head(script[ch])
           c == [chan |-> ch, cid |-> rq.cid, clean |-> rq.clean, will |-> rq.will, sess |-> NULL]
           g == [[Idle EXCEPT !.rq = rq, !.agent = c] EXCEPT !.pc = "get_client"]
<1>1. /\ script[ch] # <<>> /\ rq.op = "connect" /\ frame[ch].pc = "idle"
      /\ script' = [script EXCEPT ![ch] = Tail(@)]
      /\ frame' = [frame EXCEPT ![ch] = g]
      /\ Close(IF param[ch] = NULL THEN {} ELSE {ch})
      /\ UNCHANGED <<unread, crashed, registries, store, topics, topic_mutex>>
  BY DEF handle_connect, Ready, Busy, Goto
<1>2. rq \in Request /\ script' \in [Channels -> Seq(Request)]
  BY <1>1, ScriptHead
<1>3. OutsideTypes /\ RegistryTypes /\ ParamInv
  BY CoreParts DEF TypesInv
<1>4. RegistryTypes' /\ ParamInv'
  BY <1>1, <1>3 DEF RegistryTypes, ParamInv, registries
<1>5. OutsideTypes'
  BY <1>1, <1>2, <1>3, CloseTypes DEF OutsideTypes
<1>6. rq \in Requests /\ rq.cid \in ClientIds /\ rq.clean \in BOOLEAN /\ rq.will \in Plain \cup {NULL}
  BY <1>1, <1>2, RequestFields
<1> HIDE DEF rq
<1>7. c \in AgentUpTo(Len(store)) /\ c.chan = ch
  BY <1>6 DEF AgentUpTo
<1>8. Len(store) \in Nat /\ c # NULL /\ Len(objects) \in Nat
  BY <1>7, HandlerFacts, ClientFields
<1> HIDE DEF c
<1>9. "get_client" \in Places
  BY DEF Places
<1>14. g = Begun(rq, c, "get_client")
  BY DEF Begun
<1> HIDE DEF g
<1>10. /\ g \in FrameUpTo(Len(store), Len(objects))
       /\ g.pc = "get_client" /\ g.rq = rq /\ g.agent = c /\ g.objs = {}
  BY ONLY <1>6, <1>7, <1>8, <1>9, <1>14, BeginFrame
<1>11. Serves(g) /\ Has(g)
  BY <1>1, <1>8, <1>10 DEF Serves, Has, Connecting, Passing, Publishing, Leaving, AtObject
<1>12. g.pc \notin Holding \cup {"retained_wild"} /\ frame[ch].pc \notin Holding
  BY <1>1, <1>10 DEF Holding
<1>13. Len(store') = Len(store) /\ Len(store) <= Len(store')
  BY <1>1, <1>8
<1> QED
  BY <1>1, <1>4, <1>5, <1>7, <1>10, <1>11, <1>12, <1>13, FreeStep

LEMMA PubackBeginsCore ==
  ASSUME Core, NEW ch \in Channels, handle_puback(ch)
  PROVE  Core'
<1> DEFINE g == [[Idle EXCEPT !.rq.op = "puback", !.agent = param[ch]] EXCEPT !.pc = "puback"]
<1>1. /\ param[ch] # NULL /\ unread[ch] > 0 /\ frame[ch].pc = "idle"
      /\ unread' = [unread EXCEPT ![ch] = @ - 1]
      /\ frame' = [frame EXCEPT ![ch] = g]
      /\ UNCHANGED <<script, chan, crashed, registries, store, topics, topic_mutex>>
  BY DEF handle_puback, CanAcknowledge, Ready, Busy, Goto
<1>2. OutsideTypes /\ RegistryTypes /\ ParamInv
  BY CoreParts DEF TypesInv
<1>3. RegistryTypes' /\ ParamInv'
  BY <1>1, <1>2 DEF RegistryTypes, ParamInv, registries
<1>4. OutsideTypes'
  BY <1>1, <1>2 DEF OutsideTypes
<1>5. param[ch] \in ClientUpTo(Len(store)) /\ param[ch].chan = ch
  BY <1>1, <1>2 DEF RegistryTypes, ParamInv
<1>6. Len(store) \in Nat /\ param[ch] \in AgentUpTo(Len(store)) /\ param[ch].sess # NULL
  BY <1>5, HandlerFacts, KnownFields
<1>7. g = Begun([op |-> "puback"], param[ch], "puback")
      /\ [op |-> "puback"] \in Requests /\ "puback" \in Places /\ Len(objects) \in Nat
  BY PlainRequest, HandlerFacts DEF Places, Begun
<1> HIDE DEF g
<1>8. /\ g \in FrameUpTo(Len(store), Len(objects))
      /\ g.pc = "puback" /\ g.rq = [op |-> "puback"] /\ g.agent = param[ch] /\ g.objs = {}
  BY ONLY <1>6, <1>7, BeginFrame
<1>9. Serves(g) /\ Has(g)
  BY <1>1, <1>6, <1>8 DEF Serves, Has, Connecting, Passing, Publishing, Leaving, AtObject
<1>10. g.pc \notin Holding \cup {"retained_wild"} /\ frame[ch].pc \notin Holding
  BY <1>1, <1>8 DEF Holding
<1>11. Len(store') = Len(store) /\ Len(store) <= Len(store')
  BY <1>1, <1>6
<1> QED
  BY <1>1, <1>3, <1>4, <1>5, <1>8, <1>9, <1>10, <1>11, FreeStep

LEMMA DisconnectedCore ==
  ASSUME Core, NEW ch \in Channels, handle_channel_disconnected(ch)
  PROVE  Core'
<1> DEFINE c == param[ch]
           g == [[Idle EXCEPT !.rq.op = "disconnected", !.agent = c] EXCEPT !.pc = "unsubscribe_all"]
           h == [[Idle EXCEPT !.rq = [op |-> "disconnected", topic |-> c.will, retain |-> "no"],
                              !.agent = c] EXCEPT !.pc = "will"]
<1>1. /\ frame[ch].pc = "idle"
      /\ chan' = [chan EXCEPT ![ch] = "closed"]
      /\ param' = [param EXCEPT ![ch] = NULL]
      /\ unread' = [unread EXCEPT ![ch] = 0]
      /\ UNCHANGED <<script, crashed, clients, sessions, store, topics, topic_mutex>>
  BY DEF handle_channel_disconnected, Ready, Busy
<1>2. OutsideTypes /\ RegistryTypes /\ ParamInv
  BY CoreParts DEF TypesInv
<1>3. RegistryTypes' /\ ParamInv' /\ OutsideTypes'
  BY <1>1, <1>2 DEF RegistryTypes, ParamInv, OutsideTypes
<1>4. Len(store) \in Nat /\ Len(store) <= Len(store') /\ Len(store') = Len(store)
  BY <1>1, HandlerFacts
<1>5. frame[ch].pc \notin Holding
  BY <1>1 DEF Holding
<1>6. CASE c = NULL
  <2>1. frame' = frame
    BY <1>6 DEF handle_channel_disconnected
  <2> QED
    BY <1>1, <1>3, <2>1, StillStep
<1>7. ASSUME c # NULL
      PROVE  c \in AgentUpTo(Len(store)) /\ c.sess # NULL /\ c.chan = ch /\ c.will \in Plain \cup {NULL}
  <2>1. c \in ClientUpTo(Len(store)) /\ c.chan = ch
    BY <1>2, <1>7 DEF RegistryTypes, ParamInv
  <2> QED
    BY <1>4, <2>1, KnownFields
<1>8. CASE c # NULL /\ c.will = NULL
  <2>1. frame' = [frame EXCEPT ![ch] = g]
    BY <1>8 DEF handle_channel_disconnected, Goto
  <2>2. g = Begun([op |-> "disconnected"], c, "unsubscribe_all")
        /\ [op |-> "disconnected"] \in Requests /\ "unsubscribe_all" \in Places
    BY PlainRequest DEF Places, Begun
  <2>3. c \in AgentUpTo(Len(store)) /\ Len(objects) \in Nat
    BY <1>7, <1>8, HandlerFacts
  <2> HIDE DEF g, c
  <2>4. /\ g \in FrameUpTo(Len(store), Len(objects))
        /\ g.pc = "unsubscribe_all" /\ g.rq = [op |-> "disconnected"] /\ g.agent = c /\ g.objs = {}
    BY ONLY <1>4, <2>2, <2>3, BeginFrame
  <2>5. Serves(g) /\ Has(g)
    BY <1>7, <1>8, <2>4 DEF Serves, Has, Connecting, Passing, Publishing, Leaving, AtObject
  <2>6. g.pc \notin Holding \cup {"retained_wild"}
    BY <2>4 DEF Holding
  <2> QED
    BY <1>1, <1>3, <1>4, <1>5, <1>7, <1>8, <2>1, <2>4, <2>5, <2>6, FreeStep
<1>9. CASE c # NULL /\ c.will # NULL
  <2>1. frame' = [frame EXCEPT ![ch] = h]
    BY <1>9 DEF handle_channel_disconnected, Goto
  <2>2. c.will \in Plain /\ c \in AgentUpTo(Len(store)) /\ Len(objects) \in Nat
    BY <1>7, <1>9, HandlerFacts
  <2> DEFINE rq == [op |-> "disconnected", topic |-> c.will, retain |-> "no"]
  <2>3. rq \in Requests /\ rq.op = "disconnected" /\ rq.topic = c.will /\ "will" \in Places
    BY <2>2 DEF Requests, Message, Places
  <2> HIDE DEF rq
  <2>4. h = Begun(rq, c, "will")
    BY DEF rq, Begun
  <2> HIDE DEF h, c
  <2>5. /\ h \in FrameUpTo(Len(store), Len(objects))
        /\ h.pc = "will" /\ h.rq = rq /\ h.agent = c /\ h.objs = {}
    BY ONLY <1>4, <2>2, <2>3, <2>4, BeginFrame
  <2>6. Serves(h) /\ Has(h)
    BY <1>7, <1>9, <2>2, <2>3, <2>5 DEF Serves, Has, Connecting, Passing, Publishing, Leaving, AtObject
  <2>7. h.pc \notin Holding \cup {"retained_wild"}
    BY <2>5 DEF Holding
  <2>8. h.rq.op # "publish"
    BY <2>3, <2>5
  <2> QED
    BY <1>1, <1>3, <1>4, <1>5, <1>7, <1>9, <2>1, <2>5, <2>6, <2>7, <2>8, FreeStep
<1> QED
  BY <1>6, <1>8, <1>9

LEMMA LostCore ==
  ASSUME Core, NEW ch \in Channels, ConnectionLost(ch)
  PROVE  Core'
<1>1. /\ script[ch] # <<>> /\ script' = [script EXCEPT ![ch] = Tail(@)] /\ Close({ch})
      /\ UNCHANGED <<unread, crashed, registries, store, topics, topic_mutex, frame>>
  BY DEF ConnectionLost
<1>2. OutsideTypes /\ RegistryTypes /\ ParamInv
  BY CoreParts DEF TypesInv
<1>3. RegistryTypes' /\ ParamInv'
  BY <1>1, <1>2 DEF RegistryTypes, ParamInv, registries
<1>4. OutsideTypes'
  BY <1>1, <1>2, ScriptHead, CloseTypes DEF OutsideTypes
<1> QED
  BY <1>1, <1>3, <1>4, StillStep

-----------------------------------------------------------------------------
(* handle_connect *)

\* What a step leaves alone keeps its type.
LEMMA KeptTypes ==
  ASSUME Core, UNCHANGED <<outside, registries, store>>
  PROVE  /\ OutsideTypes' /\ RegistryTypes' /\ ParamInv'
         /\ Len(store') = Len(store) /\ Len(store) <= Len(store')
<1>1. OutsideTypes /\ RegistryTypes /\ ParamInv /\ Len(store) \in Nat
  BY CoreParts DEF TypesInv, RegistryTypes
<1> QED
  BY <1>1 DEF OutsideTypes, RegistryTypes, ParamInv, outside, registries

\* Goto changes the place.
LEMMA GotoFrame ==
  ASSUME NEW n \in Nat, NEW m \in Nat, NEW ch \in Channels,
         NEW fr \in FrameUpTo(n, m), NEW pc \in Places, Goto(ch, fr, pc)
  PROVE  \E g \in FrameUpTo(n, m) :
           /\ frame' = [frame EXCEPT ![ch] = g]
           /\ g.pc = pc /\ g.rq = fr.rq /\ g.agent = fr.agent /\ g.to = fr.to
           /\ g.todo = fr.todo /\ g.obj = fr.obj /\ g.source = fr.source /\ g.objs = fr.objs
<1> DEFINE g == [fr EXCEPT !.pc = pc]
<1>1. frame' = [frame EXCEPT ![ch] = g]
  BY DEF Goto
<1>2. /\ g \in FrameUpTo(n, m)
      /\ g.pc = pc /\ g.rq = fr.rq /\ g.agent = fr.agent /\ g.to = fr.to
      /\ g.todo = fr.todo /\ g.obj = fr.obj /\ g.source = fr.source /\ g.objs = fr.objs
  BY DEF FrameUpTo
<1> QED
  BY <1>1, <1>2

\* A step whose only effect is on the handler's own frame, between places that hold
\* no mutex.
LEMMA FreeGoto ==
  ASSUME Core, NEW ch \in Channels, UNCHANGED <<topics, topic_mutex>>,
         OutsideTypes', RegistryTypes', Len(store) <= Len(store'), ParamInv',
         NEW fr \in FrameUpTo(Len(store'), Len(objects)), NEW pc \in Places, Goto(ch, fr, pc),
         fr.agent.chan = ch, pc # "idle",
         frame[ch].pc \notin Holding, pc \notin Holding \cup {"retained_wild"},
         fr.rq.op = "publish" => \A o \in fr.objs : objects[o].filter \in Wild,
         \A g : /\ g.pc = pc /\ g.rq = fr.rq /\ g.agent = fr.agent /\ g.to = fr.to
                /\ g.todo = fr.todo /\ g.obj = fr.obj /\ g.source = fr.source
                => Serves(g) /\ Has(g)
  PROVE  Core'
<1>1. Len(store') \in Nat /\ Len(objects) \in Nat
  BY HandlerFacts DEF RegistryTypes
<1>2. PICK g \in FrameUpTo(Len(store'), Len(objects)) :
           /\ frame' = [frame EXCEPT ![ch] = g]
           /\ g.pc = pc /\ g.rq = fr.rq /\ g.agent = fr.agent /\ g.to = fr.to
           /\ g.todo = fr.todo /\ g.obj = fr.obj /\ g.source = fr.source /\ g.objs = fr.objs
  BY <1>1, GotoFrame
<1>3. Serves(g) /\ Has(g)
  BY <1>2
<1> QED
  BY <1>2, <1>3, FreeStep

LEMMA GetClientCore ==
  ASSUME Core, NEW ch \in Channels, get_client(ch)
  PROVE  Core'
<1> DEFINE old == clients[frame[ch].agent.cid]
           fr == [frame[ch] EXCEPT !.to = {old}]
<1>1. frame[ch].pc = "get_client" /\ UNCHANGED <<outside, registries, store, topics, topic_mutex>>
  BY DEF get_client, At
<1>2. /\ OutsideTypes' /\ RegistryTypes' /\ ParamInv'
      /\ Len(store') = Len(store) /\ Len(store) <= Len(store')
  BY <1>1, KeptTypes
<1>3. /\ frame[ch] \in FrameUpTo(Len(store), Len(objects)) /\ frame[ch].agent.chan = ch
      /\ frame[ch].agent.cid \in ClientIds /\ frame[ch].agent # NULL /\ frame[ch].rq.op = "connect"
  BY <1>1, HandlerFacts DEF Serves, Has, Connecting
<1>4. /\ frame[ch].pc \notin Holding
      /\ \A pc \in Connecting : pc # "idle" /\ pc \notin Holding \cup {"retained_wild"} /\ pc \in Places
  BY <1>1 DEF Holding, Connecting, Places
<1>5. CASE old = NULL
  <2>1. Goto(ch, frame[ch], "session") /\ "session" \in Connecting
    BY <1>5 DEF get_client, Connecting
  <2>2. \A g : g.pc = "session" /\ g.rq = frame[ch].rq /\ g.agent = frame[ch].agent
               => Serves(g) /\ Has(g)
    BY <1>3 DEF Serves, Has, Connecting, Passing, Publishing, Leaving, AtObject
  <2> QED
    BY <1>1, <1>2, <1>3, <1>4, <2>1, <2>2, FreeGoto
<1>6. CASE old # NULL
  <2>1. Goto(ch, fr, "delete_client") /\ "delete_client" \in Connecting
    BY <1>6 DEF get_client, Connecting
  <2>2. old \in ClientUpTo(Len(store))
    BY <1>3, <1>6, CoreParts DEF TypesInv, RegistryTypes
  <2>3. fr \in FrameUpTo(Len(store), Len(objects)) /\ fr.agent = frame[ch].agent /\ fr.rq = frame[ch].rq
    BY <1>3, <2>2 DEF FrameUpTo
  <2> HIDE DEF fr
  <2>4. \A g : g.pc = "delete_client" /\ g.rq = fr.rq /\ g.agent = fr.agent => Serves(g) /\ Has(g)
    BY <1>3, <2>3 DEF Serves, Has, Connecting, Passing, Publishing, Leaving, AtObject
  <2> QED
    BY <1>1, <1>2, <1>3, <1>4, <2>1, <2>3, <2>4, FreeGoto
<1> QED
  BY <1>5, <1>6

LEMMA DeleteClientCore ==
  ASSUME Core, NEW ch \in Channels, delete_client(ch)
  PROVE  Core'
<1>1. /\ frame[ch].pc = "delete_client" /\ Goto(ch, frame[ch], "take_over")
      /\ clients' = [clients EXCEPT ![frame[ch].agent.cid] = NULL]
      /\ UNCHANGED <<outside, param, sessions, store, topics, topic_mutex>>
  BY DEF delete_client, Step, At, Without
<1>2. OutsideTypes /\ RegistryTypes /\ ParamInv
  BY CoreParts DEF TypesInv
<1>3. OutsideTypes' /\ RegistryTypes' /\ ParamInv'
  BY <1>1, <1>2 DEF OutsideTypes, RegistryTypes, ParamInv, outside
<1>4. /\ frame[ch] \in FrameUpTo(Len(store'), Len(objects)) /\ Len(store) <= Len(store')
      /\ frame[ch].agent.chan = ch /\ frame[ch].agent # NULL /\ frame[ch].rq.op = "connect"
  BY <1>1, HandlerFacts DEF Serves, Has, Connecting
<1>5. \A g : g.pc = "take_over" /\ g.rq = frame[ch].rq /\ g.agent = frame[ch].agent
             => Serves(g) /\ Has(g)
  BY <1>4 DEF Serves, Has, Connecting, Passing, Publishing, Leaving, AtObject
<1>6. /\ frame[ch].pc \notin Holding /\ "take_over" \notin Holding \cup {"retained_wild"}
      /\ "take_over" \in Places
  BY <1>1 DEF Holding, Places
<1> QED
  BY <1>1, <1>3, <1>4, <1>5, <1>6, FreeGoto

LEMMA TakeOverCore ==
  ASSUME Core, NEW ch \in Channels, take_over(ch)
  PROVE  Core'
<1> DEFINE old == Displaced(frame[ch])
<1>1. /\ frame[ch].pc = "take_over" /\ Goto(ch, frame[ch], "close_old")
      /\ param' = [x \in Channels |-> IF x \in old THEN NULL ELSE param[x]]
      /\ UNCHANGED <<outside, clients, sessions, store, topics, topic_mutex>>
  BY DEF take_over, Step, At
<1>2. OutsideTypes /\ RegistryTypes /\ ParamInv
  BY CoreParts DEF TypesInv
<1>3. OutsideTypes' /\ RegistryTypes' /\ ParamInv'
  BY <1>1, <1>2 DEF OutsideTypes, RegistryTypes, ParamInv, outside
<1>4. /\ frame[ch] \in FrameUpTo(Len(store'), Len(objects)) /\ Len(store) <= Len(store')
      /\ frame[ch].agent.chan = ch /\ frame[ch].agent # NULL /\ frame[ch].rq.op = "connect"
  BY <1>1, HandlerFacts DEF Serves, Has, Connecting
<1>5. \A g : g.pc = "close_old" /\ g.rq = frame[ch].rq /\ g.agent = frame[ch].agent
             => Serves(g) /\ Has(g)
  BY <1>4 DEF Serves, Has, Connecting, Passing, Publishing, Leaving, AtObject
<1>6. /\ frame[ch].pc \notin Holding /\ "close_old" \notin Holding \cup {"retained_wild"}
      /\ "close_old" \in Places
  BY <1>1 DEF Holding, Places
<1> QED
  BY <1>1, <1>3, <1>4, <1>5, <1>6, FreeGoto

LEMMA CloseOldCore ==
  ASSUME Core, NEW ch \in Channels, close_old(ch)
  PROVE  Core'
<1> DEFINE fr == [frame[ch] EXCEPT !.to = {}]
           old == {c.chan : c \in frame[ch].to}
<1>1. /\ frame[ch].pc = "close_old" /\ Goto(ch, fr, "session") /\ Close(old)
      /\ UNCHANGED <<script, unread, crashed, registries, store, topics, topic_mutex>>
  BY DEF close_old, At
<1> HIDE DEF old
<1>2. OutsideTypes /\ RegistryTypes /\ ParamInv
  BY CoreParts DEF TypesInv
<1>3. OutsideTypes' /\ RegistryTypes' /\ ParamInv'
  BY <1>1, <1>2, CloseTypes DEF OutsideTypes, RegistryTypes, ParamInv, registries
<1>4. /\ frame[ch] \in FrameUpTo(Len(store'), Len(objects)) /\ Len(store) <= Len(store')
      /\ frame[ch].agent.chan = ch /\ frame[ch].agent # NULL /\ frame[ch].rq.op = "connect"
  BY <1>1, HandlerFacts DEF Serves, Has, Connecting
<1>5. fr \in FrameUpTo(Len(store'), Len(objects)) /\ fr.agent = frame[ch].agent /\ fr.rq = frame[ch].rq
  BY <1>4 DEF FrameUpTo
<1> HIDE DEF fr
<1>6. \A g : g.pc = "session" /\ g.rq = fr.rq /\ g.agent = fr.agent => Serves(g) /\ Has(g)
  BY <1>4, <1>5 DEF Serves, Has, Connecting, Passing, Publishing, Leaving, AtObject
<1>7. /\ frame[ch].pc \notin Holding /\ "session" \notin Holding \cup {"retained_wild"}
      /\ "session" \in Places
  BY <1>1 DEF Holding, Places
<1> QED
  BY <1>1, <1>3, <1>4, <1>5, <1>6, <1>7, FreeGoto

\* A client gets its session.
LEMMA AgentWithSession ==
  ASSUME NEW n \in Nat, NEW m \in Nat, NEW f \in FrameUpTo(n, m), NEW s \in 1..n, f.agent # NULL
  PROVE  /\ [f.agent EXCEPT !.sess = s] \in ClientUpTo(n)
         /\ [f.agent EXCEPT !.sess = s].chan = f.agent.chan
<1>1. f.agent \in AgentUpTo(n)
  BY FrameFields
<1> QED
  BY <1>1 DEF AgentUpTo, ClientUpTo

LEMMA SessionCore ==
  ASSUME Core, NEW ch \in Channels, session(ch)
  PROVE  Core'
<1> DEFINE c == frame[ch].agent
           s == sessions[c.cid]
           a == [c EXCEPT !.sess = s]
           fr == [frame[ch] EXCEPT !.agent = a, !.rq = [op |-> "resume"]]
           h == [frame[ch] EXCEPT !.agent.sess = s, !.rq = [op |-> "resume"]]
<1>1. /\ frame[ch].pc = "session"
      /\ IF ~c.clean /\ s # NULL
           THEN Goto(ch, h, "reg_client") ELSE Goto(ch, frame[ch], "new_session")
      /\ sessions' = IF c.clean THEN [sessions EXCEPT ![c.cid] = NULL] ELSE sessions
      /\ UNCHANGED <<outside, param, clients, store, topics, topic_mutex>>
  BY DEF session, At
<1>2. OutsideTypes /\ RegistryTypes /\ ParamInv
  BY CoreParts DEF TypesInv
<1>3. OutsideTypes' /\ RegistryTypes' /\ ParamInv'
  BY <1>1, <1>2 DEF OutsideTypes, RegistryTypes, ParamInv, outside
<1>4. /\ frame[ch] \in FrameUpTo(Len(store'), Len(objects)) /\ Len(store) <= Len(store')
      /\ frame[ch].agent.chan = ch /\ frame[ch].agent # NULL /\ frame[ch].rq.op = "connect"
      /\ frame[ch].agent.cid \in ClientIds
      /\ Len(store) \in Nat /\ Len(objects) \in Nat /\ Len(store') = Len(store)
  BY <1>1, HandlerFacts DEF Serves, Has, Connecting
<1>5. frame[ch].pc \notin Holding
  BY <1>1 DEF Holding
<1>6. CASE ~c.clean /\ s # NULL
  <2>1. s \in 1..Len(store)
    BY <1>2, <1>4, <1>6 DEF RegistryTypes
  <2>2. a \in ClientUpTo(Len(store)) /\ a.chan = ch
    BY <1>4, <2>1, AgentWithSession
  <2>3. a \in AgentUpTo(Len(store)) /\ a # NULL /\ a.sess # NULL
    BY <1>4, <2>2, KnownFields
  <2>4. fr = h
    OBVIOUS
  <2>5. Goto(ch, fr, "reg_client")
    BY <1>1, <1>6, <2>4
  <2>6. [op |-> "resume"] \in Requests
    BY DEF Requests
  <2> HIDE DEF a, h
  <2>7. fr \in FrameUpTo(Len(store'), Len(objects)) /\ fr.agent = a /\ fr.rq.op = "resume"
    BY <1>4, <2>3, <2>6 DEF FrameUpTo
  <2> HIDE DEF fr
  <2>8. \A g : g.pc = "reg_client" /\ g.rq = fr.rq /\ g.agent = fr.agent => Serves(g) /\ Has(g)
    BY <2>3, <2>7 DEF Serves, Has, Connecting, Passing, Publishing, Leaving, AtObject
  <2>9. "reg_client" \notin Holding \cup {"retained_wild"} /\ "reg_client" \in Places
    BY DEF Holding, Places
  <2> QED
    BY <1>1, <1>3, <1>4, <1>5, <2>2, <2>5, <2>7, <2>8, <2>9, FreeGoto
<1>7. CASE ~(~c.clean /\ s # NULL)
  <2>1. Goto(ch, frame[ch], "new_session")
    BY <1>1, <1>7
  <2>2. \A g : g.pc = "new_session" /\ g.rq = frame[ch].rq /\ g.agent = frame[ch].agent
               => Serves(g) /\ Has(g)
    BY <1>4 DEF Serves, Has, Connecting, Passing, Publishing, Leaving, AtObject
  <2>3. "new_session" \notin Holding \cup {"retained_wild"} /\ "new_session" \in Places
    BY DEF Holding, Places
  <2> QED
    BY <1>1, <1>3, <1>4, <1>5, <2>1, <2>2, <2>3, FreeGoto
<1> QED
  BY <1>6, <1>7

LEMMA NewSessionCore ==
  ASSUME Core, NEW ch \in Channels, new_session(ch)
  PROVE  Core'
<1> DEFINE s == Len(store) + 1
           c == frame[ch].agent
           new == [subs |-> {}, open |-> 0]
           a == [c EXCEPT !.sess = s]
           fr == [frame[ch] EXCEPT !.agent = a]
           h == [frame[ch] EXCEPT !.agent.sess = s]
<1>1. /\ frame[ch].pc = "new_session"
      /\ store' = Append(store, new)
      /\ sessions' = [sessions EXCEPT ![c.cid] = IF @ = NULL THEN s ELSE @]
      /\ Goto(ch, h, "reg_client")
      /\ UNCHANGED <<outside, param, clients, topics, topic_mutex>>
  BY DEF new_session, At
<1>2. OutsideTypes /\ RegistryTypes /\ ParamInv
  BY CoreParts DEF TypesInv
<1>3. /\ frame[ch] \in FrameUpTo(Len(store), Len(objects))
      /\ frame[ch].agent.chan = ch /\ frame[ch].agent # NULL /\ frame[ch].rq.op = "connect"
      /\ frame[ch].agent.cid \in ClientIds
      /\ Len(store) \in Nat /\ Len(objects) \in Nat
  BY <1>1, HandlerFacts DEF Serves, Has, Connecting
<1>4. new \in SessionObject
  BY BoundAssumption DEF SessionObject
<1>5. store' \in Seq(SessionObject) /\ Len(store') = s
  <2>1. store \in Seq(SessionObject)
    BY <1>2 DEF RegistryTypes
  <2> HIDE DEF new
  <2> QED
    BY <1>1, <1>4, <2>1
<1>6. s \in Nat /\ Len(store) <= s /\ s \in 1..s /\ 1..Len(store) \subseteq 1..s
  BY <1>3
<1>7. ClientUpTo(Len(store)) \subseteq ClientUpTo(s)
  BY ONLY <1>3, <1>6, Larger
<1>8. OutsideTypes' /\ RegistryTypes' /\ ParamInv'
  <2> HIDE DEF s
  <2> QED
    BY <1>1, <1>2, <1>5, <1>6, <1>7 DEF OutsideTypes, RegistryTypes, ParamInv, outside
<1>9. frame[ch] \in FrameUpTo(s, Len(objects))
  BY ONLY <1>3, <1>6, Larger
<1>10. a \in ClientUpTo(s) /\ a.chan = ch
  BY ONLY <1>3, <1>6, <1>9, AgentWithSession
<1>11. a \in AgentUpTo(s) /\ a # NULL /\ a.sess # NULL
  BY <1>6, <1>10, KnownFields
<1>12. fr = h
  OBVIOUS
<1> HIDE DEF s, a, h
<1>13. fr \in FrameUpTo(s, Len(objects)) /\ fr.agent = a /\ fr.rq = frame[ch].rq
  BY <1>9, <1>11 DEF FrameUpTo
<1> HIDE DEF fr
<1>14. \A g : g.pc = "reg_client" /\ g.rq = fr.rq /\ g.agent = fr.agent => Serves(g) /\ Has(g)
  BY <1>3, <1>11, <1>13 DEF Serves, Has, Connecting, Passing, Publishing, Leaving, AtObject
<1>15. /\ frame[ch].pc \notin Holding /\ "reg_client" \notin Holding \cup {"retained_wild"}
       /\ "reg_client" \in Places
  BY <1>1 DEF Holding, Places
<1>16. /\ Goto(ch, fr, "reg_client") /\ fr \in FrameUpTo(Len(store'), Len(objects))
       /\ Len(store) <= Len(store') /\ fr.agent.chan = ch /\ fr.rq.op # "publish"
  BY <1>1, <1>3, <1>5, <1>6, <1>10, <1>12, <1>13
<1> QED
  BY <1>1, <1>8, <1>14, <1>15, <1>16, FreeGoto

LEMMA RegClientCore ==
  ASSUME Core, NEW ch \in Channels, reg_client(ch)
  PROVE  Core'
<1>1. /\ frame[ch].pc = "reg_client" /\ Goto(ch, frame[ch], "set_param")
      /\ clients' = [clients EXCEPT ![frame[ch].agent.cid] =
                       IF @ = NULL THEN frame[ch].agent ELSE @]
      /\ UNCHANGED <<outside, param, sessions, store, topics, topic_mutex>>
  BY DEF reg_client, Step, At
<1>2. OutsideTypes /\ RegistryTypes /\ ParamInv
  BY CoreParts DEF TypesInv
<1>3. /\ frame[ch] \in FrameUpTo(Len(store'), Len(objects)) /\ Len(store) <= Len(store')
      /\ frame[ch].agent.chan = ch /\ frame[ch].agent # NULL
      /\ frame[ch].rq.op \in {"connect", "resume"} /\ frame[ch].agent.sess # NULL
      /\ frame[ch].agent \in ClientUpTo(Len(store))
  BY <1>1, HandlerFacts DEF Serves, Has, Connecting
<1>4. OutsideTypes' /\ RegistryTypes' /\ ParamInv'
  BY <1>1, <1>2, <1>3 DEF OutsideTypes, RegistryTypes, ParamInv, outside
<1>5. \A g : g.pc = "set_param" /\ g.rq = frame[ch].rq /\ g.agent = frame[ch].agent
             => Serves(g) /\ Has(g)
  BY <1>3 DEF Serves, Has, Connecting, Passing, Publishing, Leaving, AtObject
<1>6. /\ frame[ch].pc \notin Holding /\ "set_param" \notin Holding \cup {"retained_wild"}
      /\ "set_param" \in Places
  BY <1>1 DEF Holding, Places
<1> QED
  BY <1>1, <1>3, <1>4, <1>5, <1>6, FreeGoto

LEMMA SetParamCore ==
  ASSUME Core, NEW ch \in Channels, set_param(ch)
  PROVE  Core'
<1>1. /\ frame[ch].pc = "set_param"
      /\ param' = [param EXCEPT ![ch] = frame[ch].agent]
      /\ IF frame[ch].rq.op = "resume" THEN Goto(ch, frame[ch], "restore") ELSE Return(ch)
      /\ UNCHANGED <<outside, clients, sessions, store, topics, topic_mutex>>
  BY DEF set_param, At
<1>2. OutsideTypes /\ RegistryTypes /\ ParamInv
  BY CoreParts DEF TypesInv
<1>3. /\ frame[ch] \in FrameUpTo(Len(store'), Len(objects)) /\ Len(store) = Len(store')
      /\ Len(store) <= Len(store')
      /\ frame[ch].agent.chan = ch /\ frame[ch].agent # NULL
      /\ frame[ch].agent.sess # NULL /\ frame[ch].agent \in ClientUpTo(Len(store))
  BY <1>1, HandlerFacts DEF Has, Connecting
<1>4. OutsideTypes' /\ RegistryTypes' /\ ParamInv'
  BY <1>1, <1>2, <1>3 DEF OutsideTypes, RegistryTypes, ParamInv, outside
<1>5. /\ frame[ch].pc \notin Holding /\ "restore" \notin Holding \cup {"retained_wild"}
      /\ "restore" \in Places
  BY <1>1 DEF Holding, Places
<1>6. CASE frame[ch].rq.op = "resume"
  <2>1. \A g : g.pc = "restore" /\ g.rq = frame[ch].rq /\ g.agent = frame[ch].agent
               => Serves(g) /\ Has(g)
    BY <1>3, <1>6 DEF Serves, Has, Connecting, Passing, Publishing, Leaving, AtObject
  <2> QED
    BY <1>1, <1>3, <1>4, <1>5, <1>6, <2>1, FreeGoto
<1>7. CASE frame[ch].rq.op # "resume"
  BY <1>1, <1>3, <1>4, <1>5, <1>7, ReturnStep
<1> QED
  BY <1>6, <1>7

\* Where the loop over the filters to subscribe to goes on.
LEMMA NextPlace ==
  ASSUME NEW fr
  PROVE  /\ fr.rq.op = "resume" => NextToSubscribe(fr) \in {"to_subscribe", "resend"}
         /\ fr.rq.op = "subscribe" => NextToSubscribe(fr) \in {"to_subscribe", "retained"}
BY DEF NextToSubscribe

\* A session object of the store, and one that replaces it.
LEMMA StoreFields ==
  ASSUME Core, NEW s \in 1..Len(store)
  PROVE  /\ store \in Seq(SessionObject) /\ store[s] \in SessionObject
         /\ store[s].subs \in SUBSET Filters /\ store[s].open \in Nat /\ store[s].open \in 0..PacketIds
<1>1. store \in Seq(SessionObject)
  BY DEF Core, TypesInv, RegistryTypes
<1>2. store[s] \in SessionObject
  BY <1>1
<1> QED
  BY <1>1, <1>2, BoundAssumption DEF SessionObject

LEMMA StoreStep ==
  ASSUME Core, NEW s \in 1..Len(store), NEW new \in SessionObject, store' = [store EXCEPT ![s] = new],
         UNCHANGED registries
  PROVE  RegistryTypes' /\ ParamInv' /\ Len(store') = Len(store)
<1>1. store \in Seq(SessionObject) /\ RegistryTypes /\ ParamInv
  BY CoreParts DEF TypesInv, RegistryTypes
<1>2. store' \in Seq(SessionObject) /\ Len(store') = Len(store)
  BY <1>1
<1> QED
  BY <1>1, <1>2 DEF RegistryTypes, ParamInv, registries

LEMMA RestoreCore ==
  ASSUME Core, NEW ch \in Channels, restore(ch)
  PROVE  Core'
<1> DEFINE s == frame[ch].agent.sess
           fr == [frame[ch] EXCEPT !.todo = store[s].subs]
<1>1. /\ frame[ch].pc = "restore" /\ Goto(ch, fr, NextToSubscribe(fr))
      /\ UNCHANGED <<outside, registries, store, topics, topic_mutex>>
  BY DEF restore, At
<1>2. /\ OutsideTypes' /\ RegistryTypes' /\ ParamInv'
      /\ Len(store') = Len(store) /\ Len(store) <= Len(store')
  BY <1>1, KeptTypes
<1>3. /\ frame[ch] \in FrameUpTo(Len(store'), Len(objects)) /\ frame[ch].agent.chan = ch
      /\ frame[ch].agent # NULL /\ frame[ch].agent.sess # NULL /\ frame[ch].rq.op = "resume"
      /\ frame[ch].agent \in ClientUpTo(Len(store)) /\ Len(store) \in Nat
  BY <1>1, <1>2, HandlerFacts DEF Serves, Has, Connecting
<1>4. s \in 1..Len(store)
  BY <1>3, KnownFields
<1>5. store[s].subs \in SUBSET Filters
  BY <1>4, StoreFields
<1> HIDE DEF s
<1>6. fr \in FrameUpTo(Len(store'), Len(objects)) /\ fr.agent = frame[ch].agent /\ fr.rq = frame[ch].rq
  BY <1>3, <1>5 DEF FrameUpTo
<1> HIDE DEF fr
<1>7. NextToSubscribe(fr) \in {"to_subscribe", "resend"}
  BY <1>3, <1>6, NextPlace
<1>8. \A g : g.pc = NextToSubscribe(fr) /\ g.rq = fr.rq /\ g.agent = fr.agent => Serves(g) /\ Has(g)
  BY <1>3, <1>6, <1>7 DEF Serves, Has, Connecting, Passing, Publishing, Leaving, AtObject
<1>9. /\ frame[ch].pc \notin Holding /\ NextToSubscribe(fr) \notin Holding \cup {"retained_wild"}
      /\ NextToSubscribe(fr) \in Places /\ NextToSubscribe(fr) # "idle"
  BY <1>1, <1>7 DEF Holding, Places
<1> QED
  BY <1>1, <1>2, <1>3, <1>6, <1>8, <1>9, FreeGoto

LEMMA ResendCore ==
  ASSUME Core, NEW ch \in Channels, resend(ch)
  PROVE  Core'
<1> DEFINE s == frame[ch].agent.sess
<1>1. /\ frame[ch].pc = "resend" /\ Goto(ch, frame[ch], "retained")
      /\ unread' = [unread EXCEPT ![ch] = IF chan[ch] = "open" THEN @ + store[s].open ELSE @]
      /\ UNCHANGED <<script, chan, crashed, registries, store, topics, topic_mutex>>
  BY DEF resend, Step, At
<1>2. OutsideTypes /\ RegistryTypes /\ ParamInv
  BY CoreParts DEF TypesInv
<1>3. /\ frame[ch] \in FrameUpTo(Len(store'), Len(objects)) /\ frame[ch].agent.chan = ch
      /\ frame[ch].agent # NULL /\ frame[ch].agent.sess # NULL /\ frame[ch].rq.op = "resume"
      /\ frame[ch].agent \in ClientUpTo(Len(store)) /\ Len(store) \in Nat
      /\ Len(store) <= Len(store')
  BY <1>1, HandlerFacts DEF Serves, Has, Connecting
<1>4. s \in 1..Len(store)
  BY <1>3, KnownFields
<1>5. store[s].open \in Nat
  BY <1>4, StoreFields
<1> HIDE DEF s
<1>6. OutsideTypes' /\ RegistryTypes' /\ ParamInv'
  BY <1>1, <1>2, <1>5 DEF OutsideTypes, RegistryTypes, ParamInv, registries
<1>7. \A g : g.pc = "retained" /\ g.rq = frame[ch].rq /\ g.agent = frame[ch].agent
             => Serves(g) /\ Has(g)
  BY <1>3 DEF Serves, Has, Connecting, Passing, Publishing, Leaving, AtObject
<1>8. /\ frame[ch].pc \notin Holding /\ "retained" \notin Holding \cup {"retained_wild"}
      /\ "retained" \in Places
  BY <1>1 DEF Holding, Places
<1> QED
  BY <1>1, <1>3, <1>6, <1>7, <1>8, FreeGoto

LEMMA AddSubscriptionCore ==
  ASSUME Core, NEW ch \in Channels, add_subscription(ch)
  PROVE  Core'
<1> DEFINE s == frame[ch].agent.sess
           f == objects[frame[ch].obj].filter
           new == [store[s] EXCEPT !.subs = @ \cup {f}]
           pc == NextToSubscribe(frame[ch])
<1>1. /\ frame[ch].pc = "add_subscription" /\ Goto(ch, frame[ch], pc)
      /\ store' = [store EXCEPT ![s] = new]
      /\ UNCHANGED <<outside, registries, topics, topic_mutex>>
  BY DEF add_subscription, Step, At
<1>2. OutsideTypes
  BY CoreParts DEF TypesInv
<1>3. /\ frame[ch] \in FrameUpTo(Len(store), Len(objects)) /\ frame[ch].agent.chan = ch
      /\ frame[ch].agent # NULL /\ frame[ch].agent.sess # NULL /\ frame[ch].rq.op = "subscribe"
      /\ frame[ch].agent \in ClientUpTo(Len(store)) /\ Len(store) \in Nat /\ Len(objects) \in Nat
      /\ frame[ch].obj \in 1..Len(objects)
  BY <1>1, HandlerFacts DEF Serves, Has, Connecting, AtObject
<1>4. s \in 1..Len(store)
  BY <1>3, KnownFields
<1>5. f \in Filters
  <2>1. objects[frame[ch].obj] \in ObjectUpTo(Len(store))
    BY <1>3, FrameRefers, CoreParts
  <2> QED
    BY <1>3, <2>1, ObjectFields
<1>6. store[s] \in SessionObject
  BY <1>4, StoreFields
<1> HIDE DEF f
<1>7. new \in SessionObject
  BY <1>5, <1>6 DEF SessionObject
<1> HIDE DEF s, new
<1>8. RegistryTypes' /\ ParamInv' /\ Len(store') = Len(store)
  BY <1>1, <1>4, <1>7, StoreStep
<1>9. OutsideTypes'
  BY <1>1, <1>2 DEF OutsideTypes, outside
<1>10. pc \in {"to_subscribe", "retained"}
  BY <1>3, NextPlace
<1> HIDE DEF pc
<1>11. \A g : g.pc = pc /\ g.rq = frame[ch].rq /\ g.agent = frame[ch].agent => Serves(g) /\ Has(g)
  BY <1>3, <1>10 DEF Serves, Has, Connecting, Passing, Publishing, Leaving, AtObject
<1>12. /\ frame[ch].pc \notin Holding /\ pc \notin Holding \cup {"retained_wild"}
       /\ pc \in Places /\ pc # "idle"
  BY <1>1, <1>10 DEF Holding, Places
<1>13. frame[ch] \in FrameUpTo(Len(store'), Len(objects)) /\ Len(store) <= Len(store')
  BY <1>3, <1>8
<1> QED
  BY <1>1, <1>3, <1>8, <1>9, <1>11, <1>12, <1>13, FreeGoto

LEMMA PubackCore ==
  ASSUME Core, NEW ch \in Channels, puback(ch)
  PROVE  Core'
<1> DEFINE s == frame[ch].agent.sess
           new == [store[s] EXCEPT !.open = IF @ > 0 THEN @ - 1 ELSE @]
<1>1. /\ frame[ch].pc = "puback" /\ Return(ch)
      /\ store' = [store EXCEPT ![s] = new]
      /\ UNCHANGED <<outside, registries, topics, topic_mutex>>
  BY DEF puback, At
<1>2. OutsideTypes
  BY CoreParts DEF TypesInv
<1>3. frame[ch].agent \in ClientUpTo(Len(store)) /\ Len(store) \in Nat /\ frame[ch].pc \notin Holding
  BY <1>1, HandlerFacts DEF Connecting, Holding
<1>4. s \in 1..Len(store)
  BY <1>3, KnownFields
<1>5. store[s] \in SessionObject /\ PacketIds \in Nat
  BY <1>4, StoreFields, BoundAssumption
<1>6. new \in SessionObject
  BY <1>5 DEF SessionObject
<1> HIDE DEF s, new
<1>7. RegistryTypes' /\ ParamInv' /\ Len(store') = Len(store)
  BY <1>1, <1>4, <1>6, StoreStep
<1>8. OutsideTypes'
  BY <1>1, <1>2 DEF OutsideTypes, outside
<1> QED
  BY <1>1, <1>3, <1>7, <1>8, ReturnStep

LEMMA WillCore ==
  ASSUME Core, NEW ch \in Channels, will(ch)
  PROVE  Core'
<1> DEFINE o == map[frame[ch].rq.topic]
           fr == [frame[ch] EXCEPT !.obj = o]
           pc == IF o = NULL THEN "unsubscribe_all" ELSE "will_id"
<1>1. /\ frame[ch].pc = "will" /\ Goto(ch, fr, pc)
      /\ UNCHANGED <<outside, registries, store, topics, topic_mutex>>
  BY DEF will, At
<1>2. /\ OutsideTypes' /\ RegistryTypes' /\ ParamInv'
      /\ Len(store') = Len(store) /\ Len(store) <= Len(store')
  BY <1>1, KeptTypes
<1>3. /\ frame[ch] \in FrameUpTo(Len(store'), Len(objects)) /\ frame[ch].agent.chan = ch
      /\ frame[ch].agent # NULL /\ frame[ch].agent.sess # NULL /\ frame[ch].rq.op = "disconnected"
      /\ frame[ch].rq.topic \in Plain
  BY <1>1, <1>2, HandlerFacts DEF Serves, Has, Connecting
<1>4. o \in 1..Len(objects) \cup {NULL}
  BY <1>3, CoreParts DEF TypesInv, TopicTypes, Filters
<1> HIDE DEF o
<1>5. fr \in FrameUpTo(Len(store'), Len(objects)) /\ fr.agent = frame[ch].agent
      /\ fr.rq = frame[ch].rq /\ fr.obj = o
  BY <1>3, <1>4 DEF FrameUpTo
<1> HIDE DEF fr
<1>6. \A g : g.pc = pc /\ g.rq = fr.rq /\ g.agent = fr.agent /\ g.obj = fr.obj
             => Serves(g) /\ Has(g)
  BY <1>3, <1>5 DEF Serves, Has, Connecting, Passing, Publishing, Leaving, AtObject
<1>7. /\ frame[ch].pc \notin Holding /\ pc \notin Holding \cup {"retained_wild"}
      /\ pc \in Places /\ pc # "idle"
  BY <1>1 DEF Holding, Places
<1> HIDE DEF pc
<1> QED
  BY <1>1, <1>2, <1>3, <1>5, <1>6, <1>7, FreeGoto

\* What follows after a filter of unsubscribe_all and of an UNSUBSCRIBE.
LEMMA NextUnsubscribed ==
  ASSUME NEW ch \in Channels, NEW fr, NextToUnsubscribe(ch, fr),
         fr.rq.op \in Leaving \cup {"unsubscribe"}
  PROVE  \/ Goto(ch, fr, "lookup")
         \/ fr.rq.op = "unsubscribe" /\ Return(ch)
         \/ fr.rq.op \in Leaving /\ Goto(ch, fr, "delete_session")
         \/ fr.rq.op \in Leaving /\ Goto(ch, fr, "deregister")
BY DEF NextToUnsubscribe, Leaving

LEMMA UnsubscribeAllCore ==
  ASSUME Core, NEW ch \in Channels, unsubscribe_all(ch)
  PROVE  Core'
<1> DEFINE s == frame[ch].agent.sess
           fr == [frame[ch] EXCEPT !.todo = store[s].subs]
<1>1. /\ frame[ch].pc = "unsubscribe_all" /\ NextToUnsubscribe(ch, fr)
      /\ UNCHANGED <<outside, registries, store, topics, topic_mutex>>
  BY DEF unsubscribe_all, At
<1>2. /\ OutsideTypes' /\ RegistryTypes' /\ ParamInv'
      /\ Len(store') = Len(store) /\ Len(store) <= Len(store')
  BY <1>1, KeptTypes
<1>3. /\ frame[ch] \in FrameUpTo(Len(store'), Len(objects)) /\ frame[ch].agent.chan = ch
      /\ frame[ch].agent # NULL /\ frame[ch].agent.sess # NULL /\ frame[ch].rq.op \in Leaving
      /\ frame[ch].agent \in ClientUpTo(Len(store)) /\ Len(store) \in Nat
  BY <1>1, <1>2, HandlerFacts DEF Serves, Has, Connecting
<1>4. s \in 1..Len(store)
  BY <1>3, KnownFields
<1>5. store[s].subs \in SUBSET Filters
  BY <1>4, StoreFields
<1> HIDE DEF s
<1>6. fr \in FrameUpTo(Len(store'), Len(objects)) /\ fr.agent = frame[ch].agent /\ fr.rq = frame[ch].rq
  BY <1>3, <1>5 DEF FrameUpTo
<1> HIDE DEF fr
<1>7. fr.rq.op \in Leaving /\ fr.rq.op \notin {"unsubscribe", "publish"}
  BY <1>3, <1>6 DEF Leaving
<1>8. PICK pc \in {"lookup", "delete_session", "deregister"} : Goto(ch, fr, pc)
  BY <1>1, <1>7, NextUnsubscribed
<1>9. \A g : g.pc = pc /\ g.rq = fr.rq /\ g.agent = fr.agent => Serves(g) /\ Has(g)
  BY <1>3, <1>6 DEF Serves, Has, Connecting, Passing, Publishing, Leaving, AtObject
<1>10. /\ frame[ch].pc \notin Holding /\ pc \notin Holding \cup {"retained_wild"}
       /\ pc \in Places /\ pc # "idle"
  BY <1>1 DEF Holding, Places
<1> QED
  BY <1>1, <1>2, <1>3, <1>6, <1>7, <1>8, <1>9, <1>10, FreeGoto

LEMMA DeleteSessionCore ==
  ASSUME Core, NEW ch \in Channels, delete_session(ch)
  PROVE  Core'
<1>1. /\ frame[ch].pc = "delete_session" /\ Goto(ch, frame[ch], "deregister")
      /\ sessions' = [sessions EXCEPT ![frame[ch].agent.cid] = NULL]
      /\ UNCHANGED <<outside, param, clients, store, topics, topic_mutex>>
  BY DEF delete_session, Step, At
<1>2. OutsideTypes /\ RegistryTypes /\ ParamInv
  BY CoreParts DEF TypesInv
<1>3. OutsideTypes' /\ RegistryTypes' /\ ParamInv'
  BY <1>1, <1>2 DEF OutsideTypes, RegistryTypes, ParamInv, outside
<1>4. /\ frame[ch] \in FrameUpTo(Len(store'), Len(objects)) /\ Len(store) <= Len(store')
      /\ frame[ch].agent.chan = ch /\ frame[ch].agent # NULL /\ frame[ch].agent.sess # NULL
      /\ frame[ch].rq.op \in Leaving /\ frame[ch].rq.op # "publish"
  BY <1>1, HandlerFacts DEF Serves, Has, Connecting, Leaving
<1>5. \A g : g.pc = "deregister" /\ g.rq = frame[ch].rq /\ g.agent = frame[ch].agent
             => Serves(g) /\ Has(g)
  BY <1>4 DEF Serves, Has, Connecting, Passing, Publishing, Leaving, AtObject
<1>6. /\ frame[ch].pc \notin Holding /\ "deregister" \notin Holding \cup {"retained_wild"}
      /\ "deregister" \in Places
  BY <1>1 DEF Holding, Places
<1> QED
  BY <1>1, <1>3, <1>4, <1>5, <1>6, FreeGoto

LEMMA DeregisterCore ==
  ASSUME Core, NEW ch \in Channels, deregister(ch)
  PROVE  Core'
<1>1. /\ frame[ch].pc = "deregister" /\ Return(ch)
      /\ clients' = [clients EXCEPT ![frame[ch].agent.cid] = NULL]
      /\ UNCHANGED <<outside, param, sessions, store, topics, topic_mutex>>
  BY DEF deregister, At, Without
<1>2. OutsideTypes /\ RegistryTypes /\ ParamInv
  BY CoreParts DEF TypesInv
<1>3. OutsideTypes' /\ RegistryTypes' /\ ParamInv' /\ Len(store) = Len(store')
  BY <1>1, <1>2 DEF OutsideTypes, RegistryTypes, ParamInv, outside
<1>4. frame[ch].pc \notin Holding
  BY <1>1 DEF Holding
<1> QED
  BY <1>1, <1>3, <1>4, ReturnStep

-----------------------------------------------------------------------------
(* Steps that enter or leave places at which a mutex may be held, but take and *)
(* release none.                                                               *)

\* The call of publish on topic object o.
LEMMA PublishStep ==
  ASSUME Core, NEW ch \in Channels, UNCHANGED <<outside, registries, store, topics, topic_mutex>>,
         NEW fr \in FrameUpTo(Len(store), Len(objects)), NEW o \in 1..Len(objects),
         PublishOn(ch, fr, o), fr.rq = frame[ch].rq, fr.agent = frame[ch].agent,
         frame[ch].pc \in {"publish", "wild_next", "will_id"},
         fr.rq.op = "publish" => \A p \in fr.objs : objects[p].filter \in Wild,
         HoldsTopics(ch) <=> fr.rq.op # "disconnected" /\ objects[o].filter \in Wild
  PROVE  Core'
<1> DEFINE h == [fr EXCEPT !.obj = o]
           pc == IF h.rq.retain = "no" THEN "lock" ELSE "store"
<1>1. /\ OutsideTypes' /\ RegistryTypes' /\ ParamInv'
      /\ Len(store') = Len(store) /\ Len(store) <= Len(store')
  BY KeptTypes
<1>2. /\ Len(store) \in Nat /\ Len(objects) \in Nat
      /\ frame[ch].agent.chan = ch /\ frame[ch].agent # NULL /\ frame[ch].agent.sess # NULL
      /\ frame[ch].rq.op \in {"publish", "disconnected"}
      /\ frame[ch].rq.op = "publish" => frame[ch].rq.topic \in Plain
  BY HandlerFacts DEF Serves, Has, Connecting, Publishing
<1>3. h \in FrameUpTo(Len(store), Len(objects)) /\ h.rq = fr.rq /\ h.agent = fr.agent /\ h.obj = o
      /\ h.objs = fr.objs
  BY DEF FrameUpTo
<1>4. Goto(ch, h, pc)
  BY <1>3 DEF PublishOn
<1>5. pc \in {"lock", "store"} /\ pc \in Places
  BY DEF Places
<1> HIDE DEF h, pc
<1>6. PICK g \in FrameUpTo(Len(store), Len(objects)) :
           /\ frame' = [frame EXCEPT ![ch] = g]
           /\ g.pc = pc /\ g.rq = h.rq /\ g.agent = h.agent /\ g.obj = h.obj /\ g.objs = h.objs
  BY <1>2, <1>3, <1>4, <1>5, GotoFrame
<1>7. o # NULL
  BY <1>2, NullAssumption
<1>8. Serves(g) /\ Has(g)
  BY <1>2, <1>3, <1>5, <1>6, <1>7
     DEF Serves, Has, Connecting, Passing, Publishing, Leaving, AtObject
<1>9. frame'[ch] = g /\ objects' = objects
  BY <1>6 DEF topics, Core, TypesInv, FrameTypes
<1>10. HoldsTopics(ch)' <=> HoldsTopics(ch)
  BY <1>3, <1>5, <1>6, <1>9 DEF HoldsTopics, AtWild
<1>11. ListedOf(ch)'
  BY <1>2, <1>3, <1>5, <1>6, <1>9 DEF ListedOf
<1>12. frame[ch].pc # "deliver" /\ g.pc # "deliver" /\ (g.pc # "idle" => g.agent.chan = ch)
       /\ g \in FrameUpTo(Len(store'), Len(objects))
  BY <1>1, <1>2, <1>3, <1>5, <1>6
<1> QED
  BY <1>1, <1>6, <1>8, <1>10, <1>11, <1>12, QuietStep

LEMMA PublishCore ==
  ASSUME Core, NEW ch \in Channels, publish(ch)
  PROVE  Core'
<1> DEFINE o == map[frame[ch].rq.topic]
<1>1. /\ frame[ch].pc = "publish" /\ UNCHANGED <<outside, registries, store, topics, topic_mutex>>
      /\ IF o = NULL THEN Goto(ch, frame[ch], "wild") ELSE PublishOn(ch, frame[ch], o)
  BY DEF publish, At
<1>2. /\ OutsideTypes' /\ RegistryTypes' /\ ParamInv'
      /\ Len(store') = Len(store) /\ Len(store) <= Len(store')
  BY <1>1, KeptTypes
<1>3. /\ frame[ch] \in FrameUpTo(Len(store), Len(objects)) /\ frame[ch].agent.chan = ch
      /\ frame[ch].agent # NULL /\ frame[ch].agent.sess # NULL /\ frame[ch].rq.op = "publish"
      /\ frame[ch].rq.topic \in Plain
  BY <1>1, HandlerFacts DEF Serves, Has, Connecting, Publishing
<1>4. \A p \in frame[ch].objs : objects[p].filter \in Wild
  BY <1>3 DEF Core, ListedInv
<1>5. CASE o = NULL
  <2>1. Goto(ch, frame[ch], "wild")
    BY <1>1, <1>5
  <2>2. \A g : g.pc = "wild" /\ g.rq = frame[ch].rq /\ g.agent = frame[ch].agent
               => Serves(g) /\ Has(g)
    BY <1>3 DEF Serves, Has, Connecting, Passing, Publishing, Leaving, AtObject
  <2>3. /\ frame[ch].pc \notin Holding /\ "wild" \notin Holding \cup {"retained_wild"}
        /\ "wild" \in Places /\ frame[ch] \in FrameUpTo(Len(store'), Len(objects))
    BY <1>1, <1>2, <1>3 DEF Holding, Places
  <2> QED
    BY <1>1, <1>2, <1>3, <1>4, <2>1, <2>2, <2>3, FreeGoto
<1>6. CASE o # NULL
  <2>1. o \in 1..Len(objects) /\ objects[o].filter = frame[ch].rq.topic
    BY <1>3, <1>6, CoreParts DEF TypesInv, TopicTypes, Filters, ObjectsInv
  <2>2. objects[o].filter \notin Wild
    BY <1>3, <2>1, FilterAssumption
  <2>3. ~HoldsTopics(ch)
    BY <1>1 DEF HoldsTopics
  <2>4. PublishOn(ch, frame[ch], o)
    BY <1>1, <1>6
  <2> HIDE DEF o
  <2> QED
    BY <1>1, <1>3, <1>4, <2>1, <2>2, <2>3, <2>4, PublishStep
<1> QED
  BY <1>5, <1>6

LEMMA WillIdCore ==
  ASSUME Core, NEW ch \in Channels, will_id(ch)
  PROVE  Core'
<1>1. /\ frame[ch].pc = "will_id" /\ UNCHANGED <<outside, registries, store, topics, topic_mutex>>
      /\ PublishOn(ch, frame[ch], frame[ch].obj)
  BY DEF will_id, At
<1>2. /\ frame[ch] \in FrameUpTo(Len(store), Len(objects)) /\ frame[ch].rq.op = "disconnected"
      /\ frame[ch].obj \in 1..Len(objects)
  BY <1>1, HandlerFacts DEF Serves, Has, AtObject
<1>3. ~HoldsTopics(ch)
  BY <1>1 DEF HoldsTopics
<1> QED
  BY <1>1, <1>2, <1>3, PublishStep

LEMMA RetainedCore ==
  ASSUME Core, NEW ch \in Channels, retained(ch)
  PROVE  Core'
<1>1. frame[ch].pc = "retained" /\ UNCHANGED <<outside, registries, store, topics, topic_mutex>>
  BY DEF retained, At
<1>2. /\ OutsideTypes' /\ RegistryTypes' /\ ParamInv'
      /\ Len(store') = Len(store) /\ Len(store) <= Len(store')
  BY <1>1, KeptTypes
<1>3. /\ frame[ch] \in FrameUpTo(Len(store), Len(objects)) /\ frame[ch].agent.chan = ch
      /\ frame[ch].agent # NULL /\ frame[ch].agent.sess # NULL
      /\ frame[ch].rq.op \in {"subscribe", "resume"} /\ Len(store) \in Nat /\ Len(objects) \in Nat
      /\ frame[ch].objs \in SUBSET (1..Len(objects))
  BY <1>1, HandlerFacts DEF Serves, Has, Connecting, Passing
<1>4. CASE Return(ch)
  <2>1. frame[ch].pc \notin Holding
    BY <1>1 DEF Holding
  <2> QED
    BY <1>1, <1>2, <1>4, <2>1, ReturnStep
<1>5. ASSUME ~Return(ch)
      PROVE  Core'
  <2>1. PICK o \in frame[ch].objs :
          Goto(ch, [frame[ch] EXCEPT !.obj = o, !.source = o, !.objs = @ \ {o}],
               CASE objects[o].filter \in Wild -> "retained_wild"
                 [] objects[o].filter \in Plain /\ objects[o].retained -> "read_retained"
                 [] OTHER -> "retained")
    BY <1>5 DEF retained
  <2> DEFINE h == [frame[ch] EXCEPT !.obj = o, !.source = o, !.objs = @ \ {o}]
             pc == CASE objects[o].filter \in Wild -> "retained_wild"
                     [] objects[o].filter \in Plain /\ objects[o].retained -> "read_retained"
                     [] OTHER -> "retained"
  <2>2. o \in 1..Len(objects) /\ o # NULL
    BY <1>3, NullAssumption
  <2>3. h \in FrameUpTo(Len(store), Len(objects)) /\ h.rq = frame[ch].rq
        /\ h.agent = frame[ch].agent /\ h.obj = o /\ h.source = o
    BY <1>3, <2>2 DEF FrameUpTo
  <2>4. /\ pc \in {"retained_wild", "read_retained", "retained"} /\ pc \in Places
        /\ pc = "retained_wild" => objects[o].filter \in Wild
        /\ pc = "read_retained" => objects[o].filter \notin Wild
    <3>1. CASE objects[o].filter \in Wild
      <4>1. objects[o].filter \notin Plain
        BY <3>1, FilterAssumption
      <4>2. pc = "retained_wild"
        BY <3>1, <4>1
      <4> QED
        BY <3>1, <4>2 DEF Places
    <3>2. CASE objects[o].filter \notin Wild
      <4>1. pc = "read_retained" \/ pc = "retained"
        BY <3>2
      <4> QED
        BY <3>2, <4>1 DEF Places
    <3> QED
      BY <3>1, <3>2
  <2>5. Goto(ch, h, pc)
    BY <2>1
  <2> HIDE DEF h, pc
  <2>6. PICK g \in FrameUpTo(Len(store), Len(objects)) :
             /\ frame' = [frame EXCEPT ![ch] = g]
             /\ g.pc = pc /\ g.rq = h.rq /\ g.agent = h.agent /\ g.obj = h.obj
             /\ g.source = h.source
    BY <1>3, <2>3, <2>4, <2>5, GotoFrame
  <2>7. Serves(g) /\ Has(g)
    BY <1>3, <2>2, <2>3, <2>4, <2>6
       DEF Serves, Has, Connecting, Passing, Publishing, Leaving, AtObject
  <2>8. frame'[ch] = g /\ objects' = objects
    BY <1>1, <2>6 DEF topics, Core, TypesInv, FrameTypes
  <2>9. ~HoldsTopics(ch)
    BY <1>1 DEF HoldsTopics
  <2>10. ~HoldsTopics(ch)'
    BY <2>3, <2>4, <2>6, <2>8 DEF HoldsTopics, AtWild
  <2>11. ListedOf(ch)'
    BY <1>3, <2>3, <2>4, <2>6, <2>8, <2>10 DEF ListedOf, AtWild
  <2>12. frame[ch].pc # "deliver" /\ g.pc # "deliver" /\ (g.pc # "idle" => g.agent.chan = ch)
         /\ g \in FrameUpTo(Len(store'), Len(objects))
    BY <1>1, <1>2, <1>3, <2>3, <2>4, <2>6
  <2> QED
    BY <1>1, <1>2, <2>6, <2>7, <2>9, <2>10, <2>11, <2>12, QuietStep
<1> QED
  BY <1>4, <1>5

LEMMA ReadRetainedCore ==
  ASSUME Core, NEW ch \in Channels, read_retained(ch)
  PROVE  Core'
<1> DEFINE h == [frame[ch] EXCEPT !.to = {param[ch]}]
           pc == IF objects[frame[ch].source].retained THEN "send_retained" ELSE "send_null"
<1>1. /\ frame[ch].pc = "read_retained" /\ Goto(ch, h, pc)
      /\ UNCHANGED <<outside, registries, store, topics, topic_mutex>>
  BY DEF read_retained, At
<1>2. /\ OutsideTypes' /\ RegistryTypes' /\ ParamInv'
      /\ Len(store') = Len(store) /\ Len(store) <= Len(store')
  BY <1>1, KeptTypes
<1>3. /\ frame[ch] \in FrameUpTo(Len(store), Len(objects)) /\ frame[ch].agent.chan = ch
      /\ frame[ch].agent # NULL /\ frame[ch].agent.sess # NULL
      /\ frame[ch].rq.op \in {"subscribe", "resume"} /\ Len(store) \in Nat /\ Len(objects) \in Nat
      /\ frame[ch].obj # NULL /\ frame[ch].source # NULL
  BY <1>1, HandlerFacts DEF Serves, Has, Connecting, Passing, AtObject
<1>4. param[ch] \in ClientUpTo(Len(store)) \cup {NULL}
  BY CoreParts DEF TypesInv, RegistryTypes
<1>5. h \in FrameUpTo(Len(store), Len(objects)) /\ h.rq = frame[ch].rq /\ h.agent = frame[ch].agent
      /\ h.obj = frame[ch].obj /\ h.source = frame[ch].source /\ h.todo = frame[ch].todo
      /\ h.to = {param[ch]}
  BY <1>3, <1>4 DEF FrameUpTo
<1>6. pc \in {"send_retained", "send_null"} /\ pc \in Places
  BY DEF Places
<1> HIDE DEF h, pc
<1>7. PICK g \in FrameUpTo(Len(store), Len(objects)) :
           /\ frame' = [frame EXCEPT ![ch] = g]
           /\ g.pc = pc /\ g.rq = h.rq /\ g.agent = h.agent /\ g.to = h.to /\ g.todo = h.todo
           /\ g.obj = h.obj /\ g.source = h.source
  BY <1>1, <1>3, <1>5, <1>6, GotoFrame
<1>8. Serves(g) /\ Has(g)
  BY <1>3, <1>5, <1>6, <1>7 DEF Serves, Has, Connecting, Passing, Publishing, Leaving, AtObject
<1>9. frame'[ch] = g /\ objects' = objects /\ map' = map
  BY <1>1, <1>7 DEF topics, Core, TypesInv, FrameTypes
<1>10. HoldsTopics(ch)' <=> HoldsTopics(ch)
  BY <1>1, <1>3, <1>5, <1>6, <1>7, <1>9 DEF HoldsTopics, AtWild
<1>11. ListedOf(ch)'
  <2>1. ListedOf(ch)
    BY CoreParts DEF ChannelInv
  <2> QED
    BY <1>3, <1>5, <1>6, <1>7, <1>9, <1>10, <2>1 DEF ListedOf
<1>12. frame[ch].pc # "deliver" /\ g.pc # "deliver" /\ (g.pc # "idle" => g.agent.chan = ch)
       /\ g \in FrameUpTo(Len(store'), Len(objects))
  BY <1>1, <1>2, <1>3, <1>5, <1>6, <1>7
<1> QED
  BY <1>1, <1>2, <1>7, <1>8, <1>10, <1>11, <1>12, QuietStep

LEMMA DeleteSubscriptionCore ==
  ASSUME Core, NEW ch \in Channels, delete_subscription(ch)
  PROVE  Core'
<1> DEFINE s == frame[ch].agent.sess
           f == objects[frame[ch].obj].filter
           new == [store[s] EXCEPT !.subs = @ \ {f}]
<1>1. /\ frame[ch].pc = "delete_subscription" /\ Goto(ch, frame[ch], "empty")
      /\ store' = [store EXCEPT ![s] = new]
      /\ UNCHANGED <<outside, registries, topics, topic_mutex>>
  BY DEF delete_subscription, Step, At
<1>2. /\ frame[ch] \in FrameUpTo(Len(store), Len(objects)) /\ frame[ch].agent.chan = ch
      /\ frame[ch].agent # NULL /\ frame[ch].agent.sess # NULL /\ frame[ch].rq.op = "unsubscribe"
      /\ frame[ch].agent \in ClientUpTo(Len(store)) /\ Len(store) \in Nat /\ Len(objects) \in Nat
      /\ frame[ch].obj # NULL
  BY <1>1, HandlerFacts DEF Serves, Has, Connecting, AtObject
<1>3. s \in 1..Len(store)
  BY <1>2, KnownFields
<1>4. store[s] \in SessionObject
  BY <1>3, StoreFields
<1> HIDE DEF f
<1>5. new \in SessionObject
  BY <1>4 DEF SessionObject
<1> HIDE DEF s, new
<1>6. RegistryTypes' /\ ParamInv' /\ Len(store') = Len(store)
  BY <1>1, <1>3, <1>5, StoreStep
<1>7. OutsideTypes'
  BY <1>1, CoreParts DEF OutsideTypes, outside, TypesInv
<1>8. "empty" \in Places
  BY DEF Places
<1>9. PICK g \in FrameUpTo(Len(store), Len(objects)) :
           /\ frame' = [frame EXCEPT ![ch] = g]
           /\ g.pc = "empty" /\ g.rq = frame[ch].rq /\ g.agent = frame[ch].agent
           /\ g.obj = frame[ch].obj
  BY <1>1, <1>2, <1>8, GotoFrame
<1>10. Serves(g) /\ Has(g)
  BY <1>2, <1>9 DEF Serves, Has, Connecting, Passing, Publishing, Leaving, AtObject
<1>11. frame'[ch] = g
  BY <1>9 DEF Core, TypesInv, FrameTypes
<1>12. ~HoldsTopics(ch)' /\ ~HoldsTopics(ch)
  BY <1>1, <1>2, <1>9, <1>11 DEF HoldsTopics
<1>13. ListedOf(ch)'
  BY <1>2, <1>9, <1>11, <1>12 DEF ListedOf
<1>14. frame[ch].pc # "deliver" /\ g.pc # "deliver" /\ (g.pc # "idle" => g.agent.chan = ch)
       /\ g \in FrameUpTo(Len(store'), Len(objects)) /\ Len(store) <= Len(store')
  BY <1>1, <1>2, <1>6, <1>9
<1> QED
  BY <1>1, <1>6, <1>7, <1>9, <1>10, <1>12, <1>13, <1>14, QuietStep

-----------------------------------------------------------------------------
(* Steps that take or release _topic_mutex *)

\* A handler that takes a mutex found it free.
LEMMA TopicFree ==
  ASSUME NEW ch \in Channels, Available(ch),
         \/ frame[ch].pc \in {"to_subscribe", "retained_wild", "publish", "wild", "will", "lookup"}
         \/ frame[ch].pc = "erase" /\ frame[ch].rq.op = "unsubscribe"
  PROVE  topic_mutex = NULL
<1>1. Wants(ch) = {TopicMutex}
  BY DEF Wants
<1> QED
  BY <1>1 DEF Available, Holder, TopicMutex

LEMMA ObjectFree ==
  ASSUME Core, NEW ch \in Channels, Available(ch),
         frame[ch].pc \in {"subscribe", "send_retained", "send_null", "lock", "unsubscribe", "empty"}
  PROVE  frame[ch].obj \in 1..Len(objects) /\ objects[frame[ch].obj].mutex = NULL
<1>1. Wants(ch) = {frame[ch].obj}
  BY DEF Wants
<1>2. frame[ch].obj \in 1..Len(objects)
  BY HandlerFacts DEF Has, AtObject
<1>3. frame[ch].obj # TopicMutex
  BY <1>2, HandlerFacts DEF TopicMutex
<1> QED
  BY <1>1, <1>2, <1>3 DEF Available, Holder

\* Nobody else has _topic_mutex before and after.
LEMMA TopicMutexStep ==
  ASSUME Core, NEW ch \in Channels, UNCHANGED <<registries, store, topics>>, OutsideTypes',
         topic_mutex \in {ch, NULL}, topic_mutex' \in {ch, NULL},
         NEW g \in FrameUpTo(Len(store), Len(objects)), frame' = [frame EXCEPT ![ch] = g],
         Serves(g), Has(g), g.pc # "idle" => g.agent.chan = ch,
         frame[ch].pc # "deliver", g.pc # "deliver",
         topic_mutex' = ch <=> HoldsTopics(ch)', ListedOf(ch)'
  PROVE  Core'
<1>1. TypesInv /\ ParamInv /\ ObjectsInv /\ ChannelInv(ch)
  BY CoreParts
<1>2. Len(objects) \in Nat
  BY <1>1 DEF TypesInv, TopicTypes
<1>3. objects' = objects /\ map' = map
  BY DEF topics
<1>4. frame' \in [Channels -> FrameUpTo(Len(store), Len(objects))] /\ frame'[ch] = g
      /\ \A x \in Channels \ {ch} : frame'[x] = frame[x]
  BY <1>1 DEF TypesInv, FrameTypes
<1>5. TypesInv'
  BY <1>1, <1>3, <1>4 DEF TypesInv, TopicTypes, FrameTypes, RegistryTypes, registries
<1>6. TopicsKept(ch)
  BY <1>1, <1>2, <1>3 DEF TopicsKept
<1>7. ObjectsInv' /\ ParamInv'
  BY <1>1, <1>3 DEF ObjectsInv, ParamInv, registries
<1>8. ChannelInv(ch)'
  <2>1. FrameInv(ch)'
    BY <1>4 DEF FrameInv, Busy
  <2>2. HoldersOf(ch)'
    BY <1>1, <1>3, <1>4 DEF ChannelInv, HoldersOf
  <2>3. Receives(ch)'
    BY <1>4 DEF Receives
  <2> QED
    BY <2>1, <2>2, <2>3 DEF ChannelInv
<1> QED
  BY <1>4, <1>5, <1>6, <1>7, <1>8, CoreStep

LEMMA RetainedWildCore ==
  ASSUME Core, NEW ch \in Channels, retained_wild(ch)
  PROVE  Core'
<1> DEFINE matched == {n \in Plain : <<objects[frame[ch].obj].filter, n>> \in Matching /\ map[n] # NULL}
           h == [frame[ch] EXCEPT !.todo = matched]
<1>1. /\ frame[ch].pc = "retained_wild" /\ Available(ch) /\ topic_mutex' = ch
      /\ Goto(ch, h, "retained_of") /\ UNCHANGED <<outside, registries, store, topics>>
  BY DEF retained_wild, At
<1>2. OutsideTypes'
  BY <1>1, KeptTypes
<1>3. topic_mutex = NULL
  BY <1>1, TopicFree
<1>4. /\ frame[ch] \in FrameUpTo(Len(store), Len(objects)) /\ frame[ch].agent.chan = ch
      /\ frame[ch].agent # NULL /\ frame[ch].agent.sess # NULL
      /\ frame[ch].rq.op \in {"subscribe", "resume"} /\ Len(store) \in Nat /\ Len(objects) \in Nat
      /\ frame[ch].obj # NULL
  BY <1>1, HandlerFacts DEF Serves, Has, Connecting, Passing, AtObject
<1>5. matched \in SUBSET Filters /\ \A f \in matched : map[f] # NULL
  BY DEF Filters
<1> HIDE DEF matched
<1>6. h \in FrameUpTo(Len(store), Len(objects)) /\ h.rq = frame[ch].rq /\ h.agent = frame[ch].agent
      /\ h.obj = frame[ch].obj /\ h.todo = matched
  BY <1>4, <1>5 DEF FrameUpTo
<1> HIDE DEF h
<1>7. "retained_of" \in Places
  BY DEF Places
<1>8. PICK g \in FrameUpTo(Len(store), Len(objects)) :
           /\ frame' = [frame EXCEPT ![ch] = g]
           /\ g.pc = "retained_of" /\ g.rq = h.rq /\ g.agent = h.agent /\ g.todo = h.todo
           /\ g.obj = h.obj
  BY <1>1, <1>4, <1>6, <1>7, GotoFrame
<1>9. Serves(g) /\ Has(g)
  BY <1>4, <1>6, <1>8 DEF Serves, Has, Connecting, Passing, Publishing, Leaving, AtObject
<1>10. frame'[ch] = g /\ objects' = objects /\ map' = map
  BY <1>1, <1>8 DEF topics, Core, TypesInv, FrameTypes
<1>11. HoldsTopics(ch)'
  BY <1>8, <1>10 DEF HoldsTopics
<1>12. ListedOf(ch)'
  <2>1. AtWild(ch)
    BY <1>1 DEF Core, ListedInv
  <2>2. AtWild(ch)'
    BY <1>6, <1>8, <1>10, <2>1 DEF AtWild
  <2> QED
    BY <1>4, <1>5, <1>6, <1>8, <1>10, <2>2 DEF ListedOf
<1>13. frame[ch].pc # "deliver" /\ g.pc # "deliver" /\ (g.pc # "idle" => g.agent.chan = ch)
  BY <1>1, <1>4, <1>6, <1>8
<1> QED
  BY <1>1, <1>2, <1>3, <1>8, <1>9, <1>11, <1>12, <1>13, TopicMutexStep

LEMMA RetainedOfCore ==
  ASSUME Core, NEW ch \in Channels, retained_of(ch)
  PROVE  Core'
<1>1. frame[ch].pc = "retained_of" /\ UNCHANGED <<outside, registries, store, topics>>
  BY DEF retained_of, At
<1>2. OutsideTypes'
  BY <1>1, KeptTypes
<1>3. HoldsTopics(ch) /\ topic_mutex = ch /\ AtWild(ch)
  BY <1>1 DEF HoldsTopics, Core, HoldersInv, ListedInv
<1>4. /\ frame[ch] \in FrameUpTo(Len(store), Len(objects)) /\ frame[ch].agent.chan = ch
      /\ frame[ch].agent # NULL /\ frame[ch].agent.sess # NULL
      /\ frame[ch].rq.op \in {"subscribe", "resume"} /\ Len(store) \in Nat /\ Len(objects) \in Nat
      /\ frame[ch].obj # NULL /\ frame[ch].todo \in SUBSET Filters
  BY <1>1, HandlerFacts DEF Serves, Has, Connecting, Passing, AtObject
<1>5. \A f \in frame[ch].todo : map[f] # NULL
  BY <1>3, <1>4 DEF Core, ListedInv
<1>6. objects' = objects /\ map' = map
  BY <1>1 DEF topics
<1>7. CASE frame[ch].todo = {} /\ Goto(ch, frame[ch], "retained") /\ topic_mutex' = NULL
  <2>1. "retained" \in Places
    BY DEF Places
  <2>2. PICK g \in FrameUpTo(Len(store), Len(objects)) :
             /\ frame' = [frame EXCEPT ![ch] = g]
             /\ g.pc = "retained" /\ g.rq = frame[ch].rq /\ g.agent = frame[ch].agent
    BY <1>4, <1>7, <2>1, GotoFrame
  <2>3. Serves(g) /\ Has(g)
    BY <1>4, <2>2 DEF Serves, Has, Connecting, Passing, Publishing, Leaving, AtObject
  <2>4. frame'[ch] = g
    BY <2>2 DEF Core, TypesInv, FrameTypes
  <2>5. ~HoldsTopics(ch)' /\ topic_mutex' # ch
    BY <1>7, <2>2, <2>4, NullAssumption DEF HoldsTopics
  <2>6. ListedOf(ch)'
    BY <1>4, <2>2, <2>4, <2>5 DEF ListedOf
  <2>7. frame[ch].pc # "deliver" /\ g.pc # "deliver" /\ (g.pc # "idle" => g.agent.chan = ch)
    BY <1>1, <1>4, <2>2
  <2> QED
    BY <1>1, <1>2, <1>3, <1>7, <2>2, <2>3, <2>5, <2>6, <2>7, TopicMutexStep
<1>8. CASE \E n \in frame[ch].todo :
             /\ Goto(ch, [frame[ch] EXCEPT !.todo = @ \ {n}, !.source = map[n]],
                     IF objects[map[n]].retained THEN "read_retained" ELSE "retained_of")
             /\ UNCHANGED topic_mutex
  <2>1. PICK n \in frame[ch].todo :
             /\ Goto(ch, [frame[ch] EXCEPT !.todo = @ \ {n}, !.source = map[n]],
                     IF objects[map[n]].retained THEN "read_retained" ELSE "retained_of")
             /\ UNCHANGED topic_mutex
    BY <1>8
  <2> DEFINE h == [frame[ch] EXCEPT !.todo = @ \ {n}, !.source = map[n]]
             pc == IF objects[map[n]].retained THEN "read_retained" ELSE "retained_of"
  <2>2. map[n] \in 1..Len(objects) /\ map[n] # NULL
    BY <1>4, <1>5, CoreParts DEF TypesInv, TopicTypes
  <2>3. h \in FrameUpTo(Len(store), Len(objects)) /\ h.rq = frame[ch].rq
        /\ h.agent = frame[ch].agent /\ h.obj = frame[ch].obj /\ h.source = map[n]
        /\ h.todo \subseteq frame[ch].todo
    BY <1>4, <2>2 DEF FrameUpTo
  <2>4. pc \in {"read_retained", "retained_of"} /\ pc \in Places
    BY DEF Places
  <2>5. Goto(ch, h, pc)
    BY <2>1
  <2> HIDE DEF h, pc
  <2>6. PICK g \in FrameUpTo(Len(store), Len(objects)) :
             /\ frame' = [frame EXCEPT ![ch] = g]
             /\ g.pc = pc /\ g.rq = h.rq /\ g.agent = h.agent /\ g.obj = h.obj
             /\ g.source = h.source /\ g.todo = h.todo
    BY <1>4, <2>3, <2>4, <2>5, GotoFrame
  <2>7. Serves(g) /\ Has(g)
    BY <1>4, <2>2, <2>3, <2>4, <2>6
       DEF Serves, Has, Connecting, Passing, Publishing, Leaving, AtObject
  <2>8. frame'[ch] = g
    BY <2>6 DEF Core, TypesInv, FrameTypes
  <2>9. AtWild(ch)'
    BY <1>3, <1>6, <2>3, <2>6, <2>8 DEF AtWild
  <2>10. HoldsTopics(ch)'
    BY <1>4, <2>3, <2>4, <2>6, <2>8, <2>9 DEF HoldsTopics
  <2>11. ListedOf(ch)'
    BY <1>4, <1>5, <1>6, <2>3, <2>6, <2>8, <2>9 DEF ListedOf
  <2>12. frame[ch].pc # "deliver" /\ g.pc # "deliver" /\ (g.pc # "idle" => g.agent.chan = ch)
    BY <1>1, <1>4, <2>3, <2>4, <2>6
  <2> QED
    BY <1>1, <1>2, <1>3, <2>1, <2>6, <2>7, <2>10, <2>11, <2>12, TopicMutexStep
<1> QED
  BY <1>7, <1>8 DEF retained_of

LEMMA WildCore ==
  ASSUME Core, NEW ch \in Channels, wild(ch)
  PROVE  Core'
<1> DEFINE matched == {w \in Wild : map[w] # NULL /\ <<w, frame[ch].rq.topic>> \in Matching}
           found == {map[w] : w \in matched}
           h == [frame[ch] EXCEPT !.objs = found]
<1>1. /\ frame[ch].pc = "wild" /\ Available(ch) /\ topic_mutex' = ch
      /\ Goto(ch, h, "wild_next") /\ UNCHANGED <<outside, registries, store, topics>>
  BY DEF wild, At
<1>2. OutsideTypes'
  BY <1>1, KeptTypes
<1>3. topic_mutex = NULL
  BY <1>1, TopicFree
<1>4. /\ frame[ch] \in FrameUpTo(Len(store), Len(objects)) /\ frame[ch].agent.chan = ch
      /\ frame[ch].agent # NULL /\ frame[ch].agent.sess # NULL
      /\ frame[ch].rq.op = "publish" /\ Len(store) \in Nat /\ Len(objects) \in Nat
      /\ frame[ch].rq.topic \in Plain
  BY <1>1, HandlerFacts DEF Serves, Has, Connecting, Publishing
<1>5. \A o \in found : o \in 1..Len(objects) /\ objects[o].filter \in Wild
  BY CoreParts DEF TypesInv, TopicTypes, ObjectsInv, Filters
<1> HIDE DEF found
<1>6. h \in FrameUpTo(Len(store), Len(objects)) /\ h.rq = frame[ch].rq /\ h.agent = frame[ch].agent
      /\ h.objs = found
  BY <1>4, <1>5 DEF FrameUpTo
<1> HIDE DEF h
<1>7. "wild_next" \in Places
  BY DEF Places
<1>8. PICK g \in FrameUpTo(Len(store), Len(objects)) :
           /\ frame' = [frame EXCEPT ![ch] = g]
           /\ g.pc = "wild_next" /\ g.rq = h.rq /\ g.agent = h.agent /\ g.objs = h.objs
  BY <1>1, <1>4, <1>6, <1>7, GotoFrame
<1>9. Serves(g) /\ Has(g)
  BY <1>4, <1>6, <1>8 DEF Serves, Has, Connecting, Passing, Publishing, Leaving, AtObject
<1>10. frame'[ch] = g /\ objects' = objects /\ map' = map
  BY <1>1, <1>8 DEF topics, Core, TypesInv, FrameTypes
<1>11. HoldsTopics(ch)'
  BY <1>8, <1>10 DEF HoldsTopics
<1>12. ListedOf(ch)'
  BY <1>4, <1>5, <1>6, <1>8, <1>10 DEF ListedOf
<1>13. frame[ch].pc # "deliver" /\ g.pc # "deliver" /\ (g.pc # "idle" => g.agent.chan = ch)
  BY <1>1, <1>4, <1>6, <1>8
<1> QED
  BY <1>1, <1>2, <1>3, <1>8, <1>9, <1>11, <1>12, <1>13, TopicMutexStep

\* The handler returns and releases _topic_mutex if it held it.
LEMMA ReleaseAndReturn ==
  ASSUME Core, NEW ch \in Channels, UNCHANGED <<registries, store, topics>>, OutsideTypes',
         topic_mutex \in {ch, NULL}, topic_mutex' = NULL, Return(ch), frame[ch].pc # "deliver"
  PROVE  Core'
<1>1. Idle \in FrameUpTo(Len(store), Len(objects)) /\ Serves(Idle) /\ Has(Idle)
      /\ Idle.pc = "idle" /\ Idle.rq.op = "idle"
  BY HandlerFacts, IdleFrame
<1>2. frame' = [frame EXCEPT ![ch] = Idle] /\ frame'[ch] = Idle
  BY DEF Return, Core, TypesInv, FrameTypes
<1> HIDE DEF Idle
<1>3. ~HoldsTopics(ch)' /\ topic_mutex' # ch
  BY <1>1, <1>2, NullAssumption DEF HoldsTopics
<1>4. ListedOf(ch)'
  BY <1>1, <1>2, <1>3 DEF ListedOf
<1>5. Idle.pc # "deliver" /\ (Idle.pc # "idle" => Idle.agent.chan = ch)
  BY <1>1
<1> QED
  BY <1>1, <1>2, <1>3, <1>4, <1>5, TopicMutexStep

LEMMA WildNextCore ==
  ASSUME Core, NEW ch \in Channels, wild_next(ch)
  PROVE  Core'
<1>1. frame[ch].pc = "wild_next" /\ UNCHANGED <<outside, registries, store, topics>>
  BY DEF wild_next, At
<1>2. OutsideTypes'
  BY <1>1, KeptTypes
<1>3. HoldsTopics(ch) /\ topic_mutex = ch
  BY <1>1 DEF HoldsTopics, Core, HoldersInv
<1>4. CASE Return(ch) /\ topic_mutex' = NULL
  <2>1. frame[ch].pc # "deliver"
    BY <1>1
  <2> QED
    BY <1>1, <1>2, <1>3, <1>4, <2>1, ReleaseAndReturn
<1>5. CASE \E o \in frame[ch].objs :
             PublishOn(ch, [frame[ch] EXCEPT !.objs = @ \ {o}], o) /\ UNCHANGED topic_mutex
  <2>1. PICK o \in frame[ch].objs :
             PublishOn(ch, [frame[ch] EXCEPT !.objs = @ \ {o}], o) /\ UNCHANGED topic_mutex
    BY <1>5
  <2> DEFINE h == [frame[ch] EXCEPT !.objs = @ \ {o}]
  <2>2. /\ frame[ch] \in FrameUpTo(Len(store), Len(objects))
        /\ frame[ch].rq.op = "publish" /\ frame[ch].objs \in SUBSET (1..Len(objects))
    BY <1>1, HandlerFacts DEF Serves, Publishing
  <2>3. \A p \in frame[ch].objs : objects[p].filter \in Wild
    BY <2>2 DEF Core, ListedInv
  <2>4. h \in FrameUpTo(Len(store), Len(objects)) /\ h.rq = frame[ch].rq /\ h.agent = frame[ch].agent
        /\ h.objs \subseteq frame[ch].objs
    BY <2>2 DEF FrameUpTo
  <2>5. PublishOn(ch, h, o)
    BY <2>1
  <2> HIDE DEF h
  <2>6. o \in 1..Len(objects) /\ objects[o].filter \in Wild /\ h.rq.op = "publish"
        /\ (\A p \in h.objs : objects[p].filter \in Wild) /\ frame[ch].pc \in {"publish", "wild_next", "will_id"}
    BY <1>1, <2>2, <2>3, <2>4
  <2>7. HoldsTopics(ch) <=> h.rq.op # "disconnected" /\ objects[o].filter \in Wild
    BY <1>3, <2>6
  <2> QED
    BY <1>1, <2>1, <2>4, <2>5, <2>6, <2>7, PublishStep
<1> QED
  BY <1>4, <1>5 DEF wild_next

\* A filter has been dealt with; the topic it leaves behind may be erased by whoever
\* holds _topic_mutex.
LEMMA UnsubscribedStep ==
  ASSUME Core, NEW ch \in Channels, UNCHANGED <<outside, registries, store, objects>>,
         ReleaseTopics(ch),
         map' \in [Filters -> 1..Len(objects) \cup {NULL}],
         \A f \in Filters : map'[f] \in {map[f], NULL},
         topic_mutex \in {ch, NULL} \/ map' = map,
         NEW fr \in FrameUpTo(Len(store), Len(objects)), NextToUnsubscribe(ch, fr),
         fr.rq = frame[ch].rq, fr.agent = frame[ch].agent,
         frame[ch].pc \in {"lookup", "empty", "erase"}
  PROVE  Core'
<1>1. TypesInv /\ ParamInv /\ ObjectsInv /\ ChannelInv(ch)
  BY CoreParts
<1>2. /\ Len(store) \in Nat /\ Len(objects) \in Nat
      /\ frame[ch].agent.chan = ch /\ frame[ch].agent # NULL /\ frame[ch].agent.sess # NULL
      /\ frame[ch].rq.op \in Leaving \cup {"unsubscribe"} /\ frame[ch].rq.op # "publish"
  BY HandlerFacts DEF Serves, Has, Connecting, Leaving
<1>3. \E g \in FrameUpTo(Len(store), Len(objects)) :
        /\ frame' = [frame EXCEPT ![ch] = g]
        /\ g.pc \in {"idle", "lookup", "delete_session", "deregister"}
        /\ Serves(g) /\ Has(g) /\ (g.pc # "idle" => g.agent.chan = ch) /\ g.rq.op # "publish"
  <2>1. CASE Return(ch)
    <3>1. Idle \in FrameUpTo(Len(store), Len(objects)) /\ Serves(Idle) /\ Has(Idle)
          /\ Idle.pc = "idle" /\ Idle.rq.op = "idle"
      BY <1>2, IdleFrame
    <3>2. frame' = [frame EXCEPT ![ch] = Idle]
      BY <2>1 DEF Return
    <3> QED
      BY <3>1, <3>2
  <2>2. CASE ~Return(ch)
    <3>1. PICK pc \in {"lookup", "delete_session", "deregister"} :
               Goto(ch, fr, pc) /\ (pc # "lookup" => fr.rq.op \in Leaving)
      BY <1>2, <2>2, NextUnsubscribed
    <3>2. pc \in Places
      BY <3>1 DEF Places
    <3>3. PICK g \in FrameUpTo(Len(store), Len(objects)) :
               /\ frame' = [frame EXCEPT ![ch] = g]
               /\ g.pc = pc /\ g.rq = fr.rq /\ g.agent = fr.agent
      BY <1>2, <3>1, <3>2, GotoFrame
    <3>4. Serves(g) /\ Has(g)
      BY <1>2, <3>1, <3>3 DEF Serves, Has, Connecting, Passing, Publishing, Leaving, AtObject
    <3> QED
      BY <1>2, <3>1, <3>3, <3>4
  <2> QED
    BY <2>1, <2>2
<1>4. PICK g \in FrameUpTo(Len(store), Len(objects)) :
        /\ frame' = [frame EXCEPT ![ch] = g]
        /\ g.pc \in {"idle", "lookup", "delete_session", "deregister"}
        /\ Serves(g) /\ Has(g) /\ (g.pc # "idle" => g.agent.chan = ch) /\ g.rq.op # "publish"
  BY <1>3
<1>5. frame' \in [Channels -> FrameUpTo(Len(store), Len(objects))] /\ frame'[ch] = g
      /\ \A x \in Channels \ {ch} : frame'[x] = frame[x]
  BY <1>1, <1>4 DEF TypesInv, FrameTypes
<1>6. /\ OutsideTypes' /\ RegistryTypes' /\ ParamInv'
      /\ Len(store') = Len(store)
  BY KeptTypes
<1>7. topic_mutex' \in Channels \cup {NULL} /\ topic_mutex' # ch
      /\ (topic_mutex \notin {ch, NULL} => topic_mutex' = topic_mutex)
      /\ (topic_mutex \in {ch, NULL} => topic_mutex' = NULL)
  BY <1>1, NullAssumption DEF ReleaseTopics, TypesInv, TopicTypes
<1>8. TypesInv'
  BY <1>1, <1>5, <1>6, <1>7 DEF TypesInv, TopicTypes, FrameTypes
<1>9. TopicsKept(ch)
  BY <1>1, <1>2, <1>7 DEF TopicsKept
<1>10. ObjectsInv'
  BY <1>1 DEF ObjectsInv
<1>11. ~HoldsTopics(ch)'
  BY <1>4, <1>5 DEF HoldsTopics
<1>12. ChannelInv(ch)'
  <2>1. FrameInv(ch)'
    BY <1>4, <1>5 DEF FrameInv, Busy
  <2>2. HoldersOf(ch)'
    BY <1>1, <1>4, <1>5, <1>7, <1>11 DEF ChannelInv, HoldersOf
  <2>3. Receives(ch)' /\ ListedOf(ch)'
    BY <1>4, <1>5, <1>11 DEF Receives, ListedOf
  <2> QED
    BY <2>1, <2>2, <2>3 DEF ChannelInv
<1> QED
  BY <1>5, <1>6, <1>8, <1>9, <1>10, <1>12, CoreStep

LEMMA LookupCore ==
  ASSUME Core, NEW ch \in Channels, lookup(ch)
  PROVE  Core'
<1>1. /\ frame[ch].pc = "lookup" /\ Available(ch)
      /\ UNCHANGED <<outside, registries, store, topics>>
  BY DEF lookup, At
<1>2. OutsideTypes' /\ topic_mutex = NULL
  BY <1>1, KeptTypes, TopicFree
<1>3. PICK f \in frame[ch].todo :
        LET fr == [frame[ch] EXCEPT !.todo = @ \ {f}, !.obj = map[f]] IN
        IF map[f] = NULL
          THEN NextToUnsubscribe(ch, fr) /\ UNCHANGED topic_mutex
          ELSE /\ topic_mutex' = IF fr.rq.op = "unsubscribe" THEN NULL ELSE ch
               /\ Goto(ch, fr, "unsubscribe")
  BY DEF lookup
<1> DEFINE fr == [frame[ch] EXCEPT !.todo = @ \ {f}, !.obj = map[f]]
<1>4. /\ frame[ch] \in FrameUpTo(Len(store), Len(objects)) /\ frame[ch].agent.chan = ch
      /\ frame[ch].agent # NULL /\ frame[ch].agent.sess # NULL
      /\ frame[ch].rq.op \in Leaving \cup {"unsubscribe"}
      /\ frame[ch].rq.op \notin {"publish", "subscribe", "resume"}
      /\ Len(store) \in Nat /\ Len(objects) \in Nat /\ frame[ch].todo \in SUBSET Filters
  BY <1>1, HandlerFacts DEF Serves, Has, Connecting, Leaving
<1>5. map[f] \in 1..Len(objects) \cup {NULL}
  BY <1>4, CoreParts DEF TypesInv, TopicTypes
<1>6. fr \in FrameUpTo(Len(store), Len(objects)) /\ fr.rq = frame[ch].rq
      /\ fr.agent = frame[ch].agent /\ fr.obj = map[f]
  BY <1>4, <1>5 DEF FrameUpTo
<1>7. objects' = objects /\ map' = map
  BY <1>1 DEF topics
<1>8. CASE map[f] = NULL
  <2>1. NextToUnsubscribe(ch, fr) /\ UNCHANGED topic_mutex
    BY <1>3, <1>8
  <2>2. ReleaseTopics(ch)
    BY <1>2, <2>1 DEF ReleaseTopics
  <2>3. map' \in [Filters -> 1..Len(objects) \cup {NULL}] /\ \A k \in Filters : map'[k] \in {map[k], NULL}
    BY <1>7, CoreParts DEF TypesInv, TopicTypes
  <2> HIDE DEF fr
  <2> QED
    BY <1>1, <1>6, <1>7, <2>1, <2>2, <2>3, UnsubscribedStep
<1>9. CASE map[f] # NULL
  <2>1. /\ topic_mutex' = IF fr.rq.op = "unsubscribe" THEN NULL ELSE ch
        /\ Goto(ch, fr, "unsubscribe")
    BY <1>3, <1>9
  <2> HIDE DEF fr
  <2>2. "unsubscribe" \in Places
    BY DEF Places
  <2>3. PICK g \in FrameUpTo(Len(store), Len(objects)) :
             /\ frame' = [frame EXCEPT ![ch] = g]
             /\ g.pc = "unsubscribe" /\ g.rq = fr.rq /\ g.agent = fr.agent /\ g.obj = fr.obj
    BY <1>4, <1>6, <2>1, <2>2, GotoFrame
  <2>4. Serves(g) /\ Has(g)
    BY <1>4, <1>6, <1>9, <2>3 DEF Serves, Has, Connecting, Passing, Publishing, Leaving, AtObject
  <2>5. frame'[ch] = g
    BY <2>3 DEF Core, TypesInv, FrameTypes
  <2>6. topic_mutex' = ch <=> HoldsTopics(ch)'
    BY <1>6, <2>1, <2>3, <2>5, NullAssumption DEF HoldsTopics
  <2>7. ListedOf(ch)'
    BY <1>4, <1>6, <2>3, <2>5 DEF ListedOf
  <2>8. frame[ch].pc # "deliver" /\ g.pc # "deliver" /\ (g.pc # "idle" => g.agent.chan = ch)
        /\ topic_mutex \in {ch, NULL} /\ topic_mutex' \in {ch, NULL}
    BY <1>1, <1>2, <1>4, <1>6, <2>1, <2>3
  <2> QED
    BY <1>1, <1>2, <2>3, <2>4, <2>6, <2>7, <2>8, TopicMutexStep
<1> QED
  BY <1>8, <1>9

LEMMA EmptyCore ==
  ASSUME Core, NEW ch \in Channels, empty(ch)
  PROVE  Core'
<1>1. /\ frame[ch].pc = "empty" /\ UNCHANGED <<outside, registries, store, topics>>
      /\ IF IsEmpty(frame[ch].obj)
           THEN Goto(ch, frame[ch], "erase") /\ UNCHANGED topic_mutex
           ELSE NextToUnsubscribe(ch, frame[ch]) /\ ReleaseTopics(ch)
  BY DEF empty, At
<1>2. /\ OutsideTypes' /\ RegistryTypes' /\ ParamInv'
      /\ Len(store') = Len(store) /\ Len(store) <= Len(store')
  BY <1>1, KeptTypes
<1>3. /\ frame[ch] \in FrameUpTo(Len(store), Len(objects)) /\ frame[ch].agent.chan = ch
      /\ frame[ch].agent # NULL /\ frame[ch].agent.sess # NULL
      /\ frame[ch].rq.op \in Leaving \cup {"unsubscribe"}
      /\ frame[ch].rq.op \notin {"publish", "subscribe", "resume"}
      /\ Len(store) \in Nat /\ Len(objects) \in Nat /\ frame[ch].obj # NULL
  BY <1>1, HandlerFacts DEF Serves, Has, Connecting, Leaving, AtObject
<1>4. objects' = objects /\ map' = map
  BY <1>1 DEF topics
<1>5. CASE IsEmpty(frame[ch].obj)
  <2>1. Goto(ch, frame[ch], "erase") /\ UNCHANGED topic_mutex /\ "erase" \in Places
    BY <1>1, <1>5 DEF Places
  <2>2. PICK g \in FrameUpTo(Len(store), Len(objects)) :
             /\ frame' = [frame EXCEPT ![ch] = g]
             /\ g.pc = "erase" /\ g.rq = frame[ch].rq /\ g.agent = frame[ch].agent
             /\ g.obj = frame[ch].obj
    BY <1>3, <2>1, GotoFrame
  <2>3. Serves(g) /\ Has(g)
    BY <1>3, <2>2 DEF Serves, Has, Connecting, Passing, Publishing, Leaving, AtObject
  <2>4. frame'[ch] = g
    BY <2>2 DEF Core, TypesInv, FrameTypes
  <2>5. HoldsTopics(ch)' <=> HoldsTopics(ch)
    BY <1>1, <2>2, <2>4 DEF HoldsTopics
  <2>6. ListedOf(ch)'
    BY <1>3, <2>2, <2>4 DEF ListedOf
  <2>7. frame[ch].pc # "deliver" /\ g.pc # "deliver" /\ (g.pc # "idle" => g.agent.chan = ch)
        /\ g \in FrameUpTo(Len(store'), Len(objects))
    BY <1>1, <1>2, <1>3, <2>2
  <2> QED
    BY <1>1, <1>2, <2>1, <2>2, <2>3, <2>5, <2>6, <2>7, QuietStep
<1>6. CASE ~IsEmpty(frame[ch].obj)
  <2>1. NextToUnsubscribe(ch, frame[ch]) /\ ReleaseTopics(ch)
    BY <1>1, <1>6
  <2>2. map' \in [Filters -> 1..Len(objects) \cup {NULL}] /\ \A k \in Filters : map'[k] \in {map[k], NULL}
    BY <1>4, CoreParts DEF TypesInv, TopicTypes
  <2> QED
    BY <1>1, <1>3, <1>4, <2>1, <2>2, UnsubscribedStep
<1> QED
  BY <1>5, <1>6

LEMMA EraseCore ==
  ASSUME Core, NEW ch \in Channels, erase(ch)
  PROVE  Core'
<1>1. /\ frame[ch].pc = "erase" /\ Available(ch)
      /\ map' = [map EXCEPT ![objects[frame[ch].obj].filter] = NULL]
      /\ NextToUnsubscribe(ch, frame[ch]) /\ ReleaseTopics(ch)
      /\ UNCHANGED <<outside, registries, store, objects>>
  BY DEF erase, At
<1>2. topic_mutex \in {ch, NULL}
  <2>1. CASE frame[ch].rq.op = "unsubscribe"
    BY <1>1, <2>1, TopicFree
  <2>2. CASE frame[ch].rq.op # "unsubscribe"
    <3>1. HoldsTopics(ch)
      BY <1>1, <2>2 DEF HoldsTopics
    <3> QED
      BY <3>1 DEF Core, HoldersInv
  <2> QED
    BY <2>1, <2>2
<1>3. frame[ch] \in FrameUpTo(Len(store), Len(objects))
  BY HandlerFacts
<1>4. map' \in [Filters -> 1..Len(objects) \cup {NULL}] /\ \A k \in Filters : map'[k] \in {map[k], NULL}
  BY <1>1, CoreParts DEF TypesInv, TopicTypes
<1> QED
  BY <1>1, <1>2, <1>3, <1>4, UnsubscribedStep

-----------------------------------------------------------------------------
(* Steps that change a topic object *)

\* An object has its clients by their identifiers, and those a handler still publishes
\* to are among them.
ByIdentifier(t) == \A i \in ClientIds : t.clients[i] # NULL => t.clients[i].cid = i
Reaches(g, t) == g.pc = "deliver" => \A c \in g.to : t.clients[c.cid] # NULL

\* One object is changed: by the handler that has its mutex or while it is free; its
\* retained message by anybody.
LEMMA ObjectStep ==
  ASSUME Core, NEW ch \in Channels, UNCHANGED <<map, topic_mutex>>,
         OutsideTypes', RegistryTypes', ParamInv', Len(store') = Len(store),
         NEW o \in 1..Len(objects), NEW t \in ObjectUpTo(Len(store)),
         objects' = [objects EXCEPT ![o] = t], t.filter = objects[o].filter,
         ByIdentifier(t),
         objects[o].mutex \notin {ch, NULL} =>
           t.mutex = objects[o].mutex /\ t.clients = objects[o].clients,
         objects[o].mutex \in {ch, NULL} => t.mutex \in {ch, NULL},
         NEW g \in FrameUpTo(Len(store), Len(objects)), frame' = [frame EXCEPT ![ch] = g],
         Serves(g), Has(g), g.pc # "idle" => g.agent.chan = ch,
         HoldsTopics(ch)' <=> topic_mutex = ch, ListedOf(ch)',
         frame[ch].pc = "deliver" => frame[ch].obj = o,
         g.pc = "deliver" => g.obj = o,
         t.mutex = ch <=> g.pc = "deliver",
         Reaches(g, t)
  PROVE  Core'
<1>1. TypesInv /\ ParamInv /\ ObjectsInv /\ ChannelInv(ch)
  BY CoreParts
<1>2. Len(objects) \in Nat /\ objects \in Seq(ObjectUpTo(Len(store)))
  BY <1>1 DEF TypesInv, TopicTypes
<1>3. /\ objects' \in Seq(ObjectUpTo(Len(store))) /\ Len(objects') = Len(objects)
      /\ objects'[o] = t /\ \A p \in 1..Len(objects) : p # o => objects'[p] = objects[p]
  BY <1>2
<1>4. frame' \in [Channels -> FrameUpTo(Len(store), Len(objects))] /\ frame'[ch] = g
      /\ \A x \in Channels \ {ch} : frame'[x] = frame[x]
  BY <1>1 DEF TypesInv, FrameTypes
<1>5. TypesInv'
  BY <1>1, <1>3, <1>4 DEF TypesInv, TopicTypes, FrameTypes
<1>6. TopicsKept(ch)
  <2>1. \A p \in 1..Len(objects) : objects'[p].filter = objects[p].filter
    BY <1>3
  <2>2. \A p \in 1..Len(objects) : objects[p].mutex \notin {ch, NULL} =>
          objects'[p].mutex = objects[p].mutex /\ objects'[p].clients = objects[p].clients
    BY <1>3
  <2>3. \A p \in 1..Len(objects) : objects[p].mutex \in {ch, NULL} => objects'[p].mutex \in {ch, NULL}
    BY <1>3
  <2> QED
    BY <1>2, <1>3, <2>1, <2>2, <2>3 DEF TopicsKept
<1>7. ObjectsInv'
  <2>1. \A f \in Filters : map[f] # NULL => objects'[map[f]].filter = f
    BY <1>1, <1>3 DEF ObjectsInv, TypesInv, TopicTypes
  <2>2. \A p \in 1..Len(objects), i \in ClientIds :
          objects'[p].clients[i] # NULL => objects'[p].clients[i].cid = i
    BY <1>1, <1>3 DEF ObjectsInv, ByIdentifier
  <2> QED
    BY <1>3, <2>1, <2>2 DEF ObjectsInv
<1>8. ChannelInv(ch)'
  <2>1. FrameInv(ch)'
    BY <1>4 DEF FrameInv, Busy
  <2>2. \A p \in 1..Len(objects') : objects'[p].mutex = ch <=> g.pc = "deliver" /\ g.obj = p
    BY <1>1, <1>3 DEF ChannelInv, HoldersOf
  <2>3. HoldersOf(ch)'
    BY <1>4, <2>2 DEF HoldersOf
  <2>4. Receives(ch)'
    BY <1>3, <1>4 DEF Receives, Reaches
  <2> QED
    BY <2>1, <2>3, <2>4 DEF ChannelInv
<1> QED
  BY <1>4, <1>5, <1>6, <1>7, <1>8, CoreStep

\* The object at hand.
LEMMA ObjectAtHand ==
  ASSUME Core, NEW o \in 1..Len(objects)
  PROVE  /\ objects[o] \in ObjectUpTo(Len(store))
         /\ objects[o].filter \in Filters
         /\ objects[o].clients \in [ClientIds -> ClientUpTo(Len(store)) \cup {NULL}]
         /\ objects[o].mutex \in Channels \cup {NULL}
         /\ \A i \in ClientIds : objects[o].clients[i] # NULL => objects[o].clients[i].cid = i
<1>1. TypesInv /\ ObjectsInv
  BY CoreParts
<1>2. objects[o] \in ObjectUpTo(Len(store)) /\ Len(store) \in Nat
  BY <1>1 DEF TypesInv, TopicTypes, RegistryTypes
<1> QED
  BY <1>1, <1>2, ObjectFields DEF ObjectsInv

LEMMA UnsubscribeCore ==
  ASSUME Core, NEW ch \in Channels, unsubscribe(ch)
  PROVE  Core'
<1> DEFINE o == frame[ch].obj
           t == [objects[o] EXCEPT !.clients[frame[ch].agent.cid] = NULL]
           pc == IF frame[ch].rq.op = "unsubscribe" THEN "delete_subscription" ELSE "empty"
<1>1. /\ frame[ch].pc = "unsubscribe" /\ Available(ch) /\ Goto(ch, frame[ch], pc)
      /\ UNCHANGED <<outside, registries, store, map, topic_mutex>>
  BY DEF unsubscribe, Step, At
<1>2. objects' = [objects EXCEPT ![o] = t]
  BY DEF unsubscribe
<1>3. OutsideTypes' /\ RegistryTypes' /\ ParamInv' /\ Len(store') = Len(store)
  BY <1>1, KeptTypes
<1>4. o \in 1..Len(objects) /\ objects[o].mutex = NULL
  BY <1>1, ObjectFree
<1>5. /\ frame[ch] \in FrameUpTo(Len(store), Len(objects)) /\ frame[ch].agent.chan = ch
      /\ frame[ch].agent # NULL /\ frame[ch].agent.sess # NULL
      /\ frame[ch].rq.op \in Leaving \cup {"unsubscribe"}
      /\ frame[ch].rq.op \notin {"publish", "subscribe", "resume"}
      /\ Len(store) \in Nat /\ Len(objects) \in Nat /\ frame[ch].obj # NULL
  BY <1>1, HandlerFacts DEF Serves, Has, Connecting, Leaving, AtObject
<1>6. objects[o] \in ObjectUpTo(Len(store))
      /\ \A i \in ClientIds : objects[o].clients[i] # NULL => objects[o].clients[i].cid = i
  BY <1>4, ObjectAtHand
<1>7. /\ t \in ObjectUpTo(Len(store)) /\ t.filter = objects[o].filter /\ t.mutex = objects[o].mutex
      /\ \A i \in ClientIds : t.clients[i] # NULL => t.clients[i].cid = i
  BY <1>6 DEF ObjectUpTo
<1>8. pc \in {"delete_subscription", "empty"} /\ pc \in Places
      /\ (pc = "empty" <=> frame[ch].rq.op # "unsubscribe")
  BY DEF Places
<1> HIDE DEF t, pc
<1>9. PICK g \in FrameUpTo(Len(store), Len(objects)) :
           /\ frame' = [frame EXCEPT ![ch] = g]
           /\ g.pc = pc /\ g.rq = frame[ch].rq /\ g.agent = frame[ch].agent /\ g.obj = frame[ch].obj
  BY <1>1, <1>5, <1>8, GotoFrame
<1>10. Serves(g) /\ Has(g)
  BY <1>5, <1>8, <1>9 DEF Serves, Has, Connecting, Passing, Publishing, Leaving, AtObject
<1>11. frame'[ch] = g
  BY <1>9 DEF Core, TypesInv, FrameTypes
<1>12. HoldsTopics(ch)' <=> topic_mutex = ch
  <2>1. topic_mutex = ch <=> HoldsTopics(ch)
    BY DEF Core, HoldersInv
  <2> QED
    BY <1>1, <1>5, <1>8, <1>9, <1>11, <2>1 DEF HoldsTopics
<1>13. ListedOf(ch)'
  BY <1>5, <1>8, <1>9, <1>11 DEF ListedOf
<1>14. frame[ch].pc # "deliver" /\ g.pc # "deliver" /\ (g.pc # "idle" => g.agent.chan = ch)
       /\ t.mutex = NULL /\ ch # NULL
  BY <1>1, <1>4, <1>5, <1>7, <1>8, <1>9, NullAssumption
<1>15. ByIdentifier(t) /\ Reaches(g, t)
  BY <1>7, <1>14 DEF ByIdentifier, Reaches
<1> HIDE DEF o
<1> QED
  BY <1>1, <1>2, <1>3, <1>4, <1>7, <1>9, <1>10, <1>12, <1>13, <1>14, <1>15, ObjectStep

LEMMA SubscribeCore ==
  ASSUME Core, NEW ch \in Channels, subscribe(ch)
  PROVE  Core'
<1> DEFINE o == frame[ch].obj
           t == [objects[o] EXCEPT !.clients[frame[ch].agent.cid] = frame[ch].agent]
           pc == IF frame[ch].rq.op = "subscribe" THEN "add_subscription"
                 ELSE NextToSubscribe(frame[ch])
<1>1. /\ frame[ch].pc = "subscribe" /\ Available(ch) /\ Goto(ch, frame[ch], pc)
      /\ UNCHANGED <<outside, registries, store, map, topic_mutex>>
  BY DEF subscribe, Step, At
<1>2. objects' = [objects EXCEPT ![o] = t]
  BY DEF subscribe
<1>3. OutsideTypes' /\ RegistryTypes' /\ ParamInv' /\ Len(store') = Len(store)
  BY <1>1, KeptTypes
<1>4. o \in 1..Len(objects) /\ objects[o].mutex = NULL
  BY <1>1, ObjectFree
<1>5. /\ frame[ch] \in FrameUpTo(Len(store), Len(objects)) /\ frame[ch].agent.chan = ch
      /\ frame[ch].agent # NULL /\ frame[ch].agent.sess # NULL
      /\ frame[ch].rq.op \in {"subscribe", "resume"}
      /\ frame[ch].agent.cid \in ClientIds /\ frame[ch].agent \in ClientUpTo(Len(store))
      /\ Len(store) \in Nat /\ Len(objects) \in Nat /\ frame[ch].obj # NULL
  BY <1>1, HandlerFacts DEF Serves, Has, Connecting, AtObject
<1>6. objects[o] \in ObjectUpTo(Len(store))
      /\ \A i \in ClientIds : objects[o].clients[i] # NULL => objects[o].clients[i].cid = i
  BY <1>4, ObjectAtHand
<1>7. /\ t \in ObjectUpTo(Len(store)) /\ t.filter = objects[o].filter /\ t.mutex = objects[o].mutex
      /\ \A i \in ClientIds : t.clients[i] # NULL => t.clients[i].cid = i
  BY <1>5, <1>6 DEF ObjectUpTo
<1>8. pc \in {"add_subscription", "to_subscribe", "resend"} /\ pc \in Places
      /\ (pc = "add_subscription" => frame[ch].rq.op = "subscribe")
      /\ (pc = "resend" => frame[ch].rq.op = "resume")
  <2>1. CASE frame[ch].rq.op = "subscribe"
    BY <2>1 DEF Places
  <2>2. CASE frame[ch].rq.op # "subscribe"
    <3>1. pc = NextToSubscribe(frame[ch]) /\ frame[ch].rq.op = "resume"
      BY <1>5, <2>2
    <3> QED
      BY <3>1, NextPlace DEF Places
  <2> QED
    BY <2>1, <2>2
<1> HIDE DEF t, pc
<1>9. PICK g \in FrameUpTo(Len(store), Len(objects)) :
           /\ frame' = [frame EXCEPT ![ch] = g]
           /\ g.pc = pc /\ g.rq = frame[ch].rq /\ g.agent = frame[ch].agent /\ g.obj = frame[ch].obj
  BY <1>1, <1>5, <1>8, GotoFrame
<1>10. Serves(g) /\ Has(g)
  BY <1>5, <1>8, <1>9 DEF Serves, Has, Connecting, Passing, Publishing, Leaving, AtObject
<1>11. frame'[ch] = g
  BY <1>9 DEF Core, TypesInv, FrameTypes
<1>12. HoldsTopics(ch)' <=> topic_mutex = ch
  <2>1. topic_mutex = ch <=> HoldsTopics(ch)
    BY DEF Core, HoldersInv
  <2> QED
    BY <1>1, <1>5, <1>8, <1>9, <1>11, <2>1 DEF HoldsTopics
<1>13. ListedOf(ch)'
  <2>1. ~HoldsTopics(ch)'
    BY <1>8, <1>9, <1>11 DEF HoldsTopics
  <2> QED
    BY <1>5, <1>8, <1>9, <1>11, <2>1 DEF ListedOf
<1>14. frame[ch].pc # "deliver" /\ g.pc # "deliver" /\ (g.pc # "idle" => g.agent.chan = ch)
       /\ t.mutex = NULL /\ ch # NULL
  BY <1>1, <1>4, <1>5, <1>7, <1>8, <1>9, NullAssumption
<1>15. ByIdentifier(t) /\ Reaches(g, t)
  BY <1>7, <1>14 DEF ByIdentifier, Reaches
<1> HIDE DEF o
<1> QED
  BY <1>1, <1>2, <1>3, <1>4, <1>7, <1>9, <1>10, <1>12, <1>13, <1>14, <1>15, ObjectStep

LEMMA StoreRetainedCore ==
  ASSUME Core, NEW ch \in Channels, store_retained(ch)
  PROVE  Core'
<1> DEFINE o == frame[ch].obj
           b == frame[ch].rq.retain = "store"
           t == [objects[o] EXCEPT !.retained = b]
<1>1. /\ frame[ch].pc = "store" /\ Goto(ch, frame[ch], "lock")
      /\ UNCHANGED <<outside, registries, store, map, topic_mutex>>
  BY DEF store_retained, Step, At
<1>2. objects' = [objects EXCEPT ![o] = t]
  BY DEF store_retained
<1>3. OutsideTypes' /\ RegistryTypes' /\ ParamInv' /\ Len(store') = Len(store)
  BY <1>1, KeptTypes
<1>4. /\ frame[ch] \in FrameUpTo(Len(store), Len(objects)) /\ frame[ch].agent.chan = ch
      /\ frame[ch].agent # NULL /\ frame[ch].agent.sess # NULL
      /\ frame[ch].rq.op \in {"publish", "disconnected"}
      /\ frame[ch].rq.op = "publish" => frame[ch].rq.topic \in Plain
      /\ Len(store) \in Nat /\ Len(objects) \in Nat /\ frame[ch].obj # NULL
      /\ o \in 1..Len(objects)
  BY <1>1, HandlerFacts DEF Serves, Has, Connecting, AtObject
<1>5. objects[o] \in ObjectUpTo(Len(store))
      /\ \A i \in ClientIds : objects[o].clients[i] # NULL => objects[o].clients[i].cid = i
  BY <1>4, ObjectAtHand
<1>6. b \in BOOLEAN
  OBVIOUS
<1> HIDE DEF b
<1>7. /\ t \in ObjectUpTo(Len(store)) /\ t.filter = objects[o].filter /\ t.mutex = objects[o].mutex
      /\ t.clients = objects[o].clients
  BY <1>5, <1>6 DEF ObjectUpTo
<1> HIDE DEF t
<1>8. "lock" \in Places
  BY DEF Places
<1>9. PICK g \in FrameUpTo(Len(store), Len(objects)) :
           /\ frame' = [frame EXCEPT ![ch] = g]
           /\ g.pc = "lock" /\ g.rq = frame[ch].rq /\ g.agent = frame[ch].agent
           /\ g.obj = frame[ch].obj /\ g.objs = frame[ch].objs
  BY <1>1, <1>4, <1>8, GotoFrame
<1>10. Serves(g) /\ Has(g)
  BY <1>4, <1>9 DEF Serves, Has, Connecting, Passing, Publishing, Leaving, AtObject
<1>11. frame'[ch] = g /\ frame[ch].objs \in SUBSET (1..Len(objects))
       /\ \A p \in 1..Len(objects) : objects'[p].filter = objects[p].filter
  <2>1. objects \in Seq(ObjectUpTo(Len(store))) /\ frame'[ch] = g
        /\ frame[ch].objs \in SUBSET (1..Len(objects))
    BY <1>9, HandlerFacts DEF Core, TypesInv, TopicTypes, FrameTypes
  <2> QED
    BY <1>2, <1>4, <1>7, <2>1
<1>12. HoldsTopics(ch)' <=> topic_mutex = ch
  <2>1. topic_mutex = ch <=> HoldsTopics(ch)
    BY DEF Core, HoldersInv
  <2> QED
    BY <1>1, <1>4, <1>9, <1>11, <2>1 DEF HoldsTopics, AtWild
<1>13. ListedOf(ch)'
  <2>1. frame[ch].rq.op = "publish" => \A p \in frame[ch].objs : objects[p].filter \in Wild
    BY DEF Core, ListedInv
  <2> QED
    BY <1>4, <1>9, <1>11, <2>1 DEF ListedOf
<1>14. frame[ch].pc # "deliver" /\ g.pc # "deliver" /\ (g.pc # "idle" => g.agent.chan = ch)
       /\ objects[o].mutex # ch
  BY <1>1, <1>4, <1>9 DEF Core, HoldersInv
<1>15. ByIdentifier(t) /\ Reaches(g, t) /\ (t.mutex = ch <=> g.pc = "deliver")
  BY <1>5, <1>7, <1>9, <1>14 DEF ByIdentifier, Reaches
<1>16. frame[ch].pc = "deliver" => frame[ch].obj = o
  BY <1>1
<1> HIDE DEF o
<1> QED
  BY ONLY Core, <1>1, <1>2, <1>3, <1>4, <1>7, <1>9, <1>10, <1>12, <1>13, <1>14, <1>15, <1>16, ObjectStep

\* Where publish and publish_retained lead, with the same mutexes held.
LEMMA AfterPublished ==
  ASSUME Core, NEW ch \in Channels, frame[ch].pc \in {"lock", "deliver"}
  PROVE  /\ AfterPublish(ch) \in {"wild", "wild_next", "unsubscribe_all", "retained_of", "retained"}
         /\ AfterPublish(ch) \in Places /\ "deliver" \in Places
         /\ frame[ch].rq.op \in {"subscribe", "resume", "publish", "disconnected"}
         /\ frame[ch].rq.op = "publish" =>
              AfterPublish(ch) = IF AtWild(ch) THEN "wild_next" ELSE "wild"
         /\ frame[ch].rq.op = "disconnected" => AfterPublish(ch) = "unsubscribe_all"
         /\ frame[ch].rq.op \in {"subscribe", "resume"} =>
              AfterPublish(ch) = IF topic_mutex = ch THEN "retained_of" ELSE "retained"
         /\ topic_mutex = ch <=> frame[ch].rq.op # "disconnected" /\ AtWild(ch)
<1>1. frame[ch].rq.op \in {"subscribe", "resume", "publish", "disconnected"}
  BY HandlerFacts DEF Serves
<1>2. topic_mutex = ch <=> frame[ch].rq.op # "disconnected" /\ AtWild(ch)
  BY DEF Core, HoldersInv, HoldsTopics
<1>3. /\ frame[ch].rq.op = "publish" =>
           AfterPublish(ch) = IF AtWild(ch) THEN "wild_next" ELSE "wild"
      /\ frame[ch].rq.op = "disconnected" => AfterPublish(ch) = "unsubscribe_all"
      /\ frame[ch].rq.op \in {"subscribe", "resume"} =>
           AfterPublish(ch) = IF topic_mutex = ch THEN "retained_of" ELSE "retained"
  BY DEF AfterPublish, AtWild
<1>4. AfterPublish(ch) \in {"wild", "wild_next", "unsubscribe_all", "retained_of", "retained"}
  BY <1>1, <1>3
<1> QED
  BY <1>1, <1>2, <1>3, <1>4 DEF Places

LEMMA PublishedOn ==
  ASSUME Core, NEW ch \in Channels, frame[ch].pc \in {"lock", "deliver"},
         UNCHANGED <<map, topic_mutex>>,
         \A p \in 1..Len(objects) : objects'[p].filter = objects[p].filter,
         NEW g, frame'[ch] = g,
         g.rq = frame[ch].rq, g.agent = frame[ch].agent, g.todo = frame[ch].todo,
         g.obj = frame[ch].obj, g.objs = frame[ch].objs,
         \/ g.pc = AfterPublish(ch)
         \/ g.pc = "deliver" /\ g.to # {} /\ NULL \notin g.to
  PROVE  /\ Serves(g) /\ Has(g) /\ g.agent.chan = ch
         /\ HoldsTopics(ch)' <=> topic_mutex = ch
         /\ ListedOf(ch)'
<1>1. /\ AfterPublish(ch) \in {"wild", "wild_next", "unsubscribe_all", "retained_of", "retained"}
      /\ frame[ch].rq.op \in {"subscribe", "resume", "publish", "disconnected"}
      /\ frame[ch].rq.op = "publish" =>
           AfterPublish(ch) = IF AtWild(ch) THEN "wild_next" ELSE "wild"
      /\ frame[ch].rq.op = "disconnected" => AfterPublish(ch) = "unsubscribe_all"
      /\ frame[ch].rq.op \in {"subscribe", "resume"} =>
           AfterPublish(ch) = IF topic_mutex = ch THEN "retained_of" ELSE "retained"
      /\ topic_mutex = ch <=> frame[ch].rq.op # "disconnected" /\ AtWild(ch)
  BY AfterPublished
<1>2. /\ frame[ch].agent.chan = ch /\ frame[ch].agent # NULL /\ frame[ch].agent.sess # NULL
      /\ frame[ch].rq.op = "publish" => frame[ch].rq.topic \in Plain
      /\ frame[ch].obj \in 1..Len(objects) /\ frame[ch].obj # NULL
      /\ frame[ch].objs \in SUBSET (1..Len(objects))
  BY HandlerFacts DEF Has, Connecting, AtObject
<1>3. \/ g.pc \in {"wild", "wild_next"} /\ g.rq.op = "publish"
      \/ g.pc = "unsubscribe_all" /\ g.rq.op = "disconnected"
      \/ g.pc \in {"retained_of", "retained"} /\ g.rq.op \in {"subscribe", "resume"}
      \/ /\ g.pc = "deliver" /\ g.to # {} /\ NULL \notin g.to
         /\ g.rq.op \in {"subscribe", "resume", "publish", "disconnected"}
  BY <1>1
<1>4. Serves(g) /\ Has(g) /\ g.agent.chan = ch
  BY <1>2, <1>3 DEF Serves, Has, Connecting, Passing, Publishing, Leaving, AtObject
<1>5. AtWild(ch)' <=> AtWild(ch)
  BY <1>2 DEF AtWild
<1>6. HoldsTopics(ch)' <=> topic_mutex = ch
  BY <1>1, <1>3, <1>5 DEF HoldsTopics
<1>7. ListedOf(ch)'
  <2>1. ListedOf(ch) /\ (HoldsTopics(ch) <=> topic_mutex = ch)
    BY CoreParts DEF ChannelInv, HoldersOf
  <2>2. g.pc = "retained_of" => AtWild(ch)'
    BY <1>1, <1>3, <1>5
  <2>3. g.pc # "retained_wild"
    BY <1>3
  <2>4. g.rq.op = "publish" => \A p \in g.objs : objects'[p].filter \in Wild
    BY <1>2, <2>1 DEF ListedOf
  <2>5. HoldsTopics(ch)' /\ g.rq.op \in {"subscribe", "resume"} => \A f \in g.todo : map'[f] # NULL
    BY <1>6, <2>1 DEF ListedOf
  <2> QED
    BY <2>2, <2>3, <2>4, <2>5 DEF ListedOf
<1> QED
  BY <1>4, <1>6, <1>7

\* An object is replaced by one of the same filter.
LEMMA FiltersKept ==
  ASSUME Core, NEW o \in 1..Len(objects), NEW t, objects' = [objects EXCEPT ![o] = t],
         t.filter = objects[o].filter
  PROVE  \A p \in 1..Len(objects) : objects'[p].filter = objects[p].filter
<1>1. objects \in Seq(ObjectUpTo(Len(store)))
  BY DEF Core, TypesInv, TopicTypes
<1> QED
  BY <1>1

LEMMA LockCore ==
  ASSUME Core, NEW ch \in Channels, lock(ch)
  PROVE  Core'
<1> DEFINE o == frame[ch].obj
           entries == Entries(o)
           fr == [frame[ch] EXCEPT !.to = entries]
           holder == IF entries = {} THEN NULL ELSE ch
           t == [objects[o] EXCEPT !.mutex = holder]
           pc == IF entries = {} THEN AfterPublish(ch) ELSE "deliver"
<1>1. /\ frame[ch].pc = "lock" /\ Available(ch) /\ Goto(ch, fr, pc)
      /\ UNCHANGED <<outside, registries, store, map, topic_mutex>>
  BY DEF lock, At
<1>2. objects' = [objects EXCEPT ![o] = t]
  BY DEF lock
<1>3. OutsideTypes' /\ RegistryTypes' /\ ParamInv' /\ Len(store') = Len(store)
  BY <1>1, KeptTypes
<1>4. o \in 1..Len(objects) /\ objects[o].mutex = NULL
  BY <1>1, ObjectFree
<1>5. /\ frame[ch] \in FrameUpTo(Len(store), Len(objects))
      /\ Len(store) \in Nat /\ Len(objects) \in Nat
  BY HandlerFacts
<1>6. /\ objects[o] \in ObjectUpTo(Len(store))
      /\ objects[o].clients \in [ClientIds -> ClientUpTo(Len(store)) \cup {NULL}]
      /\ \A i \in ClientIds : objects[o].clients[i] # NULL => objects[o].clients[i].cid = i
  BY <1>4, ObjectAtHand
<1>7. /\ entries \in SUBSET ClientUpTo(Len(store)) /\ NULL \notin entries
      /\ \A c \in entries : objects[o].clients[c.cid] # NULL
  BY <1>6 DEF Entries
<1>8. fr \in FrameUpTo(Len(store), Len(objects)) /\ fr.to = entries /\ fr.rq = frame[ch].rq
      /\ fr.agent = frame[ch].agent /\ fr.todo = frame[ch].todo /\ fr.obj = frame[ch].obj
      /\ fr.objs = frame[ch].objs
  <2> HIDE DEF entries
  <2> QED
    BY <1>5, <1>7 DEF FrameUpTo
<1>9. /\ AfterPublish(ch) \in {"wild", "wild_next", "unsubscribe_all", "retained_of", "retained"}
      /\ AfterPublish(ch) \in Places /\ "deliver" \in Places
  BY <1>1, AfterPublished
<1>10. pc \in Places /\ (pc = "deliver" <=> entries # {}) /\ (pc # "deliver" => pc = AfterPublish(ch))
       /\ pc # "idle"
  BY <1>9
<1>11. holder \in Channels \cup {NULL} /\ (holder = ch <=> entries # {}) /\ holder \in {ch, NULL}
  BY NullAssumption
<1> HIDE DEF entries, fr, pc, holder
<1>12. /\ t \in ObjectUpTo(Len(store)) /\ t.filter = objects[o].filter /\ t.mutex = holder
       /\ t.clients = objects[o].clients
  BY <1>6, <1>11 DEF ObjectUpTo
<1> HIDE DEF t
<1>13. PICK g \in FrameUpTo(Len(store), Len(objects)) :
            /\ frame' = [frame EXCEPT ![ch] = g]
            /\ g.pc = pc /\ g.rq = fr.rq /\ g.agent = fr.agent /\ g.to = fr.to
            /\ g.todo = fr.todo /\ g.obj = fr.obj /\ g.objs = fr.objs
  BY <1>1, <1>5, <1>8, <1>10, GotoFrame
<1>14. frame'[ch] = g
  BY <1>13 DEF Core, TypesInv, FrameTypes
<1>15. \A p \in 1..Len(objects) : objects'[p].filter = objects[p].filter
  BY <1>2, <1>4, <1>12, FiltersKept
<1>16. /\ frame[ch].pc \in {"lock", "deliver"} /\ UNCHANGED <<map, topic_mutex>>
       /\ g.rq = frame[ch].rq /\ g.agent = frame[ch].agent /\ g.todo = frame[ch].todo
       /\ g.obj = frame[ch].obj /\ g.objs = frame[ch].objs
       /\ \/ g.pc = AfterPublish(ch)
          \/ g.pc = "deliver" /\ g.to # {} /\ NULL \notin g.to
  BY <1>1, <1>7, <1>8, <1>10, <1>13
<1>17. /\ Serves(g) /\ Has(g) /\ g.agent.chan = ch
       /\ HoldsTopics(ch)' <=> topic_mutex = ch
       /\ ListedOf(ch)'
  BY ONLY Core, ch \in Channels, <1>14, <1>15, <1>16, PublishedOn
<1>18. /\ ByIdentifier(t) /\ Reaches(g, t)
       /\ t.mutex = ch <=> g.pc = "deliver"
       /\ g.pc = "deliver" => g.obj = o
       /\ frame[ch].pc = "deliver" => frame[ch].obj = o
       /\ objects[o].mutex \notin {ch, NULL} =>
            t.mutex = objects[o].mutex /\ t.clients = objects[o].clients
       /\ objects[o].mutex \in {ch, NULL} => t.mutex \in {ch, NULL}
  BY <1>4, <1>6, <1>7, <1>8, <1>10, <1>11, <1>12, <1>13 DEF ByIdentifier, Reaches
<1> HIDE DEF o
<1> QED
  BY ONLY Core, <1>1, <1>2, <1>3, <1>4, <1>12, <1>13, <1>17, <1>18, ObjectStep

LEMMA DeliverCore ==
  ASSUME Core, NEW ch \in Channels, deliver(ch)
  PROVE  Core'
<1>1. PICK c \in frame[ch].to :
        LET rest == frame[ch].to \ {c} IN
        /\ HasFreeId(c.sess)
        /\ store' = [store EXCEPT ![c.sess].open = @ + 1]
        /\ unread' = [unread EXCEPT ![c.chan] = IF chan[c.chan] = "open" THEN @ + 1 ELSE @]
        /\ objects' = [objects EXCEPT ![frame[ch].obj].mutex = HolderWith(ch, rest)]
        /\ Goto(ch, [frame[ch] EXCEPT !.to = rest], IF rest = {} THEN AfterPublish(ch) ELSE "deliver")
  BY DEF deliver
<1> DEFINE o == frame[ch].obj
           s == c.sess
           rest == frame[ch].to \ {c}
           fr == [frame[ch] EXCEPT !.to = rest]
           new == [store[s] EXCEPT !.open = @ + 1]
           holder == HolderWith(ch, rest)
           t == [objects[o] EXCEPT !.mutex = holder]
           pc == IF rest = {} THEN AfterPublish(ch) ELSE "deliver"
<1>2. /\ frame[ch].pc = "deliver" /\ Goto(ch, fr, pc)
      /\ UNCHANGED <<script, chan, crashed, registries, map, topic_mutex>>
      /\ unread' = [unread EXCEPT ![c.chan] = IF chan[c.chan] = "open" THEN @ + 1 ELSE @]
  BY <1>1 DEF deliver, At
<1>3. objects' = [objects EXCEPT ![o] = t] /\ store' = [store EXCEPT ![s] = new]
  BY <1>1
<1>4. /\ frame[ch] \in FrameUpTo(Len(store), Len(objects))
      /\ Len(store) \in Nat /\ Len(objects) \in Nat
      /\ frame[ch].to \in SUBSET ClientUpTo(Len(store)) /\ NULL \notin frame[ch].to
      /\ o \in 1..Len(objects)
  BY <1>2, HandlerFacts DEF Has, AtObject
<1>5. s \in 1..Len(store) /\ c.chan \in Channels
  BY <1>4, KnownFields
<1>6. new \in SessionObject
  <2>1. store[s] \in SessionObject /\ store[s].open \in Nat
    BY <1>5, StoreFields
  <2>2. store[s].open < PacketIds
    BY <1>1 DEF HasFreeId
  <2> HIDE DEF s
  <2> QED
    BY <2>1, <2>2, BoundAssumption DEF SessionObject
<1>7. OutsideTypes'
  BY <1>2, <1>5, CoreParts DEF OutsideTypes, TypesInv
<1>8. RegistryTypes' /\ ParamInv' /\ Len(store') = Len(store)
  <2> HIDE DEF s, new
  <2> QED
    BY <1>2, <1>3, <1>5, <1>6, StoreStep
<1>9. objects[o].mutex = ch /\ \A p \in frame[ch].to : objects[o].clients[p.cid] # NULL
  BY <1>2, <1>4 DEF Core, HoldersInv, OnlySubscribersReceive
<1>10. /\ objects[o] \in ObjectUpTo(Len(store))
       /\ \A i \in ClientIds : objects[o].clients[i] # NULL => objects[o].clients[i].cid = i
  BY <1>4, ObjectAtHand
<1>11. rest \in SUBSET ClientUpTo(Len(store)) /\ NULL \notin rest
       /\ \A p \in rest : objects[o].clients[p.cid] # NULL
  BY <1>4, <1>9
<1>12. fr \in FrameUpTo(Len(store), Len(objects)) /\ fr.to = rest /\ fr.rq = frame[ch].rq
       /\ fr.agent = frame[ch].agent /\ fr.todo = frame[ch].todo /\ fr.obj = frame[ch].obj
       /\ fr.objs = frame[ch].objs
  <2> HIDE DEF rest
  <2> QED
    BY <1>4, <1>11 DEF FrameUpTo
<1>13. /\ AfterPublish(ch) \in {"wild", "wild_next", "unsubscribe_all", "retained_of", "retained"}
       /\ AfterPublish(ch) \in Places /\ "deliver" \in Places
  BY <1>2, AfterPublished
<1> HIDE DEF rest
<1>14. pc \in Places /\ (pc = "deliver" <=> rest # {}) /\ (pc # "deliver" => pc = AfterPublish(ch))
       /\ pc # "idle"
  BY <1>13
<1>15. holder \in Channels \cup {NULL} /\ (holder = ch <=> rest # {}) /\ holder \in {ch, NULL}
  BY NullAssumption DEF HolderWith
<1> HIDE DEF fr, pc, holder
<1>16. /\ t \in ObjectUpTo(Len(store)) /\ t.filter = objects[o].filter /\ t.mutex = holder
       /\ t.clients = objects[o].clients
  BY <1>10, <1>15 DEF ObjectUpTo
<1> HIDE DEF t
<1>17. PICK g \in FrameUpTo(Len(store), Len(objects)) :
            /\ frame' = [frame EXCEPT ![ch] = g]
            /\ g.pc = pc /\ g.rq = fr.rq /\ g.agent = fr.agent /\ g.to = fr.to
            /\ g.todo = fr.todo /\ g.obj = fr.obj /\ g.objs = fr.objs
  BY <1>2, <1>4, <1>12, <1>14, GotoFrame
<1>18. frame'[ch] = g
  BY <1>17 DEF Core, TypesInv, FrameTypes
<1>19. \A p \in 1..Len(objects) : objects'[p].filter = objects[p].filter
  BY <1>3, <1>4, <1>16, FiltersKept
<1>20. /\ frame[ch].pc \in {"lock", "deliver"} /\ UNCHANGED <<map, topic_mutex>>
       /\ g.rq = frame[ch].rq /\ g.agent = frame[ch].agent /\ g.todo = frame[ch].todo
       /\ g.obj = frame[ch].obj /\ g.objs = frame[ch].objs
       /\ \/ g.pc = AfterPublish(ch)
          \/ g.pc = "deliver" /\ g.to # {} /\ NULL \notin g.to
  BY <1>2, <1>11, <1>12, <1>14, <1>17
<1>21. /\ Serves(g) /\ Has(g) /\ g.agent.chan = ch
       /\ HoldsTopics(ch)' <=> topic_mutex = ch
       /\ ListedOf(ch)'
  BY ONLY Core, ch \in Channels, <1>18, <1>19, <1>20, PublishedOn
<1>22. /\ ByIdentifier(t) /\ Reaches(g, t)
       /\ t.mutex = ch <=> g.pc = "deliver"
       /\ g.pc = "deliver" => g.obj = o
       /\ frame[ch].pc = "deliver" => frame[ch].obj = o
       /\ objects[o].mutex \notin {ch, NULL} =>
            t.mutex = objects[o].mutex /\ t.clients = objects[o].clients
       /\ objects[o].mutex \in {ch, NULL} => t.mutex \in {ch, NULL}
  BY <1>9, <1>10, <1>11, <1>12, <1>14, <1>15, <1>16, <1>17 DEF ByIdentifier, Reaches
<1> HIDE DEF o
<1> QED
  BY ONLY Core, ch \in Channels, <1>2, <1>3, <1>4, <1>7, <1>8, <1>16, <1>17, <1>21, <1>22, ObjectStep

LEMMA SendRetainedCore ==
  ASSUME Core, NEW ch \in Channels, send_retained(ch)
  PROVE  Core'
<1> DEFINE o == frame[ch].obj
           t == [objects[o] EXCEPT !.mutex = ch]
<1>1. /\ frame[ch].pc \in {"send_retained", "send_null"} /\ Available(ch)
      /\ crashed' = NullUsed(frame[ch])
      /\ UNCHANGED <<script, unread, registries, store, map>>
  BY DEF send_retained, At
<1>2. OutsideTypes /\ RegistryTypes /\ ParamInv
  BY CoreParts DEF TypesInv
<1>3. RegistryTypes' /\ ParamInv' /\ Len(store') = Len(store)
  BY <1>1, <1>2 DEF RegistryTypes, ParamInv, registries
<1>4. crashed' \in {"no", "param", "message"}
  BY <1>1 DEF NullUsed
<1>5. o \in 1..Len(objects) /\ objects[o].mutex = NULL
  BY <1>1, ObjectFree
<1>6. /\ frame[ch] \in FrameUpTo(Len(store), Len(objects)) /\ frame[ch].agent.chan = ch
      /\ frame[ch].agent # NULL /\ frame[ch].agent.sess # NULL
      /\ frame[ch].rq.op \in {"subscribe", "resume"} /\ Len(store) \in Nat /\ Len(objects) \in Nat
      /\ frame[ch].obj # NULL /\ \E c \in frame[ch].to : frame[ch].to = {c}
  BY <1>1, HandlerFacts DEF Serves, Has, Connecting, Passing, AtObject
<1>7. CASE UNCHANGED <<chan, topic_mutex, objects, frame>>
  <2>1. OutsideTypes'
    BY <1>1, <1>2, <1>4, <1>7 DEF OutsideTypes
  <2>2. UNCHANGED <<topics, topic_mutex, store, frame>>
    BY <1>1, <1>7 DEF topics
  <2> QED
    BY <1>3, <2>1, <2>2, StillStep
<1>8. CASE /\ Found(frame[ch]) # {}
           /\ objects' = [objects EXCEPT ![frame[ch].obj].mutex = ch]
           /\ Goto(ch, frame[ch], "deliver")
           /\ UNCHANGED <<chan, topic_mutex>>
  <2>1. OutsideTypes'
    BY <1>1, <1>2, <1>4, <1>8 DEF OutsideTypes
  <2>2. objects' = [objects EXCEPT ![o] = t]
    BY <1>8
  <2>3. /\ objects[o] \in ObjectUpTo(Len(store))
        /\ \A i \in ClientIds : objects[o].clients[i] # NULL => objects[o].clients[i].cid = i
    BY <1>5, ObjectAtHand
  <2>4. /\ t \in ObjectUpTo(Len(store)) /\ t.filter = objects[o].filter /\ t.mutex = ch
        /\ t.clients = objects[o].clients
    BY <2>3 DEF ObjectUpTo
  <2>5. PICK c \in frame[ch].to : c # NULL /\ objects[o].clients[c.cid] # NULL
    BY <1>8 DEF Found
  <2>6. frame[ch].to = {c}
    BY <1>6, <2>5
  <2>7. "deliver" \in Places
    BY DEF Places
  <2>8. PICK g \in FrameUpTo(Len(store), Len(objects)) :
             /\ frame' = [frame EXCEPT ![ch] = g]
             /\ g.pc = "deliver" /\ g.rq = frame[ch].rq /\ g.agent = frame[ch].agent
             /\ g.to = frame[ch].to /\ g.todo = frame[ch].todo /\ g.obj = frame[ch].obj
    BY <1>6, <1>8, <2>7, GotoFrame
  <2>9. Serves(g) /\ Has(g)
    BY <1>6, <2>5, <2>6, <2>8 DEF Serves, Has, Connecting, Passing, Publishing, Leaving, AtObject
  <2>10. frame'[ch] = g
    BY <2>8 DEF Core, TypesInv, FrameTypes
  <2> HIDE DEF t
  <2>11. \A p \in 1..Len(objects) : objects'[p].filter = objects[p].filter
    BY <1>5, <2>2, <2>4, FiltersKept
  <2>12. HoldsTopics(ch)' <=> HoldsTopics(ch)
    BY <1>1, <1>5, <1>6, <2>8, <2>10, <2>11 DEF HoldsTopics, AtWild
  <2>13. HoldsTopics(ch)' <=> topic_mutex = ch
    BY <2>12 DEF Core, HoldersInv
  <2>14. ListedOf(ch)'
    <3>1. ListedOf(ch) /\ map' = map
      BY <1>1, CoreParts DEF ChannelInv
    <3> QED
      BY <1>6, <2>8, <2>10, <2>12, <3>1 DEF ListedOf
  <2>15. /\ ByIdentifier(t) /\ Reaches(g, t) /\ (t.mutex = ch <=> g.pc = "deliver")
         /\ (g.pc = "deliver" => g.obj = o) /\ (frame[ch].pc = "deliver" => frame[ch].obj = o)
         /\ (g.pc # "idle" => g.agent.chan = ch) /\ UNCHANGED <<map, topic_mutex>>
    BY <1>1, <1>6, <1>8, <2>3, <2>4, <2>5, <2>6, <2>8 DEF ByIdentifier, Reaches
  <2> HIDE DEF o
  <2> QED
    BY ONLY Core, ch \in Channels, <1>3, <1>5, <2>1, <2>2, <2>4, <2>8, <2>9, <2>13, <2>14, <2>15,
            ObjectStep
<1>9. CASE Close({ch}) /\ ReleaseTopics(ch) /\ Return(ch) /\ UNCHANGED objects
  <2>1. OutsideTypes'
    BY <1>1, <1>2, <1>4, <1>9, CloseTypes DEF OutsideTypes
  <2>2. UNCHANGED <<registries, store, topics>> /\ frame[ch].pc # "deliver"
    BY <1>1, <1>9 DEF topics
  <2>3. CASE topic_mutex \in {ch, NULL}
    <3>1. topic_mutex' = NULL
      BY <1>9, <2>3, NullAssumption DEF ReleaseTopics
    <3> QED
      BY <1>9, <2>1, <2>2, <2>3, <3>1, ReleaseAndReturn
  <2>4. CASE topic_mutex \notin {ch, NULL}
    <3>1. UNCHANGED <<topics, topic_mutex>> /\ Len(store) <= Len(store')
      BY <1>6, <1>9, <2>2, <2>4 DEF ReleaseTopics
    <3>2. Idle \in FrameUpTo(Len(store'), Len(objects)) /\ Serves(Idle) /\ Has(Idle)
          /\ Idle.pc = "idle" /\ Idle.rq.op = "idle"
      BY <1>3, <1>6, IdleFrame
    <3>3. frame' = [frame EXCEPT ![ch] = Idle] /\ frame'[ch] = Idle
      BY <1>9 DEF Return, Core, TypesInv, FrameTypes
    <3> HIDE DEF Idle
    <3>4. ~HoldsTopics(ch)' /\ ~HoldsTopics(ch)
      BY <2>4, <3>2, <3>3 DEF HoldsTopics, Core, HoldersInv
    <3>5. ListedOf(ch)'
      BY <3>2, <3>3, <3>4 DEF ListedOf
    <3>6. Idle.pc # "deliver" /\ (Idle.pc # "idle" => Idle.agent.chan = ch)
      BY <3>2
    <3> QED
      BY <1>3, <2>1, <2>2, <3>1, <3>2, <3>3, <3>4, <3>5, <3>6, QuietStep
  <2> QED
    BY <2>3, <2>4
<1> QED
  BY <1>7, <1>8, <1>9 DEF send_retained

\* The object of a filter that has none is appended.
LEMMA NewTopic ==
  ASSUME NEW n \in Nat, NEW f \in Filters
  PROVE  /\ topic(f) \in ObjectUpTo(n) /\ topic(f).filter = f /\ topic(f).mutex = NULL
         /\ \A i \in ClientIds : topic(f).clients[i] = NULL
BY DEF topic, ObjectUpTo

LEMMA ToSubscribeCore ==
  ASSUME Core, NEW ch \in Channels, get_topic_ptr_to_subscribe(ch)
  PROVE  Core'
<1>1. /\ frame[ch].pc = "to_subscribe" /\ Available(ch)
      /\ UNCHANGED <<outside, registries, store, topic_mutex>>
  BY DEF get_topic_ptr_to_subscribe, At
<1>2. PICK f \in frame[ch].todo :
        LET o == IF map[f] = NULL THEN Len(objects) + 1 ELSE map[f] IN
        /\ objects' = IF map[f] = NULL THEN Append(objects, topic(f)) ELSE objects
        /\ map' = [map EXCEPT ![f] = o]
        /\ Goto(ch, [frame[ch] EXCEPT !.obj = o, !.objs = @ \cup {o}, !.todo = @ \ {f}],
                "subscribe")
  BY DEF get_topic_ptr_to_subscribe
<1> DEFINE o == IF map[f] = NULL THEN Len(objects) + 1 ELSE map[f]
           n == Len(store)
           m == Len(objects)
           k == Len(objects')
           fr == [frame[ch] EXCEPT !.obj = o, !.objs = @ \cup {o}, !.todo = @ \ {f}]
<1>3. TypesInv /\ ParamInv /\ ObjectsInv /\ ChannelInv(ch)
  BY CoreParts
<1>4. /\ OutsideTypes' /\ RegistryTypes' /\ ParamInv' /\ Len(store') = Len(store)
      /\ topic_mutex = NULL
  BY <1>1, KeptTypes, TopicFree
<1>5. /\ frame[ch] \in FrameUpTo(n, m) /\ frame[ch].agent.chan = ch
      /\ frame[ch].agent # NULL /\ frame[ch].agent.sess # NULL
      /\ frame[ch].rq.op \in {"subscribe", "resume"} /\ n \in Nat /\ m \in Nat /\ f \in Filters
  BY <1>1, HandlerFacts DEF Serves, Has, Connecting
<1>6. map[f] \in 1..m \cup {NULL} /\ objects \in Seq(ObjectUpTo(n)) /\ map \in [Filters -> 1..m \cup {NULL}]
  BY <1>3, <1>5 DEF TypesInv, TopicTypes
<1>7. topic(f) \in ObjectUpTo(n) /\ topic(f).filter = f /\ topic(f).mutex = NULL
      /\ \A i \in ClientIds : topic(f).clients[i] = NULL
  BY <1>5, NewTopic
<1>8. /\ objects' \in Seq(ObjectUpTo(n)) /\ k \in Nat /\ m <= k /\ o \in 1..k /\ o # NULL
      /\ \A p \in 1..m : objects'[p] = objects[p]
      /\ \A p \in 1..k \ 1..m : objects'[p] = topic(f)
      /\ objects'[o].filter = f
  <2>1. CASE map[f] = NULL
    <3>1. objects' = Append(objects, topic(f)) /\ o = m + 1
      BY <1>2, <2>1
    <3> HIDE DEF o
    <3>2. o \in Nat /\ o # NULL
      BY <1>5, <3>1, NullAssumption
    <3> QED
      BY <1>5, <1>6, <1>7, <3>1, <3>2
  <2>2. CASE map[f] # NULL
    <3>1. objects' = objects /\ o = map[f]
      BY <1>2, <2>2
    <3> HIDE DEF o
    <3> QED
      BY <1>3, <1>5, <1>6, <2>2, <3>1 DEF ObjectsInv
  <2> QED
    BY <2>1, <2>2
<1>9. map' = [map EXCEPT ![f] = o] /\ Goto(ch, fr, "subscribe")
  BY <1>2
<1> HIDE DEF o
<1>10. frame \in [Channels -> FrameUpTo(n, k)] /\ frame[ch] \in FrameUpTo(n, k)
  <2>1. FrameUpTo(n, m) \subseteq FrameUpTo(n, k)
    BY <1>5, <1>8, Larger
  <2> QED
    BY <1>3, <1>5, <2>1 DEF TypesInv, FrameTypes
<1>11. fr \in FrameUpTo(n, k) /\ fr.rq = frame[ch].rq /\ fr.agent = frame[ch].agent /\ fr.obj = o
  BY <1>8, <1>10 DEF FrameUpTo
<1> HIDE DEF fr
<1>12. "subscribe" \in Places
  BY DEF Places
<1>13. PICK g \in FrameUpTo(n, k) :
            /\ frame' = [frame EXCEPT ![ch] = g]
            /\ g.pc = "subscribe" /\ g.rq = fr.rq /\ g.agent = fr.agent /\ g.obj = fr.obj
  BY <1>5, <1>8, <1>9, <1>11, <1>12, GotoFrame
<1>14. Serves(g) /\ Has(g)
  BY <1>5, <1>8, <1>11, <1>13 DEF Serves, Has, Connecting, Passing, Publishing, Leaving, AtObject
<1>15. frame' \in [Channels -> FrameUpTo(n, k)] /\ frame'[ch] = g
       /\ \A x \in Channels \ {ch} : frame'[x] = frame[x]
  BY <1>10, <1>13
<1>16. TypesInv'
  <2>1. map' \in [Filters -> 1..k \cup {NULL}]
    BY <1>5, <1>6, <1>8, <1>9
  <2> QED
    BY <1>1, <1>3, <1>4, <1>8, <1>15, <2>1 DEF TypesInv, TopicTypes, FrameTypes
<1>17. TopicsKept(ch)
  BY <1>1, <1>4, <1>5, <1>7, <1>8 DEF TopicsKept
<1>18. ObjectsInv'
  <2>1. \A x \in Filters : map'[x] # NULL => objects'[map'[x]].filter = x
    <3> SUFFICES ASSUME NEW x \in Filters, map'[x] # NULL
                 PROVE  objects'[map'[x]].filter = x
      OBVIOUS
    <3>1. CASE x = f
      BY <1>5, <1>6, <1>8, <1>9, <3>1
    <3>2. CASE x # f
      <4>1. map'[x] = map[x]
        BY <1>5, <1>6, <1>9, <3>2
      <4> QED
        BY <1>3, <1>6, <1>8, <4>1 DEF ObjectsInv
    <3> QED
      BY <3>1, <3>2
  <2>2. \A p \in 1..k, i \in ClientIds :
          objects'[p].clients[i] # NULL => objects'[p].clients[i].cid = i
    BY <1>3, <1>7, <1>8 DEF ObjectsInv
  <2> QED
    BY <2>1, <2>2 DEF ObjectsInv
<1>19. ChannelInv(ch)'
  <2>1. FrameInv(ch)'
    BY <1>5, <1>11, <1>13, <1>14, <1>15 DEF FrameInv, Busy
  <2>2. ~HoldsTopics(ch)' /\ topic_mutex' # ch
    BY <1>1, <1>4, <1>13, <1>15, NullAssumption DEF HoldsTopics
  <2>3. \A p \in 1..k : objects'[p].mutex # ch
    BY <1>1, <1>3, <1>7, <1>8, NullAssumption DEF ChannelInv, HoldersOf
  <2>4. HoldersOf(ch)'
    BY <1>13, <1>15, <2>2, <2>3 DEF HoldersOf
  <2>5. ListedOf(ch)' /\ Receives(ch)'
    BY <1>5, <1>11, <1>13, <1>15, <2>2 DEF ListedOf, Receives
  <2> QED
    BY <2>1, <2>4, <2>5 DEF ChannelInv
<1> QED
  BY <1>4, <1>15, <1>16, <1>17, <1>18, <1>19, CoreStep

-----------------------------------------------------------------------------
(* Every step *)

LEMMA ContinueCore ==
  ASSUME Core, NEW ch \in Channels, Continue(ch)
  PROVE  Core'
<1>1. CASE get_client(ch) \/ delete_client(ch) \/ take_over(ch) \/ close_old(ch)
  BY <1>1, GetClientCore, DeleteClientCore, TakeOverCore, CloseOldCore
<1>2. CASE session(ch) \/ new_session(ch) \/ reg_client(ch) \/ set_param(ch)
  BY <1>2, SessionCore, NewSessionCore, RegClientCore, SetParamCore
<1>3. CASE restore(ch) \/ resend(ch) \/ get_topic_ptr_to_subscribe(ch) \/ subscribe(ch)
           \/ add_subscription(ch)
  BY <1>3, RestoreCore, ResendCore, ToSubscribeCore, SubscribeCore, AddSubscriptionCore
<1>4. CASE retained(ch) \/ retained_wild(ch) \/ retained_of(ch) \/ read_retained(ch)
           \/ send_retained(ch)
  BY <1>4, RetainedCore, RetainedWildCore, RetainedOfCore, ReadRetainedCore, SendRetainedCore
<1>5. CASE store_retained(ch) \/ lock(ch) \/ deliver(ch) \/ puback(ch)
  BY <1>5, StoreRetainedCore, LockCore, DeliverCore, PubackCore
<1>6. CASE publish(ch) \/ wild(ch) \/ wild_next(ch) \/ will(ch) \/ will_id(ch)
  BY <1>6, PublishCore, WildCore, WildNextCore, WillCore, WillIdCore
<1>7. CASE unsubscribe_all(ch) \/ lookup(ch) \/ unsubscribe(ch) \/ delete_subscription(ch)
  BY <1>7, UnsubscribeAllCore, LookupCore, UnsubscribeCore, DeleteSubscriptionCore
<1>8. CASE empty(ch) \/ erase(ch) \/ delete_session(ch) \/ deregister(ch)
  BY <1>8, EmptyCore, EraseCore, DeleteSessionCore, DeregisterCore
<1> QED
  BY <1>1, <1>2, <1>3, <1>4, <1>5, <1>6, <1>7, <1>8 DEF Continue

LEMMA NextCore == Core /\ Next => Core'
<1> SUFFICES ASSUME Core, Next
             PROVE  Core'
  OBVIOUS
<1>1. PICK ch \in Channels :
        \/ channel_read(ch) \/ handle_connect(ch) \/ handle_puback(ch)
        \/ handle_channel_disconnected(ch) \/ ConnectionLost(ch)
        \/ Continue(ch)
  BY DEF Next
<1> QED
  BY <1>1, ReadCore, ConnectCore, PubackBeginsCore, DisconnectedCore, LostCore, ContinueCore

-----------------------------------------------------------------------------
(* The history variables *)

\* What they are made of.
Known ==
  /\ Overlapping \subseteq ClientIds
  /\ \A ch \in Channels : Subscribers(frame[ch].rq.topic) \subseteq ClientUpTo(Len(store))

LEMMA HistoryTypes == Core => Known
<1> SUFFICES ASSUME Core
             PROVE  Known
  OBVIOUS
<1>1. \A ch \in Channels : RunsFor(ch) \subseteq ClientIds
  BY HandlerFacts DEF RunsFor, Busy
<1>2. Overlapping \subseteq ClientIds
  BY <1>1 DEF Overlapping
<1>3. \A ch \in Channels : param[ch] # NULL => param[ch] \in ClientUpTo(Len(store))
  BY DEF Core, TypesInv, RegistryTypes
<1>4. \A ch \in Channels : Subscribers(frame[ch].rq.topic) \subseteq ClientUpTo(Len(store))
  BY <1>3 DEF Subscribers, Settled
<1> QED
  BY <1>2, <1>4 DEF Known

LEMMA HistoryTypesNext == Core' => Known'
BY HistoryTypes, PTL

LEMMA HistoryStep == Core /\ Core' /\ HistoryInv /\ History => HistoryInv'
<1> SUFFICES ASSUME Core, Core', HistoryInv, History
             PROVE  HistoryInv'
  OBVIOUS
<1>1. contended' \subseteq ClientIds
  BY HistoryTypesNext DEF HistoryInv, History, Known
<1>2. Losing \subseteq Filters
  <2>1. ASSUME NEW ch \in Channels, frame[ch].pc \in {"subscribe", "erase"}
        PROVE  objects[frame[ch].obj].filter \in Filters
    <3>1. frame[ch].obj \in 1..Len(objects)
      BY <2>1, HandlerFacts DEF Has, AtObject
    <3> QED
      BY <3>1, ObjectAtHand
  <2> QED
    BY <2>1 DEF Losing
<1>3. raced' \subseteq Filters
  BY <1>2 DEF HistoryInv, History
<1>4. due' \in [Channels -> SUBSET ClientUpTo(Len(store'))]
  BY HistoryTypesNext DEF History, Known
<1> QED
  BY <1>1, <1>3, <1>4 DEF HistoryInv

-----------------------------------------------------------------------------
(* Theorems *)

\* The inductive invariant holds at first, is kept by every step, and so always holds.
LEMMA InitIInv == Init => IInv
<1> SUFFICES ASSUME Init
             PROVE  IInv
  OBVIOUS
<1>1. HistoryInv
  BY DEF Init, HistoryInv
<1> QED
  BY <1>1, InitCore DEF IInv

LEMMA NextIInv == IInv /\ [Next]_vars => IInv'
<1>1. IInv /\ Next => IInv'
  BY NextCore, HistoryStep DEF IInv, Next
<1>2. IInv /\ UNCHANGED vars => IInv'
  <2> SUFFICES ASSUME IInv, UNCHANGED vars
               PROVE  IInv'
    OBVIOUS
  <2>1. /\ UNCHANGED <<script, chan, unread, crashed, param, clients, sessions, store, map, objects>>
        /\ UNCHANGED <<topic_mutex, frame, contended, raced, due>>
    BY DEF vars, program, history, outside, registries, topics
  <2>2. Core'
    <3>1. OutsideTypes' /\ RegistryTypes' /\ ParamInv'
      BY <2>1, CoreParts DEF IInv, TypesInv, OutsideTypes, RegistryTypes, ParamInv
    <3>2. UNCHANGED <<topics, topic_mutex, store, frame>>
      BY <2>1 DEF topics
    <3> QED
      BY <3>1, <3>2, StillStep DEF IInv
  <2> QED
    BY <2>1, <2>2 DEF IInv, HistoryInv
<1> QED
  BY <1>1, <1>2

THEOREM Invariance == Spec => []IInv
BY InitIInv, NextIInv, PTL DEF Spec

\* Whatever the threads do, every variable keeps its type: in particular the handlers
\* have at hand only objects that have been allocated, and no session has more than
\* PacketIds open exchanges.
THEOREM TypeCorrect == Spec => []TypeOK
<1>1. IInv => TypeOK
  <2> SUFFICES ASSUME IInv
               PROVE  TypeOK
    OBVIOUS
  <2> DEFINE n == Len(store)
             m == Len(objects)
  <2>1. TypesInv /\ HistoryInv
    BY DEF IInv, Core
  <2>2. store \in Seq(SessionObject) /\ DOMAIN store = 1..n /\ n \in Nat
        /\ objects \in Seq(ObjectUpTo(n)) /\ DOMAIN objects = 1..m /\ m \in Nat
    BY <2>1 DEF TypesInv, RegistryTypes, TopicTypes
  <2>3. Client = AgentUpTo(n) /\ ClientUpTo(n) \subseteq Client
    BY <2>2, KnownFields DEF Client, AgentUpTo
  <2>4. \A s \in DOMAIN store : store[s] \in [subs : SUBSET Filters, open : 0..PacketIds]
    <3>1. \A s \in DOMAIN store : store[s] \in SessionObject
      BY <2>2
    <3> QED
      BY <3>1 DEF SessionObject
  <2>5. \A o \in DOMAIN objects :
          objects[o] \in [filter : Filters, clients : [ClientIds -> Client \cup {NULL}],
                          retained : BOOLEAN, mutex : Channels \cup {NULL}]
    <3> SUFFICES ASSUME NEW o \in 1..m
                 PROVE  objects[o] \in [filter : Filters, clients : [ClientIds -> Client \cup {NULL}],
                                        retained : BOOLEAN, mutex : Channels \cup {NULL}]
      BY <2>2
    <3>1. objects[o] \in ObjectUpTo(n)
      BY <2>2
    <3>2. objects[o].clients \in [ClientIds -> Client \cup {NULL}]
      BY <2>3, <3>1 DEF ObjectUpTo
    <3> QED
      BY <3>1, <3>2 DEF ObjectUpTo
  <2>6. \A ch \in Channels : frame[ch] \in Frame
    <3> SUFFICES ASSUME NEW ch \in Channels
                 PROVE  frame[ch] \in Frame
      OBVIOUS
    <3>1. frame[ch] \in FrameUpTo(n, m)
      BY <2>1 DEF TypesInv, FrameTypes
    <3>2. frame[ch].agent \in Client \cup {NULL} /\ frame[ch].to \in SUBSET (Client \cup {NULL})
      BY <2>3, <3>1 DEF FrameUpTo
    <3> QED
      BY <2>2, <3>1, <3>2 DEF FrameUpTo, Frame, Requests
  <2>7. /\ param \in [Channels -> Client \cup {NULL}]
        /\ clients \in [ClientIds -> Client \cup {NULL}]
        /\ sessions \in [ClientIds -> DOMAIN store \cup {NULL}]
        /\ map \in [Filters -> DOMAIN objects \cup {NULL}]
    BY <2>1, <2>2, <2>3 DEF TypesInv, RegistryTypes, TopicTypes
  <2>8. \A ch \in Channels : due[ch] \subseteq Client
    BY <2>1, <2>3 DEF HistoryInv
  <2> QED
    BY <2>1, <2>4, <2>5, <2>6, <2>7, <2>8
       DEF TypeOK, TypesInv, OutsideTypes, TopicTypes, HistoryInv
<1> QED
  BY Invariance, <1>1, PTL

\* The mutexes are taken in one order (mqtt_server.cpp:129-134, 170-182 and 338-343):
\* who has one does not wait for _topic_mutex, and who has a topic object's waits for
\* none.
LEMMA OrderFromHolders == IInv => MutexOrder
<1> SUFFICES ASSUME IInv, NEW ch \in Channels
             PROVE  /\ Holds(ch) # {} => TopicMutex \notin Wants(ch)
                    /\ Holds(ch) \ {TopicMutex} # {} => Wants(ch) = {}
  BY DEF MutexOrder
<1>1. Core /\ (topic_mutex = ch <=> HoldsTopics(ch))
  BY DEF IInv, Core, HoldersInv
<1>2. frame[ch].pc \in AtObject => frame[ch].obj # TopicMutex
  BY <1>1, HandlerFacts DEF Has, TopicMutex
<1>3. ASSUME Holds(ch) \ {TopicMutex} # {}
      PROVE  Wants(ch) = {}
  <2>1. PICK o \in 1..Len(objects) : objects[o].mutex = ch
    BY <1>1, <1>3, HandlerFacts DEF Holds, Holder, TopicMutex
  <2>2. frame[ch].pc = "deliver"
    BY <1>1, <2>1 DEF Core, HoldersInv
  <2> QED
    BY <2>2 DEF Wants
<1>4. ASSUME topic_mutex = ch
      PROVE  TopicMutex \notin Wants(ch)
  BY <1>1, <1>2, <1>4 DEF HoldsTopics, Wants, AtObject
<1>5. Holds(ch) # {} => TopicMutex \notin Wants(ch)
  BY <1>3, <1>4 DEF Holds, Holder
<1> QED
  BY <1>3, <1>5

THEOREM OneOrder == Spec => []MutexOrder
BY Invariance, OrderFromHolders, PTL

\* So a chain of waiting handlers has at most two links: the handler at its end waits
\* for no mutex, and nobody is ever in a circle of handlers that wait for each other.
WaitsFor(x, y) == \E m \in Wants(x) : m \in Holds(y)

THEOREM NoCircle ==
  Spec => [](\A x, y, z \in Channels : WaitsFor(x, y) /\ WaitsFor(y, z) => Wants(z) = {})
<1>1. MutexOrder => \A x, y, z \in Channels : WaitsFor(x, y) /\ WaitsFor(y, z) => Wants(z) = {}
  BY DEF MutexOrder, WaitsFor
<1> QED
  BY <1>1, OneOrder, PTL

\* No handler leaves a mutex behind when it returns.
THEOREM NothingLeftLocked == Spec => [](\A ch \in Channels : ~Busy(ch) => Holds(ch) = {})
<1>1. IInv => \A ch \in Channels : ~Busy(ch) => Holds(ch) = {}
  <2> SUFFICES ASSUME IInv, NEW ch \in Channels, frame[ch].pc = "idle"
               PROVE  Holds(ch) = {}
    BY DEF Busy
  <2>1. Core /\ topic_mutex # ch
    BY DEF IInv, Core, HoldersInv, HoldsTopics
  <2>2. \A o \in 1..Len(objects) : objects[o].mutex # ch
    BY <2>1 DEF Core, HoldersInv
  <2> QED
    BY <2>1, <2>2, HandlerFacts DEF Holds, Holder, TopicMutex
<1> QED
  BY <1>1, Invariance, PTL

\* Whoever topic::publish and topic::publish_retained (topic.cpp:41-53 and 58-65) still
\* have to reach is in the topic at that moment.
THEOREM SubscribersOnly == Spec => []OnlySubscribersReceive
<1>1. IInv => OnlySubscribersReceive
  BY DEF IInv, Core
<1> QED
  BY <1>1, Invariance, PTL

-----------------------------------------------------------------------------
(* Clients kept apart.  For an identifier that never had two handlers at a *)
(* time, the client of a channel is the registered one, or the handler of  *)
(* the identifier is about to take it away.                                *)

Nobody(i) == \A x \in Channels : param[x] # NULL => param[x].cid # i

Registering == {"close_old", "session", "new_session", "reg_client"}

\* What the handler of an identifier knows where it is, if it is the only one.
Knows(fr) ==
  LET i == fr.agent.cid IN
  /\ fr.pc = "delete_client" => clients[i] # NULL /\ fr.to = {clients[i]}
  /\ fr.pc = "take_over" =>
       clients[i] = NULL /\ \E c \in fr.to : fr.to = {c} /\ c # NULL /\ c.cid = i
  /\ fr.pc \in Registering => clients[i] = NULL /\ Nobody(i)
  /\ fr.pc = "set_param" => clients[i] = fr.agent /\ Nobody(i)
  /\ fr.rq.op \in Leaving => Nobody(i)

\* The client of channel x is registered, or a handler has it before it to take over.
TakenOver(c) ==
  \E h \in Channels : /\ frame[h].pc = "take_over"
                      /\ frame[h].agent.cid = c.cid
                      /\ frame[h].to = {c}
Accounted(x) ==
  param[x] # NULL /\ param[x].cid \notin contended
  => clients[param[x].cid] = param[x] \/ TakenOver(param[x])

AloneInv ==
  /\ Overlapping \subseteq contended
  /\ \A i \in ClientIds : clients[i] # NULL => clients[i].cid = i
  /\ \A x \in Channels : Accounted(x)
  /\ \A ch \in Channels : Busy(ch) /\ frame[ch].agent.cid \notin contended => Knows(frame[ch])

\* While no identifier ever had two handlers at a time: the clients that are registered,
\* or about to be taken over, and what a channel knows of those that are its own.
Registered ==
  ({clients[i] : i \in ClientIds} \cup UNION {frame[h].to : h \in {x \in Channels : frame[x].pc = "take_over"}}) \ {NULL}

Owns(ch, c) ==
  \/ param[ch] = c
  \/ frame[ch].agent = c /\ (frame[ch].rq.op \in Leaving \/ frame[ch].pc = "set_param")

OwnedWhileOpen(ch) ==
  chan[ch] = "open" => \A c \in Registered : c.chan = ch => Owns(ch, c)
NotClosedYet(ch) == frame[ch].rq.op \in {"connect", "resume"} => chan[ch] # "closed"
NoClientYet(ch) ==
  frame[ch].pc \in Connecting \cup {"reg_client", "set_param"} /\ chan[ch] = "open" => param[ch] = NULL
SubscribesForOwn(ch) ==
  frame[ch].rq.op = "subscribe" =>
    param[ch] = frame[ch].agent /\ \A c \in Registered : c.chan = ch => c = frame[ch].agent
ResumesForOwn(ch) ==
  frame[ch].rq.op = "resume" /\ frame[ch].pc \notin {"reg_client", "set_param"} =>
    param[ch] = frame[ch].agent \/ chan[ch] = "closing"
SendsToOwn(ch) ==
  frame[ch].pc \in {"send_retained", "send_null"} /\ frame[ch].to = {NULL} =>
    frame[ch].rq.op = "resume" /\ chan[ch] = "closing"
ChannelApart(ch) ==
  /\ OwnedWhileOpen(ch) /\ NotClosedYet(ch) /\ NoClientYet(ch)
  /\ SubscribesForOwn(ch) /\ ResumesForOwn(ch) /\ SendsToOwn(ch)

ApartInv == contended = {} => \A ch \in Channels : ChannelApart(ch)

CrashInv ==
  crashed = "param" =>
    \/ contended # {}
    \/ \E ch \in Channels : /\ frame[ch].rq.op = "resume" /\ chan[ch] = "closing"
                            /\ frame[ch].to = {NULL}

-----------------------------------------------------------------------------
(* Steps of handlers, as far as the other channels' clients are concerned  *)

Others(ch) == \A x \in Channels \ {ch} : frame'[x] = frame[x]

\* Two handlers of an identifier.
OverlapFacts ==
  \A x, y \in Channels :
    /\ x # y /\ Busy(x) /\ Busy(y) /\ frame[x].agent.cid = frame[y].agent.cid
    => frame[x].agent.cid \in Overlapping

LEMMA Overlaps == OverlapFacts
BY DEF OverlapFacts, Overlapping, RunsFor

LEMMA OverlapsNext == OverlapFacts'
BY Overlaps, PTL

\* The places where a handler neither changes whose client is whose, nor has a client
\* before it that may be gone.
Ordinary ==
  {"restore", "to_subscribe", "subscribe", "add_subscription", "resend", "retained",
   "retained_wild", "retained_of", "read_retained", "publish", "wild", "wild_next", "store",
   "lock", "deliver", "will", "will_id", "unsubscribe_all", "lookup", "unsubscribe",
   "delete_subscription", "empty", "erase", "delete_session", "deregister", "puback"}

\* The handler goes on at such a place, or returns.
Stays(ch) ==
  /\ Others(ch)
  /\ \/ frame'[ch] = Idle /\ frame[ch].rq.op \notin Leaving
     \/ /\ frame'[ch].pc \in Ordinary
        /\ frame'[ch].agent = frame[ch].agent
        /\ frame'[ch].rq = frame[ch].rq
Quiet(ch) ==
  /\ UNCHANGED <<param, clients, chan, crashed>>
  /\ frame[ch].pc \in Ordinary \cup {"send_retained", "send_null"}
  /\ Stays(ch)

\* A frame that is changed in other fields.
SameWork(fr, g) == {"pc", "rq", "agent"} \subseteq DOMAIN g /\ g.rq = fr.rq /\ g.agent = fr.agent

LEMMA FrameEdits ==
  ASSUME NEW n, NEW m, NEW fr \in FrameUpTo(n, m), NEW to, NEW todo, NEW obj, NEW source, NEW objs
  PROVE  /\ SameWork(fr, fr)
         /\ SameWork(fr, [fr EXCEPT !.to = to])
         /\ SameWork(fr, [fr EXCEPT !.todo = todo])
         /\ SameWork(fr, [fr EXCEPT !.obj = obj])
         /\ SameWork(fr, [fr EXCEPT !.todo = todo, !.obj = obj])
         /\ SameWork(fr, [fr EXCEPT !.todo = todo, !.source = source])
         /\ SameWork(fr, [fr EXCEPT !.obj = obj, !.objs = objs, !.todo = todo])
         /\ SameWork(fr, [fr EXCEPT !.obj = obj, !.source = source, !.objs = objs])
         /\ SameWork(fr, [fr EXCEPT !.objs = objs])
         /\ SameWork(fr, [[fr EXCEPT !.objs = objs] EXCEPT !.obj = obj])
<1>1. /\ DOMAIN fr = {"pc", "rq", "agent", "to", "todo", "obj", "source", "objs"}
      /\ fr = [x \in DOMAIN fr |-> fr[x]]
  BY DEF FrameUpTo
<1>2. ASSUME NEW g, DOMAIN g = DOMAIN fr, g.rq = fr.rq, g.agent = fr.agent
      PROVE  SameWork(fr, g)
  BY <1>1, <1>2 DEF SameWork
<1>3. SameWork(fr, fr)
  BY <1>2
<1>4. SameWork(fr, [fr EXCEPT !.to = to])
  BY <1>1, <1>2
<1>5. SameWork(fr, [fr EXCEPT !.todo = todo])
  BY <1>1, <1>2
<1>6. SameWork(fr, [fr EXCEPT !.obj = obj])
  BY <1>1, <1>2
<1>7. SameWork(fr, [fr EXCEPT !.todo = todo, !.obj = obj])
  <2> DEFINE g == [fr EXCEPT !.todo = todo, !.obj = obj]
  <2>1. DOMAIN g = DOMAIN fr /\ g.rq = fr.rq /\ g.agent = fr.agent
    BY <1>1
  <2> HIDE DEF g
  <2>2. SameWork(fr, g)
    BY <1>2, <2>1
  <2> QED
    BY <2>2 DEF g
<1>8. SameWork(fr, [fr EXCEPT !.todo = todo, !.source = source])
  BY <1>1, <1>2
<1>9. SameWork(fr, [fr EXCEPT !.obj = obj, !.objs = objs, !.todo = todo])
  BY <1>1, <1>2
<1>10. SameWork(fr, [fr EXCEPT !.obj = obj, !.source = source, !.objs = objs])
  BY <1>1, <1>2
<1>11. SameWork(fr, [fr EXCEPT !.objs = objs])
  BY <1>1, <1>2
<1>12. SameWork(fr, [[fr EXCEPT !.objs = objs] EXCEPT !.obj = obj])
  BY <1>1, <1>2
<1> QED
  BY <1>3, <1>4, <1>5, <1>6, <1>7, <1>8, <1>9, <1>10, <1>11, <1>12

\* Where Goto leads.
LEMMA GotoWork ==
  ASSUME Core, NEW ch \in Channels, NEW fr, SameWork(frame[ch], fr), NEW pc, Goto(ch, fr, pc)
  PROVE  /\ Others(ch)
         /\ frame'[ch].pc = pc /\ frame'[ch].agent = frame[ch].agent /\ frame'[ch].rq = frame[ch].rq
<1>1. ch \in DOMAIN frame
  BY DEF Core, TypesInv, FrameTypes
<1>2. frame' = [frame EXCEPT ![ch] = [fr EXCEPT !.pc = pc]]
  BY DEF Goto
<1>3. frame'[ch] = [fr EXCEPT !.pc = pc] /\ Others(ch)
  BY <1>1, <1>2 DEF Others, Core, TypesInv, FrameTypes
<1> QED
  BY <1>3 DEF SameWork

LEMMA GotoStays ==
  ASSUME Core, NEW ch \in Channels, NEW fr, SameWork(frame[ch], fr), NEW pc \in Ordinary,
         Goto(ch, fr, pc)
  PROVE  Stays(ch)
BY GotoWork DEF Stays

LEMMA ReturnStays ==
  ASSUME Core, NEW ch \in Channels, Return(ch)
  PROVE  Others(ch) /\ frame'[ch] = Idle /\ (frame[ch].rq.op \notin Leaving => Stays(ch))
BY DEF Return, Stays, Others, Core, TypesInv, FrameTypes

\* The frame of a handler, changed.
LEMMA Edits ==
  ASSUME Core, NEW ch \in Channels, NEW to, NEW todo, NEW obj, NEW source, NEW objs
  PROVE  /\ SameWork(frame[ch], frame[ch])
         /\ SameWork(frame[ch], [frame[ch] EXCEPT !.to = to])
         /\ SameWork(frame[ch], [frame[ch] EXCEPT !.todo = todo])
         /\ SameWork(frame[ch], [frame[ch] EXCEPT !.obj = obj])
         /\ SameWork(frame[ch], [frame[ch] EXCEPT !.todo = todo, !.obj = obj])
         /\ SameWork(frame[ch], [frame[ch] EXCEPT !.todo = todo, !.source = source])
         /\ SameWork(frame[ch], [frame[ch] EXCEPT !.obj = obj, !.objs = objs, !.todo = todo])
         /\ SameWork(frame[ch], [frame[ch] EXCEPT !.obj = obj, !.source = source, !.objs = objs])
         /\ SameWork(frame[ch], [frame[ch] EXCEPT !.objs = objs])
         /\ SameWork(frame[ch], [[frame[ch] EXCEPT !.objs = objs] EXCEPT !.obj = obj])
<1>1. frame[ch] \in FrameUpTo(Len(store), Len(objects))
  BY HandlerFacts
<1> QED
  BY <1>1, FrameEdits

\* The steps after which a handler is at such a place.
LEMMA RestoreQuiet ==
  ASSUME Core, NEW ch \in Channels, restore(ch) \/ resend(ch) \/ subscribe(ch) \/ add_subscription(ch)
  PROVE  Quiet(ch)
<1>1. \A fr : NextToSubscribe(fr) \in Ordinary
  BY DEF NextToSubscribe, Ordinary
<1>2. CASE restore(ch)
  <2> DEFINE fr == [frame[ch] EXCEPT !.todo = store[frame[ch].agent.sess].subs]
  <2>1. Goto(ch, fr, NextToSubscribe(fr)) /\ frame[ch].pc = "restore"
        /\ UNCHANGED <<param, clients, chan, crashed>>
    BY <1>2 DEF restore, At, outside, registries
  <2>2. SameWork(frame[ch], fr)
    BY Edits
  <2> HIDE DEF fr
  <2>3. Stays(ch)
    BY <1>1, <2>1, <2>2, GotoStays
  <2> QED
    BY <2>1, <2>3 DEF Quiet, Ordinary
<1>3. CASE resend(ch)
  <2>1. Goto(ch, frame[ch], "retained") /\ frame[ch].pc = "resend"
        /\ UNCHANGED <<param, clients, chan, crashed>>
    BY <1>3 DEF resend, Step, At, registries
  <2>2. SameWork(frame[ch], frame[ch]) /\ "retained" \in Ordinary
    BY Edits DEF Ordinary
  <2>3. Stays(ch)
    BY <2>1, <2>2, GotoStays
  <2> QED
    BY <2>1, <2>3 DEF Quiet, Ordinary
<1>4. CASE subscribe(ch)
  <2> DEFINE pc == IF frame[ch].rq.op = "subscribe" THEN "add_subscription" ELSE NextToSubscribe(frame[ch])
  <2>1. Goto(ch, frame[ch], pc) /\ frame[ch].pc = "subscribe"
        /\ UNCHANGED <<param, clients, chan, crashed>>
    BY <1>4 DEF subscribe, Step, At, registries, outside
  <2>2. SameWork(frame[ch], frame[ch]) /\ pc \in Ordinary
    BY <1>1, Edits DEF Ordinary
  <2> HIDE DEF pc
  <2>3. Stays(ch)
    BY <2>1, <2>2, GotoStays
  <2> QED
    BY <2>1, <2>3 DEF Quiet, Ordinary
<1>5. CASE add_subscription(ch)
  <2>1. Goto(ch, frame[ch], NextToSubscribe(frame[ch])) /\ frame[ch].pc = "add_subscription"
        /\ UNCHANGED <<param, clients, chan, crashed>>
    BY <1>5 DEF add_subscription, Step, At, registries, outside
  <2>2. SameWork(frame[ch], frame[ch])
    BY Edits
  <2>3. Stays(ch)
    BY <1>1, <2>1, <2>2, GotoStays
  <2> QED
    BY <2>1, <2>3 DEF Quiet, Ordinary
<1> QED
  BY <1>2, <1>3, <1>4, <1>5

LEMMA ToSubscribeQuiet ==
  ASSUME Core, NEW ch \in Channels, get_topic_ptr_to_subscribe(ch)
  PROVE  Quiet(ch)
<1>1. frame[ch].pc = "to_subscribe" /\ UNCHANGED <<param, clients, chan, crashed>>
  BY DEF get_topic_ptr_to_subscribe, At, registries, outside
<1>2. PICK o, f :
        Goto(ch, [frame[ch] EXCEPT !.obj = o, !.objs = @ \cup {o}, !.todo = @ \ {f}], "subscribe")
  BY DEF get_topic_ptr_to_subscribe
<1>3. SameWork(frame[ch], [frame[ch] EXCEPT !.obj = o, !.objs = @ \cup {o}, !.todo = @ \ {f}])
  BY Edits
<1>4. Stays(ch)
  BY <1>2, <1>3, GotoStays DEF Ordinary
<1> QED
  BY <1>1, <1>4 DEF Quiet, Ordinary

LEMMA RetainedQuiet ==
  ASSUME Core, NEW ch \in Channels, retained(ch) \/ retained_wild(ch) \/ retained_of(ch)
  PROVE  Quiet(ch)
<1>1. /\ frame[ch].pc \in {"retained", "retained_wild", "retained_of"}
      /\ UNCHANGED <<param, clients, chan, crashed>>
  BY DEF retained, retained_wild, retained_of, At, registries, outside
<1>2. CASE retained(ch)
  <2>1. CASE Return(ch)
    <3>1. frame[ch].rq.op \notin Leaving
      BY <1>1, HandlerFacts DEF Serves, Passing, Leaving
    <3> QED
      BY <1>1, <2>1, <3>1, ReturnStays DEF Quiet, Ordinary
  <2>2. CASE ~Return(ch)
    <3>1. PICK o, pc :
            /\ Goto(ch, [frame[ch] EXCEPT !.obj = o, !.source = o, !.objs = @ \ {o}], pc)
            /\ pc = CASE objects[o].filter \in Wild -> "retained_wild"
                      [] objects[o].filter \in Plain /\ objects[o].retained -> "read_retained"
                      [] OTHER -> "retained"
      BY <1>2, <2>2 DEF retained
    <3>2. pc \in Ordinary
      BY <3>1, FilterAssumption DEF Ordinary
    <3>3. SameWork(frame[ch], [frame[ch] EXCEPT !.obj = o, !.source = o, !.objs = @ \ {o}])
      BY Edits
    <3>4. Stays(ch)
      BY <3>1, <3>2, <3>3, GotoStays
    <3> QED
      BY <1>1, <3>4 DEF Quiet, Ordinary
  <2> QED
    BY <2>1, <2>2
<1>3. CASE retained_wild(ch)
  <2>1. PICK matched : Goto(ch, [frame[ch] EXCEPT !.todo = matched], "retained_of")
    BY <1>3 DEF retained_wild
  <2>2. SameWork(frame[ch], [frame[ch] EXCEPT !.todo = matched]) /\ "retained_of" \in Ordinary
    BY Edits DEF Ordinary
  <2>3. Stays(ch)
    BY <2>1, <2>2, GotoStays
  <2> QED
    BY <1>1, <2>3 DEF Quiet, Ordinary
<1>4. CASE retained_of(ch)
  <2>1. CASE Goto(ch, frame[ch], "retained")
    <3>1. Stays(ch)
      BY <2>1, Edits, GotoStays DEF Ordinary
    <3> QED
      BY <1>1, <3>1 DEF Quiet, Ordinary
  <2>2. CASE ~Goto(ch, frame[ch], "retained")
    <3>1. PICK n, source, pc :
            /\ Goto(ch, [frame[ch] EXCEPT !.todo = @ \ {n}, !.source = source], pc)
            /\ pc \in {"read_retained", "retained_of"}
      BY <1>4, <2>2 DEF retained_of
    <3>2. SameWork(frame[ch], [frame[ch] EXCEPT !.todo = @ \ {n}, !.source = source])
      BY Edits
    <3>3. Stays(ch)
      BY <3>1, <3>2, GotoStays DEF Ordinary
    <3> QED
      BY <1>1, <3>3 DEF Quiet, Ordinary
  <2> QED
    BY <2>1, <2>2
<1> QED
  BY <1>2, <1>3, <1>4

LEMMA AfterPublishOrdinary ==
  ASSUME NEW ch
  PROVE  AfterPublish(ch) \in Ordinary
<1>1. CASE frame[ch].rq.op = "publish"
  BY <1>1 DEF AfterPublish, Ordinary
<1>2. CASE frame[ch].rq.op = "disconnected"
  BY <1>2 DEF AfterPublish, Ordinary
<1>3. CASE frame[ch].rq.op \notin {"publish", "disconnected"}
  BY <1>3 DEF AfterPublish, Ordinary
<1> QED
  BY <1>1, <1>2, <1>3

LEMMA PublishOnStays ==
  ASSUME Core, NEW ch \in Channels, NEW o,
         \/ PublishOn(ch, frame[ch], o)
         \/ \E objs : PublishOn(ch, [frame[ch] EXCEPT !.objs = objs], o)
  PROVE  Stays(ch)
<1>1. CASE PublishOn(ch, frame[ch], o)
  <2>1. PICK pc : Goto(ch, [frame[ch] EXCEPT !.obj = o], pc) /\ pc \in Ordinary
    BY <1>1 DEF PublishOn, Ordinary
  <2> QED
    BY <2>1, Edits, GotoStays
<1>2. ASSUME NEW objs, PublishOn(ch, [frame[ch] EXCEPT !.objs = objs], o)
      PROVE  Stays(ch)
  <2>1. PICK pc : Goto(ch, [[frame[ch] EXCEPT !.objs = objs] EXCEPT !.obj = o], pc) /\ pc \in Ordinary
    BY <1>2 DEF PublishOn, Ordinary
  <2> QED
    BY <2>1, Edits, GotoStays
<1> QED
  BY <1>1, <1>2

LEMMA PublishQuiet ==
  ASSUME Core, NEW ch \in Channels,
         publish(ch) \/ wild(ch) \/ wild_next(ch) \/ will(ch) \/ will_id(ch) \/ puback(ch)
  PROVE  Quiet(ch)
<1>1. /\ frame[ch].pc \in {"publish", "wild", "wild_next", "will", "will_id", "puback"}
      /\ UNCHANGED <<param, clients, chan, crashed>>
  BY DEF publish, wild, wild_next, will, will_id, puback, At, registries, outside
<1>2. Stays(ch)
  <2>1. CASE publish(ch)
    <3>1. CASE Goto(ch, frame[ch], "wild")
      BY <3>1, Edits, GotoStays DEF Ordinary
    <3>2. CASE ~Goto(ch, frame[ch], "wild")
      <4>1. \E o : PublishOn(ch, frame[ch], o)
        BY <2>1, <3>2 DEF publish
      <4> QED
        BY <4>1, PublishOnStays
    <3> QED
      BY <3>1, <3>2
  <2>2. CASE wild(ch)
    <3>1. PICK objs : Goto(ch, [frame[ch] EXCEPT !.objs = objs], "wild_next")
      BY <2>2 DEF wild
    <3> QED
      BY <3>1, Edits, GotoStays DEF Ordinary
  <2>3. CASE wild_next(ch)
    <3>1. Return(ch) \/ \E o, objs : PublishOn(ch, [frame[ch] EXCEPT !.objs = objs], o)
      BY <2>3 DEF wild_next
    <3>2. frame[ch].rq.op \notin Leaving
      BY <2>3, HandlerFacts DEF wild_next, At, Serves, Publishing, Leaving
    <3> QED
      BY <3>1, <3>2, ReturnStays, PublishOnStays
  <2>4. CASE will(ch)
    <3>1. PICK o, pc : Goto(ch, [frame[ch] EXCEPT !.obj = o], pc) /\ pc \in {"unsubscribe_all", "will_id"}
      BY <2>4 DEF will
    <3> QED
      BY <3>1, Edits, GotoStays DEF Ordinary
  <2>5. CASE will_id(ch)
    <3>1. \E o : PublishOn(ch, frame[ch], o)
      BY <2>5 DEF will_id
    <3> QED
      BY <3>1, PublishOnStays
  <2>6. CASE puback(ch)
    <3>1. frame[ch].rq.op \notin Leaving
      BY <2>6, HandlerFacts DEF puback, At, Serves, Leaving
    <3> QED
      BY <2>6, <3>1, ReturnStays DEF puback
  <2> QED
    BY <2>1, <2>2, <2>3, <2>4, <2>5, <2>6
<1> QED
  BY <1>1, <1>2 DEF Quiet, Ordinary

LEMMA DeliverQuiet ==
  ASSUME Core, NEW ch \in Channels, store_retained(ch) \/ lock(ch) \/ deliver(ch)
  PROVE  Quiet(ch)
<1>1. /\ frame[ch].pc \in {"store", "lock", "deliver"}
      /\ UNCHANGED <<param, clients, chan, crashed>>
  BY DEF store_retained, lock, deliver, Step, At, registries, outside
<1>2. Stays(ch)
  <2>1. CASE store_retained(ch)
    <3>1. Goto(ch, frame[ch], "lock")
      BY <2>1 DEF store_retained, Step
    <3> QED
      BY <3>1, Edits, GotoStays DEF Ordinary
  <2>2. CASE lock(ch)
    <3>1. PICK to, pc : Goto(ch, [frame[ch] EXCEPT !.to = to], pc) /\ pc \in {AfterPublish(ch), "deliver"}
      BY <2>2 DEF lock
    <3>2. pc \in Ordinary
      BY <3>1, AfterPublishOrdinary DEF Ordinary
    <3> QED
      BY <3>1, <3>2, Edits, GotoStays
  <2>3. CASE deliver(ch)
    <3>1. PICK to, pc : Goto(ch, [frame[ch] EXCEPT !.to = to], pc) /\ pc \in {AfterPublish(ch), "deliver"}
      BY <2>3 DEF deliver
    <3>2. pc \in Ordinary
      BY <3>1, AfterPublishOrdinary DEF Ordinary
    <3> QED
      BY <3>1, <3>2, Edits, GotoStays
  <2> QED
    BY <2>1, <2>2, <2>3
<1> QED
  BY <1>1, <1>2 DEF Quiet, Ordinary

LEMMA NextToUnsubscribeStays ==
  ASSUME Core, NEW ch \in Channels, NEW fr, SameWork(frame[ch], fr), NextToUnsubscribe(ch, fr)
  PROVE  Stays(ch)
<1>1. \/ Return(ch) /\ frame[ch].rq.op \notin Leaving
      \/ \E pc \in {"lookup", "delete_session", "deregister"} : Goto(ch, fr, pc)
  BY DEF NextToUnsubscribe, SameWork, Leaving
<1> QED
  BY <1>1, ReturnStays, GotoStays DEF Ordinary

LEMMA UnsubscribeQuiet ==
  ASSUME Core, NEW ch \in Channels,
         \/ unsubscribe_all(ch) \/ lookup(ch) \/ unsubscribe(ch) \/ delete_subscription(ch)
         \/ empty(ch) \/ erase(ch) \/ delete_session(ch)
  PROVE  Quiet(ch)
<1>1. /\ frame[ch].pc \in {"unsubscribe_all", "lookup", "unsubscribe", "delete_subscription",
                           "empty", "erase", "delete_session"}
      /\ UNCHANGED <<param, clients, chan, crashed>>
  BY DEF unsubscribe_all, lookup, unsubscribe, delete_subscription, empty, erase, delete_session,
         Step, At, registries, outside
<1>2. Stays(ch)
  <2>1. CASE unsubscribe_all(ch)
    <3>1. PICK todo : NextToUnsubscribe(ch, [frame[ch] EXCEPT !.todo = todo])
      BY <2>1 DEF unsubscribe_all
    <3> QED
      BY <3>1, Edits, NextToUnsubscribeStays
  <2>2. CASE lookup(ch)
    <3>1. PICK f, o : \/ NextToUnsubscribe(ch, [frame[ch] EXCEPT !.todo = @ \ {f}, !.obj = o])
                      \/ Goto(ch, [frame[ch] EXCEPT !.todo = @ \ {f}, !.obj = o], "unsubscribe")
      BY <2>2 DEF lookup
    <3>2. SameWork(frame[ch], [frame[ch] EXCEPT !.todo = @ \ {f}, !.obj = o])
      BY Edits
    <3> QED
      BY <3>1, <3>2, GotoStays, NextToUnsubscribeStays DEF Ordinary
  <2>3. CASE unsubscribe(ch) \/ delete_subscription(ch) \/ delete_session(ch)
    <3>1. \E pc \in {"delete_subscription", "empty", "deregister"} : Goto(ch, frame[ch], pc)
      BY <2>3 DEF unsubscribe, delete_subscription, delete_session, Step
    <3> QED
      BY <3>1, Edits, GotoStays DEF Ordinary
  <2>4. CASE empty(ch) \/ erase(ch)
    <3>1. Goto(ch, frame[ch], "erase") \/ NextToUnsubscribe(ch, frame[ch])
      BY <2>4 DEF empty, erase
    <3> QED
      BY <3>1, Edits, GotoStays, NextToUnsubscribeStays DEF Ordinary
  <2> QED
    BY <2>1, <2>2, <2>3, <2>4
<1> QED
  BY <1>1, <1>2 DEF Quiet, Ordinary

-----------------------------------------------------------------------------
(* Steps of handlers that change whose client is whose                     *)

LEMMA GotoTo ==
  ASSUME Core, NEW ch \in Channels, NEW pc
  PROVE  /\ Goto(ch, frame[ch], pc) => frame'[ch].to = frame[ch].to
         /\ \A to : Goto(ch, [frame[ch] EXCEPT !.to = to], pc) => frame'[ch].to = to
<1>1. /\ DOMAIN frame[ch] = {"pc", "rq", "agent", "to", "todo", "obj", "source", "objs"}
      /\ ch \in DOMAIN frame
  <2>1. frame[ch] \in FrameUpTo(Len(store), Len(objects))
    BY HandlerFacts
  <2> QED
    BY <2>1 DEF FrameUpTo, Core, TypesInv, FrameTypes
<1>2. ASSUME Goto(ch, frame[ch], pc)
      PROVE  frame'[ch].to = frame[ch].to
  BY <1>1, <1>2 DEF Goto
<1>3. ASSUME NEW to, Goto(ch, [frame[ch] EXCEPT !.to = to], pc)
      PROVE  frame'[ch].to = to
  BY <1>1, <1>3 DEF Goto
<1> QED
  BY <1>2, <1>3

LEMMA GetClientMoves ==
  ASSUME Core, NEW ch \in Channels, get_client(ch)
  PROVE  /\ frame[ch].pc = "get_client" /\ UNCHANGED <<param, clients, chan, crashed>>
         /\ Others(ch) /\ frame'[ch].agent = frame[ch].agent /\ frame'[ch].rq = frame[ch].rq
         /\ \/ clients[frame[ch].agent.cid] = NULL /\ frame'[ch].pc = "session"
            \/ /\ clients[frame[ch].agent.cid] # NULL
               /\ frame'[ch].pc = "delete_client"
               /\ frame'[ch].to = {clients[frame[ch].agent.cid]}
<1> DEFINE old == clients[frame[ch].agent.cid]
<1>1. frame[ch].pc = "get_client" /\ UNCHANGED <<param, clients, chan, crashed>>
  BY DEF get_client, At, registries, outside
<1>2. CASE old = NULL
  <2>1. Goto(ch, frame[ch], "session")
    BY <1>2 DEF get_client
  <2> QED
    BY <1>1, <1>2, <2>1, Edits, GotoWork
<1>3. CASE old # NULL
  <2>1. Goto(ch, [frame[ch] EXCEPT !.to = {old}], "delete_client")
    BY <1>3 DEF get_client
  <2>2. SameWork(frame[ch], [frame[ch] EXCEPT !.to = {old}])
    BY Edits
  <2>3. frame'[ch].to = {old}
    BY <2>1, GotoTo
  <2> QED
    BY <1>1, <1>3, <2>1, <2>2, <2>3, GotoWork
<1> QED
  BY <1>2, <1>3

LEMMA DeleteClientMoves ==
  ASSUME Core, NEW ch \in Channels, delete_client(ch)
  PROVE  /\ frame[ch].pc = "delete_client" /\ UNCHANGED <<param, chan, crashed>>
         /\ clients' = [clients EXCEPT ![frame[ch].agent.cid] = NULL]
         /\ Others(ch) /\ frame'[ch].agent = frame[ch].agent /\ frame'[ch].rq = frame[ch].rq
         /\ frame'[ch].pc = "take_over" /\ frame'[ch].to = frame[ch].to
<1>1. /\ frame[ch].pc = "delete_client" /\ Goto(ch, frame[ch], "take_over")
      /\ clients' = [clients EXCEPT ![frame[ch].agent.cid] = NULL]
      /\ UNCHANGED <<param, chan, crashed>>
  BY DEF delete_client, Step, At, Without, outside
<1> QED
  BY <1>1, Edits, GotoWork, GotoTo

LEMMA TakeOverMoves ==
  ASSUME Core, NEW ch \in Channels, take_over(ch)
  PROVE  /\ frame[ch].pc = "take_over" /\ UNCHANGED <<clients, chan, crashed>>
         /\ \A x \in Channels :
              param'[x] = IF \E c \in frame[ch].to : c.chan = x THEN NULL ELSE param[x]
         /\ Others(ch) /\ frame'[ch].agent = frame[ch].agent /\ frame'[ch].rq = frame[ch].rq
         /\ frame'[ch].pc = "close_old"
<1>1. /\ frame[ch].pc = "take_over" /\ Goto(ch, frame[ch], "close_old")
      /\ param' = [x \in Channels |-> IF x \in Displaced(frame[ch]) THEN NULL ELSE param[x]]
      /\ UNCHANGED <<clients, chan, crashed>>
  BY DEF take_over, Step, At, outside
<1>2. \A x \in Channels : x \in Displaced(frame[ch]) <=> \E c \in frame[ch].to : c.chan = x
  BY DEF Displaced
<1> QED
  BY <1>1, <1>2, Edits, GotoWork

LEMMA CloseOldMoves ==
  ASSUME Core, NEW ch \in Channels, close_old(ch)
  PROVE  /\ frame[ch].pc = "close_old" /\ UNCHANGED <<param, clients, crashed>>
         /\ Close({c.chan : c \in frame[ch].to})
         /\ Others(ch) /\ frame'[ch].agent = frame[ch].agent /\ frame'[ch].rq = frame[ch].rq
         /\ frame'[ch].pc = "session"
<1>1. /\ frame[ch].pc = "close_old" /\ Goto(ch, [frame[ch] EXCEPT !.to = {}], "session")
      /\ UNCHANGED <<param, clients, crashed>> /\ Close({c.chan : c \in frame[ch].to})
  BY DEF close_old, At, registries
<1>2. SameWork(frame[ch], [frame[ch] EXCEPT !.to = {}])
  BY Edits
<1> QED
  BY <1>1, <1>2, GotoWork

LEMMA SessionMoves ==
  ASSUME Core, NEW ch \in Channels, session(ch) \/ new_session(ch)
  PROVE  /\ frame[ch].pc \in {"session", "new_session"}
         /\ UNCHANGED <<param, clients, chan, crashed>>
         /\ Others(ch) /\ frame'[ch].agent.cid = frame[ch].agent.cid
         /\ frame'[ch].rq.op \in {"connect", "resume"}
         /\ frame'[ch].pc \in {"new_session", "reg_client"}
<1>1. /\ frame[ch].pc \in {"session", "new_session"}
      /\ UNCHANGED <<param, clients, chan, crashed>>
  BY DEF session, new_session, At, registries, outside
<1>2. /\ frame[ch].rq.op = "connect"
      /\ frame[ch].agent # NULL /\ frame[ch].agent \in AgentUpTo(Len(store))
      /\ DOMAIN frame[ch] = {"pc", "rq", "agent", "to", "todo", "obj", "source", "objs"}
      /\ frame \in [Channels -> FrameUpTo(Len(store), Len(objects))]
  <2>1. frame \in [Channels -> FrameUpTo(Len(store), Len(objects))]
    BY DEF Core, TypesInv, FrameTypes
  <2>2. DOMAIN frame[ch] = {"pc", "rq", "agent", "to", "todo", "obj", "source", "objs"}
    BY <2>1 DEF FrameUpTo
  <2>3. frame[ch].rq.op = "connect" /\ frame[ch].agent # NULL /\ frame[ch].agent \in AgentUpTo(Len(store))
    BY <1>1, HandlerFacts DEF Serves, Has, Connecting
  <2> QED
    BY <2>1, <2>2, <2>3
<1>3. DOMAIN frame[ch].agent = {"chan", "cid", "clean", "will", "sess"}
  BY <1>2 DEF AgentUpTo
<1>4. ASSUME NEW s
      PROVE  [frame[ch].agent EXCEPT !.sess = s].cid = frame[ch].agent.cid
  BY <1>3
<1>5. CASE frame' = [frame EXCEPT ![ch] = [frame[ch] EXCEPT !.pc = "new_session"]]
  <2>1. Others(ch) /\ frame'[ch] = [frame[ch] EXCEPT !.pc = "new_session"]
    BY <1>2, <1>5 DEF Others
  <2> QED
    BY <1>1, <1>2, <2>1
<1>6. ASSUME NEW s, frame' = [frame EXCEPT ![ch] = [[frame[ch] EXCEPT !.agent.sess = s, !.rq = [op |-> "resume"]]
                                                   EXCEPT !.pc = "reg_client"]]
      PROVE  /\ Others(ch) /\ frame'[ch].agent.cid = frame[ch].agent.cid
             /\ frame'[ch].rq.op \in {"connect", "resume"}
             /\ frame'[ch].pc \in {"new_session", "reg_client"}
  <2>1. /\ Others(ch)
        /\ frame'[ch] = [[frame[ch] EXCEPT !.agent.sess = s, !.rq = [op |-> "resume"]] EXCEPT !.pc = "reg_client"]
    BY <1>2, <1>6 DEF Others
  <2>2. frame'[ch].agent = [frame[ch].agent EXCEPT !.sess = s] /\ frame'[ch].rq = [op |-> "resume"]
        /\ frame'[ch].pc = "reg_client"
    BY <1>2, <2>1
  <2>3. frame'[ch].agent.cid = frame[ch].agent.cid
    BY <1>4, <2>2
  <2>4. frame'[ch].rq.op = "resume"
    BY ONLY <2>2
  <2> QED
    BY ONLY <2>1, <2>2, <2>3, <2>4
<1>7. ASSUME NEW s, frame' = [frame EXCEPT ![ch] = [[frame[ch] EXCEPT !.agent.sess = s] EXCEPT !.pc = "reg_client"]]
      PROVE  /\ Others(ch) /\ frame'[ch].agent.cid = frame[ch].agent.cid
             /\ frame'[ch].rq.op \in {"connect", "resume"}
             /\ frame'[ch].pc \in {"new_session", "reg_client"}
  <2>1. /\ Others(ch)
        /\ frame'[ch] = [[frame[ch] EXCEPT !.agent.sess = s] EXCEPT !.pc = "reg_client"]
    BY <1>2, <1>7 DEF Others
  <2>2. frame'[ch].agent = [frame[ch].agent EXCEPT !.sess = s] /\ frame'[ch].rq = frame[ch].rq
        /\ frame'[ch].pc = "reg_client"
    BY <1>2, <2>1
  <2>3. frame'[ch].agent.cid = frame[ch].agent.cid
    BY <1>4, <2>2
  <2>4. frame'[ch].rq.op = "connect"
    BY ONLY <1>2, <2>2
  <2> QED
    BY ONLY <2>1, <2>2, <2>3, <2>4
<1>8. \/ frame' = [frame EXCEPT ![ch] = [frame[ch] EXCEPT !.pc = "new_session"]]
      \/ \E s : frame' = [frame EXCEPT ![ch] = [[frame[ch] EXCEPT !.agent.sess = s, !.rq = [op |-> "resume"]]
                                                EXCEPT !.pc = "reg_client"]]
      \/ \E s : frame' = [frame EXCEPT ![ch] = [[frame[ch] EXCEPT !.agent.sess = s] EXCEPT !.pc = "reg_client"]]
  BY DEF session, new_session, Goto
<1> QED
  BY <1>1, <1>5, <1>6, <1>7, <1>8

LEMMA RegClientMoves ==
  ASSUME Core, NEW ch \in Channels, reg_client(ch)
  PROVE  /\ frame[ch].pc = "reg_client" /\ UNCHANGED <<param, chan, crashed>>
         /\ clients' = [clients EXCEPT ![frame[ch].agent.cid] = IF @ = NULL THEN frame[ch].agent ELSE @]
         /\ Others(ch) /\ frame'[ch].agent = frame[ch].agent /\ frame'[ch].rq = frame[ch].rq
         /\ frame'[ch].pc = "set_param"
<1>1. /\ frame[ch].pc = "reg_client" /\ Goto(ch, frame[ch], "set_param")
      /\ clients' = [clients EXCEPT ![frame[ch].agent.cid] = IF @ = NULL THEN frame[ch].agent ELSE @]
      /\ UNCHANGED <<param, chan, crashed>>
  BY DEF reg_client, Step, At, outside
<1> QED
  BY <1>1, Edits, GotoWork

LEMMA SetParamMoves ==
  ASSUME Core, NEW ch \in Channels, set_param(ch)
  PROVE  /\ frame[ch].pc = "set_param" /\ UNCHANGED <<clients, chan, crashed>>
         /\ param'[ch] = frame[ch].agent
         /\ \A x \in Channels \ {ch} : param'[x] = param[x]
         /\ Others(ch)
         /\ \/ frame'[ch] = Idle
            \/ /\ frame'[ch].agent = frame[ch].agent /\ frame'[ch].rq = frame[ch].rq
               /\ frame'[ch].pc = "restore" /\ frame[ch].rq.op = "resume"
<1>1. /\ frame[ch].pc = "set_param"
      /\ param' = [param EXCEPT ![ch] = frame[ch].agent]
      /\ UNCHANGED <<clients, chan, crashed>>
  BY DEF set_param, At, outside
<1>2. param'[ch] = frame[ch].agent /\ \A x \in Channels \ {ch} : param'[x] = param[x]
  BY <1>1 DEF Core, TypesInv, RegistryTypes
<1>3. CASE Goto(ch, frame[ch], "restore") /\ frame[ch].rq.op = "resume"
  BY <1>1, <1>2, <1>3, Edits, GotoWork
<1>4. CASE Return(ch)
  BY <1>1, <1>2, <1>4, ReturnStays
<1> QED
  BY <1>3, <1>4 DEF set_param

LEMMA DeregisterMoves ==
  ASSUME Core, NEW ch \in Channels, deregister(ch)
  PROVE  /\ frame[ch].pc = "deregister" /\ UNCHANGED <<param, chan, crashed>>
         /\ clients' = [clients EXCEPT ![frame[ch].agent.cid] = NULL]
         /\ Others(ch) /\ frame'[ch] = Idle
<1>1. /\ frame[ch].pc = "deregister" /\ Return(ch)
      /\ clients' = [clients EXCEPT ![frame[ch].agent.cid] = NULL]
      /\ UNCHANGED <<param, chan, crashed>>
  BY DEF deregister, At, Without, outside
<1> QED
  BY <1>1, ReturnStays

LEMMA ReadRetainedMoves ==
  ASSUME Core, NEW ch \in Channels, read_retained(ch)
  PROVE  /\ frame[ch].pc = "read_retained" /\ UNCHANGED <<param, clients, chan, crashed>>
         /\ Others(ch) /\ frame'[ch].agent = frame[ch].agent /\ frame'[ch].rq = frame[ch].rq
         /\ frame'[ch].pc \in {"send_retained", "send_null"} /\ frame'[ch].to = {param[ch]}
<1>1. PICK pc \in {"send_retained", "send_null"} :
        Goto(ch, [frame[ch] EXCEPT !.to = {param[ch]}], pc)
  BY DEF read_retained
<1>2. frame[ch].pc = "read_retained" /\ UNCHANGED <<param, clients, chan, crashed>>
  BY DEF read_retained, At, registries, outside
<1>3. SameWork(frame[ch], [frame[ch] EXCEPT !.to = {param[ch]}])
  BY Edits
<1>4. frame'[ch].to = {param[ch]}
  BY <1>1, GotoTo
<1> QED
  BY <1>1, <1>2, <1>3, <1>4, GotoWork

LEMMA SendRetainedMoves ==
  ASSUME Core, NEW ch \in Channels, send_retained(ch)
  PROVE  /\ frame[ch].pc \in {"send_retained", "send_null"} /\ UNCHANGED <<param, clients>>
         /\ Others(ch) /\ crashed = "no"
         /\ \/ /\ UNCHANGED <<chan, frame>>
               /\ crashed' = "param" => frame[ch].to = {NULL}
            \/ UNCHANGED <<chan, crashed>> /\ Stays(ch) /\ frame'[ch].pc = "deliver"
            \/ UNCHANGED crashed /\ Close({ch}) /\ frame'[ch] = Idle
<1>1. frame[ch].pc \in {"send_retained", "send_null"} /\ UNCHANGED <<param, clients>> /\ crashed = "no"
  BY DEF send_retained, At, registries
<1>2. crashed' = NullUsed(frame[ch])
  BY DEF send_retained
<1>3. CASE UNCHANGED <<chan, topic_mutex, objects, frame>>
  <2>1. crashed' = "param" => frame[ch].to = {NULL}
    BY <1>2 DEF NullUsed
  <2> QED
    BY <1>1, <1>3, <2>1 DEF Others
<1>4. CASE crashed' = "no" /\ Goto(ch, frame[ch], "deliver") /\ UNCHANGED <<chan, topic_mutex>>
  <2>1. Stays(ch) /\ frame'[ch].pc = "deliver"
    BY <1>4, Edits, GotoStays, GotoWork DEF Ordinary
  <2> QED
    BY <1>1, <1>4, <2>1 DEF Stays
<1>5. CASE crashed' = "no" /\ Close({ch}) /\ Return(ch)
  BY <1>1, <1>5, ReturnStays
<1> QED
  BY <1>3, <1>4, <1>5 DEF send_retained

-----------------------------------------------------------------------------
(* The handler of an identifier is alone                                   *)

Contends == contended' = contended \cup Overlapping'

\* No other handler works for the identifier.
Sole(ch, j) == \A x \in Channels \ {ch} : Busy(x) => frame[x].agent.cid # j

LEMMA SoleHandler ==
  ASSUME AloneInv, NEW ch \in Channels, NEW j, Others(ch), Contends, j \notin contended',
         \/ Busy(ch) /\ frame[ch].agent.cid = j
         \/ Busy(ch)' /\ frame'[ch].agent.cid = j
  PROVE  Sole(ch, j) /\ j \notin contended
<1>1. j \notin contended /\ j \notin Overlapping /\ j \notin Overlapping'
  BY DEF Contends, AloneInv
<1>2. ASSUME NEW x \in Channels \ {ch}, Busy(x), frame[x].agent.cid = j
      PROVE  FALSE
  <2>1. frame'[x] = frame[x]
    BY DEF Others
  <2>2. CASE Busy(ch) /\ frame[ch].agent.cid = j
    BY <1>1, <1>2, <2>2, Overlaps DEF OverlapFacts
  <2>3. CASE Busy(ch)' /\ frame'[ch].agent.cid = j
    <3>1. Busy(x)' /\ frame'[x].agent.cid = j
      BY <1>2, <2>1 DEF Busy
    <3> QED
      BY <1>1, <2>3, <3>1, OverlapsNext DEF OverlapFacts
  <2> QED
    BY <2>2, <2>3
<1> QED
  BY <1>1, <1>2 DEF Sole

\* A handler that is alone and has nobody to take over: its identifier's clients are
\* the registered one.
LEMMA SoleAccounted ==
  ASSUME AloneInv, NEW ch \in Channels, NEW j, Sole(ch, j), j \notin contended,
         frame[ch].pc # "take_over"
  PROVE  \A x \in Channels : param[x] # NULL /\ param[x].cid = j => param[x] = clients[j]
<1> SUFFICES ASSUME NEW x \in Channels, param[x] # NULL, param[x].cid = j
             PROVE  param[x] = clients[j]
  OBVIOUS
<1>1. clients[j] = param[x] \/ TakenOver(param[x])
  BY DEF AloneInv, Accounted
<1>2. ~TakenOver(param[x])
  BY DEF TakenOver, Sole, Busy
<1> QED
  BY <1>1, <1>2

\* A step of the handler of identifier j.
LEMMA AloneStep ==
  ASSUME Core, Core', AloneInv, NEW ch \in Channels, NEW j, Others(ch), Contends,
         Busy(ch) => frame[ch].agent.cid = j,
         Busy(ch)' => frame'[ch].agent.cid = j,
         Busy(ch) \/ Busy(ch)',
         \A i \in ClientIds \ {j} : clients'[i] = clients[i],
         clients'[j] # NULL => clients'[j].cid = j,
         \A x \in Channels : param'[x] \in {param[x], NULL} \/ (x = ch /\ param'[x].cid = j),
         j \notin contended' /\ Sole(ch, j) /\ j \notin contended =>
           /\ \A x \in Channels : param'[x] # NULL /\ param'[x].cid = j =>
                clients'[j] = param'[x] \/ TakenOver(param[x])'
           /\ Busy(ch)' => Knows(frame[ch])'
  PROVE  AloneInv'
<1>1. j \notin contended' => Sole(ch, j) /\ j \notin contended
  BY SoleHandler
<1>2. contended \subseteq contended' /\ Overlapping' \subseteq contended'
  BY DEF Contends
<1>3. ASSUME NEW i \in ClientIds, clients'[i] # NULL
      PROVE  clients'[i].cid = i
  BY <1>3 DEF AloneInv
<1>4. ASSUME NEW x \in Channels
      PROVE  Accounted(x)'
  <2> SUFFICES ASSUME param'[x] # NULL, param'[x].cid \notin contended'
               PROVE  clients'[param'[x].cid] = param'[x] \/ TakenOver(param[x])'
    BY DEF Accounted
  <2>1. CASE param'[x].cid = j
    BY <1>1, <2>1
  <2>2. CASE param'[x].cid # j
    <3>1. param'[x] = param[x] /\ param[x].cid \notin contended
      BY <1>2, <2>2
    <3>2. clients[param[x].cid] = param[x] \/ TakenOver(param[x])
      BY <3>1 DEF AloneInv, Accounted
    <3>3. param[x].cid \in ClientIds
      BY <3>1, KnownFields DEF Core, TypesInv, RegistryTypes
    <3>4. TakenOver(param[x]) => TakenOver(param[x])'
      <4> SUFFICES ASSUME NEW h \in Channels, frame[h].pc = "take_over",
                          frame[h].agent.cid = param[x].cid, frame[h].to = {param[x]}
                   PROVE  TakenOver(param[x])'
        BY DEF TakenOver
      <4>1. h # ch
        BY <2>2, <3>1 DEF Busy
      <4>2. frame'[h] = frame[h]
        BY <4>1 DEF Others
      <4> QED
        BY <3>1, <4>2 DEF TakenOver
    <3> QED
      BY <2>2, <3>1, <3>2, <3>3, <3>4
  <2> QED
    BY <2>1, <2>2
<1>5. ASSUME NEW y \in Channels, Busy(y)', frame'[y].agent.cid \notin contended'
      PROVE  Knows(frame[y])'
  <2>1. CASE y = ch
    BY <1>1, <1>5, <2>1
  <2>2. CASE y # ch
    <3>1. frame'[y] = frame[y] /\ Busy(y)
      BY <1>5, <2>2 DEF Others, Busy
    <3>2. PICK i, fr : i = frame[y].agent.cid /\ fr = frame[y]
      OBVIOUS
    <3>3. i # j
      BY <1>1, <1>5, <2>2, <3>1, <3>2 DEF Sole
    <3>4. Knows(fr) /\ i \in ClientIds
      <4>1. i \notin contended
        BY <1>2, <1>5, <3>1, <3>2
      <4>2. i \in ClientIds
        BY <3>1, <3>2, HandlerFacts DEF Busy
      <4> QED
        BY <3>1, <3>2, <4>1, <4>2 DEF AloneInv
    <3>5. clients'[i] = clients[i] /\ (Nobody(i) => Nobody(i)')
      BY <3>3, <3>4 DEF Nobody
    <3>6. fr.agent.cid = i /\ frame'[y] = fr
      BY <3>1, <3>2
    <3>7. Knows(fr)'
      BY <3>4, <3>5, <3>6 DEF Knows
    <3> QED
      BY <3>6, <3>7 DEF Knows
  <2> QED
    BY <2>1, <2>2
<1> QED
  BY <1>2, <1>3, <1>4, <1>5 DEF AloneInv

-----------------------------------------------------------------------------
(* A handler begins, as far as clients are concerned                       *)

LEMMA BeginsAt ==
  ASSUME Core, NEW ch \in Channels, NEW rq, NEW c, NEW todo, NEW pc,
         \/ frame' = [frame EXCEPT ![ch] = Begun(rq, c, pc)]
         \/ frame' = [frame EXCEPT ![ch] = BegunFor(rq, c, todo, pc)]
  PROVE  Others(ch) /\ frame'[ch].pc = pc /\ frame'[ch].rq = rq /\ frame'[ch].agent = c
<1>1. PICK i : i = Idle
  OBVIOUS
<1>2. DOMAIN i = {"pc", "rq", "agent", "to", "todo", "obj", "source", "objs"}
  BY <1>1 DEF Idle
<1>3. ASSUME NEW g, g = [[i EXCEPT !.rq = rq, !.agent = c] EXCEPT !.pc = pc]
      PROVE  g.pc = pc /\ g.rq = rq /\ g.agent = c
  BY <1>2, <1>3
<1>4. ASSUME NEW g, g = [[i EXCEPT !.rq = rq, !.agent = c, !.todo = todo] EXCEPT !.pc = pc]
      PROVE  g.pc = pc /\ g.rq = rq /\ g.agent = c
  BY <1>2, <1>4
<1>5. PICK g, h : g = Begun(rq, c, pc) /\ h = BegunFor(rq, c, todo, pc)
  OBVIOUS
<1>6. /\ g.pc = pc /\ g.rq = rq /\ g.agent = c
      /\ h.pc = pc /\ h.rq = rq /\ h.agent = c
  BY <1>1, <1>3, <1>4, <1>5 DEF Begun, BegunFor
<1>7. frame' = [frame EXCEPT ![ch] = g] \/ frame' = [frame EXCEPT ![ch] = h]
  BY <1>5
<1>8. DOMAIN frame = Channels
  BY DEF Core, TypesInv, FrameTypes
<1> QED
  BY ONLY <1>6, <1>7, <1>8, ch \in Channels DEF Others

LEMMA ReadMoves ==
  ASSUME Core, NEW ch \in Channels, channel_read(ch)
  PROVE  /\ ~Busy(ch) /\ UNCHANGED <<clients, crashed>> /\ Others(ch)
         /\ \A x \in Channels \ {ch} : param'[x] = param[x]
         /\ \/ UNCHANGED frame /\ Close({ch}) /\ param[ch] = NULL /\ param'[ch] = NULL
            \/ /\ UNCHANGED chan /\ chan[ch] = "open" /\ param[ch] # NULL
               /\ frame'[ch].pc \in {"to_subscribe", "lookup", "publish", "unsubscribe_all"}
               /\ frame'[ch].agent = param[ch]
               /\ \/ frame'[ch].rq.op \in {"subscribe", "unsubscribe", "publish"} /\ UNCHANGED param
                  \/ frame'[ch].rq.op = "disconnect" /\ param'[ch] = NULL
<1> DEFINE rq == Head(script[ch])
           todo == IF "filters" \in DOMAIN rq THEN rq.filters ELSE {}
           g == [[Idle EXCEPT !.rq = rq, !.agent = param[ch], !.todo = todo]
                   EXCEPT !.pc = FirstPlace(rq.op)]
<1>1. /\ script[ch] # <<>> /\ rq.op \notin {"connect", "lost"} /\ ~Busy(ch) /\ chan[ch] = "open"
      /\ param' = IF rq.op = "disconnect" THEN [param EXCEPT ![ch] = NULL] ELSE param
      /\ UNCHANGED <<clients, crashed>>
  BY DEF channel_read, Ready
<1>2. rq \in Request
  BY <1>1, ScriptHead
<1>3. rq.op \in {"subscribe", "unsubscribe", "publish", "disconnect"}
  BY <1>1, <1>2, RequestFields
<1>4. DOMAIN param = Channels
  BY DEF Core, TypesInv, RegistryTypes
<1>5. /\ \A x \in Channels \ {ch} : param'[x] = param[x]
      /\ rq.op = "disconnect" => param'[ch] = NULL
      /\ rq.op # "disconnect" => UNCHANGED param
  BY <1>1, <1>4
<1>6. CASE param[ch] = NULL
  <2>1. Close({ch}) /\ UNCHANGED frame
    BY <1>6 DEF channel_read
  <2>2. Others(ch)
    BY <2>1 DEF Others
  <2> QED
    BY <1>1, <1>5, <1>6, <2>1, <2>2
<1>7. CASE param[ch] # NULL
  <2>1. frame' = [frame EXCEPT ![ch] = g] /\ UNCHANGED chan
    BY <1>7 DEF channel_read, Goto
  <2>2. g = BegunFor(rq, param[ch], todo, FirstPlace(rq.op))
    BY DEF BegunFor
  <2> HIDE DEF g, todo, rq
  <2>3. /\ Others(ch) /\ frame'[ch].pc = FirstPlace(rq.op) /\ frame'[ch].rq = rq
        /\ frame'[ch].agent = param[ch]
    BY <2>1, <2>2, BeginsAt
  <2>4. FirstPlace(rq.op) \in {"to_subscribe", "lookup", "publish", "unsubscribe_all"}
    BY <1>3 DEF FirstPlace
  <2> QED
    BY <1>1, <1>3, <1>5, <1>7, <2>1, <2>3, <2>4
<1> QED
  BY <1>6, <1>7

LEMMA ConnectMoves ==
  ASSUME Core, NEW ch \in Channels, handle_connect(ch)
  PROVE  /\ ~Busy(ch) /\ UNCHANGED <<clients, param, crashed>> /\ Others(ch) /\ chan[ch] = "open"
         /\ Close(IF param[ch] = NULL THEN {} ELSE {ch})
         /\ frame'[ch].pc = "get_client" /\ frame'[ch].rq.op = "connect"
<1> DEFINE rq == Head(script[ch])
           c == [chan |-> ch, cid |-> rq.cid, clean |-> rq.clean, will |-> rq.will, sess |-> NULL]
<1>1. /\ rq.op = "connect" /\ ~Busy(ch) /\ chan[ch] = "open"
      /\ frame' = [frame EXCEPT ![ch] = [[Idle EXCEPT !.rq = rq, !.agent = c] EXCEPT !.pc = "get_client"]]
      /\ UNCHANGED <<clients, param, crashed>>
      /\ Close(IF param[ch] = NULL THEN {} ELSE {ch})
  BY DEF handle_connect, Ready, Goto, registries
<1> HIDE DEF rq, c
<1>2. frame' = [frame EXCEPT ![ch] = Begun(rq, c, "get_client")]
  BY <1>1 DEF Begun
<1>3. Others(ch) /\ frame'[ch].pc = "get_client" /\ frame'[ch].rq = rq
  BY <1>2, BeginsAt
<1> QED
  BY <1>1, <1>3

LEMMA PubackMoves ==
  ASSUME Core, NEW ch \in Channels, handle_puback(ch)
  PROVE  /\ ~Busy(ch) /\ UNCHANGED <<clients, param, chan, crashed>> /\ Others(ch)
         /\ param[ch] # NULL
         /\ frame'[ch].pc = "puback" /\ frame'[ch].rq.op = "puback" /\ frame'[ch].agent = param[ch]
<1>1. /\ ~Busy(ch) /\ param[ch] # NULL /\ UNCHANGED <<clients, param, chan, crashed>>
      /\ frame' = [frame EXCEPT ![ch] = [[Idle EXCEPT !.rq.op = "puback", !.agent = param[ch]]
                                           EXCEPT !.pc = "puback"]]
  BY DEF handle_puback, CanAcknowledge, Ready, Goto, registries
<1>2. PICK rq : rq = [op |-> "puback"]
  OBVIOUS
<1>3. rq.op = "puback"
  BY ONLY <1>2
<1>4. frame' = [frame EXCEPT ![ch] = Begun(rq, param[ch], "puback")]
  BY <1>1, <1>2, PlainRequest DEF Begun
<1>5. Others(ch) /\ frame'[ch].pc = "puback" /\ frame'[ch].rq = rq /\ frame'[ch].agent = param[ch]
  BY <1>4, BeginsAt
<1> QED
  BY <1>1, <1>3, <1>5

LEMMA DisconnectedMoves ==
  ASSUME Core, NEW ch \in Channels, handle_channel_disconnected(ch)
  PROVE  /\ ~Busy(ch) /\ UNCHANGED <<clients, crashed>> /\ Others(ch)
         /\ chan[ch] = "closing" /\ chan' = [chan EXCEPT ![ch] = "closed"]
         /\ param'[ch] = NULL /\ \A x \in Channels \ {ch} : param'[x] = param[x]
         /\ \/ param[ch] = NULL /\ UNCHANGED frame
            \/ /\ param[ch] # NULL /\ frame'[ch].agent = param[ch]
               /\ frame'[ch].pc \in {"unsubscribe_all", "will"} /\ frame'[ch].rq.op = "disconnected"
<1>1. /\ ~Busy(ch) /\ UNCHANGED <<clients, crashed>>
      /\ chan[ch] = "closing" /\ chan' = [chan EXCEPT ![ch] = "closed"]
      /\ param' = [param EXCEPT ![ch] = NULL]
  BY DEF handle_channel_disconnected, Ready
<1>2. DOMAIN param = Channels
  BY DEF Core, TypesInv, RegistryTypes
<1>3. param'[ch] = NULL /\ \A x \in Channels \ {ch} : param'[x] = param[x]
  BY <1>1, <1>2
<1>4. CASE param[ch] = NULL
  <2>1. UNCHANGED frame
    BY <1>4 DEF handle_channel_disconnected
  <2> QED
    BY <1>1, <1>3, <1>4, <2>1 DEF Others
<1>5. CASE param[ch] # NULL
  <2>1. \E rq, pc : /\ frame' = [frame EXCEPT ![ch] = Begun(rq, param[ch], pc)]
                    /\ pc \in {"unsubscribe_all", "will"} /\ rq.op = "disconnected"
    <3>1. CASE param[ch].will = NULL
      <4>1. frame' = [frame EXCEPT ![ch] = [[Idle EXCEPT !.rq.op = "disconnected", !.agent = param[ch]]
                                              EXCEPT !.pc = "unsubscribe_all"]]
        BY <1>5, <3>1 DEF handle_channel_disconnected, Goto
      <4>2. PICK rq : rq = [op |-> "disconnected"]
        OBVIOUS
      <4>3. rq.op = "disconnected"
        BY ONLY <4>2
      <4>4. frame' = [frame EXCEPT ![ch] = Begun(rq, param[ch], "unsubscribe_all")]
        BY <4>1, <4>2, PlainRequest DEF Begun
      <4> QED
        BY <4>3, <4>4
    <3>2. CASE param[ch].will # NULL
      <4>1. PICK rq : rq = [op |-> "disconnected", topic |-> param[ch].will, retain |-> "no"]
        OBVIOUS
      <4>2. rq.op = "disconnected"
        BY ONLY <4>1
      <4>3. frame' = [frame EXCEPT ![ch] = Begun(rq, param[ch], "will")]
        BY <1>5, <3>2, <4>1 DEF handle_channel_disconnected, Goto, Begun
      <4> QED
        BY <4>2, <4>3
    <3> QED
      BY <3>1, <3>2
  <2>2. PICK rq, pc : /\ frame' = [frame EXCEPT ![ch] = Begun(rq, param[ch], pc)]
                      /\ pc \in {"unsubscribe_all", "will"} /\ rq.op = "disconnected"
    BY <2>1
  <2>3. PICK c : c = param[ch]
    OBVIOUS
  <2>4. frame' = [frame EXCEPT ![ch] = Begun(rq, c, pc)]
    BY ONLY <2>2, <2>3
  <2>5. Others(ch) /\ frame'[ch].pc = pc /\ frame'[ch].rq = rq /\ frame'[ch].agent = c
    BY ONLY Core, ch \in Channels, <2>4, BeginsAt
  <2> QED
    BY <1>1, <1>3, <1>5, <2>2, <2>3, <2>5
<1> QED
  BY <1>4, <1>5

LEMMA LostMoves ==
  ASSUME Core, NEW ch \in Channels, ConnectionLost(ch)
  PROVE  UNCHANGED <<clients, param, crashed, frame>> /\ Close({ch})
BY DEF ConnectionLost, registries

-----------------------------------------------------------------------------
(* AloneInv, action by action                                              *)

Agents == \A ch \in Channels : frame[ch].pc # "idle" =>
            frame[ch].agent.cid \in ClientIds /\ frame[ch].agent.chan = ch /\ frame[ch].agent # NULL

LEMMA AgentsAre == Core => Agents
BY HandlerFacts DEF Agents, Has

LEMMA AgentsNextAre == Core' => Agents'
BY AgentsAre, PTL

\* Nothing changes but that clients are taken from channels.
LEMMA StillAlone ==
  ASSUME AloneInv, Contends, UNCHANGED <<clients, frame>>,
         \A x \in Channels : param'[x] \in {param[x], NULL}
  PROVE  AloneInv'
<1>1. contended \subseteq contended' /\ Overlapping' \subseteq contended'
  BY DEF Contends
<1>2. ASSUME NEW x \in Channels
      PROVE  Accounted(x)'
  BY <1>1 DEF AloneInv, Accounted, TakenOver
<1>3. ASSUME NEW x \in Channels, Busy(x)', frame'[x].agent.cid \notin contended'
      PROVE  Knows(frame[x])'
  <2>1. PICK fr, i : fr = frame[x] /\ i = fr.agent.cid
    OBVIOUS
  <2>2. frame'[x] = fr /\ Knows(fr)
    BY <1>1, <1>3, <2>1 DEF AloneInv, Busy
  <2>3. Nobody(i) => Nobody(i)'
    BY DEF Nobody
  <2>4. Knows(fr)'
    BY <2>1, <2>2, <2>3 DEF Knows
  <2> QED
    BY <2>2, <2>4 DEF Knows
<1> QED
  BY <1>1, <1>2, <1>3 DEF AloneInv

\* A handler goes on to a place where it has to know nothing new.
LEMMA AloneQuiet ==
  ASSUME Core, Core', AloneInv, Contends, NEW ch \in Channels, UNCHANGED <<param, clients>>, Others(ch),
         frame[ch].pc \notin {"idle", "take_over"},
         \/ frame'[ch] = Idle
         \/ /\ frame'[ch].agent = frame[ch].agent /\ frame'[ch].rq = frame[ch].rq
            /\ frame'[ch].pc \notin {"delete_client", "take_over", "set_param"} \cup Registering
  PROVE  AloneInv'
<1>1. PICK j : j = frame[ch].agent.cid
  OBVIOUS
<1>2. Busy(ch) /\ frame[ch].agent.cid = j
  BY <1>1 DEF Busy
<1>3. Busy(ch)' => frame'[ch].agent.cid = j
  BY <1>1 DEF Busy, Idle
<1>4. j \in ClientIds /\ (clients'[j] # NULL => clients'[j].cid = j)
  <2>1. j \in ClientIds
    BY <1>1, HandlerFacts
  <2> QED
    BY <2>1 DEF AloneInv
<1>5. ASSUME j \notin contended', Sole(ch, j), j \notin contended
      PROVE  /\ \A x \in Channels : param'[x] # NULL /\ param'[x].cid = j =>
                  clients'[j] = param'[x] \/ TakenOver(param[x])'
             /\ Busy(ch)' => Knows(frame[ch])'
  <2>1. \A x \in Channels : param'[x] # NULL /\ param'[x].cid = j => clients'[j] = param'[x]
    BY <1>5, SoleAccounted
  <2>2. Knows(frame[ch])
    BY <1>2, <1>5 DEF AloneInv
  <2>3. ASSUME Busy(ch)'
        PROVE  Knows(frame[ch])'
    <3>1. /\ frame'[ch].agent = frame[ch].agent /\ frame'[ch].rq = frame[ch].rq
          /\ frame'[ch].pc \notin {"delete_client", "take_over", "set_param"} \cup Registering
      BY <2>3 DEF Busy, Idle
    <3>2. frame[ch].rq.op \in Leaving => Nobody(j)
      BY <1>1, <2>2 DEF Knows
    <3>3. frame'[ch].rq.op \in Leaving => Nobody(j)'
      BY <3>1, <3>2 DEF Nobody
    <3> QED
      BY <1>1, <3>1, <3>3 DEF Knows
  <2> QED
    BY <2>1, <2>3
<1> QED
  BY <1>2, <1>3, <1>4, <1>5, AloneStep

LEMMA QuietAlone ==
  ASSUME Core, Core', AloneInv, Contends, NEW ch \in Channels, Quiet(ch)
  PROVE  AloneInv'
BY AloneQuiet DEF Quiet, Stays, Ordinary, Registering

\* A handler begins for the client of its channel.
LEMMA BeginsAlone ==
  ASSUME Core, Core', AloneInv, Contends, NEW ch \in Channels, UNCHANGED clients, Others(ch), ~Busy(ch),
         \A x \in Channels \ {ch} : param'[x] = param[x],
         param[ch] # NULL, frame'[ch].agent = param[ch],
         frame'[ch].pc \notin {"delete_client", "take_over", "set_param"} \cup Registering,
         frame'[ch].pc # "idle",
         \/ param'[ch] = param[ch] /\ frame'[ch].rq.op \notin Leaving
         \/ param'[ch] = NULL
  PROVE  AloneInv'
<1>1. PICK j : j = param[ch].cid
  OBVIOUS
<1>2. Busy(ch)' /\ frame'[ch].agent.cid = j
  BY <1>1 DEF Busy
<1>3. j \in ClientIds /\ (clients'[j] # NULL => clients'[j].cid = j)
  <2>1. frame'[ch].agent.cid \in ClientIds
    BY AgentsNextAre DEF Agents
  <2> QED
    BY <1>2, <2>1 DEF AloneInv
<1>4. \A x \in Channels : param[x] # NULL => param[x].chan = x
  BY CoreParts DEF ParamInv
<1>5. ASSUME j \notin contended', Sole(ch, j), j \notin contended
      PROVE  /\ \A x \in Channels : param'[x] # NULL /\ param'[x].cid = j =>
                  clients'[j] = param'[x] \/ TakenOver(param[x])'
             /\ Busy(ch)' => Knows(frame[ch])'
  <2>1. \A x \in Channels : param[x] # NULL /\ param[x].cid = j => clients[j] = param[x]
    <3>1. frame[ch].pc # "take_over"
      BY DEF Busy
    <3> QED
      BY <1>5, <3>1, SoleAccounted
  <2>2. \A x \in Channels : param'[x] # NULL => param'[x] = param[x]
    OBVIOUS
  <2>3. param'[ch] = NULL => Nobody(j)'
    <3> SUFFICES ASSUME param'[ch] = NULL, NEW x \in Channels, param'[x] # NULL, param'[x].cid = j
                 PROVE  FALSE
      BY DEF Nobody
    <3>1. x # ch /\ param[x] = param'[x]
      OBVIOUS
    <3>2. param[x] = param[ch]
      BY <1>1, <2>1, <3>1
    <3> QED
      BY <1>4, <3>1, <3>2
  <2>4. frame'[ch].rq.op \in Leaving => Nobody(j)'
    BY <2>3
  <2>5. Knows(frame[ch])'
    BY <1>2, <2>4 DEF Knows
  <2> QED
    BY <2>1, <2>2, <2>5
<1>6. \A x \in Channels : param'[x] \in {param[x], NULL}
  OBVIOUS
<1> QED
  BY <1>2, <1>3, <1>5, <1>6, AloneStep

\* What a handler that is alone knows, and that its identifier's clients are the registered one.
LEMMA AloneHandler ==
  ASSUME Core, AloneInv, NEW ch \in Channels, frame[ch].pc # "idle",
         NEW j, j = frame[ch].agent.cid
  PROVE  /\ Busy(ch) /\ j \in ClientIds /\ (clients[j] # NULL => clients[j].cid = j)
         /\ j \notin contended => Knows(frame[ch])
         /\ Sole(ch, j) /\ j \notin contended /\ frame[ch].pc # "take_over" =>
              \A x \in Channels : param[x] # NULL /\ param[x].cid = j => param[x] = clients[j]
<1>1. Busy(ch) /\ j \in ClientIds
  BY HandlerFacts DEF Busy
<1>2. clients[j] # NULL => clients[j].cid = j
  BY <1>1 DEF AloneInv
<1>3. j \notin contended => Knows(frame[ch])
  BY <1>1 DEF AloneInv
<1>4. Sole(ch, j) /\ j \notin contended /\ frame[ch].pc # "take_over" =>
        \A x \in Channels : param[x] # NULL /\ param[x].cid = j => param[x] = clients[j]
  BY SoleAccounted
<1> QED
  BY <1>1, <1>2, <1>3, <1>4

LEMMA GetClientAlone ==
  ASSUME Core, Core', AloneInv, Contends, NEW ch \in Channels, get_client(ch)
  PROVE  AloneInv'
<1>1. /\ frame[ch].pc = "get_client" /\ UNCHANGED <<param, clients>> /\ Others(ch)
      /\ frame'[ch].agent = frame[ch].agent /\ frame'[ch].rq = frame[ch].rq
      /\ \/ clients[frame[ch].agent.cid] = NULL /\ frame'[ch].pc = "session"
         \/ /\ clients[frame[ch].agent.cid] # NULL
            /\ frame'[ch].pc = "delete_client" /\ frame'[ch].to = {clients[frame[ch].agent.cid]}
  BY GetClientMoves
<1>2. PICK j : j = frame[ch].agent.cid
  OBVIOUS
<1>3. /\ Busy(ch) /\ j \in ClientIds /\ (clients[j] # NULL => clients[j].cid = j)
      /\ Sole(ch, j) /\ j \notin contended =>
              \A x \in Channels : param[x] # NULL /\ param[x].cid = j => param[x] = clients[j]
  BY <1>1, <1>2, AloneHandler
<1>4. frame[ch].rq.op \notin Leaving
  BY <1>1, HandlerFacts DEF Serves, Connecting, Leaving
<1>5. ASSUME j \notin contended', Sole(ch, j), j \notin contended
      PROVE  /\ \A x \in Channels : param'[x] # NULL /\ param'[x].cid = j =>
                  clients'[j] = param'[x] \/ TakenOver(param[x])'
             /\ Busy(ch)' => Knows(frame[ch])'
  <2>1. \A x \in Channels : param[x] # NULL /\ param[x].cid = j => param[x] = clients[j]
    BY <1>3, <1>5
  <2>2. clients[j] = NULL => Nobody(j)'
    BY <1>1, <2>1 DEF Nobody
  <2>3. Knows(frame[ch])'
    BY <1>1, <1>2, <1>4, <2>2 DEF Knows, Registering
  <2> QED
    BY <1>1, <2>1, <2>3
<1> QED
  BY <1>1, <1>2, <1>3, <1>5, AloneStep

LEMMA DeleteClientAlone ==
  ASSUME Core, Core', AloneInv, Contends, NEW ch \in Channels, delete_client(ch)
  PROVE  AloneInv'
<1>1. PICK j : j = frame[ch].agent.cid
  OBVIOUS
<1>2. /\ frame[ch].pc = "delete_client" /\ UNCHANGED param /\ Others(ch)
      /\ clients' = [clients EXCEPT ![j] = NULL]
      /\ frame'[ch].agent = frame[ch].agent /\ frame'[ch].rq = frame[ch].rq
      /\ frame'[ch].pc = "take_over" /\ frame'[ch].to = frame[ch].to
  BY <1>1, DeleteClientMoves
<1>3. /\ Busy(ch) /\ j \in ClientIds /\ (clients[j] # NULL => clients[j].cid = j)
      /\ j \notin contended => Knows(frame[ch])
      /\ Sole(ch, j) /\ j \notin contended =>
              \A x \in Channels : param[x] # NULL /\ param[x].cid = j => param[x] = clients[j]
  BY <1>1, <1>2, AloneHandler
<1>4. frame[ch].rq.op \notin Leaving
  BY <1>2, HandlerFacts DEF Serves, Connecting, Leaving
<1>5. /\ clients'[j] = NULL /\ \A i \in ClientIds \ {j} : clients'[i] = clients[i]
  BY <1>2, <1>3 DEF Core, TypesInv, RegistryTypes
<1>6. ASSUME j \notin contended', Sole(ch, j), j \notin contended
      PROVE  /\ \A x \in Channels : param'[x] # NULL /\ param'[x].cid = j =>
                  clients'[j] = param'[x] \/ TakenOver(param[x])'
             /\ Busy(ch)' => Knows(frame[ch])'
  <2>1. clients[j] # NULL /\ frame[ch].to = {clients[j]}
    BY <1>1, <1>2, <1>3, <1>6 DEF Knows
  <2>2. ASSUME NEW x \in Channels, param'[x] # NULL, param'[x].cid = j
        PROVE  TakenOver(param[x])'
    <3>1. param'[x] = clients[j]
      BY <1>2, <1>3, <1>6, <2>2
    <3> QED
      BY <1>1, <1>2, <2>1, <2>2, <3>1 DEF TakenOver
  <2>3. Knows(frame[ch])'
    BY <1>1, <1>2, <1>3, <1>4, <1>5, <2>1 DEF Knows, Registering
  <2> QED
    BY <2>2, <2>3
<1> QED
  BY <1>1, <1>2, <1>3, <1>5, <1>6, AloneStep

LEMMA TakeOverAlone ==
  ASSUME Core, Core', AloneInv, Contends, NEW ch \in Channels, take_over(ch)
  PROVE  AloneInv'
<1>1. PICK j : j = frame[ch].agent.cid
  OBVIOUS
<1>2. /\ frame[ch].pc = "take_over" /\ UNCHANGED clients /\ Others(ch)
      /\ \A x \in Channels :
           param'[x] = IF \E c \in frame[ch].to : c.chan = x THEN NULL ELSE param[x]
      /\ frame'[ch].agent = frame[ch].agent /\ frame'[ch].rq = frame[ch].rq
      /\ frame'[ch].pc = "close_old"
  BY <1>1, TakeOverMoves
<1>3. /\ Busy(ch) /\ j \in ClientIds /\ (clients[j] # NULL => clients[j].cid = j)
      /\ j \notin contended => Knows(frame[ch])
  BY <1>1, <1>2, AloneHandler
<1>4. frame[ch].rq.op \notin Leaving
  BY <1>2, HandlerFacts DEF Serves, Connecting, Leaving
<1>5. \A x \in Channels : param[x] # NULL => param[x].chan = x
  BY CoreParts DEF ParamInv
<1>6. \A x \in Channels : param'[x] \in {param[x], NULL}
  BY <1>2
<1>7. ASSUME j \notin contended', Sole(ch, j), j \notin contended
      PROVE  Nobody(j)' /\ Knows(frame[ch])'
  <2>1. clients[j] = NULL
    BY <1>1, <1>2, <1>3, <1>7 DEF Knows
  <2>2. ASSUME NEW x \in Channels, param'[x] # NULL, param'[x].cid = j
        PROVE  FALSE
    <3>1. param[x] = param'[x]
      BY <1>6, <2>2
    <3>2. TakenOver(param[x])
      BY <1>7, <2>1, <2>2, <3>1 DEF AloneInv, Accounted
    <3>3. frame[ch].to = {param[x]}
      BY <1>7, <2>2, <3>1, <3>2 DEF TakenOver, Sole, Busy
    <3>4. param[x].chan = x
      BY <1>5, <2>2, <3>1
    <3> QED
      BY <1>2, <2>2, <3>3, <3>4
  <2>3. Nobody(j)'
    BY <2>2 DEF Nobody
  <2>4. Knows(frame[ch])'
    BY <1>1, <1>2, <1>4, <2>1, <2>3 DEF Knows, Registering
  <2> QED
    BY <2>3, <2>4
<1>8. j \notin contended' /\ Sole(ch, j) /\ j \notin contended =>
        /\ \A x \in Channels : param'[x] # NULL /\ param'[x].cid = j =>
             clients'[j] = param'[x] \/ TakenOver(param[x])'
        /\ Busy(ch)' => Knows(frame[ch])'
  BY <1>7 DEF Nobody
<1> QED
  BY <1>1, <1>2, <1>3, <1>6, <1>8, AloneStep

\* A handler that has nobody's client before it goes on to register its own.
LEMMA RegisteringAlone ==
  ASSUME Core, Core', AloneInv, Contends, NEW ch \in Channels, UNCHANGED <<param, clients>>, Others(ch),
         frame[ch].pc \in {"close_old", "session", "new_session"},
         frame'[ch].agent.cid = frame[ch].agent.cid, frame'[ch].rq.op \notin Leaving,
         frame'[ch].pc \in Registering
  PROVE  AloneInv'
<1>1. PICK j : j = frame[ch].agent.cid
  OBVIOUS
<1>2. frame[ch].pc \in Registering /\ frame[ch].pc # "idle" /\ frame[ch].pc # "take_over"
  BY DEF Registering
<1>3. /\ Busy(ch) /\ j \in ClientIds /\ (clients[j] # NULL => clients[j].cid = j)
      /\ j \notin contended => Knows(frame[ch])
  BY <1>1, <1>2, AloneHandler
<1>4. ASSUME j \notin contended
      PROVE  Nobody(j)' /\ Knows(frame[ch])'
  <2>1. clients[j] = NULL /\ Nobody(j)
    BY <1>1, <1>2, <1>3, <1>4 DEF Knows
  <2>2. Nobody(j)'
    BY <2>1 DEF Nobody
  <2>3. Knows(frame[ch])'
    BY <1>1, <2>1, <2>2 DEF Knows, Registering
  <2> QED
    BY <2>2, <2>3
<1>5. j \notin contended' /\ Sole(ch, j) /\ j \notin contended =>
        /\ \A x \in Channels : param'[x] # NULL /\ param'[x].cid = j =>
             clients'[j] = param'[x] \/ TakenOver(param[x])'
        /\ Busy(ch)' => Knows(frame[ch])'
  BY <1>4 DEF Nobody
<1>6. \A x \in Channels : param'[x] \in {param[x], NULL}
  OBVIOUS
<1> QED
  BY <1>1, <1>3, <1>5, <1>6, AloneStep

LEMMA CloseOldAlone ==
  ASSUME Core, Core', AloneInv, Contends, NEW ch \in Channels, close_old(ch) \/ session(ch) \/ new_session(ch)
  PROVE  AloneInv'
<1>1. CASE close_old(ch)
  <2>1. /\ frame[ch].pc = "close_old" /\ UNCHANGED <<param, clients>> /\ Others(ch)
        /\ frame'[ch].agent = frame[ch].agent /\ frame'[ch].rq = frame[ch].rq
        /\ frame'[ch].pc = "session"
    BY <1>1, CloseOldMoves
  <2>2. frame[ch].rq.op \notin Leaving
    BY <2>1, HandlerFacts DEF Serves, Connecting, Leaving
  <2> QED
    BY <2>1, <2>2, RegisteringAlone DEF Registering
<1>2. CASE session(ch) \/ new_session(ch)
  <2>1. /\ frame[ch].pc \in {"session", "new_session"} /\ UNCHANGED <<param, clients>> /\ Others(ch)
        /\ frame'[ch].agent.cid = frame[ch].agent.cid /\ frame'[ch].rq.op \in {"connect", "resume"}
        /\ frame'[ch].pc \in {"new_session", "reg_client"}
    BY <1>2, SessionMoves
  <2> QED
    BY <2>1, RegisteringAlone DEF Registering, Leaving
<1> QED
  BY <1>1, <1>2

LEMMA RegClientAlone ==
  ASSUME Core, Core', AloneInv, Contends, NEW ch \in Channels, reg_client(ch)
  PROVE  AloneInv'
<1>1. PICK j : j = frame[ch].agent.cid
  OBVIOUS
<1>2. /\ frame[ch].pc = "reg_client" /\ UNCHANGED param /\ Others(ch)
      /\ clients' = [clients EXCEPT ![j] = IF @ = NULL THEN frame[ch].agent ELSE @]
      /\ frame'[ch].agent = frame[ch].agent /\ frame'[ch].rq = frame[ch].rq
      /\ frame'[ch].pc = "set_param"
  BY <1>1, RegClientMoves
<1>3. /\ Busy(ch) /\ j \in ClientIds /\ (clients[j] # NULL => clients[j].cid = j)
      /\ j \notin contended => Knows(frame[ch])
  BY <1>1, <1>2, AloneHandler
<1>4. frame[ch].rq.op \notin Leaving
  BY <1>2, HandlerFacts DEF Serves, Connecting, Leaving
<1>5. /\ clients'[j] = IF clients[j] = NULL THEN frame[ch].agent ELSE clients[j]
      /\ \A i \in ClientIds \ {j} : clients'[i] = clients[i]
  BY <1>2, <1>3 DEF Core, TypesInv, RegistryTypes
<1>6. ASSUME j \notin contended
      PROVE  Nobody(j)' /\ Knows(frame[ch])'
  <2>1. clients[j] = NULL /\ Nobody(j)
    BY <1>1, <1>2, <1>3, <1>6 DEF Knows, Registering
  <2>2. Nobody(j)' /\ clients'[j] = frame'[ch].agent
    BY <1>2, <1>5, <2>1 DEF Nobody
  <2>3. Knows(frame[ch])'
    BY <1>1, <1>2, <1>4, <2>2 DEF Knows, Registering
  <2> QED
    BY <2>2, <2>3
<1>7. j \notin contended' /\ Sole(ch, j) /\ j \notin contended =>
        /\ \A x \in Channels : param'[x] # NULL /\ param'[x].cid = j =>
             clients'[j] = param'[x] \/ TakenOver(param[x])'
        /\ Busy(ch)' => Knows(frame[ch])'
  BY <1>6 DEF Nobody
<1>8. \A x \in Channels : param'[x] \in {param[x], NULL}
  BY <1>2
<1>9. clients'[j] # NULL => clients'[j].cid = j
  BY <1>1, <1>3, <1>5
<1> QED
  BY <1>1, <1>2, <1>3, <1>5, <1>7, <1>8, <1>9, AloneStep

LEMMA SetParamAlone ==
  ASSUME Core, Core', AloneInv, Contends, NEW ch \in Channels, set_param(ch)
  PROVE  AloneInv'
<1>1. PICK j : j = frame[ch].agent.cid
  OBVIOUS
<1>2. /\ frame[ch].pc = "set_param" /\ UNCHANGED clients /\ Others(ch)
      /\ param'[ch] = frame[ch].agent /\ \A x \in Channels \ {ch} : param'[x] = param[x]
      /\ \/ frame'[ch] = Idle
         \/ /\ frame'[ch].agent = frame[ch].agent /\ frame'[ch].rq = frame[ch].rq
            /\ frame'[ch].pc = "restore" /\ frame[ch].rq.op = "resume"
  BY SetParamMoves
<1>3. /\ Busy(ch) /\ j \in ClientIds /\ (clients[j] # NULL => clients[j].cid = j)
      /\ j \notin contended => Knows(frame[ch])
  BY <1>1, <1>2, AloneHandler
<1>4. Busy(ch)' => frame'[ch].agent.cid = j
  BY <1>1, <1>2 DEF Busy, Idle
<1>5. ASSUME j \notin contended
      PROVE  /\ \A x \in Channels : param'[x] # NULL /\ param'[x].cid = j => clients'[j] = param'[x]
             /\ Busy(ch)' => Knows(frame[ch])'
  <2>1. clients[j] = frame[ch].agent /\ Nobody(j)
    BY <1>1, <1>2, <1>3, <1>5 DEF Knows
  <2>2. \A x \in Channels : param'[x] # NULL /\ param'[x].cid = j => clients'[j] = param'[x]
    BY <1>2, <2>1 DEF Nobody
  <2>3. Busy(ch)' => Knows(frame[ch])'
    BY <1>2 DEF Knows, Registering, Leaving, Busy, Idle
  <2> QED
    BY <2>2, <2>3
<1>6. \A x \in Channels : param'[x] \in {param[x], NULL} \/ (x = ch /\ param'[x].cid = j)
  BY <1>1, <1>2
<1>7. j \notin contended' /\ Sole(ch, j) /\ j \notin contended =>
        /\ \A x \in Channels : param'[x] # NULL /\ param'[x].cid = j =>
             clients'[j] = param'[x] \/ TakenOver(param[x])'
        /\ Busy(ch)' => Knows(frame[ch])'
  BY <1>5
<1> QED
  BY <1>1, <1>2, <1>3, <1>4, <1>6, <1>7, AloneStep

LEMMA DeregisterAlone ==
  ASSUME Core, Core', AloneInv, Contends, NEW ch \in Channels, deregister(ch)
  PROVE  AloneInv'
<1>1. PICK j : j = frame[ch].agent.cid
  OBVIOUS
<1>2. /\ frame[ch].pc = "deregister" /\ UNCHANGED param /\ Others(ch) /\ frame'[ch] = Idle
      /\ clients' = [clients EXCEPT ![j] = NULL]
  BY <1>1, DeregisterMoves
<1>3. /\ Busy(ch) /\ j \in ClientIds
      /\ j \notin contended => Knows(frame[ch])
  BY <1>1, <1>2, AloneHandler
<1>4. frame[ch].rq.op \in Leaving
  BY <1>2, HandlerFacts DEF Serves
<1>5. /\ clients'[j] = NULL /\ \A i \in ClientIds \ {j} : clients'[i] = clients[i]
  BY <1>2, <1>3 DEF Core, TypesInv, RegistryTypes
<1>6. j \notin contended => Nobody(j)'
  BY <1>1, <1>2, <1>3, <1>4 DEF Knows, Nobody
<1>7. ~Busy(ch)'
  BY <1>2 DEF Busy, Idle
<1>8. j \notin contended' /\ Sole(ch, j) /\ j \notin contended =>
        /\ \A x \in Channels : param'[x] # NULL /\ param'[x].cid = j =>
             clients'[j] = param'[x] \/ TakenOver(param[x])'
        /\ Busy(ch)' => Knows(frame[ch])'
  BY <1>6, <1>7 DEF Nobody
<1>9. \A x \in Channels : param'[x] \in {param[x], NULL}
  BY <1>2
<1> QED
  BY <1>1, <1>2, <1>3, <1>5, <1>7, <1>8, <1>9, AloneStep

LEMMA SendingAlone ==
  ASSUME Core, Core', AloneInv, Contends, NEW ch \in Channels, read_retained(ch) \/ send_retained(ch)
  PROVE  AloneInv'
<1>1. CASE read_retained(ch)
  <2>1. /\ frame[ch].pc = "read_retained" /\ UNCHANGED <<param, clients>>
        /\ Others(ch) /\ frame'[ch].agent = frame[ch].agent /\ frame'[ch].rq = frame[ch].rq
        /\ frame'[ch].pc \in {"send_retained", "send_null"}
    BY <1>1, ReadRetainedMoves
  <2> QED
    BY <2>1, AloneQuiet DEF Registering
<1>2. CASE send_retained(ch)
  <2>1. /\ frame[ch].pc \in {"send_retained", "send_null"} /\ UNCHANGED <<param, clients>> /\ Others(ch)
        /\ UNCHANGED frame \/ Stays(ch) \/ frame'[ch] = Idle
    BY <1>2, SendRetainedMoves
  <2>2. CASE UNCHANGED frame
    BY <2>1, <2>2, StillAlone
  <2>3. CASE Stays(ch) \/ frame'[ch] = Idle
    BY <2>1, <2>3, AloneQuiet DEF Stays, Ordinary, Registering
  <2> QED
    BY <2>1, <2>2, <2>3
<1> QED
  BY <1>1, <1>2

LEMMA ConnectAlone ==
  ASSUME Core, Core', AloneInv, Contends, NEW ch \in Channels, handle_connect(ch)
  PROVE  AloneInv'
<1>1. PICK j : j = frame'[ch].agent.cid
  OBVIOUS
<1>2. /\ ~Busy(ch) /\ UNCHANGED <<clients, param>> /\ Others(ch)
      /\ frame'[ch].pc = "get_client" /\ frame'[ch].rq.op = "connect"
  BY ConnectMoves
<1>3. Busy(ch)' /\ frame'[ch].agent.cid = j /\ j \in ClientIds
  BY <1>1, <1>2, AgentsNextAre DEF Agents, Busy
<1>4. clients'[j] # NULL => clients'[j].cid = j
  BY <1>2, <1>3 DEF AloneInv
<1>5. frame[ch].pc # "take_over"
  BY <1>2 DEF Busy
<1>6. Sole(ch, j) /\ j \notin contended =>
        \A x \in Channels : param'[x] # NULL /\ param'[x].cid = j => clients'[j] = param'[x]
  BY <1>2, <1>5, SoleAccounted
<1>7. Knows(frame[ch])'
  BY <1>2 DEF Knows, Registering, Leaving
<1>8. j \notin contended' /\ Sole(ch, j) /\ j \notin contended =>
        /\ \A x \in Channels : param'[x] # NULL /\ param'[x].cid = j =>
             clients'[j] = param'[x] \/ TakenOver(param[x])'
        /\ Busy(ch)' => Knows(frame[ch])'
  BY <1>6, <1>7
<1>9. \A x \in Channels : param'[x] \in {param[x], NULL}
  BY <1>2
<1> QED
  BY <1>2, <1>3, <1>4, <1>8, <1>9, AloneStep

LEMMA BeginningAlone ==
  ASSUME Core, Core', AloneInv, Contends, NEW ch \in Channels,
         \/ channel_read(ch) \/ handle_puback(ch) \/ handle_channel_disconnected(ch)
         \/ ConnectionLost(ch)
  PROVE  AloneInv'
<1>1. CASE channel_read(ch)
  <2>1. /\ ~Busy(ch) /\ UNCHANGED clients /\ Others(ch)
        /\ \A x \in Channels \ {ch} : param'[x] = param[x]
        /\ \/ UNCHANGED frame /\ param[ch] = NULL /\ param'[ch] = NULL
           \/ /\ param[ch] # NULL
              /\ frame'[ch].pc \in {"to_subscribe", "lookup", "publish", "unsubscribe_all"}
              /\ frame'[ch].agent = param[ch]
              /\ \/ frame'[ch].rq.op \in {"subscribe", "unsubscribe", "publish"} /\ UNCHANGED param
                 \/ frame'[ch].rq.op = "disconnect" /\ param'[ch] = NULL
    BY <1>1, ReadMoves
  <2>2. CASE UNCHANGED frame /\ param[ch] = NULL /\ param'[ch] = NULL
    BY <2>1, <2>2, StillAlone
  <2>3. CASE param[ch] # NULL
    <3>1. /\ frame'[ch].agent = param[ch]
          /\ frame'[ch].pc \notin {"delete_client", "take_over", "set_param"} \cup Registering
          /\ frame'[ch].pc # "idle"
          /\ (param'[ch] = param[ch] /\ frame'[ch].rq.op \notin Leaving) \/ param'[ch] = NULL
      BY <2>1, <2>3 DEF Registering, Leaving
    <3> QED
      BY <2>1, <2>3, <3>1, BeginsAlone
  <2> QED
    BY <2>1, <2>2, <2>3
<1>2. CASE handle_puback(ch)
  <2>1. /\ ~Busy(ch) /\ UNCHANGED <<clients, param>> /\ Others(ch) /\ param[ch] # NULL
        /\ frame'[ch].pc = "puback" /\ frame'[ch].rq.op = "puback" /\ frame'[ch].agent = param[ch]
    BY <1>2, PubackMoves
  <2>2. /\ frame'[ch].pc \notin {"delete_client", "take_over", "set_param"} \cup Registering
        /\ frame'[ch].pc # "idle" /\ frame'[ch].rq.op \notin Leaving
    BY <2>1 DEF Registering, Leaving
  <2> QED
    BY <2>1, <2>2, BeginsAlone
<1>3. CASE handle_channel_disconnected(ch)
  <2>1. /\ ~Busy(ch) /\ UNCHANGED clients /\ Others(ch)
        /\ param'[ch] = NULL /\ \A x \in Channels \ {ch} : param'[x] = param[x]
        /\ \/ param[ch] = NULL /\ UNCHANGED frame
           \/ /\ param[ch] # NULL /\ frame'[ch].agent = param[ch]
              /\ frame'[ch].pc \in {"unsubscribe_all", "will"}
    BY <1>3, DisconnectedMoves
  <2>2. CASE param[ch] = NULL /\ UNCHANGED frame
    BY <2>1, <2>2, StillAlone
  <2>3. CASE param[ch] # NULL
    <3>1. /\ frame'[ch].agent = param[ch]
          /\ frame'[ch].pc \notin {"delete_client", "take_over", "set_param"} \cup Registering
          /\ frame'[ch].pc # "idle"
      BY <2>1, <2>3 DEF Registering
    <3> QED
      BY <2>1, <2>3, <3>1, BeginsAlone
  <2> QED
    BY <2>1, <2>2, <2>3
<1>4. CASE ConnectionLost(ch)
  BY <1>4, LostMoves, StillAlone
<1> QED
  BY <1>1, <1>2, <1>3, <1>4

LEMMA ContinueAlone ==
  ASSUME Core, Core', AloneInv, Contends, NEW ch \in Channels, Continue(ch)
  PROVE  AloneInv'
<1>1. CASE \/ get_client(ch) \/ delete_client(ch) \/ take_over(ch) \/ close_old(ch) \/ session(ch)
           \/ new_session(ch) \/ reg_client(ch) \/ set_param(ch) \/ deregister(ch)
  BY <1>1, GetClientAlone, DeleteClientAlone, TakeOverAlone, CloseOldAlone, RegClientAlone,
     SetParamAlone, DeregisterAlone
<1>2. CASE read_retained(ch) \/ send_retained(ch)
  BY <1>2, SendingAlone
<1>3. CASE \/ restore(ch) \/ resend(ch) \/ get_topic_ptr_to_subscribe(ch) \/ subscribe(ch)
           \/ add_subscription(ch) \/ retained(ch) \/ retained_wild(ch) \/ retained_of(ch)
  BY <1>3, RestoreQuiet, ToSubscribeQuiet, RetainedQuiet, QuietAlone
<1>4. CASE \/ store_retained(ch) \/ lock(ch) \/ deliver(ch) \/ puback(ch)
           \/ publish(ch) \/ wild(ch) \/ wild_next(ch) \/ will(ch) \/ will_id(ch)
  BY <1>4, PublishQuiet, DeliverQuiet, QuietAlone
<1>5. CASE \/ unsubscribe_all(ch) \/ lookup(ch) \/ unsubscribe(ch) \/ delete_subscription(ch)
           \/ empty(ch) \/ erase(ch) \/ delete_session(ch)
  BY <1>5, UnsubscribeQuiet, QuietAlone
<1> QED
  BY <1>1, <1>2, <1>3, <1>4, <1>5 DEF Continue

LEMMA AloneNext == Core /\ Core' /\ AloneInv /\ [Next]_vars => AloneInv'
<1> SUFFICES ASSUME Core, Core', AloneInv, [Next]_vars
             PROVE  AloneInv'
  OBVIOUS
<1>1. CASE Next
  <2>1. Contends
    BY <1>1 DEF Next, History, Contends
  <2>2. PICK ch \in Channels :
          \/ channel_read(ch) \/ handle_connect(ch) \/ handle_puback(ch)
          \/ handle_channel_disconnected(ch) \/ ConnectionLost(ch)
          \/ Continue(ch)
    BY <1>1 DEF Next
  <2> QED
    BY <2>1, <2>2, ConnectAlone, BeginningAlone, ContinueAlone
<1>2. CASE UNCHANGED vars
  <2>1. UNCHANGED <<clients, param, frame, contended>>
    BY <1>2 DEF vars, program, registries, history
  <2>2. Overlapping' = Overlapping
    BY <2>1 DEF Overlapping, RunsFor, Busy
  <2>3. Contends
    BY <2>1, <2>2 DEF AloneInv, Contends
  <2> QED
    BY <2>1, <2>3, StillAlone
<1> QED
  BY <1>1, <1>2

LEMMA AloneInit == Init => AloneInv
<1> SUFFICES ASSUME Init
             PROVE  AloneInv
  OBVIOUS
<1>1. \A x \in Channels : frame[x].pc = "idle" /\ param[x] = NULL
  BY DEF Init, Idle
<1>2. Overlapping = {}
  BY <1>1 DEF Overlapping, RunsFor, Busy
<1>3. \A i \in ClientIds : clients[i] = NULL
  BY DEF Init
<1> QED
  BY <1>1, <1>2, <1>3 DEF AloneInv, Accounted, Busy

-----------------------------------------------------------------------------
(* ApartInv, action by action                                              *)

\* No identifier ever had two handlers.
Distinct == \A x, y \in Channels : x # y /\ Busy(x) /\ Busy(y) => frame[x].agent.cid # frame[y].agent.cid

LEMMA Uncontended ==
  ASSUME AloneInv, Contends, contended' = {}
  PROVE  /\ contended = {} /\ Distinct
         /\ \A x \in Channels : Busy(x) => Knows(frame[x])
<1>1. contended = {} /\ Overlapping = {}
  BY DEF Contends, AloneInv
<1>2. Distinct
  BY <1>1, Overlaps DEF Distinct, OverlapFacts
<1>3. \A x \in Channels : Busy(x) => Knows(frame[x])
  BY <1>1 DEF AloneInv
<1> QED
  BY <1>1, <1>2, <1>3

RegisteredFacts ==
  \A c : c \in Registered <=>
    /\ c # NULL
    /\ \/ \E i \in ClientIds : clients[i] = c
       \/ \E h \in Channels : frame[h].pc = "take_over" /\ c \in frame[h].to

LEMMA RegisteredAre == RegisteredFacts
BY DEF RegisteredFacts, Registered

LEMMA RegisteredNext == RegisteredFacts'
BY RegisteredAre, PTL

\* Registered becomes at most a client of the handler's channel.
RegisteredStep(ch) == \A c \in Registered' : c \in Registered \/ c.chan = ch

LEMMA RegisteredKept ==
  ASSUME NEW ch \in Channels, Others(ch),
         \A i \in ClientIds : clients'[i] \in {clients[i], NULL},
         frame'[ch].pc = "take_over" => \A c \in frame'[ch].to : c = NULL \/ c \in Registered
  PROVE  Registered' \subseteq Registered
<1> SUFFICES ASSUME NEW c \in Registered'
             PROVE  c \in Registered
  OBVIOUS
<1>1. c # NULL
  BY RegisteredNext DEF RegisteredFacts
<1>2. CASE \E i \in ClientIds : clients'[i] = c
  BY <1>1, <1>2, RegisteredAre DEF RegisteredFacts
<1>3. CASE \E h \in Channels : frame'[h].pc = "take_over" /\ c \in frame'[h].to
  <2>1. PICK h \in Channels : frame'[h].pc = "take_over" /\ c \in frame'[h].to
    BY <1>3
  <2>2. CASE h = ch
    BY <1>1, <2>1, <2>2
  <2>3. CASE h # ch
    BY <1>1, <2>1, <2>3, RegisteredAre DEF RegisteredFacts, Others
  <2> QED
    BY <2>2, <2>3
<1> QED
  BY <1>2, <1>3, RegisteredNext DEF RegisteredFacts

\* A step that leaves the client of another channel where it is.
Closes(x) == chan'[x] = chan[x] \/ (chan[x] = "open" /\ chan'[x] = "closing")

LEMMA ApartOther ==
  ASSUME NEW x, frame'[x] = frame[x], param'[x] = param[x], Closes(x), ChannelApart(x),
         \A c \in Registered' : c.chan = x => c \in Registered
  PROVE  ChannelApart(x)'
<1>1. \A c \in Registered' : c.chan = x => c \in Registered
  OBVIOUS
<1>2. OwnedWhileOpen(x)'
  BY <1>1 DEF ChannelApart, OwnedWhileOpen, Owns, Closes
<1>3. NotClosedYet(x)' /\ NoClientYet(x)' /\ ResumesForOwn(x)' /\ SendsToOwn(x)'
  BY DEF ChannelApart, NotClosedYet, NoClientYet, ResumesForOwn, SendsToOwn, Closes
<1>4. SubscribesForOwn(x)'
  BY <1>1 DEF ChannelApart, SubscribesForOwn
<1> QED
  BY <1>2, <1>3, <1>4 DEF ChannelApart

LEMMA ApartStep ==
  ASSUME ApartInv, AloneInv, Contends, NEW ch \in Channels, Others(ch),
         \A x \in Channels \ {ch} : param'[x] = param[x] /\ Closes(x),
         contended' = {} /\ ChannelApart(ch) => RegisteredStep(ch) /\ ChannelApart(ch)'
  PROVE  ApartInv'
<1> SUFFICES ASSUME contended' = {}, NEW x \in Channels
             PROVE  ChannelApart(x)'
  BY DEF ApartInv
<1>1. \A y \in Channels : ChannelApart(y)
  BY Uncontended DEF ApartInv
<1>2. CASE x = ch
  BY <1>1, <1>2
<1>3. CASE x # ch
  BY <1>1, <1>3, ApartOther DEF Others, RegisteredStep
<1> QED
  BY <1>2, <1>3

LEMMA CloseCloses ==
  ASSUME NEW s, Close(s)
  PROVE  \A x \in Channels : Closes(x)
BY DEF Close, Closes

\* A handler returns that neither leaves nor is about to set its client.
LEMMA OwnReturns ==
  ASSUME NEW ch, Closes(ch), param'[ch] = param[ch], Registered' \subseteq Registered, ChannelApart(ch),
         frame'[ch] = Idle, frame[ch].rq.op \notin Leaving, frame[ch].pc # "set_param"
  PROVE  ChannelApart(ch)'
<1>1. frame'[ch].pc = "idle" /\ frame'[ch].rq.op = "idle"
  BY DEF Idle
<1>2. OwnedWhileOpen(ch)'
  <2> SUFFICES ASSUME chan'[ch] = "open", NEW c \in Registered', c.chan = ch
               PROVE  Owns(ch, c)'
    BY DEF OwnedWhileOpen
  <2>1. chan[ch] = "open" /\ c \in Registered
    BY DEF Closes
  <2>2. Owns(ch, c)
    BY <2>1 DEF ChannelApart, OwnedWhileOpen
  <2> QED
    BY <2>2 DEF Owns
<1>3. NotClosedYet(ch)'
  BY <1>1 DEF NotClosedYet
<1>4. NoClientYet(ch)'
  BY <1>1 DEF NoClientYet, Connecting
<1>5. SubscribesForOwn(ch)'
  BY <1>1 DEF SubscribesForOwn
<1>6. ResumesForOwn(ch)' /\ SendsToOwn(ch)'
  BY <1>1 DEF ResumesForOwn, SendsToOwn
<1> QED
  BY <1>2, <1>3, <1>4, <1>5, <1>6 DEF ChannelApart

\* A handler goes on with what it has.
GoesOn(fr, g) ==
  /\ g.agent = fr.agent /\ g.rq = fr.rq /\ fr.pc # "set_param"
  /\ g.pc \notin {"set_param", "send_retained", "send_null"}
  /\ g.pc \in Connecting \cup {"reg_client"} => fr.pc \in Connecting
  /\ fr.rq.op = "resume" => fr.pc # "reg_client"

LEMMA OwnGoesOn ==
  ASSUME NEW ch, Closes(ch), param'[ch] = param[ch], Registered' \subseteq Registered, ChannelApart(ch),
         GoesOn(frame[ch], frame'[ch])
  PROVE  ChannelApart(ch)'
<1>1. PICK fr, g : fr = frame[ch] /\ g = frame'[ch]
  OBVIOUS
<1>2. GoesOn(fr, g)
  BY <1>1
<1>3. OwnedWhileOpen(ch)'
  <2> SUFFICES ASSUME chan'[ch] = "open", NEW c \in Registered', c.chan = ch
               PROVE  Owns(ch, c)'
    BY DEF OwnedWhileOpen
  <2>1. chan[ch] = "open" /\ c \in Registered
    BY DEF Closes
  <2>2. Owns(ch, c)
    BY <2>1 DEF ChannelApart, OwnedWhileOpen
  <2> QED
    BY <1>1, <1>2, <2>2 DEF Owns, GoesOn
<1>4. NotClosedYet(ch)'
  <2>1. NotClosedYet(ch)
    BY DEF ChannelApart
  <2> QED
    BY <1>1, <1>2, <2>1 DEF NotClosedYet, GoesOn, Closes
<1>5. NoClientYet(ch)'
  <2>1. NoClientYet(ch)
    BY DEF ChannelApart
  <2> QED
    BY <1>1, <1>2, <2>1 DEF NoClientYet, GoesOn, Closes
<1>6. SubscribesForOwn(ch)'
  <2>1. SubscribesForOwn(ch)
    BY DEF ChannelApart
  <2> QED
    BY <1>1, <1>2, <2>1 DEF SubscribesForOwn, GoesOn
<1>7. ResumesForOwn(ch)'
  <2>1. ResumesForOwn(ch)
    BY DEF ChannelApart
  <2> QED
    BY <1>1, <1>2, <2>1 DEF ResumesForOwn, GoesOn, Closes
<1>8. SendsToOwn(ch)'
  BY <1>1, <1>2 DEF SendsToOwn, GoesOn
<1> QED
  BY <1>3, <1>4, <1>5, <1>6, <1>7, <1>8 DEF ChannelApart

LEMMA QuietApart ==
  ASSUME Core, ApartInv, AloneInv, Contends, NEW ch \in Channels, Quiet(ch)
  PROVE  ApartInv'
<1>1. \A x \in Channels : Closes(x) /\ param'[x] = param[x]
  BY DEF Quiet, Closes
<1>2. frame[ch].pc \notin {"set_param", "reg_client"} /\ UNCHANGED clients /\ Stays(ch) /\ Others(ch)
  BY DEF Quiet, Ordinary, Stays
<1>3. \/ frame'[ch] = Idle /\ frame[ch].rq.op \notin Leaving
      \/ GoesOn(frame[ch], frame'[ch])
  BY <1>2 DEF Stays, Ordinary, Connecting, GoesOn
<1>4. Registered' \subseteq Registered
  <2>1. frame'[ch].pc # "take_over"
    BY <1>2 DEF Stays, Ordinary, Idle
  <2> QED
    BY <1>2, <2>1, RegisteredKept
<1>5. ChannelApart(ch) => ChannelApart(ch)'
  BY <1>1, <1>2, <1>3, <1>4, OwnReturns, OwnGoesOn
<1>6. RegisteredStep(ch)
  BY <1>4 DEF RegisteredStep
<1> QED
  BY <1>1, <1>2, <1>5, <1>6, ApartStep

PlacesServed == \A ch \in Channels : frame[ch].pc = "new_session" => frame[ch].rq.op = "connect"

LEMMA PlacesAre == Core => PlacesServed
BY HandlerFacts DEF PlacesServed, Serves, Connecting

LEMMA PlacesNext == Core' => PlacesServed'
BY PlacesAre, PTL

\* The handler of a CONNECT before it has a client to register.
LEMMA ConnectingApart ==
  ASSUME Core, ApartInv, AloneInv, Contends, NEW ch \in Channels,
         get_client(ch) \/ delete_client(ch) \/ close_old(ch)
  PROVE  ApartInv'
<1>1. /\ frame[ch].pc \in {"get_client", "delete_client", "close_old"}
      /\ frame'[ch].pc \in Connecting /\ Others(ch) /\ UNCHANGED param
      /\ frame'[ch].agent = frame[ch].agent /\ frame'[ch].rq = frame[ch].rq
      /\ \A x \in Channels : Closes(x)
  <2>1. CASE get_client(ch)
    BY <2>1, GetClientMoves DEF Closes, Connecting
  <2>2. CASE delete_client(ch)
    BY <2>2, DeleteClientMoves DEF Closes, Connecting
  <2>3. CASE close_old(ch)
    BY <2>3, CloseOldMoves, CloseCloses DEF Connecting
  <2> QED
    BY <2>1, <2>2, <2>3
<1>2. Busy(ch) /\ frame[ch].rq.op = "connect"
  BY <1>1, HandlerFacts DEF Serves, Connecting, Busy
<1>3. GoesOn(frame[ch], frame'[ch])
  BY <1>1, <1>2 DEF GoesOn, Connecting
<1>4. ASSUME contended' = {}, ChannelApart(ch)
      PROVE  Registered' \subseteq Registered
  <2>1. CASE get_client(ch) \/ close_old(ch)
    <3>1. UNCHANGED clients /\ frame'[ch].pc # "take_over"
      BY <2>1, GetClientMoves, CloseOldMoves
    <3> QED
      BY <1>1, <3>1, RegisteredKept
  <2>2. CASE delete_client(ch)
    <3>1. /\ frame[ch].pc = "delete_client" /\ frame'[ch].to = frame[ch].to
          /\ clients' = [clients EXCEPT ![frame[ch].agent.cid] = NULL]
      BY <2>2, DeleteClientMoves
    <3>2. frame[ch].agent.cid \in ClientIds
      BY <3>1, HandlerFacts
    <3>3. Knows(frame[ch])
      BY <1>2, <1>4, Uncontended
    <3>4. frame[ch].to = {clients[frame[ch].agent.cid]}
      BY <3>1, <3>3 DEF Knows
    <3>5. \A c \in frame'[ch].to : c = NULL \/ c \in Registered
      BY <3>1, <3>2, <3>4, RegisteredAre DEF RegisteredFacts
    <3>6. \A i \in ClientIds : clients'[i] \in {clients[i], NULL}
      BY <3>1, <3>2 DEF Core, TypesInv, RegistryTypes
    <3> QED
      BY <1>1, <3>5, <3>6, RegisteredKept
  <2> QED
    BY <2>1, <2>2
<1>5. contended' = {} /\ ChannelApart(ch) => RegisteredStep(ch) /\ ChannelApart(ch)'
  BY <1>1, <1>3, <1>4, OwnGoesOn DEF RegisteredStep
<1> QED
  BY <1>1, <1>5, ApartStep

LEMMA SessionApart ==
  ASSUME Core, Core', ApartInv, AloneInv, Contends, NEW ch \in Channels, session(ch) \/ new_session(ch)
  PROVE  ApartInv'
<1>1. /\ frame[ch].pc \in {"session", "new_session"}
      /\ UNCHANGED <<param, clients, chan>>
      /\ Others(ch)
      /\ frame'[ch].rq.op \in {"connect", "resume"}
      /\ frame'[ch].pc \in {"new_session", "reg_client"}
  BY SessionMoves
<1>2. frame[ch].rq.op = "connect"
  BY <1>1, HandlerFacts DEF Serves, Connecting
<1>3. Registered' \subseteq Registered
  BY <1>1, RegisteredKept
<1>4. ASSUME ChannelApart(ch)
      PROVE  ChannelApart(ch)'
  <2>1. OwnedWhileOpen(ch)'
    <3> SUFFICES ASSUME chan[ch] = "open", NEW c \in Registered', c.chan = ch
                 PROVE  Owns(ch, c)'
      BY <1>1 DEF OwnedWhileOpen
    <3>1. Owns(ch, c)
      BY <1>3, <1>4 DEF ChannelApart, OwnedWhileOpen
    <3> QED
      BY <1>1, <1>2, <3>1 DEF Owns, Leaving
  <2>2. NotClosedYet(ch)'
    BY <1>1, <1>2, <1>4 DEF ChannelApart, NotClosedYet
  <2>3. NoClientYet(ch)'
    BY <1>1, <1>4 DEF ChannelApart, NoClientYet, Connecting
  <2>4. SubscribesForOwn(ch)' /\ SendsToOwn(ch)'
    BY <1>1 DEF SubscribesForOwn, SendsToOwn
  <2>5. ResumesForOwn(ch)'
    <3>1. CASE frame'[ch].pc = "reg_client"
      BY <3>1 DEF ResumesForOwn
    <3>2. CASE frame'[ch].pc = "new_session"
      <4>1. frame'[ch].rq.op = "connect"
        BY <3>2, PlacesNext DEF PlacesServed
      <4> QED
        BY <4>1 DEF ResumesForOwn
    <3> QED
      BY <1>1, <3>1, <3>2
  <2> QED
    BY <2>1, <2>2, <2>3, <2>4, <2>5 DEF ChannelApart
<1>5. \A x \in Channels : param'[x] = param[x] /\ Closes(x)
  BY <1>1 DEF Closes
<1> QED
  BY <1>1, <1>3, <1>4, <1>5, ApartStep DEF RegisteredStep

LEMMA RegClientApart ==
  ASSUME Core, ApartInv, AloneInv, Contends, NEW ch \in Channels, reg_client(ch)
  PROVE  ApartInv'
<1>1. /\ frame[ch].pc = "reg_client" /\ UNCHANGED <<param, chan>>
      /\ clients' = [clients EXCEPT ![frame[ch].agent.cid] = IF @ = NULL THEN frame[ch].agent ELSE @]
      /\ Others(ch) /\ frame'[ch].agent = frame[ch].agent /\ frame'[ch].rq = frame[ch].rq
      /\ frame'[ch].pc = "set_param"
  BY RegClientMoves
<1>2. /\ frame[ch].rq.op \in {"connect", "resume"} /\ frame[ch].agent.chan = ch
      /\ frame[ch].agent.cid \in ClientIds
  BY <1>1, HandlerFacts DEF Serves
<1>3. \A i \in ClientIds : clients'[i] \in {clients[i], frame[ch].agent}
  BY <1>1, <1>2 DEF Core, TypesInv, RegistryTypes
<1>4. \A c \in Registered' : c \in Registered \/ c = frame[ch].agent
  <2> SUFFICES ASSUME NEW c \in Registered'
               PROVE  c \in Registered \/ c = frame[ch].agent
    OBVIOUS
  <2>1. c # NULL
    BY RegisteredNext DEF RegisteredFacts
  <2>2. CASE \E i \in ClientIds : clients'[i] = c
    BY <1>3, <2>1, <2>2, RegisteredAre DEF RegisteredFacts
  <2>3. CASE \E h \in Channels : frame'[h].pc = "take_over" /\ c \in frame'[h].to
    BY <1>1, <2>1, <2>3, RegisteredAre DEF RegisteredFacts, Others
  <2> QED
    BY <2>2, <2>3, RegisteredNext DEF RegisteredFacts
<1>5. ASSUME ChannelApart(ch)
      PROVE  ChannelApart(ch)'
  <2>1. OwnedWhileOpen(ch)'
    <3> SUFFICES ASSUME chan[ch] = "open", NEW c \in Registered', c.chan = ch
                 PROVE  Owns(ch, c)'
      BY <1>1 DEF OwnedWhileOpen
    <3>1. CASE c \in Registered
      <4>1. Owns(ch, c)
        BY <1>5, <3>1 DEF ChannelApart, OwnedWhileOpen
      <4> QED
        BY <1>1, <1>2, <4>1 DEF Owns, Leaving
    <3>2. CASE c = frame[ch].agent
      BY <1>1, <3>2 DEF Owns
    <3> QED
      BY <1>4, <3>1, <3>2
  <2>2. NotClosedYet(ch)'
    BY <1>1, <1>5 DEF ChannelApart, NotClosedYet
  <2>3. NoClientYet(ch)'
    BY <1>1, <1>5 DEF ChannelApart, NoClientYet
  <2>4. SubscribesForOwn(ch)' /\ SendsToOwn(ch)' /\ ResumesForOwn(ch)'
    BY <1>1, <1>2 DEF SubscribesForOwn, SendsToOwn, ResumesForOwn
  <2> QED
    BY <2>1, <2>2, <2>3, <2>4 DEF ChannelApart
<1>6. \A x \in Channels : param'[x] = param[x] /\ Closes(x)
  BY <1>1 DEF Closes
<1>7. RegisteredStep(ch)
  BY <1>2, <1>4 DEF RegisteredStep
<1> QED
  BY <1>1, <1>5, <1>6, <1>7, ApartStep

LEMMA SetParamApart ==
  ASSUME Core, ApartInv, AloneInv, Contends, NEW ch \in Channels, set_param(ch)
  PROVE  ApartInv'
<1>1. /\ frame[ch].pc = "set_param" /\ UNCHANGED <<clients, chan>>
      /\ param'[ch] = frame[ch].agent
      /\ \A x \in Channels \ {ch} : param'[x] = param[x]
      /\ Others(ch)
      /\ \/ frame'[ch] = Idle
         \/ /\ frame'[ch].agent = frame[ch].agent /\ frame'[ch].rq = frame[ch].rq
            /\ frame'[ch].pc = "restore" /\ frame[ch].rq.op = "resume"
  BY SetParamMoves
<1>2. frame'[ch].pc \in {"idle", "restore"} /\ frame'[ch].rq.op \in {"idle", "resume"}
      /\ (frame'[ch].rq.op = "resume" => frame[ch].rq.op = "resume" /\ frame'[ch].agent = frame[ch].agent)
  BY <1>1 DEF Idle
<1>3. frame[ch].agent # NULL
  BY <1>1, HandlerFacts DEF Has
<1>4. Registered' \subseteq Registered
  BY <1>1, <1>2, RegisteredKept
<1>5. ASSUME ChannelApart(ch)
      PROVE  ChannelApart(ch)'
  <2>1. OwnedWhileOpen(ch)'
    <3> SUFFICES ASSUME chan[ch] = "open", NEW c \in Registered', c.chan = ch
                 PROVE  Owns(ch, c)'
      BY <1>1 DEF OwnedWhileOpen
    <3>1. Owns(ch, c)
      BY <1>4, <1>5 DEF ChannelApart, OwnedWhileOpen
    <3>2. param[ch] = NULL
      BY <1>1, <1>5 DEF ChannelApart, NoClientYet
    <3>3. c # NULL
      BY <1>4, RegisteredAre DEF RegisteredFacts
    <3> QED
      BY <1>1, <3>1, <3>2, <3>3 DEF Owns
  <2>2. NotClosedYet(ch)'
    BY <1>1, <1>2, <1>5 DEF ChannelApart, NotClosedYet
  <2>3. NoClientYet(ch)'
    BY <1>2 DEF NoClientYet, Connecting
  <2>4. SubscribesForOwn(ch)' /\ SendsToOwn(ch)' /\ ResumesForOwn(ch)'
    BY <1>1, <1>2 DEF SubscribesForOwn, SendsToOwn, ResumesForOwn
  <2> QED
    BY <2>1, <2>2, <2>3, <2>4 DEF ChannelApart
<1>6. \A x \in Channels \ {ch} : param'[x] = param[x] /\ Closes(x)
  BY <1>1 DEF Closes
<1> QED
  BY <1>1, <1>4, <1>5, <1>6, ApartStep DEF RegisteredStep

LEMMA DeregisterApart ==
  ASSUME Core, ApartInv, AloneInv, Contends, NEW ch \in Channels, deregister(ch)
  PROVE  ApartInv'
<1>1. /\ frame[ch].pc = "deregister" /\ UNCHANGED <<param, chan>>
      /\ clients' = [clients EXCEPT ![frame[ch].agent.cid] = NULL]
      /\ Others(ch) /\ frame'[ch] = Idle
  BY DeregisterMoves
<1>2. Busy(ch) /\ frame[ch].agent.cid \in ClientIds
  BY <1>1, HandlerFacts DEF Busy
<1>3. /\ clients'[frame[ch].agent.cid] = NULL
      /\ \A i \in ClientIds : clients'[i] \in {clients[i], NULL}
  BY <1>1, <1>2 DEF Core, TypesInv, RegistryTypes
<1>4. Registered' \subseteq Registered /\ frame'[ch].pc = "idle" /\ frame'[ch].rq.op = "idle"
  BY <1>1, <1>3, RegisteredKept DEF Idle
<1>5. ASSUME contended' = {}, ChannelApart(ch)
      PROVE  ChannelApart(ch)'
  <2>1. OwnedWhileOpen(ch)'
    <3> SUFFICES ASSUME chan[ch] = "open", NEW c \in Registered', c.chan = ch
                 PROVE  Owns(ch, c)'
      BY <1>1 DEF OwnedWhileOpen
    <3>1. Owns(ch, c)
      BY <1>4, <1>5 DEF ChannelApart, OwnedWhileOpen
    <3>2. c # frame[ch].agent
      <4> SUFFICES ASSUME c = frame[ch].agent
                   PROVE  FALSE
        OBVIOUS
      <4>1. c # NULL
        BY <1>4, RegisteredAre DEF RegisteredFacts
      <4>2. ASSUME NEW i \in ClientIds, clients'[i] = c
            PROVE  FALSE
        <5>1. clients[i] = c
          BY <1>3, <4>1, <4>2
        <5>2. c.cid = i
          BY <4>1, <5>1 DEF AloneInv
        <5> QED
          BY <1>3, <4>1, <4>2, <5>2
      <4>3. ASSUME NEW h \in Channels, frame'[h].pc = "take_over", c \in frame'[h].to
            PROVE  FALSE
        <5>1. h # ch /\ frame[h].pc = "take_over" /\ c \in frame[h].to
          BY <1>1, <1>4, <4>3 DEF Others
        <5>2. Busy(h) /\ Knows(frame[h])
          BY <1>5, <5>1, Uncontended DEF Busy
        <5>3. c.cid = frame[h].agent.cid
          BY <5>1, <5>2 DEF Knows
        <5> QED
          BY <1>2, <1>5, <5>1, <5>2, <5>3, Uncontended DEF Distinct
      <4> QED
        BY <4>2, <4>3, RegisteredNext DEF RegisteredFacts
    <3> QED
      BY <1>1, <3>1, <3>2 DEF Owns
  <2>2. NotClosedYet(ch)' /\ NoClientYet(ch)'
    BY <1>4 DEF NotClosedYet, NoClientYet, Connecting
  <2>3. SubscribesForOwn(ch)' /\ SendsToOwn(ch)' /\ ResumesForOwn(ch)'
    BY <1>4 DEF SubscribesForOwn, SendsToOwn, ResumesForOwn
  <2> QED
    BY <2>1, <2>2, <2>3 DEF ChannelApart
<1>6. \A x \in Channels \ {ch} : param'[x] = param[x] /\ Closes(x)
  BY <1>1 DEF Closes
<1> QED
  BY <1>1, <1>4, <1>5, <1>6, ApartStep DEF RegisteredStep

LEMMA TakeOverApart ==
  ASSUME Core, ApartInv, AloneInv, Contends, NEW ch \in Channels, take_over(ch)
  PROVE  ApartInv'
<1>1. /\ frame[ch].pc = "take_over" /\ UNCHANGED <<clients, chan>>
      /\ \A x \in Channels :
           param'[x] = IF \E c \in frame[ch].to : c.chan = x THEN NULL ELSE param[x]
      /\ Others(ch) /\ frame'[ch].agent = frame[ch].agent /\ frame'[ch].rq = frame[ch].rq
      /\ frame'[ch].pc = "close_old"
  BY TakeOverMoves
<1>2. Busy(ch) /\ frame[ch].rq.op = "connect"
  BY <1>1, HandlerFacts DEF Serves, Connecting, Busy
<1>3. Registered' \subseteq Registered
  BY <1>1, RegisteredKept
<1> SUFFICES ASSUME contended' = {}, NEW x \in Channels
             PROVE  ChannelApart(x)'
  BY DEF ApartInv
<1>4. /\ \A y \in Channels : ChannelApart(y)
      /\ Distinct /\ \A y \in Channels : Busy(y) => Knows(frame[y])
  BY Uncontended DEF ApartInv
<1>5. PICK c : c # NULL /\ frame[ch].to = {c} /\ c.cid = frame[ch].agent.cid /\ clients[c.cid] = NULL
  BY <1>1, <1>2, <1>4 DEF Knows
<1>6. c \in Registered
  BY <1>1, <1>5, RegisteredAre DEF RegisteredFacts
<1>7. c \notin Registered'
  <2>1. ASSUME NEW i \in ClientIds, clients'[i] = c
        PROVE  FALSE
    BY <1>1, <1>5, <2>1 DEF AloneInv
  <2>2. ASSUME NEW h \in Channels, frame'[h].pc = "take_over", c \in frame'[h].to
        PROVE  FALSE
    <3>1. h # ch /\ frame[h].pc = "take_over" /\ c \in frame[h].to
      BY <1>1, <2>2 DEF Others
    <3>2. Busy(h) /\ Knows(frame[h])
      BY <1>4, <3>1 DEF Busy
    <3>3. c.cid = frame[h].agent.cid
      BY <3>1, <3>2 DEF Knows
    <3> QED
      BY <1>2, <1>4, <1>5, <3>1, <3>2, <3>3 DEF Distinct
  <2> QED
    BY <2>1, <2>2, RegisteredNext DEF RegisteredFacts
<1>8. CASE c.chan # x
  <2>1. param'[x] = param[x] /\ Closes(x)
    BY <1>1, <1>5, <1>8 DEF Closes
  <2>2. CASE x # ch
    BY <1>1, <1>3, <1>4, <2>1, <2>2, ApartOther DEF Others, RegisteredStep
  <2>3. CASE x = ch
    <3>1. GoesOn(frame[ch], frame'[ch])
      BY <1>1, <1>2 DEF GoesOn, Connecting
    <3> QED
      BY <1>3, <1>4, <2>1, <2>3, <3>1, OwnGoesOn
  <2> QED
    BY <2>2, <2>3
<1>9. CASE c.chan = x /\ x = ch
  <2>1. chan[ch] = "open" => param[ch] = NULL
    BY <1>1, <1>4 DEF ChannelApart, NoClientYet, Connecting
  <2>2. ~Owns(ch, c) \/ chan[ch] # "open"
    BY <1>1, <1>2, <1>5, <2>1 DEF Owns, Leaving
  <2>3. chan[ch] # "open"
    BY <1>4, <1>6, <1>9, <2>2 DEF ChannelApart, OwnedWhileOpen
  <2>4. OwnedWhileOpen(ch)' /\ NoClientYet(ch)'
    BY <1>1, <2>3 DEF OwnedWhileOpen, NoClientYet
  <2>5. NotClosedYet(ch)'
    BY <1>1, <1>4 DEF ChannelApart, NotClosedYet
  <2>6. SubscribesForOwn(ch)' /\ SendsToOwn(ch)' /\ ResumesForOwn(ch)'
    BY <1>1, <1>2 DEF SubscribesForOwn, SendsToOwn, ResumesForOwn
  <2> QED
    BY <1>9, <2>4, <2>5, <2>6 DEF ChannelApart
<1>10. CASE c.chan = x /\ x # ch
  <2>1. frame'[x] = frame[x] /\ param'[x] = NULL
    BY <1>1, <1>5, <1>10 DEF Others
  <2>2. ASSUME frame[x].agent = c, Busy(x)
        PROVE  FALSE
    BY <1>2, <1>4, <1>5, <1>10, <2>2 DEF Distinct
  <2>3. frame[x].rq.op \in {"subscribe", "resume"} \cup Leaving \/ frame[x].pc = "set_param" => Busy(x)
    BY HandlerFacts, IdleFrame DEF Has, Busy, Leaving, Idle
  <2>4. OwnedWhileOpen(x)'
    <3> SUFFICES ASSUME chan[x] = "open", NEW d \in Registered', d.chan = x
                 PROVE  Owns(x, d)'
      BY <1>1 DEF OwnedWhileOpen
    <3>1. Owns(x, d) /\ Owns(x, c)
      BY <1>3, <1>4, <1>6, <1>10 DEF ChannelApart, OwnedWhileOpen
    <3>2. param[x] = c
      BY <2>2, <2>3, <3>1 DEF Owns
    <3>3. param[x] # d
      BY <1>7, <3>2
    <3> QED
      BY <2>1, <3>1, <3>3 DEF Owns
  <2>5. NotClosedYet(x)'
    BY <1>1, <1>4, <2>1 DEF ChannelApart, NotClosedYet
  <2>6. NoClientYet(x)'
    BY <2>1 DEF NoClientYet
  <2>7. SubscribesForOwn(x)'
    <3>1. frame[x].rq.op # "subscribe"
      BY <1>4, <1>6, <1>10, <2>2, <2>3 DEF ChannelApart, SubscribesForOwn
    <3> QED
      BY <2>1, <3>1 DEF SubscribesForOwn
  <2>8. ResumesForOwn(x)'
    <3> SUFFICES ASSUME frame[x].rq.op = "resume", frame[x].pc \notin {"reg_client", "set_param"},
                        chan[x] # "closing"
                 PROVE  FALSE
      BY <1>1, <2>1 DEF ResumesForOwn
    <3>1. param[x] = frame[x].agent /\ chan[x] # "closed"
      BY <1>4 DEF ChannelApart, ResumesForOwn, NotClosedYet
    <3>2. chan[x] = "open"
      BY <3>1 DEF Core, TypesInv, OutsideTypes
    <3>3. Owns(x, c)
      BY <1>4, <1>6, <1>10, <3>2 DEF ChannelApart, OwnedWhileOpen
    <3>4. frame[x].agent = c
      BY <3>1, <3>3 DEF Owns
    <3> QED
      BY <2>2, <2>3, <3>4
  <2>9. SendsToOwn(x)'
    BY <1>1, <1>4, <2>1 DEF ChannelApart, SendsToOwn
  <2> QED
    BY <2>4, <2>5, <2>6, <2>7, <2>8, <2>9 DEF ChannelApart
<1> QED
  BY <1>8, <1>9, <1>10

LEMMA ReadRetainedApart ==
  ASSUME Core, ApartInv, AloneInv, Contends, NEW ch \in Channels, read_retained(ch)
  PROVE  ApartInv'
<1>1. /\ frame[ch].pc = "read_retained" /\ UNCHANGED <<param, clients, chan>>
      /\ Others(ch) /\ frame'[ch].agent = frame[ch].agent /\ frame'[ch].rq = frame[ch].rq
      /\ frame'[ch].pc \in {"send_retained", "send_null"} /\ frame'[ch].to = {param[ch]}
  BY ReadRetainedMoves
<1>2. frame[ch].rq.op \in {"subscribe", "resume"} /\ frame[ch].agent # NULL
  BY <1>1, HandlerFacts DEF Serves, Passing, Has
<1>3. Registered' \subseteq Registered
  BY <1>1, RegisteredKept
<1>4. \A x \in Channels : param'[x] = param[x] /\ Closes(x)
  BY <1>1 DEF Closes
<1>5. ASSUME ChannelApart(ch)
      PROVE  ChannelApart(ch)'
  <2>1. OwnedWhileOpen(ch)'
    <3> SUFFICES ASSUME chan[ch] = "open", NEW c \in Registered', c.chan = ch
                 PROVE  Owns(ch, c)'
      BY <1>1 DEF OwnedWhileOpen
    <3>1. Owns(ch, c)
      BY <1>3, <1>5 DEF ChannelApart, OwnedWhileOpen
    <3> QED
      BY <1>1, <3>1 DEF Owns
  <2>2. NotClosedYet(ch)'
    BY <1>1, <1>5 DEF ChannelApart, NotClosedYet
  <2>3. NoClientYet(ch)'
    BY <1>1 DEF NoClientYet, Connecting
  <2>4. SubscribesForOwn(ch)'
    BY <1>1, <1>3, <1>5 DEF ChannelApart, SubscribesForOwn
  <2>5. ResumesForOwn(ch)'
    BY <1>1, <1>5 DEF ChannelApart, ResumesForOwn
  <2>6. SendsToOwn(ch)'
    <3> SUFFICES ASSUME param[ch] = NULL
                 PROVE  frame[ch].rq.op = "resume" /\ chan[ch] = "closing"
      BY <1>1 DEF SendsToOwn
    <3>1. frame[ch].rq.op = "resume"
      BY <1>2, <1>5 DEF ChannelApart, SubscribesForOwn
    <3> QED
      BY <1>1, <1>2, <1>5, <3>1 DEF ChannelApart, ResumesForOwn
  <2> QED
    BY <2>1, <2>2, <2>3, <2>4, <2>5, <2>6 DEF ChannelApart
<1> QED
  BY <1>1, <1>3, <1>4, <1>5, ApartStep DEF RegisteredStep

LEMMA SendRetainedApart ==
  ASSUME Core, ApartInv, AloneInv, Contends, NEW ch \in Channels, send_retained(ch)
  PROVE  ApartInv'
<1>1. /\ frame[ch].pc \in {"send_retained", "send_null"} /\ UNCHANGED <<param, clients>> /\ Others(ch)
      /\ \/ UNCHANGED <<chan, frame>>
         \/ UNCHANGED chan /\ Stays(ch) /\ frame'[ch].pc = "deliver"
         \/ Close({ch}) /\ frame'[ch] = Idle
  BY SendRetainedMoves
<1>2. frame[ch].rq.op \in {"subscribe", "resume"}
  BY <1>1, HandlerFacts DEF Serves, Passing
<1>3. \A x \in Channels : param'[x] = param[x] /\ Closes(x)
  BY <1>1, CloseCloses DEF Closes
<1>4. frame'[ch].pc # "take_over"
  BY <1>1 DEF Idle
<1>5. Registered' \subseteq Registered
  BY <1>1, <1>4, RegisteredKept
<1>6. ASSUME ChannelApart(ch)
      PROVE  ChannelApart(ch)'
  <2>1. CASE UNCHANGED <<chan, frame>>
    <3>1. OwnedWhileOpen(ch)' /\ SubscribesForOwn(ch)'
      BY <1>1, <1>5, <1>6, <2>1 DEF ChannelApart, OwnedWhileOpen, SubscribesForOwn, Owns
    <3> QED
      BY <1>1, <1>6, <2>1, <3>1 DEF ChannelApart, NotClosedYet, NoClientYet, ResumesForOwn, SendsToOwn
  <2>2. CASE Stays(ch) /\ frame'[ch].pc = "deliver"
    <3>1. frame'[ch].agent = frame[ch].agent /\ frame'[ch].rq = frame[ch].rq
      BY <2>2 DEF Stays, Idle
    <3>2. GoesOn(frame[ch], frame'[ch])
      BY <1>1, <2>2, <3>1 DEF GoesOn, Connecting
    <3> QED
      BY <1>3, <1>5, <1>6, <3>2, OwnGoesOn
  <2>3. CASE frame'[ch] = Idle
    BY <1>1, <1>2, <1>3, <1>5, <1>6, <2>3, OwnReturns DEF Leaving
  <2> QED
    BY <1>1, <2>1, <2>2, <2>3
<1> QED
  BY <1>1, <1>3, <1>5, <1>6, ApartStep DEF RegisteredStep

-----------------------------------------------------------------------------
(* ApartInv where a handler begins or a connection breaks                  *)

LEMMA IdleHas ==
  ASSUME Core, NEW ch \in Channels, ~Busy(ch)
  PROVE  frame[ch].pc = "idle" /\ frame[ch].rq.op = "idle" /\ frame[ch].agent = NULL
<1>1. frame[ch].pc = "idle" /\ frame[ch] = Idle
  BY HandlerFacts DEF Has, Busy
<1>2. PICK i : i = Idle
  OBVIOUS
<1>3. i.rq.op = "idle" /\ i.agent = NULL
  BY <1>2 DEF Idle
<1> QED
  BY <1>1, <1>2, <1>3

\* The clients of a channel without a handler.
LEMMA IdleOwns ==
  ASSUME Core, NEW ch \in Channels, ~Busy(ch), ChannelApart(ch), chan[ch] = "open"
  PROVE  \A c \in Registered : c.chan = ch => c = param[ch] /\ c # NULL
<1> SUFFICES ASSUME NEW c \in Registered, c.chan = ch
             PROVE  c = param[ch] /\ c # NULL
  OBVIOUS
<1>1. Owns(ch, c)
  BY DEF ChannelApart, OwnedWhileOpen
<1> QED
  BY <1>1, IdleHas, RegisteredAre DEF Owns, Leaving, RegisteredFacts

\* A handler begins for the channel's client.
Begins(ch) ==
  /\ frame'[ch].agent = param[ch]
  /\ frame'[ch].pc \in {"to_subscribe", "lookup", "publish", "unsubscribe_all", "puback", "will"}
  /\ frame'[ch].rq.op \in {"subscribe", "unsubscribe", "publish", "puback"} \cup Leaving
  /\ param'[ch] = param[ch] \/ frame'[ch].rq.op \in Leaving
  /\ \/ chan[ch] = "open"
     \/ frame'[ch].rq.op # "subscribe" /\ chan'[ch] # "open"

LEMMA BeginsApart ==
  ASSUME Core, NEW ch \in Channels, ~Busy(ch), ChannelApart(ch), Registered' \subseteq Registered,
         Begins(ch)
  PROVE  ChannelApart(ch)'
<1>1. chan[ch] = "open" => \A c \in Registered' : c.chan = ch => c = param[ch]
  BY IdleOwns
<1>2. OwnedWhileOpen(ch)'
  BY <1>1 DEF OwnedWhileOpen, Owns, Begins
<1>3. NotClosedYet(ch)' /\ NoClientYet(ch)'
  BY DEF NotClosedYet, NoClientYet, Begins, Connecting, Leaving
<1>4. SubscribesForOwn(ch)'
  BY <1>1 DEF SubscribesForOwn, Begins, Leaving
<1>5. ResumesForOwn(ch)' /\ SendsToOwn(ch)'
  BY DEF ResumesForOwn, SendsToOwn, Begins, Leaving
<1> QED
  BY <1>2, <1>3, <1>4, <1>5 DEF ChannelApart

LEMMA ReadApart ==
  ASSUME Core, ApartInv, AloneInv, Contends, NEW ch \in Channels, channel_read(ch)
  PROVE  ApartInv'
<1>1. /\ ~Busy(ch) /\ UNCHANGED clients /\ Others(ch)
      /\ \A x \in Channels \ {ch} : param'[x] = param[x]
      /\ \/ UNCHANGED frame /\ Close({ch}) /\ param[ch] = NULL /\ param'[ch] = NULL
         \/ /\ UNCHANGED chan /\ chan[ch] = "open"
            /\ frame'[ch].pc \in {"to_subscribe", "lookup", "publish", "unsubscribe_all"}
            /\ frame'[ch].agent = param[ch]
            /\ \/ frame'[ch].rq.op \in {"subscribe", "unsubscribe", "publish"} /\ UNCHANGED param
               \/ frame'[ch].rq.op = "disconnect"
  BY ReadMoves
<1>2. \A x \in Channels : Closes(x)
  BY <1>1, CloseCloses DEF Closes
<1>3. frame'[ch].pc # "take_over"
  BY <1>1, IdleHas
<1>4. Registered' \subseteq Registered
  BY <1>1, <1>3, RegisteredKept
<1>5. ASSUME ChannelApart(ch)
      PROVE  ChannelApart(ch)'
  <2>1. CASE UNCHANGED frame /\ param'[ch] = param[ch]
    BY <1>2, <1>4, <1>5, <2>1, ApartOther
  <2>2. CASE Begins(ch)
    BY <1>1, <1>4, <1>5, <2>2, BeginsApart
  <2>3. (UNCHANGED frame /\ param'[ch] = param[ch]) \/ Begins(ch)
    BY <1>1 DEF Begins, Leaving
  <2> QED
    BY <2>1, <2>2, <2>3
<1> QED
  BY <1>1, <1>2, <1>4, <1>5, ApartStep DEF RegisteredStep

LEMMA PubackApart ==
  ASSUME Core, ApartInv, AloneInv, Contends, NEW ch \in Channels, handle_puback(ch)
  PROVE  ApartInv'
<1>1. /\ ~Busy(ch) /\ UNCHANGED <<clients, param, chan>> /\ Others(ch) /\ chan[ch] = "open"
      /\ frame'[ch].pc = "puback" /\ frame'[ch].rq.op = "puback" /\ frame'[ch].agent = param[ch]
  BY PubackMoves DEF handle_puback, CanAcknowledge
<1>2. Registered' \subseteq Registered
  BY <1>1, RegisteredKept
<1>3. Begins(ch) /\ \A x \in Channels : Closes(x) /\ param'[x] = param[x]
  BY <1>1 DEF Begins, Closes
<1>4. ChannelApart(ch) => ChannelApart(ch)'
  BY <1>1, <1>2, <1>3, BeginsApart
<1> QED
  BY <1>1, <1>2, <1>3, <1>4, ApartStep DEF RegisteredStep

LEMMA ConnectApart ==
  ASSUME Core, ApartInv, AloneInv, Contends, NEW ch \in Channels, handle_connect(ch)
  PROVE  ApartInv'
<1>1. /\ ~Busy(ch) /\ UNCHANGED <<clients, param>> /\ Others(ch) /\ chan[ch] = "open"
      /\ Close(IF param[ch] = NULL THEN {} ELSE {ch})
      /\ frame'[ch].pc = "get_client" /\ frame'[ch].rq.op = "connect"
  BY ConnectMoves
<1>2. Registered' \subseteq Registered
  BY <1>1, RegisteredKept
<1>3. \A x \in Channels : Closes(x) /\ param'[x] = param[x]
  BY <1>1, CloseCloses
<1>4. chan'[ch] = "open" => param[ch] = NULL
  BY <1>1 DEF Close
<1>5. ASSUME ChannelApart(ch)
      PROVE  ChannelApart(ch)'
  <2>1. OwnedWhileOpen(ch)' /\ NoClientYet(ch)'
    BY <1>1, <1>2, <1>4, <1>5, IdleOwns DEF OwnedWhileOpen, NoClientYet
  <2>2. NotClosedYet(ch)'
    BY <1>1, <1>3 DEF NotClosedYet, Closes
  <2>3. SubscribesForOwn(ch)' /\ ResumesForOwn(ch)' /\ SendsToOwn(ch)'
    BY <1>1 DEF SubscribesForOwn, ResumesForOwn, SendsToOwn
  <2> QED
    BY <2>1, <2>2, <2>3 DEF ChannelApart
<1> QED
  BY <1>1, <1>2, <1>3, <1>5, ApartStep DEF RegisteredStep

LEMMA DisconnectedApart ==
  ASSUME Core, ApartInv, AloneInv, Contends, NEW ch \in Channels, handle_channel_disconnected(ch)
  PROVE  ApartInv'
<1>1. /\ ~Busy(ch) /\ UNCHANGED clients /\ Others(ch)
      /\ chan' = [chan EXCEPT ![ch] = "closed"]
      /\ \A x \in Channels \ {ch} : param'[x] = param[x]
      /\ \/ UNCHANGED frame
         \/ /\ frame'[ch].agent = param[ch]
            /\ frame'[ch].pc \in {"unsubscribe_all", "will"} /\ frame'[ch].rq.op = "disconnected"
  BY DisconnectedMoves
<1>2. chan'[ch] = "closed" /\ \A x \in Channels \ {ch} : Closes(x)
  BY <1>1 DEF Closes, Core, TypesInv, OutsideTypes
<1>3. frame'[ch].pc # "take_over"
  BY <1>1, IdleHas
<1>4. Registered' \subseteq Registered
  BY <1>1, <1>3, RegisteredKept
<1>5. ASSUME ChannelApart(ch)
      PROVE  ChannelApart(ch)'
  <2>1. CASE UNCHANGED frame
    <3>1. frame'[ch].pc = "idle" /\ frame'[ch].rq.op = "idle"
      BY <1>1, <2>1, IdleHas
    <3>2. OwnedWhileOpen(ch)' /\ NotClosedYet(ch)' /\ NoClientYet(ch)'
      BY <1>2, <3>1 DEF OwnedWhileOpen, NotClosedYet, NoClientYet
    <3>3. SubscribesForOwn(ch)' /\ ResumesForOwn(ch)' /\ SendsToOwn(ch)'
      BY <3>1 DEF SubscribesForOwn, ResumesForOwn, SendsToOwn
    <3> QED
      BY <3>2, <3>3 DEF ChannelApart
  <2>2. CASE Begins(ch)
    BY <1>1, <1>4, <1>5, <2>2, BeginsApart
  <2>3. UNCHANGED frame \/ Begins(ch)
    BY <1>1, <1>2 DEF Begins, Leaving
  <2> QED
    BY <2>1, <2>2, <2>3
<1> QED
  BY <1>1, <1>2, <1>4, <1>5, ApartStep DEF RegisteredStep

\* The connection of a channel breaks, or nothing happens.
LEMMA StandsApart ==
  ASSUME ApartInv, AloneInv, Contends, NEW ch \in Channels, UNCHANGED <<clients, param, frame>>,
         \A x \in Channels : Closes(x)
  PROVE  ApartInv'
<1>1. Others(ch) /\ \A x \in Channels : param'[x] = param[x]
  BY DEF Others
<1>2. Registered' = Registered
  BY DEF Registered
<1>3. ChannelApart(ch) => ChannelApart(ch)'
  BY <1>1, <1>2, ApartOther
<1> QED
  BY <1>1, <1>2, <1>3, ApartStep DEF RegisteredStep

LEMMA ContinueApart ==
  ASSUME Core, Core', ApartInv, AloneInv, Contends, NEW ch \in Channels, Continue(ch)
  PROVE  ApartInv'
<1>1. CASE \/ get_client(ch) \/ delete_client(ch) \/ take_over(ch) \/ close_old(ch) \/ session(ch)
           \/ new_session(ch) \/ reg_client(ch) \/ set_param(ch) \/ deregister(ch)
  BY <1>1, ConnectingApart, TakeOverApart, SessionApart, RegClientApart, SetParamApart, DeregisterApart
<1>2. CASE read_retained(ch) \/ send_retained(ch)
  BY <1>2, ReadRetainedApart, SendRetainedApart
<1>3. CASE \/ restore(ch) \/ resend(ch) \/ get_topic_ptr_to_subscribe(ch) \/ subscribe(ch)
           \/ add_subscription(ch) \/ retained(ch) \/ retained_wild(ch) \/ retained_of(ch)
  BY <1>3, RestoreQuiet, ToSubscribeQuiet, RetainedQuiet, QuietApart
<1>4. CASE \/ store_retained(ch) \/ lock(ch) \/ deliver(ch) \/ puback(ch)
           \/ publish(ch) \/ wild(ch) \/ wild_next(ch) \/ will(ch) \/ will_id(ch)
  BY <1>4, PublishQuiet, DeliverQuiet, QuietApart
<1>5. CASE \/ unsubscribe_all(ch) \/ lookup(ch) \/ unsubscribe(ch) \/ delete_subscription(ch)
           \/ empty(ch) \/ erase(ch) \/ delete_session(ch)
  BY <1>5, UnsubscribeQuiet, QuietApart
<1> QED
  BY <1>1, <1>2, <1>3, <1>4, <1>5 DEF Continue

LEMMA ApartNext == Core /\ Core' /\ AloneInv /\ ApartInv /\ [Next]_vars => ApartInv'
<1> SUFFICES ASSUME Core, Core', AloneInv, ApartInv, [Next]_vars
             PROVE  ApartInv'
  OBVIOUS
<1>1. CASE Next
  <2>1. Contends
    BY <1>1 DEF Next, History, Contends
  <2>2. PICK ch \in Channels :
          \/ channel_read(ch) \/ handle_connect(ch) \/ handle_puback(ch)
          \/ handle_channel_disconnected(ch) \/ ConnectionLost(ch)
          \/ Continue(ch)
    BY <1>1 DEF Next
  <2>3. CASE ConnectionLost(ch)
    BY <2>1, <2>3, LostMoves, CloseCloses, StandsApart
  <2> QED
    BY <2>1, <2>2, <2>3, ReadApart, ConnectApart, PubackApart, DisconnectedApart, ContinueApart
<1>2. CASE UNCHANGED vars
  <2>1. UNCHANGED <<clients, param, frame, chan, contended>>
    BY <1>2 DEF vars, program, outside, registries, history
  <2>2. Overlapping' = Overlapping
    BY <2>1 DEF Overlapping, RunsFor, Busy
  <2>3. Contends /\ \A x \in Channels : Closes(x)
    BY <2>1, <2>2 DEF AloneInv, Contends, Closes
  <2>4. CASE Channels = {}
    BY <2>4 DEF ApartInv
  <2> QED
    BY <2>1, <2>3, <2>4, StandsApart
<1> QED
  BY <1>1, <1>2

LEMMA ApartInit == Init => ApartInv
<1> SUFFICES ASSUME Init, NEW ch \in Channels
             PROVE  ChannelApart(ch)
  BY DEF ApartInv
<1>1. \A x \in Channels : frame[x].pc = "idle" /\ frame[x].rq.op = "idle"
  <2>1. PICK i : i = Idle
    OBVIOUS
  <2>2. i.pc = "idle" /\ i.rq.op = "idle"
    BY <2>1 DEF Idle
  <2> QED
    BY <2>1, <2>2 DEF Init
<1>2. Registered = {}
  BY <1>1, RegisteredAre DEF RegisteredFacts, Init
<1>3. OwnedWhileOpen(ch) /\ SubscribesForOwn(ch)
  BY <1>1, <1>2 DEF OwnedWhileOpen, SubscribesForOwn
<1>4. NotClosedYet(ch) /\ NoClientYet(ch) /\ ResumesForOwn(ch) /\ SendsToOwn(ch)
  BY <1>1 DEF NotClosedYet, NoClientYet, ResumesForOwn, SendsToOwn, Connecting
<1> QED
  BY <1>3, <1>4 DEF ChannelApart

-----------------------------------------------------------------------------
(* A handler finds no client                                               *)

LEMMA ContinuesUp ==
  ASSUME NEW ch, Continue(ch), ~send_retained(ch)
  PROVE  crashed = "no" /\ crashed' = "no"
<1>1. CASE \/ get_client(ch) \/ delete_client(ch) \/ take_over(ch) \/ close_old(ch) \/ session(ch)
           \/ new_session(ch) \/ reg_client(ch) \/ set_param(ch) \/ deregister(ch)
  BY <1>1 DEF get_client, delete_client, take_over, close_old, session, new_session, reg_client,
     set_param, deregister, Step, At, outside
<1>2. CASE read_retained(ch)
  BY <1>2 DEF read_retained, At, outside
<1>3. CASE \/ restore(ch) \/ resend(ch) \/ get_topic_ptr_to_subscribe(ch) \/ subscribe(ch)
           \/ add_subscription(ch) \/ retained(ch) \/ retained_wild(ch) \/ retained_of(ch)
  BY <1>3 DEF restore, resend, get_topic_ptr_to_subscribe, subscribe, add_subscription, retained,
     retained_wild, retained_of, Step, At, outside
<1>4. CASE \/ store_retained(ch) \/ lock(ch) \/ deliver(ch) \/ puback(ch)
           \/ publish(ch) \/ wild(ch) \/ wild_next(ch) \/ will(ch) \/ will_id(ch)
  BY <1>4 DEF store_retained, lock, deliver, puback, publish, wild, wild_next, will, will_id,
     Step, At, outside
<1>5. CASE \/ unsubscribe_all(ch) \/ lookup(ch) \/ unsubscribe(ch) \/ delete_subscription(ch)
           \/ empty(ch) \/ erase(ch) \/ delete_session(ch)
  BY <1>5 DEF unsubscribe_all, lookup, unsubscribe, delete_subscription, empty, erase,
     delete_session, Step, At, outside
<1> QED
  BY <1>1, <1>2, <1>3, <1>4, <1>5 DEF Continue

LEMMA CrashNext == Core /\ AloneInv /\ ApartInv /\ CrashInv /\ [Next]_vars => CrashInv'
<1> SUFFICES ASSUME Core, AloneInv, ApartInv, CrashInv, [Next]_vars, crashed' = "param", contended' = {}
             PROVE  \E ch \in Channels : /\ frame'[ch].rq.op = "resume" /\ chan'[ch] = "closing"
                                         /\ frame'[ch].to = {NULL}
  BY DEF CrashInv
<1>1. CASE Next
  <2>1. Contends
    BY <1>1 DEF Next, History, Contends
  <2>2. PICK ch \in Channels :
          \/ channel_read(ch) \/ handle_connect(ch) \/ handle_puback(ch)
          \/ handle_channel_disconnected(ch) \/ ConnectionLost(ch)
          \/ Continue(ch)
    BY <1>1 DEF Next
  <2>3. contended = {}
    BY <2>1, Uncontended
  <2>4. CASE send_retained(ch)
    <3>1. /\ frame[ch].pc \in {"send_retained", "send_null"} /\ UNCHANGED <<chan, frame>>
          /\ frame[ch].to = {NULL}
      BY <2>4, SendRetainedMoves
    <3>2. SendsToOwn(ch)
      BY <2>3 DEF ApartInv, ChannelApart
    <3> QED
      BY <3>1, <3>2 DEF SendsToOwn
  <2>5. CASE \/ channel_read(ch) \/ handle_connect(ch) \/ handle_puback(ch)
             \/ handle_channel_disconnected(ch) \/ ConnectionLost(ch)
    <3>1. crashed' = "no"
      BY <2>5 DEF channel_read, handle_connect, handle_puback, CanAcknowledge,
         handle_channel_disconnected, ConnectionLost, Ready
    <3> QED
      BY <3>1
  <2>6. CASE Continue(ch) /\ ~send_retained(ch)
    BY <2>6, ContinuesUp
  <2> QED
    BY <2>2, <2>4, <2>5, <2>6
<1>2. CASE UNCHANGED vars
  <2>1. UNCHANGED <<frame, chan, crashed, contended>>
    BY <1>2 DEF vars, program, outside, registries, history
  <2> QED
    BY <2>1 DEF CrashInv
<1> QED
  BY <1>1, <1>2


-----------------------------------------------------------------------------
(* The theorem                                                             *)

\* Two clients of an identifier that never had two handlers at a time: at most one is
\* registered, and what the only handler takes over is not.
LEMMA NoTwins ==
  ASSUME Core, AloneInv, NEW x \in Channels, NEW y \in Channels, x # y,
         param[x] # NULL, param[y] # NULL, param[x].cid = param[y].cid
  PROVE  param[x].cid \in contended
<1> SUFFICES ASSUME param[x].cid \notin contended
             PROVE  FALSE
  OBVIOUS
<1>1. PICK i, c, d : i = param[x].cid /\ c = param[x] /\ d = param[y]
  OBVIOUS
<1>2. c.cid = i /\ d.cid = i /\ i \notin contended
  BY <1>1
<1>3. c # d
  BY <1>1, CoreParts DEF ParamInv
<1>4. (clients[i] = c \/ TakenOver(c)) /\ (clients[i] = d \/ TakenOver(d))
  BY <1>1, <1>2 DEF AloneInv, Accounted
<1>5. ASSUME NEW h \in Channels, frame[h].pc = "take_over", frame[h].agent.cid = i
      PROVE  Busy(h) /\ clients[i] = NULL
  BY <1>2, <1>5 DEF Busy, AloneInv, Knows
<1>6. c # NULL /\ d # NULL
  BY <1>1
<1>7. PICK h \in Channels : frame[h].pc = "take_over" /\ frame[h].agent.cid = i
  BY <1>2, <1>3, <1>4 DEF TakenOver
<1>8. TakenOver(c) /\ TakenOver(d)
  BY <1>4, <1>5, <1>6, <1>7
<1>9. PICK g, k \in Channels :
        /\ frame[g].pc = "take_over" /\ frame[g].agent.cid = i /\ frame[g].to = {c}
        /\ frame[k].pc = "take_over" /\ frame[k].agent.cid = i /\ frame[k].to = {d}
  BY <1>2, <1>8 DEF TakenOver
<1>10. g = k
  BY <1>2, <1>5, <1>9, Overlaps DEF OverlapFacts, AloneInv
<1> QED
  BY <1>3, <1>9, <1>10

\* mqtt_server.cpp:219-258: a client is taken from its channel only by the CONNECT that
\* follows it, so as long as an identifier has one handler at a time no two channels
\* have one client; and publish_retained (topic.cpp:56-60) finds the channel's client, but
\* after a CONNECT that was the channel's second.
THEOREM ClientsApart == Spec => []HandlersApart
<1>1. Init => AloneInv /\ ApartInv /\ CrashInv
  BY AloneInit, ApartInit DEF Init, CrashInv
<1>2. IInv => Core
  BY DEF IInv
<1>3. IInv' => Core'
  BY <1>2, PTL
<1>4. IInv /\ IInv' /\ AloneInv /\ ApartInv /\ CrashInv /\ [Next]_vars
      => AloneInv' /\ ApartInv' /\ CrashInv'
  BY <1>2, <1>3, AloneNext, ApartNext, CrashNext
<1>5. Core /\ AloneInv /\ CrashInv => HandlersApart
  BY NoTwins DEF HandlersApart, CrashInv
<1> QED
  BY <1>1, <1>2, <1>4, <1>5, Invariance, PTL DEF Spec

=============================================================================
