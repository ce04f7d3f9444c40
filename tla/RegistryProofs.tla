--------------------------- MODULE RegistryProofs ---------------------------
(***************************************************************************)
(* The registries of module BrokerThreads agree.  For an identifier that   *)
(* never had two handlers at a time, session, topics and registries say    *)
(* the same of its client, except where its handler is just changing that; *)
(* for a filter that has lost no subscriber.  From that: a publication     *)
(* reaches whoever is subscribed while its handler goes through topics.    *)
(***************************************************************************)
EXTENDS ThreadsProofs

Works(h, i) == Busy(h) /\ frame[h].agent.cid = i

\* Every session is that of one identifier.
Seen ==
  {clients[i] : i \in ClientIds} \cup {param[x] : x \in Channels} \cup {frame[x].agent : x \in Channels}
  \cup UNION {{objects[o].clients[i] : i \in ClientIds} : o \in 1..Len(objects)}
OwnedBy(owner) ==
  /\ \A i \in ClientIds : sessions[i] # NULL => owner[sessions[i]] = i
  /\ \A c \in Seen : c # NULL /\ c.sess # NULL => owner[c.sess] = c.cid
SessionsOwned == \E owner \in [1..Len(store) -> ClientIds] : OwnedBy(owner)

\* The filters to subscribe to when a session is resumed are the session's.
TakesUp(fr) ==
  fr.rq.op = "resume" =>
    /\ fr.pc \in {"to_subscribe", "subscribe"} => fr.todo \subseteq store[fr.agent.sess].subs
    /\ fr.pc = "subscribe" => objects[fr.obj].filter \in store[fr.agent.sess].subs

\* What the handler of an identifier knows of its session, if it is the only one.
KnowsSession(fr) ==
  LET i == fr.agent.cid IN
  /\ fr.pc = "new_session" => sessions[i] = NULL
  /\ fr.pc \in {"reg_client", "set_param"} =>
       /\ sessions[i] = fr.agent.sess
       /\ fr.rq.op = "connect" => store[fr.agent.sess].subs = {}
  /\ fr.rq.op \notin Leaving \cup {"connect"} /\ fr.pc # "reg_client" => clients[i] = fr.agent
  /\ TakesUp(fr)

\* The registered client has the registered session.
SessionKept(i) ==
  clients[i] # NULL /\ (\A h \in Channels : Works(h, i) => frame[h].rq.op \notin Leaving)
  => sessions[i] = clients[i].sess

Entry(f, i) == IF map[f] = NULL THEN NULL ELSE objects[map[f]].clients[i]

\* A client in a topic has the filter in its session.
EntryListed(i, f) ==
  LET e == Entry(f, i) IN
  e # NULL => \/ f \in store[e.sess].subs
              \/ \E h \in Channels : /\ Works(h, i) /\ frame[h].pc = "add_subscription"
                                     /\ frame[h].obj = map[f] /\ frame[h].agent = e

\* The handler is still to enter its client, or is taking it away.
Changing(fr, f) ==
  \/ fr.rq.op \in Leaving
  \/ fr.rq.op = "resume" /\ fr.pc \in {"set_param", "restore"}
  \/ fr.rq.op = "resume" /\ fr.pc \in {"to_subscribe", "subscribe"} /\ f \in fr.todo
  \/ fr.rq.op = "resume" /\ fr.pc = "subscribe" /\ objects[fr.obj].filter = f
  \/ fr.pc = "delete_subscription" /\ objects[fr.obj].filter = f

\* The registered client is in the topics of the filters of its session.
ListedEntered(i, f) ==
  clients[i] # NULL /\ f \in store[clients[i].sess].subs
    /\ (\A h \in Channels : Works(h, i) => ~Changing(frame[h], f))
  => Entry(f, i) = clients[i]

Agrees(i) ==
  /\ SessionKept(i)
  /\ \A f \in Filters \ raced : EntryListed(i, f) /\ ListedEntered(i, f)

\* What a handler that changes topic objects outside _topic_mutex can still rely on.
EraseSees(fr) ==
  fr.pc = "erase" /\ objects[fr.obj].filter \notin raced => Entries(fr.obj) = {}
Sees(fr) ==
  LET f == objects[fr.obj].filter
      i == fr.agent.cid
  IN
  /\ fr.pc = "add_subscription" /\ f \notin raced => map[f] = fr.obj /\ Entry(f, i) = fr.agent
  /\ fr.pc \in {"unsubscribe", "delete_subscription"} /\ f \notin raced =>
       Entry(f, i) = NULL \/ (map[f] = fr.obj /\ fr.pc = "unsubscribe")

AgreeInv ==
  /\ SessionsOwned
  /\ \A h \in Channels : EraseSees(frame[h])
  /\ \A h \in Channels : Busy(h) /\ frame[h].agent.cid \notin contended =>
       KnowsSession(frame[h]) /\ Sees(frame[h])
  /\ \A i \in ClientIds \ contended : Agrees(i)

-----------------------------------------------------------------------------
(* A step of one handler, as far as the others' identifiers are concerned  *)

Races == raced' = raced \cup Losing

\* What a handler of identifier j leaves alone.
Untouched(ch, j) ==
  /\ Others(ch)
  /\ \A i \in ClientIds \ {j} : clients'[i] = clients[i] /\ sessions'[i] = sessions[i]
  /\ \A f \in Filters \ raced' : \A i \in ClientIds \ {j} :
       /\ Entry(f, i)' = Entry(f, i)
       /\ Entry(f, i) # NULL => map'[f] = map[f]
  /\ \A o \in 1..Len(objects) : objects'[o].filter = objects[o].filter
  /\ \A s \in 1..Len(store) : \/ store'[s].subs = store[s].subs
                              \/ Busy(ch) /\ frame[ch].agent.sess = s
  /\ \A o \in 1..Len(objects) :
       /\ objects[o].filter \notin raced'
       /\ \E y \in Channels \ {ch} : frame[y].pc = "erase" /\ frame[y].obj = o
       => Entries(o)' \subseteq Entries(o)

LEMMA SeenFacts ==
  ASSUME NEW owner, OwnedBy(owner)
  PROVE  /\ \A i \in ClientIds : sessions[i] # NULL => owner[sessions[i]] = i
         /\ \A i \in ClientIds : clients[i] # NULL /\ clients[i].sess # NULL => owner[clients[i].sess] = clients[i].cid
         /\ \A x \in Channels : param[x] # NULL /\ param[x].sess # NULL => owner[param[x].sess] = param[x].cid
         /\ \A x \in Channels : frame[x].agent # NULL /\ frame[x].agent.sess # NULL =>
              owner[frame[x].agent.sess] = frame[x].agent.cid
         /\ \A o \in 1..Len(objects) : \A i \in ClientIds :
              LET e == objects[o].clients[i] IN e # NULL /\ e.sess # NULL => owner[e.sess] = e.cid
BY DEF OwnedBy, Seen

\* What is in a topic.
LEMMA EntryFacts ==
  ASSUME Core, NEW f \in Filters, NEW i \in ClientIds, Entry(f, i) # NULL
  PROVE  /\ map[f] \in 1..Len(objects) /\ objects[map[f]].filter = f
         /\ Entry(f, i) = objects[map[f]].clients[i] /\ Entry(f, i) \in ClientUpTo(Len(store))
         /\ Entry(f, i).cid = i /\ Entry(f, i).sess \in 1..Len(store) /\ Entry(f, i).sess # NULL
<1>1. map[f] # NULL /\ Entry(f, i) = objects[map[f]].clients[i]
  BY DEF Entry
<1>2. map[f] \in 1..Len(objects) /\ objects[map[f]].filter = f
  BY <1>1 DEF Core, TypesInv, TopicTypes, ObjectsInv
<1>3. Entry(f, i) \in ClientUpTo(Len(store)) /\ Entry(f, i).cid = i
  BY <1>1, <1>2, ObjectAtHand
<1>4. Len(store) \in Nat
  BY DEF Core, TypesInv, RegistryTypes
<1> QED
  BY <1>1, <1>2, <1>3, <1>4, KnownFields, NullAssumption

\* A session of another identifier is not the handler's.
LEMMA OtherSession ==
  ASSUME Core, AgreeInv, NEW ch \in Channels, NEW j, Busy(ch) => frame[ch].agent.cid = j,
         Untouched(ch, j)
  PROVE  /\ \A i \in ClientIds \ {j} : clients[i] # NULL /\ clients[i].cid = i =>
              store'[clients[i].sess].subs = store[clients[i].sess].subs
         /\ \A i \in ClientIds \ {j} : \A f \in Filters : Entry(f, i) # NULL =>
              store'[Entry(f, i).sess].subs = store[Entry(f, i).sess].subs
         /\ \A y \in Channels : Busy(y) /\ frame[y].agent.cid # j /\ frame[y].agent.sess # NULL =>
              store'[frame[y].agent.sess].subs = store[frame[y].agent.sess].subs
<1>1. PICK owner : OwnedBy(owner)
  BY DEF AgreeInv, SessionsOwned
<1>2. \A s \in 1..Len(store) : s # NULL
  BY NullAssumption DEF Core, TypesInv, RegistryTypes
<1>3. ASSUME NEW s \in 1..Len(store), store'[s].subs # store[s].subs
      PROVE  owner[s] = j
  <2>1. Busy(ch) /\ frame[ch].agent.sess = s
    BY <1>3 DEF Untouched
  <2>2. frame[ch].agent # NULL /\ frame[ch].agent.sess # NULL
    BY <1>2, <2>1, HandlerFacts DEF Has, Busy
  <2> QED
    BY <1>1, <2>1, <2>2, SeenFacts
<1>4. ASSUME NEW i \in ClientIds \ {j}, clients[i] # NULL, clients[i].cid = i
      PROVE  store'[clients[i].sess].subs = store[clients[i].sess].subs
  <2>1. clients[i].sess \in 1..Len(store)
    BY <1>4, KnownFields DEF Core, TypesInv, RegistryTypes
  <2> QED
    BY <1>1, <1>2, <1>3, <1>4, <2>1, SeenFacts
<1>5. ASSUME NEW i \in ClientIds \ {j}, NEW f \in Filters, Entry(f, i) # NULL
      PROVE  store'[Entry(f, i).sess].subs = store[Entry(f, i).sess].subs
  <2>1. PICK e : e = Entry(f, i)
    OBVIOUS
  <2>2. e.sess \in 1..Len(store) /\ e.cid = i /\ map[f] \in 1..Len(objects)
        /\ e = objects[map[f]].clients[i] /\ e # NULL
    BY <1>5, <2>1, EntryFacts
  <2>3. owner[e.sess] = i
    BY <1>1, <1>2, <2>2, SeenFacts
  <2> QED
    BY <1>3, <2>1, <2>2, <2>3
<1>6. ASSUME NEW y \in Channels, Busy(y), frame[y].agent.cid # j, frame[y].agent.sess # NULL
      PROVE  store'[frame[y].agent.sess].subs = store[frame[y].agent.sess].subs
  <2>1. frame[y].agent # NULL /\ frame[y].agent.sess \in 1..Len(store)
    BY <1>6, HandlerFacts, ClientFields DEF Has, Busy
  <2> QED
    BY <1>1, <1>3, <1>6, <2>1, SeenFacts
<1> QED
  BY <1>4, <1>5, <1>6

\* The handlers of identifier i stay where they are.
LEMMA SameWorkers ==
  ASSUME NEW ch, NEW j, NEW i, i # j, Others(ch),
         Busy(ch) => frame[ch].agent.cid = j, Busy(ch)' => frame'[ch].agent.cid = j
  PROVE  \A h \in Channels : /\ Works(h, i)' <=> Works(h, i)
                             /\ Works(h, i) => frame'[h] = frame[h] /\ h # ch
BY DEF Works, Busy, Others

LEMMA ChangingSame ==
  ASSUME Core, NEW ch, NEW j, Untouched(ch, j), NEW h \in Channels, NEW fr, frame[h] = fr, NEW f
  PROVE  Changing(fr, f) => Changing(fr, f)'
<1>1. fr.pc \in {"subscribe", "delete_subscription"} => objects'[fr.obj].filter = objects[fr.obj].filter
  <2> SUFFICES ASSUME fr.pc \in {"subscribe", "delete_subscription"}
               PROVE  objects'[fr.obj].filter = objects[fr.obj].filter
    OBVIOUS
  <2>1. fr.obj \in 1..Len(objects)
    BY HandlerFacts DEF Has, AtObject
  <2> QED
    BY <2>1 DEF Untouched
<1> QED
  BY <1>1 DEF Changing

LEMMA AgreesOther ==
  ASSUME Core, AloneInv, AgreeInv, NEW ch \in Channels, NEW j,
         Busy(ch) => frame[ch].agent.cid = j, Busy(ch)' => frame'[ch].agent.cid = j,
         Untouched(ch, j), Races, contended \subseteq contended',
         NEW i \in ClientIds \ contended', i # j
  PROVE  Agrees(i)'
<1>1. Agrees(i) /\ clients'[i] = clients[i] /\ sessions'[i] = sessions[i]
  BY DEF AgreeInv, Untouched
<1>2. \A h \in Channels : /\ Works(h, i)' <=> Works(h, i)
                          /\ Works(h, i) => frame'[h] = frame[h] /\ h # ch
  BY SameWorkers DEF Untouched
<1>3. SessionKept(i)'
  BY <1>1, <1>2 DEF Agrees, SessionKept
<1>4. clients[i] # NULL => store'[clients[i].sess].subs = store[clients[i].sess].subs
  BY OtherSession DEF AloneInv
<1>5. ASSUME NEW f \in Filters \ raced'
      PROVE  EntryListed(i, f)' /\ ListedEntered(i, f)'
  <2>1. f \in Filters \ raced /\ EntryListed(i, f) /\ ListedEntered(i, f)
    BY <1>1 DEF Races, Agrees
  <2>2. Entry(f, i)' = Entry(f, i) /\ (Entry(f, i) # NULL => map'[f] = map[f])
    BY <1>5 DEF Untouched
  <2>3. EntryListed(i, f)'
    <3> SUFFICES ASSUME Entry(f, i) # NULL
                 PROVE  \/ f \in store'[Entry(f, i).sess].subs
                        \/ \E h \in Channels : /\ Works(h, i)' /\ frame'[h].pc = "add_subscription"
                                               /\ frame'[h].obj = map'[f] /\ frame'[h].agent = Entry(f, i)
      BY <2>2 DEF EntryListed
    <3>1. store'[Entry(f, i).sess].subs = store[Entry(f, i).sess].subs
      BY OtherSession
    <3> QED
      BY <1>2, <2>1, <2>2, <3>1 DEF EntryListed
  <2>4. ListedEntered(i, f)'
    <3> SUFFICES ASSUME clients[i] # NULL, f \in store[clients[i].sess].subs,
                        \A h \in Channels : Works(h, i)' => ~Changing(frame[h], f)'
                 PROVE  Entry(f, i) = clients[i]
      BY <1>1, <1>4, <2>2 DEF ListedEntered
    <3>1. ASSUME NEW h \in Channels, Works(h, i), Changing(frame[h], f)
          PROVE  FALSE
      <4>1. PICK fr : fr = frame[h]
        OBVIOUS
      <4>2. Works(h, i)' /\ frame'[h] = fr
        BY <1>2, <3>1, <4>1
      <4>3. Changing(fr, f)'
        BY <3>1, <4>1, ChangingSame
      <4>4. Changing(frame[h], f)'
        BY <4>2, <4>3 DEF Changing
      <4> QED
        BY <4>2, <4>4
    <3> QED
      BY <2>1, <3>1 DEF ListedEntered
  <2> QED
    BY <2>3, <2>4
<1> QED
  BY <1>3, <1>5 DEF Agrees

\* What the handlers of other identifiers know stays true.
LEMMA KnownByOthers ==
  ASSUME Core, AgreeInv, NEW ch \in Channels, NEW j, Busy(ch) => frame[ch].agent.cid = j,
         Untouched(ch, j), Races, NEW y \in Channels \ {ch}, Busy(y), frame[y].agent.cid # j,
         frame[y].agent.cid \notin contended
  PROVE  KnowsSession(frame[y])' /\ Sees(frame[y])'
<1>1. PICK fr, i : fr = frame[y] /\ i = frame[y].agent.cid
  OBVIOUS
<1>2. /\ frame'[y] = fr /\ fr.agent.cid = i /\ i \in ClientIds \ {j}
      /\ KnowsSession(fr) /\ Sees(fr)
  BY <1>1, HandlerFacts DEF Untouched, Others, Busy, AgreeInv
<1>3. clients'[i] = clients[i] /\ sessions'[i] = sessions[i]
  BY <1>2 DEF Untouched
<1>4. fr.pc \in {"reg_client", "set_param"} => store'[fr.agent.sess].subs = store[fr.agent.sess].subs
  <2> SUFFICES ASSUME fr.pc \in {"reg_client", "set_param"}
               PROVE  store'[fr.agent.sess].subs = store[fr.agent.sess].subs
    OBVIOUS
  <2>1. frame[y].agent.sess # NULL
    BY <1>1, HandlerFacts DEF Has, Connecting
  <2> QED
    BY <1>1, <2>1, OtherSession
<1>5. KnowsSession(fr)'
  <2>1. fr.pc \in {"to_subscribe", "subscribe"} => store'[fr.agent.sess].subs = store[fr.agent.sess].subs
    <3> SUFFICES ASSUME fr.pc \in {"to_subscribe", "subscribe"}
                 PROVE  store'[fr.agent.sess].subs = store[fr.agent.sess].subs
      OBVIOUS
    <3>1. frame[y].agent.sess # NULL
      BY <1>1, HandlerFacts DEF Has, Connecting
    <3> QED
      BY <1>1, <3>1, OtherSession
  <2>2. fr.pc = "subscribe" => objects'[fr.obj].filter = objects[fr.obj].filter
    <3> SUFFICES ASSUME fr.pc = "subscribe"
                 PROVE  objects'[fr.obj].filter = objects[fr.obj].filter
      OBVIOUS
    <3>1. fr.obj \in 1..Len(objects)
      BY <1>1, HandlerFacts DEF Has, AtObject
    <3> QED
      BY <3>1 DEF Untouched
  <2> QED
    BY <1>2, <1>3, <1>4, <2>1, <2>2 DEF KnowsSession, TakesUp
<1>6. Sees(fr)'
  <2>1. CASE fr.pc \in {"add_subscription", "unsubscribe", "delete_subscription"}
    <3>1. fr.obj \in 1..Len(objects)
      BY <1>1, <2>1, HandlerFacts DEF Has, AtObject
    <3>2. PICK f : f = objects[fr.obj].filter
      OBVIOUS
    <3>3. f \in Filters /\ objects'[fr.obj].filter = f
      BY <3>1, <3>2, ObjectAtHand DEF Untouched
    <3>4. f \notin raced' => /\ f \notin raced
                             /\ Entry(f, i)' = Entry(f, i) /\ (Entry(f, i) # NULL => map'[f] = map[f])
      BY <1>2, <3>3 DEF Untouched, Races
    <3>5. fr.agent # NULL
      BY <1>1, HandlerFacts DEF Has, Busy
    <3> QED
      BY <1>2, <3>2, <3>3, <3>4, <3>5 DEF Sees
  <2>2. CASE fr.pc \notin {"add_subscription", "unsubscribe", "delete_subscription"}
    BY <2>2 DEF Sees
  <2> QED
    BY <2>1, <2>2
<1> QED
  BY <1>2, <1>5, <1>6 DEF KnowsSession, TakesUp, Sees

LEMMA ErasedByOthers ==
  ASSUME Core, AgreeInv, NEW ch \in Channels, NEW j, Untouched(ch, j), Races, NEW y \in Channels \ {ch}
  PROVE  EraseSees(frame[y])'
<1>1. PICK fr : fr = frame[y]
  OBVIOUS
<1>2. frame'[y] = fr /\ EraseSees(fr)
  BY <1>1 DEF Untouched, Others, AgreeInv
<1>3. ASSUME fr.pc = "erase", objects'[fr.obj].filter \notin raced'
      PROVE  Entries(fr.obj)' = {}
  <2>1. fr.obj \in 1..Len(objects)
    BY <1>1, <1>3, HandlerFacts DEF Has, AtObject
  <2>2. objects'[fr.obj].filter = objects[fr.obj].filter
    BY <2>1 DEF Untouched
  <2>3. Entries(fr.obj)' \subseteq Entries(fr.obj)
    BY <1>1, <1>3, <2>1, <2>2 DEF Untouched
  <2>4. Entries(fr.obj) = {}
    BY <1>2, <1>3, <2>2 DEF EraseSees, Races
  <2> QED
    BY <2>3, <2>4
<1>4. EraseSees(fr)'
  BY <1>3 DEF EraseSees
<1> QED
  BY <1>2, <1>4 DEF EraseSees

\* A step of the handler of identifier j.
LEMMA AgreeStep ==
  ASSUME Core, Core', AloneInv, AgreeInv, NEW ch \in Channels, NEW j, Contends, Races,
         Busy(ch) => frame[ch].agent.cid = j, Busy(ch)' => frame'[ch].agent.cid = j,
         Busy(ch) \/ Busy(ch)',
         Untouched(ch, j), SessionsOwned', EraseSees(frame[ch])',
         j \in ClientIds \ contended' /\ Sole(ch, j) /\ j \notin contended =>
           /\ Busy(ch)' => KnowsSession(frame[ch])' /\ Sees(frame[ch])'
           /\ Agrees(j)'
  PROVE  AgreeInv'
<1>1. Others(ch) /\ contended \subseteq contended'
  BY DEF Untouched, Contends
<1>2. j \notin contended' => Sole(ch, j) /\ j \notin contended
  BY <1>1, SoleHandler
<1>3. ASSUME NEW h \in Channels
      PROVE  EraseSees(frame[h])'
  BY ErasedByOthers
<1>4. ASSUME NEW h \in Channels, Busy(h)', frame'[h].agent.cid \notin contended'
      PROVE  KnowsSession(frame[h])' /\ Sees(frame[h])'
  <2>1. CASE h = ch
    <3>1. j \in ClientIds
      BY <1>4, <2>1, AgentsNextAre DEF Agents, Busy
    <3> QED
      BY <1>2, <1>4, <2>1, <3>1
  <2>2. CASE h # ch
    <3>1. frame'[h] = frame[h] /\ Busy(h)
      BY <1>1, <1>4, <2>2 DEF Others, Busy
    <3>2. frame[h].agent.cid # j /\ frame[h].agent.cid \notin contended
      BY <1>1, <1>2, <1>4, <2>2, <3>1 DEF Sole
    <3> QED
      BY <2>2, <3>1, <3>2, KnownByOthers
  <2> QED
    BY <2>1, <2>2
<1>5. ASSUME NEW i \in ClientIds \ contended'
      PROVE  Agrees(i)'
  <2>1. CASE i = j
    BY <1>2, <1>5, <2>1
  <2>2. CASE i # j
    BY <1>1, <1>5, <2>2, AgreesOther
  <2> QED
    BY <2>1, <2>2
<1> QED
  BY <1>3, <1>4, <1>5 DEF AgreeInv

\* A step after which the topics and the sessions say what they said.
SameEntry(f, i) == Entry(f, i)' = Entry(f, i) /\ (Entry(f, i) # NULL => map'[f] = map[f])
Kept(ch) ==
  /\ Others(ch)
  /\ \A f \in Filters \ raced' : \A i \in ClientIds : SameEntry(f, i)
  /\ \A o \in 1..Len(objects) : objects'[o].filter = objects[o].filter /\ objects'[o].clients = objects[o].clients
  /\ \A s \in 1..Len(store) : store'[s].subs = store[s].subs
SameRegistered(j) == \A i \in ClientIds \ {j} : clients'[i] = clients[i] /\ sessions'[i] = sessions[i]

LEMMA KeptUntouched ==
  ASSUME NEW ch, NEW j, Kept(ch), SameRegistered(j)
  PROVE  Untouched(ch, j)
BY DEF Kept, SameRegistered, Untouched, SameEntry, Entries

\* The handler is still to do what it was to do to the topics.
StillChanging(ch, j) ==
  \A f \in Filters : f \in store[clients[j].sess].subs /\ Changing(frame[ch], f)
    => Busy(ch)' /\ Changing(frame[ch], f)'

\* The same for the handler's own identifier, if it is the only one and does not undo
\* what Changing excuses.
LEMMA KeptAgrees ==
  ASSUME Core, NEW ch \in Channels, NEW j \in ClientIds, Sole(ch, j), Agrees(j), Races, Kept(ch),
         Busy(ch) => frame[ch].agent.cid = j, Busy(ch)' => frame'[ch].agent.cid = j,
         clients'[j] \in {clients[j], NULL}, clients[j] # NULL => clients[j] \in ClientUpTo(Len(store)),
         frame[ch].pc # "add_subscription",
         \/ clients'[j] = NULL
         \/ frame'[ch].rq.op \in Leaving /\ Busy(ch)'
         \/ frame[ch].rq.op \notin Leaving /\ sessions'[j] = sessions[j],
         clients'[j] = NULL \/ ~Busy(ch) \/ StillChanging(ch, j)
  PROVE  Agrees(j)'
<1>1. \A h \in Channels : h # ch => ~Works(h, j) /\ ~Works(h, j)' /\ frame'[h] = frame[h]
  BY DEF Sole, Works, Kept, Others, Busy
<1>2. /\ Works(ch, j) <=> Busy(ch)
      /\ Works(ch, j)' <=> Busy(ch)'
  BY DEF Works
<1>3. SessionKept(j)'
  BY <1>1, <1>2 DEF Agrees, SessionKept
<1>4. ASSUME NEW f \in Filters \ raced'
      PROVE  EntryListed(j, f)' /\ ListedEntered(j, f)'
  <2>1. f \in Filters /\ EntryListed(j, f) /\ ListedEntered(j, f)
    BY DEF Agrees, Races
  <2>2. SameEntry(f, j)
    BY DEF Kept
  <2>3. EntryListed(j, f)'
    <3> SUFFICES ASSUME Entry(f, j) # NULL
                 PROVE  f \in store'[Entry(f, j).sess].subs
      BY <2>2 DEF EntryListed, SameEntry
    <3>1. Entry(f, j).sess \in 1..Len(store)
      BY <2>1, EntryFacts
    <3>2. f \in store[Entry(f, j).sess].subs
      BY <1>1, <2>1 DEF EntryListed
    <3> QED
      BY <3>1, <3>2 DEF Kept
  <2>4. ListedEntered(j, f)'
    <3> SUFFICES ASSUME clients'[j] # NULL, f \in store'[clients'[j].sess].subs,
                        Busy(ch)' => ~Changing(frame[ch], f)'
                 PROVE  Entry(f, j)' = clients'[j]
      BY <1>2 DEF ListedEntered
    <3>1. clients'[j] = clients[j] /\ clients[j] # NULL
      OBVIOUS
    <3>2. clients[j].sess \in 1..Len(store)
      BY <3>1, KnownFields DEF Core, TypesInv, RegistryTypes
    <3>3. f \in store[clients[j].sess].subs
      BY <3>1, <3>2 DEF Kept
    <3>4. Busy(ch) => ~Changing(frame[ch], f)
      BY <2>1, <3>1, <3>3 DEF StillChanging
    <3>5. \A h \in Channels : Works(h, j) => ~Changing(frame[h], f)
      BY <1>1, <1>2, <3>4
    <3>6. Entry(f, j) = clients[j]
      BY <2>1, <3>1, <3>3, <3>5 DEF ListedEntered
    <3> QED
      BY <2>2, <3>1, <3>6 DEF SameEntry
  <2> QED
    BY <2>3, <2>4
<1> QED
  BY <1>3, <1>4 DEF Agrees

\* Sessions have the owners they had.
LEMMA SameOwners ==
  ASSUME Core, AgreeInv, NEW ch \in Channels, Len(store') = Len(store), Others(ch),
         \A i \in ClientIds : sessions'[i] \in {sessions[i], NULL},
         \A i \in ClientIds : clients'[i] \in {clients[i], NULL, frame[ch].agent},
         \A x \in Channels : param'[x] \in {param[x], NULL, frame[ch].agent},
         \/ frame'[ch].agent \in {frame[ch].agent, NULL, param[ch]}
         \/ frame'[ch].agent.sess = NULL
         \/ frame'[ch].agent.cid \in ClientIds /\ frame'[ch].agent.sess = sessions[frame'[ch].agent.cid],
         \A o \in 1..Len(objects') : \A i \in ClientIds :
           \/ objects'[o].clients[i] \in {NULL, frame[ch].agent}
           \/ o \in 1..Len(objects) /\ objects'[o].clients[i] = objects[o].clients[i]
  PROVE  SessionsOwned'
<1>1. PICK owner \in [1..Len(store) -> ClientIds] : OwnedBy(owner)
  BY DEF AgreeInv, SessionsOwned
<1>2. \A i \in ClientIds : sessions'[i] # NULL => owner[sessions'[i]] = i
  BY <1>1, SeenFacts
<1>3. ASSUME NEW c, c # NULL, c.sess # NULL, c \in Seen
      PROVE  owner[c.sess] = c.cid
  BY <1>1, <1>3 DEF OwnedBy
<1>4. frame[ch].agent \in Seen /\ param[ch] \in Seen
  BY DEF Seen
<1>5. ASSUME NEW c \in Seen', c # NULL, c.sess # NULL
      PROVE  owner[c.sess] = c.cid
  <2>1. CASE \E i \in ClientIds : c = clients'[i]
    <3>1. \A i \in ClientIds : clients[i] \in Seen
      BY DEF Seen
    <3> QED
      BY <1>3, <1>4, <1>5, <2>1, <3>1
  <2>2. CASE \E x \in Channels : c = param'[x]
    <3>1. \A x \in Channels : param[x] \in Seen
      BY DEF Seen
    <3> QED
      BY <1>3, <1>4, <1>5, <2>2, <3>1
  <2>3. CASE c = frame'[ch].agent
    <3>1. CASE c \in {frame[ch].agent, NULL, param[ch]} \/ c.sess = NULL
      BY <1>3, <1>4, <1>5, <3>1
    <3>2. CASE c.cid \in ClientIds /\ c.sess = sessions[c.cid]
      BY <1>1, <1>5, <3>2, SeenFacts
    <3> QED
      BY <2>3, <3>1, <3>2
  <2>4. CASE \E x \in Channels \ {ch} : c = frame'[x].agent
    <3>1. \A x \in Channels : frame[x].agent \in Seen
      BY DEF Seen
    <3> QED
      BY <1>3, <1>5, <2>4, <3>1 DEF Others
  <2>5. CASE \E o \in 1..Len(objects') : \E i \in ClientIds : c = objects'[o].clients[i]
    <3>1. \A o \in 1..Len(objects) : \A i \in ClientIds : objects[o].clients[i] \in Seen
      BY DEF Seen
    <3> QED
      BY <1>3, <1>4, <1>5, <2>5, <3>1
  <2>6. \/ \E i \in ClientIds : c = clients'[i]
        \/ \E x \in Channels : c = param'[x]
        \/ \E x \in Channels : c = frame'[x].agent
        \/ \E o \in 1..Len(objects') : \E i \in ClientIds : c = objects'[o].clients[i]
    BY <1>5 DEF Seen
  <2> QED
    BY <2>1, <2>2, <2>3, <2>4, <2>5, <2>6
<1>6. OwnedBy(owner)'
  BY <1>2, <1>5 DEF OwnedBy
<1>7. owner \in [1..Len(store') -> ClientIds]
  BY <1>1
<1> QED
  BY <1>6, <1>7 DEF SessionsOwned

-----------------------------------------------------------------------------
(* Handlers that have their client                                         *)

\* The handler goes on with its client, or returns.
Goes(ch) ==
  /\ Others(ch) /\ UNCHANGED clients
  /\ \A x \in Channels : param'[x] \in {param[x], frame[ch].agent}
  /\ \/ frame'[ch] = Idle /\ frame[ch].rq.op \notin Leaving
     \/ /\ frame'[ch].agent = frame[ch].agent /\ frame'[ch].rq = frame[ch].rq
        /\ frame'[ch].pc \notin Connecting \cup {"idle", "reg_client", "set_param"}

LEMMA QuietGoes ==
  ASSUME NEW ch, Quiet(ch)
  PROVE  Goes(ch)
BY DEF Quiet, Stays, Goes, Ordinary, Connecting

LEMMA WorkAgree ==
  ASSUME Core, Core', AloneInv, AgreeInv, Contends, Races, NEW ch \in Channels,
         NEW j, j = frame[ch].agent.cid, Kept(ch), Goes(ch), SessionsOwned', EraseSees(frame[ch])',
         frame[ch].pc \notin Connecting \cup {"idle", "reg_client", "add_subscription"},
         \A i \in ClientIds \ {j} : sessions'[i] = sessions[i],
         frame[ch].rq.op \in Leaving \/ sessions'[j] = sessions[j],
         KnowsSession(frame[ch]) /\ Sees(frame[ch]) =>
           /\ Busy(ch)' => Sees(frame[ch])' /\ TakesUp(frame[ch])'
           /\ StillChanging(ch, j)
  PROVE  AgreeInv'
<1>1. Busy(ch) /\ j \in ClientIds
  BY HandlerFacts DEF Busy
<1>2. Busy(ch)' => frame'[ch].agent = frame[ch].agent /\ frame'[ch].rq = frame[ch].rq
                   /\ frame'[ch].pc \notin Connecting \cup {"reg_client", "set_param"}
  BY IdleFrame DEF Goes, Busy
<1>3. SameRegistered(j)
  BY DEF SameRegistered, Goes
<1>4. Untouched(ch, j)
  BY <1>3, KeptUntouched
<1>5. ASSUME j \in ClientIds \ contended', Sole(ch, j), j \notin contended
      PROVE  /\ Busy(ch)' => KnowsSession(frame[ch])' /\ Sees(frame[ch])'
             /\ Agrees(j)'
  <2>1. KnowsSession(frame[ch]) /\ Sees(frame[ch]) /\ Agrees(j)
    BY <1>1, <1>5 DEF AgreeInv
  <2>2. Busy(ch)' => KnowsSession(frame[ch])'
    <3> SUFFICES ASSUME Busy(ch)'
                 PROVE  KnowsSession(frame[ch])'
      OBVIOUS
    <3>1. TakesUp(frame[ch])'
      BY <2>1
    <3>2. frame'[ch].pc \notin {"new_session", "reg_client", "set_param"}
      BY <1>2 DEF Connecting
    <3>3. frame[ch].rq.op \notin Leaving \cup {"connect"} => clients[j] = frame[ch].agent
      BY <2>1 DEF KnowsSession
    <3>4. clients' = clients
      BY DEF Goes
    <3> QED
      BY <1>2, <3>1, <3>2, <3>3, <3>4 DEF KnowsSession
  <2>3. Agrees(j)'
    <3>1. clients[j] # NULL => clients[j] \in ClientUpTo(Len(store))
      BY <1>1 DEF Core, TypesInv, RegistryTypes
    <3>2. clients'[j] = clients[j]
      BY DEF Goes
    <3>3. \/ frame'[ch].rq.op \in Leaving /\ Busy(ch)'
          \/ frame[ch].rq.op \notin Leaving /\ sessions'[j] = sessions[j]
      BY DEF Goes, Busy
    <3>4. StillChanging(ch, j)
      BY <2>1
    <3>5. Busy(ch)' => frame'[ch].agent.cid = j
      BY <1>2
    <3> QED
      BY <1>1, <1>5, <2>1, <3>1, <3>2, <3>3, <3>4, <3>5, KeptAgrees
  <2> QED
    BY <2>1, <2>2, <2>3
<1>6. Busy(ch)' => frame'[ch].agent.cid = j
  BY <1>2
<1> QED
  BY <1>1, <1>4, <1>5, <1>6, AgreeStep

\* A step that neither subscribes nor unsubscribes.
Silent(ch) ==
  /\ UNCHANGED <<map, sessions>>
  /\ Len(objects') = Len(objects) /\ Len(store') = Len(store)
  /\ \A o \in 1..Len(objects) : objects'[o].filter = objects[o].filter /\ objects'[o].clients = objects[o].clients
  /\ \A s \in 1..Len(store) : store'[s].subs = store[s].subs

LEMMA SilentKept ==
  ASSUME Core, NEW ch \in Channels, Silent(ch), Others(ch)
  PROVE  Kept(ch)
<1>1. ASSUME NEW f \in Filters, NEW i \in ClientIds
      PROVE  SameEntry(f, i)
  <2>1. map[f] # NULL => map[f] \in 1..Len(objects)
    BY DEF Core, TypesInv, TopicTypes
  <2>2. map' = map
    BY DEF Silent
  <2> QED
    BY <2>1, <2>2 DEF SameEntry, Entry, Silent
<1> QED
  BY <1>1 DEF Kept, Silent

LEMMA SilentOwners ==
  ASSUME Core, AgreeInv, NEW ch \in Channels, Silent(ch), Others(ch),
         \A i \in ClientIds : clients'[i] \in {clients[i], NULL, frame[ch].agent},
         \A x \in Channels : param'[x] \in {param[x], NULL, frame[ch].agent},
         frame'[ch].agent \in {frame[ch].agent, NULL, param[ch]} \/ frame'[ch].agent.sess = NULL
  PROVE  SessionsOwned'
<1>1. /\ Len(store') = Len(store) /\ \A i \in ClientIds : sessions'[i] \in {sessions[i], NULL}
      /\ \A o \in 1..Len(objects') : \A i \in ClientIds :
            o \in 1..Len(objects) /\ objects'[o].clients[i] = objects[o].clients[i]
  BY DEF Silent
<1> QED
  BY <1>1, SameOwners

\* Places with nothing to do with subscriptions.
Aside == {"resend", "publish", "wild", "wild_next", "store", "lock", "deliver", "will", "will_id",
          "unsubscribe_all", "lookup", "empty", "puback", "delete_session"} \cup Passing

LEMMA SilentAgree ==
  ASSUME Core, Core', AloneInv, AgreeInv, Contends, Races, NEW ch \in Channels,
         Silent(ch), Goes(ch), frame[ch].pc \in Aside,
         frame'[ch].pc \in Aside \cup {"idle", "deregister"}
  PROVE  AgreeInv'
<1>1. PICK j : j = frame[ch].agent.cid
  OBVIOUS
<1>2. /\ Others(ch) /\ frame'[ch].agent \in {frame[ch].agent, NULL} /\ UNCHANGED <<clients, sessions>>
      /\ \A x \in Channels : param'[x] \in {param[x], frame[ch].agent}
  BY IdleFrame DEF Goes, Silent
<1>3. Kept(ch) /\ SessionsOwned'
  BY <1>2, SilentKept, SilentOwners
<1>4. EraseSees(frame[ch])' /\ Sees(frame[ch])' /\ TakesUp(frame[ch])'
  BY DEF EraseSees, Sees, TakesUp, Aside, Passing
<1>5. StillChanging(ch, j)
  <2> SUFFICES ASSUME NEW f \in Filters, Changing(frame[ch], f)
               PROVE  Busy(ch)' /\ Changing(frame[ch], f)'
    BY DEF StillChanging
  <2>1. frame[ch].rq.op \in Leaving
    BY DEF Changing, Aside, Passing
  <2> QED
    BY <2>1 DEF Goes, Changing, Busy
<1>6. frame[ch].pc \notin Connecting \cup {"idle", "reg_client", "add_subscription"}
  BY DEF Aside, Passing, Connecting
<1> QED
  BY <1>1, <1>2, <1>3, <1>4, <1>5, <1>6, WorkAgree

Moves(ch) == Goes(ch) /\ frame'[ch].pc \in Aside \cup {"idle", "deregister"}

LEMMA GotoMoves ==
  ASSUME Core, NEW ch \in Channels, NEW fr, SameWork(frame[ch], fr),
         NEW pc \in Aside \cup {"deregister"}, Goto(ch, fr, pc), UNCHANGED <<clients, param>>
  PROVE  Moves(ch)
<1>1. /\ Others(ch)
      /\ frame'[ch].pc = pc /\ frame'[ch].agent = frame[ch].agent /\ frame'[ch].rq = frame[ch].rq
  BY GotoWork
<1>2. pc \notin Connecting \cup {"idle", "reg_client", "set_param"}
  BY DEF Aside, Passing, Connecting
<1> QED
  BY <1>1, <1>2 DEF Moves, Goes

LEMMA ReturnMoves ==
  ASSUME Core, NEW ch \in Channels, Return(ch), UNCHANGED <<clients, param>>, frame[ch].rq.op \notin Leaving
  PROVE  Moves(ch)
BY ReturnStays, IdleFrame DEF Moves, Goes

\* An object of which the message or the mutex is set, a session of which an exchange
\* is opened or closed.
LEMMA EntriesKept ==
  ASSUME Core, NEW o \in 1..Len(objects), NEW v,
         \/ objects' = [objects EXCEPT ![o].mutex = v]
         \/ objects' = [objects EXCEPT ![o].retained = v]
  PROVE  /\ Len(objects') = Len(objects)
         /\ \A p \in 1..Len(objects) :
              objects'[p].filter = objects[p].filter /\ objects'[p].clients = objects[p].clients
<1>1. objects \in Seq(ObjectUpTo(Len(store))) /\ objects[o] \in ObjectUpTo(Len(store))
  BY ObjectAtHand DEF Core, TypesInv, TopicTypes
<1>2. PICK t : objects' = [objects EXCEPT ![o] = t] /\ t.filter = objects[o].filter /\ t.clients = objects[o].clients
  <2>1. [objects[o] EXCEPT !.mutex = v].filter = objects[o].filter
        /\ [objects[o] EXCEPT !.mutex = v].clients = objects[o].clients
    BY <1>1 DEF ObjectUpTo
  <2>2. [objects[o] EXCEPT !.retained = v].filter = objects[o].filter
        /\ [objects[o] EXCEPT !.retained = v].clients = objects[o].clients
    BY <1>1 DEF ObjectUpTo
  <2> QED
    BY <2>1, <2>2
<1> QED
  BY <1>1, <1>2

LEMMA SubsKept ==
  ASSUME Core, NEW s \in 1..Len(store), NEW v, store' = [store EXCEPT ![s].open = v]
  PROVE  Len(store') = Len(store) /\ \A p \in 1..Len(store) : store'[p].subs = store[p].subs
<1>1. store \in Seq(SessionObject) /\ store[s] \in SessionObject
  BY StoreFields
<1>2. [store[s] EXCEPT !.open = v].subs = store[s].subs
  BY <1>1 DEF SessionObject
<1> QED
  BY <1>1, <1>2

LEMMA RetainedAgree ==
  ASSUME Core, Core', AloneInv, AgreeInv, Contends, Races, NEW ch \in Channels,
         resend(ch) \/ retained(ch) \/ retained_wild(ch) \/ retained_of(ch) \/ read_retained(ch)
  PROVE  AgreeInv'
<1>1. /\ frame[ch].pc \in {"resend", "retained", "retained_wild", "retained_of", "read_retained"}
      /\ UNCHANGED <<param, clients, sessions, map, objects, store>>
  BY DEF resend, retained, retained_wild, retained_of, read_retained, Step, At, registries, topics
<1>2. Silent(ch)
  BY <1>1 DEF Silent
<1>3. frame[ch].rq.op \notin Leaving
  BY <1>1, HandlerFacts DEF Serves, Passing, Leaving
<1>4. SameWork(frame[ch], frame[ch])
  BY Edits
<1>5. Moves(ch)
  <2>1. CASE resend(ch)
    <3>1. Goto(ch, frame[ch], "retained")
      BY <2>1 DEF resend, Step
    <3> QED
      BY <1>1, <1>4, <3>1, GotoMoves DEF Aside, Passing
  <2>2. CASE retained(ch)
    <3>1. CASE Return(ch)
      BY <1>1, <1>3, <3>1, ReturnMoves
    <3>2. CASE ~Return(ch)
      <4>1. PICK o, pc :
              /\ Goto(ch, [frame[ch] EXCEPT !.obj = o, !.source = o, !.objs = @ \ {o}], pc)
              /\ pc = CASE objects[o].filter \in Wild -> "retained_wild"
                        [] objects[o].filter \in Plain /\ objects[o].retained -> "read_retained"
                        [] OTHER -> "retained"
        BY <2>2, <3>2 DEF retained
      <4>2. pc \in Aside
        BY <4>1, FilterAssumption DEF Aside, Passing
      <4>3. SameWork(frame[ch], [frame[ch] EXCEPT !.obj = o, !.source = o, !.objs = @ \ {o}])
        BY Edits
      <4> QED
        BY <1>1, <4>1, <4>2, <4>3, GotoMoves
    <3> QED
      BY <3>1, <3>2
  <2>3. CASE retained_wild(ch)
    <3>1. PICK matched : Goto(ch, [frame[ch] EXCEPT !.todo = matched], "retained_of")
      BY <2>3 DEF retained_wild
    <3>2. SameWork(frame[ch], [frame[ch] EXCEPT !.todo = matched]) /\ "retained_of" \in Aside
      BY Edits DEF Aside, Passing
    <3> QED
      BY <1>1, <3>1, <3>2, GotoMoves
  <2>4. CASE retained_of(ch)
    <3>1. CASE Goto(ch, frame[ch], "retained")
      BY <1>1, <1>4, <3>1, GotoMoves DEF Aside, Passing
    <3>2. CASE ~Goto(ch, frame[ch], "retained")
      <4>1. PICK n, source, pc :
              /\ Goto(ch, [frame[ch] EXCEPT !.todo = @ \ {n}, !.source = source], pc)
              /\ pc \in {"read_retained", "retained_of"}
        BY <2>4, <3>2 DEF retained_of
      <4>2. SameWork(frame[ch], [frame[ch] EXCEPT !.todo = @ \ {n}, !.source = source])
        BY Edits
      <4> QED
        BY <1>1, <4>1, <4>2, GotoMoves DEF Aside, Passing
    <3> QED
      BY <3>1, <3>2
  <2>5. CASE read_retained(ch)
    <3>1. PICK pc \in {"send_retained", "send_null"} :
            Goto(ch, [frame[ch] EXCEPT !.to = {param[ch]}], pc)
      BY <2>5 DEF read_retained
    <3>2. SameWork(frame[ch], [frame[ch] EXCEPT !.to = {param[ch]}])
      BY Edits
    <3> QED
      BY <1>1, <3>1, <3>2, GotoMoves DEF Aside, Passing
  <2> QED
    BY <2>1, <2>2, <2>3, <2>4, <2>5
<1>6. frame[ch].pc \in Aside
  BY <1>1 DEF Aside, Passing
<1> QED
  BY <1>2, <1>5, <1>6, SilentAgree DEF Moves

LEMMA SendRetainedAgree ==
  ASSUME Core, Core', AloneInv, AgreeInv, Contends, Races, NEW ch \in Channels, send_retained(ch)
  PROVE  AgreeInv'
<1>1. /\ frame[ch].pc \in {"send_retained", "send_null"}
      /\ UNCHANGED <<param, clients, sessions, map, store>>
      /\ \/ UNCHANGED <<frame, objects>>
         \/ objects' = [objects EXCEPT ![frame[ch].obj].mutex = ch] /\ Goto(ch, frame[ch], "deliver")
         \/ UNCHANGED objects /\ Return(ch)
  BY DEF send_retained, At, registries
<1>2. frame[ch].rq.op \notin Leaving /\ frame[ch].obj \in 1..Len(objects)
  BY <1>1, HandlerFacts DEF Serves, Passing, Leaving, Has, AtObject
<1>3. Silent(ch)
  BY <1>1, <1>2, EntriesKept DEF Silent
<1>4. Moves(ch)
  <2>1. CASE UNCHANGED frame
    BY <1>1, <2>1 DEF Moves, Goes, Others, Aside, Passing, Connecting
  <2>2. CASE Goto(ch, frame[ch], "deliver")
    <3>1. SameWork(frame[ch], frame[ch]) /\ "deliver" \in Aside
      BY Edits DEF Aside
    <3> QED
      BY <1>1, <2>2, <3>1, GotoMoves
  <2>3. CASE Return(ch)
    BY <1>1, <1>2, <2>3, ReturnMoves
  <2> QED
    BY <1>1, <2>1, <2>2, <2>3
<1>5. frame[ch].pc \in Aside
  BY <1>1 DEF Aside, Passing
<1> QED
  BY <1>3, <1>4, <1>5, SilentAgree DEF Moves

LEMMA AfterPublishAside ==
  ASSUME NEW ch
  PROVE  AfterPublish(ch) \in Aside
<1>1. CASE frame[ch].rq.op = "publish"
  BY <1>1 DEF AfterPublish, Aside
<1>2. CASE frame[ch].rq.op = "disconnected"
  BY <1>2 DEF AfterPublish, Aside
<1>3. CASE frame[ch].rq.op \notin {"publish", "disconnected"}
  BY <1>3 DEF AfterPublish, Aside, Passing
<1> QED
  BY <1>1, <1>2, <1>3

LEMMA DeliverAgree ==
  ASSUME Core, Core', AloneInv, AgreeInv, Contends, Races, NEW ch \in Channels,
         store_retained(ch) \/ lock(ch) \/ deliver(ch)
  PROVE  AgreeInv'
<1>1. /\ frame[ch].pc \in {"store", "lock", "deliver"}
      /\ UNCHANGED <<param, clients, sessions, map>>
  BY DEF store_retained, lock, deliver, Step, At, registries
<1>2. frame[ch].obj \in 1..Len(objects)
  BY <1>1, HandlerFacts DEF Has, AtObject
<1>3. \E v : \/ objects' = [objects EXCEPT ![frame[ch].obj].mutex = v]
             \/ objects' = [objects EXCEPT ![frame[ch].obj].retained = v]
  BY DEF store_retained, lock, deliver
<1>4. \/ UNCHANGED store
      \/ \E s \in 1..Len(store) : \E v : store' = [store EXCEPT ![s].open = v]
  <2>1. CASE store_retained(ch) \/ lock(ch)
    BY <2>1 DEF store_retained, lock
  <2>2. CASE deliver(ch)
    <3>1. PICK c \in frame[ch].to : store' = [store EXCEPT ![c.sess].open = @ + 1]
      BY <2>2 DEF deliver
    <3>2. frame[ch].pc = "deliver"
      BY <2>2 DEF deliver, At
    <3>3. c \in ClientUpTo(Len(store)) /\ Len(store) \in Nat
      BY <3>2, HandlerFacts DEF Has
    <3> QED
      BY <3>1, <3>3, KnownFields
  <2> QED
    BY <2>1, <2>2
<1>5. Silent(ch)
  <2>1. /\ Len(objects') = Len(objects)
        /\ \A p \in 1..Len(objects) :
             objects'[p].filter = objects[p].filter /\ objects'[p].clients = objects[p].clients
    BY <1>2, <1>3, EntriesKept
  <2>2. Len(store') = Len(store) /\ \A p \in 1..Len(store) : store'[p].subs = store[p].subs
    BY <1>4, SubsKept
  <2> QED
    BY <1>1, <2>1, <2>2 DEF Silent
<1>6. Moves(ch)
  <2>1. PICK to, pc : /\ \/ Goto(ch, frame[ch], pc)
                         \/ Goto(ch, [frame[ch] EXCEPT !.to = to], pc)
                      /\ pc \in {"lock", "deliver", AfterPublish(ch)}
    BY DEF store_retained, lock, deliver, Step
  <2>2. pc \in Aside
    BY <2>1, AfterPublishAside DEF Aside
  <2>3. SameWork(frame[ch], frame[ch]) /\ SameWork(frame[ch], [frame[ch] EXCEPT !.to = to])
    BY Edits
  <2> QED
    BY <1>1, <2>1, <2>2, <2>3, GotoMoves
<1>7. frame[ch].pc \in Aside
  BY <1>1 DEF Aside
<1> QED
  BY <1>5, <1>6, <1>7, SilentAgree DEF Moves

LEMMA PublishOnMoves ==
  ASSUME Core, NEW ch \in Channels, NEW o, UNCHANGED <<clients, param>>,
         \/ PublishOn(ch, frame[ch], o)
         \/ \E objs : PublishOn(ch, [frame[ch] EXCEPT !.objs = objs], o)
  PROVE  Moves(ch)
<1>1. CASE PublishOn(ch, frame[ch], o)
  <2>1. PICK pc : Goto(ch, [frame[ch] EXCEPT !.obj = o], pc) /\ pc \in Aside
    BY <1>1 DEF PublishOn, Aside
  <2> QED
    BY <2>1, Edits, GotoMoves
<1>2. ASSUME NEW objs, PublishOn(ch, [frame[ch] EXCEPT !.objs = objs], o)
      PROVE  Moves(ch)
  <2>1. PICK pc : Goto(ch, [[frame[ch] EXCEPT !.objs = objs] EXCEPT !.obj = o], pc) /\ pc \in Aside
    BY <1>2 DEF PublishOn, Aside
  <2> QED
    BY <2>1, Edits, GotoMoves
<1> QED
  BY <1>1, <1>2

LEMMA PublishAgree ==
  ASSUME Core, Core', AloneInv, AgreeInv, Contends, Races, NEW ch \in Channels,
         publish(ch) \/ wild(ch) \/ wild_next(ch) \/ will(ch) \/ will_id(ch) \/ puback(ch)
  PROVE  AgreeInv'
<1>1. /\ frame[ch].pc \in {"publish", "wild", "wild_next", "will", "will_id", "puback"}
      /\ UNCHANGED <<param, clients, sessions, map, objects>>
  BY DEF publish, wild, wild_next, will, will_id, puback, At, registries, topics
<1>2. Moves(ch)
  <2>1. CASE publish(ch)
    <3>1. CASE Goto(ch, frame[ch], "wild")
      <4>1. SameWork(frame[ch], frame[ch]) /\ "wild" \in Aside
        BY Edits DEF Aside
      <4> QED
        BY <1>1, <3>1, <4>1, GotoMoves
    <3>2. CASE ~Goto(ch, frame[ch], "wild")
      <4>1. \E o : PublishOn(ch, frame[ch], o)
        BY <2>1, <3>2 DEF publish
      <4> QED
        BY <1>1, <4>1, PublishOnMoves
    <3> QED
      BY <3>1, <3>2
  <2>2. CASE wild(ch)
    <3>1. PICK objs : Goto(ch, [frame[ch] EXCEPT !.objs = objs], "wild_next")
      BY <2>2 DEF wild
    <3>2. SameWork(frame[ch], [frame[ch] EXCEPT !.objs = objs]) /\ "wild_next" \in Aside
      BY Edits DEF Aside
    <3> QED
      BY <1>1, <3>1, <3>2, GotoMoves
  <2>3. CASE wild_next(ch)
    <3>1. Return(ch) \/ \E o, objs : PublishOn(ch, [frame[ch] EXCEPT !.objs = objs], o)
      BY <2>3 DEF wild_next
    <3>2. frame[ch].rq.op \notin Leaving
      BY <2>3, HandlerFacts DEF wild_next, At, Serves, Publishing, Leaving
    <3> QED
      BY <1>1, <3>1, <3>2, ReturnMoves, PublishOnMoves
  <2>4. CASE will(ch)
    <3>1. PICK o, pc : Goto(ch, [frame[ch] EXCEPT !.obj = o], pc) /\ pc \in {"unsubscribe_all", "will_id"}
      BY <2>4 DEF will
    <3>2. SameWork(frame[ch], [frame[ch] EXCEPT !.obj = o]) /\ pc \in Aside
      BY <3>1, Edits DEF Aside
    <3> QED
      BY <1>1, <3>1, <3>2, GotoMoves
  <2>5. CASE will_id(ch)
    <3>1. \E o : PublishOn(ch, frame[ch], o)
      BY <2>5 DEF will_id
    <3> QED
      BY <1>1, <3>1, PublishOnMoves
  <2>6. CASE puback(ch)
    <3>1. frame[ch].rq.op \notin Leaving
      BY <2>6, HandlerFacts DEF puback, At, Serves, Leaving
    <3>2. Return(ch)
      BY <2>6 DEF puback
    <3> QED
      BY <1>1, <3>1, <3>2, ReturnMoves
  <2> QED
    BY <2>1, <2>2, <2>3, <2>4, <2>5, <2>6
<1>3. \/ UNCHANGED store
      \/ \E s \in 1..Len(store) : \E v : store' = [store EXCEPT ![s].open = v]
  <2>1. CASE publish(ch) \/ wild(ch) \/ wild_next(ch) \/ will(ch) \/ will_id(ch)
    BY <2>1 DEF publish, wild, wild_next, will, will_id
  <2>2. CASE puback(ch)
    <3>1. store' = [store EXCEPT ![frame[ch].agent.sess].open = IF @ > 0 THEN @ - 1 ELSE @]
          /\ frame[ch].pc = "puback"
      BY <2>2 DEF puback, At
    <3>2. frame[ch].agent.sess \in 1..Len(store)
      BY <3>1, HandlerFacts, KnownFields DEF Connecting
    <3> QED
      BY <3>1, <3>2
  <2> QED
    BY <2>1, <2>2
<1>4. Silent(ch)
  <2>1. Len(store') = Len(store) /\ \A p \in 1..Len(store) : store'[p].subs = store[p].subs
    BY <1>3, SubsKept
  <2> QED
    BY <1>1, <2>1 DEF Silent
<1>5. frame[ch].pc \in Aside
  BY <1>1 DEF Aside
<1> QED
  BY <1>2, <1>4, <1>5, SilentAgree DEF Moves

LEMMA NextToUnsubscribeMoves ==
  ASSUME Core, NEW ch \in Channels, NEW fr, SameWork(frame[ch], fr), NextToUnsubscribe(ch, fr),
         UNCHANGED <<clients, param>>
  PROVE  Moves(ch)
<1>1. \/ Return(ch) /\ frame[ch].rq.op \notin Leaving
      \/ \E pc \in {"lookup", "delete_session", "deregister"} : Goto(ch, fr, pc)
  BY DEF NextToUnsubscribe, SameWork, Leaving
<1> QED
  BY <1>1, ReturnMoves, GotoMoves DEF Aside

LEMMA UnsubscribeAllAgree ==
  ASSUME Core, Core', AloneInv, AgreeInv, Contends, Races, NEW ch \in Channels, unsubscribe_all(ch)
  PROVE  AgreeInv'
<1>1. /\ frame[ch].pc = "unsubscribe_all"
      /\ UNCHANGED <<param, clients, sessions, map, objects, store>>
  BY DEF unsubscribe_all, At, registries, topics
<1>2. PICK todo : NextToUnsubscribe(ch, [frame[ch] EXCEPT !.todo = todo])
  BY DEF unsubscribe_all
<1>3. SameWork(frame[ch], [frame[ch] EXCEPT !.todo = todo])
  BY Edits
<1>4. Moves(ch)
  BY <1>1, <1>2, <1>3, NextToUnsubscribeMoves
<1>5. Silent(ch) /\ frame[ch].pc \in Aside
  BY <1>1 DEF Silent, Aside
<1> QED
  BY <1>4, <1>5, SilentAgree DEF Moves

\* A topic found empty has no entry to lose.
LEMMA EmptyAgree ==
  ASSUME Core, Core', AloneInv, AgreeInv, Contends, Races, NEW ch \in Channels, empty(ch)
  PROVE  AgreeInv'
<1>1. /\ frame[ch].pc = "empty"
      /\ UNCHANGED <<param, clients, sessions, map, objects, store>>
      /\ \/ IsEmpty(frame[ch].obj) /\ Goto(ch, frame[ch], "erase")
         \/ NextToUnsubscribe(ch, frame[ch])
  BY DEF empty, At, registries, topics
<1>2. SameWork(frame[ch], frame[ch])
  BY Edits
<1>3. Silent(ch) /\ frame[ch].pc \in Aside
  BY <1>1 DEF Silent, Aside
<1>4. CASE NextToUnsubscribe(ch, frame[ch])
  <2>1. Moves(ch)
    BY <1>1, <1>2, <1>4, NextToUnsubscribeMoves
  <2> QED
    BY <1>3, <2>1, SilentAgree DEF Moves
<1>5. CASE IsEmpty(frame[ch].obj) /\ Goto(ch, frame[ch], "erase")
  <2>1. PICK j, o : j = frame[ch].agent.cid /\ o = frame[ch].obj
    OBVIOUS
  <2>2. /\ Others(ch)
        /\ frame'[ch].pc = "erase" /\ frame'[ch].agent = frame[ch].agent /\ frame'[ch].rq = frame[ch].rq
    BY <1>2, <1>5, GotoWork
  <2>3. frame'[ch].obj = o
    <3>1. DOMAIN frame[ch] = {"pc", "rq", "agent", "to", "todo", "obj", "source", "objs"}
          /\ DOMAIN frame = Channels
      BY DEF Core, TypesInv, FrameTypes, FrameUpTo
    <3>2. frame'[ch] = [frame[ch] EXCEPT !.pc = "erase"]
      BY <1>5, <3>1 DEF Goto
    <3> QED
      BY <2>1, <3>1, <3>2
  <2>4. Entries(o)' = {}
    BY <1>1, <1>5, <2>1 DEF IsEmpty, Entries
  <2>5. EraseSees(frame[ch])'
    BY <2>3, <2>4 DEF EraseSees
  <2>6. Sees(frame[ch])' /\ TakesUp(frame[ch])'
    BY <2>2 DEF Sees, TakesUp
  <2>7. Goes(ch) /\ Kept(ch) /\ SessionsOwned'
    BY <1>1, <1>3, <2>2, SilentKept, SilentOwners DEF Goes, Connecting
  <2>8. StillChanging(ch, j)
    <3> SUFFICES ASSUME NEW f \in Filters, Changing(frame[ch], f)
                 PROVE  Busy(ch)' /\ Changing(frame[ch], f)'
      BY DEF StillChanging
    <3>1. frame[ch].rq.op \in Leaving
      BY <1>1 DEF Changing
    <3> QED
      BY <2>2, <3>1 DEF Changing, Busy
  <2>9. frame[ch].pc \notin Connecting \cup {"idle", "reg_client", "add_subscription"}
    BY <1>1 DEF Connecting
  <2> QED
    BY <1>1, <2>1, <2>5, <2>6, <2>7, <2>8, <2>9, WorkAgree
<1> QED
  BY <1>1, <1>4, <1>5

LEMMA LookupAgree ==
  ASSUME Core, Core', AloneInv, AgreeInv, Contends, Races, NEW ch \in Channels, lookup(ch)
  PROVE  AgreeInv'
<1>1. /\ frame[ch].pc = "lookup"
      /\ UNCHANGED <<param, clients, sessions, map, objects, store>>
  BY DEF lookup, At, registries, topics
<1>2. PICK f \in frame[ch].todo :
        \/ NextToUnsubscribe(ch, [frame[ch] EXCEPT !.todo = @ \ {f}, !.obj = map[f]])
        \/ /\ map[f] # NULL
           /\ Goto(ch, [frame[ch] EXCEPT !.todo = @ \ {f}, !.obj = map[f]], "unsubscribe")
  BY DEF lookup
<1>3. SameWork(frame[ch], [frame[ch] EXCEPT !.todo = @ \ {f}, !.obj = map[f]])
  BY Edits
<1>4. Silent(ch) /\ frame[ch].pc \in Aside
  BY <1>1 DEF Silent, Aside
<1>5. CASE NextToUnsubscribe(ch, [frame[ch] EXCEPT !.todo = @ \ {f}, !.obj = map[f]])
  <2>1. Moves(ch)
    BY <1>1, <1>3, <1>5, NextToUnsubscribeMoves
  <2> QED
    BY <1>4, <2>1, SilentAgree DEF Moves
<1>6. CASE map[f] # NULL /\ Goto(ch, [frame[ch] EXCEPT !.todo = @ \ {f}, !.obj = map[f]], "unsubscribe")
  <2>1. PICK j, o : j = frame[ch].agent.cid /\ o = map[f]
    OBVIOUS
  <2>2. /\ Others(ch)
        /\ frame'[ch].pc = "unsubscribe" /\ frame'[ch].agent = frame[ch].agent /\ frame'[ch].rq = frame[ch].rq
    BY <1>3, <1>6, GotoWork
  <2>3. frame'[ch].obj = o
    <3>1. DOMAIN frame[ch] = {"pc", "rq", "agent", "to", "todo", "obj", "source", "objs"}
          /\ DOMAIN frame = Channels
      BY DEF Core, TypesInv, FrameTypes, FrameUpTo
    <3>2. frame'[ch] = [[frame[ch] EXCEPT !.todo = @ \ {f}, !.obj = map[f]] EXCEPT !.pc = "unsubscribe"]
      BY <1>6, <3>1 DEF Goto
    <3> QED
      BY <2>1, <3>1, <3>2
  <2>4. f \in Filters /\ o \in 1..Len(objects) /\ objects[o].filter = f
    <3>1. f \in Filters
      BY HandlerFacts
    <3> QED
      BY <1>6, <2>1, <3>1 DEF Core, TypesInv, TopicTypes, ObjectsInv
  <2>5. objects'[o].filter = f /\ map'[f] = o
    BY <1>1, <2>1, <2>4
  <2>6. Sees(frame[ch])' /\ TakesUp(frame[ch])' /\ EraseSees(frame[ch])'
    BY <2>2, <2>3, <2>5 DEF Sees, TakesUp, EraseSees
  <2>7. Goes(ch) /\ Kept(ch) /\ SessionsOwned'
    BY <1>1, <1>4, <2>2, SilentKept, SilentOwners DEF Goes, Connecting
  <2>8. StillChanging(ch, j)
    <3> SUFFICES ASSUME NEW g \in Filters, Changing(frame[ch], g)
                 PROVE  Busy(ch)' /\ Changing(frame[ch], g)'
      BY DEF StillChanging
    <3>1. frame[ch].rq.op \in Leaving
      BY <1>1 DEF Changing
    <3> QED
      BY <2>2, <3>1 DEF Changing, Busy
  <2>9. frame[ch].pc \notin Connecting \cup {"idle", "reg_client", "add_subscription"}
    BY <1>1 DEF Connecting
  <2> QED
    BY <1>1, <2>1, <2>6, <2>7, <2>8, <2>9, WorkAgree
<1> QED
  BY <1>2, <1>5, <1>6

LEMMA DeleteSessionAgree ==
  ASSUME Core, Core', AloneInv, AgreeInv, Contends, Races, NEW ch \in Channels, delete_session(ch)
  PROVE  AgreeInv'
<1>1. PICK j : j = frame[ch].agent.cid
  OBVIOUS
<1>2. /\ frame[ch].pc = "delete_session" /\ Goto(ch, frame[ch], "deregister")
      /\ sessions' = [sessions EXCEPT ![j] = NULL]
      /\ UNCHANGED <<param, clients, map, objects, store>>
  BY <1>1 DEF delete_session, Step, At, topics
<1>3. frame[ch].rq.op \in Leaving
  BY <1>2, HandlerFacts DEF Serves
<1>4. /\ Others(ch)
      /\ frame'[ch].pc = "deregister" /\ frame'[ch].agent = frame[ch].agent /\ frame'[ch].rq = frame[ch].rq
  BY <1>2, Edits, GotoWork
<1>5. \A i \in ClientIds : sessions'[i] \in {sessions[i], NULL} /\ (i # j => sessions'[i] = sessions[i])
  BY <1>2 DEF Core, TypesInv, RegistryTypes
<1>6. Goes(ch)
  BY <1>2, <1>4 DEF Goes, Connecting
<1>7. Kept(ch)
  BY <1>2, <1>4 DEF Kept, SameEntry, Entry
<1>8. SessionsOwned'
  <2>1. \A o \in 1..Len(objects') : \A i \in ClientIds :
            o \in 1..Len(objects) /\ objects'[o].clients[i] = objects[o].clients[i]
    BY <1>2
  <2> QED
    BY <1>2, <1>4, <1>5, <2>1, SameOwners
<1>9. Sees(frame[ch])' /\ TakesUp(frame[ch])' /\ EraseSees(frame[ch])'
  BY <1>4 DEF Sees, TakesUp, EraseSees
<1>10. StillChanging(ch, j)
  BY <1>3, <1>4 DEF StillChanging, Changing, Busy
<1>11. frame[ch].pc \notin Connecting \cup {"idle", "reg_client", "add_subscription"}
  BY <1>2 DEF Connecting
<1> QED
  BY <1>1, <1>3, <1>5, <1>6, <1>7, <1>8, <1>9, <1>10, <1>11, WorkAgree

\* A frame of which the filters left and the object change.
LEMMA GotoFields ==
  ASSUME Core, NEW ch \in Channels, NEW todo, NEW obj, NEW objs, NEW pc
  PROVE  /\ Goto(ch, frame[ch], pc) => frame'[ch].todo = frame[ch].todo /\ frame'[ch].obj = frame[ch].obj
         /\ Goto(ch, [frame[ch] EXCEPT !.todo = todo], pc) => frame'[ch].todo = todo
         /\ Goto(ch, [frame[ch] EXCEPT !.obj = obj, !.objs = objs, !.todo = todo], pc) =>
              frame'[ch].todo = todo /\ frame'[ch].obj = obj
<1>1. DOMAIN frame[ch] = {"pc", "rq", "agent", "to", "todo", "obj", "source", "objs"}
      /\ DOMAIN frame = Channels
  BY DEF Core, TypesInv, FrameTypes, FrameUpTo
<1>2. \A fr : Goto(ch, fr, pc) => frame'[ch] = [fr EXCEPT !.pc = pc]
  BY <1>1 DEF Goto
<1>3. PICK g : g = frame[ch]
  OBVIOUS
<1>4. Goto(ch, g, pc) => frame'[ch].todo = g.todo /\ frame'[ch].obj = g.obj
  BY <1>1, <1>2, <1>3
<1>5. ASSUME NEW h, DOMAIN h = DOMAIN g, Goto(ch, h, pc)
      PROVE  frame'[ch].todo = h.todo /\ frame'[ch].obj = h.obj
  <2>1. frame'[ch] = [h EXCEPT !.pc = pc]
    BY <1>2, <1>5
  <2>2. DOMAIN h = {"pc", "rq", "agent", "to", "todo", "obj", "source", "objs"}
    BY <1>1, <1>3, <1>5
  <2> QED
    BY ONLY <2>1, <2>2
<1>6. PICK h : h = [g EXCEPT !.todo = todo]
  OBVIOUS
<1>7. DOMAIN h = DOMAIN g /\ h.todo = todo
  BY <1>1, <1>3, <1>6
<1>8. PICK k : k = [g EXCEPT !.obj = obj, !.objs = objs, !.todo = todo]
  OBVIOUS
<1>9. DOMAIN k = DOMAIN g /\ k.todo = todo /\ k.obj = obj
  BY <1>1, <1>3, <1>8
<1>10. Goto(ch, h, pc) => frame'[ch].todo = todo
  BY <1>5, <1>7
<1>11. Goto(ch, k, pc) => frame'[ch].todo = todo /\ frame'[ch].obj = obj
  BY <1>5, <1>9
<1> QED
  BY <1>3, <1>4, <1>6, <1>8, <1>10, <1>11

\* The filters of the session are the ones to subscribe to.
LEMMA RestoreAgree ==
  ASSUME Core, Core', AloneInv, AgreeInv, Contends, Races, NEW ch \in Channels, restore(ch)
  PROVE  AgreeInv'
<1> DEFINE subs == store[frame[ch].agent.sess].subs
           fr == [frame[ch] EXCEPT !.todo = subs]
           pc == NextToSubscribe(fr)
<1>1. PICK j : j = frame[ch].agent.cid
  OBVIOUS
<1>2. /\ frame[ch].pc = "restore" /\ Goto(ch, fr, pc)
      /\ UNCHANGED <<param, clients, sessions, map, objects, store>>
  BY DEF restore, At, registries, topics
<1>3. frame[ch].rq.op = "resume"
  BY <1>2, HandlerFacts DEF Serves
<1>4. SameWork(frame[ch], fr)
  BY Edits
<1>5. fr.todo = subs /\ fr.rq = frame[ch].rq
  BY <1>4 DEF SameWork, Core, TypesInv, FrameTypes, FrameUpTo
<1>6. pc = (IF subs # {} THEN "to_subscribe" ELSE "resend")
  BY <1>3, <1>5 DEF NextToSubscribe
<1>7. frame'[ch].todo = subs
  BY <1>2, GotoFields
<1> HIDE DEF pc, fr, subs
<1>8. /\ Others(ch)
      /\ frame'[ch].pc = pc /\ frame'[ch].agent = frame[ch].agent /\ frame'[ch].rq = frame[ch].rq
  BY <1>2, <1>4, GotoWork
<1>9. Goes(ch)
  BY <1>2, <1>6, <1>8 DEF Goes, Connecting
<1>10. Silent(ch)
  BY <1>2 DEF Silent
<1>11. Kept(ch) /\ SessionsOwned'
  BY <1>2, <1>8, <1>10, SilentKept, SilentOwners
<1>12. Sees(frame[ch])' /\ EraseSees(frame[ch])'
  BY <1>6, <1>8 DEF Sees, EraseSees
<1>13. TakesUp(frame[ch])'
  BY <1>2, <1>6, <1>7, <1>8 DEF TakesUp, subs
<1>14. KnowsSession(frame[ch]) => StillChanging(ch, j)
  <2> SUFFICES ASSUME KnowsSession(frame[ch]), NEW f \in Filters, f \in store[clients[j].sess].subs
               PROVE  Busy(ch)' /\ Changing(frame[ch], f)'
    BY DEF StillChanging
  <2>1. clients[j] = frame[ch].agent
    BY <1>1, <1>2, <1>3 DEF KnowsSession, Leaving
  <2>2. f \in subs /\ pc = "to_subscribe"
    BY <1>6, <2>1 DEF subs
  <2> QED
    BY <1>3, <1>7, <1>8, <2>2 DEF Changing, Busy
<1>15. frame[ch].pc \notin Connecting \cup {"idle", "reg_client", "add_subscription"}
  BY <1>2 DEF Connecting
<1> QED
  BY <1>1, <1>2, <1>9, <1>11, <1>12, <1>13, <1>14, <1>15, WorkAgree

\* A new topic has no entry.
LEMMA ToSubscribeAgree ==
  ASSUME Core, Core', AloneInv, AgreeInv, Contends, Races, NEW ch \in Channels,
         get_topic_ptr_to_subscribe(ch)
  PROVE  AgreeInv'
<1>1. PICK j : j = frame[ch].agent.cid
  OBVIOUS
<1>2. PICK f \in frame[ch].todo :
        LET o == IF map[f] = NULL THEN Len(objects) + 1 ELSE map[f] IN
        /\ objects' = IF map[f] = NULL THEN Append(objects, topic(f)) ELSE objects
        /\ map' = [map EXCEPT ![f] = o]
        /\ Goto(ch, [frame[ch] EXCEPT !.obj = o, !.objs = @ \cup {o}, !.todo = @ \ {f}], "subscribe")
  BY DEF get_topic_ptr_to_subscribe
<1>3. PICK o : o = IF map[f] = NULL THEN Len(objects) + 1 ELSE map[f]
  OBVIOUS
<1>4. /\ objects' = IF map[f] = NULL THEN Append(objects, topic(f)) ELSE objects
      /\ map' = [map EXCEPT ![f] = o]
      /\ Goto(ch, [frame[ch] EXCEPT !.obj = o, !.objs = @ \cup {o}, !.todo = @ \ {f}], "subscribe")
  BY <1>2, <1>3
<1>5. /\ frame[ch].pc = "to_subscribe" /\ UNCHANGED <<param, clients, sessions, store>>
  BY DEF get_topic_ptr_to_subscribe, At, registries
<1>6. /\ Others(ch) /\ frame'[ch].pc = "subscribe"
      /\ frame'[ch].agent = frame[ch].agent /\ frame'[ch].rq = frame[ch].rq
      /\ frame'[ch].todo = frame[ch].todo \ {f} /\ frame'[ch].obj = o
  <2>1. SameWork(frame[ch], [frame[ch] EXCEPT !.obj = o, !.objs = @ \cup {o}, !.todo = @ \ {f}])
    BY Edits
  <2> QED
    BY <1>4, <2>1, GotoWork, GotoFields
<1>7. /\ f \in Filters /\ Len(objects) \in Nat /\ objects \in Seq(ObjectUpTo(Len(store)))
      /\ \A g \in Filters : map[g] # NULL => map[g] \in 1..Len(objects) /\ objects[map[g]].filter = g
      /\ DOMAIN map = Filters
  BY HandlerFacts DEF Core, TypesInv, TopicTypes, ObjectsInv
<1>8. /\ Len(objects) <= Len(objects')
      /\ \A p \in 1..Len(objects) : objects'[p] = objects[p]
      /\ \A p \in 1..Len(objects') : p \in 1..Len(objects) \/ objects'[p] = topic(f)
      /\ objects'[o].filter = f
  <2>1. CASE map[f] = NULL
    <3>1. topic(f).filter = f
      BY DEF topic
    <3> QED
      BY <1>3, <1>4, <1>7, <2>1, <3>1
  <2>2. CASE map[f] # NULL
    BY <1>3, <1>4, <1>7, <2>2
  <2> QED
    BY <2>1, <2>2
<1>9. ASSUME NEW g \in Filters, NEW i \in ClientIds
      PROVE  SameEntry(g, i)
  <2>1. CASE map[g] # NULL
    <3>1. map'[g] = map[g]
      BY <1>3, <1>4, <1>7, <2>1
    <3> QED
      BY <1>7, <1>8, <2>1, <3>1 DEF SameEntry, Entry
  <2>2. CASE map[g] = NULL
    <3>1. CASE g = f
      <4>1. map'[g] = o /\ objects'[o] = topic(f)
        BY <1>3, <1>4, <1>7, <2>2, <3>1
      <4>2. topic(f).clients[i] = NULL
        BY DEF topic
      <4> QED
        BY <2>2, <4>1, <4>2 DEF SameEntry, Entry
    <3>2. CASE g # f
      <4>1. map'[g] = NULL
        BY <1>4, <1>7, <2>2, <3>2
      <4> QED
        BY <2>2, <4>1 DEF SameEntry, Entry
    <3> QED
      BY <3>1, <3>2
  <2> QED
    BY <2>1, <2>2
<1>10. Kept(ch)
  BY <1>5, <1>6, <1>8, <1>9 DEF Kept
<1>11. SessionsOwned'
  <2>1. ASSUME NEW p \in 1..Len(objects'), NEW i \in ClientIds
        PROVE  \/ objects'[p].clients[i] \in {NULL, frame[ch].agent}
               \/ p \in 1..Len(objects) /\ objects'[p].clients[i] = objects[p].clients[i]
    <3>1. topic(f).clients[i] = NULL
      BY DEF topic
    <3> QED
      BY <1>8, <3>1
  <2> QED
    BY <1>5, <1>6, <2>1, SameOwners
<1>12. Goes(ch)
  BY <1>5, <1>6 DEF Goes, Connecting
<1>13. Sees(frame[ch])' /\ EraseSees(frame[ch])'
  BY <1>6 DEF Sees, EraseSees
<1>14. KnowsSession(frame[ch]) => TakesUp(frame[ch])'
  <2> SUFFICES ASSUME KnowsSession(frame[ch]), frame[ch].rq.op = "resume"
               PROVE  /\ frame'[ch].todo \subseteq store'[frame'[ch].agent.sess].subs
                      /\ objects'[frame'[ch].obj].filter \in store'[frame'[ch].agent.sess].subs
    BY <1>6 DEF TakesUp
  <2>1. frame[ch].todo \subseteq store[frame[ch].agent.sess].subs
    BY <1>5 DEF KnowsSession, TakesUp
  <2> QED
    BY <1>5, <1>6, <1>8, <2>1
<1>15. StillChanging(ch, j)
  <2> SUFFICES ASSUME NEW g \in Filters, Changing(frame[ch], g)
               PROVE  Busy(ch)' /\ Changing(frame[ch], g)'
    BY DEF StillChanging
  <2>1. frame[ch].rq.op \in Leaving \/ (frame[ch].rq.op = "resume" /\ g \in frame[ch].todo)
    BY <1>5 DEF Changing
  <2> QED
    BY <1>6, <1>8, <2>1 DEF Changing, Busy
<1>16. frame[ch].pc \notin Connecting \cup {"idle", "reg_client", "add_subscription"}
  BY <1>5 DEF Connecting
<1> QED
  BY <1>1, <1>5, <1>10, <1>11, <1>12, <1>13, <1>14, <1>15, <1>16, WorkAgree

LEMMA NextToUnsubscribeGoes ==
  ASSUME Core, NEW ch \in Channels, NEW fr, SameWork(frame[ch], fr), NextToUnsubscribe(ch, fr),
         UNCHANGED <<clients, param>>, frame[ch].pc = "erase"
  PROVE  Goes(ch) /\ frame'[ch].pc \in Aside \cup {"idle", "deregister"} /\ frame'[ch] # frame[ch]
<1>1. Moves(ch)
  BY NextToUnsubscribeMoves
<1> QED
  BY <1>1 DEF Moves, Aside, Passing

\* Only an object without entries is erased, unless that is what raced is about.
LEMMA EraseAgree ==
  ASSUME Core, Core', AloneInv, AgreeInv, Contends, Races, NEW ch \in Channels, erase(ch)
  PROVE  AgreeInv'
<1>1. PICK j, o, f : j = frame[ch].agent.cid /\ o = frame[ch].obj /\ f = objects[o].filter
  OBVIOUS
<1>2. /\ frame[ch].pc = "erase" /\ NextToUnsubscribe(ch, frame[ch])
      /\ map' = [map EXCEPT ![f] = NULL]
      /\ UNCHANGED <<param, clients, sessions, objects, store>>
  BY <1>1 DEF erase, At, registries
<1>3. o \in 1..Len(objects) /\ f \in Filters /\ DOMAIN map = Filters
  <2>1. o \in 1..Len(objects)
    BY <1>1, <1>2, HandlerFacts DEF Has, AtObject
  <2> QED
    BY <1>1, <2>1, ObjectAtHand DEF Core, TypesInv, TopicTypes
<1>4. Goes(ch) /\ frame'[ch].pc \in Aside \cup {"idle", "deregister"} /\ frame'[ch] # frame[ch]
  BY <1>2, Edits, NextToUnsubscribeGoes
<1>5. ASSUME f \notin raced'
      PROVE  \A i \in ClientIds : Entry(f, i) = NULL
  <2>1. map[f] = o
    BY <1>1, <1>2, <1>4, <1>5 DEF Races, Losing
  <2>2. Entries(o) = {}
    BY <1>1, <1>2, <1>5 DEF Races, AgreeInv, EraseSees
  <2> QED
    BY <2>1, <2>2 DEF Entries, Entry
<1>6. ASSUME NEW g \in Filters \ raced', NEW i \in ClientIds
      PROVE  SameEntry(g, i)
  <2>1. CASE g = f
    <3>1. map'[g] = NULL
      BY <1>2, <1>3, <2>1
    <3> QED
      BY <1>5, <1>6, <2>1, <3>1 DEF SameEntry, Entry
  <2>2. CASE g # f
    <3>1. map'[g] = map[g]
      BY <1>2, <1>3, <2>2
    <3> QED
      BY <1>2, <3>1 DEF SameEntry, Entry
  <2> QED
    BY <2>1, <2>2
<1>7. Kept(ch)
  BY <1>2, <1>4, <1>6 DEF Kept, Goes
<1>8. SessionsOwned'
  <2>1. \A p \in 1..Len(objects') : \A i \in ClientIds :
            p \in 1..Len(objects) /\ objects'[p].clients[i] = objects[p].clients[i]
    BY <1>2
  <2>2. Others(ch) /\ frame'[ch].agent \in {frame[ch].agent, NULL}
    BY <1>4, IdleFrame DEF Goes
  <2> QED
    BY <1>2, <2>1, <2>2, SameOwners
<1>9. Sees(frame[ch])' /\ TakesUp(frame[ch])' /\ EraseSees(frame[ch])'
  BY <1>4 DEF Sees, TakesUp, EraseSees, Aside, Passing
<1>10. StillChanging(ch, j)
  <2> SUFFICES ASSUME NEW g \in Filters, Changing(frame[ch], g)
               PROVE  Busy(ch)' /\ Changing(frame[ch], g)'
    BY DEF StillChanging
  <2>1. frame[ch].rq.op \in Leaving
    BY <1>2 DEF Changing
  <2> QED
    BY <1>4, <2>1 DEF Goes, Changing, Busy
<1>11. frame[ch].pc \notin Connecting \cup {"idle", "reg_client", "add_subscription"}
  BY <1>2 DEF Connecting
<1> QED
  BY <1>1, <1>2, <1>4, <1>7, <1>8, <1>9, <1>10, <1>11, WorkAgree

-----------------------------------------------------------------------------
(* Handlers that subscribe and unsubscribe                                 *)

\* What changes when the entry of identifier j in a topic object is set.
EntrySet(o, j, v) ==
  /\ UNCHANGED map /\ Len(objects') = Len(objects)
  /\ \A p \in 1..Len(objects) : objects'[p].filter = objects[p].filter
  /\ \A p \in 1..Len(objects) : \A i \in ClientIds :
       p # o \/ i # j => objects'[p].clients[i] = objects[p].clients[i]
  /\ objects'[o].clients[j] = v

LEMMA SetsEntry ==
  ASSUME Core, NEW o \in 1..Len(objects), NEW j \in ClientIds, NEW v,
         objects' = [objects EXCEPT ![o].clients[j] = v], UNCHANGED map
  PROVE  EntrySet(o, j, v)
<1>1. objects \in Seq(ObjectUpTo(Len(store))) /\ objects[o] \in ObjectUpTo(Len(store))
      /\ DOMAIN objects[o].clients = ClientIds
  BY ObjectAtHand DEF Core, TypesInv, TopicTypes
<1>2. PICK t : /\ objects' = [objects EXCEPT ![o] = t] /\ t.filter = objects[o].filter
               /\ t.clients = [objects[o].clients EXCEPT ![j] = v]
  <2>1. PICK t : t = [objects[o] EXCEPT !.clients[j] = v]
    OBVIOUS
  <2>2. t.filter = objects[o].filter /\ t.clients = [objects[o].clients EXCEPT ![j] = v]
    BY <1>1, <2>1 DEF ObjectUpTo
  <2> QED
    BY <2>1, <2>2
<1>3. Len(objects') = Len(objects) /\ objects'[o] = t
      /\ \A p \in 1..Len(objects) : p # o => objects'[p] = objects[p]
  BY <1>1, <1>2
<1>4. t.clients[j] = v /\ \A i \in ClientIds : i # j => t.clients[i] = objects[o].clients[i]
  BY <1>1, <1>2
<1> QED
  BY <1>2, <1>3, <1>4 DEF EntrySet

LEMMA EntriesAfter ==
  ASSUME Core, NEW o \in 1..Len(objects), NEW j \in ClientIds, NEW v, EntrySet(o, j, v)
  PROVE  /\ \A g \in Filters : \A i \in ClientIds \ {j} : Entry(g, i)' = Entry(g, i)
         /\ \A g \in Filters : map[g] = o => Entry(g, j)' = v
         /\ \A g \in Filters : map[g] # o => Entry(g, j)' = Entry(g, j)
         /\ \A g \in Filters : map[g] = o => g = objects[o].filter
<1>1. \A g \in Filters : map[g] # NULL => map[g] \in 1..Len(objects) /\ objects[map[g]].filter = g
  BY DEF Core, TypesInv, TopicTypes, ObjectsInv
<1>2. Len(objects) \in Nat /\ o # NULL
  BY NullAssumption DEF Core, TypesInv, TopicTypes
<1> QED
  BY <1>1, <1>2 DEF EntrySet, Entry

LEMMA SetUntouched ==
  ASSUME Core, NEW ch \in Channels, NEW o \in 1..Len(objects), NEW j \in ClientIds, NEW v,
         EntrySet(o, j, v), Others(ch), UNCHANGED <<clients, sessions, store>>,
         v = NULL \/ objects[o].filter \in raced'
           \/ \A y \in Channels \ {ch} : ~(frame[y].pc = "erase" /\ frame[y].obj = o)
  PROVE  Untouched(ch, j)
<1>1. \A g \in Filters : \A i \in ClientIds \ {j} : Entry(g, i)' = Entry(g, i)
  BY EntriesAfter
<1>2. ASSUME NEW p \in 1..Len(objects), objects[p].filter \notin raced',
             NEW y \in Channels \ {ch}, frame[y].pc = "erase", frame[y].obj = p
      PROVE  Entries(p)' \subseteq Entries(p)
  BY <1>2 DEF EntrySet, Entries
<1> QED
  BY <1>1, <1>2 DEF Untouched, EntrySet

\* No other handler works for the identifier.
LEMMA OnlyWorker ==
  ASSUME NEW ch, NEW j, Sole(ch, j), Others(ch), Busy(ch), frame[ch].agent.cid = j,
         Busy(ch)', frame'[ch].agent.cid = j
  PROVE  /\ \A h \in Channels : h # ch => ~Works(h, j) /\ ~Works(h, j)'
         /\ Works(ch, j) /\ Works(ch, j)'
BY DEF Sole, Works, Others, Busy

LEMMA WorkKnows ==
  ASSUME Core, NEW ch \in Channels, Goes(ch), KnowsSession(frame[ch]), TakesUp(frame[ch])', Busy(ch)',
         frame[ch].pc # "reg_client"
  PROVE  KnowsSession(frame[ch])'
<1>1. frame'[ch].agent = frame[ch].agent /\ frame'[ch].rq = frame[ch].rq
      /\ frame'[ch].pc \notin Connecting \cup {"reg_client", "set_param"}
  BY IdleFrame DEF Goes, Busy
<1>2. frame[ch].rq.op \notin Leaving \cup {"connect"} => clients[frame[ch].agent.cid] = frame[ch].agent
  BY DEF KnowsSession
<1>3. clients' = clients
  BY DEF Goes
<1> QED
  BY <1>1, <1>2, <1>3 DEF KnowsSession, Connecting

LEMMA WorkKeepsSession ==
  ASSUME NEW ch \in Channels, NEW j, Sole(ch, j), Goes(ch), Busy(ch), frame[ch].agent.cid = j,
         Busy(ch)', SessionKept(j), UNCHANGED sessions
  PROVE  SessionKept(j)' /\ frame'[ch].agent = frame[ch].agent /\ frame'[ch].rq = frame[ch].rq
<1>1. frame'[ch].agent = frame[ch].agent /\ frame'[ch].rq = frame[ch].rq
  BY IdleFrame DEF Goes, Busy
<1>2. /\ \A h \in Channels : h # ch => ~Works(h, j) /\ ~Works(h, j)'
      /\ Works(ch, j) /\ Works(ch, j)'
  BY <1>1, OnlyWorker DEF Goes
<1> QED
  BY <1>1, <1>2 DEF SessionKept, Goes

\* The entry is gone before the subscription.
LEMMA UnsubscribeAgree ==
  ASSUME Core, Core', AloneInv, AgreeInv, Contends, Races, NEW ch \in Channels, unsubscribe(ch)
  PROVE  AgreeInv'
<1> DEFINE pc == IF frame[ch].rq.op = "unsubscribe" THEN "delete_subscription" ELSE "empty"
<1>1. PICK j, o, f : j = frame[ch].agent.cid /\ o = frame[ch].obj /\ f = objects[o].filter
  OBVIOUS
<1>2. /\ frame[ch].pc = "unsubscribe" /\ Goto(ch, frame[ch], pc)
      /\ objects' = [objects EXCEPT ![o].clients[j] = NULL]
      /\ UNCHANGED <<param, clients, sessions, map, store>>
  BY <1>1 DEF unsubscribe, Step, At, registries
<1>3. /\ o \in 1..Len(objects) /\ f \in Filters /\ j \in ClientIds /\ Busy(ch)
      /\ frame[ch].rq.op \in Leaving \cup {"unsubscribe"}
  <2>1. o \in 1..Len(objects)
    BY <1>1, <1>2, HandlerFacts DEF Has, AtObject
  <2> QED
    BY <1>1, <1>2, <2>1, HandlerFacts, ObjectAtHand DEF Serves, Busy
<1>4. EntrySet(o, j, NULL)
  BY <1>2, <1>3, SetsEntry
<1>5. /\ Others(ch) /\ frame'[ch].pc = pc /\ frame'[ch].agent = frame[ch].agent /\ frame'[ch].rq = frame[ch].rq
      /\ frame'[ch].obj = o
  <2> HIDE DEF pc
  <2>1. SameWork(frame[ch], frame[ch])
    BY Edits
  <2>2. /\ Others(ch) /\ frame'[ch].pc = pc /\ frame'[ch].agent = frame[ch].agent
        /\ frame'[ch].rq = frame[ch].rq
    BY <1>2, <2>1, GotoWork
  <2>3. frame'[ch].obj = frame[ch].obj
    BY <1>2, GotoFields
  <2> QED
    BY <1>1, <2>2, <2>3
<1>6. Goes(ch) /\ Busy(ch)'
  BY <1>2, <1>5 DEF Goes, Connecting, Busy
<1>7. Untouched(ch, j)
  BY <1>2, <1>3, <1>4, <1>5, SetUntouched
<1>8. SessionsOwned'
  <2>1. \A p \in 1..Len(objects') : \A i \in ClientIds :
           \/ objects'[p].clients[i] \in {NULL, frame[ch].agent}
           \/ p \in 1..Len(objects) /\ objects'[p].clients[i] = objects[p].clients[i]
    BY <1>4 DEF EntrySet
  <2> QED
    BY <1>2, <1>5, <2>1, SameOwners
<1>9. EraseSees(frame[ch])' /\ TakesUp(frame[ch])'
  BY <1>5 DEF EraseSees, TakesUp
<1>10. objects'[o].filter = f
  BY <1>1, <1>3, <1>4 DEF EntrySet
<1>11. /\ \A g \in Filters : map[g] = o => Entry(g, j)' = NULL
       /\ \A g \in Filters : map[g] # o => Entry(g, j)' = Entry(g, j)
       /\ \A g \in Filters : map[g] = o => g = f
  BY <1>1, <1>3, <1>4, EntriesAfter
<1>12. ASSUME j \in ClientIds \ contended', Sole(ch, j), j \notin contended
       PROVE  /\ Busy(ch)' => KnowsSession(frame[ch])' /\ Sees(frame[ch])'
              /\ Agrees(j)'
  <2>1. KnowsSession(frame[ch]) /\ Sees(frame[ch]) /\ Agrees(j)
    BY <1>1, <1>3, <1>12 DEF AgreeInv
  <2>2. KnowsSession(frame[ch])'
    BY <1>2, <1>6, <1>9, <2>1, WorkKnows
  <2>3. Sees(frame[ch])'
    <3>1. f \notin raced' => Entry(f, j)' = NULL
      <4>1. f \notin raced' => f \notin raced
        BY DEF Races
      <4>2. f \notin raced => Entry(f, j) = NULL \/ map[f] = o
        BY <1>1, <1>2, <2>1 DEF Sees
      <4> QED
        BY <1>3, <1>11, <4>1, <4>2
    <3> QED
      BY <1>1, <1>5, <1>10, <3>1 DEF Sees
  <2>4. SessionKept(j)'
    BY <1>1, <1>2, <1>3, <1>6, <1>12, <2>1, WorkKeepsSession DEF Agrees
  <2>5. /\ \A h \in Channels : h # ch => ~Works(h, j) /\ ~Works(h, j)'
        /\ Works(ch, j) /\ Works(ch, j)'
    BY <1>1, <1>3, <1>5, <1>6, <1>12, OnlyWorker
  <2>6. ASSUME NEW g \in Filters \ raced'
        PROVE  EntryListed(j, g)' /\ ListedEntered(j, g)'
    <3>1. EntryListed(j, g) /\ ListedEntered(j, g) /\ g \in Filters
      BY <2>1 DEF Agrees, Races
    <3>2. EntryListed(j, g)'
      <4> SUFFICES ASSUME Entry(g, j)' # NULL
                   PROVE  g \in store'[Entry(g, j)'.sess].subs
        BY DEF EntryListed
      <4>1. Entry(g, j)' = Entry(g, j)
        BY <1>11, <3>1
      <4>2. g \in store[Entry(g, j).sess].subs
        BY <1>2, <2>5, <3>1, <4>1 DEF EntryListed
      <4> QED
        BY <1>2, <4>1, <4>2
    <3>3. ListedEntered(j, g)'
      <4> SUFFICES ASSUME clients'[j] # NULL, g \in store'[clients'[j].sess].subs,
                          ~Changing(frame[ch], g)'
                   PROVE  Entry(g, j)' = clients'[j]
        BY <2>5 DEF ListedEntered
      <4>1. frame[ch].rq.op \notin Leaving /\ g # f
        BY <1>3, <1>5, <1>10 DEF Changing
      <4>2. ~Changing(frame[ch], g)
        BY <1>2, <1>3, <4>1 DEF Changing, Leaving
      <4>3. Entry(g, j) = clients[j]
        BY <1>2, <2>5, <3>1, <4>2 DEF ListedEntered
      <4> QED
        BY <1>2, <1>11, <3>1, <4>1, <4>3
    <3> QED
      BY <3>2, <3>3
  <2> QED
    BY <2>2, <2>3, <2>4, <2>6 DEF Agrees
<1> QED
  BY <1>1, <1>3, <1>5, <1>6, <1>7, <1>8, <1>9, <1>12, AgreeStep

\* The subscription follows its entry.
LEMMA DeleteSubscriptionAgree ==
  ASSUME Core, Core', AloneInv, AgreeInv, Contends, Races, NEW ch \in Channels, delete_subscription(ch)
  PROVE  AgreeInv'
<1>1. PICK j, o, f, s : /\ j = frame[ch].agent.cid /\ o = frame[ch].obj /\ f = objects[o].filter
                        /\ s = frame[ch].agent.sess
  OBVIOUS
<1>2. /\ frame[ch].pc = "delete_subscription" /\ Goto(ch, frame[ch], "empty")
      /\ store' = [store EXCEPT ![s].subs = @ \ {f}]
      /\ UNCHANGED <<param, clients, sessions, map, objects>>
  BY <1>1 DEF delete_subscription, Step, At, registries, topics
<1>3. /\ o \in 1..Len(objects) /\ f \in Filters /\ j \in ClientIds /\ Busy(ch)
      /\ frame[ch].rq.op = "unsubscribe" /\ s \in 1..Len(store)
  <2>1. o \in 1..Len(objects)
    BY <1>1, <1>2, HandlerFacts DEF Has, AtObject
  <2>2. s \in 1..Len(store)
    BY <1>1, <1>2, HandlerFacts, KnownFields DEF Connecting
  <2> QED
    BY <1>1, <1>2, <2>1, <2>2, HandlerFacts, ObjectAtHand DEF Serves, Busy
<1>4. /\ Len(store') = Len(store) /\ store'[s].subs = store[s].subs \ {f}
      /\ \A p \in 1..Len(store) : p # s => store'[p].subs = store[p].subs
  <2>1. store \in Seq(SessionObject) /\ store[s] \in SessionObject
    BY <1>3, StoreFields
  <2> QED
    BY <1>2, <1>3, <2>1 DEF SessionObject
<1>5. /\ Others(ch) /\ frame'[ch].pc = "empty" /\ frame'[ch].agent = frame[ch].agent
      /\ frame'[ch].rq = frame[ch].rq /\ frame'[ch].obj = o
  BY <1>1, <1>2, Edits, GotoWork, GotoFields
<1>6. Goes(ch) /\ Busy(ch)'
  BY <1>2, <1>5 DEF Goes, Connecting, Busy
<1>7. \A g, i : Entry(g, i)' = Entry(g, i)
  BY <1>2 DEF Entry
<1>8. Untouched(ch, j)
  BY <1>1, <1>2, <1>3, <1>4, <1>5, <1>7 DEF Untouched, Entries
<1>9. SessionsOwned'
  <2>1. \A p \in 1..Len(objects') : \A i \in ClientIds :
           p \in 1..Len(objects) /\ objects'[p].clients[i] = objects[p].clients[i]
    BY <1>2
  <2> QED
    BY <1>2, <1>4, <1>5, <2>1, SameOwners
<1>10. EraseSees(frame[ch])' /\ TakesUp(frame[ch])' /\ Sees(frame[ch])'
  BY <1>5 DEF EraseSees, TakesUp, Sees
<1>11. ASSUME j \in ClientIds \ contended', Sole(ch, j), j \notin contended
       PROVE  /\ Busy(ch)' => KnowsSession(frame[ch])' /\ Sees(frame[ch])'
              /\ Agrees(j)'
  <2>1. KnowsSession(frame[ch]) /\ Sees(frame[ch]) /\ Agrees(j)
    BY <1>1, <1>3, <1>11 DEF AgreeInv
  <2>2. KnowsSession(frame[ch])'
    BY <1>2, <1>6, <1>10, <2>1, WorkKnows
  <2>3. SessionKept(j)'
    BY <1>1, <1>2, <1>3, <1>6, <1>11, <2>1, WorkKeepsSession DEF Agrees
  <2>4. /\ \A h \in Channels : h # ch => ~Works(h, j) /\ ~Works(h, j)'
        /\ Works(ch, j) /\ Works(ch, j)'
    BY <1>1, <1>3, <1>5, <1>6, <1>11, OnlyWorker
  <2>5. clients[j] = frame[ch].agent
    BY <1>1, <1>2, <1>3, <2>1 DEF KnowsSession, Leaving
  <2>6. f \notin raced => Entry(f, j) = NULL
    BY <1>1, <1>2, <2>1 DEF Sees
  <2>7. ASSUME NEW g \in Filters \ raced'
        PROVE  EntryListed(j, g)' /\ ListedEntered(j, g)'
    <3>1. EntryListed(j, g) /\ ListedEntered(j, g) /\ g \in Filters \ raced
      BY <2>1 DEF Agrees, Races
    <3>2. EntryListed(j, g)'
      <4> SUFFICES ASSUME Entry(g, j) # NULL
                   PROVE  g \in store'[Entry(g, j).sess].subs
        BY <1>7 DEF EntryListed
      <4>1. Entry(g, j).sess \in 1..Len(store)
        BY <1>3, <3>1, EntryFacts
      <4>2. g \in store[Entry(g, j).sess].subs /\ g # f
        BY <1>2, <2>4, <2>6, <3>1 DEF EntryListed
      <4> QED
        BY <1>4, <4>1, <4>2
    <3>3. ListedEntered(j, g)'
      <4> SUFFICES ASSUME g \in store'[clients[j].sess].subs
                   PROVE  Entry(g, j) = clients[j]
        BY <1>2, <1>7 DEF ListedEntered
      <4>1. g # f /\ g \in store[clients[j].sess].subs
        BY <1>1, <1>4, <2>5
      <4>2. ~Changing(frame[ch], g)
        BY <1>1, <1>2, <1>3, <4>1 DEF Changing, Leaving
      <4>3. clients[j] # NULL
        BY <1>3, <2>5, HandlerFacts DEF Has, Busy
      <4> QED
        BY <2>4, <3>1, <4>1, <4>2, <4>3 DEF ListedEntered
    <3> QED
      BY <3>2, <3>3
  <2> QED
    BY <1>10, <2>2, <2>3, <2>7 DEF Agrees
<1> QED
  BY <1>1, <1>3, <1>5, <1>6, <1>8, <1>9, <1>10, <1>11, AgreeStep

LEMMA AddSubscriptionAgree ==
  ASSUME Core, Core', AloneInv, AgreeInv, Contends, Races, NEW ch \in Channels, add_subscription(ch)
  PROVE  AgreeInv'
<1> DEFINE pc == NextToSubscribe(frame[ch])
<1>1. PICK j, o, f, s : /\ j = frame[ch].agent.cid /\ o = frame[ch].obj /\ f = objects[o].filter
                        /\ s = frame[ch].agent.sess
  OBVIOUS
<1>2. /\ frame[ch].pc = "add_subscription" /\ Goto(ch, frame[ch], pc)
      /\ store' = [store EXCEPT ![s].subs = @ \cup {f}]
      /\ UNCHANGED <<param, clients, sessions, map, objects>>
  BY <1>1 DEF add_subscription, Step, At, registries, topics
<1>3. /\ o \in 1..Len(objects) /\ f \in Filters /\ j \in ClientIds /\ Busy(ch)
      /\ frame[ch].rq.op = "subscribe" /\ s \in 1..Len(store)
  <2>1. o \in 1..Len(objects)
    BY <1>1, <1>2, HandlerFacts DEF Has, AtObject
  <2>2. s \in 1..Len(store)
    BY <1>1, <1>2, HandlerFacts, KnownFields DEF Connecting
  <2> QED
    BY <1>1, <1>2, <2>1, <2>2, HandlerFacts, ObjectAtHand DEF Serves, Busy
<1>4. /\ Len(store') = Len(store) /\ store'[s].subs = store[s].subs \cup {f}
      /\ \A p \in 1..Len(store) : p # s => store'[p].subs = store[p].subs
  <2>1. store \in Seq(SessionObject) /\ store[s] \in SessionObject
    BY <1>3, StoreFields
  <2> QED
    BY <1>2, <1>3, <2>1 DEF SessionObject
<1>5. pc \in {"to_subscribe", "retained"}
  BY <1>3, NextPlace
<1> HIDE DEF pc
<1>6. /\ Others(ch) /\ frame'[ch].pc = pc /\ frame'[ch].agent = frame[ch].agent
      /\ frame'[ch].rq = frame[ch].rq
  BY <1>2, Edits, GotoWork
<1>7. Goes(ch) /\ Busy(ch)'
  BY <1>2, <1>5, <1>6 DEF Goes, Connecting, Busy
<1>8. \A g, i : Entry(g, i)' = Entry(g, i)
  BY <1>2 DEF Entry
<1>9. Untouched(ch, j)
  BY <1>1, <1>2, <1>3, <1>4, <1>6, <1>8 DEF Untouched, Entries
<1>10. SessionsOwned'
  <2>1. \A p \in 1..Len(objects') : \A i \in ClientIds :
           p \in 1..Len(objects) /\ objects'[p].clients[i] = objects[p].clients[i]
    BY <1>2
  <2> QED
    BY <1>2, <1>4, <1>6, <2>1, SameOwners
<1>11. EraseSees(frame[ch])' /\ TakesUp(frame[ch])' /\ Sees(frame[ch])'
  BY <1>3, <1>5, <1>6 DEF EraseSees, TakesUp, Sees
<1>12. ASSUME j \in ClientIds \ contended', Sole(ch, j), j \notin contended
       PROVE  /\ Busy(ch)' => KnowsSession(frame[ch])' /\ Sees(frame[ch])'
              /\ Agrees(j)'
  <2>1. KnowsSession(frame[ch]) /\ Sees(frame[ch]) /\ Agrees(j)
    BY <1>1, <1>3, <1>12 DEF AgreeInv
  <2>2. KnowsSession(frame[ch])'
    BY <1>2, <1>7, <1>11, <2>1, WorkKnows
  <2>3. SessionKept(j)'
    BY <1>1, <1>2, <1>3, <1>7, <1>12, <2>1, WorkKeepsSession DEF Agrees
  <2>4. /\ \A h \in Channels : h # ch => ~Works(h, j) /\ ~Works(h, j)'
        /\ Works(ch, j) /\ Works(ch, j)'
    BY <1>1, <1>3, <1>6, <1>7, <1>12, OnlyWorker
  <2>5. clients[j] = frame[ch].agent
    BY <1>1, <1>2, <1>3, <2>1 DEF KnowsSession, Leaving
  <2>6. f \notin raced => map[f] = o /\ Entry(f, j) = frame[ch].agent
    BY <1>1, <1>2, <2>1 DEF Sees
  <2>7. ASSUME NEW g \in Filters \ raced'
        PROVE  EntryListed(j, g)' /\ ListedEntered(j, g)'
    <3>1. EntryListed(j, g) /\ ListedEntered(j, g) /\ g \in Filters \ raced
      BY <2>1 DEF Agrees, Races
    <3>2. EntryListed(j, g)'
      <4> SUFFICES ASSUME Entry(g, j) # NULL
                   PROVE  g \in store'[Entry(g, j).sess].subs
        BY <1>8 DEF EntryListed
      <4>1. Entry(g, j).sess \in 1..Len(store) /\ objects[map[g]].filter = g
        BY <1>3, <3>1, EntryFacts
      <4>2. \/ g \in store[Entry(g, j).sess].subs
            \/ o = map[g] /\ frame[ch].agent = Entry(g, j)
        BY <1>1, <2>4, <3>1 DEF EntryListed
      <4>3. CASE g \in store[Entry(g, j).sess].subs
        BY <1>4, <4>1, <4>3
      <4>4. CASE o = map[g] /\ frame[ch].agent = Entry(g, j)
        BY <1>1, <1>4, <4>1, <4>4
      <4> QED
        BY <4>2, <4>3, <4>4
    <3>3. ListedEntered(j, g)'
      <4> SUFFICES ASSUME g \in store'[clients[j].sess].subs
                   PROVE  Entry(g, j) = clients[j]
        BY <1>2, <1>8 DEF ListedEntered
      <4>1. CASE g = f
        BY <2>5, <2>6, <3>1, <4>1
      <4>2. CASE g # f
        <5>1. g \in store[clients[j].sess].subs
          BY <1>1, <1>4, <2>5, <4>2
        <5>2. ~Changing(frame[ch], g)
          BY <1>2, <1>3 DEF Changing, Leaving
        <5>3. clients[j] # NULL
          BY <1>3, <2>5, HandlerFacts DEF Has, Busy
        <5> QED
          BY <2>4, <3>1, <5>1, <5>2, <5>3 DEF ListedEntered
      <4> QED
        BY <4>1, <4>2
    <3> QED
      BY <3>2, <3>3
  <2> QED
    BY <1>11, <2>2, <2>3, <2>7 DEF Agrees
<1> QED
  BY <1>1, <1>3, <1>6, <1>7, <1>9, <1>10, <1>11, <1>12, AgreeStep

\* The client is entered; into an object that is not the one of the map, or about to be
\* erased, that is what raced is about.
LEMMA SubscribeAgree ==
  ASSUME Core, Core', AloneInv, AgreeInv, Contends, Races, NEW ch \in Channels, subscribe(ch)
  PROVE  AgreeInv'
<1> DEFINE pc == IF frame[ch].rq.op = "subscribe" THEN "add_subscription" ELSE NextToSubscribe(frame[ch])
<1>1. PICK j, o, f, a : /\ j = frame[ch].agent.cid /\ o = frame[ch].obj /\ f = objects[o].filter
                        /\ a = frame[ch].agent
  OBVIOUS
<1>2. /\ frame[ch].pc = "subscribe" /\ Goto(ch, frame[ch], pc)
      /\ objects' = [objects EXCEPT ![o].clients[j] = a]
      /\ UNCHANGED <<param, clients, sessions, map, store>>
  BY <1>1 DEF subscribe, Step, At, registries
<1>3. /\ o \in 1..Len(objects) /\ f \in Filters /\ j \in ClientIds /\ Busy(ch)
      /\ frame[ch].rq.op \in {"subscribe", "resume"} /\ a # NULL
  <2>1. o \in 1..Len(objects)
    BY <1>1, <1>2, HandlerFacts DEF Has, AtObject
  <2> QED
    BY <1>1, <1>2, <2>1, HandlerFacts, ObjectAtHand DEF Serves, Has, Busy
<1>4. EntrySet(o, j, a)
  BY <1>2, <1>3, SetsEntry
<1>5. pc = IF frame[ch].rq.op = "subscribe" THEN "add_subscription"
           ELSE IF frame[ch].todo # {} THEN "to_subscribe" ELSE "resend"
  BY <1>3 DEF NextToSubscribe
<1> HIDE DEF pc
<1>6. /\ Others(ch) /\ frame'[ch].pc = pc /\ frame'[ch].agent = a
      /\ frame'[ch].rq = frame[ch].rq /\ frame'[ch].obj = o /\ frame'[ch].todo = frame[ch].todo
  <2>1. SameWork(frame[ch], frame[ch])
    BY Edits
  <2>2. /\ Others(ch) /\ frame'[ch].pc = pc /\ frame'[ch].agent = frame[ch].agent
        /\ frame'[ch].rq = frame[ch].rq
    BY <1>2, <2>1, GotoWork
  <2>3. frame'[ch].obj = frame[ch].obj /\ frame'[ch].todo = frame[ch].todo
    BY <1>2, GotoFields
  <2> QED
    BY <1>1, <2>2, <2>3
<1>7. Goes(ch) /\ Busy(ch)'
  BY <1>1, <1>2, <1>5, <1>6 DEF Goes, Connecting, Busy
<1>8. Discarded(o) => f \in raced'
  <2>1. frame'[ch] # frame[ch]
    BY <1>2, <1>5, <1>6
  <2> QED
    BY <1>1, <1>2, <2>1 DEF Races, Losing
<1>9. Untouched(ch, j)
  <2>1. \/ f \in raced'
        \/ \A y \in Channels \ {ch} : ~(frame[y].pc = "erase" /\ frame[y].obj = o)
    BY <1>8 DEF Discarded
  <2> QED
    BY <1>1, <1>2, <1>3, <1>4, <1>6, <2>1, SetUntouched
<1>10. SessionsOwned'
  <2>1. \A p \in 1..Len(objects') : \A i \in ClientIds :
           \/ objects'[p].clients[i] \in {NULL, frame[ch].agent}
           \/ p \in 1..Len(objects) /\ objects'[p].clients[i] = objects[p].clients[i]
    BY <1>1, <1>4 DEF EntrySet
  <2> QED
    BY <1>1, <1>2, <1>6, <2>1, SameOwners
<1>11. EraseSees(frame[ch])'
  BY <1>5, <1>6 DEF EraseSees
<1>12. objects'[o].filter = f
  BY <1>1, <1>3, <1>4 DEF EntrySet
<1>13. /\ \A g \in Filters : map[g] = o => Entry(g, j)' = a
       /\ \A g \in Filters : map[g] # o => Entry(g, j)' = Entry(g, j)
       /\ \A g \in Filters : map[g] = o => g = f
  BY <1>1, <1>3, <1>4, EntriesAfter
<1>14. f \notin raced' => map[f] = o
  BY <1>1, <1>8 DEF Discarded
<1>15. ASSUME j \in ClientIds \ contended', Sole(ch, j), j \notin contended
       PROVE  /\ Busy(ch)' => KnowsSession(frame[ch])' /\ Sees(frame[ch])'
              /\ Agrees(j)'
  <2>1. KnowsSession(frame[ch]) /\ Sees(frame[ch]) /\ Agrees(j)
    BY <1>1, <1>3, <1>15 DEF AgreeInv
  <2>2. frame[ch].rq.op = "resume" => frame[ch].todo \subseteq store[a.sess].subs /\ f \in store[a.sess].subs
    BY <1>1, <1>2, <2>1 DEF KnowsSession, TakesUp
  <2>3. TakesUp(frame[ch])'
    BY <1>2, <1>5, <1>6, <2>2 DEF TakesUp
  <2>4. KnowsSession(frame[ch])'
    BY <1>2, <1>7, <2>1, <2>3, WorkKnows
  <2>5. Sees(frame[ch])'
    BY <1>1, <1>2, <1>3, <1>5, <1>6, <1>12, <1>13, <1>14 DEF Sees
  <2>6. SessionKept(j)'
    BY <1>1, <1>2, <1>3, <1>7, <1>15, <2>1, WorkKeepsSession DEF Agrees
  <2>7. /\ \A h \in Channels : h # ch => ~Works(h, j) /\ ~Works(h, j)'
        /\ Works(ch, j) /\ Works(ch, j)'
    BY <1>1, <1>3, <1>6, <1>7, <1>15, OnlyWorker
  <2>8. clients[j] = a
    BY <1>1, <1>2, <1>3, <2>1 DEF KnowsSession, Leaving
  <2>9. ASSUME NEW g \in Filters \ raced'
        PROVE  EntryListed(j, g)' /\ ListedEntered(j, g)'
    <3>1. EntryListed(j, g) /\ ListedEntered(j, g) /\ g \in Filters
      BY <2>1 DEF Agrees, Races
    <3>2. g = f => map[g] = o /\ Entry(g, j)' = a
      BY <1>13, <1>14
    <3>3. g # f => Entry(g, j)' = Entry(g, j)
      BY <1>13
    <3>4. EntryListed(j, g)'
      <4>1. CASE g = f
        <5>1. CASE frame[ch].rq.op = "subscribe"
          <6>1. /\ frame'[ch].pc = "add_subscription" /\ frame'[ch].obj = map'[g]
                /\ frame'[ch].agent = Entry(g, j)'
            BY <1>2, <1>5, <1>6, <3>2, <4>1, <5>1
          <6> QED
            BY <2>7, <6>1 DEF EntryListed
        <5>2. CASE frame[ch].rq.op = "resume"
          <6>1. g \in store'[Entry(g, j)'.sess].subs
            BY <1>2, <2>2, <3>2, <4>1, <5>2
          <6> QED
            BY <6>1 DEF EntryListed
        <5> QED
          BY <1>3, <5>1, <5>2
      <4>2. CASE g # f
        <5> SUFFICES ASSUME Entry(g, j) # NULL
                     PROVE  g \in store'[Entry(g, j).sess].subs
          BY <3>3, <4>2 DEF EntryListed
        <5>1. g \in store[Entry(g, j).sess].subs
          BY <1>2, <2>7, <3>1 DEF EntryListed
        <5> QED
          BY <1>2, <5>1
      <4> QED
        BY <4>1, <4>2
    <3>5. ListedEntered(j, g)'
      <4> SUFFICES ASSUME g \in store'[clients'[j].sess].subs, ~Changing(frame[ch], g)'
                   PROVE  Entry(g, j)' = a
        BY <1>2, <2>7, <2>8 DEF ListedEntered
      <4>1. CASE g = f
        BY <3>2, <4>1
      <4>2. CASE g # f
        <5>1. ~(frame[ch].rq.op = "resume" /\ g \in frame[ch].todo)
          BY <1>5, <1>6 DEF Changing
        <5>2. ~Changing(frame[ch], g)
          BY <1>1, <1>2, <1>3, <4>2, <5>1 DEF Changing, Leaving
        <5>3. Entry(g, j) = clients[j]
          BY <1>2, <1>3, <2>7, <2>8, <3>1, <5>2 DEF ListedEntered
        <5> QED
          BY <2>8, <3>3, <4>2, <5>3
      <4> QED
        BY <4>1, <4>2
    <3> QED
      BY <3>4, <3>5
  <2> QED
    BY <2>4, <2>5, <2>6, <2>9 DEF Agrees
<1> QED
  BY <1>1, <1>3, <1>6, <1>7, <1>9, <1>10, <1>11, <1>15, AgreeStep

-----------------------------------------------------------------------------
(* A handler begins                                                        *)

\* Nothing changes but that clients are taken from channels.
LEMMA StillAgree ==
  ASSUME AgreeInv, UNCHANGED <<clients, sessions, store, topics, frame>>,
         \A x \in Channels : param'[x] \in {param[x], NULL},
         contended \subseteq contended', raced \subseteq raced'
  PROVE  AgreeInv'
<1>1. SessionsOwned'
  <2>1. PICK owner \in [1..Len(store) -> ClientIds] : OwnedBy(owner)
    BY DEF AgreeInv, SessionsOwned
  <2>2. \A c \in Seen' : c \in Seen \/ c = NULL
    BY DEF Seen, topics
  <2>3. OwnedBy(owner)'
    BY <2>1, <2>2 DEF OwnedBy
  <2> QED
    BY <2>1, <2>3 DEF SessionsOwned
<1>2. UNCHANGED <<map, objects>>
  BY DEF topics
<1>3. ASSUME NEW h \in Channels
      PROVE  /\ EraseSees(frame[h])'
             /\ Busy(h)' /\ frame'[h].agent.cid \notin contended' => KnowsSession(frame[h])' /\ Sees(frame[h])'
  <2>1. PICK fr : fr = frame[h]
    OBVIOUS
  <2>2. EraseSees(fr) /\ frame'[h] = fr
    BY <2>1 DEF AgreeInv
  <2>3. EraseSees(fr)'
    BY <1>2, <2>2 DEF EraseSees, Entries
  <2>4. ASSUME fr.pc # "idle", fr.agent.cid \notin contended'
        PROVE  KnowsSession(fr)' /\ Sees(fr)'
    <3>1. KnowsSession(fr) /\ Sees(fr)
      BY <2>1, <2>4 DEF AgreeInv, Busy
    <3>2. KnowsSession(fr)'
      BY <1>2, <3>1 DEF KnowsSession, TakesUp
    <3>3. Sees(fr)'
      BY <1>2, <3>1 DEF Sees, Entry
    <3> QED
      BY <3>2, <3>3
  <2>5. EraseSees(frame[h])'
    BY <2>2, <2>3 DEF EraseSees
  <2>6. Busy(h)' /\ frame'[h].agent.cid \notin contended' => KnowsSession(frame[h])' /\ Sees(frame[h])'
    BY <2>2, <2>4 DEF Busy, KnowsSession, TakesUp, Sees
  <2> QED
    BY <2>5, <2>6
<1>4. ASSUME NEW i \in ClientIds \ contended'
      PROVE  Agrees(i)'
  <2>1. Agrees(i)
    BY DEF AgreeInv
  <2>2. \A h \in Channels : Works(h, i)' <=> Works(h, i)
    BY DEF Works, Busy
  <2>3. SessionKept(i)'
    BY <2>1, <2>2 DEF Agrees, SessionKept
  <2>4. ASSUME NEW f \in Filters \ raced'
        PROVE  EntryListed(i, f)' /\ ListedEntered(i, f)'
    <3>1. EntryListed(i, f) /\ ListedEntered(i, f) /\ Entry(f, i)' = Entry(f, i)
      BY <1>2, <2>1 DEF Agrees, Entry
    <3>2. \A h \in Channels : Changing(frame[h], f)' <=> Changing(frame[h], f)
      BY <1>2 DEF Changing
    <3>3. EntryListed(i, f)'
      BY <1>2, <2>2, <3>1 DEF EntryListed
    <3>4. ListedEntered(i, f)'
      BY <2>2, <3>1, <3>2 DEF ListedEntered
    <3> QED
      BY <3>3, <3>4
  <2> QED
    BY <2>3, <2>4 DEF Agrees
<1> QED
  BY <1>1, <1>3, <1>4 DEF AgreeInv

\* A handler begins for the client of its channel, or with a new one.
LEMMA BeginAgree ==
  ASSUME Core, Core', AloneInv, AgreeInv, Contends, Races, NEW ch \in Channels, ~Busy(ch), Others(ch),
         UNCHANGED <<clients, sessions, store, topics>>, \A x \in Channels : param'[x] \in {param[x], NULL},
         frame'[ch].pc \in {"get_client", "to_subscribe", "lookup", "publish", "unsubscribe_all", "will", "puback"},
         \/ /\ param[ch] # NULL /\ frame'[ch].agent = param[ch]
            /\ frame'[ch].rq.op \notin {"connect", "resume"}
         \/ frame'[ch].rq.op = "connect" /\ frame'[ch].agent.sess = NULL
  PROVE  AgreeInv'
<1>1. PICK j : j = frame'[ch].agent.cid
  OBVIOUS
<1>2. Busy(ch)' /\ j \in ClientIds
  BY <1>1, AgentsNextAre DEF Busy, Agents
<1>3. Silent(ch)
  BY DEF Silent, topics
<1>4. Kept(ch) /\ SessionsOwned'
  BY <1>3, SilentKept, SilentOwners
<1>5. SameRegistered(j)
  BY DEF SameRegistered
<1>6. Untouched(ch, j)
  BY <1>4, <1>5, KeptUntouched
<1>7. EraseSees(frame[ch])' /\ Sees(frame[ch])' /\ TakesUp(frame[ch])'
  BY DEF EraseSees, Sees, TakesUp
<1>8. frame[ch].pc = "idle" /\ frame[ch].rq.op \notin Leaving
  BY HandlerFacts, IdleFrame DEF Has, Busy, Leaving
<1>9. ASSUME j \in ClientIds \ contended', Sole(ch, j), j \notin contended
      PROVE  /\ Busy(ch)' => KnowsSession(frame[ch])' /\ Sees(frame[ch])'
             /\ Agrees(j)'
  <2>1. \A x \in Channels : param[x] # NULL /\ param[x].cid = j => param[x] = clients[j]
    BY <1>8, <1>9, SoleAccounted
  <2>2. KnowsSession(frame[ch])'
    BY <1>1, <1>7, <2>1 DEF KnowsSession
  <2>3. Agrees(j)
    BY <1>9 DEF AgreeInv
  <2>4. clients[j] # NULL => clients[j] \in ClientUpTo(Len(store))
    BY <1>2 DEF Core, TypesInv, RegistryTypes
  <2>5. clients'[j] = clients[j] /\ sessions'[j] = sessions[j]
    OBVIOUS
  <2>6. Agrees(j)'
    BY <1>1, <1>2, <1>4, <1>8, <1>9, <2>3, <2>4, <2>5, KeptAgrees DEF Busy
  <2> QED
    BY <1>7, <2>2, <2>6
<1> QED
  BY <1>1, <1>2, <1>6, <1>4, <1>7, <1>9, AgreeStep

LEMMA BeginsAgree ==
  ASSUME Core, Core', AloneInv, AgreeInv, Contends, Races, NEW ch \in Channels,
         \/ channel_read(ch) \/ handle_connect(ch) \/ handle_puback(ch)
         \/ handle_channel_disconnected(ch) \/ ConnectionLost(ch)
  PROVE  AgreeInv'
<1>1. contended \subseteq contended' /\ raced \subseteq raced'
  BY DEF Contends, Races
<1>2. UNCHANGED <<clients, sessions, store, topics>>
  BY DEF channel_read, handle_connect, handle_puback, handle_channel_disconnected, ConnectionLost, registries
<1>3. CASE channel_read(ch)
  <2>1. /\ ~Busy(ch) /\ Others(ch) /\ \A x \in Channels \ {ch} : param'[x] = param[x]
        /\ \/ UNCHANGED frame /\ param[ch] = NULL /\ param'[ch] = NULL
           \/ /\ param[ch] # NULL
              /\ frame'[ch].pc \in {"to_subscribe", "lookup", "publish", "unsubscribe_all"}
              /\ frame'[ch].agent = param[ch]
              /\ \/ frame'[ch].rq.op \in {"subscribe", "unsubscribe", "publish"} /\ UNCHANGED param
                 \/ frame'[ch].rq.op = "disconnect" /\ param'[ch] = NULL
    BY <1>3, ReadMoves
  <2>2. \A x \in Channels : param'[x] \in {param[x], NULL}
    BY <2>1
  <2>3. CASE UNCHANGED frame /\ param[ch] = NULL
    BY <1>1, <1>2, <2>2, <2>3, StillAgree
  <2>4. CASE param[ch] # NULL
    BY <1>2, <2>1, <2>2, <2>4, BeginAgree
  <2> QED
    BY <2>1, <2>3, <2>4
<1>4. CASE handle_connect(ch)
  <2> DEFINE rq == Head(script[ch])
             c == [chan |-> ch, cid |-> rq.cid, clean |-> rq.clean, will |-> rq.will, sess |-> NULL]
  <2>1. /\ rq.op = "connect" /\ ~Busy(ch) /\ UNCHANGED param
        /\ frame' = [frame EXCEPT ![ch] = [[Idle EXCEPT !.rq = rq, !.agent = c] EXCEPT !.pc = "get_client"]]
    BY <1>4 DEF handle_connect, Ready, Goto, registries
  <2>2. c.sess = NULL
    OBVIOUS
  <2> HIDE DEF rq, c
  <2>3. frame' = [frame EXCEPT ![ch] = Begun(rq, c, "get_client")]
    BY <2>1 DEF Begun
  <2>4. Others(ch) /\ frame'[ch].pc = "get_client" /\ frame'[ch].rq = rq /\ frame'[ch].agent = c
    BY <2>3, BeginsAt
  <2>5. frame'[ch].rq.op = "connect" /\ frame'[ch].agent.sess = NULL
    BY <2>1, <2>2, <2>4
  <2> QED
    BY <1>2, <2>1, <2>4, <2>5, BeginAgree
<1>5. CASE handle_puback(ch)
  <2>1. /\ ~Busy(ch) /\ UNCHANGED param /\ Others(ch) /\ param[ch] # NULL
        /\ frame'[ch].pc = "puback" /\ frame'[ch].rq.op = "puback" /\ frame'[ch].agent = param[ch]
    BY <1>5, PubackMoves
  <2> QED
    BY <1>2, <2>1, BeginAgree
<1>6. CASE handle_channel_disconnected(ch)
  <2>1. /\ ~Busy(ch) /\ Others(ch)
        /\ param'[ch] = NULL /\ \A x \in Channels \ {ch} : param'[x] = param[x]
        /\ \/ param[ch] = NULL /\ UNCHANGED frame
           \/ /\ param[ch] # NULL /\ frame'[ch].agent = param[ch]
              /\ frame'[ch].pc \in {"unsubscribe_all", "will"} /\ frame'[ch].rq.op = "disconnected"
    BY <1>6, DisconnectedMoves
  <2>2. \A x \in Channels : param'[x] \in {param[x], NULL}
    BY <2>1
  <2>3. CASE UNCHANGED frame /\ param[ch] = NULL
    BY <1>1, <1>2, <2>2, <2>3, StillAgree
  <2>4. CASE param[ch] # NULL
    BY <1>2, <2>1, <2>2, <2>4, BeginAgree
  <2> QED
    BY <2>1, <2>3, <2>4
<1>7. CASE ConnectionLost(ch)
  BY <1>1, <1>2, <1>7, LostMoves, StillAgree
<1> QED
  BY <1>3, <1>4, <1>5, <1>6, <1>7

-----------------------------------------------------------------------------
(* Handlers of CONNECT, and the end of a client                            *)

\* The client that was registered is taken away, or nothing happens to it.
LEMMA DisplacesAgree ==
  ASSUME Core, Core', AloneInv, AgreeInv, Contends, Races, NEW ch \in Channels, Others(ch),
         UNCHANGED <<sessions, store, topics>>, \A x \in Channels : param'[x] \in {param[x], NULL},
         NEW j, j = frame[ch].agent.cid,
         clients'[j] \in {clients[j], NULL}, \A i \in ClientIds \ {j} : clients'[i] = clients[i],
         frame[ch].pc \in Connecting \cup {"deregister"},
         \/ /\ frame'[ch].agent = frame[ch].agent /\ frame'[ch].rq = frame[ch].rq
            /\ frame[ch].pc # "deregister" /\ frame'[ch].pc \in Connecting \ {"new_session"}
         \/ frame'[ch] = Idle /\ clients'[j] = NULL
  PROVE  AgreeInv'
<1>1. Busy(ch) /\ j \in ClientIds
  BY HandlerFacts DEF Busy, Connecting
<1>2. Busy(ch)' => frame'[ch].agent = frame[ch].agent /\ frame'[ch].rq = frame[ch].rq
                   /\ frame'[ch].pc \in Connecting \ {"new_session"} /\ frame[ch].pc \in Connecting
  BY IdleFrame DEF Busy
<1>3. Silent(ch)
  BY DEF Silent, topics
<1>4. Kept(ch) /\ SessionsOwned'
  <2>1. \A i \in ClientIds : clients'[i] \in {clients[i], NULL, frame[ch].agent}
    BY <1>1
  <2>2. frame'[ch].agent \in {frame[ch].agent, NULL}
    BY IdleFrame
  <2> QED
    BY <1>3, <2>1, <2>2, SilentKept, SilentOwners
<1>5. SameRegistered(j)
  BY DEF SameRegistered
<1>6. Untouched(ch, j)
  BY <1>4, <1>5, KeptUntouched
<1>7. EraseSees(frame[ch])' /\ Sees(frame[ch])' /\ TakesUp(frame[ch])'
  BY IdleFrame DEF EraseSees, Sees, TakesUp, Connecting
<1>8. frame[ch].pc \in Connecting => frame[ch].rq.op = "connect"
  BY HandlerFacts DEF Serves
<1>9. ASSUME j \in ClientIds \ contended', Sole(ch, j), j \notin contended
      PROVE  /\ Busy(ch)' => KnowsSession(frame[ch])' /\ Sees(frame[ch])'
             /\ Agrees(j)'
  <2>1. Busy(ch)' => KnowsSession(frame[ch])'
    BY <1>2, <1>7, <1>8 DEF KnowsSession, Connecting
  <2>2. Agrees(j)
    BY <1>9 DEF AgreeInv
  <2>3. clients[j] # NULL => clients[j] \in ClientUpTo(Len(store))
    BY <1>1 DEF Core, TypesInv, RegistryTypes
  <2>4. frame[ch].pc # "add_subscription"
    BY DEF Connecting
  <2>5. clients'[j] = NULL \/ (frame[ch].rq.op \notin Leaving /\ sessions'[j] = sessions[j])
    BY <1>8 DEF Leaving
  <2>6. clients'[j] = NULL \/ StillChanging(ch, j)
    BY <1>8 DEF StillChanging, Changing, Leaving, Connecting
  <2>7. Busy(ch)' => frame'[ch].agent.cid = j
    BY <1>2
  <2>8. Agrees(j)'
    BY <1>1, <1>4, <1>9, <2>2, <2>3, <2>4, <2>5, <2>6, <2>7, KeptAgrees
  <2> QED
    BY <1>7, <2>1, <2>8
<1>10. Busy(ch)' => frame'[ch].agent.cid = j
  BY <1>2
<1> QED
  BY <1>1, <1>4, <1>6, <1>7, <1>9, <1>10, AgreeStep

LEMMA DisplacingAgree ==
  ASSUME Core, Core', AloneInv, AgreeInv, Contends, Races, NEW ch \in Channels,
         get_client(ch) \/ delete_client(ch) \/ take_over(ch) \/ close_old(ch) \/ deregister(ch)
  PROVE  AgreeInv'
<1>1. UNCHANGED <<sessions, store, topics>>
  BY DEF get_client, delete_client, take_over, close_old, deregister, registries
<1>2. PICK j : j = frame[ch].agent.cid
  OBVIOUS
<1>3. DOMAIN clients = ClientIds
  BY DEF Core, TypesInv, RegistryTypes
<1>4. j \in ClientIds => [clients EXCEPT ![j] = NULL][j] = NULL
  BY <1>3
<1>5. \A i \in ClientIds \ {j} : [clients EXCEPT ![j] = NULL][i] = clients[i]
  BY <1>3
<1>6. CASE get_client(ch)
  <2>1. /\ frame[ch].pc = "get_client" /\ UNCHANGED <<param, clients>>
        /\ Others(ch) /\ frame'[ch].agent = frame[ch].agent /\ frame'[ch].rq = frame[ch].rq
        /\ frame'[ch].pc \in {"session", "delete_client"}
    BY <1>6, GetClientMoves
  <2>2. frame[ch].pc \in Connecting /\ frame'[ch].pc \in Connecting \ {"new_session"}
    BY <2>1 DEF Connecting
  <2> QED
    BY <1>1, <1>2, <2>1, <2>2, DisplacesAgree
<1>7. CASE delete_client(ch)
  <2>1. /\ frame[ch].pc = "delete_client" /\ UNCHANGED param
        /\ clients' = [clients EXCEPT ![j] = NULL]
        /\ Others(ch) /\ frame'[ch].agent = frame[ch].agent /\ frame'[ch].rq = frame[ch].rq
        /\ frame'[ch].pc = "take_over"
    BY <1>2, <1>7, DeleteClientMoves
  <2>2. frame[ch].pc \in Connecting /\ frame'[ch].pc \in Connecting \ {"new_session"} /\ j \in ClientIds
    BY <1>2, <2>1, HandlerFacts DEF Connecting
  <2>3. clients'[j] = NULL /\ \A i \in ClientIds \ {j} : clients'[i] = clients[i]
    BY <1>4, <1>5, <2>1, <2>2
  <2> QED
    BY <1>1, <1>2, <2>1, <2>2, <2>3, DisplacesAgree
<1>8. CASE take_over(ch)
  <2>1. /\ frame[ch].pc = "take_over" /\ UNCHANGED clients
        /\ \A x \in Channels : param'[x] \in {param[x], NULL}
        /\ Others(ch) /\ frame'[ch].agent = frame[ch].agent /\ frame'[ch].rq = frame[ch].rq
        /\ frame'[ch].pc = "close_old"
    BY <1>8, TakeOverMoves
  <2>2. frame[ch].pc \in Connecting /\ frame'[ch].pc \in Connecting \ {"new_session"}
    BY <2>1 DEF Connecting
  <2> QED
    BY <1>1, <1>2, <2>1, <2>2, DisplacesAgree
<1>9. CASE close_old(ch)
  <2>1. /\ frame[ch].pc = "close_old" /\ UNCHANGED <<param, clients>>
        /\ Others(ch) /\ frame'[ch].agent = frame[ch].agent /\ frame'[ch].rq = frame[ch].rq
        /\ frame'[ch].pc = "session"
    BY <1>9, CloseOldMoves
  <2>2. frame[ch].pc \in Connecting /\ frame'[ch].pc \in Connecting \ {"new_session"}
    BY <2>1 DEF Connecting
  <2> QED
    BY <1>1, <1>2, <2>1, <2>2, DisplacesAgree
<1>10. CASE deregister(ch)
  <2>1. /\ frame[ch].pc = "deregister" /\ UNCHANGED param
        /\ clients' = [clients EXCEPT ![j] = NULL]
        /\ Others(ch) /\ frame'[ch] = Idle
    BY <1>2, <1>10, DeregisterMoves
  <2>2. j \in ClientIds
    BY <1>2, <2>1, HandlerFacts
  <2>3. clients'[j] = NULL /\ \A i \in ClientIds \ {j} : clients'[i] = clients[i]
    BY <1>4, <1>5, <2>1, <2>2
  <2> QED
    BY <1>1, <1>2, <2>1, <2>3, DisplacesAgree
<1> QED
  BY <1>6, <1>7, <1>8, <1>9, <1>10

\* ctx->param(client_ptr).
LEMMA SetParamAgree ==
  ASSUME Core, Core', AloneInv, AgreeInv, Contends, Races, NEW ch \in Channels, set_param(ch)
  PROVE  AgreeInv'
<1>1. PICK j : j = frame[ch].agent.cid
  OBVIOUS
<1>2. /\ frame[ch].pc = "set_param" /\ UNCHANGED <<clients, sessions, store, map, objects>>
      /\ param'[ch] = frame[ch].agent
      /\ \A x \in Channels \ {ch} : param'[x] = param[x]
      /\ Others(ch)
      /\ \/ frame'[ch] = Idle
         \/ /\ frame'[ch].agent = frame[ch].agent /\ frame'[ch].rq = frame[ch].rq
            /\ frame'[ch].pc = "restore" /\ frame[ch].rq.op = "resume"
  BY SetParamMoves DEF set_param, topics
<1>3. frame[ch].rq.op \in {"connect", "resume"}
  BY <1>2, HandlerFacts DEF Serves
<1>4. frame[ch].rq.op = "resume" => frame'[ch].pc = "restore" /\ frame'[ch].rq.op = "resume"
  <2> SUFFICES ASSUME frame[ch].rq.op = "resume"
               PROVE  frame'[ch].pc = "restore" /\ frame'[ch].rq.op = "resume"
    OBVIOUS
  <2>1. Goto(ch, frame[ch], "restore")
    BY DEF set_param
  <2>2. SameWork(frame[ch], frame[ch])
    BY Edits
  <2> QED
    BY <2>1, <2>2, GotoWork
<1>5. Goes(ch)
  BY <1>2, <1>3 DEF Goes, Connecting, Leaving
<1>6. Silent(ch)
  BY <1>2 DEF Silent
<1>7. Kept(ch) /\ SessionsOwned'
  <2>1. frame'[ch].agent \in {frame[ch].agent, NULL}
    BY <1>2, IdleFrame
  <2>2. \A x \in Channels : param'[x] \in {param[x], NULL, frame[ch].agent}
    BY <1>2
  <2> QED
    BY <1>2, <1>6, <2>1, <2>2, SilentKept, SilentOwners
<1>8. EraseSees(frame[ch])' /\ Sees(frame[ch])' /\ TakesUp(frame[ch])'
  BY <1>2, IdleFrame DEF EraseSees, Sees, TakesUp
<1>9. StillChanging(ch, j)
  <2> SUFFICES ASSUME NEW f \in Filters, Changing(frame[ch], f)
               PROVE  Busy(ch)' /\ Changing(frame[ch], f)'
    BY DEF StillChanging
  <2>1. frame[ch].rq.op = "resume"
    BY <1>2, <1>3 DEF Changing, Leaving
  <2> QED
    BY <1>4, <2>1 DEF Changing, Busy
<1>10. frame[ch].pc \notin Connecting \cup {"idle", "reg_client", "add_subscription"}
  BY <1>2 DEF Connecting
<1> QED
  BY <1>1, <1>2, <1>5, <1>7, <1>8, <1>9, <1>10, WorkAgree

\* The registered client has the registered session, and subscribes if it was stored.
LEMMA RegClientAgree ==
  ASSUME Core, Core', AloneInv, AgreeInv, Contends, Races, NEW ch \in Channels, reg_client(ch)
  PROVE  AgreeInv'
<1>1. PICK j, a : j = frame[ch].agent.cid /\ a = frame[ch].agent
  OBVIOUS
<1>2. /\ frame[ch].pc = "reg_client" /\ UNCHANGED <<param, sessions, store, map, objects>>
      /\ clients' = [clients EXCEPT ![j] = IF @ = NULL THEN a ELSE @]
      /\ Others(ch) /\ frame'[ch].agent = a /\ frame'[ch].rq = frame[ch].rq
      /\ frame'[ch].pc = "set_param"
  BY <1>1, RegClientMoves DEF reg_client, topics
<1>3. Busy(ch) /\ Busy(ch)' /\ j \in ClientIds /\ frame[ch].rq.op \in {"connect", "resume"} /\ a # NULL
  BY <1>1, <1>2, HandlerFacts DEF Busy, Serves, Has
<1>4. /\ \A i \in ClientIds \ {j} : clients'[i] = clients[i]
      /\ clients'[j] = IF clients[j] = NULL THEN a ELSE clients[j]
  BY <1>2, <1>3 DEF Core, TypesInv, RegistryTypes
<1>5. Silent(ch)
  BY <1>2 DEF Silent
<1>6. Kept(ch) /\ SessionsOwned'
  <2>1. \A i \in ClientIds : clients'[i] \in {clients[i], NULL, frame[ch].agent}
    BY <1>1, <1>4
  <2> QED
    BY <1>1, <1>2, <1>5, <2>1, SilentKept, SilentOwners
<1>7. SameRegistered(j)
  BY <1>2, <1>4 DEF SameRegistered
<1>8. Untouched(ch, j)
  BY <1>6, <1>7, KeptUntouched
<1>9. EraseSees(frame[ch])' /\ Sees(frame[ch])' /\ TakesUp(frame[ch])'
  BY <1>2 DEF EraseSees, Sees, TakesUp
<1>10. ASSUME j \in ClientIds \ contended', Sole(ch, j), j \notin contended
       PROVE  /\ Busy(ch)' => KnowsSession(frame[ch])' /\ Sees(frame[ch])'
              /\ Agrees(j)'
  <2>1. KnowsSession(frame[ch]) /\ Agrees(j)
    BY <1>1, <1>3, <1>10 DEF AgreeInv
  <2>2. clients[j] = NULL
    BY <1>1, <1>2, <1>10, AloneHandler DEF Knows, Registering
  <2>3. clients'[j] = a /\ sessions[j] = a.sess /\ (frame[ch].rq.op = "connect" => store[a.sess].subs = {})
    BY <1>1, <1>2, <1>4, <2>1, <2>2 DEF KnowsSession
  <2>4. KnowsSession(frame[ch])'
    BY <1>1, <1>2, <1>9, <2>3 DEF KnowsSession
  <2>5. /\ \A h \in Channels : h # ch => ~Works(h, j) /\ ~Works(h, j)'
        /\ Works(ch, j) /\ Works(ch, j)'
    BY <1>1, <1>2, <1>3, <1>10, OnlyWorker
  <2>6. SessionKept(j)'
    BY <1>2, <2>3 DEF SessionKept
  <2>7. ASSUME NEW f \in Filters \ raced'
        PROVE  EntryListed(j, f)' /\ ListedEntered(j, f)'
    <3>1. EntryListed(j, f) /\ Entry(f, j)' = Entry(f, j)
      BY <1>2, <2>1 DEF Agrees, Races, Entry
    <3>2. EntryListed(j, f)'
      BY <1>2, <2>5, <3>1 DEF EntryListed
    <3>3. ListedEntered(j, f)'
      <4> SUFFICES ASSUME f \in store[a.sess].subs, ~Changing(frame[ch], f)'
                   PROVE  FALSE
        BY <1>2, <2>3, <2>5 DEF ListedEntered
      <4>1. frame'[ch].rq.op = "resume"
        BY <1>2, <1>3, <2>3
      <4> QED
        BY <1>2, <4>1 DEF Changing
    <3> QED
      BY <3>2, <3>3
  <2> QED
    BY <1>9, <2>4, <2>6, <2>7 DEF Agrees
<1> QED
  BY <1>1, <1>2, <1>3, <1>6, <1>8, <1>9, <1>10, AgreeStep

\* A client that was seen has a session of the store.
LEMMA SeenSessions ==
  ASSUME Core, NEW c \in Seen, c # NULL, c.sess # NULL
  PROVE  c.sess \in 1..Len(store)
<1>1. CASE c \in ClientUpTo(Len(store)) \/ c \in AgentUpTo(Len(store))
  BY <1>1 DEF ClientUpTo, AgentUpTo
<1>2. \A i \in ClientIds : clients[i] \in ClientUpTo(Len(store)) \cup {NULL}
  BY DEF Core, TypesInv, RegistryTypes
<1>3. \A x \in Channels : param[x] \in ClientUpTo(Len(store)) \cup {NULL}
  BY DEF Core, TypesInv, RegistryTypes
<1>4. \A x \in Channels : frame[x].agent \in AgentUpTo(Len(store)) \cup {NULL}
  BY HandlerFacts
<1>5. \A o \in 1..Len(objects) : \A i \in ClientIds : objects[o].clients[i] \in ClientUpTo(Len(store)) \cup {NULL}
  BY ObjectAtHand
<1> QED
  BY <1>1, <1>2, <1>3, <1>4, <1>5 DEF Seen

\* A stored session is found: the handler resumes it.  Otherwise there is none.
LEMMA SessionGoes ==
  ASSUME Core, NEW ch \in Channels, session(ch), NEW j, j = frame[ch].agent.cid
  PROVE  /\ frame[ch].pc = "session" /\ frame[ch].rq.op = "connect" /\ j \in ClientIds
         /\ UNCHANGED <<param, clients, store, map, objects>> /\ Others(ch) /\ frame'[ch].agent.cid = j
         /\ \A i \in ClientIds \ {j} : sessions'[i] = sessions[i]
         /\ sessions'[j] \in {sessions[j], NULL}
         /\ \/ /\ frame'[ch].pc = "reg_client" /\ frame'[ch].rq.op = "resume"
               /\ frame'[ch].agent.sess = sessions[j] /\ sessions' = sessions
            \/ /\ frame'[ch].pc = "new_session" /\ frame'[ch].rq = frame[ch].rq
               /\ frame'[ch].agent = frame[ch].agent /\ sessions'[j] = NULL
<1>1. PICK a, s : a = frame[ch].agent /\ s = sessions[j]
  OBVIOUS
<1>2. /\ frame[ch].pc = "session" /\ UNCHANGED <<param, clients, store, map, objects>>
      /\ sessions' = IF a.clean THEN [sessions EXCEPT ![j] = NULL] ELSE sessions
      /\ IF ~a.clean /\ s # NULL
           THEN Goto(ch, [frame[ch] EXCEPT !.agent.sess = s, !.rq = [op |-> "resume"]], "reg_client")
           ELSE Goto(ch, frame[ch], "new_session")
  BY <1>1 DEF session, At, topics
<1>3. frame[ch].rq.op = "connect" /\ j \in ClientIds /\ a \in AgentUpTo(Len(store))
  BY <1>1, <1>2, HandlerFacts DEF Serves, Connecting
<1>4. /\ \A i \in ClientIds \ {j} : sessions'[i] = sessions[i]
      /\ sessions'[j] \in {sessions[j], NULL} /\ (a.clean => sessions'[j] = NULL)
  BY <1>2, <1>3 DEF Core, TypesInv, RegistryTypes
<1>5. CASE ~a.clean /\ s # NULL
  <2>1. frame' = [frame EXCEPT ![ch] = [[frame[ch] EXCEPT !.agent.sess = s, !.rq = [op |-> "resume"]]
                                          EXCEPT !.pc = "reg_client"]]
    BY <1>2, <1>5 DEF Goto
  <2>2. /\ frame[ch] \in FrameUpTo(Len(store), Len(objects)) /\ DOMAIN frame = Channels
    BY HandlerFacts DEF Core, TypesInv, FrameTypes
  <2>3. DOMAIN frame[ch] = {"pc", "rq", "agent", "to", "todo", "obj", "source", "objs"}
    BY <2>2 DEF FrameUpTo
  <2>4. Others(ch) /\ frame'[ch] = [[frame[ch] EXCEPT !.agent.sess = s, !.rq = [op |-> "resume"]]
                                      EXCEPT !.pc = "reg_client"]
    BY <2>1, <2>2 DEF Others
  <2>5. PICK rq : rq = [op |-> "resume"]
    OBVIOUS
  <2>6. rq.op = "resume"
    BY ONLY <2>5
  <2>7. frame'[ch].pc = "reg_client" /\ frame'[ch].rq = rq /\ frame'[ch].agent = [a EXCEPT !.sess = s]
    BY <1>1, <2>3, <2>4, <2>5
  <2>8. [a EXCEPT !.sess = s].sess = s /\ [a EXCEPT !.sess = s].cid = a.cid
    BY <1>3 DEF AgentUpTo
  <2>9. frame'[ch].agent.sess = s /\ frame'[ch].agent.cid = j
    BY <1>1, <2>7, <2>8
  <2>10. sessions' = sessions
    BY <1>2, <1>5
  <2> QED
    BY <1>1, <1>2, <1>3, <1>4, <2>4, <2>6, <2>7, <2>9, <2>10
<1>6. CASE ~(~a.clean /\ s # NULL)
  <2>1. Goto(ch, frame[ch], "new_session") /\ SameWork(frame[ch], frame[ch])
    BY <1>2, <1>6, Edits
  <2>2. /\ Others(ch) /\ frame'[ch].pc = "new_session" /\ frame'[ch].agent = frame[ch].agent
        /\ frame'[ch].rq = frame[ch].rq
    BY <2>1, GotoWork
  <2>3. sessions'[j] = NULL
    BY <1>1, <1>4, <1>6
  <2> QED
    BY <1>1, <1>2, <1>3, <1>4, <2>2, <2>3
<1> QED
  BY <1>5, <1>6

\* The registered client was taken away before.
LEMMA SessionAgree ==
  ASSUME Core, Core', AloneInv, AgreeInv, Contends, Races, NEW ch \in Channels, session(ch)
  PROVE  AgreeInv'
<1>1. PICK j : j = frame[ch].agent.cid
  OBVIOUS
<1>2. /\ frame[ch].pc = "session" /\ frame[ch].rq.op = "connect" /\ j \in ClientIds
      /\ UNCHANGED <<param, clients, store, map, objects>> /\ Others(ch) /\ frame'[ch].agent.cid = j
      /\ \A i \in ClientIds \ {j} : sessions'[i] = sessions[i]
      /\ sessions'[j] \in {sessions[j], NULL}
      /\ \/ /\ frame'[ch].pc = "reg_client" /\ frame'[ch].rq.op = "resume"
            /\ frame'[ch].agent.sess = sessions[j] /\ sessions' = sessions
         \/ /\ frame'[ch].pc = "new_session" /\ frame'[ch].rq = frame[ch].rq
            /\ frame'[ch].agent = frame[ch].agent /\ sessions'[j] = NULL
  BY <1>1, SessionGoes
<1>3. Busy(ch) /\ Busy(ch)'
  BY <1>2 DEF Busy
<1>4. Kept(ch)
  BY <1>2 DEF Kept, SameEntry, Entry
<1>5. SessionsOwned'
  <2>1. \/ frame'[ch].agent \in {frame[ch].agent, NULL, param[ch]}
        \/ frame'[ch].agent.sess = NULL
        \/ frame'[ch].agent.cid \in ClientIds /\ frame'[ch].agent.sess = sessions[frame'[ch].agent.cid]
    BY <1>2
  <2>2. \A p \in 1..Len(objects') : \A i \in ClientIds :
            p \in 1..Len(objects) /\ objects'[p].clients[i] = objects[p].clients[i]
    BY <1>2
  <2>3. \A i \in ClientIds : sessions'[i] \in {sessions[i], NULL}
    BY <1>2
  <2> QED
    BY <1>2, <2>1, <2>2, <2>3, SameOwners
<1>6. SameRegistered(j)
  BY <1>2 DEF SameRegistered
<1>7. Untouched(ch, j)
  BY <1>4, <1>6, KeptUntouched
<1>8. EraseSees(frame[ch])' /\ Sees(frame[ch])' /\ TakesUp(frame[ch])'
  BY <1>2 DEF EraseSees, Sees, TakesUp
<1>9. ASSUME j \in ClientIds \ contended', Sole(ch, j), j \notin contended
      PROVE  /\ Busy(ch)' => KnowsSession(frame[ch])' /\ Sees(frame[ch])'
             /\ Agrees(j)'
  <2>1. Agrees(j)
    BY <1>9 DEF AgreeInv
  <2>2. clients[j] = NULL /\ clients'[j] = NULL
    BY <1>1, <1>2, <1>9, AloneHandler DEF Knows, Registering
  <2>3. KnowsSession(frame[ch])'
    BY <1>2, <1>8 DEF KnowsSession
  <2>4. Agrees(j)'
    BY <1>1, <1>2, <1>4, <1>9, <2>1, <2>2, KeptAgrees
  <2> QED
    BY <1>8, <2>3, <2>4
<1> QED
  BY <1>1, <1>2, <1>3, <1>5, <1>7, <1>8, <1>9, AgreeStep

LEMMA NewSessionGoes ==
  ASSUME Core, NEW ch \in Channels, new_session(ch), NEW j, j = frame[ch].agent.cid
  PROVE  /\ frame[ch].pc = "new_session" /\ frame[ch].rq.op = "connect" /\ j \in ClientIds
         /\ UNCHANGED <<param, clients, map, objects>> /\ Others(ch) /\ frame'[ch].agent.cid = j
         /\ \A i \in ClientIds \ {j} : sessions'[i] = sessions[i]
         /\ sessions'[j] = IF sessions[j] = NULL THEN Len(store) + 1 ELSE sessions[j]
         /\ frame'[ch].pc = "reg_client" /\ frame'[ch].rq = frame[ch].rq
         /\ frame'[ch].agent.sess = Len(store) + 1
         /\ Len(store') = Len(store) + 1 /\ store'[Len(store) + 1].subs = {}
         /\ \A p \in 1..Len(store) : store'[p] = store[p]
<1>1. PICK a, s, new : a = frame[ch].agent /\ s = Len(store) + 1 /\ new = [subs |-> {}, open |-> 0]
  OBVIOUS
<1>2. /\ frame[ch].pc = "new_session" /\ UNCHANGED <<param, clients, map, objects>>
      /\ sessions' = [sessions EXCEPT ![j] = IF @ = NULL THEN s ELSE @]
      /\ store' = Append(store, new)
      /\ Goto(ch, [frame[ch] EXCEPT !.agent.sess = s], "reg_client")
  BY <1>1 DEF new_session, At, topics
<1>3. frame[ch].rq.op = "connect" /\ j \in ClientIds /\ a \in AgentUpTo(Len(store))
  BY <1>1, <1>2, HandlerFacts DEF Serves, Connecting
<1>4. /\ \A i \in ClientIds \ {j} : sessions'[i] = sessions[i]
      /\ sessions'[j] = IF sessions[j] = NULL THEN s ELSE sessions[j]
  BY <1>2, <1>3 DEF Core, TypesInv, RegistryTypes
<1>5. /\ Len(store') = Len(store) + 1 /\ store'[Len(store) + 1] = new
      /\ \A p \in 1..Len(store) : store'[p] = store[p]
  <2>1. store \in Seq(SessionObject)
    BY DEF Core, TypesInv, RegistryTypes
  <2> QED
    BY ONLY <1>2, <2>1
<1>6. new.subs = {}
  BY ONLY <1>1
<1>7. frame' = [frame EXCEPT ![ch] = [[frame[ch] EXCEPT !.agent.sess = s] EXCEPT !.pc = "reg_client"]]
  BY <1>2 DEF Goto
<1>8. DOMAIN frame = Channels
      /\ DOMAIN frame[ch] = {"pc", "rq", "agent", "to", "todo", "obj", "source", "objs"}
  BY DEF Core, TypesInv, FrameTypes, FrameUpTo
<1>9. Others(ch) /\ frame'[ch] = [[frame[ch] EXCEPT !.agent.sess = s] EXCEPT !.pc = "reg_client"]
  BY <1>7, <1>8 DEF Others
<1>10. frame'[ch].pc = "reg_client" /\ frame'[ch].rq = frame[ch].rq /\ frame'[ch].agent = [a EXCEPT !.sess = s]
  BY <1>1, <1>8, <1>9
<1>11. [a EXCEPT !.sess = s].sess = s /\ [a EXCEPT !.sess = s].cid = a.cid
  BY <1>3 DEF AgentUpTo
<1>12. frame'[ch].agent.sess = s /\ frame'[ch].agent.cid = j
  BY <1>1, <1>10, <1>11
<1> QED
  BY <1>1, <1>2, <1>3, <1>4, <1>5, <1>6, <1>9, <1>10, <1>12

\* A new session is nobody's but the new client's.
LEMMA NewSessionAgree ==
  ASSUME Core, Core', AloneInv, AgreeInv, Contends, Races, NEW ch \in Channels, new_session(ch)
  PROVE  AgreeInv'
<1>1. PICK j, s, n : j = frame[ch].agent.cid /\ s = Len(store) + 1 /\ n = Len(store)
  OBVIOUS
<1>2. /\ frame[ch].pc = "new_session" /\ frame[ch].rq.op = "connect" /\ j \in ClientIds
      /\ UNCHANGED <<param, clients, map, objects>> /\ Others(ch) /\ frame'[ch].agent.cid = j
      /\ \A i \in ClientIds \ {j} : sessions'[i] = sessions[i]
      /\ sessions'[j] = IF sessions[j] = NULL THEN s ELSE sessions[j]
      /\ frame'[ch].pc = "reg_client" /\ frame'[ch].rq = frame[ch].rq
      /\ frame'[ch].agent.sess = s
      /\ Len(store') = s /\ store'[s].subs = {}
      /\ \A p \in 1..Len(store) : store'[p] = store[p]
  BY <1>1, NewSessionGoes
<1>3. Busy(ch) /\ Busy(ch)' /\ n \in Nat
  BY <1>1, <1>2, HandlerFacts DEF Busy
<1>4. Kept(ch)
  BY <1>2 DEF Kept, SameEntry, Entry
<1>5. SessionsOwned'
  <2>1. PICK owner \in [1..n -> ClientIds] : OwnedBy(owner)
    BY <1>1 DEF AgreeInv, SessionsOwned
  <2>2. PICK owns : owns = [p \in 1..s |-> IF p = s THEN j ELSE owner[p]]
    OBVIOUS
  <2>3. /\ owns[s] = j /\ owns \in [1..s -> ClientIds] /\ \A p \in 1..n : owns[p] = owner[p]
    <3>1. s = n + 1 /\ s \in 1..s /\ \A p \in 1..n : p # s /\ p \in 1..s
      BY ONLY <1>1, <1>3
    <3>2. \A p \in 1..s : p # s => p \in 1..n
      BY ONLY <1>3, <3>1
    <3> QED
      BY <1>2, <2>1, <2>2, <3>1, <3>2
  <2>4. \A i \in ClientIds : sessions[i] # NULL => sessions[i] \in 1..n /\ owner[sessions[i]] = i
    BY <1>1, <2>1, SeenFacts DEF Core, TypesInv, RegistryTypes
  <2>5. \A i \in ClientIds : sessions'[i] # NULL => owns[sessions'[i]] = i
    BY <1>2, <2>3, <2>4
  <2>6. ASSUME NEW c \in Seen', c # NULL, c.sess # NULL
        PROVE  owns[c.sess] = c.cid
    <3>1. c \in Seen \/ c = frame'[ch].agent
      BY <1>2 DEF Seen, Others
    <3>2. CASE c \in Seen
      <4>1. c.sess \in 1..n /\ owner[c.sess] = c.cid
        BY <1>1, <2>1, <2>6, <3>2, SeenSessions DEF OwnedBy
      <4> QED
        BY <2>3, <4>1
    <3>3. CASE c = frame'[ch].agent
      BY <1>2, <2>3, <3>3
    <3> QED
      BY <3>1, <3>2, <3>3
  <2>7. OwnedBy(owns)'
    BY <2>5, <2>6 DEF OwnedBy
  <2> QED
    BY <1>2, <2>3, <2>7 DEF SessionsOwned
<1>6. SameRegistered(j)
  BY <1>2 DEF SameRegistered
<1>7. Untouched(ch, j)
  BY <1>4, <1>6, KeptUntouched
<1>8. EraseSees(frame[ch])' /\ Sees(frame[ch])' /\ TakesUp(frame[ch])'
  BY <1>2 DEF EraseSees, Sees, TakesUp
<1>9. ASSUME j \in ClientIds \ contended', Sole(ch, j), j \notin contended
      PROVE  /\ Busy(ch)' => KnowsSession(frame[ch])' /\ Sees(frame[ch])'
             /\ Agrees(j)'
  <2>1. KnowsSession(frame[ch]) /\ Agrees(j)
    BY <1>1, <1>3, <1>9 DEF AgreeInv
  <2>2. clients[j] = NULL /\ clients'[j] = NULL
    BY <1>1, <1>2, <1>9, AloneHandler DEF Knows, Registering
  <2>3. sessions[j] = NULL
    BY <1>1, <1>2, <2>1 DEF KnowsSession
  <2>4. KnowsSession(frame[ch])'
    BY <1>2, <1>8, <2>3 DEF KnowsSession
  <2>5. Agrees(j)'
    BY <1>1, <1>2, <1>4, <1>9, <2>1, <2>2, KeptAgrees
  <2> QED
    BY <1>8, <2>4, <2>5
<1> QED
  BY <1>1, <1>2, <1>3, <1>5, <1>7, <1>8, <1>9, AgreeStep

-----------------------------------------------------------------------------
(* The theorem                                                             *)

LEMMA ContinueAgree ==
  ASSUME Core, Core', AloneInv, AgreeInv, Contends, Races, NEW ch \in Channels, Continue(ch)
  PROVE  AgreeInv'
<1>1. CASE \/ get_client(ch) \/ delete_client(ch) \/ take_over(ch) \/ close_old(ch) \/ session(ch)
           \/ new_session(ch) \/ reg_client(ch) \/ set_param(ch) \/ deregister(ch)
  BY <1>1, DisplacingAgree, SessionAgree, NewSessionAgree, RegClientAgree, SetParamAgree
<1>2. CASE \/ restore(ch) \/ resend(ch) \/ get_topic_ptr_to_subscribe(ch) \/ subscribe(ch)
           \/ add_subscription(ch) \/ retained(ch) \/ retained_wild(ch) \/ retained_of(ch)
           \/ read_retained(ch) \/ send_retained(ch)
  BY <1>2, RestoreAgree, ToSubscribeAgree, SubscribeAgree, AddSubscriptionAgree, RetainedAgree,
     SendRetainedAgree
<1>3. CASE \/ store_retained(ch) \/ lock(ch) \/ deliver(ch) \/ puback(ch)
           \/ publish(ch) \/ wild(ch) \/ wild_next(ch) \/ will(ch) \/ will_id(ch)
  BY <1>3, DeliverAgree, PublishAgree
<1>4. CASE \/ unsubscribe_all(ch) \/ lookup(ch) \/ unsubscribe(ch) \/ delete_subscription(ch)
           \/ empty(ch) \/ erase(ch) \/ delete_session(ch)
  BY <1>4, UnsubscribeAllAgree, LookupAgree, UnsubscribeAgree, DeleteSubscriptionAgree, EmptyAgree,
     EraseAgree, DeleteSessionAgree
<1> QED
  BY <1>1, <1>2, <1>3, <1>4 DEF Continue

LEMMA AgreeNext == Core /\ Core' /\ AloneInv /\ AgreeInv /\ [Next]_vars => AgreeInv'
<1> SUFFICES ASSUME Core, Core', AloneInv, AgreeInv, [Next]_vars
             PROVE  AgreeInv'
  OBVIOUS
<1>1. CASE Next
  <2>1. Contends /\ Races
    BY <1>1 DEF Next, History, Contends, Races
  <2>2. PICK ch \in Channels :
          \/ channel_read(ch) \/ handle_connect(ch) \/ handle_puback(ch)
          \/ handle_channel_disconnected(ch) \/ ConnectionLost(ch)
          \/ Continue(ch)
    BY <1>1 DEF Next
  <2> QED
    BY <2>1, <2>2, BeginsAgree, ContinueAgree
<1>2. CASE UNCHANGED vars
  <2>1. UNCHANGED <<clients, sessions, store, topics, param, frame, contended, raced>>
    BY <1>2 DEF vars, program, registries, history
  <2> QED
    BY <2>1, StillAgree
<1> QED
  BY <1>1, <1>2

LEMMA AgreeInit == Init => AgreeInv
<1> SUFFICES ASSUME Init
             PROVE  AgreeInv
  OBVIOUS
<1>1. /\ \A x \in Channels : frame[x] = Idle /\ param[x] = NULL
      /\ \A i \in ClientIds : clients[i] = NULL /\ sessions[i] = NULL
      /\ store = <<>> /\ objects = <<>> /\ \A f \in Filters : map[f] = NULL
  BY DEF Init
<1>2. 1..Len(store) = {} /\ 1..Len(objects) = {}
  BY <1>1
<1>3. SessionsOwned
  <2>1. \A c \in Seen : c = NULL
    BY <1>1, <1>2, IdleFrame DEF Seen
  <2>2. PICK owner : owner = [s \in 1..Len(store) |-> NULL]
    OBVIOUS
  <2>3. OwnedBy(owner)
    BY <1>1, <2>1 DEF OwnedBy
  <2>4. owner \in [1..Len(store) -> ClientIds]
    BY <1>2, <2>2
  <2> QED
    BY <2>3, <2>4 DEF SessionsOwned
<1>4. \A h \in Channels : EraseSees(frame[h]) /\ ~Busy(h)
  BY <1>1, IdleFrame DEF EraseSees, Busy
<1>5. \A i \in ClientIds : Agrees(i)
  BY <1>1 DEF Agrees, SessionKept, EntryListed, ListedEntered, Entry
<1> QED
  BY <1>3, <1>4, <1>5 DEF AgreeInv

\* A client whose handler has returned and that is its identifier's only one.
LEMMA SettledAgree ==
  ASSUME Core, AloneInv, AgreeInv, NEW ch \in Channels, Settled(ch), NEW c, c = param[ch]
  PROVE  /\ clients[c.cid] = c /\ sessions[c.cid] = c.sess
         /\ \A f \in Filters \ raced :
              f \in store[c.sess].subs <=> map[f] # NULL /\ objects[map[f]].clients[c.cid] = c
<1>1. PICK i : i = c.cid
  OBVIOUS
<1>2. c # NULL /\ i \in ClientIds \ contended /\ frame[ch].rq.op \in {"idle", "publish", "puback"}
  <2>1. c \in ClientUpTo(Len(store)) \cup {NULL}
    BY DEF Core, TypesInv, RegistryTypes
  <2> QED
    BY <1>1, <2>1 DEF Settled, ClientUpTo
<1>3. \A h \in Channels : Works(h, i) => h = ch
  BY <1>1 DEF Settled, Works, RunsFor
<1>4. Agrees(i)
  BY <1>2 DEF AgreeInv
<1>5. clients[i] = c
  <2>1. clients[i] = c \/ TakenOver(c)
    BY <1>1, <1>2 DEF AloneInv, Accounted
  <2>2. ASSUME NEW h \in Channels, frame[h].pc = "take_over", frame[h].agent.cid = i
        PROVE  FALSE
    <3>1. h = ch
      BY <1>3, <2>2 DEF Works, Busy
    <3>2. frame[h].rq.op = "connect"
      BY <2>2, HandlerFacts DEF Serves, Connecting
    <3> QED
      BY <1>2, <3>1, <3>2
  <2> QED
    BY <1>1, <2>1, <2>2 DEF TakenOver
<1>6. sessions[i] = c.sess
  BY <1>2, <1>3, <1>4, <1>5 DEF Agrees, SessionKept, Leaving
<1>7. frame[ch].pc \notin {"add_subscription", "delete_subscription"}
  BY <1>2, HandlerFacts DEF Serves
<1>8. ASSUME NEW f \in Filters \ raced
      PROVE  f \in store[c.sess].subs <=> map[f] # NULL /\ objects[map[f]].clients[i] = c
  <2>1. EntryListed(i, f) /\ ListedEntered(i, f)
    BY <1>4 DEF Agrees
  <2>2. ASSUME f \in store[c.sess].subs
        PROVE  Entry(f, i) = c
    <3>1. ~Changing(frame[ch], f)
      BY <1>2, <1>7 DEF Changing, Leaving
    <3> QED
      BY <1>2, <1>3, <1>5, <2>1, <2>2, <3>1 DEF ListedEntered
  <2>3. ASSUME Entry(f, i) = c
        PROVE  f \in store[c.sess].subs
    BY <1>2, <1>3, <1>7, <2>1, <2>3 DEF EntryListed
  <2>4. Entry(f, i) = c <=> map[f] # NULL /\ objects[map[f]].clients[i] = c
    BY <1>2 DEF Entry
  <2> QED
    BY <2>2, <2>3, <2>4
<1> QED
  BY <1>1, <1>5, <1>6, <1>8

\* handle_connect, handle_subscribe, handle_unsubscribe and unsubscribe_all (mqtt_server.cpp:219-291,
\* 394-434, 454-489 and 165-187): whatever handlers of other clients are in
\* the middle of, _clients, _sessions and the topics say the same of a client whose handler has
\* returned, for every filter that lost no subscriber, if its identifier never had two handlers
\* at a time.
THEOREM RegistriesAgreeThroughout == Spec => []RegistriesAgree
<1>1. Init => AloneInv /\ AgreeInv
  BY AloneInit, AgreeInit
<1>2. IInv => Core
  BY DEF IInv
<1>3. IInv' => Core'
  BY <1>2, PTL
<1>4. IInv /\ IInv' /\ AloneInv /\ AgreeInv /\ [Next]_vars => AloneInv' /\ AgreeInv'
  BY <1>2, <1>3, AloneNext, AgreeNext
<1>5. Core /\ AloneInv /\ AgreeInv => RegistriesAgree
  BY SettledAgree DEF RegistriesAgree
<1> QED
  BY <1>1, <1>2, <1>4, <1>5, Invariance, PTL DEF Spec

-----------------------------------------------------------------------------
(* Publications reach their subscribers                                    *)

\* A handle_publish is at the topic object at hand, or before and at the topic of the
\* name; it is about to reach c there, who was in the object from the beginning.
Visiting(fr) == fr.pc \in {"store", "lock", "deliver"}
AtName(fr) ==
  \/ fr.pc \in {"publish", "wild"}
  \/ Visiting(fr) /\ objects[fr.obj].filter \notin Wild
Entered(o, c) == objects[o].clients[c.cid] = c
AboutToReach(fr, c) ==
  \/ fr.pc \in {"store", "lock"} /\ Entered(fr.obj, c)
  \/ fr.pc = "deliver" /\ c \in fr.to

\* Where it will reach c: until the wild topics are listed at the topic of the name, if
\* c has subscribed to that, then in one of those it has listed.
Ahead(fr, c) ==
  /\ AtName(fr) /\ fr.rq.topic \in store[c.sess].subs \ raced =>
       fr.pc = "publish" \/ AboutToReach(fr, c)
  /\ ~AtName(fr) => AboutToReach(fr, c) \/ \E o \in fr.objs : Entered(o, c)

Awaits(ch) ==
  \A c \in due[ch] : /\ frame[ch].rq.op = "publish"
                     /\ c \in Subscribers(frame[ch].rq.topic)
                     /\ Ahead(frame[ch], c)
DueInv == \A ch \in Channels : Awaits(ch)

\* What a step does to entries and to filters of sessions: those of the handler's own
\* identifier and session, at the places where it subscribes and unsubscribes.
Subscribing == {"subscribe", "unsubscribe", "add_subscription", "delete_subscription"}
Writes(ch) ==
  /\ \A o \in 1..Len(objects) :
       /\ objects'[o].filter = objects[o].filter
       /\ \A i \in ClientIds : \/ objects'[o].clients[i] = objects[o].clients[i]
                               \/ frame[ch].pc \in Subscribing /\ frame[ch].agent.cid = i
  /\ \A s \in 1..Len(store) : \/ store'[s].subs = store[s].subs
                              \/ frame[ch].pc \in Subscribing /\ frame[ch].agent.sess = s

LEMMA SilentWrites ==
  ASSUME NEW ch, Silent(ch)
  PROVE  Writes(ch)
BY DEF Silent, Writes

LEMMA MutexWrites ==
  ASSUME Core, NEW ch \in Channels,
         send_retained(ch) \/ store_retained(ch) \/ lock(ch) \/ deliver(ch) \/ puback(ch)
  PROVE  Writes(ch)
<1>1. frame[ch].pc \in {"send_retained", "send_null", "store", "lock", "deliver", "puback"}
  BY DEF send_retained, store_retained, lock, deliver, puback, Step, At
<1>2. frame[ch].pc # "puback" => frame[ch].obj \in 1..Len(objects)
  BY <1>1, HandlerFacts DEF Has, AtObject
<1>3. \/ UNCHANGED objects
      \/ /\ frame[ch].pc # "puback"
         /\ \E v : \/ objects' = [objects EXCEPT ![frame[ch].obj].mutex = v]
                   \/ objects' = [objects EXCEPT ![frame[ch].obj].retained = v]
  BY DEF send_retained, store_retained, lock, deliver, puback, topics, Step, At
<1>4. \/ UNCHANGED store
      \/ \E s \in 1..Len(store) : \E v : store' = [store EXCEPT ![s].open = v]
  <2>1. CASE send_retained(ch) \/ store_retained(ch) \/ lock(ch)
    BY <2>1 DEF send_retained, store_retained, lock
  <2>2. CASE deliver(ch)
    <3>1. PICK c \in frame[ch].to : store' = [store EXCEPT ![c.sess].open = @ + 1]
      BY <2>2 DEF deliver
    <3>2. frame[ch].pc = "deliver"
      BY <2>2 DEF deliver, At
    <3>3. c \in ClientUpTo(Len(store)) /\ Len(store) \in Nat
      BY <3>2, HandlerFacts DEF Has
    <3> QED
      BY <3>1, <3>3, KnownFields
  <2>3. CASE puback(ch)
    <3>1. store' = [store EXCEPT ![frame[ch].agent.sess].open = IF @ > 0 THEN @ - 1 ELSE @]
          /\ frame[ch].pc = "puback"
      BY <2>3 DEF puback, At
    <3>2. frame[ch].agent.sess \in 1..Len(store)
      BY <3>1, HandlerFacts, KnownFields DEF Connecting
    <3> QED
      BY <3>1, <3>2
  <2> QED
    BY <2>1, <2>2, <2>3
<1>5. \A p \in 1..Len(objects) :
         objects'[p].filter = objects[p].filter /\ objects'[p].clients = objects[p].clients
  BY <1>2, <1>3, EntriesKept
<1>6. \A p \in 1..Len(store) : store'[p].subs = store[p].subs
  BY <1>4, SubsKept
<1> QED
  BY <1>5, <1>6 DEF Writes

LEMMA EntryWrites ==
  ASSUME Core, NEW ch \in Channels, subscribe(ch) \/ unsubscribe(ch)
  PROVE  Writes(ch)
<1>1. PICK j, o : j = frame[ch].agent.cid /\ o = frame[ch].obj
  OBVIOUS
<1>2. PICK v : objects' = [objects EXCEPT ![o].clients[j] = v]
  BY <1>1 DEF subscribe, unsubscribe
<1>3. /\ frame[ch].pc \in {"subscribe", "unsubscribe"} /\ UNCHANGED <<map, store>>
  BY DEF subscribe, unsubscribe, Step, At
<1>4. o \in 1..Len(objects) /\ j \in ClientIds
  BY <1>1, <1>3, HandlerFacts DEF Has, AtObject
<1>5. EntrySet(o, j, v)
  BY <1>2, <1>3, <1>4, SetsEntry
<1> QED
  BY <1>1, <1>3, <1>5 DEF Writes, EntrySet, Subscribing

LEMMA SubsWrites ==
  ASSUME Core, NEW ch \in Channels, add_subscription(ch) \/ delete_subscription(ch)
  PROVE  Writes(ch)
<1>1. PICK s : s = frame[ch].agent.sess
  OBVIOUS
<1>2. PICK v : store' = [store EXCEPT ![s].subs = v]
  BY <1>1 DEF add_subscription, delete_subscription
<1>3. frame[ch].pc \in {"add_subscription", "delete_subscription"} /\ UNCHANGED objects
  BY DEF add_subscription, delete_subscription, Step, At, topics
<1>4. store \in Seq(SessionObject)
  BY DEF Core, TypesInv, RegistryTypes
<1>5. \A p \in 1..Len(store) : p # s => store'[p] = store[p]
  BY <1>2, <1>4
<1> QED
  BY <1>1, <1>3, <1>5 DEF Writes, Subscribing

\* New objects and sessions are put behind the others.
LEMMA NewWrites ==
  ASSUME Core, NEW ch \in Channels, get_topic_ptr_to_subscribe(ch) \/ new_session(ch)
  PROVE  Writes(ch)
<1>1. store \in Seq(SessionObject) /\ objects \in Seq(ObjectUpTo(Len(store)))
  BY DEF Core, TypesInv, RegistryTypes, TopicTypes
<1>2. CASE get_topic_ptr_to_subscribe(ch)
  <2>1. UNCHANGED store /\ \E f : objects' = Append(objects, topic(f)) \/ UNCHANGED objects
    BY <1>2 DEF get_topic_ptr_to_subscribe
  <2>2. \A o \in 1..Len(objects) : objects'[o] = objects[o]
    BY <1>1, <2>1
  <2> QED
    BY <2>1, <2>2 DEF Writes
<1>3. CASE new_session(ch)
  <2>1. UNCHANGED objects /\ store' = Append(store, [subs |-> {}, open |-> 0])
    BY <1>3 DEF new_session, topics
  <2>2. \A s \in 1..Len(store) : store'[s] = store[s]
    BY <1>1, <2>1
  <2> QED
    BY <2>1, <2>2 DEF Writes
<1> QED
  BY <1>2, <1>3

LEMMA StillWrites ==
  ASSUME NEW ch, UNCHANGED <<store, objects>>
  PROVE  Writes(ch)
BY DEF Writes

LEMMA ContinueWrites ==
  ASSUME Core, NEW ch \in Channels, Continue(ch)
  PROVE  Writes(ch)
<1>1. CASE \/ get_client(ch) \/ delete_client(ch) \/ take_over(ch) \/ close_old(ch) \/ session(ch)
           \/ reg_client(ch) \/ set_param(ch) \/ deregister(ch)
  <2>1. UNCHANGED <<store, objects>>
    BY <1>1 DEF get_client, delete_client, take_over, close_old, session, reg_client, set_param,
                deregister, topics
  <2> QED
    BY <2>1, StillWrites
<1>2. CASE restore(ch) \/ resend(ch) \/ retained(ch) \/ retained_wild(ch) \/ retained_of(ch) \/ read_retained(ch)
  <2>1. UNCHANGED <<store, objects>>
    BY <1>2 DEF restore, resend, retained, retained_wild, retained_of, read_retained, topics
  <2> QED
    BY <2>1, StillWrites
<1>3. CASE publish(ch) \/ wild(ch) \/ wild_next(ch) \/ will(ch) \/ will_id(ch)
  <2>1. UNCHANGED <<store, objects>>
    BY <1>3 DEF publish, wild, wild_next, will, will_id, topics
  <2> QED
    BY <2>1, StillWrites
<1>4. CASE unsubscribe_all(ch) \/ lookup(ch) \/ empty(ch) \/ erase(ch) \/ delete_session(ch)
  <2>1. UNCHANGED <<store, objects>>
    BY <1>4 DEF unsubscribe_all, lookup, empty, erase, delete_session, topics
  <2> QED
    BY <2>1, StillWrites
<1>5. CASE \/ send_retained(ch) \/ store_retained(ch) \/ lock(ch) \/ deliver(ch) \/ puback(ch)
           \/ subscribe(ch) \/ unsubscribe(ch) \/ add_subscription(ch) \/ delete_subscription(ch)
           \/ get_topic_ptr_to_subscribe(ch) \/ new_session(ch)
  BY <1>5, MutexWrites, EntryWrites, SubsWrites, NewWrites
<1> QED
  BY <1>1, <1>2, <1>3, <1>4, <1>5 DEF Continue

\* Only the handler's own frame changes.
LEMMA FrameOthers ==
  ASSUME Core, NEW ch \in Channels, \E g : frame' = [frame EXCEPT ![ch] = g]
  PROVE  Others(ch)
BY DEF Others, Core, TypesInv, FrameTypes

LEMMA ContinueOthers ==
  ASSUME Core, NEW ch \in Channels, Continue(ch)
  PROVE  Others(ch)
<1>1. CASE \/ get_client(ch) \/ delete_client(ch) \/ take_over(ch) \/ close_old(ch) \/ session(ch)
           \/ new_session(ch) \/ reg_client(ch) \/ set_param(ch) \/ deregister(ch)
  <2>1. \E g : frame' = [frame EXCEPT ![ch] = g]
    BY <1>1 DEF get_client, delete_client, take_over, close_old, session, new_session, reg_client, set_param,
                deregister, Step, Goto, Return
  <2> QED
    BY <2>1, FrameOthers
<1>2. CASE restore(ch) \/ resend(ch) \/ retained_wild(ch) \/ read_retained(ch)
           \/ subscribe(ch) \/ add_subscription(ch)
  <2>1. \E g : frame' = [frame EXCEPT ![ch] = g]
    BY <1>2 DEF restore, resend, retained_wild, read_retained, subscribe, add_subscription, Step, Goto
  <2> QED
    BY <2>1, FrameOthers
<1>3. CASE get_topic_ptr_to_subscribe(ch) \/ retained(ch) \/ retained_of(ch) \/ send_retained(ch)
  <2>1. UNCHANGED frame \/ \E g : frame' = [frame EXCEPT ![ch] = g]
    BY <1>3 DEF get_topic_ptr_to_subscribe, retained, retained_of, send_retained, Goto, Return
  <2> QED
    BY <2>1, FrameOthers DEF Others
<1>4. CASE publish(ch) \/ wild(ch) \/ wild_next(ch) \/ will(ch) \/ will_id(ch) \/ puback(ch)
  BY <1>4, PublishQuiet DEF Quiet, Stays
<1>5. CASE store_retained(ch) \/ lock(ch) \/ deliver(ch)
  BY <1>5, DeliverQuiet DEF Quiet, Stays
<1>6. CASE unsubscribe_all(ch) \/ lookup(ch) \/ empty(ch) \/ erase(ch)
  <2>1. \E g : frame' = [frame EXCEPT ![ch] = g]
    BY <1>6 DEF unsubscribe_all, lookup, empty, erase, NextToUnsubscribe, Goto, Return
  <2> QED
    BY <2>1, FrameOthers
<1>7. CASE unsubscribe(ch) \/ delete_subscription(ch) \/ delete_session(ch)
  <2>1. \E g : frame' = [frame EXCEPT ![ch] = g]
    BY <1>7 DEF unsubscribe, delete_subscription, delete_session, Step, Goto
  <2> QED
    BY <2>1, FrameOthers
<1> QED
  BY <1>1, <1>2, <1>3, <1>4, <1>5, <1>6, <1>7 DEF Continue

\* A subscriber's own entries and filters stay, whoever takes a step.
LEMMA SettledKept ==
  ASSUME Core, AgreeInv, NEW ch \in Channels, Writes(ch), NEW x \in Channels, Settled(x),
         NEW c, c = param[x]
  PROVE  /\ \A o \in 1..Len(objects) : objects'[o].clients[c.cid] = objects[o].clients[c.cid]
         /\ store'[c.sess].subs = store[c.sess].subs
<1>1. /\ c \in ClientUpTo(Len(store)) /\ c # NULL /\ Len(store) \in Nat
      /\ frame[x].rq.op \in {"idle", "publish", "puback"}
      /\ \A y \in Channels \ {x} : Busy(y) => frame[y].agent.cid # c.cid
  <2>1. c # NULL /\ frame[x].rq.op \in {"idle", "publish", "puback"}
    BY DEF Settled
  <2>2. \A y \in Channels \ {x} : Busy(y) => frame[y].agent.cid # c.cid
    BY DEF Settled, RunsFor
  <2>3. c \in ClientUpTo(Len(store)) /\ Len(store) \in Nat
    BY <2>1 DEF Core, TypesInv, RegistryTypes
  <2> QED
    BY <2>1, <2>2, <2>3
<1>2. c.cid \in ClientIds /\ c.sess \in 1..Len(store) /\ c.sess # NULL
  BY <1>1, KnownFields
<1>3. ASSUME frame[ch].pc \in Subscribing
      PROVE  frame[ch].agent.cid # c.cid /\ frame[ch].agent.sess # c.sess
  <2>1. frame[ch].rq.op \notin {"idle", "publish", "puback"} /\ Busy(ch)
    BY <1>3, HandlerFacts DEF Serves, Subscribing, Leaving, Busy
  <2>2. frame[ch].agent.cid # c.cid
    BY <1>1, <2>1
  <2>3. frame[ch].agent \in ClientUpTo(Len(store))
    BY <1>3, HandlerFacts DEF Subscribing, Connecting
  <2>4. frame[ch].agent # NULL /\ frame[ch].agent.sess # NULL
    BY <1>1, <2>3, KnownFields
  <2>5. PICK owner : OwnedBy(owner)
    BY DEF AgreeInv, SessionsOwned
  <2>6. owner[c.sess] = c.cid
    BY <1>1, <1>2, <2>5, SeenFacts
  <2>7. owner[frame[ch].agent.sess] = frame[ch].agent.cid
    BY <2>4, <2>5, SeenFacts
  <2> QED
    BY <2>2, <2>6, <2>7
<1> QED
  BY <1>2, <1>3 DEF Writes

\* Whom a publication awaits is a subscriber: its client is in the topics' objects.
LEMMA SubscriberFacts ==
  ASSUME Core, AloneInv, AgreeInv, NEW t, NEW c \in Subscribers(t)
  PROVE  /\ c.chan \in Channels /\ Settled(c.chan) /\ c = param[c.chan] /\ HasSubscribed(c, t)
         /\ c # NULL /\ c.cid \in ClientIds /\ c.sess \in 1..Len(store)
         /\ \A f \in Filters \ raced :
              f \in store[c.sess].subs => map[f] \in 1..Len(objects) /\ map[f] # NULL /\ Entered(map[f], c)
<1>1. PICK x \in Channels : Settled(x) /\ c = param[x] /\ HasSubscribed(c, t)
  BY DEF Subscribers
<1>2. c # NULL /\ c.chan = x
  BY <1>1 DEF Settled, Core, FramesInv
<1>3. c \in ClientUpTo(Len(store)) /\ Len(store) \in Nat
  BY <1>1, <1>2 DEF Core, TypesInv, RegistryTypes
<1>4. c.cid \in ClientIds /\ c.sess \in 1..Len(store)
  BY <1>3, KnownFields
<1>5. \A f \in Filters \ raced :
         f \in store[c.sess].subs => map[f] # NULL /\ Entered(map[f], c)
  BY <1>1, SettledAgree DEF Entered
<1>6. \A f \in Filters : map[f] # NULL => map[f] \in 1..Len(objects)
  BY DEF Core, TypesInv, TopicTypes
<1> QED
  BY <1>1, <1>2, <1>4, <1>5, <1>6

LEMMA SubscriberKept ==
  ASSUME Core, AloneInv, AgreeInv, NEW ch \in Channels, Writes(ch), NEW t, NEW c \in Subscribers(t)
  PROVE  /\ \A o \in 1..Len(objects) : Entered(o, c) => Entered(o, c)'
         /\ store'[c.sess].subs = store[c.sess].subs
<1>1. PICK x : x = c.chan
  OBVIOUS
<1>2. x \in Channels /\ Settled(x) /\ c = param[x]
  BY <1>1, SubscriberFacts
<1>3. /\ \A o \in 1..Len(objects) : objects'[o].clients[c.cid] = objects[o].clients[c.cid]
      /\ store'[c.sess].subs = store[c.sess].subs
  BY <1>2, SettledKept
<1> QED
  BY <1>3 DEF Entered

-----------------------------------------------------------------------------
(* The steps of handle_publish                                             *)

\* Where the fields of a frame come from.
LEMMA GotoKeeps ==
  ASSUME Core, NEW ch \in Channels, NEW h, DOMAIN h = DOMAIN frame[ch], NEW pc, Goto(ch, h, pc)
  PROVE  /\ frame'[ch].pc = pc /\ frame'[ch].rq = h.rq /\ frame'[ch].to = h.to
         /\ frame'[ch].obj = h.obj /\ frame'[ch].objs = h.objs
<1>1. DOMAIN frame[ch] = {"pc", "rq", "agent", "to", "todo", "obj", "source", "objs"}
      /\ DOMAIN frame = Channels
  BY DEF Core, TypesInv, FrameTypes, FrameUpTo
<1>2. frame'[ch] = [h EXCEPT !.pc = pc]
  BY <1>1 DEF Goto
<1>3. DOMAIN h = {"pc", "rq", "agent", "to", "todo", "obj", "source", "objs"}
  BY <1>1
<1> QED
  BY ONLY <1>2, <1>3

LEMMA FrameDomain ==
  ASSUME Core, NEW ch \in Channels
  PROVE  DOMAIN frame[ch] = {"pc", "rq", "agent", "to", "todo", "obj", "source", "objs"}
BY DEF Core, TypesInv, FrameTypes, FrameUpTo

LEMMA GotoObjs ==
  ASSUME Core, NEW ch \in Channels, NEW objs, NEW pc, Goto(ch, [frame[ch] EXCEPT !.objs = objs], pc)
  PROVE  frame'[ch].pc = pc /\ frame'[ch].rq = frame[ch].rq /\ frame'[ch].objs = objs
<1>1. PICK g, h : g = frame[ch] /\ h = [g EXCEPT !.objs = objs]
  OBVIOUS
<1>2. DOMAIN h = DOMAIN g /\ h.objs = objs /\ h.rq = g.rq
  BY <1>1, FrameDomain
<1> QED
  BY <1>1, <1>2, GotoKeeps

LEMMA GotoRest ==
  ASSUME Core, NEW ch \in Channels, NEW to, NEW pc, Goto(ch, [frame[ch] EXCEPT !.to = to], pc)
  PROVE  /\ frame'[ch].pc = pc /\ frame'[ch].rq = frame[ch].rq /\ frame'[ch].to = to
         /\ frame'[ch].obj = frame[ch].obj /\ frame'[ch].objs = frame[ch].objs
<1>1. PICK g, h : g = frame[ch] /\ h = [g EXCEPT !.to = to]
  OBVIOUS
<1>2. DOMAIN h = DOMAIN g /\ h.to = to /\ h.rq = g.rq /\ h.obj = g.obj /\ h.objs = g.objs
  BY <1>1, FrameDomain
<1>3. Goto(ch, h, pc) /\ DOMAIN h = DOMAIN frame[ch]
  BY <1>1, <1>2
<1>4. /\ frame'[ch].pc = pc /\ frame'[ch].rq = h.rq /\ frame'[ch].to = h.to
      /\ frame'[ch].obj = h.obj /\ frame'[ch].objs = h.objs
  BY <1>3, GotoKeeps
<1> QED
  BY ONLY <1>1, <1>2, <1>4

\* The call of publish on object o leads to it.
LEMMA PublishOnVisits ==
  ASSUME Core, NEW ch \in Channels, NEW o, NEW objs, NEW g, PublishOn(ch, g, o),
         g = [frame[ch] EXCEPT !.objs = objs]
  PROVE  /\ frame'[ch].pc \in {"store", "lock"} /\ frame'[ch].rq = frame[ch].rq
         /\ frame'[ch].obj = o /\ frame'[ch].objs = objs
<1>1. PICK f : f = frame[ch]
  OBVIOUS
<1>2. DOMAIN g = DOMAIN f /\ g.objs = objs /\ g.rq = f.rq
  BY <1>1, FrameDomain
<1>3. PICK h : h = [g EXCEPT !.obj = o]
  OBVIOUS
<1>4. DOMAIN h = DOMAIN f /\ h.obj = o /\ h.objs = objs /\ h.rq = f.rq
  BY <1>1, <1>2, <1>3, FrameDomain
<1>5. PICK pc \in {"store", "lock"} : Goto(ch, h, pc)
  BY <1>3 DEF PublishOn
<1> QED
  BY <1>1, <1>4, <1>5, GotoKeeps

LEMMA PublishOnOf ==
  ASSUME Core, NEW ch \in Channels, NEW o, PublishOn(ch, frame[ch], o)
  PROVE  frame'[ch].pc \in {"store", "lock"} /\ frame'[ch].rq = frame[ch].rq /\ frame'[ch].obj = o
<1>1. PICK f, h : f = frame[ch] /\ h = [f EXCEPT !.obj = o]
  OBVIOUS
<1>2. DOMAIN h = DOMAIN f /\ h.obj = o /\ h.rq = f.rq
  BY <1>1, FrameDomain
<1>3. PICK pc \in {"store", "lock"} : Goto(ch, h, pc)
  BY <1>1 DEF PublishOn
<1>4. DOMAIN h = DOMAIN frame[ch]
  BY <1>1, <1>2
<1>5. frame'[ch].pc = pc /\ frame'[ch].rq = h.rq /\ frame'[ch].obj = h.obj
  BY <1>3, <1>4, GotoKeeps
<1> QED
  BY ONLY <1>1, <1>2, <1>3, <1>5

\* What is unchanged in the steps that go from object to object.
LEMMA PublishAhead ==
  ASSUME Core, AloneInv, AgreeInv, NEW ch \in Channels, publish(ch), Races,
         NEW c \in Subscribers(frame[ch].rq.topic)
  PROVE  Busy(ch)' /\ Ahead(frame[ch], c)'
<1>1. PICK t, o : t = frame[ch].rq.topic /\ o = map[t]
  OBVIOUS
<1>2. /\ frame[ch].pc = "publish" /\ UNCHANGED <<store, objects>> /\ raced \subseteq raced'
      /\ t \in Plain
  <2>1. frame[ch].pc = "publish" /\ UNCHANGED <<store, objects>> /\ raced \subseteq raced'
    BY DEF publish, At, topics, Races
  <2> QED
    BY <1>1, <2>1, HandlerFacts DEF Serves, Has, Publishing
<1>3. t \in Filters /\ t \notin Wild
  BY <1>2, FilterAssumption DEF Filters
<1>4. t \in store[c.sess].subs \ raced => o \in 1..Len(objects) /\ o # NULL /\ Entered(o, c)
  BY <1>1, <1>3, SubscriberFacts
<1>5. CASE o = NULL
  <2>1. Goto(ch, frame[ch], "wild")
    BY <1>1, <1>5 DEF publish
  <2>2. frame'[ch].pc = "wild" /\ frame'[ch].rq = frame[ch].rq
    BY <2>1, GotoKeeps
  <2> QED
    BY <1>1, <1>2, <1>4, <1>5, <2>2 DEF Ahead, AtName, Busy
<1>6. CASE o # NULL
  <2>1. PublishOn(ch, frame[ch], o)
    BY <1>1, <1>6 DEF publish
  <2>2. frame'[ch].pc \in {"store", "lock"} /\ frame'[ch].rq = frame[ch].rq /\ frame'[ch].obj = o
    BY <2>1, PublishOnOf
  <2>3. objects[o].filter \notin Wild
    BY <1>1, <1>3, <1>6 DEF Core, ObjectsInv
  <2> QED
    BY <1>1, <1>2, <1>4, <2>2, <2>3 DEF Ahead, AtName, Visiting, AboutToReach, Entered, Busy
<1> QED
  BY <1>5, <1>6

\* The wild topics are listed: those of all filters the subscriber has are among them.
LEMMA WildAhead ==
  ASSUME Core, AloneInv, AgreeInv, NEW ch \in Channels, wild(ch), Races,
         NEW c \in Subscribers(frame[ch].rq.topic), Ahead(frame[ch], c)
  PROVE  Busy(ch)' /\ Ahead(frame[ch], c)'
<1>1. PICK t, objs : /\ t = frame[ch].rq.topic
                     /\ objs = {map[w] : w \in {w \in Wild : map[w] # NULL /\ <<w, t>> \in Matching}}
  OBVIOUS
<1>2. /\ frame[ch].pc = "wild" /\ UNCHANGED <<store, objects>> /\ raced \subseteq raced'
      /\ Goto(ch, [frame[ch] EXCEPT !.objs = objs], "wild_next")
  BY <1>1 DEF wild, At, topics, Races
<1>3. frame'[ch].pc = "wild_next" /\ frame'[ch].objs = objs
  BY <1>2, GotoObjs
<1>4. t \notin store[c.sess].subs \ raced
  BY <1>1, <1>2 DEF Ahead, AtName, AboutToReach
<1>5. PICK f \in store[c.sess].subs \ raced : <<f, t>> \in Matching
  BY <1>1, <1>4, SubscriberFacts DEF HasSubscribed
<1>6. f \in Wild /\ f \in Filters
  BY <1>5, FilterAssumption DEF Filters
<1>7. map[f] # NULL /\ Entered(map[f], c)
  BY <1>1, <1>5, <1>6, SubscriberFacts
<1>8. map[f] \in objs
  BY <1>1, <1>5, <1>6, <1>7
<1> QED
  BY <1>2, <1>3, <1>7, <1>8 DEF Ahead, AtName, Visiting, Entered, Busy

LEMMA WildNextAhead ==
  ASSUME Core, NEW ch \in Channels, wild_next(ch), Races, NEW c, Ahead(frame[ch], c)
  PROVE  Busy(ch)' /\ Ahead(frame[ch], c)'
<1>1. frame[ch].pc = "wild_next" /\ UNCHANGED <<store, objects>>
  BY DEF wild_next, At, topics
<1>2. PICK p \in frame[ch].objs : Entered(p, c)
  BY <1>1 DEF Ahead, AtName, AboutToReach, Visiting
<1>3. PICK o \in frame[ch].objs : PublishOn(ch, [frame[ch] EXCEPT !.objs = frame[ch].objs \ {o}], o)
  BY <1>2 DEF wild_next
<1>4. PICK objs, g : /\ objs = frame[ch].objs \ {o} /\ PublishOn(ch, g, o)
                     /\ g = [frame[ch] EXCEPT !.objs = objs]
  BY <1>3
<1>5. /\ frame'[ch].pc \in {"store", "lock"} /\ frame'[ch].rq = frame[ch].rq
      /\ frame'[ch].obj = o /\ frame'[ch].objs = objs
  BY <1>4, PublishOnVisits
<1>6. objects[o].filter \in Wild
  BY <1>1, HandlerFacts DEF Core, ListedInv, Serves, Publishing
<1> QED
  BY <1>1, <1>2, <1>4, <1>5, <1>6 DEF Ahead, AtName, Visiting, AboutToReach, Entered, Busy

\* The retained message is stored before the topic's mutex is taken.
LEMMA StoreAhead ==
  ASSUME Core, AloneInv, AgreeInv, NEW ch \in Channels, store_retained(ch), Races,
         NEW c \in Subscribers(frame[ch].rq.topic), Ahead(frame[ch], c)
  PROVE  Busy(ch)' /\ Ahead(frame[ch], c)'
<1>1. frame[ch].pc = "store" /\ Goto(ch, frame[ch], "lock") /\ raced \subseteq raced'
  BY DEF store_retained, Step, At, Races
<1>2. Writes(ch)
  BY MutexWrites
<1>3. /\ frame'[ch].pc = "lock" /\ frame'[ch].rq = frame[ch].rq
      /\ frame'[ch].obj = frame[ch].obj /\ frame'[ch].objs = frame[ch].objs
  BY <1>1, GotoKeeps
<1>4. frame[ch].obj \in 1..Len(objects) /\ frame[ch].objs \subseteq 1..Len(objects)
  BY <1>1, HandlerFacts DEF Has, AtObject
<1>5. /\ \A o \in 1..Len(objects) : Entered(o, c) => Entered(o, c)'
      /\ store'[c.sess].subs = store[c.sess].subs
  BY <1>2, SubscriberKept
<1>6. objects'[frame[ch].obj].filter = objects[frame[ch].obj].filter
  BY <1>2, <1>4 DEF Writes
<1>7. AtName(frame[ch])' <=> AtName(frame[ch])
  BY <1>1, <1>3, <1>6 DEF AtName, Visiting
<1>8. AboutToReach(frame[ch], c) => AboutToReach(frame[ch], c)'
  <2>1. PICK o \in 1..Len(objects) : o = frame[ch].obj
    BY <1>4
  <2>2. AboutToReach(frame[ch], c) => objects[o].clients[c.cid] = c
    BY <1>1, <2>1 DEF AboutToReach, Entered
  <2>3. objects[o].clients[c.cid] = c => objects'[o].clients[c.cid] = c
    BY <1>5 DEF Entered
  <2>4. frame'[ch].pc = "lock" /\ frame'[ch].obj = o
    BY <1>3, <2>1
  <2> QED
    BY ONLY <2>2, <2>3, <2>4 DEF AboutToReach, Entered
<1>9. (\E o \in frame[ch].objs : Entered(o, c)) => (\E o \in frame[ch].objs : Entered(o, c))'
  BY <1>3, <1>4, <1>5 DEF Entered
<1> QED
  BY <1>1, <1>3, <1>5, <1>7, <1>8, <1>9 DEF Ahead, Busy

\* The clients of the topic are read, or one of them gets the message.
LEMMA VisitSteps ==
  ASSUME Core, NEW ch \in Channels, lock(ch) \/ deliver(ch), frame[ch].rq.op = "publish"
  PROVE  /\ frame[ch].pc \in {"lock", "deliver"}
         /\ frame'[ch].rq = frame[ch].rq /\ frame'[ch].obj = frame[ch].obj /\ frame'[ch].objs = frame[ch].objs
         /\ frame'[ch].pc = IF frame'[ch].to = {} THEN AfterPublish(ch) ELSE "deliver"
         /\ frame[ch].pc = "lock" => frame'[ch].to = Entries(frame[ch].obj)
         /\ frame[ch].pc = "deliver" => frame'[ch].to \subseteq frame[ch].to
         /\ AfterPublish(ch) = IF AtWild(ch) THEN "wild_next" ELSE "wild"
         /\ Busy(ch)'
<1>1. PICK to, pc : /\ Goto(ch, [frame[ch] EXCEPT !.to = to], pc)
                    /\ pc = IF to = {} THEN AfterPublish(ch) ELSE "deliver"
                    /\ frame[ch].pc \in {"lock", "deliver"}
                    /\ frame[ch].pc = "lock" => to = Entries(frame[ch].obj)
                    /\ frame[ch].pc = "deliver" => to \subseteq frame[ch].to
  <2>1. CASE lock(ch)
    <3>1. frame[ch].pc = "lock"
      BY <2>1 DEF lock, At
    <3>2. PICK to : to = Entries(frame[ch].obj)
      OBVIOUS
    <3>3. PICK pc : pc = IF to = {} THEN AfterPublish(ch) ELSE "deliver"
      OBVIOUS
    <3>4. Goto(ch, [frame[ch] EXCEPT !.to = to], pc)
      BY <2>1, <3>2, <3>3 DEF lock
    <3> QED
      BY <3>1, <3>2, <3>3, <3>4
  <2>2. CASE deliver(ch)
    <3>1. frame[ch].pc = "deliver"
      BY <2>2 DEF deliver, At
    <3>2. PICK c \in frame[ch].to :
            Goto(ch, [frame[ch] EXCEPT !.to = frame[ch].to \ {c}],
                 IF frame[ch].to \ {c} = {} THEN AfterPublish(ch) ELSE "deliver")
      BY <2>2 DEF deliver
    <3>3. PICK to : to = frame[ch].to \ {c}
      OBVIOUS
    <3>4. PICK pc : pc = IF to = {} THEN AfterPublish(ch) ELSE "deliver"
      OBVIOUS
    <3>5. Goto(ch, [frame[ch] EXCEPT !.to = to], pc) /\ to \subseteq frame[ch].to
      BY <3>2, <3>3, <3>4
    <3> QED
      BY <3>1, <3>4, <3>5
  <2> QED
    BY <2>1, <2>2
<1>2. /\ frame'[ch].pc = pc /\ frame'[ch].rq = frame[ch].rq /\ frame'[ch].to = to
      /\ frame'[ch].obj = frame[ch].obj /\ frame'[ch].objs = frame[ch].objs
  BY <1>1, GotoRest
<1>3. AfterPublish(ch) = IF AtWild(ch) THEN "wild_next" ELSE "wild"
  BY <1>1, AfterPublished
<1> QED
  BY <1>1, <1>2, <1>3 DEF Busy

LEMMA VisitAhead ==
  ASSUME Core, AloneInv, AgreeInv, NEW ch \in Channels, lock(ch) \/ deliver(ch), Races,
         frame[ch].rq.op = "publish",
         NEW c \in Subscribers(frame[ch].rq.topic), Ahead(frame[ch], c), c \notin Reached(ch)
  PROVE  Ahead(frame[ch], c)'
<1>1. /\ frame[ch].pc \in {"lock", "deliver"}
      /\ frame'[ch].rq = frame[ch].rq /\ frame'[ch].obj = frame[ch].obj /\ frame'[ch].objs = frame[ch].objs
      /\ frame'[ch].pc = IF frame'[ch].to = {} THEN AfterPublish(ch) ELSE "deliver"
      /\ frame[ch].pc = "lock" => frame'[ch].to = Entries(frame[ch].obj)
      /\ AfterPublish(ch) = IF AtWild(ch) THEN "wild_next" ELSE "wild"
  BY VisitSteps
<1>2. Writes(ch) /\ raced \subseteq raced'
  BY MutexWrites DEF Races
<1>3. frame[ch].obj \in 1..Len(objects) /\ frame[ch].objs \subseteq 1..Len(objects)
  BY <1>1, HandlerFacts DEF Has, AtObject
<1>4. /\ \A o \in 1..Len(objects) : Entered(o, c) => Entered(o, c)'
      /\ store'[c.sess].subs = store[c.sess].subs
  BY <1>2, SubscriberKept
<1>5. objects'[frame[ch].obj].filter = objects[frame[ch].obj].filter
  BY <1>2, <1>3 DEF Writes
<1>6. AtName(frame[ch]) <=> ~AtWild(ch)
  BY <1>1 DEF AtName, Visiting, AtWild
<1>7. AtName(frame[ch])' <=> ~AtWild(ch)
  BY <1>1, <1>5 DEF AtName, Visiting, AtWild
<1>8. AboutToReach(frame[ch], c) => c \in frame'[ch].to
  <2>1. c \in Entries(frame[ch].obj) \/ ~Entered(frame[ch].obj, c)
    BY SubscriberFacts DEF Entries, Entered
  <2> QED
    BY <1>1, <2>1 DEF AboutToReach, Reached
<1>9. AboutToReach(frame[ch], c) => AboutToReach(frame[ch], c)'
  BY <1>1, <1>8 DEF AboutToReach
<1>10. (\E o \in frame[ch].objs : Entered(o, c)) => (\E o \in frame[ch].objs : Entered(o, c))'
  BY <1>1, <1>3, <1>4 DEF Entered
<1>11. frame[ch].pc # "publish"
  BY <1>1
<1> QED
  BY <1>1, <1>2, <1>4, <1>6, <1>7, <1>9, <1>10, <1>11 DEF Ahead

-----------------------------------------------------------------------------
(* DueInv, step by step                                                    *)

\* What History says of due.
Counts ==
  due' = [ch \in Channels |->
            IF frame'[ch].rq.op # "publish" THEN {}
            ELSE LET now == Subscribers(frame[ch].rq.topic)'
                 IN  IF Busy(ch) THEN now \cap (due[ch] \ Reached(ch)) ELSE now]

LEMMA Counted ==
  ASSUME NEW x \in Channels, Counts, NEW c \in due'[x]
  PROVE  /\ frame'[x].rq.op = "publish" /\ c \in Subscribers(frame[x].rq.topic)'
         /\ Busy(x) => c \in due[x] /\ c \notin Reached(x)
<1>1. due'[x] = IF frame'[x].rq.op # "publish" THEN {}
                ELSE LET now == Subscribers(frame[x].rq.topic)'
                     IN  IF Busy(x) THEN now \cap (due[x] \ Reached(x)) ELSE now
  BY DEF Counts
<1> QED
  BY <1>1

LEMMA PublishBusy ==
  ASSUME Core, NEW ch \in Channels, frame[ch].rq.op = "publish"
  PROVE  /\ Busy(ch) /\ frame[ch].pc \in {"publish", "wild", "wild_next", "store", "lock", "deliver"}
         /\ frame[ch].rq.topic \in Plain
<1>1. Serves(frame[ch]) /\ Has(frame[ch]) /\ frame[ch].pc \in Places
  BY HandlerFacts
<1>2. frame[ch].pc # "idle"
  BY <1>1, IdleFrame DEF Has
<1> QED
  BY <1>1, <1>2 DEF Serves, Has, Busy, Places, Connecting, Publishing, Passing, Leaving

\* The step of another handler, or none of this one's.
LEMMA AwaitsSame ==
  ASSUME Core, AloneInv, AgreeInv, NEW ch \in Channels, Writes(ch), Races, Counts,
         NEW x \in Channels, frame'[x] = frame[x], Awaits(x)
  PROVE  Awaits(x)'
<1>1. PICK fr : fr = frame[x] /\ fr = frame'[x]
  OBVIOUS
<1>2. SUFFICES ASSUME NEW c \in due'[x]
               PROVE  /\ fr.rq.op = "publish"
                      /\ c \in Subscribers(frame[x].rq.topic)'
                      /\ Ahead(frame[x], c)'
  BY <1>1 DEF Awaits
<1>3. fr.rq.op = "publish" /\ c \in Subscribers(frame[x].rq.topic)' /\ (Busy(x) => c \in due[x])
  BY <1>1, Counted
<1>4. /\ Busy(x) /\ fr.pc \in {"publish", "wild", "wild_next", "store", "lock", "deliver"}
      /\ Visiting(fr) => fr.obj \in 1..Len(objects)
      /\ fr.objs \subseteq 1..Len(objects)
  <2>1. Busy(x) /\ fr.pc \in {"publish", "wild", "wild_next", "store", "lock", "deliver"}
    BY <1>1, <1>3, PublishBusy
  <2>2. fr.objs \subseteq 1..Len(objects) /\ fr.obj \in 1..Len(objects) \cup {NULL} /\ Has(fr)
    BY <1>1, HandlerFacts
  <2> QED
    BY <2>1, <2>2 DEF Has, AtObject, Visiting
<1>5. c \in Subscribers(fr.rq.topic) /\ Ahead(fr, c)
  BY <1>1, <1>3, <1>4 DEF Awaits
<1>6. /\ \A o \in 1..Len(objects) : objects[o].clients[c.cid] = c => objects'[o].clients[c.cid] = c
      /\ store'[c.sess].subs = store[c.sess].subs
  BY <1>5, SubscriberKept DEF Entered
<1>7. /\ \A o \in 1..Len(objects) : objects'[o].filter = objects[o].filter
      /\ raced \subseteq raced'
  BY DEF Writes, Races
<1>8. AtName(frame[x])' <=> AtName(fr)
  BY <1>1, <1>4, <1>7 DEF AtName, Visiting
<1>9. AboutToReach(fr, c) => AboutToReach(frame[x], c)'
  BY <1>1, <1>4, <1>6 DEF AboutToReach, Entered, Visiting
<1>10. (\E o \in fr.objs : Entered(o, c)) => (\E o \in frame[x].objs : Entered(o, c))'
  BY <1>1, <1>4, <1>6 DEF Entered
<1>11. Ahead(frame[x], c)'
  BY <1>1, <1>5, <1>6, <1>7, <1>8, <1>9, <1>10 DEF Ahead
<1> QED
  BY <1>3, <1>11

\* A handle_publish goes on by its own steps.
LEMMA PublishGoesOn ==
  ASSUME Core, NEW ch \in Channels, Continue(ch), frame[ch].rq.op = "publish"
  PROVE  publish(ch) \/ wild(ch) \/ wild_next(ch) \/ store_retained(ch) \/ lock(ch) \/ deliver(ch)
<1>1. frame[ch].pc \in {"publish", "wild", "wild_next", "store", "lock", "deliver"}
  BY PublishBusy
<1>2. ~(\/ get_client(ch) \/ delete_client(ch) \/ take_over(ch) \/ close_old(ch) \/ session(ch)
        \/ new_session(ch) \/ reg_client(ch) \/ set_param(ch) \/ restore(ch) \/ resend(ch))
  BY <1>1 DEF get_client, delete_client, take_over, close_old, session, new_session, reg_client,
              set_param, restore, resend, Step, At
<1>3. ~(\/ get_topic_ptr_to_subscribe(ch) \/ subscribe(ch) \/ add_subscription(ch) \/ retained(ch)
        \/ retained_wild(ch) \/ retained_of(ch) \/ read_retained(ch) \/ send_retained(ch))
  BY <1>1 DEF get_topic_ptr_to_subscribe, subscribe, add_subscription, retained, retained_wild,
              retained_of, read_retained, send_retained, Step, At
<1>4. ~(\/ puback(ch) \/ will(ch) \/ will_id(ch) \/ unsubscribe_all(ch) \/ lookup(ch)
        \/ unsubscribe(ch) \/ delete_subscription(ch) \/ empty(ch) \/ erase(ch)
        \/ delete_session(ch) \/ deregister(ch))
  BY <1>1 DEF puback, will, will_id, unsubscribe_all, lookup, unsubscribe, delete_subscription,
              empty, erase, delete_session, deregister, Step, At
<1> QED
  BY <1>2, <1>3, <1>4 DEF Continue

\* As long as somebody is awaited it does not return.
LEMMA PublishStays ==
  ASSUME Core, AloneInv, AgreeInv, NEW ch \in Channels, Continue(ch), Races,
         frame[ch].rq.op = "publish",
         NEW c \in Subscribers(frame[ch].rq.topic), Ahead(frame[ch], c)
  PROVE  Busy(ch)' /\ (c \notin Reached(ch) => Ahead(frame[ch], c)')
<1>1. CASE publish(ch)
  BY <1>1, PublishAhead
<1>2. CASE wild(ch)
  BY <1>2, WildAhead
<1>3. CASE wild_next(ch)
  BY <1>3, WildNextAhead
<1>4. CASE store_retained(ch)
  BY <1>4, StoreAhead
<1>5. CASE lock(ch) \/ deliver(ch)
  BY <1>5, VisitSteps, VisitAhead
<1> QED
  BY <1>1, <1>2, <1>3, <1>4, <1>5, PublishGoesOn

LEMMA ContinueBusy ==
  ASSUME NEW ch \in Channels, Continue(ch)
  PROVE  Busy(ch)
<1>1. CASE \/ get_client(ch) \/ delete_client(ch) \/ take_over(ch) \/ close_old(ch) \/ session(ch)
           \/ new_session(ch) \/ reg_client(ch) \/ set_param(ch) \/ restore(ch) \/ resend(ch)
  BY <1>1 DEF get_client, delete_client, take_over, close_old, session, new_session, reg_client,
              set_param, restore, resend, Step, At, Busy
<1>2. CASE \/ get_topic_ptr_to_subscribe(ch) \/ subscribe(ch) \/ add_subscription(ch) \/ retained(ch)
           \/ retained_wild(ch) \/ retained_of(ch) \/ read_retained(ch) \/ send_retained(ch)
  BY <1>2 DEF get_topic_ptr_to_subscribe, subscribe, add_subscription, retained, retained_wild,
              retained_of, read_retained, send_retained, Step, At, Busy
<1>3. CASE \/ store_retained(ch) \/ lock(ch) \/ deliver(ch) \/ puback(ch)
           \/ publish(ch) \/ wild(ch) \/ wild_next(ch) \/ will(ch) \/ will_id(ch)
  BY <1>3 DEF store_retained, lock, deliver, puback, publish, wild, wild_next, will, will_id,
              Step, At, Busy
<1>4. CASE \/ unsubscribe_all(ch) \/ lookup(ch) \/ unsubscribe(ch) \/ delete_subscription(ch)
           \/ empty(ch) \/ erase(ch) \/ delete_session(ch) \/ deregister(ch)
  BY <1>4 DEF unsubscribe_all, lookup, unsubscribe, delete_subscription, empty, erase,
              delete_session, deregister, Step, At, Busy
<1> QED
  BY <1>1, <1>2, <1>3, <1>4 DEF Continue

LEMMA AwaitsOwn ==
  ASSUME Core, AloneInv, AgreeInv, NEW ch \in Channels, Continue(ch), Races, Counts, Awaits(ch)
  PROVE  Awaits(ch)'
<1>1. SUFFICES ASSUME NEW c \in due'[ch]
               PROVE  Ahead(frame[ch], c)'
  BY Counted DEF Awaits
<1>2. Busy(ch)
  BY ContinueBusy
<1>3. c \in due[ch] /\ c \notin Reached(ch)
  BY <1>2, Counted
<1>4. frame[ch].rq.op = "publish" /\ c \in Subscribers(frame[ch].rq.topic) /\ Ahead(frame[ch], c)
  BY <1>3 DEF Awaits
<1> QED
  BY <1>3, <1>4, PublishStays

\* Where handlers begin.
LEMMA BeginsAtPublish ==
  ASSUME Core, Core', NEW ch \in Channels,
         \/ channel_read(ch) \/ handle_connect(ch) \/ handle_puback(ch)
         \/ handle_channel_disconnected(ch) \/ ConnectionLost(ch)
  PROVE  /\ Writes(ch) /\ Others(ch)
         /\ \/ UNCHANGED frame
            \/ ~Busy(ch) /\ (frame'[ch].rq.op = "publish" => frame'[ch].pc = "publish")
<1>1. UNCHANGED <<store, objects>>
  BY DEF channel_read, handle_connect, handle_puback, handle_channel_disconnected, ConnectionLost, topics
<1>2. Writes(ch)
  BY <1>1, StillWrites
<1>3. CASE channel_read(ch)
  <2>1. ~Busy(ch) /\ Others(ch)
        /\ (UNCHANGED frame \/ frame'[ch].pc \in {"to_subscribe", "lookup", "publish", "unsubscribe_all"})
    BY <1>3, ReadMoves
  <2>2. Serves(frame[ch])'
    BY DEF Core, FramesInv
  <2> QED
    BY <1>2, <2>1, <2>2 DEF Serves, Leaving
<1>4. CASE handle_connect(ch) \/ handle_puback(ch) \/ handle_channel_disconnected(ch)
  BY <1>2, <1>4, ConnectMoves, PubackMoves, DisconnectedMoves
<1>5. CASE ConnectionLost(ch)
  BY <1>2, <1>5, LostMoves DEF Others
<1> QED
  BY <1>3, <1>4, <1>5

LEMMA AwaitsBegun ==
  ASSUME Core, NEW ch \in Channels, ~Busy(ch), Counts,
         frame'[ch].rq.op = "publish" => frame'[ch].pc = "publish"
  PROVE  Awaits(ch)'
BY Counted DEF Awaits, Ahead, AtName

LEMMA DueNext == Core /\ Core' /\ AloneInv /\ AgreeInv /\ DueInv /\ [Next]_vars => DueInv'
<1> SUFFICES ASSUME Core, Core', AloneInv, AgreeInv, DueInv, [Next]_vars
             PROVE  DueInv'
  OBVIOUS
<1>1. CASE Next
  <2>1. Counts /\ Races
    BY <1>1 DEF Next, History, Counts, Races
  <2>2. PICK ch \in Channels :
          \/ channel_read(ch) \/ handle_connect(ch) \/ handle_puback(ch)
          \/ handle_channel_disconnected(ch) \/ ConnectionLost(ch)
          \/ Continue(ch)
    BY <1>1 DEF Next
  <2>3. Writes(ch) /\ Others(ch)
    BY <2>2, BeginsAtPublish, ContinueWrites, ContinueOthers
  <2>4. ASSUME NEW x \in Channels, frame'[x] = frame[x]
        PROVE  Awaits(x)'
    BY <2>1, <2>3, <2>4, AwaitsSame DEF DueInv
  <2>5. frame'[ch] = frame[ch] \/ Awaits(ch)'
    <3>1. CASE Continue(ch)
      BY <2>1, <3>1, AwaitsOwn DEF DueInv
    <3>2. CASE ~Continue(ch)
      BY <2>1, <2>2, <3>2, BeginsAtPublish, AwaitsBegun
    <3> QED
      BY <3>1, <3>2
  <2> QED
    BY <2>3, <2>4, <2>5 DEF DueInv, Others
<1>2. CASE UNCHANGED vars
  <2>1. UNCHANGED <<chan, param, store, objects, frame, contended, raced, due>>
    BY <1>2 DEF vars, program, outside, registries, topics, history
  <2>2. ASSUME NEW x \in Channels, NEW t
        PROVE  /\ Settled(x)' = Settled(x)
               /\ HasSubscribed(param[x], t)' = HasSubscribed(param[x], t)
    BY <2>1 DEF Settled, HasSubscribed, RunsFor, Busy
  <2>3. ASSUME NEW x \in Channels, NEW t, t = frame[x].rq.topic
        PROVE  Subscribers(frame[x].rq.topic)' = Subscribers(t)
    BY <2>1, <2>2, <2>3 DEF Subscribers
  <2>4. ASSUME NEW x \in Channels, NEW c
        PROVE  Ahead(frame[x], c)' = Ahead(frame[x], c)
    BY <2>1 DEF Ahead, AtName, Visiting, AboutToReach, Entered
  <2> QED
    BY <2>1, <2>3, <2>4 DEF DueInv, Awaits
<1> QED
  BY <1>1, <1>2

\* A handle_publish that returns awaits nobody.
LEMMA ReturnsReached ==
  ASSUME Core, Core', AloneInv, AgreeInv, DueInv, [Next]_vars,
         NEW ch \in Channels, frame[ch].rq.op = "publish", ~Busy(ch)'
  PROVE  due[ch] = {}
<1>1. Busy(ch)
  BY PublishBusy
<1>2. frame'[ch] # frame[ch]
  BY <1>1 DEF Busy
<1>3. Next
  BY <1>2 DEF vars, program
<1>4. Races
  BY <1>3 DEF Next, History, Races
<1>5. PICK x \in Channels :
        \/ channel_read(x) \/ handle_connect(x) \/ handle_puback(x)
        \/ handle_channel_disconnected(x) \/ ConnectionLost(x)
        \/ Continue(x)
  BY <1>3 DEF Next
<1>6. x = ch
  BY <1>2, <1>5, BeginsAtPublish, ContinueOthers DEF Others
<1>7. Continue(ch)
  BY <1>1, <1>2, <1>5, <1>6, BeginsAtPublish
<1>8. ASSUME NEW c \in due[ch]
      PROVE  FALSE
  <2>1. c \in Subscribers(frame[ch].rq.topic) /\ Ahead(frame[ch], c)
    BY DEF DueInv, Awaits
  <2> QED
    BY <1>4, <1>7, <2>1, PublishStays
<1> QED
  BY <1>8

\* handle_publish and topic::publish (mqtt_server.cpp:323-343, topic.cpp:37-53): when the
\* handler of a publication returns it has passed the message to every client with an open
\* channel that had a matching filter, and no other handler at work for it, for as long as it
\* ran; whatever the handlers of other clients subscribed, unsubscribed, connected and ended in
\* between. None is passed over because it goes from the topic of the name to the wild ones
\* without keeping _topic_mutex, or because an object leaves the map on the way. As in
\* RegistriesAgree, an identifier that had two handlers at a time and a filter that lost a
\* subscriber are exempt.
THEOREM PublicationsReach == Spec => ReachesSubscribers
<1>1. Init => AloneInv /\ AgreeInv /\ DueInv
  <2>1. Init => DueInv
    BY DEF Init, DueInv, Awaits
  <2> QED
    BY <2>1, AloneInit, AgreeInit
<1>2. IInv => Core
  BY DEF IInv
<1>3. IInv' => Core'
  BY <1>2, PTL
<1>4. IInv /\ IInv' /\ AloneInv /\ AgreeInv /\ DueInv /\ [Next]_vars => AloneInv' /\ AgreeInv' /\ DueInv'
  BY <1>2, <1>3, AloneNext, AgreeNext, DueNext
<1>5. IInv /\ IInv' /\ AloneInv /\ AgreeInv /\ DueInv /\ [Next]_vars
      => [\A ch \in Channels : frame[ch].rq.op = "publish" /\ ~Busy(ch)' => due[ch] = {}]_vars
  BY <1>2, <1>3, ReturnsReached
<1> QED
  BY <1>1, <1>4, <1>5, Invariance, PTL DEF Spec, ReachesSubscribers

=============================================================================
