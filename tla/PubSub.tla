------------------------------- MODULE PubSub -------------------------------
(***************************************************************************)
(* What the broker promises its clients, without channels or topic         *)
(* objects: which clients are connected, what each has subscribed to, and  *)
(* which copies every step sends.  The sets of topics, filters and matching*)
(* pairs are those of module Broker.                                       *)
(***************************************************************************)
EXTENDS Integers

CONSTANTS ClientIds, Topics, WildFilters, Matching, QoSes, Publications, Empty,
          Wills, NULL

VARIABLES
  registered,   \* per client: NULL, or the clean flag and the will of its CONNECT
  online,       \* the clients a packet can reach
  saved,        \* per client: NULL, or its subscriptions, kept while it is away
  retained,     \* per topic: NULL, or the retained message
  delivered     \* the copies the last step sent

vars == <<registered, online, saved, retained, delivered>>

Filters == Topics \cup WildFilters
NoSubscription == [f \in Filters |-> NULL]

Init ==
  /\ registered = [i \in ClientIds |-> NULL]
  /\ online = {}
  /\ saved = [i \in ClientIds |-> NULL]
  /\ retained = [t \in Topics |-> NULL]
  /\ delivered = {}

Matches(f, t) == f = t \/ <<f, t>> \in Matching

\* The copy of a message for client i by its subscription to f.
Copy(i, f, q, topic, qos, payload, retain) ==
  [to |-> i, via |-> f, topic |-> topic, payload |-> payload,
   qos |-> IF q < qos THEN q ELSE qos, retain |-> retain]

\* One copy for every connected client and every filter of fs it subscribed to.
CopiesFor(msg, fs) ==
  {Copy(x[1], x[2], saved[x[1]][x[2]], msg.topic, msg.qos, msg.payload, FALSE) :
     x \in {y \in online' \X fs : /\ Matches(y[2], msg.topic)
                                  /\ saved[y[1]] # NULL
                                  /\ saved[y[1]][y[2]] # NULL}}

\* The retained messages a client is given for its subscriptions to fs.
RetainedFor(i, fs) ==
  {Copy(i, x[1], saved'[i][x[1]], x[2], retained[x[2]].qos, retained[x[2]].payload, TRUE) :
     x \in {y \in fs \X Topics : Matches(y[1], y[2]) /\ retained[y[2]] # NULL}}

\* A retained message replaces the one before; an empty one removes it.  A topic
\* that nobody has subscribed to and that has none may lose it.
Retain(msg) ==
  LET kept == IF msg.payload = Empty THEN NULL
              ELSE [payload |-> msg.payload, qos |-> msg.qos]
  IN  IF msg.retain
        THEN \/ retained' = [retained EXCEPT ![msg.topic] = kept]
             \/ /\ retained[msg.topic] = NULL
                /\ \A i \in online' : saved[i][msg.topic] = NULL
                /\ retained' = retained
        ELSE retained' = retained

\* CONNECT: the client's subscriptions are those of its stored session, unless it
\* asks for a clean one.  Connections may end with this step.
Connect(i, clean, will) ==
  LET resumed == ~clean /\ saved[i] # NULL IN
  /\ registered' = [registered EXCEPT ![i] = [clean |-> clean, will |-> will]]
  /\ online' \subseteq online \cup {i}
  /\ saved' = [saved EXCEPT ![i] = IF resumed THEN @ ELSE NoSubscription]
  /\ retained' = retained
  /\ delivered' = IF resumed /\ i \in online'
                    THEN RetainedFor(i, {f \in Filters : saved[i][f] # NULL})
                    ELSE {}

Subscribe(i, rq) ==
  /\ saved' = [saved EXCEPT ![i] =
                 [f \in Filters |-> IF f \in DOMAIN rq THEN rq[f] ELSE @[f]]]
  /\ delivered' = RetainedFor(i, DOMAIN rq)
  /\ retained' = retained

Unsubscribe(i, fs) ==
  /\ delivered' = {}
  /\ retained' = retained
  /\ saved' = [saved EXCEPT ![i] = [f \in Filters |-> IF f \in fs THEN NULL ELSE @[f]]]

Publish(msg) ==
  /\ Retain(msg)
  /\ delivered' = CopiesFor(msg, Filters)

\* Nothing of consequence to the clients, after which nothing is on its way.
Quiet ==
  /\ delivered' = {}
  /\ UNCHANGED <<saved, retained>>

\* What connected clients do.
Traffic ==
  /\ UNCHANGED <<registered, online>>
  /\ \/ Quiet
     \/ /\ online # {}
        /\ saved' = saved
        /\ \E msg \in Publications : Publish(msg)
     \/ \E i \in online, fs \in SUBSET Filters :
          Unsubscribe(i, fs) \/ \E rq \in [fs -> QoSes] : Subscribe(i, rq)

\* The connection of a client breaks, or is about to be closed.
GoesOffline(i) ==
  /\ i \in online
  /\ online' = online \ {i}
  /\ delivered' = {}
  /\ UNCHANGED <<registered, saved, retained>>

\* The broker forgets client i, and its session if it is a clean one.
Forget(i) ==
  /\ registered[i] # NULL
  /\ registered' = [registered EXCEPT ![i] = NULL]
  /\ online' = online \ {i}
  /\ saved' = IF registered[i].clean THEN [saved EXCEPT ![i] = NULL] ELSE saved

\* DISCONNECT: no will.
Leave(i) ==
  /\ i \in online
  /\ delivered' = {}
  /\ Forget(i)
  /\ retained' = retained

\* The end of a connection without DISCONNECT: the will, for the subscribers of
\* the topic itself.
Lost(i) ==
  /\ Forget(i)
  /\ LET will == registered[i].will
     IN  IF will = NULL
           THEN retained' = retained /\ delivered' = {}
           ELSE Retain(will) /\ delivered' = CopiesFor(will, Topics)

Next ==
  \/ Traffic
  \/ \E i \in ClientIds :
       \/ GoesOffline(i)
       \/ Leave(i)
       \/ Lost(i)
       \/ \E clean \in BOOLEAN, will \in Wills : Connect(i, clean, will)

Spec == Init /\ [][Next]_vars

=============================================================================
