------------------------------ MODULE MCThreads ------------------------------
(***************************************************************************)
(* A small instance of BrokerThreads.                                      *)
(***************************************************************************)
EXTENDS BrokerThreads

Connect(i, clean) == [op |-> "connect", cid |-> i, clean |-> clean, will |-> NULL]
ConnectWill(i, t) == [op |-> "connect", cid |-> i, clean |-> TRUE, will |-> t]
Subscribe(f) == [op |-> "subscribe", filters |-> {f}]
Unsubscribe(f) == [op |-> "unsubscribe", filters |-> {f}]
Publish(t, retain) == [op |-> "publish", topic |-> t, retain |-> retain]
Disconnect == [op |-> "disconnect"]
Lost == [op |-> "lost"]

Script(a, b, c) == [ch \in {"x", "y", "z"} |-> CASE ch = "x" -> a [] ch = "y" -> b [] OTHER -> c]

MCMatching == {<<"w", "t">>}

MCScripts == {
  \* A subscriber, one that comes and goes, and a publisher.
  Script(<<Connect("a", TRUE), Subscribe("t")>>,
         <<Connect("b", TRUE), Subscribe("t"), Unsubscribe("t")>>,
         <<Connect("c", TRUE), Publish("t", "no")>>),
  Script(<<Connect("a", TRUE), Subscribe("w")>>,
         <<Connect("b", TRUE), Subscribe("w"), Disconnect>>,
         <<Connect("c", TRUE), Unsubscribe("t"), Publish("t", "no")>>),
  \* Subscription to both kinds of topic while a message is retained and cleared.
  Script(<<Connect("a", TRUE), Subscribe("t"), Subscribe("w")>>,
         <<Connect("b", TRUE), Publish("t", "store")>>,
         <<Connect("c", TRUE), Publish("t", "clear")>>),
  \* A subscriber publishes to a topic whose mutex is held for it.
  Script(<<Connect("a", TRUE), Subscribe("w"), Publish("t", "no")>>,
         <<Connect("b", TRUE), Publish("t", "no"), Publish("t", "no")>>,
         <<Subscribe("t")>>),
  \* Wills, and a connection that breaks.
  Script(<<ConnectWill("a", "t"), Subscribe("t"), Lost>>,
         <<Connect("b", TRUE), Subscribe("t")>>,
         <<ConnectWill("c", "t"), Lost>>),
  \* A session is resumed on another channel.
  Script(<<Connect("a", FALSE), Subscribe("t")>>,
         <<Connect("a", FALSE), Disconnect>>,
         <<Connect("b", TRUE), Publish("t", "store")>>),
  \* The entry of a client that was taken over gets more than its session can hold.
  Script(<<Connect("a", TRUE), Subscribe("t")>>,
         <<Connect("a", TRUE)>>,
         <<Connect("b", TRUE), Publish("t", "no"), Publish("t", "no")>>),
  \* A second CONNECT on a channel, next to other connections of both clients.
  Script(<<Connect("a", TRUE), Connect("b", TRUE)>>,
         <<Connect("a", TRUE), Lost>>,
         <<Connect("b", TRUE)>>),
  \* The client of the first CONNECT is taken over while the second one's handler
  \* passes on retained messages.
  Script(<<Connect("b", FALSE), Subscribe("t"), Publish("t", "store"), Disconnect,
           Connect("a", TRUE), Connect("b", FALSE)>>,
         <<Connect("a", TRUE)>>, <<>>)}

\* A subscriber and a publisher, each a client of its own.
MCServing == {
  Script(<<Connect("a", TRUE), Subscribe("t")>>,
         <<Connect("b", TRUE), Publish("t", "no"), Publish("t", "no")>>,
         <<>>)}

==============================================================================
