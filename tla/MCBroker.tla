------------------------------ MODULE MCBroker ------------------------------
(***************************************************************************)
(* A small instance of Broker: one topic, one wild filter that matches it, *)
(* and at most one will.                                                   *)
(***************************************************************************)
EXTENDS Broker

CONSTANTS a, b, t, w, hello

MCMatching == {<<w, t>>}
MCPublications ==
  {m \in [topic : {t}, qos : {1}, retain : BOOLEAN, payload : {hello, Empty}] :
     m.retain \/ m.payload # Empty}
MCRequests == {t :> 0, w :> 1}
MCTrashRequests == MCRequests \cup {Trash :> 1}
MCWill == [topic |-> t, qos |-> 1, retain |-> FALSE, payload |-> hello]
MCWills == {NULL, MCWill}
MCSymmetry == Permutations(Channels) \cup Permutations(ClientIds)

=============================================================================
