---------------------------- MODULE MCSession ------------------------------
(***************************************************************************)
(* A small instance of Session: messages of every QoS to two topics, and   *)
(* so few packet identifiers that the counter wraps past 0 and finds used  *)
(* identifiers.                                                            *)
(***************************************************************************)
EXTENDS Session

CONSTANTS a1, b1, a2, b2, c0, s, t

MCQos == [m \in Messages |-> IF m = c0 THEN 0 ELSE IF m \in {a1, b1} THEN 1 ELSE 2]
MCTopic == [m \in Messages |-> IF m \in {a1, b1} THEN s ELSE t]

=============================================================================
