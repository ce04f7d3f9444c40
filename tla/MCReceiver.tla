---------------------------- MODULE MCReceiver -----------------------------
(***************************************************************************)
(* A small instance of Receiver: one QoS 1 and two QoS 2 publications.     *)
(***************************************************************************)
EXTENDS Receiver

CONSTANTS a1, a2, b2

MCQos == [m \in Messages |-> IF m = a1 THEN 1 ELSE 2]

=============================================================================
