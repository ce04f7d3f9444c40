------------------------------ MODULE Delivery -----------------------------
(***************************************************************************)
(* What one session promises its subscriber about the messages it accepts: *)
(* QoS 0 at most once, QoS 1 at least once, QoS 2 exactly once, and that a *)
(* message with QoS > 0 is only forgotten after it was delivered.          *)
(***************************************************************************)
EXTENDS Integers

CONSTANTS
  Messages,   \* application messages
  Qos         \* Qos[m] \in 0..2

VARIABLES
  accepted,   \* the messages the session has taken
  owed,       \* those of them it must still deliver or see acknowledged
  count       \* how often each message was delivered

vars == <<accepted, owed, count>>

Init ==
  /\ accepted = {}
  /\ owed = {}
  /\ count = [m \in Messages |-> 0]

Accept(m) ==
  /\ m \notin accepted
  /\ accepted' = accepted \cup {m}
  /\ owed' = IF Qos[m] = 0 THEN owed ELSE owed \cup {m}
  /\ count' = count

Deliver(m) ==
  /\ m \in accepted
  /\ Qos[m] # 1 => count[m] = 0
  /\ Qos[m] # 0 => m \in owed
  /\ count' = [count EXCEPT ![m] = @ + 1]
  /\ UNCHANGED <<accepted, owed>>

Release(m) ==
  /\ m \in owed
  /\ count[m] > 0
  /\ owed' = owed \ {m}
  /\ UNCHANGED <<accepted, count>>

Next == \E m \in Messages : Accept(m) \/ Deliver(m) \/ Release(m)

Spec == Init /\ [][Next]_vars

=============================================================================
