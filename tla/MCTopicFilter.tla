--------------------------- MODULE MCTopicFilter ---------------------------
(***************************************************************************)
(* A small instance of TopicFilter: every filter of at most five           *)
(* characters and every name of at most four, over one plain character in  *)
(* filters and two in names.                                               *)
(***************************************************************************)
EXTENDS TopicFilter

CONSTANTS x, y

MCFilters == UNION {[1..k -> {x, Slash, Plus, Hash}] : k \in 1..5}
MCNames == UNION {[1..k -> {x, y, Slash}] : k \in 1..4}

=============================================================================
