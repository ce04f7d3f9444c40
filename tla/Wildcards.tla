----------------------------- MODULE Wildcards -----------------------------
(***************************************************************************)
(* mqtt_subscribe::is_topic_filter_valid, for the parsers of packets and   *)
(* for the matching of topic names.                                        *)
(***************************************************************************)
EXTENDS Integers, Sequences

CONSTANTS Slash, Plus, Hash   \* '/', '+' and '#'

ASSUME CharacterAssumption == Slash # Plus /\ Slash # Hash /\ Plus # Hash

\* A wildcard not at the start of a level, or '#' not at the end of the filter, or
\* '+' not at the end of its level.
\* Mutant: '#' may be anywhere at the start of a level.
BadWildcardNoEnd(f, k) ==
  \/ f[k] \in {Plus, Hash} /\ k # 1 /\ f[k - 1] # Slash
  \/ f[k] = Plus /\ k # Len(f) /\ f[k + 1] # Slash
BadWildcard(f, k) ==
  \/ f[k] \in {Plus, Hash} /\ k # 1 /\ f[k - 1] # Slash
  \/ f[k] = Hash /\ k # Len(f)
  \/ f[k] = Plus /\ k # Len(f) /\ f[k + 1] # Slash

is_topic_filter_valid(f) == \A k \in DOMAIN f : ~BadWildcard(f, k)

\* The output argument is_wild.
HasWildcard(f) == \E k \in DOMAIN f : f[k] \in {Plus, Hash}

=============================================================================
