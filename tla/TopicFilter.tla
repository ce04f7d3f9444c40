---------------------------- MODULE TopicFilter ----------------------------
(***************************************************************************)
(* Topic filters and topic names, character by character: whether a        *)
(* SUBSCRIBE's filter is valid (mqtt_subscribe::is_topic_filter_valid) and *)
(* whether a PUBLISH's topic name matches it (topic::match, one step per   *)
(* iteration of its loop).  Characters are what the code compares: the     *)
(* level separator, the two wildcards, and others.                         *)
(***************************************************************************)
EXTENDS Wildcards, SequencesExt

CONSTANTS
  Filters,   \* the topic filters a SUBSCRIBE may carry
  Names      \* the topic names a PUBLISH may carry

\* decode_string and the parsers let no empty filter or name through, and
\* mqtt_publish no name with a wildcard.
ASSUME NameAssumption ==
  /\ <<>> \notin Filters \cup Names
  /\ \A s \in Filters \cup Names : s \in Seq(Range(s))
  /\ \A n \in Names : {n[k] : k \in DOMAIN n} \cap {Plus, Hash} = {}

VARIABLES
  filter,    \* the topic filter
  name,      \* the topic name, <<>> before there is one
  pc,        \* "new", "refused", "subscribed", "matching" or "done"
  is_wild,   \* the filter is a key of _wild_topics
  fit, nit,  \* the iterators of match; one past the length is end()
  result     \* what match, or the look-up of a plain topic, returned

vars == <<filter, name, pc, is_wild, fit, nit, result>>

TypeOK ==
  /\ filter \in Filters
  /\ name \in Names \cup {<<>>}
  /\ pc \in {"new", "refused", "subscribed", "matching", "done"}
  /\ is_wild \in BOOLEAN
  /\ fit \in 1..(Len(filter) + 1)
  /\ nit \in 1..(Len(name) + 1)
  /\ result \in BOOLEAN

Init ==
  /\ filter \in Filters
  /\ name = <<>>
  /\ pc = "new"
  /\ is_wild = FALSE
  /\ fit = 1
  /\ nit = 1
  /\ result = FALSE

-----------------------------------------------------------------------------
(* SUBSCRIBE *)

\* The filter of a SUBSCRIBE: an invalid one gets 0x80 and is not stored.
handle_subscribe ==
  /\ pc = "new"
  /\ is_wild' = HasWildcard(filter)
  /\ pc' = IF is_topic_filter_valid(filter) THEN "subscribed" ELSE "refused"
  /\ UNCHANGED <<filter, name, fit, nit, result>>

-----------------------------------------------------------------------------
(* topic::match *)

\* handle_publish: plain topics are looked up by name, wild ones matched.
handle_publish(n) ==
  /\ pc = "subscribed"
  /\ name' = n
  /\ IF is_wild
       THEN pc' = "matching" /\ result' = FALSE
       ELSE pc' = "done" /\ result' = (n = filter)
  /\ UNCHANGED <<filter, is_wild, fit, nit>>

FilterEnd == fit = Len(filter) + 1
NameEnd == nit = Len(name) + 1

Return(value) ==
  /\ pc = "matching"
  /\ pc' = "done"
  /\ result' = value
  /\ UNCHANGED <<filter, name, is_wild, fit, nit>>

\* With the name at its end, all that may be left of the filter is "/#".
\* Mutant: or anything that begins with '/'.
ParentOfHashAny == filter[fit] = Slash
ParentOfHash == /\ filter[fit] = Slash
                /\ fit < Len(filter)
                /\ filter[fit + 1] = Hash

AtEnd ==
  \/ FilterEnd /\ NameEnd /\ Return(TRUE)
  \/ FilterEnd /\ ~NameEnd /\ Return(FALSE)
  \/ ~FilterEnd /\ NameEnd /\ Return(ParentOfHash)

AtHash == ~FilterEnd /\ ~NameEnd /\ filter[fit] = Hash /\ Return(TRUE)

\* The inner while: the end of the name's level.
\* Mutant: past the '/' that ends it.
LevelEndPast(p) == Min({k \in p..Len(name) : name[k] = Slash} \cup {Len(name) + 1}) + 1
LevelEnd(p) == Min({k \in p..Len(name) : name[k] = Slash} \cup {Len(name) + 1})

\* Mutant: the filter's iterator stays at '+'.
PassPlusNot(p) == p
PassPlus(p) == p + 1

AtPlus ==
  /\ pc = "matching"
  /\ ~FilterEnd /\ ~NameEnd
  /\ filter[fit] = Plus
  /\ fit' = PassPlus(fit)
  /\ nit' = LevelEnd(nit)
  /\ UNCHANGED <<filter, name, pc, is_wild, result>>

AtSameCharacter ==
  /\ pc = "matching"
  /\ ~FilterEnd /\ ~NameEnd
  /\ filter[fit] \notin {Plus, Hash}
  /\ filter[fit] = name[nit]
  /\ fit' = fit + 1
  /\ nit' = nit + 1
  /\ UNCHANGED <<filter, name, pc, is_wild, result>>

AtOtherCharacter ==
  /\ ~FilterEnd /\ ~NameEnd
  /\ filter[fit] \notin {Plus, Hash}
  /\ filter[fit] # name[nit]
  /\ Return(FALSE)

match == AtEnd \/ AtHash \/ AtPlus \/ AtSameCharacter \/ AtOtherCharacter

-----------------------------------------------------------------------------

Next ==
  \/ handle_subscribe
  \/ \E n \in Names : handle_publish(n)
  \/ match

\* The calls run to their end.
FairSpec == Init /\ [][Next]_vars /\ WF_vars(match)

-----------------------------------------------------------------------------
(* The reference: filters and names as sequences of levels *)

\* The separators of a string and its two ends, in their order: by rank, since the
\* provers know nothing about SortSeq.
Separators(s) == {0, Len(s) + 1} \cup {k \in DOMAIN s : s[k] = Slash}
CutsOf(s) ==
  LET cuts == Separators(s)
      Rank(k) == Cardinality({j \in cuts : j <= k})
  IN  [i \in 1..Cardinality(cuts) |-> CHOOSE k \in cuts : Rank(k) = i]

\* The levels of a string are what stands between its separators.
LevelsOf(s) ==
  LET cuts == CutsOf(s)
  IN  [i \in 1..(Len(cuts) - 1) |-> SubSeq(s, cuts[i] + 1, cuts[i + 1] - 1)]

ValidLevels(f) ==
  LET levels == LevelsOf(f)
  IN  \A i \in DOMAIN levels :
        /\ Plus \in Range(levels[i]) => levels[i] = <<Plus>>
        /\ Hash \in Range(levels[i]) => levels[i] = <<Hash>> /\ i = Len(levels)

\* '+' stands for one level; '#' at the end for any number of them, none included.
LevelsMatch(f, n) ==
  LET fs == LevelsOf(f)
      ns == LevelsOf(n)
      open == Last(fs) = <<Hash>>
      fixed == IF open THEN Len(fs) - 1 ELSE Len(fs)
  IN  /\ IF open THEN fixed <= Len(ns) ELSE fixed = Len(ns)
      /\ \A i \in 1..fixed : fs[i] \in {<<Plus>>, ns[i]}

\* The name's last level is empty, and what stands there in the filter is a wildcard.
WildcardAtEmptyEnd(f, n) ==
  LET fs == LevelsOf(f)
      ns == LevelsOf(n)
  IN  /\ Last(ns) = <<>>
      /\ Len(ns) <= Len(fs)
      /\ fs[Len(ns)] \in {<<Plus>>, <<Hash>>}

-----------------------------------------------------------------------------
(* Properties *)

\* mqtt_subscribe.cpp:85-106: the filters accepted are those whose levels are plain,
\* '+', or a final '#'.
AcceptedAreValid ==
  /\ pc = "refused" => ~ValidLevels(filter)
  /\ pc \notin {"new", "refused"} => ValidLevels(filter)

\* topic.cpp:81-119: match agrees with matching level by level, except that no
\* wildcard matches the empty level a name ends with ("a/+" and "a/#" for "a/").
MatchesLevels ==
  pc = "done" =>
    (result <=> LevelsMatch(filter, name) /\ ~WildcardAtEmptyEnd(filter, name))

\* The loop of match ends for every filter accepted and every name.
MatchEnds == (pc = "matching") ~> (pc = "done")

=============================================================================
