---------------------------- MODULE MCTopicTree ----------------------------
(* Instances of TopicTree for TLC. *)
EXTENDS TopicTree, TLC
CONSTANTS k1, k2, m1, m2, rule

MCFilters == {<<"#">>, <<"+">>, <<"a">>, <<"a", "#">>, <<"a", "+">>, <<"a", "b">>,
              <<"+", "b">>, <<"a", "b", "#">>, <<"+", "+", "a">>}
MCTopics == {<<"a">>, <<"b">>, <<"a", "b">>, <<"b", "b">>, <<"a", "b", "a">>}

SmallFilters == {<<"a">>, <<"a", "b">>}
SmallTopics == {<<"a">>}

ASSUME NamesAssumption == WellFormedNames

Symmetry == Permutations({k1, k2}) \cup Permutations({m1, m2})
=============================================================================
