---------------------------- MODULE MCRuleEngine ----------------------------
(* Events and rules on which TLC checks RuleEngine. *)
EXTENDS RuleEngine, TLC

\* Event 1 satisfies both rules of its type, the second of them indexed twice
\* (a condition that names the event type twice), event 2 the second one, event 3
\* none, and event 4 the rule of another type.  A run takes some of them.
AllFilters ==
    1 :> <<"r1", "r2", "r2">> @@ 2 :> <<"r1", "r2">> @@ 3 :> <<"r1">> @@ 4 :> <<"r3">>

AllMatching ==
    1 :> {"r1", "r2"} @@ 2 :> {"r2"} @@ 3 :> {} @@ 4 :> {"r3"}

MCFilters == [e \in Event |-> AllFilters[e]]
MCMatching == [e \in Event |-> AllMatching[e]]
=============================================================================
