------------------------------- MODULE MCHead -------------------------------
(***************************************************************************)
(* Instances of Head for TLC: every client, agent and node of one group.   *)
(***************************************************************************)
EXTENDS Head, TLC

CONSTANTS G, N0, N1

OneGroup    == {G, DefaultGroup}
AllInGroup  == [c \in Clients |-> G]
OnFirstNode == [c \in Clients |-> N0]
AgentsIn    == [g \in Agents |-> G]
AgentsOn    == [g \in Agents |-> N1]
AgentsApart == [g \in Agents |-> IF g = CHOOSE h \in Agents : TRUE THEN N0 ELSE N1]
OneGpu      == [g \in Agents |-> {0}]
TwoGpus     == [g \in Agents |-> {0, 1}]
OwnNames    == [a \in Actors |-> a]
Symmetric   == Permutations(Clients) \cup Permutations(Socks) \cup Permutations(Actors)
               \cup Permutations(Pgs)
OneBundle   == {<<1>>}
SomeBundles == {<<0, 2>>, <<1>>}
=============================================================================
