---------------------------- MODULE MCQuazarNode ----------------------------
(* Constants of the runs of QuazarNode.                                     *)
EXTENDS LoopNetwork, TLC

\* Every node knows every other one.
FullMesh == [n \in Node |-> Node \ {n}]

\* The highest node was started without bootstrap peers.
OneSided == [n \in Node |-> IF \A m \in Node : m <= n THEN {} ELSE Node \ {n}]

\* The lowest node was started first, without bootstrap peers.
Seeded == [n \in Node |-> IF \A m \in Node : n <= m THEN {} ELSE Node \ {n}]

\* No events at any node.
Nothing == [n \in Node |-> {}]

\* Events are numbers in the runs that use it: each node has its share.
Shared == [n \in Node |-> {e \in Event : e % Cardinality(Node) = n % Cardinality(Node)}]

\* The same, and the highest event at every node.
Overlapping == [n \in Node |-> Shared[n] \cup {e \in Event : \A f \in Event : f <= e}]

\* The highest event at node 2.
LastAtTwo == [n \in Node |-> IF n = 2 THEN {e \in Event : \A f \in Event : f <= e} ELSE {}]

\* The lowest event reports the lowest node dead, the highest reports it alive.
LowestDead == [e \in Event |-> IF \A f \in Event : e <= f THEN {1} ELSE {}]
HighestAlive == [e \in Event |-> IF \A f \in Event : e >= f THEN {2} ELSE {}]

NoPeerUpdate == [e \in Event |-> {}]

\* POST /event requests: none; all at node 1; the lowest event at node 1.
NoRequest == {}
AllAtOne == {1} \X Event
FirstAtOne == {<<1, e>> : e \in {x \in Event : \A f \in Event : x <= f}}

\* POST /peers requests: node 2 hears that node 1 is dead, or alive again.
Severed == {<<2, 1, FALSE>>, <<2, 1, TRUE>>}

Permuted == Permutations(Event)
=============================================================================
