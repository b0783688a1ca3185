----------------------------- MODULE NodeForest -----------------------------
(***************************************************************************)
(* What the node graph promises its clients about parents: a forest of     *)
(* nodes that grows below existing nodes, whose nodes move only to places  *)
(* that keep it a forest, and that loses only nodes nothing hangs below.   *)
(* No children index, no cycle walk: both are NodeGraph's means to an end. *)
(***************************************************************************)
EXTENDS ParentLinks

VARIABLES
    nodes,      \* the nodes that exist
    up          \* the parent of every node

forestVars == <<nodes, up>>

Init ==
    /\ nodes = {}
    /\ up = [n \in Index |-> NoNode]

Plant(n, p) ==
    /\ n \notin nodes
    /\ p \in nodes \cup {NoNode}
    /\ nodes' = nodes \cup {n}
    /\ up' = [up EXCEPT ![n] = p]

Move(n, p) ==
    /\ n \in nodes
    /\ p \in nodes \cup {NoNode}
    /\ Acyclic([up EXCEPT ![n] = p])
    /\ up' = [up EXCEPT ![n] = p]
    /\ UNCHANGED nodes

Fell(n) ==
    /\ n \in nodes
    /\ \A m \in nodes : up[m] # n
    /\ nodes' = nodes \ {n}
    /\ up' = [up EXCEPT ![n] = NoNode]

Next ==
    \/ \E n \in Index, p \in Index \cup {NoNode} : Plant(n, p)
    \/ \E n \in Index, p \in Index \cup {NoNode} : Move(n, p)
    \/ \E n \in Index : Fell(n)

Spec == Init /\ [][Next]_forestVars

=============================================================================
