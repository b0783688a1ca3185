---------------------------- MODULE ParentLinks ----------------------------
(***************************************************************************)
(* The vocabulary of parent links: every node has at most one parent, and  *)
(* `up[n]` is the parent of n or NoNode.  Nodety walks these links upwards *)
(* (build_node_scope, would_create_cycle, sort_nodes_by_parent_depth); the *)
(* walks are loops over a parent pointer, so what they reach is stated     *)
(* here with closed sets, which needs neither recursion nor finiteness.    *)
(***************************************************************************)

CONSTANTS
    Index,      \* the node indices petgraph hands out
    NoNode      \* the absent parent (None)

ASSUME NoNodeAssumption == NoNode \notin Index

-----------------------------------------------------------------------------

ParentFunctions == [Index -> Index \cup {NoNode}]

(* C contains the parent of each of its members that has one. *)
UpClosed(up, C) == \A n \in C : up[n] # NoNode => up[n] \in C

(* The walk that starts at a and follows parents passes through b.  A walk
   visits exactly the least upward closed set that contains its start. *)
Reaches(up, a, b) ==
    \A C \in SUBSET Index : (a \in C /\ UpClosed(up, C)) => b \in C

(* The parents on the walk from n, n itself included. *)
Chain(up, n) == {a \in Index : Reaches(up, n, a)}

(* No set of nodes closes a loop: some member's parent is outside. *)
Acyclic(up) ==
    \A S \in SUBSET Index : S # {} => \E n \in S : up[n] \notin S

=============================================================================
