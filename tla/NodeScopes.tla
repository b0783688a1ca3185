----------------------------- MODULE NodeScopes -----------------------------
(***************************************************************************)
(* The scopes of the nodes of a graph, which inference builds in two ways: *)
(* build_node_scope climbs from one node to its root, and build_scopes     *)
(* goes once through all nodes in the order of their depth                 *)
(* (src/nodety/inference.rs, src/node_sorting.rs).  A scope is the         *)
(* sequence of the nodes whose parameters it holds, the nearest one first. *)
(***************************************************************************)
EXTENDS NodeGraph, SequencesExt

(* calculate_depth: the parents on the walk up, as far as they are among the nodes.  In a cycle it fails. *)
Depth(n, nodes) == Cardinality({a \in nodes : Reaches(parent, n, a)}) - 1

(* Variant: nodes stay in the order of their indices. *)
SortAsTheyCome(order) == order

(* The pairs that sort_by_key sorts: depths and, since it keeps nodes of one depth in order, positions. *)
DepthPairs(order) == {<<Depth(order[i], ToSet(order)), i>> : i \in DOMAIN order}

UpTo(pair, pairs) == {q \in pairs : q[1] < pair[1] \/ (q[1] = pair[1] /\ q[2] <= pair[2])}

(* sort_nodes_by_parent_depth, ascending: the pair at place k is the k-th smallest. *)
SortByParentDepth(order) ==
    LET pairs == DepthPairs(order)
        at(k) == CHOOSE pair \in pairs : Cardinality(UpTo(pair, pairs)) = k
    IN  [k \in DOMAIN order |-> order[at(k)[2]]]

(* The loop's body in build_scopes: a node whose parent has no scope gets none. *)
AddScope(scopes, n) ==
    LET scope == IF parent[n] = NoNode THEN <<n>> ELSE <<n>> \o scopes[parent[n]]
    IN  IF parent[n] \in DOMAIN scopes \cup {NoNode}
        THEN [m \in DOMAIN scopes \cup {n} |-> IF m = n THEN scope ELSE scopes[m]]
        ELSE scopes

(* The scopes after the first i nodes of a sorted listing. *)
ScopesAfter(sorted) ==
    LET after[i \in 0..Len(sorted)] == IF i = 0 THEN <<>> ELSE AddScope(after[i - 1], sorted[i])
    IN  after

(* build_scopes, for nodes listed in the given order. *)
BuildScopes(order) == ScopesAfter(SortByParentDepth(order))[Len(order)]

(* build_node_scope: the chain of parents from n upwards. *)
BuildNodeScope(n) ==
    LET chain == Chain(parent, n)
    IN  CHOOSE s \in SetToSeqs(chain) : s[1] = n /\ \A i \in 1..(Len(s) - 1) : s[i + 1] = parent[s[i]]

(* Wherever the indices of removed nodes were reused, so that children are listed before their parents, every   *)
(* node has a scope in both ways, and the parameters it sees in them are the same.                              *)
ScopesAgree ==
    \A order \in SetToSeqs(live) :
        LET scopes == BuildScopes(order)
        IN  DOMAIN scopes = live /\ \A n \in live : scopes[n] = BuildNodeScope(n)

=============================================================================
