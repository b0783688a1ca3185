-------------------------- MODULE MCFlowCollection --------------------------
(* FlowCollection on small instances: every way to put up to three edges between
   three nodes, and every forest of three nodes that throw and handle effects. *)
EXTENDS Validation

Shape(inputs, input_varg, outputs, defaults, effects, handles) ==
    [inputs |-> inputs, input_varg |-> input_varg, outputs |-> outputs, output_varg |-> "none",
     defaults |-> defaults, effects |-> effects, handles |-> handles]

-----------------------------------------------------------------------------
(* A node whose first input mentions a parameter, and one whose further inputs do, with defaults. *)
PortShapes ==
    {Shape(<<"param", "optional">>, "none", <<"param">>, {}, "plain", {}),
     Shape(<<"plain">>, "param", <<"plain">>, {0, 2}, "plain", {})}

(* The last port exists only where it is variadic. *)
PortEdges == [source : Node, sourcePort : {0}, target : Node, targetPort : {0, 2}]

(* Which edge is which does not matter: they are numbered in some order of their ends. *)
Rank(e) == IF e = NoEdge THEN 0 ELSE 9 * e.source + 3 * e.target + e.targetPort

NoParents == [n \in Node |-> NoNode]

NoEdges == [e \in EdgeId |-> NoEdge]

Graphs == {g \in [EdgeId -> PortEdges \cup {NoEdge}] : \A d, e \in EdgeId : d < e => Rank(g[d]) <= Rank(g[e])}

WithPorts == [edges : Graphs, shape : [Node -> PortShapes], parent : {NoParents}]

(* Nodes with nothing but variadic inputs, and at most one edge between all nodes. *)
Variadic == Shape(<<>>, "param", <<"plain">>, {2}, "plain", {})

WithVariadic ==
    [edges : {g \in Graphs : \A d, e \in EdgeId : d # e => NoEdge \in {g[d], g[e]}},
     shape : [Node -> PortShapes \cup {Variadic}], parent : {NoParents}]

-----------------------------------------------------------------------------
EffectShapes ==
    {Shape(<<>>, "none", <<>>, {}, effects, handles) :
        effects \in {"param", "plain"}, handles \in SUBSET {"param", "plain"}}

Forests ==
    {p \in [Node -> Node \cup {NoNode}] :
        \A S \in SUBSET Node : S # {} => \E n \in S : p[n] \notin S}

WithEffects == [edges : {NoEdges}, shape : [Node -> EffectShapes], parent : Forests]

PortsAndEffects == WithPorts \cup WithVariadic \cup WithEffects

=============================================================================
