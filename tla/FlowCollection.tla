--------------------------- MODULE FlowCollection ---------------------------
(***************************************************************************)
(* Nodety::collect_flows (src/nodety/inference.rs): the flows a program    *)
(* gives to inference, in the order they are collected.                    *)
(*                                                                         *)
(* Two topological passes over the edges, the first for the edges and the  *)
(* second for the default types of inputs; then, whatever the edges, the   *)
(* flows of effects.  petgraph's Topo returns a node once all nodes with   *)
(* an edge to it were returned; which of several ready nodes comes first   *)
(* depends on indices and is left open here.                               *)
(*                                                                         *)
(* A type is abstracted to whether it mentions a type parameter.           *)
(***************************************************************************)
EXTENDS Naturals, SequencesExt

CONSTANTS
    Node,           \* the nodes of the program
    NoNode,         \* no parent
    EdgeId,         \* the edges
    NoEdge,         \* an edge that does not exist
    Programs        \* the programs to collect from: their edges, shapes and parents

(* Kinds of types: mentioning a type parameter or not, in which case an input may
   be optional; "none" is no type. *)
Kinds == {"param", "plain", "optional", "none"}

ASSUME FiniteAssumption == IsFiniteSet(Node) /\ IsFiniteSet(EdgeId)

ASSUME ProgramsAssumption ==
    \A program \in Programs :
        /\ program.parent \in [Node -> Node \cup {NoNode}]
        /\ \A n \in Node :
              LET s == program.shape[n] IN
              /\ s.inputs \in Seq(Kinds \ {"none"}) /\ s.outputs \in Seq({"param", "plain"})
              /\ {s.input_varg, s.output_varg} \subseteq Kinds
              /\ s.defaults \subseteq Nat /\ IsFiniteSet(s.defaults)
              /\ {s.effects} \cup s.handles \subseteq {"param", "plain"}
        /\ \A e \in EdgeId :
              \/ program.edges[e] = NoEdge
              \/ program.edges[e] \in
                     [source : Node, sourcePort : Nat, target : Node, targetPort : Nat]

VARIABLES
    edges, shape, parent,   \* the program; no step changes it
    phase,                  \* which loop of collect_flows runs
    visited,                \* the nodes Topo has returned in this pass
    populated,              \* populated_inputs
    flows                   \* the flows pushed so far

programVars == <<edges, shape, parent>>
flowVars == <<edges, shape, parent, phase, visited, populated, flows>>

-----------------------------------------------------------------------------
(* The program *)

Edges == {e \in EdgeId : edges[e] # NoEdge}

EdgesFrom(n) == {e \in Edges : edges[e].source = n}

(* PortTypes::get_port_type, the varg standing for every port beyond the list. *)
PortType(ports, varg, i) == IF i < Len(ports) THEN ports[i + 1] ELSE varg

InputType(n, i) == PortType(shape[n].inputs, shape[n].input_varg, i)

OutputType(n, i) == PortType(shape[n].outputs, shape[n].output_varg, i)

(* Variant: an edge takes part only if both of its types mention a parameter. *)
TakesPartBoth(e) ==
    {OutputType(edges[e].source, edges[e].sourcePort),
     InputType(edges[e].target, edges[e].targetPort)} = {"param"}

(* Both ports exist and one of them takes part in inference. *)
TakesPart(e) ==
    LET types == {OutputType(edges[e].source, edges[e].sourcePort),
                  InputType(edges[e].target, edges[e].targetPort)}
    IN  "none" \notin types /\ "param" \in types

EndOf(e) == <<edges[e].target, edges[e].targetPort>>

-----------------------------------------------------------------------------
(* What is collected *)

EdgeFlow(e) == [kind |-> "edge", from |-> edges[e].source, into |-> EndOf(e), edge |-> e]

DefaultFlow(n, i) == [kind |-> "default", from |-> n, into |-> <<n, i>>]

NeverFlow(n, target) == [kind |-> "never", from |-> n, into |-> <<n, target>>]

(* What the parent handles of a child's effects, for an arm of its handles. *)
HandledFlow(n) == [kind |-> "handled", from |-> n, into |-> <<parent[n], "handles">>]

(* What it doesn't becomes effects of the parent. *)
UnhandledFlow(n) == [kind |-> "unhandled", from |-> n, into |-> <<parent[n], "effects">>]

EdgesOf(n) == {e \in EdgesFrom(n) : TakesPart(e)}

(* Variant: only edges that take part populate the input they end on. *)
PopulatedByFlows(n) == {EndOf(e) : e \in EdgesOf(n)}

PopulatedBy(n) == {EndOf(e) : e \in EdgesFrom(n)}

(* Variant: inputs beyond the listed ones have no default. *)
DefaultsOfListed(n) ==
    {i \in shape[n].defaults : <<n, i>> \notin populated /\ i < Len(shape[n].inputs)}

DefaultsOf(n) ==
    {i \in shape[n].defaults : <<n, i>> \notin populated /\ InputType(n, i) # "none"}

(* Variant: what a node handles does not start at Never. *)
NeverTargetsEffects(n) == {t \in {"effects"} : shape[n].effects = "param"}

NeverTargets(n) ==
    {t \in {"effects", "handles"} :
        \/ t = "effects" /\ shape[n].effects = "param"
        \/ t = "handles" /\ "param" \in shape[n].handles}

(* Variant: what the parent throws plays no part. *)
ChildFlowsOwn(n) ==
    IF parent[n] = NoNode THEN {}
    ELSE (IF "param" \in shape[parent[n]].handles THEN {HandledFlow(n)} ELSE {})
         \cup (IF shape[n].effects = "param" THEN {UnhandledFlow(n)} ELSE {})

ChildFlows(n) ==
    LET p == parent[n] IN
    IF p = NoNode THEN {}
    ELSE (IF "param" \in shape[p].handles THEN {HandledFlow(n)} ELSE {})
         \cup (IF "param" \in {shape[n].effects, shape[p].effects} THEN {UnhandledFlow(n)} ELSE {})

-----------------------------------------------------------------------------
(* Variant: a node is ready once some edge to it was followed. *)
ReadyAfterAny ==
    {n \in Node \ visited :
        LET before == {edges[e].source : e \in {d \in Edges : edges[d].target = n}}
        IN  before = {} \/ before \cap visited # {}}

(* Variant: a node is returned again. *)
ReadyAgain ==
    {n \in Node : \A e \in Edges : edges[e].target = n => edges[e].source \in visited}

(* Topo: the nodes that may be returned next *)
Ready ==
    {n \in Node \ visited :
        \A e \in Edges : edges[e].target = n => edges[e].source \in visited}

Init ==
    /\ \E p \in Programs : edges = p.edges /\ shape = p.shape /\ parent = p.parent
    /\ phase = "edges"
    /\ visited = {}
    /\ populated = {}
    /\ flows = <<>>

Push(records) == \E order \in SetToSeqs(records) : flows' = flows \o order

CollectEdges(n) ==
    /\ phase = "edges"
    /\ n \in Ready
    /\ visited' = visited \cup {n}
    /\ populated' = populated \cup PopulatedBy(n)
    /\ Push({EdgeFlow(e) : e \in EdgesOf(n)})
    /\ UNCHANGED <<programVars, phase>>

(* Variant: the pass waits until every node was returned. *)
EndEdgesAll ==
    /\ phase = "edges"
    /\ visited = Node
    /\ phase' = "defaults"
    /\ visited' = {}
    /\ UNCHANGED <<programVars, populated, flows>>

EndEdges ==
    /\ phase = "edges"
    /\ Ready = {}
    /\ phase' = "defaults"
    /\ visited' = {}
    /\ UNCHANGED <<programVars, populated, flows>>

CollectDefaults(n) ==
    /\ phase = "defaults"
    /\ n \in Ready
    /\ visited' = visited \cup {n}
    /\ Push({DefaultFlow(n, i) : i \in DefaultsOf(n)})
    /\ UNCHANGED <<programVars, phase, populated>>

EndDefaults ==
    /\ phase = "defaults"
    /\ Ready = {}
    /\ phase' = "effects"
    /\ visited' = {}
    /\ UNCHANGED <<programVars, populated, flows>>

(* The two loops over node_references, in the order of the nodes' indices; the
   order is of no consequence and fixed here. *)
CollectEffects ==
    /\ phase = "effects"
    /\ phase' = "children"
    /\ flows' = flows \o SetToSeq(UNION {{NeverFlow(n, t) : t \in NeverTargets(n)} : n \in Node})
    /\ UNCHANGED <<programVars, visited, populated>>

CollectChildEffects ==
    /\ phase = "children"
    /\ phase' = "done"
    /\ flows' = flows \o SetToSeq(UNION {ChildFlows(n) : n \in Node})
    /\ UNCHANGED <<programVars, visited, populated>>

Next ==
    \/ \E n \in Node : CollectEdges(n) \/ CollectDefaults(n)
    \/ EndEdges
    \/ EndDefaults
    \/ CollectEffects
    \/ CollectChildEffects

(* collect_flows runs to its end in one thread. *)
Spec == Init /\ [][Next]_flowVars /\ WF_flowVars(Next)

-----------------------------------------------------------------------------
(* Properties *)

TypeOK ==
    /\ phase \in {"edges", "defaults", "effects", "children", "done"}
    /\ visited \subseteq Node
    /\ populated \subseteq Node \X Nat
    /\ \A i \in DOMAIN flows : flows[i].from \in Node /\ flows[i].into[1] \in Node

(* n is on a cycle of edges, or behind one. *)
BehindCycle(n) ==
    \E S \in SUBSET Node :
        n \in S /\ \A m \in S : \E e \in Edges : edges[e].target = m /\ edges[e].source \in S

FlowsOf(kind) == {i \in DOMAIN flows : flows[i].kind = kind}

(* Away from edge cycles, every edge between existing ports of which one mentions
   a parameter takes part in inference exactly once, and no other edge does. *)
EdgesFlowOnce ==
    phase = "done" =>
        \A e \in Edges :
            LET mine == {i \in FlowsOf("edge") : flows[i].edge = e}
                output == OutputType(edges[e].source, edges[e].sourcePort)
                input == InputType(edges[e].target, edges[e].targetPort)
                mentions == output # "none" /\ input # "none" /\ (output = "param" \/ input = "param")
            IN  IF mentions /\ ~BehindCycle(edges[e].source)
                THEN \E i \in DOMAIN flows : mine = {i}
                ELSE mine = {}

(* "Collect flows in topological order so that root nodes get inferred first": no
   flow leaves a node that a later flow still enters. *)
FlowsInTopologicalOrder ==
    \A i, j \in FlowsOf("edge") : i < j => flows[j].into[1] # flows[i].from

(* A default type takes part only where no edge ends: not where an edge ends whose
   types don't take part, or that is collected after the default's node. *)
NoDefaultOverEdge ==
    \A i \in FlowsOf("default") : \A e \in Edges : EndOf(e) # flows[i].into

(* Away from edge cycles, every default of an input without an edge takes part. *)
DefaultsApplied ==
    phase = "done" =>
        \A n \in Node : \A i \in shape[n].defaults :
            (/\ InputType(n, i) # "none"
             /\ ~BehindCycle(n)
             /\ \A e \in Edges : EndOf(e) # <<n, i>>)
            => \E k \in FlowsOf("default") : flows[k].into = <<n, i>>

(* "Effects are the least solution": what flows into effects or handles that
   mention a parameter is unioned with the Never that flowed into them before. *)
EffectsStartAtNever ==
    \A i \in FlowsOf("handled") \cup FlowsOf("unhandled") :
        LET p == flows[i].into[1]
            t == flows[i].into[2]
            generic == IF t = "effects" THEN shape[p].effects = "param" ELSE "param" \in shape[p].handles
        IN  generic => \E j \in FlowsOf("never") : j < i /\ flows[j].into = flows[i].into

PhasesLeft ==
    CASE phase = "edges" -> 4
      [] phase = "defaults" -> 3
      [] phase = "effects" -> 2
      [] phase = "children" -> 1
      [] phase = "done" -> 0

VisitsLeft == PhasesLeft * (Cardinality(Node) + 1) + Cardinality(Node \ visited)

(* Every step brings the end of the collection closer, as Topo returns a node at
   most once in a pass. *)
CollectionAdvances == [][(VisitsLeft \in Nat) /\ (VisitsLeft' < VisitsLeft)]_flowVars

(* collect_flows ends, whatever cycles the edges form. *)
CollectionEnds == <>(phase = "done")

(* "Apply default types for inputs that don't have an edge." *)
DefaultsAppliedEverywhere ==
    phase = "done" =>
        \A n \in Node : \A i \in shape[n].defaults :
            (InputType(n, i) # "none" /\ \A e \in Edges : EndOf(e) # <<n, i>>)
            => \E k \in FlowsOf("default") : flows[k].into = <<n, i>>

=============================================================================
