----------------------------- MODULE NodeGraph ------------------------------
(***************************************************************************)
(* The program graph of Nodety (src/nodety.rs): nodes with a signature and *)
(* an optional parent, the children index kept beside the graph, and the   *)
(* edges.  One action per mutating call; a call that fails is a step that  *)
(* changes nothing but `result`.                                           *)
(*                                                                         *)
(* A signature is abstracted to what validation looks at: the parameters   *)
(* it declares, which parameter mentions which in its bound or default,    *)
(* and the parameters its ports, effects and defaults mention.             *)
(***************************************************************************)
EXTENDS ParentLinks

CONSTANTS
    EdgeIndex,      \* the edge indices petgraph hands out
    NoEdge,         \* a free edge index
    Params,         \* parameter names (LocalParamID)
    Signatures      \* the signatures a client may submit

SignatureShape ==
    [params : SUBSET Params, bounds : SUBSET (Params \X Params), refs : SUBSET Params]

EmptySignature == [params |-> {}, bounds |-> {}, refs |-> {}]

ASSUME SignaturesAssumption == Signatures \subseteq SignatureShape

ASSUME NoEdgeAssumption == NoEdge \notin Index \X Index

VARIABLES
    live,       \* the node indices in use
    parent,     \* the parent field of every node
    sig,        \* the signature field of every node
    children,   \* the children index: parent -> children registered below it
    edges,      \* edge index -> <<source, target>>, or NoEdge
    result      \* what the last call returned

graph == <<live, parent, sig, children, edges>>
vars == <<live, parent, sig, children, edges, result>>

Outcomes == {"Ok", "None", "ParentNotFound", "NodeNotFound", "NodeHasChildren",
             "CycleDetected", "TypeExprValidationError"}

TypeOK ==
    /\ live \in SUBSET Index
    /\ parent \in ParentFunctions
    /\ sig \in [Index -> SignatureShape]
    /\ children \in [Index -> SUBSET Index]
    /\ edges \in [EdgeIndex -> (Index \X Index) \cup {NoEdge}]
    /\ result \in Outcomes

-----------------------------------------------------------------------------
(* Scopes and validation *)

(* The parameters in the scope build_node_scope(p) returns: those of p and of
   every node above it.  Without a parent the scope is an empty root. *)
ScopeBelow(p) ==
    IF p = NoNode THEN {} ELSE UNION {sig[a].params : a \in Chain(parent, p)}

(* Variant: only a parameter bounded by itself counts as a cycle. *)
CyclicReferenceDirect(s) == \E p \in s.params : <<p, p>> \in s.bounds

(* A cycle among the parameters' bounds and defaults. *)
CyclicReference(s) ==
    \E S \in SUBSET s.params :
        S # {} /\ \A p \in S : \E q \in S : <<p, q>> \in s.bounds

Mentioned(s) == s.refs \cup {b[2] : b \in s.bounds}

Validates(s, scope) ==
    /\ ~CyclicReference(s)
    /\ Mentioned(s) \subseteq s.params \cup scope

(* Variants: only the new parent and its parent are compared with the node; the
   node is refused every parent it shares an ancestor with. *)
WouldCreateCycleShallow(n, p) == n \in {p, parent[p]}

WouldCreateCycleSameTree(n, p) == Chain(parent, n) \cap Chain(parent, p) # {}

(* The walk from the new parent up comes to the node itself. *)
WouldCreateCycle(n, p) == Reaches(parent, p, n)

-----------------------------------------------------------------------------
(* The children index; registering below NoNode does nothing. *)

Register(index, p, n) == [m \in Index |-> IF m = p THEN index[m] \cup {n} ELSE index[m]]

(* Variant: the entry of a child is never taken out. *)
UnregisterNever(index, p, n) == index

Unregister(index, p, n) == [m \in Index |-> IF m = p THEN index[m] \ {n} ELSE index[m]]

-----------------------------------------------------------------------------
(* What each call answers, in the order its checks are made. *)

(* Variant: the parent is not looked up in the graph. *)
AddNodeResultAnyParent(s, p) ==
    IF Validates(s, ScopeBelow(p)) THEN "Ok" ELSE "TypeExprValidationError"

AddNodeResult(s, p) ==
    CASE p \notin live \cup {NoNode} -> "ParentNotFound"
      [] p \in live \cup {NoNode} /\ ~Validates(s, ScopeBelow(p)) -> "TypeExprValidationError"
      [] OTHER -> "Ok"

(* The new signature is validated below the parent the node still has. *)
UpdateNodeResult(n, s, p) ==
    IF n \notin live THEN "NodeNotFound"
    ELSE IF ~Validates(s, ScopeBelow(parent[n])) THEN "TypeExprValidationError"
    ELSE IF p \notin live \cup {NoNode} THEN "ParentNotFound"
    ELSE IF p # NoNode /\ WouldCreateCycle(n, p) THEN "CycleDetected"
    ELSE "Ok"

(* Variant: a node with children is removed like any other. *)
RemoveNodeResultUnchecked(n) == "Ok"

RemoveNodeResult(n) == IF children[n] # {} THEN "NodeHasChildren" ELSE "Ok"

AddEdgeResult(s, t) == IF {s, t} \subseteq live THEN "Ok" ELSE "NodeNotFound"

RemoveEdgeResult(e) == IF edges[e] = NoEdge THEN "None" ELSE "Ok"

-----------------------------------------------------------------------------
Init ==
    /\ live = {}
    /\ parent = [n \in Index |-> NoNode]
    /\ sig = [n \in Index |-> EmptySignature]
    /\ children = [n \in Index |-> {}]
    /\ edges = [e \in EdgeIndex |-> NoEdge]
    /\ result = "Ok"

(* petgraph reuses freed indices: the new node may get any index not in use. *)
AddNodeOk(s, p) ==
    \E n \in Index \ live :
        /\ live' = live \cup {n}
        /\ parent' = [parent EXCEPT ![n] = p]
        /\ sig' = [sig EXCEPT ![n] = s]
        /\ children' = Register(children, p, n)
        /\ UNCHANGED edges

AddNode(s, p) ==
    /\ result' = AddNodeResult(s, p)
    /\ IF result' = "Ok" THEN AddNodeOk(s, p) ELSE UNCHANGED graph

UpdateNodeOk(n, s, p) ==
    /\ children' = Register(Unregister(children, parent[n], n), p, n)
    /\ parent' = [parent EXCEPT ![n] = p]
    /\ sig' = [sig EXCEPT ![n] = s]
    /\ UNCHANGED <<live, edges>>

UpdateNode(n, s, p) ==
    /\ result' = UpdateNodeResult(n, s, p)
    /\ IF result' = "Ok" THEN UpdateNodeOk(n, s, p) ELSE UNCHANGED graph

(* petgraph drops the edges of a removed node.  Removing an index not in use
   is answered Ok. *)
DropEdgesOf(n) ==
    [e \in EdgeIndex |-> IF edges[e] # NoEdge /\ n \in {edges[e][1], edges[e][2]}
                         THEN NoEdge ELSE edges[e]]

RemoveNodeOk(n) ==
    /\ live' = live \ {n}
    /\ parent' = [parent EXCEPT ![n] = NoNode]
    /\ sig' = [sig EXCEPT ![n] = EmptySignature]
    /\ children' = [Unregister(children, parent[n], n) EXCEPT ![n] = {}]
    /\ edges' = DropEdgesOf(n)

RemoveNode(n) ==
    /\ result' = RemoveNodeResult(n)
    /\ IF result' = "Ok" THEN RemoveNodeOk(n) ELSE UNCHANGED graph

AddEdgeOk(s, t) ==
    \E e \in EdgeIndex :
        /\ edges[e] = NoEdge
        /\ edges' = [edges EXCEPT ![e] = <<s, t>>]
        /\ UNCHANGED <<live, parent, sig, children>>

AddEdge(s, t) ==
    /\ result' = AddEdgeResult(s, t)
    /\ IF result' = "Ok" THEN AddEdgeOk(s, t) ELSE UNCHANGED graph

RemoveEdge(e) ==
    /\ result' = RemoveEdgeResult(e)
    /\ edges' = [edges EXCEPT ![e] = NoEdge]
    /\ UNCHANGED <<live, parent, sig, children>>

Next ==
    \/ \E s \in Signatures, p \in Index \cup {NoNode} : AddNode(s, p)
    \/ \E n \in Index, s \in Signatures, p \in Index \cup {NoNode} : UpdateNode(n, s, p)
    \/ \E n \in Index : RemoveNode(n)
    \/ \E s \in Index, t \in Index : AddEdge(s, t)
    \/ \E e \in EdgeIndex : RemoveEdge(e)

Spec == Init /\ [][Next]_vars

-----------------------------------------------------------------------------
(* Properties *)

(* No node is its own ancestor, so the parent walks of build_node_scope and
   would_create_cycle end and build_scopes finds no parent cycle to panic on. *)
Forest == Acyclic(parent)

(* A node in use hangs below a node in use: build_node_scope never indexes the
   graph with the index of a removed node, whatever indices were reused. *)
ParentsLive ==
    /\ \A n \in live : parent[n] \in live \cup {NoNode}
    /\ \A n \in Index \ live : parent[n] = NoNode

(* The children index, which remove_node trusts, agrees with the parent fields,
   which everything else trusts; the index of a removed node has no leftovers. *)
ChildrenMirror ==
    \A p \in Index : children[p] = {n \in live : parent[n] = p}

(* No edge dangles after its end was removed and its index reused. *)
EdgesLive ==
    \A e \in EdgeIndex : edges[e] # NoEdge => {edges[e][1], edges[e][2]} \subseteq live

(* Nothing points at the index of a removed node, where the next node would get it. *)
NothingDangles == ParentsLive /\ EdgesLive

(* would_create_cycle refuses exactly the moves that would close a loop. *)
CycleCheckExact ==
    \A n \in live, p \in live :
        WouldCreateCycle(n, p) <=> ~Acyclic([parent EXCEPT ![n] = p])

(* A graph can always be taken apart again: some node has no children left. *)
SomeNodeRemovable ==
    live # {} => \E n \in live : RemoveNodeResult(n) = "Ok"

(* Adding or removing a node changes the scope of no other node: the new index
   has no leftover children and the removed one was nobody's ancestor. *)
OthersKeepTheirScope ==
    [][live' # live =>
        \A m \in live \cap live' : ScopeBelow(m)' = ScopeBelow(m)]_vars

(* ScopePointer::lookup from the scope of node n: the nearest node at or above n
   that declares q, as a set of at most one <<node, parameter>>. *)
Lookup(n, q) ==
    {<<a, q>> : a \in {b \in Chain(parent, n) :
        /\ q \in sig[b].params
        /\ \A c \in Chain(parent, n) : q \in sig[c].params => Reaches(parent, b, c)}}

(* Following bounds from parameter to parameter across the scopes of the whole
   forest always ends: without this infer and normalize would recurse forever. *)
BoundsNeverLoop ==
    LET declared == {d \in live \X Params : d[2] \in sig[d[1]].params}
        bounding(d) == UNION {Lookup(d[1], b[2]) : b \in {c \in sig[d[1]].bounds : c[1] = d[2]}}
    IN  \A S \in SUBSET declared : S # {} => \E d \in S : bounding(d) \cap S = {}

(* The graph is a forest that grows, moves and shrinks as NodeForest says. *)
Forests == INSTANCE NodeForest WITH nodes <- live, up <- parent
ImplementsNodeForest == Forests!Spec

(* "if the node signature is invalid" update_node fails: a node that was changed
   mentions only parameters defined in the scope it ends up in. *)
UpdatedNodesValidate ==
    [][\A n \in live \cap live' :
        <<sig[n], parent[n]>>' # <<sig[n], parent[n]>>
            => Validates(sig[n], ScopeBelow(parent[n]))']_vars

=============================================================================
