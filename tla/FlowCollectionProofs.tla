------------------------ MODULE FlowCollectionProofs ------------------------
(***************************************************************************)
(* What collect_flows collects, for every program: any number of nodes and *)
(* edges, with and without cycles, any ports, defaults, parents and        *)
(* effects, and every order in which Topo may return the nodes.            *)
(***************************************************************************)
EXTENDS FlowCollection, FiniteSetTheorems, FunctionTheorems, SequenceTheorems, TLAPS

-----------------------------------------------------------------------------
(* Appending records to a sequence *)

(* t is s followed by the members of R, each once, in some order. *)
Appended(s, t, R) ==
    /\ DOMAIN s \subseteq DOMAIN t
    /\ DOMAIN t \subseteq Nat
    /\ \A i \in DOMAIN s : t[i] = s[i]
    /\ \A i \in DOMAIN s, j \in DOMAIN t \ DOMAIN s : i < j
    /\ \A j \in DOMAIN t \ DOMAIN s : t[j] \in R
    /\ \A r \in R : \E j \in DOMAIN t \ DOMAIN s : t[j] = r
    /\ \A i, j \in DOMAIN t \ DOMAIN s : t[i] = t[j] => i = j

(* A listing of a finite set has each of its members at one position. *)
LEMMA ListingIsBijection ==
    ASSUME NEW R, IsFiniteSet(R), NEW order \in SetToSeqs(R)
    PROVE  /\ Cardinality(R) \in Nat
           /\ order \in [1..Cardinality(R) -> R]
           /\ \A i, j \in 1..Cardinality(R) : order[i] = order[j] => i = j
           /\ \A r \in R : \E i \in 1..Cardinality(R) : order[i] = r
<1> DEFINE D == 1..Cardinality(R)
<1>1. Cardinality(R) \in Nat
  BY FS_CardinalityType
<1>2. order \in [D -> R] /\ \A i, j \in D : order[i] = order[j] => i = j
  BY DEF SetToSeqs
<1>3. order \in Injection(D, R)
  BY <1>2, Fun_IsInj
<1>4. Cardinality(D) = Cardinality(R)
  BY <1>1, FS_Interval
<1>5. order \in Surjection(D, R)
  BY <1>3, <1>4, FS_Injection
<1> QED
  BY <1>1, <1>2, <1>5, Fun_SurjectionProperties

(* A finite set has a listing, and SetToSeq is one. *)
LEMMA SetToSeqIsListing ==
    ASSUME NEW R, IsFiniteSet(R)
    PROVE  SetToSeq(R) \in SetToSeqs(R)
<1> DEFINE D == 1..Cardinality(R)
<1>1. \E f \in [D -> R] : IsInjective(f)
  BY FS_CardinalityType DEF ExistsBijection, Bijection, Injection
<1>2. SetToSeq(R) \in [D -> R] /\ IsInjective(SetToSeq(R))
  BY <1>1 DEF SetToSeq
<1> QED
  BY <1>2 DEF SetToSeqs, IsInjective

(* Appending a listing of R appends R. *)
LEMMA AppendListing ==
    ASSUME NEW T, NEW s \in Seq(T), NEW R \in SUBSET T, IsFiniteSet(R), NEW order \in SetToSeqs(R)
    PROVE  s \o order \in Seq(T) /\ Appended(s, s \o order, R)
<1> DEFINE n == Cardinality(R)
           t == s \o order
<1>1. /\ n \in Nat
      /\ order \in [1..n -> R]
      /\ \A i, j \in 1..n : order[i] = order[j] => i = j
      /\ \A r \in R : \E i \in 1..n : order[i] = r
  BY ListingIsBijection
<1>2. order \in Seq(T) /\ Len(order) = n
  BY <1>1
<1>3. /\ t \in Seq(T)
      /\ Len(t) = Len(s) + n
      /\ \A i \in 1..(Len(s) + n) : t[i] = IF i <= Len(s) THEN s[i] ELSE order[i - Len(s)]
  BY <1>2, ConcatProperties
<1>4. /\ Len(s) \in Nat
      /\ DOMAIN s = 1..Len(s)
      /\ DOMAIN t = 1..(Len(s) + n)
  BY <1>3, LenProperties
<1> HIDE DEF t, n
<1>5. \A j \in DOMAIN t \ DOMAIN s : j - Len(s) \in 1..n /\ t[j] = order[j - Len(s)]
  BY <1>1, <1>3, <1>4
<1>6. \A i \in DOMAIN s : i \in DOMAIN t /\ t[i] = s[i] /\ \A j \in DOMAIN t \ DOMAIN s : i < j
  BY <1>1, <1>3, <1>4
<1>7. ASSUME NEW r \in R
      PROVE  \E j \in DOMAIN t \ DOMAIN s : t[j] = r
  <2>1. PICK i \in 1..n : order[i] = r
    BY <1>1
  <2>2. i + Len(s) \in DOMAIN t \ DOMAIN s
    BY <1>1, <1>4, <2>1
  <2>3. t[i + Len(s)] = r
    BY <1>1, <1>4, <1>5, <2>1, <2>2
  <2> QED
    BY <2>2, <2>3
<1>8. ASSUME NEW i \in DOMAIN t \ DOMAIN s, NEW j \in DOMAIN t \ DOMAIN s, t[i] = t[j]
      PROVE  i = j
  <2>1. i - Len(s) = j - Len(s)
    BY <1>1, <1>5, <1>8
  <2> QED
    BY <1>1, <1>4, <2>1
<1>9. DOMAIN t \subseteq Nat
  BY <1>1, <1>4
<1>10. \A j \in DOMAIN t \ DOMAIN s : t[j] \in R
  BY <1>1, <1>5
<1>11. Appended(s, t, R)
  BY <1>6, <1>7, <1>8, <1>9, <1>10 DEF Appended
<1> QED
  BY <1>3, <1>11 DEF t

-----------------------------------------------------------------------------
(* The program *)

ProgramInv == \E p \in Programs : edges = p.edges /\ shape = p.shape /\ parent = p.parent

LEMMA ProgramTyped ==
    ASSUME ProgramInv
    PROVE  /\ parent \in [Node -> Node \cup {NoNode}]
           /\ \A e \in Edges :
                 /\ edges[e].source \in Node /\ edges[e].sourcePort \in Nat
                 /\ edges[e].target \in Node /\ edges[e].targetPort \in Nat
           /\ \A n \in Node :
                 /\ shape[n].defaults \subseteq Nat /\ IsFiniteSet(shape[n].defaults)
                 /\ shape[n].effects \in {"param", "plain"}
                 /\ shape[n].handles \subseteq {"param", "plain"}
BY ProgramsAssumption DEF ProgramInv, Edges

(* The nodes that no cycle of edges leads to: those that Topo gets to. *)
Straight == {n \in Node : ~BehindCycle(n)}

(* What is behind a node behind a cycle is behind the cycle too. *)
LEMMA StraightSources ==
    ASSUME ProgramInv, NEW e \in Edges, edges[e].target \in Straight
    PROVE  edges[e].source \in Straight
<1>1. edges[e].source \in Node /\ edges[e].target \in Node
  BY ProgramTyped
<1>2. ASSUME BehindCycle(edges[e].source)
      PROVE  BehindCycle(edges[e].target)
  <2>1. PICK S \in SUBSET Node :
          /\ edges[e].source \in S
          /\ \A m \in S : \E d \in Edges : edges[d].target = m /\ edges[d].source \in S
    BY <1>2 DEF BehindCycle
  <2> DEFINE S2 == S \cup {edges[e].target}
  <2>2. \A m \in S2 : \E d \in Edges : edges[d].target = m /\ edges[d].source \in S2
    BY <2>1
  <2>3. S2 \in SUBSET Node /\ edges[e].target \in S2
    BY <1>1
  <2> QED
    BY <2>2, <2>3 DEF BehindCycle
<1> QED
  BY <1>1, <1>2 DEF Straight

(* What Topo returns next is behind no cycle, if what it returned is not. *)
LEMMA ReadyIsStraight ==
    ASSUME ProgramInv, visited \subseteq Straight, NEW n \in Ready
    PROVE  n \in Straight
<1>1. SUFFICES ASSUME BehindCycle(n) PROVE FALSE
  BY DEF Straight, Ready
<1>2. PICK S \in SUBSET Node :
        n \in S /\ \A m \in S : \E e \in Edges : edges[e].target = m /\ edges[e].source \in S
  BY <1>1 DEF BehindCycle
<1>3. PICK e \in Edges : edges[e].target = n /\ edges[e].source \in S
  BY <1>2
<1>4. edges[e].source \in visited
  BY <1>3 DEF Ready
<1>5. BehindCycle(edges[e].source)
  BY <1>2, <1>3 DEF BehindCycle
<1> QED
  BY <1>4, <1>5 DEF Straight

(* When Topo has nothing more to return, what is left is behind cycles. *)
LEMMA UnreadyIsBehindCycle ==
    ASSUME ProgramInv, Ready = {}
    PROVE  Straight \subseteq visited
<1>1. \A m \in Node \ visited :
        \E e \in Edges : edges[e].target = m /\ edges[e].source \in Node \ visited
  BY ProgramTyped DEF Ready
<1>2. Node \ visited \in SUBSET Node
  OBVIOUS
<1>3. \A n \in Node \ visited : BehindCycle(n)
  BY <1>1, <1>2 DEF BehindCycle
<1> QED
  BY <1>3 DEF Straight

-----------------------------------------------------------------------------
(* What is collected *)

EdgeFlows == {EdgeFlow(e) : e \in Edges}
DefaultFlows == {DefaultFlow(n, i) : n \in Node, i \in Nat}
NeverFlows == {NeverFlow(n, t) : n \in Node, t \in {"effects", "handles"}}
HandledFlows == {HandledFlow(n) : n \in {m \in Node : parent[m] # NoNode}}
UnhandledFlows == {UnhandledFlow(n) : n \in {m \in Node : parent[m] # NoNode}}

AllFlows == EdgeFlows \cup DefaultFlows \cup NeverFlows \cup HandledFlows \cup UnhandledFlows

(* Flows are told apart by their kind. *)
LEMMA KindsTell ==
    ASSUME NEW f \in AllFlows
    PROVE  /\ f.kind = "edge" <=> f \in EdgeFlows
           /\ f.kind = "default" <=> f \in DefaultFlows
           /\ f.kind = "never" <=> f \in NeverFlows
           /\ f.kind = "handled" <=> f \in HandledFlows
           /\ f.kind = "unhandled" <=> f \in UnhandledFlows
BY DEF AllFlows, EdgeFlows, DefaultFlows, NeverFlows, HandledFlows, UnhandledFlows,
       EdgeFlow, DefaultFlow, NeverFlow, HandledFlow, UnhandledFlow

(* Every flow starts and ends at a node. *)
LEMMA FlowEnds ==
    ASSUME ProgramInv, NEW f \in AllFlows
    PROVE  f.from \in Node /\ f.into[1] \in Node
<1>1. CASE f \in EdgeFlows
  BY <1>1, ProgramTyped DEF EdgeFlows, EdgeFlow, EndOf
<1>2. CASE f \in DefaultFlows \cup NeverFlows
  BY <1>2 DEF DefaultFlows, DefaultFlow, NeverFlows, NeverFlow
<1>3. CASE f \in HandledFlows \cup UnhandledFlows
  BY <1>3, ProgramTyped DEF HandledFlows, HandledFlow, UnhandledFlows, UnhandledFlow
<1> QED
  BY <1>1, <1>2, <1>3 DEF AllFlows

(* What each step lists is finite. *)
LEMMA EdgesOfAreListed ==
    ASSUME NEW n \in Node
    PROVE  /\ {EdgeFlow(e) : e \in EdgesOf(n)} \in SUBSET EdgeFlows
           /\ IsFiniteSet({EdgeFlow(e) : e \in EdgesOf(n)})
<1> DEFINE listed == {EdgeFlow(e) : e \in EdgesOf(n)}
<1>1. EdgesOf(n) \in SUBSET EdgeId /\ EdgesOf(n) \subseteq Edges
  BY DEF EdgesOf, EdgesFrom, Edges
<1>2. IsFiniteSet(EdgesOf(n))
  BY <1>1, FiniteAssumption, FS_Subset
<1>3. [e \in EdgesOf(n) |-> EdgeFlow(e)] \in Surjection(EdgesOf(n), listed)
  BY Fun_IsSurj
<1>4. IsFiniteSet(listed)
  BY <1>2, <1>3, FS_Surjection
<1> QED
  BY <1>1, <1>4 DEF EdgeFlows

LEMMA DefaultsOfAreListed ==
    ASSUME ProgramInv, NEW n \in Node
    PROVE  /\ {DefaultFlow(n, i) : i \in DefaultsOf(n)} \in SUBSET DefaultFlows
           /\ IsFiniteSet({DefaultFlow(n, i) : i \in DefaultsOf(n)})
<1> DEFINE listed == {DefaultFlow(n, i) : i \in DefaultsOf(n)}
<1>1. DefaultsOf(n) \in SUBSET shape[n].defaults /\ DefaultsOf(n) \subseteq Nat
  BY ProgramTyped DEF DefaultsOf
<1>2. IsFiniteSet(DefaultsOf(n))
  BY <1>1, ProgramTyped, FS_Subset
<1>3. [i \in DefaultsOf(n) |-> DefaultFlow(n, i)] \in Surjection(DefaultsOf(n), listed)
  BY Fun_IsSurj
<1>4. IsFiniteSet(listed)
  BY <1>2, <1>3, FS_Surjection
<1> QED
  BY <1>1, <1>4 DEF DefaultFlows

AllNevers == UNION {{NeverFlow(n, t) : t \in NeverTargets(n)} : n \in Node}

AllChildFlows == UNION {ChildFlows(n) : n \in Node}

LEMMA NeversAreListed == AllNevers \in SUBSET NeverFlows /\ IsFiniteSet(AllNevers)
<1> DEFINE targets == {"effects", "handles"}
<1>1. IsFiniteSet(targets)
  <2>1. targets = {"effects"} \cup {"handles"}
    OBVIOUS
  <2>2. IsFiniteSet({"effects"}) /\ IsFiniteSet({"handles"})
    BY FS_Singleton
  <2> QED
    BY <2>1, <2>2, FS_Union
<1>2. IsFiniteSet(Node \X targets)
  BY <1>1, FiniteAssumption, FS_Product
<1>3. [x \in Node \X targets |-> NeverFlow(x[1], x[2])] \in Surjection(Node \X targets, NeverFlows)
  <2>1. \A f \in NeverFlows : \E x \in Node \X targets : f = NeverFlow(x[1], x[2])
    <3>1. ASSUME NEW n \in Node, NEW t \in targets
          PROVE  \E x \in Node \X targets : NeverFlow(n, t) = NeverFlow(x[1], x[2])
      <4>1. <<n, t>> \in Node \X targets /\ NeverFlow(n, t) = NeverFlow(<<n, t>>[1], <<n, t>>[2])
        OBVIOUS
      <4> QED
        BY <4>1
    <3> QED
      BY <3>1 DEF NeverFlows
  <2>2. \A x \in Node \X targets : NeverFlow(x[1], x[2]) \in NeverFlows
    BY DEF NeverFlows
  <2> QED
    BY <2>1, <2>2, Fun_IsSurj
<1>4. IsFiniteSet(NeverFlows)
  BY <1>2, <1>3, FS_Surjection
<1>5. AllNevers \in SUBSET NeverFlows
  BY DEF AllNevers, NeverTargets, NeverFlows
<1> QED
  BY <1>4, <1>5, FS_Subset

LEMMA ChildFlowsAreListed ==
    AllChildFlows \in SUBSET (HandledFlows \cup UnhandledFlows) /\ IsFiniteSet(AllChildFlows)
<1> DEFINE children == {n \in Node : parent[n] # NoNode}
<1>1. IsFiniteSet(children)
  BY FiniteAssumption, FS_Subset
<1>2. [n \in children |-> HandledFlow(n)] \in Surjection(children, HandledFlows)
  BY Fun_IsSurj DEF HandledFlows
<1>3. [n \in children |-> UnhandledFlow(n)] \in Surjection(children, UnhandledFlows)
  BY Fun_IsSurj DEF UnhandledFlows
<1>4. IsFiniteSet(HandledFlows \cup UnhandledFlows)
  BY <1>1, <1>2, <1>3, FS_Surjection, FS_Union
<1>5. AllChildFlows \in SUBSET (HandledFlows \cup UnhandledFlows)
  BY DEF AllChildFlows, ChildFlows, HandledFlows, UnhandledFlows
<1> QED
  BY <1>4, <1>5, FS_Subset

-----------------------------------------------------------------------------
(* The inductive invariant *)

(* The nodes whose edges, and whose defaults, have been collected. *)
EdgesDone == IF phase = "edges" THEN visited ELSE Straight

DefaultsDone == IF phase = "edges" THEN {} ELSE IF phase = "defaults" THEN visited ELSE Straight

(* Types, and what Topo has returned is closed under predecessors. *)
PassInv ==
    /\ ProgramInv
    /\ phase \in {"edges", "defaults", "effects", "children", "done"}
    /\ visited \subseteq Straight
    /\ phase \in {"edges", "defaults"}
          => \A e \in Edges : edges[e].target \in visited => edges[e].source \in visited
    /\ flows \in Seq(AllFlows)

(* An input is populated if the edges of the node at the other end were collected. *)
PopulatedInv == populated = {EndOf(e) : e \in {d \in Edges : edges[d].source \in EdgesDone}}

PositionsOf(e) == {i \in FlowsOf("edge") : flows[i].edge = e}

(* Each edge that takes part has its one flow once its source was returned. *)
EdgesInv ==
    \A e \in Edges :
        IF TakesPart(e) /\ edges[e].source \in EdgesDone
        THEN \E i \in DOMAIN flows : PositionsOf(e) = {i}
        ELSE PositionsOf(e) = {}

DefaultPositions(n, i) == {k \in FlowsOf("default") : flows[k].into = <<n, i>>}

(* Each node has the flows of its defaults once it was returned again. *)
DefaultsInv ==
    \A n \in Node, i \in Nat :
        n \in DefaultsDone /\ i \in DefaultsOf(n) <=> DefaultPositions(n, i) # {}

(* Never flows before anything that children throw. *)
EffectsInv ==
    /\ phase \in {"children", "done"} => \A f \in AllNevers : \E i \in DOMAIN flows : flows[i] = f
    /\ phase = "done" => \A f \in AllChildFlows : \E i \in DOMAIN flows : flows[i] = f
    /\ phase # "done" => FlowsOf("handled") \cup FlowsOf("unhandled") = {}

FlowInv ==
    /\ PassInv
    /\ PopulatedInv
    /\ EdgesInv
    /\ FlowsInTopologicalOrder
    /\ DefaultsInv
    /\ EffectsInv
    /\ EffectsStartAtNever

(* What the program says does not change while it is collected. *)
LEMMA ProgramFixed ==
    ASSUME UNCHANGED programVars
    PROVE  /\ Edges' = Edges /\ Straight' = Straight /\ AllFlows' = AllFlows
           /\ AllNevers' = AllNevers /\ AllChildFlows' = AllChildFlows
           /\ ProgramInv' = ProgramInv
           /\ \A e : TakesPart(e)' = TakesPart(e) /\ EndOf(e)' = EndOf(e)
<1> USE DEF programVars
<1>1. Edges' = Edges
  BY DEF Edges
<1>2. Straight' = Straight
  BY <1>1 DEF Straight, BehindCycle
<1>3. \A e : TakesPart(e)' = TakesPart(e) /\ EndOf(e)' = EndOf(e)
  BY DEF TakesPart, EndOf, OutputType, InputType, PortType
<1>4. AllFlows' = AllFlows
  <2>1. EdgeFlows' = EdgeFlows
    BY <1>1 DEF EdgeFlows, EdgeFlow, EndOf
  <2>2. DefaultFlows' = DefaultFlows /\ NeverFlows' = NeverFlows
    BY DEF DefaultFlows, DefaultFlow, NeverFlows, NeverFlow
  <2>3. HandledFlows' = HandledFlows /\ UnhandledFlows' = UnhandledFlows
    BY DEF HandledFlows, HandledFlow, UnhandledFlows, UnhandledFlow
  <2> QED
    BY <2>1, <2>2, <2>3 DEF AllFlows
<1>5. AllNevers' = AllNevers
  BY DEF AllNevers, NeverFlow, NeverTargets
<1>6. AllChildFlows' = AllChildFlows
  BY DEF AllChildFlows, ChildFlows, HandledFlow, UnhandledFlow
<1>7. ProgramInv' = ProgramInv
  BY DEF ProgramInv
<1> QED
  BY <1>1, <1>2, <1>3, <1>4, <1>5, <1>6, <1>7

-----------------------------------------------------------------------------
(* What appending flows of some kinds leaves as it was *)

(* A step that pushes a listing of R appends R. *)
LEMMA PushAppends ==
    ASSUME flows \in Seq(AllFlows), UNCHANGED programVars,
           NEW R \in SUBSET AllFlows, IsFiniteSet(R), NEW order \in SetToSeqs(R),
           flows' = flows \o order
    PROVE  flows' \in Seq(AllFlows') /\ Appended(flows, flows', R)
BY AppendListing, ProgramFixed

(* A step that pushes nothing appends nothing. *)
LEMMA NothingAppended ==
    ASSUME flows \in Seq(AllFlows), UNCHANGED <<programVars, flows>>
    PROVE  flows' \in Seq(AllFlows') /\ Appended(flows, flows', {})
<1>1. DOMAIN flows \subseteq Nat
  BY LenProperties
<1>2. AllFlows' = AllFlows
  BY ProgramFixed
<1> QED
  BY <1>1, <1>2 DEF Appended

(* The flows of a kind that is not appended stay where they are. *)
LEMMA KindKept ==
    ASSUME NEW R, Appended(flows, flows', R), NEW kind, \A r \in R : r.kind # kind
    PROVE  FlowsOf(kind)' = FlowsOf(kind) /\ \A i \in FlowsOf(kind) : flows'[i] = flows[i]
BY DEF Appended, FlowsOf

(* Without new edge flows, the edges that were collected stay the ones that flow. *)
LEMMA EdgesKept ==
    ASSUME ProgramInv, EdgesInv, FlowsInTopologicalOrder, UNCHANGED programVars,
           NEW R, Appended(flows, flows', R), \A r \in R : r.kind # "edge",
           EdgesDone' = EdgesDone
    PROVE  EdgesInv' /\ FlowsInTopologicalOrder'
<1>1. FlowsOf("edge")' = FlowsOf("edge") /\ \A i \in FlowsOf("edge") : flows'[i] = flows[i]
  BY KindKept
<1>2. \A e : PositionsOf(e)' = PositionsOf(e)
  BY <1>1 DEF PositionsOf
<1>3. DOMAIN flows \subseteq DOMAIN flows'
  BY DEF Appended
<1>4. EdgesInv'
  <2> SUFFICES ASSUME NEW e \in Edges
               PROVE  IF TakesPart(e) /\ edges[e].source \in EdgesDone
                      THEN \E i \in DOMAIN flows' : PositionsOf(e) = {i}
                      ELSE PositionsOf(e) = {}
    BY <1>2, ProgramFixed DEF EdgesInv, programVars
  <2> QED
    BY <1>3 DEF EdgesInv
<1>5. FlowsInTopologicalOrder'
  BY <1>1 DEF FlowsInTopologicalOrder
<1> QED
  BY <1>4, <1>5

(* Without new default flows, the same defaults have been applied. *)
LEMMA DefaultsKept ==
    ASSUME DefaultsInv, NEW R, Appended(flows, flows', R), \A r \in R : r.kind # "default",
           DefaultsDone' = DefaultsDone, \A n \in DefaultsDone : DefaultsOf(n)' = DefaultsOf(n)
    PROVE  DefaultsInv'
<1>1. FlowsOf("default")' = FlowsOf("default") /\ \A i \in FlowsOf("default") : flows'[i] = flows[i]
  BY KindKept
<1>2. \A n, i : DefaultPositions(n, i)' = DefaultPositions(n, i)
  BY <1>1 DEF DefaultPositions
<1> QED
  BY <1>2 DEF DefaultsInv

(* Without new flows of effects, those of the children still end on a Never. *)
LEMMA NothingThrown ==
    ASSUME EffectsInv, EffectsStartAtNever, UNCHANGED programVars,
           NEW R, Appended(flows, flows', R), \A r \in R : r.kind \notin {"handled", "unhandled"},
           phase \notin {"children", "done"}, phase' \notin {"children", "done"}
    PROVE  EffectsInv' /\ EffectsStartAtNever'
<1>1. FlowsOf("handled")' = FlowsOf("handled") /\ FlowsOf("unhandled")' = FlowsOf("unhandled")
  BY KindKept
<1>2. FlowsOf("handled") \cup FlowsOf("unhandled") = {}
  BY DEF EffectsInv
<1> QED
  BY <1>1, <1>2 DEF EffectsInv, EffectsStartAtNever

-----------------------------------------------------------------------------
(* Every step keeps the invariant *)

LEMMA FlowInvInit ==
    ASSUME Init
    PROVE  FlowInv
<1>1. DOMAIN flows = {} /\ flows \in Seq(AllFlows)
  BY DEF Init
<1>2. \A kind : FlowsOf(kind) = {}
  BY <1>1 DEF FlowsOf
<1>3. PassInv /\ PopulatedInv
  BY <1>1 DEF Init, PassInv, PopulatedInv, ProgramInv, EdgesDone
<1>4. EdgesInv /\ FlowsInTopologicalOrder
  BY <1>2 DEF Init, EdgesInv, PositionsOf, EdgesDone, FlowsInTopologicalOrder
<1>5. DefaultsInv
  BY <1>2 DEF Init, DefaultsInv, DefaultPositions, DefaultsDone
<1>6. EffectsInv /\ EffectsStartAtNever
  BY <1>2 DEF Init, EffectsInv, EffectsStartAtNever
<1> QED
  BY <1>3, <1>4, <1>5, <1>6 DEF FlowInv

(* An edge flow is the flow of an edge whose source was returned. *)
LEMMA EdgeFlowOfEdge ==
    ASSUME PassInv, EdgesInv, NEW i \in FlowsOf("edge")
    PROVE  /\ flows[i].edge \in Edges
           /\ flows[i] = EdgeFlow(flows[i].edge)
           /\ edges[flows[i].edge].source \in EdgesDone
<1>1. i \in DOMAIN flows /\ flows[i].kind = "edge"
  BY DEF FlowsOf
<1>2. flows[i] \in AllFlows
  BY <1>1, ElementOfSeq, LenProperties DEF PassInv
<1>3. PICK e \in Edges : flows[i] = EdgeFlow(e)
  BY <1>1, <1>2, KindsTell DEF EdgeFlows
<1>4. flows[i].edge = e
  BY <1>3 DEF EdgeFlow
<1>5. i \in PositionsOf(e)
  BY <1>4 DEF PositionsOf
<1> QED
  BY <1>3, <1>4, <1>5 DEF EdgesInv

LEMMA EdgeFlowFields ==
    ASSUME NEW e
    PROVE  /\ EdgeFlow(e).from = edges[e].source /\ EdgeFlow(e).into = EndOf(e)
           /\ EdgeFlow(e).into[1] = edges[e].target /\ EdgeFlow(e).edge = e
BY DEF EdgeFlow, EndOf

(* The edges of the returned node flow once, behind the flows that enter it. *)
LEMMA CollectEdgesKeepsEdges ==
    ASSUME FlowInv, NEW n \in Node, CollectEdges(n),
           Appended(flows, flows', {EdgeFlow(e) : e \in EdgesOf(n)})
    PROVE  EdgesInv' /\ FlowsInTopologicalOrder'
<1> DEFINE new == DOMAIN flows' \ DOMAIN flows
<1>1. /\ PassInv /\ EdgesInv /\ FlowsInTopologicalOrder /\ ProgramInv
      /\ phase = "edges" /\ n \in Ready /\ visited' = visited \cup {n}
      /\ UNCHANGED programVars /\ phase' = phase
  BY DEF FlowInv, PassInv, CollectEdges
<1>2. EdgesDone = visited /\ EdgesDone' = visited \cup {n} /\ n \notin visited
  BY <1>1 DEF EdgesDone, Ready
<1>3. \A j \in new : \E e \in EdgesOf(n) : flows'[j] = EdgeFlow(e)
  BY DEF Appended
<1>4. \A e \in EdgesOf(n) : e \in Edges /\ edges[e].source = n /\ TakesPart(e)
  BY DEF EdgesOf, EdgesFrom
<1>5. /\ DOMAIN flows \subseteq DOMAIN flows' /\ DOMAIN flows' \subseteq Nat
      /\ \A i \in DOMAIN flows : flows'[i] = flows[i]
      /\ \A i \in DOMAIN flows, j \in new : i < j
  BY DEF Appended
<1>6. FlowsOf("edge")' = FlowsOf("edge") \cup new
  BY <1>3, <1>5 DEF FlowsOf, EdgeFlow
<1>7. \A e : PositionsOf(e)' = PositionsOf(e) \cup {j \in new : flows'[j].edge = e}
  BY <1>5, <1>6 DEF PositionsOf, FlowsOf
<1> HIDE DEF new
<1>8. EdgesInv'
  <2> SUFFICES ASSUME NEW e \in Edges
               PROVE  IF TakesPart(e) /\ edges[e].source \in EdgesDone'
                      THEN \E i \in DOMAIN flows' : PositionsOf(e)' = {i}
                      ELSE PositionsOf(e)' = {}
    BY <1>1, ProgramFixed DEF EdgesInv, programVars
  <2>1. CASE e \in EdgesOf(n)
    <3>1. PositionsOf(e) = {}
      BY <1>1, <1>2, <1>4, <2>1 DEF EdgesInv
    <3>2. PICK j \in new : flows'[j] = EdgeFlow(e)
      BY <2>1 DEF Appended, new
    <3>3. ASSUME NEW k \in new, flows'[k].edge = e
          PROVE  k = j
      <4>1. flows'[k] = EdgeFlow(e)
        BY <1>3, <3>3, EdgeFlowFields
      <4> QED
        BY <3>2, <4>1 DEF Appended, new
    <3>4. PositionsOf(e)' = {j}
      BY <1>7, <3>1, <3>2, <3>3, EdgeFlowFields
    <3> QED
      BY <1>2, <1>4, <2>1, <3>2, <3>4 DEF new
  <2>2. CASE e \notin EdgesOf(n)
    <3>1. PositionsOf(e)' = PositionsOf(e)
      <4>1. \A j \in new : flows'[j].edge \in EdgesOf(n)
        BY <1>3, EdgeFlowFields
      <4>2. {j \in new : flows'[j].edge = e} = {}
        BY <2>2, <4>1
      <4>3. PositionsOf(e)' = PositionsOf(e) \cup {j \in new : flows'[j].edge = e}
        BY <1>7
      <4> QED
        BY <4>2, <4>3
    <3>2. ~(TakesPart(e) /\ edges[e].source = n)
      BY <2>2 DEF EdgesOf, EdgesFrom
    <3> QED
      BY <1>1, <1>2, <1>5, <3>1, <3>2 DEF EdgesInv
  <2> QED
    BY <2>1, <2>2
<1>9. FlowsInTopologicalOrder'
  <2> SUFFICES ASSUME NEW i \in FlowsOf("edge")', NEW j \in FlowsOf("edge")', i < j,
                      flows'[j].into[1] = flows'[i].from
               PROVE  FALSE
    BY DEF FlowsInTopologicalOrder
  <2>1. CASE j \in FlowsOf("edge")
    <3>1. i \in FlowsOf("edge")
      BY <1>5, <1>6, <2>1 DEF FlowsOf
    <3>2. flows'[i] = flows[i] /\ flows'[j] = flows[j]
      BY <1>5, <2>1, <3>1 DEF FlowsOf
    <3> QED
      BY <1>1, <2>1, <3>1, <3>2 DEF FlowsInTopologicalOrder
  <2>2. CASE j \in new
    <3>1. PICK d \in Edges : edges[d].source = n /\ flows'[j].into[1] = edges[d].target
      BY <1>3, <1>4, <2>2, EdgeFlowFields
    <3>2. flows'[i].from \in visited \cup {n}
      <4>1. CASE i \in FlowsOf("edge")
        <5>1. flows'[i] = flows[i]
          BY <1>5, <4>1 DEF FlowsOf
        <5>2. flows[i].from = edges[flows[i].edge].source
          BY <1>1, <4>1, EdgeFlowOfEdge, EdgeFlowFields
        <5> QED
          BY <1>1, <1>2, <4>1, <5>1, <5>2, EdgeFlowOfEdge
      <4>2. CASE i \in new
        BY <1>3, <1>4, <4>2, EdgeFlowFields
      <4> QED
        BY <1>6, <4>1, <4>2
    <3>3. CASE edges[d].target \in visited
      BY <1>1, <1>2, <3>1, <3>3 DEF PassInv
    <3>4. CASE edges[d].target = n
      BY <1>1, <1>2, <3>1, <3>4 DEF Ready
    <3> QED
      BY <3>1, <3>2, <3>3, <3>4
  <2> QED
    BY <1>6, <2>1, <2>2
<1> QED
  BY <1>8, <1>9

LEMMA CollectEdgesKeeps ==
    ASSUME FlowInv, NEW n \in Node, CollectEdges(n)
    PROVE  FlowInv'
<1> DEFINE R == {EdgeFlow(e) : e \in EdgesOf(n)}
<1>1. /\ PassInv /\ ProgramInv /\ PopulatedInv /\ DefaultsInv /\ EffectsInv /\ EffectsStartAtNever
      /\ phase = "edges" /\ n \in Ready /\ visited' = visited \cup {n}
      /\ UNCHANGED programVars /\ phase' = phase
      /\ populated' = populated \cup PopulatedBy(n)
      /\ flows \in Seq(AllFlows)
  BY DEF FlowInv, PassInv, CollectEdges
<1>2. R \in SUBSET EdgeFlows /\ R \in SUBSET AllFlows /\ IsFiniteSet(R)
  BY EdgesOfAreListed DEF AllFlows
<1>3. PICK order \in SetToSeqs(R) : flows' = flows \o order
  BY DEF CollectEdges, Push
<1> HIDE DEF R
<1>4. flows' \in Seq(AllFlows') /\ Appended(flows, flows', R)
  BY <1>1, <1>2, <1>3, PushAppends
<1>5. \A r \in R : r.kind = "edge"
  BY <1>2, KindsTell
<1>6. PassInv'
  <2>1. visited' \subseteq Straight'
    BY <1>1, ProgramFixed, ReadyIsStraight DEF PassInv
  <2>2. \A e \in Edges : edges[e].target \in visited' => edges[e].source \in visited'
    BY <1>1 DEF PassInv, Ready
  <2> QED
    BY <1>1, <1>4, <2>1, <2>2, ProgramFixed DEF PassInv, programVars
<1>7. PopulatedInv'
  <2>1. populated' = {EndOf(e) : e \in {d \in Edges : edges[d].source \in visited \cup {n}}}
    BY <1>1 DEF PopulatedInv, EdgesDone, PopulatedBy, EdgesFrom
  <2>2. EdgesDone' = visited \cup {n}
    BY <1>1 DEF EdgesDone
  <2> QED
    BY <1>1, <2>1, <2>2, ProgramFixed DEF PopulatedInv, programVars
<1>8. EdgesInv' /\ FlowsInTopologicalOrder'
  BY <1>4, CollectEdgesKeepsEdges DEF R
<1>9. DefaultsInv'
  BY <1>1, <1>4, <1>5, DefaultsKept DEF DefaultsDone
<1>10. EffectsInv' /\ EffectsStartAtNever'
  BY <1>1, <1>4, <1>5, NothingThrown
<1> QED
  BY <1>6, <1>7, <1>8, <1>9, <1>10 DEF FlowInv

(* At the end of a pass exactly the nodes behind no cycle were returned. *)
LEMMA EndEdgesKeeps ==
    ASSUME FlowInv, EndEdges
    PROVE  FlowInv'
<1>1. /\ PassInv /\ ProgramInv /\ PopulatedInv /\ EdgesInv /\ FlowsInTopologicalOrder
      /\ DefaultsInv /\ EffectsInv /\ EffectsStartAtNever
      /\ phase = "edges" /\ phase' = "defaults" /\ visited' = {}
      /\ UNCHANGED programVars /\ UNCHANGED <<populated, flows>>
      /\ flows \in Seq(AllFlows)
  BY DEF FlowInv, PassInv, EndEdges
<1>2. visited = Straight
  BY <1>1, UnreadyIsBehindCycle DEF EndEdges, PassInv
<1>3. flows' \in Seq(AllFlows') /\ Appended(flows, flows', {})
  BY <1>1, NothingAppended
<1>4. EdgesDone' = EdgesDone /\ DefaultsDone = {} /\ DefaultsDone' = {}
  BY <1>1, <1>2, ProgramFixed DEF EdgesDone, DefaultsDone
<1>5. PassInv'
  BY <1>1, <1>3, ProgramFixed DEF PassInv
<1>6. PopulatedInv'
  BY <1>1, <1>4, ProgramFixed DEF PopulatedInv, programVars
<1>7. EdgesInv' /\ FlowsInTopologicalOrder'
  BY <1>1, <1>3, <1>4, EdgesKept
<1>8. DefaultsInv'
  BY <1>1, <1>3, <1>4, DefaultsKept
<1>9. EffectsInv' /\ EffectsStartAtNever'
  BY <1>1, <1>3, NothingThrown
<1> QED
  BY <1>5, <1>6, <1>7, <1>8, <1>9 DEF FlowInv

LEMMA CollectDefaultsKeeps ==
    ASSUME FlowInv, NEW n \in Node, CollectDefaults(n)
    PROVE  FlowInv'
<1> DEFINE R == {DefaultFlow(n, i) : i \in DefaultsOf(n)}
           new == DOMAIN flows' \ DOMAIN flows
<1>1. /\ PassInv /\ ProgramInv /\ PopulatedInv /\ EdgesInv /\ FlowsInTopologicalOrder
      /\ DefaultsInv /\ EffectsInv /\ EffectsStartAtNever
      /\ phase = "defaults" /\ n \in Ready /\ visited' = visited \cup {n}
      /\ UNCHANGED programVars /\ phase' = phase /\ UNCHANGED populated
      /\ flows \in Seq(AllFlows)
  BY DEF FlowInv, PassInv, CollectDefaults
<1>2. R \in SUBSET DefaultFlows /\ R \in SUBSET AllFlows /\ IsFiniteSet(R)
  BY <1>1, DefaultsOfAreListed DEF AllFlows
<1>3. PICK order \in SetToSeqs(R) : flows' = flows \o order
  BY DEF CollectDefaults, Push
<1> HIDE DEF R
<1>4. flows' \in Seq(AllFlows') /\ Appended(flows, flows', R)
  BY <1>1, <1>2, <1>3, PushAppends
<1>5. \A r \in R : r.kind = "default"
  BY <1>2, KindsTell
<1>6. PassInv'
  <2>1. visited' \subseteq Straight'
    BY <1>1, ProgramFixed, ReadyIsStraight DEF PassInv
  <2>2. \A e \in Edges : edges[e].target \in visited' => edges[e].source \in visited'
    BY <1>1 DEF PassInv, Ready
  <2> QED
    BY <1>1, <1>4, <2>1, <2>2, ProgramFixed DEF PassInv, programVars
<1>7. EdgesDone' = EdgesDone
  BY <1>1, ProgramFixed DEF EdgesDone
<1>8. PopulatedInv'
  BY <1>1, <1>7, ProgramFixed DEF PopulatedInv, programVars
<1>9. EdgesInv' /\ FlowsInTopologicalOrder'
  BY <1>1, <1>4, <1>5, <1>7, EdgesKept
<1>10. DefaultsInv'
  <2>1. \A j \in new : \E i \in DefaultsOf(n) : flows'[j] = DefaultFlow(n, i)
    BY <1>4 DEF Appended, R
  <2>2. /\ DOMAIN flows \subseteq DOMAIN flows'
        /\ \A i \in DOMAIN flows : flows'[i] = flows[i]
    BY <1>4 DEF Appended
  <2>3. FlowsOf("default")' = FlowsOf("default") \cup new
    BY <2>1, <2>2 DEF FlowsOf, DefaultFlow
  <2>4. \A m, i : DefaultPositions(m, i)'
                  = DefaultPositions(m, i) \cup {k \in new : flows'[k].into = <<m, i>>}
    BY <2>2, <2>3 DEF DefaultPositions, FlowsOf
  <2>5. \A m, i : {k \in new : flows'[k].into = <<m, i>>} # {} <=> m = n /\ i \in DefaultsOf(n)
    <3> TAKE m, i
    <3>1. ASSUME NEW k \in new, flows'[k].into = <<m, i>>
          PROVE  m = n /\ i \in DefaultsOf(n)
      BY <2>1, <3>1 DEF DefaultFlow
    <3>2. ASSUME m = n, i \in DefaultsOf(n)
          PROVE  \E k \in new : flows'[k].into = <<m, i>>
      <4>1. DefaultFlow(n, i) \in R
        BY <3>2 DEF R
      <4>2. \E k \in new : flows'[k] = DefaultFlow(n, i)
        BY <1>4, <4>1 DEF Appended
      <4> QED
        BY <3>2, <4>2 DEF DefaultFlow
    <3> QED
      BY <3>1, <3>2
  <2>6. DefaultsDone = visited /\ DefaultsDone' = visited \cup {n}
    BY <1>1 DEF DefaultsDone
  <2>7. \A m : DefaultsOf(m)' = DefaultsOf(m)
    BY <1>1 DEF DefaultsOf, InputType, PortType, programVars
  <2> HIDE DEF new
  <2> SUFFICES ASSUME NEW m \in Node, NEW i \in Nat
               PROVE  (m \in visited \cup {n} /\ i \in DefaultsOf(m)) <=> DefaultPositions(m, i)' # {}
    BY <2>6, <2>7 DEF DefaultsInv
  <2>8. (m \in visited /\ i \in DefaultsOf(m)) <=> DefaultPositions(m, i) # {}
    BY <1>1, <2>6 DEF DefaultsInv
  <2>9. DefaultPositions(m, i)' # {}
        <=> (DefaultPositions(m, i) # {} \/ {k \in new : flows'[k].into = <<m, i>>} # {})
    BY <2>4
  <2> QED
    BY <2>5, <2>8, <2>9
<1>11. EffectsInv' /\ EffectsStartAtNever'
  BY <1>1, <1>4, <1>5, NothingThrown
<1> QED
  BY <1>6, <1>8, <1>9, <1>10, <1>11 DEF FlowInv

LEMMA EndDefaultsKeeps ==
    ASSUME FlowInv, EndDefaults
    PROVE  FlowInv'
<1>1. /\ PassInv /\ ProgramInv /\ PopulatedInv /\ EdgesInv /\ FlowsInTopologicalOrder
      /\ DefaultsInv /\ EffectsInv /\ EffectsStartAtNever
      /\ phase = "defaults" /\ phase' = "effects" /\ visited' = {}
      /\ UNCHANGED programVars /\ UNCHANGED <<populated, flows>>
      /\ flows \in Seq(AllFlows)
  BY DEF FlowInv, PassInv, EndDefaults
<1>2. visited = Straight
  BY <1>1, UnreadyIsBehindCycle DEF EndDefaults, PassInv
<1>3. flows' \in Seq(AllFlows') /\ Appended(flows, flows', {})
  BY <1>1, NothingAppended
<1>4. EdgesDone' = EdgesDone /\ DefaultsDone' = DefaultsDone
  BY <1>1, <1>2, ProgramFixed DEF EdgesDone, DefaultsDone
<1>5. PassInv'
  BY <1>1, <1>3, ProgramFixed DEF PassInv
<1>6. PopulatedInv'
  BY <1>1, <1>4, ProgramFixed DEF PopulatedInv, programVars
<1>7. EdgesInv' /\ FlowsInTopologicalOrder'
  BY <1>1, <1>3, <1>4, EdgesKept
<1>8. \A n : DefaultsOf(n)' = DefaultsOf(n)
  BY <1>1 DEF DefaultsOf, InputType, PortType, programVars
<1>9. DefaultsInv'
  BY <1>1, <1>3, <1>4, <1>8, DefaultsKept
<1>10. EffectsInv' /\ EffectsStartAtNever'
  BY <1>1, <1>3, NothingThrown
<1> QED
  BY <1>5, <1>6, <1>7, <1>9, <1>10 DEF FlowInv

(* The part of the invariant that the steps of effects have in common. *)
LEMMA PassesStayDone ==
    ASSUME FlowInv, UNCHANGED programVars, UNCHANGED <<visited, populated>>,
           phase \in {"effects", "children"}, phase' \in {"children", "done"},
           NEW R, flows' \in Seq(AllFlows'), Appended(flows, flows', R),
           \A r \in R : r.kind \notin {"edge", "default"}
    PROVE  PassInv' /\ PopulatedInv' /\ EdgesInv' /\ FlowsInTopologicalOrder' /\ DefaultsInv'
<1>1. /\ PassInv /\ ProgramInv /\ PopulatedInv /\ EdgesInv /\ FlowsInTopologicalOrder /\ DefaultsInv
  BY DEF FlowInv, PassInv
<1>2. EdgesDone' = EdgesDone /\ DefaultsDone' = DefaultsDone
  BY ProgramFixed DEF EdgesDone, DefaultsDone
<1>3. PassInv'
  BY <1>1, ProgramFixed DEF PassInv
<1>4. PopulatedInv'
  BY <1>1, <1>2, ProgramFixed DEF PopulatedInv, programVars
<1>5. EdgesInv' /\ FlowsInTopologicalOrder'
  BY <1>1, <1>2, EdgesKept
<1>6. \A n : DefaultsOf(n)' = DefaultsOf(n)
  BY DEF DefaultsOf, InputType, PortType, programVars
<1>7. DefaultsInv'
  BY <1>1, <1>2, <1>6, DefaultsKept
<1> QED
  BY <1>3, <1>4, <1>5, <1>7

LEMMA CollectEffectsKeeps ==
    ASSUME FlowInv, CollectEffects
    PROVE  FlowInv'
<1>1. /\ PassInv /\ ProgramInv /\ EffectsInv
      /\ phase = "effects" /\ phase' = "children"
      /\ UNCHANGED programVars /\ UNCHANGED <<visited, populated>>
      /\ flows \in Seq(AllFlows)
      /\ flows' = flows \o SetToSeq(AllNevers)
  BY DEF FlowInv, PassInv, CollectEffects, AllNevers
<1>2. AllNevers \in SUBSET AllFlows /\ IsFiniteSet(AllNevers)
  BY NeversAreListed DEF AllFlows
<1>3. flows' \in Seq(AllFlows') /\ Appended(flows, flows', AllNevers)
  BY <1>1, <1>2, SetToSeqIsListing, PushAppends
<1>4. \A r \in AllNevers : r.kind = "never"
  BY <1>2, NeversAreListed, KindsTell
<1>5. PassInv' /\ PopulatedInv' /\ EdgesInv' /\ FlowsInTopologicalOrder' /\ DefaultsInv'
  BY <1>1, <1>3, <1>4, PassesStayDone
<1>6. FlowsOf("handled")' \cup FlowsOf("unhandled")' = {}
  <2>1. FlowsOf("handled")' = FlowsOf("handled") /\ FlowsOf("unhandled")' = FlowsOf("unhandled")
    BY <1>3, <1>4, KindKept
  <2>2. FlowsOf("handled") \cup FlowsOf("unhandled") = {}
    BY <1>1 DEF EffectsInv
  <2> QED
    BY <2>1, <2>2
<1>7. \A f \in AllNevers : \E i \in DOMAIN flows' : flows'[i] = f
  BY <1>3 DEF Appended
<1>8. EffectsInv' /\ EffectsStartAtNever'
  BY <1>1, <1>6, <1>7, ProgramFixed DEF EffectsInv, EffectsStartAtNever
<1> QED
  BY <1>5, <1>8 DEF FlowInv

(* What a child throws into a generic of its parent ends where a Never flow ended. *)
LEMMA ThrownOntoNever ==
    ASSUME ProgramInv, NEW f \in HandledFlows \cup UnhandledFlows,
           IF f.into[2] = "effects" THEN shape[f.into[1]].effects = "param"
                                    ELSE "param" \in shape[f.into[1]].handles
    PROVE  \E g \in AllNevers : g.kind = "never" /\ g.into = f.into
<1>1. PICK n \in Node, t \in {"effects", "handles"} : parent[n] # NoNode /\ f.into = <<parent[n], t>>
  BY DEF HandledFlows, UnhandledFlows, HandledFlow, UnhandledFlow
<1> DEFINE p == parent[n]
<1>2. p \in Node
  BY <1>1, ProgramTyped
<1>3. t \in NeverTargets(p)
  BY <1>1 DEF NeverTargets
<1>4. NeverFlow(p, t) \in AllNevers
  BY <1>2, <1>3 DEF AllNevers
<1>5. NeverFlow(p, t).kind = "never" /\ NeverFlow(p, t).into = f.into
  BY <1>1 DEF NeverFlow
<1> QED
  BY <1>4, <1>5

LEMMA CollectChildEffectsKeeps ==
    ASSUME FlowInv, CollectChildEffects
    PROVE  FlowInv'
<1> DEFINE new == DOMAIN flows' \ DOMAIN flows
<1>1. /\ PassInv /\ ProgramInv /\ EffectsInv
      /\ phase = "children" /\ phase' = "done"
      /\ UNCHANGED programVars /\ UNCHANGED <<visited, populated>>
      /\ flows \in Seq(AllFlows)
      /\ flows' = flows \o SetToSeq(AllChildFlows)
  BY DEF FlowInv, PassInv, CollectChildEffects, AllChildFlows
<1>2. AllChildFlows \in SUBSET AllFlows /\ IsFiniteSet(AllChildFlows)
  BY ChildFlowsAreListed DEF AllFlows
<1>3. flows' \in Seq(AllFlows') /\ Appended(flows, flows', AllChildFlows)
  BY <1>1, <1>2, SetToSeqIsListing, PushAppends
<1>4. \A r \in AllChildFlows : r.kind \in {"handled", "unhandled"}
  BY <1>2, ChildFlowsAreListed, KindsTell
<1>5. PassInv' /\ PopulatedInv' /\ EdgesInv' /\ FlowsInTopologicalOrder' /\ DefaultsInv'
  BY <1>1, <1>3, <1>4, PassesStayDone
<1>6. \A f \in AllNevers : \E i \in DOMAIN flows : flows[i] = f
  BY <1>1 DEF EffectsInv
<1>7. /\ DOMAIN flows \subseteq DOMAIN flows'
      /\ \A i \in DOMAIN flows : flows'[i] = flows[i]
      /\ \A i \in DOMAIN flows, j \in new : i < j
      /\ \A j \in new : flows'[j] \in AllChildFlows
      /\ \A f \in AllChildFlows : \E j \in new : flows'[j] = f
  BY <1>3 DEF Appended
<1>8. EffectsInv'
  <2>1. \A f \in AllNevers : \E i \in DOMAIN flows' : flows'[i] = f
    BY <1>6, <1>7
  <2>2. \A f \in AllChildFlows : \E i \in DOMAIN flows' : flows'[i] = f
    BY <1>7
  <2> QED
    BY <1>1, <2>1, <2>2, ProgramFixed DEF EffectsInv
<1>9. EffectsStartAtNever'
  <2> SUFFICES ASSUME NEW i \in FlowsOf("handled")' \cup FlowsOf("unhandled")',
                      IF flows'[i].into[2] = "effects" THEN shape[flows'[i].into[1]].effects = "param"
                      ELSE "param" \in shape[flows'[i].into[1]].handles
               PROVE  \E j \in FlowsOf("never")' : j < i /\ flows'[j].into = flows'[i].into
    BY <1>1 DEF EffectsStartAtNever, programVars
  <2>1. i \in new
    <3>1. i \in DOMAIN flows' /\ flows'[i].kind \in {"handled", "unhandled"}
      BY DEF FlowsOf
    <3>2. i \notin DOMAIN flows
      BY <1>1, <1>7, <3>1 DEF EffectsInv, FlowsOf
    <3> QED
      BY <3>1, <3>2
  <2>2. flows'[i] \in HandledFlows \cup UnhandledFlows
    BY <1>7, <2>1, ChildFlowsAreListed
  <2>3. PICK g \in AllNevers : g.kind = "never" /\ g.into = flows'[i].into
    BY <1>1, <2>2, ThrownOntoNever
  <2>4. PICK j \in DOMAIN flows : flows[j] = g
    BY <1>6
  <2>5. j \in DOMAIN flows' /\ flows'[j] = g /\ j < i
    BY <1>7, <2>1, <2>4
  <2> QED
    BY <2>3, <2>5 DEF FlowsOf
<1> QED
  BY <1>5, <1>8, <1>9 DEF FlowInv

LEMMA FlowInvStep ==
    ASSUME FlowInv, [Next]_flowVars
    PROVE  FlowInv'
<1>1. ASSUME NEW n \in Node, CollectEdges(n) PROVE FlowInv'
  BY <1>1, CollectEdgesKeeps
<1>2. ASSUME NEW n \in Node, CollectDefaults(n) PROVE FlowInv'
  BY <1>2, CollectDefaultsKeeps
<1>3. CASE EndEdges
  BY <1>3, EndEdgesKeeps
<1>4. CASE EndDefaults
  BY <1>4, EndDefaultsKeeps
<1>5. CASE CollectEffects
  BY <1>5, CollectEffectsKeeps
<1>6. CASE CollectChildEffects
  BY <1>6, CollectChildEffectsKeeps
<1>7. CASE UNCHANGED flowVars
  <2>1. /\ PassInv /\ ProgramInv /\ PopulatedInv /\ EdgesInv /\ FlowsInTopologicalOrder
        /\ DefaultsInv /\ EffectsInv /\ EffectsStartAtNever /\ flows \in Seq(AllFlows)
    BY DEF FlowInv, PassInv
  <2>2. /\ UNCHANGED programVars /\ UNCHANGED <<phase, visited, populated, flows>>
    BY <1>7 DEF flowVars, programVars
  <2>3. flows' \in Seq(AllFlows') /\ Appended(flows, flows', {})
    BY <2>1, <2>2, NothingAppended
  <2>4. EdgesDone' = EdgesDone /\ DefaultsDone' = DefaultsDone
    BY <2>2, ProgramFixed DEF EdgesDone, DefaultsDone
  <2>5. PassInv'
    BY <2>1, <2>2, <2>3, ProgramFixed DEF PassInv, programVars
  <2>6. PopulatedInv'
    BY <2>1, <2>2, <2>4, ProgramFixed DEF PopulatedInv, programVars
  <2>7. EdgesInv' /\ FlowsInTopologicalOrder'
    BY <2>1, <2>2, <2>3, <2>4, EdgesKept
  <2>8. \A n : DefaultsOf(n)' = DefaultsOf(n)
    BY <2>2 DEF DefaultsOf, InputType, PortType, programVars
  <2>9. DefaultsInv'
    BY <2>1, <2>3, <2>4, <2>8, DefaultsKept
  <2>10. EffectsInv' /\ EffectsStartAtNever'
    BY <2>1, <2>2, ProgramFixed DEF EffectsInv, EffectsStartAtNever, FlowsOf, programVars
  <2> QED
    BY <2>5, <2>6, <2>7, <2>9, <2>10 DEF FlowInv
<1> QED
  BY <1>1, <1>2, <1>3, <1>4, <1>5, <1>6, <1>7 DEF Next

LEMMA FlowInvAlways == Spec => []FlowInv
<1>1. Init => FlowInv
  BY FlowInvInit
<1>2. FlowInv /\ [Next]_flowVars => FlowInv'
  BY FlowInvStep
<1> QED
  BY <1>1, <1>2, PTL DEF Spec

-----------------------------------------------------------------------------
(* The theorems *)

(* Phases, returned nodes, populated inputs and the ends of flows have their types. *)
THEOREM FlowsTypeCorrect == Spec => []TypeOK
<1>1. FlowInv => TypeOK
  <2> SUFFICES ASSUME FlowInv PROVE TypeOK
    OBVIOUS
  <2>1. PassInv /\ ProgramInv /\ PopulatedInv
    BY DEF FlowInv, PassInv
  <2>2. visited \subseteq Node /\ phase \in {"edges", "defaults", "effects", "children", "done"}
    BY <2>1 DEF PassInv, Straight
  <2>3. populated \subseteq Node \X Nat
    BY <2>1, ProgramTyped DEF PopulatedInv, EndOf
  <2>4. ASSUME NEW i \in DOMAIN flows
        PROVE  flows[i].from \in Node /\ flows[i].into[1] \in Node
    <3>1. flows[i] \in AllFlows
      BY <2>1, <2>4, ElementOfSeq, LenProperties DEF PassInv
    <3> QED
      BY <2>1, <3>1, FlowEnds
  <2> QED
    BY <2>2, <2>3, <2>4 DEF TypeOK
<1> QED
  BY <1>1, FlowInvAlways, PTL

(* Away from edge cycles, every edge between existing ports of which one mentions a
   parameter takes part exactly once, and no other edge does: Topo returns every node
   that no cycle leads to, and returns none twice. *)
THEOREM EachEdgeFlowsOnce == Spec => []EdgesFlowOnce
<1>1. FlowInv => EdgesFlowOnce
  <2> SUFFICES ASSUME FlowInv, phase = "done", NEW e \in Edges
               PROVE  LET mine == {i \in FlowsOf("edge") : flows[i].edge = e}
                          output == OutputType(edges[e].source, edges[e].sourcePort)
                          input == InputType(edges[e].target, edges[e].targetPort)
                          mentions == output # "none" /\ input # "none"
                                      /\ (output = "param" \/ input = "param")
                      IN  IF mentions /\ ~BehindCycle(edges[e].source)
                          THEN \E i \in DOMAIN flows : mine = {i}
                          ELSE mine = {}
    BY DEF EdgesFlowOnce
  <2>1. PassInv /\ ProgramInv /\ EdgesInv
    BY DEF FlowInv, PassInv
  <2>2. edges[e].source \in Straight <=> ~BehindCycle(edges[e].source)
    BY <2>1, ProgramTyped DEF Straight
  <2>3. EdgesDone = Straight
    BY DEF EdgesDone
  <2> QED
    BY <2>1, <2>2, <2>3 DEF EdgesInv, PositionsOf, TakesPart
<1> QED
  BY <1>1, FlowInvAlways, PTL

(* No flow leaves a node that a later flow still enters. *)
THEOREM EdgesInTopologicalOrder == Spec => []FlowsInTopologicalOrder
<1>1. FlowInv => FlowsInTopologicalOrder
  BY DEF FlowInv
<1> QED
  BY <1>1, FlowInvAlways, PTL

(* A default type takes part only where no edge ends: by the time a node's defaults
   are collected, the edges into it are, since no cycle leads to their sources. *)
THEOREM NoDefaultWhereEdgeEnds == Spec => []NoDefaultOverEdge
<1>1. FlowInv => NoDefaultOverEdge
  <2> SUFFICES ASSUME FlowInv, NEW k \in FlowsOf("default"), NEW e \in Edges,
                      EndOf(e) = flows[k].into
               PROVE  FALSE
    BY DEF NoDefaultOverEdge
  <2>1. PassInv /\ ProgramInv /\ PopulatedInv /\ DefaultsInv
    BY DEF FlowInv, PassInv
  <2>2. k \in DOMAIN flows /\ flows[k].kind = "default"
    BY DEF FlowsOf
  <2>3. flows[k] \in DefaultFlows
    BY <2>1, <2>2, ElementOfSeq, LenProperties, KindsTell DEF PassInv
  <2>4. PICK n \in Node, i \in Nat : flows[k].into = <<n, i>>
    BY <2>3 DEF DefaultFlows, DefaultFlow
  <2>5. n \in DefaultsDone /\ i \in DefaultsOf(n)
    BY <2>1, <2>4 DEF DefaultsInv, DefaultPositions
  <2>6. n \in Straight /\ phase # "edges"
    BY <2>1, <2>5 DEF DefaultsDone, PassInv
  <2>7. edges[e].target = n
    BY <2>4 DEF EndOf
  <2>8. edges[e].source \in EdgesDone
    BY <2>1, <2>6, <2>7, StraightSources DEF EdgesDone
  <2>9. <<n, i>> \in populated
    BY <2>1, <2>4, <2>8 DEF PopulatedInv
  <2> QED
    BY <2>5, <2>9 DEF DefaultsOf
<1> QED
  BY <1>1, FlowInvAlways, PTL

(* Away from edge cycles, every default of an input without an edge takes part. *)
THEOREM EveryDefaultApplied == Spec => []DefaultsApplied
<1>1. FlowInv => DefaultsApplied
  <2> SUFFICES ASSUME FlowInv, phase = "done", NEW n \in Node, NEW i \in shape[n].defaults,
                      InputType(n, i) # "none", ~BehindCycle(n), \A e \in Edges : EndOf(e) # <<n, i>>
               PROVE  \E k \in FlowsOf("default") : flows[k].into = <<n, i>>
    BY DEF DefaultsApplied
  <2>1. PassInv /\ ProgramInv /\ PopulatedInv /\ DefaultsInv
    BY DEF FlowInv, PassInv
  <2>2. i \in Nat /\ n \in DefaultsDone
    BY <2>1, ProgramTyped DEF DefaultsDone, Straight
  <2>3. <<n, i>> \notin populated
    BY <2>1 DEF PopulatedInv
  <2>4. i \in DefaultsOf(n)
    BY <2>3 DEF DefaultsOf
  <2> QED
    BY <2>1, <2>2, <2>4 DEF DefaultsInv, DefaultPositions
<1> QED
  BY <1>1, FlowInvAlways, PTL

(* What flows into a parent's generic effects or handles is unioned with a Never that
   was pushed before: the loop over the nodes ends before the loop over the children. *)
THEOREM ThrownMeetsNever == Spec => []EffectsStartAtNever
<1>1. FlowInv => EffectsStartAtNever
  BY DEF FlowInv
<1> QED
  BY <1>1, FlowInvAlways, PTL

-----------------------------------------------------------------------------
(* The end comes closer *)

LEMMA VisitsLeftParts ==
    TypeOK => /\ PhasesLeft \in 0..4
              /\ IsFiniteSet(Node \ visited)
              /\ Cardinality(Node \ visited) \in 0..Cardinality(Node)
              /\ Cardinality(Node) \in Nat
<1>1. TypeOK => PhasesLeft \in 0..4
  BY DEF TypeOK, PhasesLeft
<1>2. Node \ visited \in SUBSET Node
  OBVIOUS
<1> QED
  BY <1>1, <1>2, FiniteAssumption, FS_Subset, FS_CardinalityType

LEMMA VisitsLeftPartsLater ==
    (TypeOK => /\ PhasesLeft \in 0..4
               /\ IsFiniteSet(Node \ visited)
               /\ Cardinality(Node \ visited) \in 0..Cardinality(Node)
               /\ Cardinality(Node) \in Nat)'
BY VisitsLeftParts, PTL

(* The next phase, or a node that was not returned before. *)
LEMMA FewerVisits ==
    ASSUME TypeOK, TypeOK',
           \/ PhasesLeft' = PhasesLeft - 1
           \/ /\ PhasesLeft' = PhasesLeft
              /\ Cardinality(Node \ visited)' < Cardinality(Node \ visited)
    PROVE  VisitsLeft \in Nat /\ VisitsLeft' < VisitsLeft
<1> PICK n \in Nat : n = Cardinality(Node)
  BY VisitsLeftParts
<1> PICK i \in 0..4, j \in 0..n : i = PhasesLeft /\ j = Cardinality(Node \ visited)
  BY VisitsLeftParts
<1> PICK k \in 0..4, l \in 0..n : k = PhasesLeft' /\ l = Cardinality(Node \ visited)'
  BY VisitsLeftPartsLater
<1>1. k = i - 1 \/ (k = i /\ l < j)
  OBVIOUS
<1>2. i * (n + 1) + j \in Nat /\ k * (n + 1) + l < i * (n + 1) + j
  BY <1>1
<1>3. VisitsLeft = i * (n + 1) + j /\ VisitsLeft' = k * (n + 1) + l
  BY DEF VisitsLeft
<1> QED
  BY <1>2, <1>3

LEMMA ReturnedOnce ==
    ASSUME TypeOK, NEW n \in Node, n \in Ready, visited' = visited \cup {n}
    PROVE  Cardinality(Node \ visited)' < Cardinality(Node \ visited)
<1>1. n \in Node \ visited
  BY DEF Ready
<1>2. Node \ visited' = (Node \ visited) \ {n}
  OBVIOUS
<1> QED
  BY <1>1, <1>2, VisitsLeftParts, FS_RemoveElement

(* Every step of collect_flows brings its end closer, whatever cycles the edges
   form and in whatever order Topo returns the nodes. *)
THEOREM EveryVisitCounts == Spec => CollectionAdvances
<1>1. TypeOK /\ TypeOK' /\ [Next]_flowVars => [(VisitsLeft \in Nat) /\ (VisitsLeft' < VisitsLeft)]_flowVars
  <2> SUFFICES ASSUME TypeOK, TypeOK', Next PROVE VisitsLeft \in Nat /\ VisitsLeft' < VisitsLeft
    OBVIOUS
  <2>1. ASSUME NEW n \in Node, CollectEdges(n) \/ CollectDefaults(n)
        PROVE  /\ PhasesLeft' = PhasesLeft
               /\ Cardinality(Node \ visited)' < Cardinality(Node \ visited)
    <3>1. visited' = visited \cup {n} /\ n \in Ready /\ phase' = phase
      BY <2>1 DEF CollectEdges, CollectDefaults
    <3> QED
      BY <3>1, ReturnedOnce DEF PhasesLeft
  <2>2. ASSUME EndEdges \/ EndDefaults \/ CollectEffects \/ CollectChildEffects
        PROVE  PhasesLeft' = PhasesLeft - 1
    BY <2>2 DEF EndEdges, EndDefaults, CollectEffects, CollectChildEffects, PhasesLeft
  <2> QED
    BY <2>1, <2>2, FewerVisits DEF Next
<1> QED
  BY <1>1, FlowsTypeCorrect, PTL DEF Spec, CollectionAdvances

=============================================================================
