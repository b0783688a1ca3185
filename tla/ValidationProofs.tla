-------------------------- MODULE ValidationProofs --------------------------
(***************************************************************************)
(* What validate reports of a program, next to what collect_flows gave to  *)
(* inference, for every program.                                           *)
(***************************************************************************)
EXTENDS Validation, FlowCollectionProofs

LEMMA PortTyped ==
    ASSUME NEW T, NEW ports \in Seq(T), NEW varg, NEW i \in Nat
    PROVE  PortType(ports, varg, i) \in T \cup {varg}
<1>1. CASE i < Len(ports)
  <2>1. i + 1 \in 1..Len(ports)
    BY <1>1, LenProperties
  <2>2. ports[i + 1] \in T
    BY <2>1, ElementOfSeq
  <2> QED
    BY <1>1, <2>2 DEF PortType
<1>2. CASE ~(i < Len(ports))
  BY <1>2 DEF PortType
<1> QED
  BY <1>1, <1>2

(* The types of ports, and beyond the listed ones that of the variadic port. *)
LEMMA PortsTyped ==
    ASSUME ProgramInv, NEW n \in Node, NEW i \in Nat
    PROVE  /\ InputType(n, i) \in Kinds /\ OutputType(n, i) \in Kinds
           /\ Len(shape[n].inputs) \in Nat
           /\ i >= Len(shape[n].inputs) => InputType(n, i) = shape[n].input_varg
<1>1. /\ shape[n].inputs \in Seq(Kinds \ {"none"}) /\ shape[n].outputs \in Seq({"param", "plain"})
      /\ shape[n].input_varg \in Kinds /\ shape[n].output_varg \in Kinds
  BY ProgramsAssumption DEF ProgramInv
<1>2. InputType(n, i) \in (Kinds \ {"none"}) \cup {shape[n].input_varg}
  BY <1>1, PortTyped DEF InputType
<1>3. OutputType(n, i) \in {"param", "plain"} \cup {shape[n].output_varg}
  BY <1>1, PortTyped DEF OutputType
<1>4. Len(shape[n].inputs) \in Nat
  BY <1>1, LenProperties
<1> QED
  BY <1>1, <1>2, <1>3, <1>4 DEF Kinds, InputType, PortType

(* What is undecided mentions a parameter. *)
LEMMA UndecidedMentions ==
    ASSUME NEW types \in SUBSET (Kinds \ {"none"}), NEW mismatch, NEW location,
           NEW error \in Judged(ParamsUnknown[types], mismatch, location)
    PROVE  "param" \in types /\ error.location = location
<1>1. CASE "param" \in types
  <2>1. ParamsUnknown[types] = "unknown"
    BY <1>1 DEF ParamsUnknown
  <2> QED
    BY <1>1, <2>1 DEF Judged, Error
<1>2. CASE "param" \notin types
  <2>1. ParamsUnknown[types] = "supertype"
    BY <1>2 DEF ParamsUnknown
  <2> QED
    BY <2>1 DEF Judged
<1> QED
  BY <1>1, <1>2

(* The flows of a finished collection. *)
LEMMA FinishedFlows ==
    ASSUME FlowInv, phase = "done"
    PROVE  /\ ProgramInv
           /\ \A n \in Node, i \in Nat : n \in Straight /\ i \in DefaultsOf(n) <=> DefaultPositions(n, i) # {}
           /\ \A n \in Node \cap Straight, i \in Nat : <<n, i>> \in populated <=> i \in EdgesEndOn(n)
           /\ \A f \in AllChildFlows : \E i \in DOMAIN flows : flows[i] = f
<1>1. PassInv /\ ProgramInv /\ PopulatedInv /\ DefaultsInv /\ EffectsInv
  BY DEF FlowInv, PassInv
<1>2. EdgesDone = Straight /\ DefaultsDone = Straight
  BY DEF EdgesDone, DefaultsDone
<1>3. ASSUME NEW n \in Straight, NEW i \in Nat
      PROVE  <<n, i>> \in populated <=> i \in EdgesEndOn(n)
  <2>1. ASSUME NEW e \in Edges
        PROVE  EndOf(e) = <<n, i>> <=> edges[e].target = n /\ edges[e].targetPort = i
    BY DEF EndOf
  <2>2. ASSUME NEW e \in Edges, edges[e].target = n
        PROVE  edges[e].source \in Straight
    BY <1>1, <2>2, StraightSources
  <2>3. <<n, i>> \in populated <=> \E e \in Edges : edges[e].source \in Straight /\ EndOf(e) = <<n, i>>
    BY <1>1, <1>2 DEF PopulatedInv
  <2>4. i \in EdgesEndOn(n) <=> \E e \in Edges : edges[e].target = n /\ edges[e].targetPort = i
    BY DEF EdgesEndOn
  <2> QED
    BY <2>1, <2>2, <2>3, <2>4
<1> QED
  BY <1>1, <1>2, <1>3 DEF DefaultsInv, EffectsInv

-----------------------------------------------------------------------------
(* The locations of undecided checks *)

LEMMA UndecidedAtEdge ==
    ASSUME ProgramInv, NEW e \in Edges, NEW error \in EdgeErrors(e, Node, ParamsUnknown),
           error.kind = "InsufficientlyInferredTypes"
    PROVE  /\ error.location = AtEdge(e) /\ TakesPart(e)
<1> DEFINE output == OutputType(edges[e].source, edges[e].sourcePort)
           input == InputType(edges[e].target, edges[e].targetPort)
<1>1. /\ edges[e].source \in Node /\ edges[e].target \in Node
      /\ output \in Kinds /\ input \in Kinds
  BY ProgramTyped, PortsTyped
<1> HIDE DEF output, input
<1>2. error \in IF output = "none" THEN {Error("EdgeHasNoSourceOutput", AtEdge(e))}
                ELSE IF input = "none" THEN {}
                ELSE Judged(ParamsUnknown[{output, input}], "TypeMismatch", AtEdge(e))
  BY <1>1 DEF EdgeErrors, output, input
<1>3. output # "none"
  BY <1>2 DEF Error
<1>4. input # "none"
  BY <1>2, <1>3
<1>5. {output, input} \in SUBSET (Kinds \ {"none"})
  BY <1>1, <1>3, <1>4
<1>6. "param" \in {output, input} /\ error.location = AtEdge(e)
  BY <1>2, <1>3, <1>4, <1>5, UndecidedMentions
<1> QED
  BY <1>3, <1>4, <1>6 DEF TakesPart, output, input

LEMMA UndecidedAtInput ==
    ASSUME ProgramInv, NEW n \in Node, NEW error \in DefaultErrors(n, Node, ParamsUnknown)
    PROVE  \E i \in shape[n].defaults :
              /\ error.location = AtInput(n, i)
              /\ InputType(n, i) # "none"
              /\ i \notin EdgesEndOn(n)
<1>1. PICK i \in shape[n].defaults \ EdgesEndOn(n) :
        /\ InputType(n, i) # "none"
        /\ error \in Judged(ParamsUnknown[{InputType(n, i), "plain"}], "TypeMismatch", AtInput(n, i))
  BY DEF DefaultErrors
<1>2. {InputType(n, i), "plain"} \in SUBSET (Kinds \ {"none"})
  BY <1>1, ProgramTyped, PortsTyped DEF Kinds
<1> QED
  BY <1>1, <1>2, UndecidedMentions

LEMMA UndecidedAtNode ==
    ASSUME ProgramInv, NEW n \in Node, NEW error \in EffectErrors(n, Node, ParamsUnknown)
    PROVE  error.location = AtNode(n) /\ ChildFlows(n) # {}
<1>1. parent[n] # NoNode
  BY DEF EffectErrors
<1>2. parent[n] \in Node
  BY <1>1, ProgramTyped
<1>3. error \in Judged(ParamsUnknown[EffectTypes(n)], "UnhandledEffects", AtNode(n))
  BY <1>1, <1>2 DEF EffectErrors
<1>4. EffectTypes(n) \in SUBSET (Kinds \ {"none"})
  BY <1>2, ProgramTyped DEF EffectTypes, Kinds
<1>5. "param" \in EffectTypes(n) /\ error.location = AtNode(n)
  BY <1>3, <1>4, UndecidedMentions
<1> QED
  BY <1>1, <1>5 DEF EffectTypes, ChildFlows

LEMMA RequiredIsDecided ==
    ASSUME NEW n, NEW error \in RequiredErrors(n, Node)
    PROVE  error.kind # "InsufficientlyInferredTypes"
BY DEF RequiredErrors, Error

(* Validation leaves a flow undecided only if inference was given that flow, but
   for the edges and defaults behind a cycle of edges. *)
THEOREM UndecidedHadItsChance == Spec => []UndecidedFlowsTookPart
<1>1. FlowInv /\ EdgesFlowOnce /\ DefaultsApplied => UndecidedFlowsTookPart
  <2> SUFFICES ASSUME FlowInv, EdgesFlowOnce, DefaultsApplied, phase = "done",
                      NEW error \in Validate(Node, ParamsUnknown),
                      error.kind = "InsufficientlyInferredTypes"
               PROVE  LET l == error.location
                      IN  CASE l.at = "edge" ->
                                  BehindCycle(edges[l.edge].source)
                                  \/ \E i \in FlowsOf("edge") : flows[i].edge = l.edge
                            [] l.at = "input" ->
                                  BehindCycle(l.node)
                                  \/ \E i \in FlowsOf("default") : flows[i].into = <<l.node, l.input>>
                            [] l.at = "node" ->
                                  \E i \in FlowsOf("handled") \cup FlowsOf("unhandled") :
                                      flows[i].from = l.node
    BY DEF UndecidedFlowsTookPart
  <2>1. ProgramInv
    BY FinishedFlows
  <2>2. ASSUME NEW e \in Edges, error \in EdgeErrors(e, Node, ParamsUnknown)
        PROVE  /\ error.location = AtEdge(e)
               /\ BehindCycle(edges[e].source) \/ \E i \in FlowsOf("edge") : flows[i].edge = e
    <3>1. error.location = AtEdge(e) /\ TakesPart(e)
      BY <2>1, <2>2, UndecidedAtEdge
    <3>2. CASE ~BehindCycle(edges[e].source)
      <4>1. \E i \in DOMAIN flows : {j \in FlowsOf("edge") : flows[j].edge = e} = {i}
        BY <3>1, <3>2 DEF EdgesFlowOnce, TakesPart
      <4> QED
        BY <3>1, <4>1
    <3> QED
      BY <3>1, <3>2
  <2>3. ASSUME NEW n \in Node, error \in DefaultErrors(n, Node, ParamsUnknown)
        PROVE  \E i : /\ error.location = AtInput(n, i)
                      /\ BehindCycle(n) \/ \E k \in FlowsOf("default") : flows[k].into = <<n, i>>
    <3>1. PICK i \in shape[n].defaults :
            /\ error.location = AtInput(n, i)
            /\ InputType(n, i) # "none"
            /\ i \notin EdgesEndOn(n)
      BY <2>1, <2>3, UndecidedAtInput
    <3>2. \A e \in Edges : EndOf(e) # <<n, i>>
      BY <3>1 DEF EndOf, EdgesEndOn
    <3> QED
      BY <3>1, <3>2 DEF DefaultsApplied
  <2>4. ASSUME NEW n \in Node, error \in EffectErrors(n, Node, ParamsUnknown)
        PROVE  /\ error.location = AtNode(n)
               /\ \E i \in FlowsOf("handled") \cup FlowsOf("unhandled") : flows[i].from = n
    <3>1. error.location = AtNode(n) /\ ChildFlows(n) # {}
      BY <2>1, <2>4, UndecidedAtNode
    <3>2. PICK f \in ChildFlows(n) : f \in AllChildFlows
      BY <3>1 DEF AllChildFlows
    <3>3. f.kind \in {"handled", "unhandled"} /\ f.from = n
      BY DEF ChildFlows, HandledFlow, UnhandledFlow
    <3>4. PICK i \in DOMAIN flows : flows[i] = f
      BY <3>2, FinishedFlows
    <3> QED
      BY <3>1, <3>3, <3>4 DEF FlowsOf
  <2>5. \/ \E e \in Edges : error \in EdgeErrors(e, Node, ParamsUnknown)
        \/ \E n \in Node : \/ error \in EffectErrors(n, Node, ParamsUnknown)
                           \/ error \in RequiredErrors(n, Node)
                           \/ error \in DefaultErrors(n, Node, ParamsUnknown)
    <3> DEFINE ofNodes == UNION {EffectErrors(n, Node, ParamsUnknown) \cup RequiredErrors(n, Node)
                                   \cup DefaultErrors(n, Node, ParamsUnknown) : n \in Node}
               ofEdges == UNION {EdgeErrors(e, Node, ParamsUnknown) : e \in Edges}
    <3>1. error \in ofNodes \/ error \in ofEdges
      BY DEF Validate
    <3>2. CASE error \in ofNodes
      BY <3>2
    <3>3. CASE error \in ofEdges
      BY <3>3
    <3> QED
      BY <3>1, <3>2, <3>3
  <2>6. CASE \E e \in Edges : error \in EdgeErrors(e, Node, ParamsUnknown)
    <3>1. PICK e \in Edges : error \in EdgeErrors(e, Node, ParamsUnknown)
      BY <2>6
    <3>2. error.location.at = "edge" /\ error.location.edge = e
      <4>1. error.location = AtEdge(e)
        BY <2>2, <3>1
      <4> QED
        BY <4>1 DEF AtEdge
    <3>3. BehindCycle(edges[e].source) \/ \E i \in FlowsOf("edge") : flows[i].edge = e
      BY <2>2, <3>1
    <3> QED
      BY <3>2, <3>3
  <2>7. CASE \E n \in Node : error \in DefaultErrors(n, Node, ParamsUnknown)
    <3>1. PICK n \in Node : error \in DefaultErrors(n, Node, ParamsUnknown)
      BY <2>7
    <3>2. PICK i : /\ error.location = AtInput(n, i)
                   /\ BehindCycle(n) \/ \E k \in FlowsOf("default") : flows[k].into = <<n, i>>
      BY <2>3, <3>1
    <3>3. error.location.at = "input" /\ error.location.node = n /\ error.location.input = i
      BY <3>2 DEF AtInput
    <3> QED
      BY <3>2, <3>3
  <2>8. CASE \E n \in Node : error \in EffectErrors(n, Node, ParamsUnknown)
    <3>1. PICK n \in Node : error \in EffectErrors(n, Node, ParamsUnknown)
      BY <2>8
    <3>2. error.location.at = "node" /\ error.location.node = n
      <4>1. error.location = AtNode(n)
        BY <2>4, <3>1
      <4> QED
        BY <4>1 DEF AtNode
    <3>3. \E i \in FlowsOf("handled") \cup FlowsOf("unhandled") : flows[i].from = n
      BY <2>4, <3>1
    <3> QED
      BY <3>2, <3>3
  <2> QED
    BY <2>5, <2>6, <2>7, <2>8, RequiredIsDecided
<1> QED
  BY <1>1, FlowInvAlways, EachEdgeFlowsOnce, EveryDefaultApplied, PTL

-----------------------------------------------------------------------------
(* The inputs of a node *)

(* An input that exists gets the default of a node behind no cycle exactly if it
   has one and no edge ends on it. *)
LEMMA DefaultFlowInto ==
    ASSUME FlowInv, phase = "done", NEW n \in Node, ~BehindCycle(n),
           NEW i \in Nat, InputType(n, i) # "none"
    PROVE  i \in {flows[k].into[2] : k \in {j \in FlowsOf("default") : flows[j].into[1] = n}}
           <=> i \in shape[n].defaults /\ i \notin EdgesEndOn(n)
<1> DEFINE given == {flows[k].into[2] : k \in {j \in FlowsOf("default") : flows[j].into[1] = n}}
<1>1. n \in Straight
  BY DEF Straight
<1>2. i \in given <=> DefaultPositions(n, i) # {}
  <2>1. ASSUME NEW k \in FlowsOf("default")
        PROVE  flows[k].into = <<n, i>> <=> flows[k].into[1] = n /\ flows[k].into[2] = i
    <3>1. k \in DOMAIN flows /\ flows[k].kind = "default" /\ flows \in Seq(AllFlows)
      BY DEF FlowsOf, FlowInv, PassInv
    <3>2. flows[k] \in DefaultFlows
      BY <3>1, ElementOfSeq, LenProperties, KindsTell
    <3> QED
      BY <3>2 DEF DefaultFlows, DefaultFlow
  <2> QED
    BY <2>1 DEF DefaultPositions
<1>3. i \in DefaultsOf(n) <=> i \in shape[n].defaults /\ i \notin EdgesEndOn(n)
  BY <1>1, FinishedFlows DEF DefaultsOf
<1> QED
  BY <1>1, <1>2, <1>3, FinishedFlows

(* An input is reported exactly if it is required and in the range looked at. *)
LEMMA ReportedInputs ==
    ASSUME NEW n \in Node
    PROVE  {x.location.input : x \in {y \in RequiredErrors(n, Node) : y.kind = "EdgeMissingOnInput"}}
           = {i \in RequiredRange(n) : IsRequired(n, i, Node)}
<1> DEFINE missing(i) == Error("EdgeMissingOnInput", AtInput(n, i))
           required == {i \in RequiredRange(n) : IsRequired(n, i, Node)}
           reporting == {y \in RequiredErrors(n, Node) : y.kind = "EdgeMissingOnInput"}
<1>1. \A i : missing(i).kind = "EdgeMissingOnInput" /\ missing(i).location.input = i
  BY DEF Error, AtInput
<1>2. reporting = {missing(i) : i \in required}
  <2>1. \A y \in reporting : \E i \in required : y = missing(i)
    BY DEF RequiredErrors, Error
  <2>2. \A i \in required : missing(i) \in reporting
    BY <1>1 DEF RequiredErrors
  <2> QED
    BY <2>1, <2>2
<1> HIDE DEF missing, required, reporting
<1>3. {x.location.input : x \in reporting} = required
  BY <1>1, <1>2
<1> QED
  BY <1>3 DEF required, reporting

(* Of the inputs that exist and are not optional, the listed ones and those up to the
   last that an edge ends on are in the range looked at. *)
LEMMA RangeCovers ==
    ASSUME ProgramInv, NEW n \in Node, NEW i \in Nat, InputType(n, i) # "none",
           i < Len(shape[n].inputs) \/ (EdgesEndOn(n) # {} /\ i \in 0..Max(EdgesEndOn(n)))
    PROVE  i \in RequiredRange(n)
<1> DEFINE len == Len(shape[n].inputs)
           last == Max(EdgesEndOn(n))
<1>1. len \in Nat
  BY PortsTyped
<1>2. CASE i < len
  <2>1. i \in 0..len
    BY <1>1, <1>2
  <2> QED
    BY <1>2, <2>1 DEF RequiredRange
<1>3. CASE ~(i < len)
  <2>1. shape[n].input_varg # "none"
    BY <1>1, <1>3, PortsTyped
  <2>2. EdgesEndOn(n) # {} /\ i \in 0..last
    BY <1>3
  <2>3. i \in len..last
    BY <1>1, <1>3, <2>2
  <2> QED
    BY <2>1, <2>2, <2>3 DEF RequiredRange
<1> QED
  BY <1>2, <1>3

(* Every input up to the last one an edge ends on is optional, supplied or reported,
   and of those that are not optional none is both. *)
THEOREM InputsSuppliedOrReported == Spec => []SuppliedOrReported
<1>1. FlowInv => SuppliedOrReported
  <2> SUFFICES ASSUME FlowInv, phase = "done", NEW n \in Node, ~BehindCycle(n),
                      NEW i \in {j \in {k \in 0..Len(shape[n].inputs) : k < Len(shape[n].inputs)}
                                       \cup (IF EdgesEndOn(n) = {} THEN {} ELSE 0..Max(EdgesEndOn(n))) :
                                    InputType(n, j) \notin {"none", "optional"}}
               PROVE  (i \in {x.location.input :
                                x \in {y \in RequiredErrors(n, Node) : y.kind = "EdgeMissingOnInput"}})
                      # (i \in EdgesEndOn(n)
                               \cup {flows[k].into[2] :
                                        k \in {j \in FlowsOf("default") : flows[j].into[1] = n}})
    BY DEF SuppliedOrReported
  <2>1. ProgramInv
    BY FinishedFlows
  <2>2. i \in Nat /\ InputType(n, i) \notin {"none", "optional"}
    OBVIOUS
  <2>3. i \in RequiredRange(n)
    BY <2>1, <2>2, RangeCovers
  <2>4. i \in {x.location.input :
                 x \in {y \in RequiredErrors(n, Node) : y.kind = "EdgeMissingOnInput"}}
        <=> i \notin EdgesEndOn(n) \cup shape[n].defaults
    BY <2>2, <2>3, ReportedInputs DEF IsRequired
  <2>5. i \in EdgesEndOn(n)
              \cup {flows[k].into[2] : k \in {j \in FlowsOf("default") : flows[j].into[1] = n}}
        <=> i \in EdgesEndOn(n) \cup shape[n].defaults
    BY <2>2, DefaultFlowInto
  <2> QED
    BY <2>4, <2>5
<1> QED
  BY <1>1, FlowInvAlways, PTL

=============================================================================
