----------------------------- MODULE Validation -----------------------------
(***************************************************************************)
(* Nodety::validate (src/nodety/validation.rs) next to the flows that      *)
(* inference was given by the same program.  What the subtype checks       *)
(* answer is left open: a check may be undecided only if one of its types  *)
(* mentions a parameter.                                                   *)
(*                                                                         *)
(* Left out: the split of undecided flows into those with too few inferred *)
(* parameters and those with an exceeded bound, ports that are no list of  *)
(* ports, and the bound that validate_with_effect_bound puts on effects.   *)
(***************************************************************************)
EXTENDS FlowCollection, FiniteSetsExt

Error(kind, location) == [kind |-> kind, location |-> location]

(* GraphLocation *)
AtEdge(e) == [at |-> "edge", edge |-> e]
AtInput(n, i) == [at |-> "input", node |-> n, input |-> i]
AtNode(n) == [at |-> "node", node |-> n]

(* The errors for what supertype_of answers at a location. *)
Judged(answer, mismatch, location) ==
    CASE answer = "supertype" -> {}
      [] answer = "unrelated" -> {Error(mismatch, location)}
      [] answer = "unknown" -> {Error("InsufficientlyInferredTypes", location)}

-----------------------------------------------------------------------------
(* validate_types *)

(* An edge to an input that does not exist is no error. *)
EdgeErrors(e, scoped, answer) ==
    LET output == OutputType(edges[e].source, edges[e].sourcePort)
        input == InputType(edges[e].target, edges[e].targetPort)
    IN  IF ~({edges[e].source, edges[e].target} \subseteq scoped) THEN Judged("unknown", "", AtEdge(e))
        ELSE IF output = "none" THEN {Error("EdgeHasNoSourceOutput", AtEdge(e))}
        ELSE IF input = "none" THEN {}
        ELSE Judged(answer[{output, input}], "TypeMismatch", AtEdge(e))

(* The inputs of n that edges end on, whatever their types. *)
EdgesEndOn(n) == {edges[e].targetPort : e \in {d \in Edges : edges[d].target = n}}

DefaultErrors(n, scoped, answer) ==
    UNION {IF n \in scoped THEN Judged(answer[{InputType(n, i), "plain"}], "TypeMismatch", AtInput(n, i))
                           ELSE Judged("unknown", "", AtInput(n, i)) :
              i \in {j \in shape[n].defaults \ EdgesEndOn(n) : InputType(n, j) # "none"}}

-----------------------------------------------------------------------------
(* validate_required_inputs_set *)

IsRequired(n, i, scoped) ==
    /\ i \notin EdgesEndOn(n) \cup shape[n].defaults
    /\ ~(n \in scoped /\ InputType(n, i) = "optional")

(* Variant: the variadic part is not looked at. *)
RequiredRangeListed(n) == {i \in 0..Len(shape[n].inputs) : i < Len(shape[n].inputs)}

(* The listed inputs, and those up to the last one an edge ends on.  Without a  *)
(* variadic part the second range still includes the index after the last one.  *)
RequiredRange(n) ==
    LET len == Len(shape[n].inputs)
        last == Max(EdgesEndOn(n))
        end == IF shape[n].input_varg = "none" /\ len < last THEN len ELSE last
    IN  {i \in 0..len : i < len} \cup (IF EdgesEndOn(n) = {} THEN {} ELSE len..end)

RequiredErrors(n, scoped) ==
    {Error("MultipleEdgesOnOneInput", AtInput(n, edges[e].targetPort)) :
        e \in {d \in Edges : edges[d].target = n /\ \E c \in Edges \ {d} : EndOf(c) = EndOf(d)}}
    \cup {Error("EdgeMissingOnInput", AtInput(n, i)) : i \in {j \in RequiredRange(n) : IsRequired(n, j, scoped)}}

-----------------------------------------------------------------------------
(* validate_effects, for effects that are not Never and without an effect bound for the nodes without a parent. *)

EffectTypes(n) == {shape[n].effects, shape[parent[n]].effects} \cup shape[parent[n]].handles

EffectErrors(n, scoped, answer) ==
    IF n \notin scoped THEN Judged("unknown", "", AtNode(n))
    ELSE IF parent[n] = NoNode THEN {}
    ELSE IF parent[n] \notin scoped THEN Judged("unknown", "", AtNode(n))
    ELSE Judged(answer[EffectTypes(n)], "UnhandledEffects", AtNode(n))

-----------------------------------------------------------------------------

(* The errors validate returns with the scopes of the nodes in scoped. *)
Validate(scoped, answer) ==
    (UNION {EffectErrors(n, scoped, answer) \cup RequiredErrors(n, scoped) \cup DefaultErrors(n, scoped, answer) :
               n \in Node})
    \cup (UNION {EdgeErrors(e, scoped, answer) : e \in Edges})

-----------------------------------------------------------------------------
(* Properties *)

(* What may stay undecided, if nothing but the parameters does. *)
ParamsUnknown == [types \in SUBSET (Kinds \ {"none"}) |-> IF "param" \in types THEN "unknown" ELSE "supertype"]

(* "There is a type parameter that is not yet inferred, but needed to validate a flow": away from edge cycles *)
(* that flow took part in inference, so that the parameter had its chance.                                    *)
UndecidedFlowsTookPart ==
    phase = "done" =>
        \A error \in {x \in Validate(Node, ParamsUnknown) : x.kind = "InsufficientlyInferredTypes"} :
            LET l == error.location
            IN  CASE l.at = "edge" ->
                        BehindCycle(edges[l.edge].source) \/ \E i \in FlowsOf("edge") : flows[i].edge = l.edge
                  [] l.at = "input" ->
                        BehindCycle(l.node) \/ \E i \in FlowsOf("default") : flows[i].into = <<l.node, l.input>>
                  [] l.at = "node" ->
                        \E i \in FlowsOf("handled") \cup FlowsOf("unhandled") : flows[i].from = l.node

(* Variadic inputs are continuous: every input up to the last one an edge ends on is optional, supplied by an *)
(* edge or by a default that inference used, or else reported, and never two of these but for optional ones.  *)
SuppliedOrReported ==
    phase = "done" =>
        \A n \in Node : ~BehindCycle(n) =>
            LET listed == {i \in 0..Len(shape[n].inputs) : i < Len(shape[n].inputs)}
                upTo == IF EdgesEndOn(n) = {} THEN {} ELSE 0..Max(EdgesEndOn(n))
                reported == {x.location.input : x \in {y \in RequiredErrors(n, Node) : y.kind = "EdgeMissingOnInput"}}
                supplied == EdgesEndOn(n) \cup {flows[i].into[2] : i \in {j \in FlowsOf("default") : flows[j].into[1] = n}}
            IN  \A i \in {j \in listed \cup upTo : InputType(n, j) \notin {"none", "optional"}} :
                    (i \in reported) # (i \in supplied)

=============================================================================
