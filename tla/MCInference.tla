---------------------------- MODULE MCInference ----------------------------
(* Inference on small instances. *)
EXTENDS Inference, TLC

CONSTANTS
    a, b, s, u,     \* plain types
    P, Q, R         \* parameters

(* a and b are two literals of s, and u is unrelated to them. *)
Literals == {<<a, s>>, <<b, s>>}

CommonLiterals == {<<a, b, s>>, <<b, a, s>>}

StepOf(forward, allow) == [forward |-> forward, allowUninferred |-> allow]

(* InferenceConfig::default *)
DefaultConfig ==
    [steps |-> <<StepOf(TRUE, FALSE), StepOf(FALSE, FALSE), StepOf(TRUE, TRUE), StepOf(FALSE, TRUE)>>,
     restrictions |-> Param, stopAfter |-> NoStop, respectVariance |-> TRUE]

StrictConfig == [DefaultConfig EXCEPT !.steps = SubSeq(@, 1, 2)]

StopConfig == [DefaultConfig EXCEPT !.stopAfter = {P}]

(* The configuration of build_inferred_child_scope, whose own parameters are P and Q. *)
TemplateConfig ==
    [steps |-> <<StepOf(TRUE, FALSE), StepOf(TRUE, TRUE)>>,
     restrictions |-> {P, Q}, stopAfter |-> NoStop, respectVariance |-> FALSE]

Place(source, target, contravariant) ==
    [source |-> source, target |-> target, contravariant |-> contravariant]

FlowOf(places, source, target) == [positions |-> places, source |-> source, target |-> target]

At(node, params) == [node |-> node, sees |-> params]

(* Nodes that have only the one port. *)
Gives(t) == <<"gives", t>>
Takes(t) == <<"takes", t>>

Nodes == Param \cup {Gives(t) : t \in SUBSET (Atom \cup Param)} \cup {Takes(t) : t \in SUBSET (Atom \cup Param)}

-----------------------------------------------------------------------------
(* An edge between nodes that each declare their own parameters, and one between
   children of a node that declares all of them. *)
Apart(source, target) ==
    LET end(t, lone) == IF t \cap Param = {} THEN At(lone, {})
                         ELSE At(CHOOSE x \in t \cap Param : TRUE, t \cap Param)
    IN  FlowOf({Place(source, target, FALSE)}, end(source, Gives(source)), end(target, Takes(target)))

Nested(source, target) ==
    FlowOf({Place(source, target, FALSE)}, At(Gives(source), Param), At(Takes(target), Param))

(* Edges from a plain output, between generic ports, and to a plain input. *)
Sources(edge(_, _), x) == {edge({a}, {x}), edge({a, u}, {x}), edge({b}, {x, u})}

Links(edge(_, _), x, y) == {edge({x}, {y}), edge({x}, {y, u}), edge({x, u}, {y})}

Sinks(edge(_, _), x) == {edge({x}, {s}), edge({x}, {a, u})}

Ends(edge(_, _), params) == UNION {Sources(edge, x) \cup Sinks(edge, x) : x \in params}

Unbounded == [x \in Param |-> {AnyType}]

Bounded(x, upper) == [Unbounded EXCEPT ![x] = upper]

-----------------------------------------------------------------------------
(* Up to three edges between children, in both directions. *)
Children ==
    [flows : UNION {kSubset(k, Ends(Nested, {P, Q}) \cup Links(Nested, P, Q) \cup Links(Nested, Q, P)) : k \in 1..3},
     bound : {Bounded(Q, {s})},
     config : {DefaultConfig}]

(* Three nodes in a line, each before all nodes behind it, with a plain output,
   two edges between them and another plain end. *)
Line ==
    LET links == Links(Apart, P, Q) \cup Links(Apart, P, R) \cup Links(Apart, Q, R)
    IN  [flows : {{f, g, h, k} : f \in UNION {Sources(Apart, x) : x \in Param}, g \in links, h \in links,
                                 k \in Ends(Apart, Param)},
         bound : {Unbounded, Bounded(R, {s})},
         config : {StrictConfig}]

(* The same without plain inputs and bounds, and with all steps. *)
Flowing ==
    LET links == Links(Apart, P, Q) \cup Links(Apart, P, R) \cup Links(Apart, Q, R)
    IN  [flows : {{f, g, h, k} : f \in Sources(Apart, P), g \in links, h \in links, k \in Sources(Apart, R)},
         bound : {Unbounded},
         config : {DefaultConfig}]

(* A node with R feeds a node with P and Q, whose children turn P into Q. *)
Outer(t, lone) ==
    IF t \cap Param = {} THEN At(lone, {})
    ELSE IF t \cap Param = {R} THEN At(R, {R})
    ELSE At(P, {P, Q})

InFilter(source, target) ==
    FlowOf({Place(source, target, FALSE)}, Outer(source, Gives(source)), Outer(target, Takes(target)))

Inside(source, target) ==
    FlowOf({Place(source, target, FALSE)}, At(Gives(source), {P, Q}), At(Takes(target), {P, Q}))

Filters ==
    [flows : {{f, g, h, k, l} : f \in Sources(InFilter, R), g \in Links(InFilter, R, P),
                                h \in Links(Inside, P, Q), k \in Sinks(InFilter, Q),
                                l \in Sources(InFilter, Q) \cup Sinks(InFilter, P)},
     bound : {Unbounded, Bounded(Q, {P})},
     config : {DefaultConfig}]

(* A node that applies a closure from P to Q; the closure may come from a node
   with R that gives it what it takes. *)
Closure(input, output) ==
    FlowOf({Place(input, {P}, TRUE), Place(output, {Q}, FALSE)}, Outer(input \cup output, Gives(input \cup output)), At(P, {P, Q}))

Closures ==
    [flows : {{f, g, h, k} : f \in Sources(InFilter, R),
                             g \in Sources(InFilter, P) \cup Sources(InFilter, Q),
                             h \in {Closure(x, y) : x \in {{s}, {R}}, y \in {{b}, {R}, {R, u}}},
                             k \in Sources(InFilter, P) \cup Sinks(InFilter, Q)},
     bound : {Bounded(Q, {s})},
     config : {DefaultConfig}]

(* A type whose own parameters P and Q, Q at most s, have to match another type,
   which may mention R. *)
Template(places) == FlowOf(places, At(R, {R}), At(P, {P, Q}))

Templates ==
    LET types == {{a}, {a, u}, {R}, {R, u}}
    IN  [flows : {{Template({Place(x, {P}, TRUE), Place(y, {Q}, FALSE), Place(z, {P, u}, v)})} :
                      x \in types, y \in types, z \in types, v \in BOOLEAN},
         bound : {Unbounded, Bounded(Q, {s}), Bounded(Q, {P})},
     config : {TemplateConfig}]

(* Two edges, of which one suffices for what was asked. *)
Stops ==
    [flows : {{f, g} : f \in Sources(Nested, P), g \in Links(Nested, P, Q)},
     bound : {Unbounded},
     config : {StopConfig}]

(* All of them. *)
Everything == Children \cup Stops \cup Flowing \cup Filters \cup Closures \cup Templates

(* Programs of which the order of the flows does not show. *)
OrderInsensitive == Line \cup Filters

-----------------------------------------------------------------------------
(* Two programs that inference does not treat as documented. *)

(* A child gives P, which is at most Q, and a child takes Q. *)
OwnBound == {[flows |-> {Nested({P}, {Q})}, bound |-> Bounded(P, {Q}), config |-> DefaultConfig]}

(* What arrives at R as a or through Q, as P or u, leaves u to R's port; P is s. *)
LateUnions ==
    {[flows |-> {Apart({P, u}, {Q}), Apart({Q}, {R, u}), Apart({a}, {R}), Apart({P}, {s})}, bound |-> Unbounded, config |-> DefaultConfig]}

=============================================================================
