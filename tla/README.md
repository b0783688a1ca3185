# Nodety in TLA+

Specifications of [nodety](../src/README.md), a library that holds a graph of typed
nodes, infers the type parameters of their signatures from the edges between them, and
validates the result. Paths below are relative to `src/src/` of the repository.

## The system

| Component | State | Operations | What makes it correct |
|---|---|---|---|
| Node graph (`nodety.rs`, `nodety/node.rs`) | nodes with a signature and a parent, edges, an index from parents to children | `add_node`, `update_node`, `remove_node`, `add_edge`, `remove_edge` | parents form a forest of nodes in use, the index agrees with the parent fields, no edge dangles, a failed call changes nothing |
| Cached wrapper (`nodety_cached.rs`) | the graph and the scopes of the last inference | the calls of the graph, `infer`, `validate`, `infer_node_scope`, `discard_cache` | every answer is that of a fresh inference on the graph as it is |
| Flow collection (`nodety/inference.rs`, `collect_flows`) | the flows so far, the populated inputs | two topological passes, two effect passes | each edge, default and effect takes part once, in an order that lets later nodes use what earlier ones gave |
| Inference engine (`nodety/inference.rs`, `infer`; `candidate.rs`, `candidate_collection.rs`) | inferred types in the scopes, the flows still of interest, the candidates of a pass | steps, passes, candidate collection, picking | it ends, infers nothing cyclic, respects bounds, and does not depend on the order of the flows |
| Scopes (`scope.rs`) | parameters and what they were inferred to, the parent scope | `define`, `infer`, `infer_bounds`, lookups | nothing is ever undefined or uninferred, following types ends |
| Type expressions (`type_expr/*.rs`) | none | subtyping, traversal, normalisation, intersection, conditionals, `keyof`, mapped types, operations | subtyping is an order, normal forms mean the same |
| Validation (`nodety/validation.rs`) | none | `validate` and its four passes | reports exactly the ill-typed edges, missing inputs, exceeded bounds and effects |
| Node sorting (`node_sorting.rs`) | none | depth order by parents | parents before children, cycles reported |
| Demo types (`type.rs`, `demo_type.rs`) | none | order of plain types, keys, indexing, operators | operators compute above whatever their operands may become |
| Autocomplete (`autocomplete.rs`) | none | `is_compatible`: infer, `infer_bounds`, ask | what it answers holds for the graph |
| Notation (`notation/`), generators (`arbitrary/`) | none | text, test support | not behaviour of the inference |

A client changes the graph through `Nodety` or `NodetyCached`. `infer` builds one scope
per node (a child of its parent's scope), collects flows (output to input, default to
input, effects of a child to those of its parent) and runs the engine on them; the engine
writes what it infers into the scopes, which are reference counted and mutable behind the
pointer. `validate` reads the scopes and the graph. Everything runs in one thread. What is
hard is order: the order of calls that reshape the forest, of flows, of picks within a
pass, and who writes into shared scopes when.

## Plan

Modules, most important behaviour first; later ones reuse the earlier ones.

1. `ParentLinks`, `NodeForest`, `NodeGraph`, `NodeGraphProofs`: the graph, its abstract
   forest, and the proofs. Done.
2. `FreshAnswers`, `NodetyCached`, `NodetyCachedProofs`: the cache over the graph and the
   promise it implements. Done, and proved.
3. `FlowCollection`, `FlowCollectionProofs`. Done, and proved; that collection ends, up to
   fairness.
4. `UnionTypes`, `OccursChecked`, `Inference`, `InferenceOrder`: unions of plain types and
   parameters with the subtyping questions the engine asks, what it promises about the
   scopes, the engine itself, and the engine run twice. Done; `UnionTypesProofs` proves what
   subtyping means, `OccursCheckedProofs` and `InferenceProofs` what inference keeps.
5. `Validation` over `FlowCollection`: what `validate` reports next to the flows inference
   was given. Done, and proved in `ValidationProofs`.
6. `TypeScopes`, `TermSyntax`, `TypeTerms`, `TermInference`: the whole type language, read in
   chains of scopes, while parameters are inferred. Done; signatures with parameters of
   their own are left.
7. `NodeScopes` over `NodeGraph`: the scopes of all nodes, by depth and one by one. Done;
   `NodeGraphScopeProofs` proves what it says of depths, and that the loop over the sorted
   nodes agrees with the climb from one node.

## Modules

**ParentLinks** holds the vocabulary of parent pointers: what the walk upwards visits
(`Reaches`, `Chain`), stated with upward closed sets, and `Acyclic`. **NodeForest** is the
abstract specification of the graph: plant, move and fell nodes and stay a forest.

**NodeGraph** is `Nodety`. `live`, `parent`, `sig`, `edges` are the petgraph graph with its
freed and reused indices, `children` the index kept beside it, `result` what the last call
returned. One action per call; `...Result` gives the outcome in the order of the code's
checks and `...Ok` the changes of a successful call. A signature is the parameters it
declares, which of them mention which in bounds or defaults, and what it mentions.

**NodetyCached** extends NodeGraph. An inference is named by the program it ran on
(`Inference(program, omitted)`), so that stale and mixed-up answers can be told apart
without computing types. `held` says that a client shares the cached scopes;
`MutateHeldScopes` is a client that calls `infer_bounds` or `infer` on them.

**FlowCollection** is `collect_flows`: `CollectEdges`, `CollectDefaults`, `CollectEffects`,
`CollectChildEffects` are its loops, `Ready` is petgraph's `Topo`. Types are abstracted to
whether they mention a parameter, which is all this code asks of them.

**UnionTypes** reduces type expressions to what inference is about: a type is the set of
its arms, plain types or parameters; `Never` is the empty set and `Any` a type of its own
that only bounds have. Parameters are named globally and scope portals are transparent, so
a scope lookup is a look at `inferred` and `bound`. `SupertypeOf` says whether
`supertype_of` answers `Supertype`; its other two answers, `Unrelated` and `Unknown`, are
one here since the engine does not tell them apart. It follows the code's order of cases,
including what an open parameter on either side means (`SupertypeRules`; `SupertypeOf` is a
function that satisfies these rules). `Leaves` says what a type comes to, the plain arms
that are found by following boundaries, and needs no recursion.

**OccursChecked** is the abstract specification of what inference does to the scopes:
assign a parameter once, only an allowed one, and never to a type that reaches it.

**Inference** is `infer`. A flow is given by its *positions*, the pairs of types its two
ends put against each other once constructors and ports have been walked, with their
variance and the nodes (scopes) at the ends. `StartStep` retires flows, `Collect` is the
collection at the head of a pass, `Pick` and `Skip` treat one parameter of the pass
(re-collection, the occurs check, strict waiting, choice of side, `pick_for_param`, storing
and `stop_after`), `EndPass` decides between another pass, one that breaks cycles and the
next step, `Finish` returns. The configuration is part of the program inference starts
with, so one run covers the default configuration, `stop_after`, and the one of
`build_inferred_child_scope` with restrictions and without variance.

**Validation** extends FlowCollection with `validate`: `EdgeErrors`, `DefaultErrors`,
`RequiredErrors` and `EffectErrors` are its passes, over the same programs. What the subtype
checks answer is a parameter (`answer`), and so is for which nodes there are scopes
(`scoped`); the properties let a check be undecided exactly if one of its types mentions a
parameter.

**NodeScopes** extends NodeGraph with the two ways in which inference builds scopes:
`BuildNodeScope` climbs from a node, `BuildScopes` goes through the nodes in the order of
`SortByParentDepth` and skips a node whose parent has no scope yet.

**TypeScopes** holds scope chains, lookups with shadowing, boundaries, rigid parameters,
`InferParam` and `BoundsInferred` (`infer_bounds`). A scope pointer is the sequence of scopes
up to the root; a scope that an evaluation makes for itself carries its one parameter.
Pointers are compared by these sequences, where the code compares addresses (`Rc::ptr_eq`,
`scope.rs:116`): the scopes of nodes have names and stay apart, but two evaluations that
make the same scope below the same parent make one here and two there. All lookups in the
two agree; only a comparison of a parameter of the one with that of the other, by identity,
would tell them apart.
**TermSyntax** has one constructor per variant of a type expression. **TypeTerms** translates
the functions over them, which call each other as they do in the code (through `Call`, so that TLC
has one recursive operator to expand): `SupertypeOf` with its
three answers, `IsNever`, `IsAny`, `Intersection`, `KeysOf`, `IndexInto`, `Evaluate` for
computed types (`Distribute` is `Conditional::distribute`, `EvaluateMapped` is
`Mapped::evaluate`), `RigidForm` and `Widened` for operations, and `Normalize`.
**TermInference** puts a question about two types while the parameters of their scopes get
inferred: `InferOne` is a pick (occurs check, bound, normalization), `InferBounds` is
`infer_bounds`, and `before` remembers what was answered before the step.

**InferenceOrder** runs the engine twice on one program. A pick is allowed only if the
order of the flows, topological as `collect_flows` makes it, may put the parameter first
(`Due`); the two runs may differ in everything this leaves open.

What Inference leaves out: arms are a set, so their order (which only the `is_never` of a
lone union depends on, see `PlainArmsFirst`) and duplicates are lost; normalisation removes
covered arms and does nothing else; the infer flag of a mention (`!T`) and
`infer_candidates`, rigid parameters, conditional and other computed types, and with them
`could_widen`; the common supertype of several types is folded in some fixed order.
Inference alone allows every order of picks, more than the code has.

Definitions commented as *Variant* are broken forms of the definition that follows them.
No action uses them. Each states a plausible bug and is there to show that a property
notices it.

## Checks

| Run | Shows |
|---|---|
| `graph` | every call sequence on three indices, an edge and five signatures over two parameters: forest, index, nothing dangling, cycle walk, bounds never loop; adding and removing a node changes no other node's scope; for every order in which reused indices may list the nodes, building all scopes gives each node the scope it has when built alone; NodeGraph implements NodeForest |
| `graph_reparent` | violated: `update_node` validates below the old parent |
| `cache` | the cache matches the program; failed calls keep it; but for what clients write into scopes they share, every answer is a fresh one |
| `cache_shared` | violated: a client that infers in shared scopes changes what `validate` answers |
| `flows` | all graphs of up to three edges between three nodes, and all forests of three nodes with all mixes of effects and handles: which flows, once, in which order; collection ends on cyclic graphs as well, no step of it going round; `validate` leaves no check undecided that inference was not given a flow for, and reports an input exactly if neither an edge nor a used default supplies it |
| `flows_cycle` | violated: defaults on or behind an edge cycle are not applied |
| `inference` | children that feed each other in both directions, lines of generic nodes, filters with an output bounded by their input, applied closures, signatures matched as templates: for every order of picks inference ends, no type becomes infinite, picks stay within bounds that narrow later, strict picks accept all that flows in, what flows forward type-checks, `stop_after` stops, and only allowed parameters are written and waited for; `supertype_of` agrees with what the two types come to (`Leaves`, computed in another way), an accepted flow into a settled type stays accepted, and each step uses up what is left to do |
| `order` | two runs with different orders agree: strict steps on lines of three nodes, all steps on the filters of `tests/order_independence.rs` and variations |
| `order_unions` | violated: with all steps, a union that arrives next to a plain type makes the order show |
| `inference_own_bound` | violated: a parameter is inferred to one whose bound it is, and boundaries go round |
| `terms` | pairs of types of every kind in nested scopes, while open parameters are inferred one by one or all to their bounds: a decided answer of `supertype_of`, `is_never` or `is_any` stays; normal forms do not contradict the types they stand for; with nothing left to infer everything is decided; an intersection is below its two sides, also across scopes; what a body with rigid parameters was promised is not refused to a caller |
| `terms_keys` | violated: a key from an optional field of an open parameter's bound is accepted by `keyof` and refused once the parameter is inferred to a record without it |

Bounds: three indices allow an update that moves a node below its own grandchild, an index
that is freed and reused under a stale link, and a scope chain whose middle is replaced.
Two nodes suffice for the cache, which only compares programs. A third shape of nodes,
with variadic inputs only, occurs in graphs of at most one edge. Three nodes and edges
contain every cycle and parallel edge that the order of two passes can tell apart. The
graph and the cache have no bound on the length of a run. Inference uses four plain types,
two of them literals of the third and the fourth unrelated, so that a set of candidates
has a best one, a common supertype or only a union; three parameters, the fewest with
which one waits for another while a third is picked; and up to five flows, each of a
handful of forms. The programs are those of `MCInference`, one family for each mechanism;
they are not all programs of that size.

`terms` uses an outer scope with an open `T` and a rigid `N`, an inner one that shadows `T`
and adds a `U` with a bound and a default, and a caller in which `N` is open: the fewest with
which a name means two parameters, a bound narrows later, and a body and its caller differ.
Its questions are all pairs of the 29 types of the two scopes and all pairs of the 16 of the
caller; each variant of a type expression is among them, at the top and below another, and
each parameter has up to three types that may flow into it. Integers are -1, 0 and 1, so that
a sum of two leaves them, which stands for `checked_add` failing.

Fairness: `FlowCollection` and `Inference` assume weak fairness of their next step, since
each is a single-threaded function that never waits. That no step goes round
(`CollectionAdvances`, `EndComesCloser`) is checked and proved without it. Nothing else assumes fairness; a
client may always stop calling.

Deadlock is checked for the graph and the cache, where some call is always possible;
collection and inference stop when they are done, and so do the questions about types once
everything is inferred.

The type invariants are proved, for every value of the constants; of the four only the
engine's, which also says that nothing is inferred or waited for that the configuration
does not allow, is part of a run as well.

## Proofs

### The graph and its scopes

The first part of `NodeGraphProofs` proves, for any set of indices, that detaching and
attaching a node keeps parent links acyclic and that the walk of `would_create_cycle` is
exact (`CycleWalkExact`). Walks are stated with upward closed sets, so these proofs need
neither induction nor finiteness; only `LeafExists` does, for a finite set of nodes: if
each had a child among them, `child` would map the set into itself injectively, hence onto
itself, and following children backwards is following parents for ever.

Its second part proves the inductive invariant `GraphInv` (types, forest, live parents,
mirrored children, live edges, the two `...Live` together being `NothingDangles`): none of
its parts is inductive alone, since a removed node stays off the others' chains only
because the children index mirrors the parents and `remove_node` trusts it. From it follow
`TypeCorrect`, `GraphStructure`, `CycleCheckIsExact`, the refinement
`GraphImplementsForest`, and, as there are only ever finitely many nodes,
`GraphCanBeTakenApart`.

`NodeGraphScopeProofs` builds on it. `ScopesOfOthersStay`: the chain of a node in use meets
neither a free index nor, unless it starts there, a node without children, which are the
only nodes that adding and removing change. `BoundsAlwaysEnd` strengthens the invariant by
`SignaturesAcyclic`, which `validate` establishes for each signature by itself: among the
parameters that would form a loop take one of a topmost node; lookups only go up, so its
bounds lead to parameters of the same node, and those end. `DepthsOrderParents`: the
chain of a node is the node and the chain of its parent, without the node, so depths count
parents, and no depth is beyond the number of nodes.

`BothScopesAgree` puts that to use for `build_scopes`. The ranks of the pairs that are
sorted are all different, hence every place is taken by exactly one of them, and a parent's
is before its children's (`SortedByDepth`). `ScopesAfterStep` unfolds the recursive function
that stands for the loop, whose existence has to be shown first, and `LoopBuildsScopes`
shows that after i nodes exactly those have a scope, the one `build_node_scope` returns. That
one is the node followed by its parent's (`ScopeOfParent`), since there is one walk from each
node: `WalkExists` because among the nodes without one some node's parent is none of
them, `WalkIsUnique` because each place is determined by the one before. The three
inductions over places are about sets of numbers (`HoldsUpTo`), which the least number
principle of the library gives.

Assumptions: `NoNode` is no index, `NoEdge` no pair, signatures have the stated shape.

### The cache

`NodetyCachedProofs` proves `CachedInv`, which adds to `GraphInv` the types of the cache and
that what is cached was inferred from the program as it is, with nothing left out. A call of
the graph either succeeds and drops the cache, or fails and leaves the program alone; the
second needs the types of the graph, since taking a free edge index away from the edges
changes nothing only if they are a function on the indices. From `CachedInv` follow
`CachedTypeCorrect`, `CacheIsCurrent`, `FailuresKeepCache` and, step by step,
`CacheImplementsFreshAnswers`: seen without the cache and without what clients wrote into
scopes they share (`AsInferred`), a call of the graph is a change, a question is answered from
a fresh inference, and a client's writing is nothing at all.
Assumption: no inference is the absent one and no answer the absent answer.

### Flow collection and validation

`FlowCollectionProofs` proves, for any finite set of nodes and edges, any program and every
order in which `Topo` may return ready nodes, the inductive invariant `FlowInv`. Its parts:

- `PassInv`: `visited` is closed under predecessors and contains no node that a cycle leads
  to (`ReadyIsStraight`); when `Topo` has nothing to return, what is left is such a set of
  nodes itself (`UnreadyIsBehindCycle`), so that a finished pass has returned exactly the
  nodes behind no cycle, `Straight`;
- `PopulatedInv`, `EdgesInv`, `DefaultsInv`: what was populated and pushed is that of the
  nodes returned so far, in this pass or a finished one. `EdgesInv` gives each edge one
  position: a node is returned once, and a listing of its flows repeats none
  (`ListingIsBijection`);
- `FlowsInTopologicalOrder`, inductive with `PassInv`: an earlier flow leaves a returned
  node, whose predecessors were returned, so no edge of the node returned now enters it;
- `EffectsInv`, `EffectsStartAtNever`: all Never flows are pushed before any child's.

How steps append is said once (`Appended`, `AppendListing`) and used through `EdgesKept`,
`DefaultsKept` and `NothingThrown`: a kind of flows that a step does not push stays where
it was. From `FlowInv` follow the six invariants of the `flows` run that are about
collection; `NoDefaultWhereEdgeEnds` needs that the sources of edges into a node behind no
cycle are behind none either (`StraightSources`), else an edge behind a cycle could end
where a default was applied.

`EveryVisitCounts` (`CollectionAdvances`) is the part of termination that needs no fairness: in each of the
finitely many phases (`PhasesLeft`) a step visits a node that was not visited
(`VisitsLeft`), since `Topo` returns none twice.

`ValidationProofs` puts `validate` next to it. `UndecidedHadItsChance`: a check is undecided
only if one of its types mentions a parameter, and then `EdgesFlowOnce`, `DefaultsApplied`
or `EffectsInv` has its flow. `InputsSuppliedOrReported`: at a node behind no cycle the
defaults used are those of inputs no edge ends on (`DefaultFlowInto`), and the range that
`validate_required_inputs_set` goes through contains every input that exists up to the last
edge (`RangeCovers`), whether listed or variadic.

Assumptions: nodes and edges are finitely many, each node has finitely many defaults
(they are a map of the signature), and programs have the stated shape.

### Subtyping

`UnionTypesProofs` is about the recursive functions `NeverForever` and `SupertypeOf`. Scopes
in which boundaries go round have no well-founded order to define them by, so that such
functions exist at all has to be shown: their equations are monotone (`RulesMonotone`), and a
monotone function on sets has a fixpoint (`LeastFixpoint`). From there on nothing is used
but the equations, so what follows holds for whichever solution the recursive definitions
stand for.

`SubtypingIsExact`: where following boundaries ends (`BoundariesEnd`), a settled type, one
without open parameters, is a supertype of another exactly if each leaf of that one is
below a leaf of its own. Leaves are those of the arms (`Leaves` of a union, of a plain arm,
of a parameter each have a lemma). Both directions argue about a smallest counterexample:
take the set of parameters one of the two sides can lead to for which the answer is wrong;
`BoundariesEnd` gives one whose boundary leads to none of them. That the answer implies the
leaves is soundness (`SupertypeIsSound`) and needs no settled type. The converse does: an
open parameter does not accept what is below its bound, since it may become less. That
subtyping is reflexive and transitive on settled types follows (`SubtypingIsAnOrder`).

### Inference

`OccursCheckedProofs` proves that the occurs check is enough: if a parameter is assigned
once, to a type that does not reach it at that moment, following inferred types always ends
(`TypesAlwaysEnd`), although the parameters the type mentions are inferred later. A circle
closed by the assignment would have to pass through what the type reaches, and what of the
circle lies in there was a circle before. `InferenceProofs` proves that the engine writes to
the scopes only in this way, whatever the flows, the configuration and the order of picks
(`EngineImplementsOccursChecked`): everything a pick may return, a candidate, a common
supertype, a union or a meet, reaches only what the candidates reach, and normalising it
adds nothing (`PicksPick`, `StoredReaches`). The invariant `EngineInv` is type correctness,
that only allowed parameters have candidates, and that types end; from it follow
`TypeCorrect` and `TypesStayFinite`. With `StopInv`, that `toStop` is what is open of
`stop_after` and that inference is done when it becomes empty, follows `StopsOnceInferred`;
it excludes an empty `stop_after`, which the code notices only after its first pick.

With subtyping understood, the bounds follow. That an inferred type is below the bound, as
`supertype_of` sees it, is not inductive: a step changes boundaries and with them what
`supertype_of` answers. Leaf by leaf it is (`BoundsKept`): the bound has no open parameter when
the pick is made, so its leaves stay, and inferring another parameter replaces its bound's
leaves by those of a type that is within the bound, hence by leaves below them. `BoundsAreKept`
proves this without any assumption on boundaries, `InferredWithinBounds` translates it back
to `supertype_of` for the states in which boundaries end. The same argument keeps accepted
flows accepted (`AcceptanceIsKept`). `SubtypingAlwaysExact` puts `SubtypingIsExact` to the types
of the program, likewise in the states in which boundaries end.

That boundaries end is a condition of these theorems and no consequence of the model: run
`inference_own_bound` reaches a state in which they go round. In the programs of run
`inference` no loop of bounds arises, although some of their bounds mention parameters;
there `WithinBounds`, `SubtypingExact` and `AcceptedFlowsStay` are checked without the
condition. `PlainBoundsSuffice` proves all three without it where no bound mentions a
parameter: an open parameter then leads to plain types only, and inferred types end.

`EveryStepCounts` is the part of termination that needs no fairness: each step but the last
lowers `PassesLeft`, or `Within` a pass without raising it, and both are natural numbers since
parameters are finitely many. A pass is followed by another one of its step only if it
inferred something, which uses up an open parameter, or as the one pass that breaks cycles;
the invariant `FreshPass` says that a pass that has not begun has inferred nothing.

Assumptions: parameters are finitely many, plain types are strictly ordered, plain types,
parameters and `Any` are different, the open mark is no type, the absent `stop_after` no set of parameters, and
programs have the stated form.

### Only model-checked

- That collection and inference end (`CollectionEnds`, `Terminates`): liveness is beyond the
  proof system. What is left between the theorems on steps and these is weak fairness.
- `StrictPicksFit` and `FlowsAccepted`: the first compares the candidates a pass collected
  with what flows in at the pick, arms that other picks took away in between included, and
  goes through the folds of common supertypes; the second needs, on top of that, which
  parameters have been inferred by whole passes.
- `OrderIndependent`: it compares the ends of two runs whose steps need not correspond.
- `WithinBounds`, `SubtypingExact` and `AcceptedFlowsStay` without the condition that
  boundaries end, where bounds mention parameters, see above.
- Everything about type terms (`TermInference`), since subtyping, normalization and the rest
  are mutually recursive operators, which the proof system does not take.

## Where the code departs from the properties

The questions of `terms` leave out pairs for which the code as translated does not have a
property. They are listed here so that nobody takes the runs for more than they show.
No run exhibits them; where a comment or a doc says otherwise it is named.

- Answers that turn: `{a: P}` against `{}` with `P` open is Unrelated, and Supertype once
  `P` is Unit, because an open parameter is not looked at as a possibly missing field;
  `is_optional_in_constructor` does not see a union that a field only computes to either.
- Intersections that lose an arm: `(sig | String) & (sig | Integer)` drops the signature,
  since two signatures intersect to Never; a type and a constructor of a strictly narrower
  type intersect to Never; `{a: Unit, b: 1} & {b: 1}` normalizes to `{b: 1}`.
- `keyof` and indexing of a conditional type that is still open answer Never and Any (there
  is a `@todo` in the code), and `keyof keyof X` is `keyof X`.
- A conditional whose test is no parameter reads its arms with the two scopes swapped
  (`conditional.rs:139-143`, against the comment in lines 80-81).
- Rigid parameters: a rigid child is replaced by its bound before a computed parent is
  evaluated, so `(Any & N)` does not accept `N` though its normal form does, and a rigid parent
  `N` does not accept `N & x`. A conditional over a rigid parameter is decided in the body from
  its bound. A difference `N - N` is 0 in the body and Integer for a caller whose `N` is
  Integer. A sum that leaves the integers is Integer for a caller where the body cancels it.
- The demo type's operators are not monotone: `Any + 1` is Never.
- `is_any` of an operation whose rigid parameters cancel stays unknown for ever.
- `infer_bounds` takes a default without comparing it with the bound, and does no occurs
  check: with `U` inferred to a type that mentions `T`, and `T` bounded by `U`, the result is
  a circle, and every later walk is endless.
- The test of a mapped type's source is one arm more in `traverse_union`.
- `validate` goes one index too far behind the inputs of a node without a variadic part
  (`validation.rs:309`): an edge to an input that does not exist makes it report the index
  after the last input as missing, although the doc (lines 120-121) says that edges without
  a matching input are not validated.

## Not modelled

- The text notation (`notation/`): a parser and a printer of strings, with no state and no
  part of the inference behind them. Serialisation likewise.
- The test generators (`arbitrary/`): they choose inputs for property tests.
- Signatures with parameters of their own in type positions (`infer_candidates`,
  `build_inferred_child_scope` inside a subtype check, the `!T` flag): they would need scopes
  that are made during a walk and inferred from within it, and a second inference inside every
  question of `terms`.
- The `infer` clause of a conditional type's bound, for the same reason.
- The diagnostics of a refusal (`SupertypeDiagnostics`), which change no answer, and
  the choice of error kind for an undecided flow.
- `validate_with_effect_bound`, and ports that are not a list of ports.
- The ranking of completions in `autocomplete.rs`; the SI units of the demo type
  with their multiplication and division, and its parser.
