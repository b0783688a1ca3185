------------------------------ MODULE Inference ------------------------------
(***************************************************************************)
(* The inference engine: infer (src/nodety/inference.rs), the collection   *)
(* of candidates (src/type_expr/candidate_collection.rs, traversal.rs) and *)
(* the choice among them (src/type_expr/node_signature/candidate.rs).      *)
(*                                                                         *)
(* The engine makes passes over the flows.  A pass first collects for each *)
(* open parameter the types the flows put against it, and then picks one   *)
(* parameter after the other; what it picks changes what later picks of    *)
(* the same pass see.  The code picks in the order in which the candidates *)
(* were found, which is the order of the flows; here every order is        *)
(* allowed.                                                                *)
(*                                                                         *)
(* A flow is given by its positions: the pairs of arms that its source and *)
(* target type put against each other, with the variance of the place.     *)
(***************************************************************************)
EXTENDS UnionTypes, Naturals, Sequences, FiniteSetsExt

CONSTANTS
    Join,               \* triples <<x, y, z>>: z is the common_supertype of x and y
    NoStop,             \* InferenceConfig::stop_after if it is None
    PlainArmsFirst,     \* whether the unions of ports list plain arms before parameters
    Node,               \* the nodes of the program
    Programs            \* what inference may be started with

(* The types of ports: Any is left to bounds. *)
PortType == SUBSET (Atom \cup Param)

(* What one place of a flow puts against each other. *)
Position == [source : PortType, target : PortType, contravariant : BOOLEAN]

(* The node at one end of a flow, and the parameters in its scope. *)
End == [node : Node, sees : SUBSET Param]

Flow == [positions : SUBSET Position, source : End, target : End]

Step == [forward : BOOLEAN, allowUninferred : BOOLEAN]

(* InferenceConfig; restrictions is all of Param if it is None. *)
Config == [steps : Seq(Step), restrictions : SUBSET Param,
           stopAfter : {NoStop} \cup SUBSET Param, respectVariance : BOOLEAN]

(* A candidate and the flow it comes from. *)
Candidate == [type : PortType, contravariant : BOOLEAN, flow : Flow]

ASSUME ProgramAssumption ==
    /\ Join \subseteq Atom \X Atom \X Atom
    /\ PlainArmsFirst \in BOOLEAN
    /\ \A S \in SUBSET Param : S # NoStop
    /\ Programs \subseteq
          [flows : SUBSET Flow, bound : [Param -> PortType \cup {{AnyType}}], config : Config]

ASSUME FiniteAssumption == IsFiniteSet(Param)

VARIABLES
    program,        \* the program and the configuration inference was started with
    flows,          \* the flows not yet retired
    step,           \* the number of the current step
    phase,          \* the part of the loop that is due
    breakCycles,    \* break_cycles
    candidates,     \* all_candidates, of the parameters not yet picked
    flowsOf,        \* flows_of
    awaited,        \* the open parameters the candidates of each parameter mention
    inferredInPass, \* inferred_in_pass; progress is that it is not empty
    toStop          \* stop_after: what must be inferred before inference stops

passVars == <<candidates, flowsOf, awaited, inferredInPass>>
engineVars == <<program, bound, inferred, flows, step, phase, breakCycles, passVars, toStop>>

config == program.config
Steps == config.steps
Restrictions == config.restrictions
StopAfter == config.stopAfter

Now == Steps[step]

-----------------------------------------------------------------------------
(* Collecting candidates *)

(* Variant: all arms of the other side stay. *)
UncoveredAll(other, concrete) == other

(* The arms of other that none of the concrete arms is a supertype of. *)
Uncovered(other, concrete) ==
    LET arms == Resolved(other)
        left == {m \in arms : ~\E k \in concrete : Supertype({k}, {m})}
    IN  IF left = arms THEN other ELSE left

(* traverse_parallel: the parameters of own and what other puts against each of
   them.  Own unions are split first, and their generic arms are offered what the
   concrete ones leave over. *)
CandidatesFrom[own \in Type, other \in Type] ==
    LET p == The(own)
        itself == IF IsParam(own) THEN {<<p, other>>} ELSE {}
    IN  itself \cup
        IF IsUnion(own)
        THEN LET rest == Uncovered(other, own \ Param)
             IN  UNION {CandidatesFrom[{m}, rest] : m \in own \cap Param}
        ELSE IF IsUnion(other) THEN UNION {CandidatesFrom[own, {m}] : m \in other}
        ELSE IF IsParam(own) /\ inferred[p] # Open THEN CandidatesFrom[inferred[p], other]
        ELSE {}

(* Variant: parameters that are not to be inferred are found as well. *)
FlowCandidatesUnrestricted(flow) ==
    UNION {{[param |-> g[1], candidate |-> [type |-> g[2], contravariant |-> pos.contravariant, flow |-> flow]] :
                g \in {h \in CandidatesFrom[pos.target, pos.source] : inferred[h[1]] = Open}} :
           pos \in flow.positions}

(* collect_candidates_in_order for one flow: own is the target of a forward and
   the source of a backward step, and only open parameters of own's scope count. *)
FlowCandidates(flow) ==
    LET own(pos) == IF Now.forward THEN pos.target ELSE pos.source
        other(pos) == IF Now.forward THEN pos.source ELSE pos.target
        sees == (IF Now.forward THEN flow.target.sees ELSE flow.source.sees) \cap Restrictions
        found(pos) ==
            {g \in CandidatesFrom[own(pos), other(pos)] \cap (sees \X PortType) : inferred[g[1]] = Open}
        candidate(t, pos) == [type |-> t, contravariant |-> pos.contravariant, flow |-> flow]
    IN  UNION {{[param |-> g[1], candidate |-> candidate(g[2], pos)] : g \in found(pos)} :
               pos \in flow.positions}

CandidatesOf(p, fs) == {g.candidate : g \in {h \in UNION {FlowCandidates(f) : f \in fs} : h.param = p}}

(* Candidate::drop_union_branch_duplicates *)
DropUnionBranchDuplicates(cs) ==
    LET unions == {c \in cs : IsUnion(c.type)}
        branches == UNION {{Normal({m}) : m \in c.type} : c \in unions}
    IN  unions \cup {c \in cs \ unions : Normal(c.type) \notin branches}

(* Variant: parameters that are not to be inferred are waited for as well. *)
AwaitedParamsUnrestricted(c) == OpenIn(c.type)

(* awaited_params *)
AwaitedParams(c) == OpenIn(c.type) \cap Restrictions

(* awaits_transitively: from waits for to, directly or through open parameters. *)
AwaitsTransitively(from, to) ==
    \A S \in SUBSET Param :
        (from \in S /\ \A p \in S : inferred[p] = Open => awaited[p] \subseteq S) => to \in S

-----------------------------------------------------------------------------
(* Picking *)

(* Candidate::pick_best with rate_candidate: a candidate above all others, rather
   one that mentions a parameter than a plain one, and Never last. *)
PickBest(types) ==
    LET above == {t \in types : \A u \in types \ {t} : Supertype(t, u)}
        rate(t) == IF NeverForever[t] THEN 0 ELSE IF t \cap Param = {} THEN 1 ELSE 2
    IN  {t \in above : \A u \in above : rate(u) <= rate(t)}

(* Candidate::common_supertype, if all types are plain and there is one. *)
CommonSupertype(types) ==
    LET plain == UNION {Normal(t) : t \in types}
        join(x, y) == IF <<y, x>> \in Below \/ x = y THEN {x}
                      ELSE IF <<x, y>> \in Below THEN {y}
                      ELSE {z \in Atom : <<x, y, z>> \in Join}
        widen(x, common) == UNION {join(c, x) : c \in common}
        first == CHOOSE x \in plain : TRUE
    IN  IF \A t \in types : \E x \in Atom : Normal(t) = {x}
        THEN {{x} : x \in Atom \cap FoldSet(widen, {first}, plain \ {first})}
        ELSE {}

(* TypeExpr::intersection, folded over types without open parameters: the arms
   that all of the types accept. *)
Intersection(types) ==
    {m \in UNION {Resolved(t) : t \in types} : \A t \in types : Supertype(Resolved(t), {m})}

(* Candidate::pick_meet: a candidate below all others, or the intersection unless
   it is or might be Never.  A lone union of plain and open arms is found not to be
   Never if a plain one is asked first. *)
PickMeet(cs) ==
    LET types == {c.type : c \in cs}
        below == {t \in types : \A u \in types : Supertype(u, t)}
        first == CHOOSE t \in types : TRUE
        lone == Cardinality(cs) = 1 /\ PlainArmsFirst /\ first \cap Atom # {}
        meet == Intersection(types)
    IN  IF below # {} THEN below
        ELSE IF lone THEN {first}
        ELSE IF (\E t \in types : ContainsUninferred(t)) \/ meet = {} THEN {Open}
        ELSE {meet}

(* Candidate::pick_for_param: the types that may be picked, Open for None, for a
   bound that is settled. *)
PickWithin(upperBound, cs, upper) ==
    LET fits == {c \in cs : Supertype(upperBound, c.type)}
        types == {c.type : c \in fits}
        common == {t \in CommonSupertype(types) : Supertype(upperBound, t)}
    IN  IF fits = {} THEN {Open}
        ELSE IF upper THEN PickMeet(fits)
        ELSE IF PickBest(types) # {} THEN PickBest(types)
        ELSE IF common # {} THEN common
        ELSE {UNION types}

(* Variant: an open bound is no bound yet. *)
PickForParamOpenBound(p, cs, upper) ==
    PickWithin(IF ContainsUninferred(bound[p]) THEN {AnyType} ELSE bound[p], cs, upper)

(* Variant: bounds are not looked at. *)
PickForParamUnbounded(p, cs, upper) == PickWithin({AnyType}, cs, upper)

PickForParam(p, cs, upper) ==
    IF bound[p] # {AnyType} /\ ContainsUninferred(bound[p]) THEN {Open}
    ELSE PickWithin(bound[p], cs, upper)

(* Variant: nothing is collected again. *)
CurrentStale(p) == {c \in candidates[p] : p \notin Referenced(c.type)}

(* Variant: a candidate may mention p. *)
CurrentUnchecked(p) == candidates[p]

(* What a pick of p looks at: the candidates of the pass, collected again if they
   mention a parameter that was inferred since, without those that reach p. *)
Current(p) ==
    LET collected ==
            IF awaited[p] \cap inferredInPass = {} THEN candidates[p]
            ELSE DropUnionBranchDuplicates(CandidatesOf(p, flowsOf[p]))
    IN  {c \in collected : p \notin Referenced(c.type)}

(* Variant: open candidates are left aside. *)
BlockedNever(p, cs) == FALSE

(* A strict pick waits for the parameters its candidates mention, except, once
   cycles are broken, for those that in turn wait for p. *)
Blocked(p, cs) ==
    /\ ~Now.allowUninferred
    /\ \E c \in cs : \E q \in AwaitedParams(c) : ~(breakCycles /\ AwaitsTransitively(q, p))

(* The candidates from the side that a pick prefers. *)
Lower(cs) == {c \in cs : config.respectVariance => (c.contravariant <=> ~Now.forward)}

(* What may be picked for p from the candidates cs, Open for nothing. *)
Picks(p, cs) ==
    LET usable == {c \in cs : Now.allowUninferred \/ ~ContainsUninferred(c.type)}
        lower == Lower(usable)
        mustWait == lower = {} /\ Now.forward /\ config.respectVariance /\ ~Now.allowUninferred
    IN  IF Blocked(p, cs) \/ mustWait THEN {Open}
        ELSE PickForParam(p, IF lower = {} THEN usable ELSE lower, lower = {})

-----------------------------------------------------------------------------
NoCandidates == [p \in Param |-> {}]

ClearPass ==
    /\ candidates' = NoCandidates
    /\ flowsOf' = NoCandidates
    /\ awaited' = NoCandidates
    /\ inferredInPass' = {}

Init ==
    /\ program \in Programs
    /\ flows = program.flows
    /\ bound = program.bound
    /\ inferred = [p \in Param |-> Open]
    /\ step = 0
    /\ phase = "step"
    /\ breakCycles = FALSE
    /\ candidates = NoCandidates
    /\ flowsOf = NoCandidates
    /\ awaited = NoCandidates
    /\ inferredInPass = {}
    /\ toStop = StopAfter

(* The next step retires the flows that can't produce candidates any more. *)
StartStep ==
    /\ phase = "step"
    /\ step < Len(Steps)
    /\ step' = step + 1
    /\ flows' = {f \in flows :
                    \E pos \in f.positions : ContainsUninferred(pos.source \cup pos.target)}
    /\ breakCycles' = FALSE
    /\ phase' = "collect"
    /\ UNCHANGED <<program, bound, inferred, passVars, toStop>>

Finish ==
    /\ phase = "step"
    /\ step = Len(Steps)
    /\ phase' = "done"
    /\ UNCHANGED <<program, bound, inferred, flows, step, breakCycles, passVars, toStop>>

Collect ==
    /\ phase = "collect"
    /\ candidates' = [p \in Param |-> DropUnionBranchDuplicates(CandidatesOf(p, flows))]
    /\ flowsOf' = [p \in Param |-> {f \in flows : CandidatesOf(p, {f}) # {}}]
    /\ awaited' = [p \in Param |-> UNION {AwaitedParams(c) : c \in candidates'[p]}]
    /\ phase' = "pick"
    /\ UNCHANGED <<program, bound, inferred, flows, step, breakCycles, inferredInPass, toStop>>

(* A type without open parameters is stored normalized. *)
Stored(t) == IF ContainsUninferred(t) THEN t ELSE Normal(t)

(* p was inferred since, or nothing is picked for it in this pass. *)
Skip(p) ==
    /\ phase = "pick"
    /\ candidates[p] # {}
    /\ inferred[p] # Open \/ Open \in Picks(p, Current(p))
    /\ candidates' = [candidates EXCEPT ![p] = {}]
    /\ UNCHANGED <<program, bound, inferred, flows, step, phase, breakCycles, flowsOf, awaited, inferredInPass, toStop>>

(* Variant: what is inferred is not crossed off. *)
PickGoesOn(p) ==
    /\ phase = "pick"
    /\ candidates[p] # {}
    /\ inferred[p] = Open
    /\ \E t \in Picks(p, Current(p)) \ {Open} :
          inferred' = [inferred EXCEPT ![p] = Stored(t)]
    /\ candidates' = [candidates EXCEPT ![p] = {}]
    /\ inferredInPass' = inferredInPass \cup {p}
    /\ UNCHANGED <<program, bound, flows, step, phase, breakCycles, flowsOf, awaited, toStop>>

(* p is inferred; if it was the last parameter to wait for, inference returns. *)
Pick(p) ==
    /\ phase = "pick"
    /\ candidates[p] # {}
    /\ inferred[p] = Open
    /\ \E t \in Picks(p, Current(p)) \ {Open} :
          inferred' = [inferred EXCEPT ![p] = Stored(t)]
    /\ toStop' = IF toStop = NoStop THEN NoStop ELSE toStop \ {p}
    /\ IF toStop' = {}
       THEN phase' = "done" /\ ClearPass
       ELSE /\ candidates' = [candidates EXCEPT ![p] = {}]
            /\ inferredInPass' = inferredInPass \cup {p}
            /\ UNCHANGED <<phase, flowsOf, awaited>>
    /\ UNCHANGED <<program, bound, flows, step, breakCycles>>

(* Variant: a strict step ends only with a pass that allows open candidates. *)
EndPassRetries ==
    /\ phase = "pick"
    /\ candidates = NoCandidates
    /\ IF inferredInPass = {} /\ Now.allowUninferred
       THEN phase' = "step" /\ UNCHANGED breakCycles
       ELSE phase' = "collect" /\ breakCycles' = (inferredInPass = {})
    /\ ClearPass
    /\ UNCHANGED <<program, bound, inferred, flows, step, toStop>>

(* A pass without progress ends the step, a strict one only after a pass that
   broke cycles. *)
EndPass ==
    /\ phase = "pick"
    /\ candidates = NoCandidates
    /\ IF inferredInPass = {}
       THEN IF Now.allowUninferred \/ breakCycles
            THEN phase' = "step" /\ UNCHANGED breakCycles
            ELSE phase' = "collect" /\ breakCycles' = TRUE
       ELSE phase' = "collect" /\ breakCycles' = FALSE
    /\ ClearPass
    /\ UNCHANGED <<program, bound, inferred, flows, step, toStop>>

Next ==
    \/ StartStep
    \/ Finish
    \/ Collect
    \/ \E p \in Param : Pick(p) \/ Skip(p)
    \/ EndPass

(* infer runs to its end in one thread. *)
Spec == Init /\ [][Next]_engineVars /\ WF_engineVars(Next)

-----------------------------------------------------------------------------
(* Properties *)

TypeOK ==
    /\ config \in Config
    /\ bound \in [Param -> PortType \cup {{AnyType}}]
    /\ inferred \in [Param -> {Open} \cup PortType]
    /\ flows \in SUBSET program.flows
    /\ step \in 0..Len(Steps)
    /\ phase \in {"step", "collect", "pick", "done"}
    /\ breakCycles \in BOOLEAN
    /\ candidates \in [Param -> SUBSET Candidate]
    /\ flowsOf \in [Param -> SUBSET program.flows]
    /\ awaited \in [Param -> SUBSET Restrictions]
    /\ inferredInPass \subseteq Restrictions
    /\ toStop = NoStop \/ toStop \subseteq Param

(* The scopes are written to as OccursChecked says: each parameter once, only
   those the configuration allows, and never in a circle. *)
Store == INSTANCE OccursChecked WITH inferable <- config.restrictions
ImplementsOccursChecked == Store!Init /\ [][Store!Next]_<<config.restrictions, bound, inferred>>

(* No type reaches itself, "also not through other inferred parameters". *)
NoInfiniteType == TypesEnd

(* What a parameter stands for stays within its bound, also after the bound and
   the type have been narrowed by what was inferred later. *)
WithinBounds ==
    \A p \in Param :
        (inferred[p] # Open /\ bound[p] # {AnyType}) => Supertype(bound[p], inferred[p])

(* A flow into a type without open parameters that is accepted stays accepted,
   whatever is inferred for the parameters of its source, since that is within the
   bounds by which the flow was accepted: validation of a half inferred program
   may rely on it. *)
KeepsAcceptance ==
    \A f \in program.flows : \A pos \in f.positions :
        (~ContainsUninferred(pos.target) /\ Supertype(pos.target, pos.source))
        => Supertype(pos.target, pos.source)'

AcceptedFlowsStay == [][KeepsAcceptance]_engineVars

(* A strict pick sees all of its flows: the type it picks in a pass that breaks no
   cycle accepts whatever flows into the parameter now, including what arms other
   picks of the pass have taken away or added since collection; but for what
   mentions parameters that are not to be inferred. *)
StrictPicksFit ==
    [][\A p \in Param :
        (/\ inferred'[p] # inferred[p]
         /\ ~Now.allowUninferred
         /\ ~breakCycles)
        => \A c \in Lower(DropUnionBranchDuplicates(CandidatesOf(p, flows))) :
              (/\ p \notin Referenced(c.type)
               /\ OpenIn(c.type) \subseteq Restrictions
               /\ Supertype(bound[p], c.type))
              => Supertype(inferred[p], c.type)']_engineVars

(* No parameter is fed, over any number of others, by itself. *)
FlowsForward ==
    \A S \in SUBSET Param : S # {} =>
        \E p \in S : \A f \in program.flows : \A pos \in f.positions :
            p \in pos.target => pos.source \cap S = {}

(* A program without bounds that only produces and passes on values type-checks
   once inferred: every flow into a generic port is accepted, however the types of
   its ends came about. *)
FlowsAccepted ==
    (/\ phase = "done"
     /\ \A p \in Param : bound[p] = {AnyType}
     /\ config.restrictions = Param /\ config.stopAfter = NoStop
     /\ \A f \in program.flows : \A pos \in f.positions :
            pos.target \cap Param # {} /\ ~pos.contravariant
     /\ FlowsForward)
    => \A f \in program.flows : \A pos \in f.positions :
            ContainsUninferred(pos.source \cup pos.target) \/ Supertype(pos.target, pos.source)

(* The types a program is about. *)
ProgramTypes ==
    {bound[p] : p \in Param} \cup
    UNION {UNION {{pos.source, pos.target} : pos \in f.positions} : f \in program.flows}

(* Whether one of these is known to be a supertype of another one only depends on
   what they stand for, if the one is without open parameters: on all the plain
   types their parameters lead to, not on the parameters themselves. *)
SubtypingExact ==
    \A parent \in {t \in ProgramTypes : Settled(t)} :
        LET offered == Leaves(parent)
        IN  \A child \in ProgramTypes :
                Supertype(parent, child) <=> AllUnder(Leaves(child), offered)

(* "Inference will stop as soon as all of these parameters are inferred." *)
StopsWhenAsked ==
    [][(StopAfter # NoStop /\ StopAfter # {} /\ \A p \in StopAfter : inferred[p] # Open)
        => UNCHANGED inferred]_engineVars

Openings == {p \in Param : inferred[p] = Open}

(* How many passes are still possible: a pass that infers something may be followed
   by another one, and each step ends after at most two that don't. *)
PassesLeft ==
    2 * Cardinality(Openings) + 2 * (Len(Steps) - step) +
    CASE phase = "collect" -> IF breakCycles THEN 1 ELSE 2
      [] phase = "pick" /\ inferredInPass # {} -> 2
      [] phase = "pick" /\ inferredInPass = {} /\ ~breakCycles -> 1
      [] OTHER -> 0

StepsLeft ==
    CASE phase = "done" -> 0
      [] phase = "step" -> PassesLeft * (Cardinality(Param) + 3) + 1
      [] phase = "collect" -> PassesLeft * (Cardinality(Param) + 3)
      [] phase = "pick" ->
            PassesLeft * (Cardinality(Param) + 3) + 2 + Cardinality({p \in Param : candidates[p] # {}})

(* Whatever is picked, every step of the engine brings its end closer: inference
   makes at most two passes for each parameter and each of its steps. *)
EndComesCloser == [][(StepsLeft \in Nat) /\ (StepsLeft' < StepsLeft)]_engineVars

(* Inference ends. *)
Terminates == <>(phase = "done")

=============================================================================
