-------------------------- MODULE UnionTypesProofs --------------------------
(***************************************************************************)
(* What subtyping of unions and parameters means: once its walks end, a    *)
(* settled type is a supertype of exactly the types whose plain arms, found*)
(* by following boundaries, are below its own.                             *)
(***************************************************************************)
EXTENDS UnionTypes, TLAPS

ScopesTyped ==
    /\ bound \in [Param -> Type]
    /\ inferred \in [Param -> {Open} \cup Type]

-----------------------------------------------------------------------------
(* The equations of is_never and supertype_of *)

(* A monotone function on sets has a fixpoint: what all sets it shrinks share. *)
LEMMA LeastFixpoint ==
    ASSUME NEW U, NEW F \in [SUBSET U -> SUBSET U],
           \A R, S \in SUBSET U : R \subseteq S => F[R] \subseteq F[S]
    PROVE  \E S \in SUBSET U : F[S] = S
<1> DEFINE L == {x \in U : \A S \in SUBSET U : F[S] \subseteq S => x \in S}
<1>1. L \in SUBSET U
  OBVIOUS
<1>2. \A S \in SUBSET U : F[S] \subseteq S => L \subseteq S
  OBVIOUS
<1>3. ASSUME NEW x \in U, \A S \in SUBSET U : F[S] \subseteq S => x \in S
      PROVE  x \in L
  BY <1>3
<1> HIDE DEF L
<1>4. F[L] \subseteq L
  <2> SUFFICES ASSUME NEW x \in F[L] PROVE x \in L
    OBVIOUS
  <2>1. x \in U
    BY <1>1
  <2>2. \A S \in SUBSET U : F[S] \subseteq S => x \in S
    BY <1>1, <1>2
  <2> QED
    BY <1>3, <2>1, <2>2
<1>5. L \subseteq F[L]
  <2>1. F[L] \in SUBSET U /\ F[F[L]] \subseteq F[L]
    BY <1>1, <1>4
  <2> QED
    BY <1>2, <2>1
<1> QED
  BY <1>1, <1>4, <1>5

LEMMA BoundaryTyped ==
    ASSUME ScopesTyped, NEW p \in Param
    PROVE  Boundary(p) \in Type
BY DEF ScopesTyped, Boundary

LEMMA ArmTyped ==
    ASSUME NEW t \in Type, NEW m \in t
    PROVE  {m} \in Type
BY DEF Type

(* is_never: a type is Never forever if all of its arms are parameters whose
   boundary is. *)
LEMMA NeverForeverHolds ==
    ASSUME ScopesTyped, NEW t \in Type
    PROVE  /\ NeverForever[t] \in BOOLEAN
           /\ NeverForever[t] <=> \A m \in t : m \in Param /\ NeverForever[Boundary(m)]
<1> DEFINE F == [S \in SUBSET Type |-> {x \in Type : \A m \in x : m \in Param /\ Boundary(m) \in S}]
<1>1. F \in [SUBSET Type -> SUBSET Type]
  OBVIOUS
<1>2. \A R, S \in SUBSET Type : R \subseteq S => F[R] \subseteq F[S]
  OBVIOUS
<1>3. PICK L \in SUBSET Type : F[L] = L
  <2> HIDE DEF F
  <2> QED
    BY <1>1, <1>2, LeastFixpoint
<1> DEFINE f == [x \in Type |-> x \in L]
<1>4. \A x \in Type : x \in L <=> \A m \in x : m \in Param /\ Boundary(m) \in L
  BY <1>3
<1>5. \A x \in Type : f[x] = (x \in L)
  OBVIOUS
<1>6. ASSUME NEW x \in Type
      PROVE  f[x] = \A m \in x : m \in Param /\ f[Boundary(m)]
  <2> HIDE DEF f
  <2>1. \A m \in x : m \in Param => f[Boundary(m)] = (Boundary(m) \in L)
    BY <1>5, BoundaryTyped
  <2> DEFINE body == \A m \in x : m \in Param /\ f[Boundary(m)]
  <2>2. body <=> x \in L
    BY <1>4, <2>1, Zenon
  <2>3. body \in BOOLEAN
    OBVIOUS
  <2> HIDE DEF body
  <2>4. f[x] = body
    BY <1>5, <2>2, <2>3
  <2> QED
    BY <2>4 DEF body
<1>7. f = [x \in Type |-> \A m \in x : m \in Param /\ f[Boundary(m)]]
  BY <1>6
<1>8. NeverForever = CHOOSE g : g = [x \in Type |-> \A m \in x : m \in Param /\ g[Boundary(m)]]
  BY DEF NeverForever
<1> HIDE DEF f
<1>9. \E g : g = [x \in Type |-> \A m \in x : m \in Param /\ g[Boundary(m)]]
  BY <1>7
<1>10. NeverForever = [x \in Type |-> \A m \in x : m \in Param /\ NeverForever[Boundary(m)]]
  BY <1>8, <1>9
<1> QED
  BY <1>10

LEMMA TheOnly ==
    ASSUME NEW x
    PROVE  The({x}) = x
BY DEF The

(* What a wider relation says of a parent and a child is no less. *)
LEMMA RulesMonotone ==
    ASSUME ScopesTyped, NEW f, NEW g,
           \A x, y \in Type : f[<<x, y>>] => g[<<x, y>>],
           NEW parent \in Type, NEW child \in Type, SupertypeRules(f, parent, child)
    PROVE  SupertypeRules(g, parent, child)
<1>1. CASE IsParam(parent) /\ IsParam(child)
  <2>1. PICK p \in Param, c \in Param : parent = {p} /\ child = {c}
    BY <1>1 DEF IsParam
  <2>2. The(parent) = p /\ The(child) = c
    BY <2>1, TheOnly
  <2>3. BothParams(f, p, c) => BothParams(g, p, c)
    <3>1. Boundary(c) \in Type /\ {p} \in Type /\ {c} \in Type
      BY <2>1, BoundaryTyped
    <3>2. inferred[p] # Open => inferred[p] \in Type
      BY DEF ScopesTyped
    <3>3. inferred[c] # Open => inferred[c] \in Type
      BY DEF ScopesTyped
    <3> QED
      BY <3>1, <3>2, <3>3 DEF BothParams
  <2> QED
    BY <1>1, <2>2, <2>3 DEF SupertypeRules
<1>2. CASE IsParam(parent) /\ ~IsParam(child)
  <2>1. PICK p \in Param : parent = {p}
    BY <1>2 DEF IsParam
  <2>2. The(parent) = p
    BY <2>1, TheOnly
  <2>3. ParentParam(f, p, child) => ParentParam(g, p, child)
    BY DEF ParentParam, ScopesTyped
  <2> QED
    BY <1>2, <2>2, <2>3 DEF SupertypeRules
<1>3. CASE ~IsParam(parent) /\ IsParam(child)
  <2>1. PICK c \in Param : child = {c}
    BY <1>3 DEF IsParam
  <2>2. The(child) = c
    BY <2>1, TheOnly
  <2>3. ChildParam(f, parent, c) => ChildParam(g, parent, c)
    BY BoundaryTyped DEF ChildParam
  <2> QED
    BY <1>3, <2>2, <2>3 DEF SupertypeRules
<1>4. CASE ~IsParam(parent) /\ ~IsParam(child)
  <2>1. \A m \in child : f[<<parent, {m}>>] => g[<<parent, {m}>>]
    BY ArmTyped
  <2>2. \A m \in parent : f[<<{m}, child>>] => g[<<{m}, child>>]
    BY ArmTyped
  <2> QED
    BY <1>4, <2>1, <2>2 DEF SupertypeRules
<1> QED
  BY <1>1, <1>2, <1>3, <1>4

LEMMA RulesBoolean ==
    ASSUME NEW f, NEW parent, NEW child, NeverForever[child] \in BOOLEAN
    PROVE  SupertypeRules(f, parent, child) \in BOOLEAN
<1> DEFINE p == The(parent)
           c == The(child)
<1>2. /\ BothParams(f, p, c) \in BOOLEAN
      /\ ParentParam(f, p, child) \in BOOLEAN
      /\ ChildParam(f, parent, c) \in BOOLEAN
      /\ (\A m \in child : f[<<parent, {m}>>]) \in BOOLEAN
      /\ (\E m \in parent : f[<<{m}, child>>]) \in BOOLEAN
  BY DEF BothParams, ParentParam, ChildParam
<1>3. CASE parent = {AnyType} \/ child = {}
  BY <1>3 DEF SupertypeRules
<1>4. CASE ~(parent = {AnyType} \/ child = {}) /\ child = {AnyType}
  BY <1>4 DEF SupertypeRules
<1>5. CASE ~(parent = {AnyType} \/ child = {}) /\ child # {AnyType} /\ parent = {}
  BY <1>5 DEF SupertypeRules
<1> DEFINE proper == parent # {AnyType} /\ child # {} /\ child # {AnyType} /\ parent # {}
<1>6. CASE proper /\ IsParam(parent)
  BY <1>6, <1>2 DEF SupertypeRules
<1>7. CASE proper /\ ~IsParam(parent) /\ IsParam(child)
  BY <1>7, <1>2 DEF SupertypeRules
<1>8. CASE proper /\ ~IsParam(parent) /\ ~IsParam(child) /\ IsUnion(child)
  BY <1>8, <1>2 DEF SupertypeRules
<1>9. CASE proper /\ ~IsParam(parent) /\ ~IsParam(child) /\ ~IsUnion(child)
  BY <1>9, <1>2 DEF SupertypeRules
<1> QED
  BY <1>3, <1>4, <1>5, <1>6, <1>7, <1>8, <1>9

(* supertype_of: the function does what the rules say. *)
LEMMA SupertypeHolds ==
    ASSUME ScopesTyped, NEW parent \in Type, NEW child \in Type
    PROVE  Supertype(parent, child) <=> SupertypeRules(SupertypeOf, parent, child)
<1> DEFINE rel(S) == [pair \in Type \X Type |-> pair \in S]
           U == Type \X Type
           F == [S \in SUBSET U |-> {pair \in U : SupertypeRules(rel(S), pair[1], pair[2])}]
<1>1. F \in [SUBSET U -> SUBSET U]
  OBVIOUS
<1>2. ASSUME NEW R \in SUBSET U, NEW S \in SUBSET U, R \subseteq S
      PROVE  F[R] \subseteq F[S]
  <2>1. \A x, y \in Type : rel(R)[<<x, y>>] => rel(S)[<<x, y>>]
    BY <1>2
  <2> HIDE DEF rel
  <2>2. \A pair \in U : SupertypeRules(rel(R), pair[1], pair[2]) => SupertypeRules(rel(S), pair[1], pair[2])
    BY <2>1, RulesMonotone
  <2> QED
    BY <2>2
<1>3. PICK L \in SUBSET U : F[L] = L
  <2> HIDE DEF F, U
  <2> QED
    BY <1>1, <1>2, LeastFixpoint
<1> DEFINE f == rel(L)
<1>4. \A pair \in U : f[pair] = (pair \in L)
  OBVIOUS
<1>5. \A pair \in U : pair \in L <=> SupertypeRules(f, pair[1], pair[2])
  <2> HIDE DEF rel
  <2> QED
    BY <1>3
<1>6. f = [pair \in Type \X Type |-> SupertypeRules(f, pair[1], pair[2])]
  <2>1. ASSUME NEW pair \in U PROVE SupertypeRules(f, pair[1], pair[2]) \in BOOLEAN
    <3> HIDE DEF f
    <3> QED
      BY NeverForeverHolds, RulesBoolean
  <2>2. ASSUME NEW pair \in U PROVE f[pair] = SupertypeRules(f, pair[1], pair[2])
    <3> DEFINE body == SupertypeRules(f, pair[1], pair[2])
    <3>1. body \in BOOLEAN /\ (body <=> pair \in L) /\ f[pair] = (pair \in L)
      BY <1>4, <1>5, <2>1
    <3> HIDE DEF body, f
    <3>2. f[pair] = body
      BY <3>1
    <3> QED
      BY <3>2 DEF body
  <2>3. f = [pair \in U |-> f[pair]]
    OBVIOUS
  <2> HIDE DEF f
  <2> QED
    BY <2>2, <2>3
<1>7. SupertypeOf = CHOOSE g : g = [pair \in Type \X Type |-> SupertypeRules(g, pair[1], pair[2])]
  BY DEF SupertypeOf
<1> HIDE DEF f
<1>8. \E g : g = [pair \in Type \X Type |-> SupertypeRules(g, pair[1], pair[2])]
  BY <1>6
<1>9. SupertypeOf = [pair \in Type \X Type |-> SupertypeRules(SupertypeOf, pair[1], pair[2])]
  BY <1>7, <1>8
<1> QED
  BY <1>9 DEF Supertype

-----------------------------------------------------------------------------
(* The rules of supertype_of, one by one *)

LEMMA AnyAndNeverRules ==
    ASSUME ScopesTyped, NEW T \in Type, NEW C \in Type
    PROVE  /\ Supertype({AnyType}, C)
           /\ Supertype(T, {})
           /\ T # {AnyType} => (Supertype(T, {AnyType}) <=> AnyType \in Resolved(T))
           /\ Supertype({}, C) <=> NeverForever[C] \/ C = {}
<1>1. Supertype({AnyType}, C)
  <2>1. {AnyType} \in Type
    BY DEF Type, Arm
  <2> QED
    BY <2>1, SupertypeHolds DEF SupertypeRules
<1>2. {} \in Type
  BY DEF Type
<1>3. Supertype(T, {})
  BY <1>2, SupertypeHolds DEF SupertypeRules
<1>4. ASSUME T # {AnyType} PROVE Supertype(T, {AnyType}) <=> AnyType \in Resolved(T)
  <2>1. {AnyType} \in Type
    BY DEF Type, Arm
  <2> QED
    BY <1>4, <2>1, SupertypeHolds DEF SupertypeRules
<1>5. Supertype({}, C) <=> NeverForever[C] \/ C = {}
  <2>1. CASE C = {}
    <3>1. Supertype({}, {})
      BY <1>2, SupertypeHolds DEF SupertypeRules
    <3> QED
      BY <2>1, <3>1
  <2>2. CASE C # {} /\ C # {AnyType}
    BY <2>2, <1>2, SupertypeHolds DEF SupertypeRules
  <2>3. CASE C = {AnyType}
    <3>1. ~NeverForever[C]
      BY <2>3, NeverForeverHolds, ArmsAssumption
    <3>2. AnyType \notin Resolved({})
      <4>1. Referenced({}) = {}
        BY {} \in SUBSET Param DEF Referenced, FollowsInferred
      <4> QED
        BY <4>1, ArmsAssumption DEF Resolved, OpenIn
    <3> QED
      BY <1>2, <2>3, <3>1, <3>2, SupertypeHolds DEF SupertypeRules
  <2> QED
    BY <2>1, <2>2, <2>3
<1> QED
  BY <1>1, <1>3, <1>4, <1>5

LEMMA ParamIsSingle ==
    ASSUME NEW p \in Param
    PROVE  /\ {p} \in Type /\ IsParam({p}) /\ ~IsUnion({p})
           /\ {p} # {} /\ {p} # {AnyType}
BY ArmsAssumption DEF Type, Arm, IsParam, IsUnion

LEMMA TwoParamsRule ==
    ASSUME ScopesTyped, NEW p \in Param, NEW c \in Param
    PROVE  Supertype({p}, {c}) <=>
               \/ p = c
               \/ NeverForever[Boundary(c)]
               \/ /\ inferred[p] # Open
                  /\ \/ Supertype(inferred[p], Boundary(c))
                     \/ inferred[c] = Open /\ Supertype(inferred[p], {c})
               \/ inferred[p] = Open /\ inferred[c] # Open /\ Supertype({p}, inferred[c])
<1>1. Supertype({p}, {c}) <=> BothParams(SupertypeOf, p, c)
  BY ParamIsSingle, TheOnly, SupertypeHolds DEF SupertypeRules
<1> QED
  BY <1>1 DEF BothParams, Supertype

LEMMA ParentParamRule ==
    ASSUME ScopesTyped, NEW p \in Param, NEW C \in Type,
           C # {}, C # {AnyType}, ~IsParam(C)
    PROVE  Supertype({p}, C) <=> inferred[p] # Open /\ Supertype(inferred[p], C)
<1>1. /\ {p} \in Type /\ IsParam({p}) /\ {p} # {} /\ {p} # {AnyType}
      /\ The({p}) = p
  BY ParamIsSingle, TheOnly
<1>2. SupertypeRules(SupertypeOf, {p}, C) <=> ParentParam(SupertypeOf, p, C)
  BY <1>1 DEF SupertypeRules
<1>3. Supertype({p}, C) <=> ParentParam(SupertypeOf, p, C)
  BY <1>1, <1>2, SupertypeHolds
<1> QED
  BY <1>3 DEF ParentParam, Supertype

LEMMA ChildParamRule ==
    ASSUME ScopesTyped, NEW T \in Type, NEW c \in Param,
           T # {}, T # {AnyType}, ~IsParam(T)
    PROVE  Supertype(T, {c}) <=> NeverForever[Boundary(c)] \/ Supertype(T, Boundary(c))
<1>1. Supertype(T, {c}) <=> ChildParam(SupertypeOf, T, c)
  BY ParamIsSingle, TheOnly, SupertypeHolds DEF SupertypeRules
<1> QED
  BY <1>1 DEF ChildParam, Supertype

LEMMA ChildUnionRule ==
    ASSUME ScopesTyped, NEW T \in Type, NEW C \in Type,
           T # {}, T # {AnyType}, ~IsParam(T), IsUnion(C)
    PROVE  Supertype(T, C) <=> \A m \in C : Supertype(T, {m})
<1>1. C # {} /\ C # {AnyType} /\ ~IsParam(C)
  BY DEF IsUnion, IsParam
<1> QED
  BY <1>1, SupertypeHolds DEF SupertypeRules, Supertype

LEMMA ParentUnionRule ==
    ASSUME ScopesTyped, NEW T \in Type, NEW k \in Atom, IsUnion(T)
    PROVE  Supertype(T, {k}) <=> \E m \in T : Supertype({m}, {k})
<1>1. T # {} /\ T # {AnyType} /\ ~IsParam(T)
  BY DEF IsUnion, IsParam
<1>2. {k} \in Type /\ {k} # {} /\ {k} # {AnyType} /\ ~IsParam({k}) /\ ~IsUnion({k})
  BY ArmsAssumption DEF Type, Arm, IsParam, IsUnion
<1> QED
  BY <1>1, <1>2, SupertypeHolds DEF SupertypeRules, Supertype

LEMMA AtomsRule ==
    ASSUME ScopesTyped, NEW l \in Atom, NEW k \in Atom
    PROVE  Supertype({l}, {k}) <=> l = k \/ <<k, l>> \in Below
<1>1. \A x \in Atom : /\ {x} \in Type /\ {x} # {} /\ {x} # {AnyType}
                      /\ ~IsParam({x}) /\ ~IsUnion({x}) /\ The({x}) = x
  BY ArmsAssumption, TheOnly DEF Type, Arm, IsParam, IsUnion
<1> QED
  BY <1>1, SupertypeHolds DEF SupertypeRules

-----------------------------------------------------------------------------
(* Leaves: the plain arms of a type, found by following boundaries *)

(* What a type reaches holds what it mentions and is closed. *)
LEMMA ReferencedIsClosed ==
    ASSUME NEW t
    PROVE  t \cap Param \subseteq Referenced(t) /\ FollowsInferred(Referenced(t))
<1>1. t \cap Param \subseteq Referenced(t)
  BY DEF Referenced
<1>2. ASSUME NEW q \in Referenced(t), inferred[q] # Open, NEW r \in inferred[q] \cap Param
      PROVE  r \in Referenced(t)
  <2> SUFFICES ASSUME NEW C \in SUBSET Param, t \cap Param \subseteq C, FollowsInferred(C)
               PROVE  r \in C
    BY DEF Referenced
  <2>1. q \in C
    BY <1>2 DEF Referenced
  <2> QED
    BY <1>2, <2>1 DEF FollowsInferred
<1> QED
  BY <1>1, <1>2 DEF FollowsInferred

LEMMA MetIsClosed ==
    ASSUME NEW t
    PROVE  /\ Met(t) \in SUBSET Param
           /\ t \cap Param \subseteq Met(t)
           /\ FollowsBoundaries(Met(t))
<1>1. t \cap Param \subseteq Met(t) /\ Met(t) \in SUBSET Param
  BY DEF Met
<1>2. ASSUME NEW q \in Met(t), NEW r \in Boundary(q) \cap Param
      PROVE  r \in Met(t)
  <2> SUFFICES ASSUME NEW C \in SUBSET Param, t \cap Param \subseteq C, FollowsBoundaries(C)
               PROVE  r \in C
    BY DEF Met
  <2>1. q \in C
    BY <1>2 DEF Met
  <2> QED
    BY <1>2, <2>1 DEF FollowsBoundaries
<1> QED
  BY <1>1, <1>2 DEF FollowsBoundaries

LEMMA MetIsLeast ==
    ASSUME NEW t, NEW S \in SUBSET Param, t \cap Param \subseteq S, FollowsBoundaries(S)
    PROVE  Met(t) \subseteq S
BY DEF Met

(* Where leaves stay: within L, if the arms of t do and so do those of all
   parameters in a set that t starts in and boundaries don't leave. *)
LEMMA LeavesWithin ==
    ASSUME NEW t, NEW L, NEW S \in SUBSET Param,
           t \cap Param \subseteq S, FollowsBoundaries(S),
           t \ Param \subseteq L, \A q \in S : Boundary(q) \ Param \subseteq L
    PROVE  Leaves(t) \subseteq L
BY MetIsLeast DEF Leaves

(* A type that mentions another one's parameters and arms has its leaves. *)
LEMMA LeavesOfPart ==
    ASSUME NEW t, NEW s \in SUBSET t
    PROVE  Leaves(s) \subseteq Leaves(t)
<1>1. /\ Met(t) \in SUBSET Param /\ s \cap Param \subseteq Met(t)
      /\ FollowsBoundaries(Met(t))
  BY MetIsClosed
<1>2. s \ Param \subseteq Leaves(t) /\ \A q \in Met(t) : Boundary(q) \ Param \subseteq Leaves(t)
  BY DEF Leaves
<1> QED
  BY <1>1, <1>2, LeavesWithin

LEMMA LeavesOfPlainArm ==
    ASSUME NEW m, m \notin Param
    PROVE  Leaves({m}) = {m}
<1>1. FollowsBoundaries({}) /\ {m} \cap Param \subseteq {}
  BY DEF FollowsBoundaries
<1>2. Met({m}) \subseteq {}
  BY <1>1, MetIsLeast, {} \in SUBSET Param
<1> QED
  BY <1>2 DEF Leaves

(* A parameter has the leaves of its boundary. *)
LEMMA LeavesOfParam ==
    ASSUME NEW p \in Param
    PROVE  Leaves({p}) = Leaves(Boundary(p))
<1>1. Leaves({p}) \subseteq Leaves(Boundary(p))
  <2> DEFINE S == {p} \cup Met(Boundary(p))
  <2>1. S \in SUBSET Param /\ {p} \cap Param \subseteq S /\ FollowsBoundaries(S)
    BY MetIsClosed DEF FollowsBoundaries
  <2>2. \A q \in S : Boundary(q) \ Param \subseteq Leaves(Boundary(p))
    BY DEF Leaves
  <2>3. {p} \ Param \subseteq Leaves(Boundary(p))
    OBVIOUS
  <2> HIDE DEF S
  <2> QED
    BY <2>1, <2>2, <2>3, LeavesWithin
<1>2. Leaves(Boundary(p)) \subseteq Leaves({p})
  <2>1. p \in Met({p})
    BY MetIsClosed
  <2>2. Boundary(p) \cap Param \subseteq Met({p}) /\ Boundary(p) \ Param \subseteq Leaves({p})
    BY <2>1, MetIsClosed DEF FollowsBoundaries, Leaves
  <2>3. \A q \in Met({p}) : Boundary(q) \ Param \subseteq Leaves({p})
    BY DEF Leaves
  <2> QED
    BY <2>2, <2>3, MetIsClosed, LeavesWithin
<1> QED
  BY <1>1, <1>2

(* Every leaf comes from one of the arms. *)
LEMMA LeavesByArm ==
    ASSUME NEW t, NEW k \in Leaves(t)
    PROVE  \E m \in t : k \in Leaves({m})
<1> DEFINE S == UNION {Met({m}) : m \in t}
           L == UNION {Leaves({m}) : m \in t}
<1>1. S \in SUBSET Param /\ FollowsBoundaries(S)
  <2>1. \A m \in t : Met({m}) \in SUBSET Param /\ FollowsBoundaries(Met({m}))
    BY MetIsClosed
  <2> QED
    BY <2>1 DEF FollowsBoundaries
<1>2. t \cap Param \subseteq S
  BY MetIsClosed
<1>3. t \ Param \subseteq L
  BY LeavesOfPlainArm
<1>4. \A q \in S : Boundary(q) \ Param \subseteq L
  BY DEF Leaves
<1>5. Leaves(t) \subseteq L
  <2> HIDE DEF S, L
  <2> QED
    BY <1>1, <1>2, <1>3, <1>4, LeavesWithin
<1> QED
  BY <1>5

(* A type without open parameters meets what it refers to, and its leaves are what
   traversal resolves it to. *)
LEMMA SettledMeets ==
    ASSUME NEW t, Settled(t)
    PROVE  /\ Met(t) = Referenced(t)
           /\ \A q \in Met(t) : inferred[q] # Open
           /\ Leaves(t) = Resolved(t)
<1>1. \A q \in Referenced(t) : q \in Param /\ inferred[q] # Open
  BY DEF Settled, ContainsUninferred, OpenIn, Referenced
<1>2. Met(t) \subseteq Referenced(t)
  <2>1. FollowsBoundaries(Referenced(t))
    BY <1>1, ReferencedIsClosed DEF FollowsBoundaries, FollowsInferred, Boundary
  <2>2. Referenced(t) \in SUBSET Param
    BY DEF Referenced
  <2> QED
    BY <2>1, <2>2, ReferencedIsClosed, MetIsLeast
<1>3. Referenced(t) \subseteq Met(t)
  <2>1. FollowsInferred(Met(t))
    BY MetIsClosed DEF FollowsBoundaries, FollowsInferred, Boundary
  <2> QED
    BY <2>1, MetIsClosed DEF Referenced
<1>4. Met(t) = Referenced(t)
  BY <1>2, <1>3
<1>5. Leaves(t) = Resolved(t)
  <2>1. OpenIn(t) = {}
    BY DEF Settled, ContainsUninferred
  <2>2. \A q \in Referenced(t) : Boundary(q) = inferred[q]
    BY <1>1 DEF Boundary
  <2> QED
    BY <1>4, <2>1, <2>2 DEF Leaves, Resolved
<1> QED
  BY <1>1, <1>4, <1>5

LEMMA SettledPart ==
    ASSUME NEW t, Settled(t), NEW s, s \cap Param \subseteq Referenced(t)
    PROVE  Settled(s)
<1>1. Referenced(s) \subseteq Referenced(t)
  BY ReferencedIsClosed DEF Referenced
<1> QED
  BY <1>1 DEF Settled, ContainsUninferred, OpenIn

LEMMA SettledArm ==
    ASSUME NEW t, Settled(t), NEW m \in t
    PROVE  Settled({m})
BY SettledPart, ReferencedIsClosed

LEMMA SettledParam ==
    ASSUME NEW p \in Param, Settled({p})
    PROVE  /\ inferred[p] # Open /\ Boundary(p) = inferred[p]
           /\ Settled(inferred[p])
           /\ Leaves(inferred[p]) = Leaves({p})
<1>1. p \in Referenced({p})
  BY ReferencedIsClosed
<1>2. inferred[p] # Open
  BY <1>1 DEF Settled, ContainsUninferred, OpenIn
<1>3. inferred[p] \cap Param \subseteq Referenced({p})
  BY <1>1, <1>2, ReferencedIsClosed DEF FollowsInferred
<1>4. Boundary(p) = inferred[p]
  BY <1>2 DEF Boundary
<1> QED
  BY <1>2, <1>3, <1>4, SettledPart, LeavesOfParam

-----------------------------------------------------------------------------
(* Below: what a leaf is below *)

LEMMA UnderTransitive ==
    ASSUME NEW k, NEW L, NEW M, Under(k, L), AllUnder(L, M)
    PROVE  Under(k, M)
<1>1. CASE AnyType \in L \/ k \in L
  <2>1. Under(AnyType, M) => AnyType \in M
    BY ArmsAssumption, BelowAssumption DEF Under
  <2> QED
    BY <1>1, <2>1 DEF Under, AllUnder
<1>2. ASSUME NEW l \in L, <<k, l>> \in Below
      PROVE  Under(k, M)
  <2>1. Under(l, M)
    BY DEF AllUnder
  <2>2. ASSUME NEW m \in M, <<l, m>> \in Below
        PROVE  <<k, m>> \in Below
    BY <1>2, <2>2, BelowAssumption
  <2> QED
    BY <1>2, <2>1, <2>2 DEF Under
<1> QED
  BY <1>1, <1>2 DEF Under

LEMMA AllUnderSubset ==
    ASSUME NEW K, NEW L, NEW M, AllUnder(K, L), L \subseteq M
    PROVE  AllUnder(K, M)
BY DEF AllUnder, Under

LEMMA AnyOnlyUnderAny ==
    ASSUME NEW L, Under(AnyType, L)
    PROVE  AnyType \in L
BY ArmsAssumption, BelowAssumption DEF Under

(* A type that is Never forever has no leaves. *)
LEMMA NeverHasNoLeaves ==
    ASSUME ScopesTyped, NEW t \in Type, NeverForever[t]
    PROVE  Leaves(t) = {}
<1> DEFINE S == {q \in Param : NeverForever[Boundary(q)]}
<1>1. \A x \in Type : NeverForever[x] => \A m \in x : m \in Param /\ NeverForever[Boundary(m)]
  BY NeverForeverHolds
<1>2. \A q \in S : \A m \in Boundary(q) : m \in S
  BY <1>1, BoundaryTyped
<1>3. \A m \in t : m \in S
  BY <1>1
<1>4. S \in SUBSET Param
  OBVIOUS
<1> HIDE DEF S
<1>5. t \cap Param \subseteq S /\ FollowsBoundaries(S)
  BY <1>2, <1>3 DEF FollowsBoundaries
<1>6. t \ Param = {} /\ \A q \in S : Boundary(q) \ Param = {}
  BY <1>2, <1>3, <1>4
<1>7. Met(t) \subseteq S
  BY <1>4, <1>5, MetIsLeast
<1> QED
  BY <1>6, <1>7 DEF Leaves

-----------------------------------------------------------------------------
(* Soundness: what a settled type is a supertype of is below it *)

(* Some settled type with leaves in L is a supertype of C. *)
Offers(L, C) ==
    \E T \in Type : Settled(T) /\ Leaves(T) \subseteq L /\ Supertype(T, C)

LEMMA AnyIsNoParent ==
    ASSUME NEW L, AnyType \notin L, NEW T, Leaves(T) \subseteq L
    PROVE  AnyType \notin T
<1>1. AnyType \in T => AnyType \in Leaves(T)
  BY ArmsAssumption DEF Leaves
<1> QED
  BY <1>1

(* supertype_of looks through parent parameters until it reaches a type that is
   none, or a rule that decides. *)
LEMMA ParentIsNoParam ==
    ASSUME ScopesTyped, TypesEnd, NEW L, AnyType \notin L,
           NEW C \in Type, C # {}, C # {AnyType}, ~IsParam(C), Offers(L, C)
    PROVE  \E T \in Type : /\ Settled(T) /\ Leaves(T) \subseteq L
                           /\ ~IsParam(T) /\ T # {AnyType}
                           /\ Supertype(T, C)
<1> DEFINE P == {p \in Param : Settled({p}) /\ Leaves({p}) \subseteq L /\ Supertype({p}, C)}
<1>1. PICK T \in Type : Settled(T) /\ Leaves(T) \subseteq L /\ Supertype(T, C)
  BY DEF Offers
<1>2. CASE ~IsParam(T)
  BY <1>1, <1>2, AnyIsNoParent
<1>3. CASE IsParam(T)
  <2>1. P # {}
    BY <1>1, <1>3 DEF IsParam
  <2>2. PICK p \in P : inferred[p] = Open \/ inferred[p] \cap P = {}
    BY <2>1, P \in SUBSET Param DEF TypesEnd
  <2>3. /\ inferred[p] # Open /\ inferred[p] \in Type
        /\ Settled(inferred[p]) /\ Leaves(inferred[p]) \subseteq L
    BY SettledParam DEF ScopesTyped
  <2>4. Supertype(inferred[p], C)
    BY ParentParamRule
  <2>5. ~IsParam(inferred[p])
    BY <2>2, <2>3, <2>4 DEF IsParam
  <2>6. AnyType \notin inferred[p]
    BY <2>3, AnyIsNoParent
  <2> QED
    BY <2>3, <2>4, <2>5, <2>6
<1> QED
  BY <1>2, <1>3

LEMMA ChildParamOffered ==
    ASSUME ScopesTyped, TypesEnd, NEW L, AnyType \notin L,
           NEW q \in Param, Offers(L, {q})
    PROVE  \/ NeverForever[Boundary(q)]
           \/ Leaves({q}) \subseteq L
           \/ Offers(L, Boundary(q))
<1> SUFFICES ASSUME ~NeverForever[Boundary(q)], ~(Leaves({q}) \subseteq L), ~Offers(L, Boundary(q))
             PROVE  FALSE
  OBVIOUS
<1> DEFINE P == {p \in Param : Settled({p}) /\ Leaves({p}) \subseteq L /\ Supertype({p}, {q})}
<1>1. ASSUME NEW T \in Type, Settled(T), Leaves(T) \subseteq L, Supertype(T, {q})
      PROVE  \E p \in P : T = {p}
  <2>1. CASE IsParam(T)
    BY <1>1, <2>1 DEF IsParam
  <2>2. CASE T = {}
    <3>1. NeverForever[{q}]
      BY <1>1, <2>2, AnyAndNeverRules, ParamIsSingle
    <3>2. NeverForever[Boundary(q)]
      BY <3>1, NeverForeverHolds, ParamIsSingle
    <3> QED
      BY <3>2
  <2>3. CASE T # {} /\ ~IsParam(T)
    <3>1. T # {AnyType}
      BY <1>1, AnyIsNoParent
    <3>2. Supertype(T, Boundary(q))
      BY <1>1, <2>3, <3>1, ChildParamRule
    <3> QED
      BY <1>1, <3>2 DEF Offers
  <2> QED
    BY <2>1, <2>2, <2>3
<1>2. P # {}
  BY <1>1 DEF Offers
<1>3. PICK p \in P : inferred[p] = Open \/ inferred[p] \cap P = {}
  BY <1>2, P \in SUBSET Param DEF TypesEnd
<1>4. /\ inferred[p] # Open /\ inferred[p] \in Type
      /\ Settled(inferred[p]) /\ Leaves(inferred[p]) \subseteq L
  BY SettledParam DEF ScopesTyped
<1>5. p # q
  OBVIOUS
<1>6. ~Supertype(inferred[p], Boundary(q))
  BY <1>4 DEF Offers
<1>7. Supertype(inferred[p], {q})
  BY <1>4, <1>5, <1>6, TwoParamsRule
<1> QED
  BY <1>1, <1>3, <1>4, <1>7

(* An arm of a child is offered itself, or Never. *)
LEMMA ArmOffered ==
    ASSUME ScopesTyped, TypesEnd, NEW L, AnyType \notin L,
           NEW C \in Type, Offers(L, C), NEW m \in C
    PROVE  Offers(L, {m}) \/ (m \in Param /\ NeverForever[Boundary(m)])
<1>1. CASE C = {m}
  BY <1>1
<1>2. CASE C # {m}
  <2>1. IsUnion(C) /\ C # {} /\ C # {AnyType} /\ ~IsParam(C)
    BY <1>2 DEF IsUnion, IsParam
  <2>2. PICK T \in Type : /\ Settled(T) /\ Leaves(T) \subseteq L
                         /\ ~IsParam(T) /\ T # {AnyType}
                         /\ Supertype(T, C)
    BY <2>1, ParentIsNoParam
  <2>3. CASE T = {}
    <3>1. NeverForever[C]
      BY <2>1, <2>2, <2>3, AnyAndNeverRules
    <3> QED
      BY <3>1, NeverForeverHolds
  <2>4. CASE T # {}
    <3>1. Supertype(T, {m})
      BY <2>1, <2>2, <2>4, ChildUnionRule
    <3> QED
      BY <2>2, <3>1 DEF Offers
  <2> QED
    BY <2>3, <2>4
<1> QED
  BY <1>1, <1>2

(* An atom that is offered is below a leaf. *)
LEMMA AtomOffered ==
    ASSUME ScopesTyped, TypesEnd, NEW L, AnyType \notin L,
           NEW k \in Atom, Offers(L, {k})
    PROVE  Under(k, L)
<1> SUFFICES ASSUME ~Under(k, L) PROVE FALSE
  OBVIOUS
<1> DEFINE P == {p \in Param : Settled({p}) /\ Leaves({p}) \subseteq L /\ Supertype({p}, {k})}
<1>1. {k} \in Type /\ {k} # {} /\ {k} # {AnyType} /\ ~IsParam({k})
  BY ArmsAssumption DEF Type, Arm, IsParam
<1>2. ASSUME NEW T \in Type, Settled(T), Leaves(T) \subseteq L, Supertype(T, {k}), ~IsParam(T)
      PROVE  T \cap P # {}
  <2>1. AnyType \notin T
    BY <1>2, AnyIsNoParent
  <2>2. \A l \in T \cap Atom : ~Supertype({l}, {k})
    <3>1. \A l \in T \cap Atom : l \in L
      BY <1>2, ArmsAssumption DEF Leaves
    <3> QED
      BY <3>1, AtomsRule DEF Under
  <2>3. T # {}
    <3>1. ~NeverForever[{k}]
      BY <1>1, NeverForeverHolds, ArmsAssumption
    <3> QED
      BY <1>1, <1>2, <3>1, AnyAndNeverRules
  <2>4. IsUnion(T)
    <3>1. ASSUME NEW m, T = {m} PROVE FALSE
      <4>1. m \in Atom
        BY <1>2, <2>1, <3>1 DEF Type, Arm, IsParam
      <4> QED
        BY <1>2, <2>2, <3>1, <4>1
    <3> QED
      BY <2>3, <3>1 DEF IsUnion
  <2>5. PICK m \in T : Supertype({m}, {k})
    BY <1>2, <2>4, ParentUnionRule
  <2>6. m \in Param
    BY <2>1, <2>2, <2>5 DEF Type, Arm
  <2>7. Settled({m}) /\ Leaves({m}) \subseteq L
    BY <1>2, SettledArm, LeavesOfPart, {m} \in SUBSET T
  <2> QED
    BY <2>5, <2>6, <2>7
<1>3. P # {}
  <2>1. PICK T \in Type : /\ Settled(T) /\ Leaves(T) \subseteq L
                         /\ ~IsParam(T) /\ Supertype(T, {k})
    BY <1>1, ParentIsNoParam
  <2> QED
    BY <1>2, <2>1
<1>4. PICK p \in P : inferred[p] = Open \/ inferred[p] \cap P = {}
  BY <1>3, P \in SUBSET Param DEF TypesEnd
<1>5. /\ inferred[p] # Open /\ inferred[p] \in Type
      /\ Settled(inferred[p]) /\ Leaves(inferred[p]) \subseteq L
  BY SettledParam DEF ScopesTyped
<1>6. Supertype(inferred[p], {k})
  BY <1>1, ParentParamRule
<1>7. ~IsParam(inferred[p])
  BY <1>4, <1>5, <1>6 DEF IsParam
<1> QED
  BY <1>2, <1>4, <1>5, <1>6, <1>7

(* Any is offered only by Any. *)
LEMMA AnyNotOffered ==
    ASSUME ScopesTyped, NEW L, AnyType \notin L
    PROVE  ~Offers(L, {AnyType})
<1> SUFFICES ASSUME NEW T \in Type, Settled(T), Leaves(T) \subseteq L, Supertype(T, {AnyType})
             PROVE  FALSE
  BY DEF Offers
<1>1. T # {AnyType}
  BY AnyIsNoParent
<1>2. AnyType \in Resolved(T)
  BY <1>1, AnyAndNeverRules
<1> QED
  BY <1>2, SettledMeets

(* A settled type is a supertype only of types whose leaves are below its own, also
   of those whose parameters are open and stand for their bounds. *)
LEMMA SupertypeIsSound ==
    ASSUME ScopesTyped, TypesEnd,
           NEW T \in Type, Settled(T), NEW C \in Type, Supertype(T, C)
    PROVE  AllUnder(Leaves(C), Leaves(T))
<1> DEFINE L == Leaves(T)
<1>1. CASE AnyType \in L
  BY <1>1 DEF AllUnder, Under
<1>2. CASE AnyType \notin L
  <2> DEFINE below(q) == Offers(L, {q}) \/ NeverForever[Boundary(q)] \/ Leaves({q}) \subseteq L
             S == {q \in Param : below(q)}
  <2>1. Offers(L, C)
    BY DEF Offers
  <2> HIDE DEF L
  <2>2. ASSUME NEW D \in Type, Offers(L, D), NEW m \in D
        PROVE  (m \in Param => m \in S) /\ (m \notin Param => Under(m, L))
    <3>1. Offers(L, {m}) \/ (m \in Param /\ NeverForever[Boundary(m)])
      BY <1>2, <2>2, ArmOffered
    <3>2. m # AnyType \/ ~Offers(L, {m})
      BY <1>2, AnyNotOffered
    <3>3. m \in Atom /\ Offers(L, {m}) => Under(m, L)
      BY <1>2, AtomOffered
    <3> QED
      BY <3>1, <3>2, <3>3, ArmsAssumption DEF Type, Arm
  <2>3. ASSUME NEW q \in S, NEW m \in Boundary(q)
        PROVE  (m \in Param => m \in S) /\ (m \notin Param => Under(m, L))
    <3>1. CASE NeverForever[Boundary(q)]
      BY <3>1, NeverForeverHolds, BoundaryTyped
    <3>2. CASE Leaves({q}) \subseteq L
      <4>1. Leaves(Boundary(q)) \subseteq L /\ {m} \in SUBSET Boundary(q)
        BY <3>2, LeavesOfParam
      <4>2. Leaves({m}) \subseteq L
        BY <4>1, LeavesOfPart
      <4>3. m \notin Param => m \in L
        BY <4>2, LeavesOfPlainArm
      <4> QED
        BY <4>2, <4>3 DEF Under
    <3>3. CASE Offers(L, Boundary(q))
      BY <2>2, <3>3, BoundaryTyped
    <3> QED
      BY <1>2, <3>1, <3>2, <3>3, ChildParamOffered
  <2> DEFINE M == {k \in Arm : Under(k, L)}
  <2>4. C \cap Param \subseteq S /\ C \ Param \subseteq M
    BY <2>1, <2>2 DEF Type
  <2>5. S \in SUBSET Param /\ FollowsBoundaries(S)
    BY <2>3 DEF FollowsBoundaries
  <2>6. \A q \in S : Boundary(q) \ Param \subseteq M
    BY <2>3, BoundaryTyped DEF Type
  <2>7. Leaves(C) \subseteq M
    <3> HIDE DEF S, M
    <3> QED
      BY <2>4, <2>5, <2>6, LeavesWithin
  <2> QED
    BY <2>7 DEF AllUnder, L
<1> QED
  BY <1>1, <1>2

-----------------------------------------------------------------------------
(* Completeness: a settled type is a supertype of everything below it *)

(* Without leaves a type is Never forever, if following boundaries ends. *)
LEMMA NoLeavesIsNever ==
    ASSUME ScopesTyped, BoundariesEnd, NEW t \in Type, Leaves(t) = {}
    PROVE  NeverForever[t]
<1> DEFINE P == {q \in Param : Leaves({q}) = {} /\ ~NeverForever[Boundary(q)]}
<1>1. ASSUME NEW x \in Type, Leaves(x) = {}, x \cap P = {}
      PROVE  NeverForever[x]
  <2>1. ASSUME NEW m \in x PROVE m \in Param /\ NeverForever[Boundary(m)]
    <3>1. {m} \in SUBSET x
      OBVIOUS
    <3>2. Leaves({m}) = {}
      BY <1>1, <3>1, LeavesOfPart
    <3> QED
      BY <1>1, <3>2, LeavesOfPlainArm
  <2> QED
    BY <2>1, NeverForeverHolds
<1>2. P = {}
  <2> SUFFICES ASSUME P # {} PROVE FALSE
    OBVIOUS
  <2>1. PICK q \in P : Boundary(q) \cap P = {}
    BY P \in SUBSET Param DEF BoundariesEnd
  <2>2. Leaves(Boundary(q)) = {} /\ Boundary(q) \in Type
    BY LeavesOfParam, BoundaryTyped
  <2> HIDE DEF P
  <2>3. NeverForever[Boundary(q)]
    BY <1>1, <2>1, <2>2
  <2> QED
    BY <2>1, <2>3 DEF P
<1> QED
  BY <1>1, <1>2

LEMMA EndingBoundariesEndTypes == BoundariesEnd => TypesEnd
BY DEF BoundariesEnd, TypesEnd, Boundary

LEMMA LeavesOfAnyAndNever ==
    Leaves({}) = {} /\ Leaves({AnyType}) = {AnyType}
<1>1. Leaves({}) = {}
  <2>1. Met({}) \subseteq {}
    BY MetIsLeast, {} \in SUBSET Param DEF FollowsBoundaries
  <2> QED
    BY <2>1 DEF Leaves
<1> QED
  BY <1>1, LeavesOfPlainArm, ArmsAssumption

LEMMA AtomBelowAccepted ==
    ASSUME ScopesTyped, TypesEnd, NEW k \in Atom,
           NEW T \in Type, Settled(T), Under(k, Leaves(T))
    PROVE  Supertype(T, {k})
<1> DEFINE P == {p \in Param : Settled({p}) /\ Under(k, Leaves({p})) /\ ~Supertype({p}, {k})}
<1>1. {k} \in Type /\ {k} # {} /\ {k} # {AnyType} /\ ~IsParam({k})
  BY ArmsAssumption DEF Type, Arm, IsParam
<1>2. ASSUME NEW U \in Type, Settled(U), Under(k, Leaves(U)), U \cap P = {}
      PROVE  Supertype(U, {k})
  <2>1. PICK l \in Leaves(U) : Under(k, {l})
    BY <1>2 DEF Under
  <2>2. PICK m \in U : l \in Leaves({m})
    BY <2>1, LeavesByArm
  <2>3. Under(k, Leaves({m}))
    BY <2>1, <2>2 DEF Under
  <2>4. Supertype({m}, {k})
    <3>1. CASE m = AnyType
      BY <1>1, <3>1, AnyAndNeverRules
    <3>2. CASE m \in Atom
      <4>1. Leaves({m}) = {m}
        BY <3>2, LeavesOfPlainArm, ArmsAssumption
      <4> QED
        BY <2>3, <3>2, <4>1, AtomsRule, ArmsAssumption DEF Under
    <3>3. CASE m \in Param
      BY <1>2, <2>3, <3>3, SettledArm
    <3> QED
      BY <3>1, <3>2, <3>3 DEF Type, Arm
  <2>5. CASE U = {m}
    BY <2>4, <2>5
  <2>6. CASE U # {m}
    <3>1. IsUnion(U)
      BY <2>6 DEF IsUnion
    <3> QED
      BY <2>4, <3>1, ParentUnionRule
  <2> QED
    BY <2>5, <2>6
<1>3. P = {}
  <2> SUFFICES ASSUME P # {} PROVE FALSE
    OBVIOUS
  <2>1. PICK p \in P : inferred[p] = Open \/ inferred[p] \cap P = {}
    BY P \in SUBSET Param DEF TypesEnd
  <2>2. /\ inferred[p] # Open /\ inferred[p] \in Type
        /\ Settled(inferred[p]) /\ Leaves(inferred[p]) = Leaves({p})
    BY SettledParam DEF ScopesTyped
  <2>3. Supertype(inferred[p], {k})
    BY <1>2, <2>1, <2>2
  <2> QED
    BY <1>1, <2>2, <2>3, ParentParamRule
<1> QED
  BY <1>2, <1>3

LEMMA AnyBelowAccepted ==
    ASSUME ScopesTyped, NEW T \in Type, Settled(T), Under(AnyType, Leaves(T))
    PROVE  Supertype(T, {AnyType})
<1>1. AnyType \in Resolved(T)
  BY AnyOnlyUnderAny, SettledMeets
<1>2. CASE T = {AnyType}
  <2>1. {AnyType} \in Type
    BY DEF Type, Arm
  <2> QED
    BY <1>2, <2>1, AnyAndNeverRules
<1> QED
  BY <1>1, <1>2, AnyAndNeverRules

(* A child is accepted if its parameters are. *)
LEMMA AcceptedByArms ==
    ASSUME ScopesTyped, BoundariesEnd, NEW C \in Type,
           \A m \in C \cap Param : \A U \in Type :
               Settled(U) /\ AllUnder(Leaves({m}), Leaves(U)) => Supertype(U, {m}),
           NEW T \in Type, Settled(T), AllUnder(Leaves(C), Leaves(T))
    PROVE  Supertype(T, C)
<1> DEFINE P == {p \in Param : /\ Settled({p}) /\ AllUnder(Leaves(C), Leaves({p}))
                              /\ ~Supertype({p}, C)}
<1>1. TypesEnd
  BY EndingBoundariesEndTypes
<1>2. ASSUME NEW U \in Type, Settled(U), AllUnder(Leaves(C), Leaves(U)), NEW m \in C
      PROVE  Supertype(U, {m})
  <2>1. AllUnder(Leaves({m}), Leaves(U))
    BY <1>2, LeavesOfPart, {m} \in SUBSET C DEF AllUnder
  <2>2. CASE m \in Param
    BY <1>2, <2>1, <2>2
  <2>3. CASE m \notin Param
    <3>1. Under(m, Leaves(U))
      BY <2>1, <2>3, LeavesOfPlainArm DEF AllUnder
    <3> QED
      BY <1>1, <1>2, <2>3, <3>1, AtomBelowAccepted, AnyBelowAccepted DEF Type, Arm
  <2> QED
    BY <2>2, <2>3
<1>3. CASE C = {}
  BY <1>3, AnyAndNeverRules
<1>4. ASSUME NEW m, C = {m}
      PROVE  Supertype(T, C)
  BY <1>2, <1>4
<1>5. CASE IsUnion(C)
  <2>1. C # {} /\ C # {AnyType} /\ ~IsParam(C)
    BY <1>5 DEF IsUnion, IsParam
  <2>2. ASSUME NEW U \in Type, Settled(U), AllUnder(Leaves(C), Leaves(U)), U \cap P = {}
        PROVE  Supertype(U, C)
    <3>1. CASE U = {AnyType}
      BY <3>1, AnyAndNeverRules
    <3>2. CASE U = {}
      <4>1. Leaves(C) = {}
        BY <2>2, <3>2, LeavesOfAnyAndNever DEF AllUnder, Under
      <4> QED
        BY <3>2, <4>1, NoLeavesIsNever, AnyAndNeverRules
    <3>3. CASE IsParam(U)
      BY <2>2, <3>3 DEF IsParam
    <3>4. CASE U # {AnyType} /\ U # {} /\ ~IsParam(U)
      BY <1>2, <1>5, <2>2, <3>4, ChildUnionRule
    <3> QED
      BY <3>1, <3>2, <3>3, <3>4
  <2>3. P = {}
    <3> SUFFICES ASSUME P # {} PROVE FALSE
      OBVIOUS
    <3>1. PICK p \in P : inferred[p] = Open \/ inferred[p] \cap P = {}
      BY <1>1, P \in SUBSET Param DEF TypesEnd
    <3>2. /\ inferred[p] # Open /\ inferred[p] \in Type
          /\ Settled(inferred[p]) /\ Leaves(inferred[p]) = Leaves({p})
      BY SettledParam DEF ScopesTyped
    <3>3. Supertype(inferred[p], C)
      BY <2>2, <3>1, <3>2
    <3> QED
      BY <2>1, <3>2, <3>3, ParentParamRule
  <2> QED
    BY <2>2, <2>3
<1> QED
  BY <1>3, <1>4, <1>5 DEF IsUnion

LEMMA ParamsBelowAccepted ==
    ASSUME ScopesTyped, BoundariesEnd
    PROVE  \A c \in Param : \A T \in Type :
               Settled(T) /\ AllUnder(Leaves({c}), Leaves(T)) => Supertype(T, {c})
<1> DEFINE P == {c \in Param : \E T \in Type :
                     Settled(T) /\ AllUnder(Leaves({c}), Leaves(T)) /\ ~Supertype(T, {c})}
<1>1. SUFFICES ASSUME P # {} PROVE FALSE
  OBVIOUS
<1>2. PICK c \in P : Boundary(c) \cap P = {}
  BY <1>1, P \in SUBSET Param DEF BoundariesEnd
<1>3. PICK T \in Type : Settled(T) /\ AllUnder(Leaves({c}), Leaves(T)) /\ ~Supertype(T, {c})
  OBVIOUS
<1>4. Boundary(c) \in Type /\ Leaves(Boundary(c)) = Leaves({c})
  BY BoundaryTyped, LeavesOfParam
<1>5. \A m \in Boundary(c) \cap Param : \A U \in Type :
          Settled(U) /\ AllUnder(Leaves({m}), Leaves(U)) => Supertype(U, {m})
  BY <1>2
<1>6. \A U \in Type : Settled(U) /\ AllUnder(Leaves({c}), Leaves(U)) => Supertype(U, Boundary(c))
  <2> HIDE DEF P
  <2> QED
    BY <1>4, <1>5, AcceptedByArms
<1>7. CASE T = {AnyType}
  BY <1>3, <1>7, AnyAndNeverRules, ParamIsSingle
<1>8. CASE T = {}
  <2>1. Leaves(Boundary(c)) = {}
    BY <1>3, <1>4, <1>8, LeavesOfAnyAndNever DEF AllUnder, Under
  <2>2. NeverForever[{c}]
    BY <1>4, <2>1, NoLeavesIsNever, NeverForeverHolds, ParamIsSingle
  <2> QED
    BY <1>3, <1>8, <2>2, AnyAndNeverRules, ParamIsSingle
<1>9. CASE IsParam(T)
  <2>1. PICK p \in Param : T = {p}
    BY <1>9 DEF IsParam
  <2>2. /\ inferred[p] # Open /\ inferred[p] \in Type
        /\ Settled(inferred[p]) /\ Leaves(inferred[p]) = Leaves({p})
    BY <1>3, <2>1, SettledParam DEF ScopesTyped
  <2>3. Supertype(inferred[p], Boundary(c))
    BY <1>3, <1>6, <2>1, <2>2
  <2> QED
    BY <1>3, <2>1, <2>2, <2>3, TwoParamsRule
<1>10. CASE T # {AnyType} /\ T # {} /\ ~IsParam(T)
  BY <1>3, <1>6, <1>10, ChildParamRule
<1> QED
  BY <1>7, <1>8, <1>9, <1>10

(* supertype_of is exact where it decides: a type without open parameters is known
   to be a supertype of just those types whose leaves are below its own, provided
   that following boundaries ends. *)
THEOREM SubtypingIsExact ==
    ASSUME ScopesTyped, BoundariesEnd,
           NEW T \in Type, Settled(T), NEW C \in Type
    PROVE  Supertype(T, C) <=> AllUnder(Leaves(C), Leaves(T))
<1>1. ASSUME AllUnder(Leaves(C), Leaves(T)) PROVE Supertype(T, C)
  BY <1>1, ParamsBelowAccepted, AcceptedByArms
<1> QED
  BY <1>1, SupertypeIsSound, EndingBoundariesEndTypes

(* Subtyping is an order among types without open parameters, below which any type
   may hang: a type is a supertype of itself and of whatever a type it is a
   supertype of is one of. *)
THEOREM SubtypingIsAnOrder ==
    ASSUME ScopesTyped, BoundariesEnd,
           NEW T \in Type, Settled(T), NEW M \in Type, Settled(M), NEW C \in Type
    PROVE  /\ Supertype(T, T)
           /\ Supertype(T, M) /\ Supertype(M, C) => Supertype(T, C)
<1>1. Supertype(T, T)
  BY SubtypingIsExact DEF AllUnder, Under
<1>2. ASSUME Supertype(T, M), Supertype(M, C) PROVE Supertype(T, C)
  <2>1. AllUnder(Leaves(M), Leaves(T)) /\ AllUnder(Leaves(C), Leaves(M))
    BY <1>2, SubtypingIsExact
  <2>2. AllUnder(Leaves(C), Leaves(T))
    BY <2>1, UnderTransitive DEF AllUnder
  <2> QED
    BY <2>2, SubtypingIsExact
<1> QED
  BY <1>1, <1>2

=============================================================================
