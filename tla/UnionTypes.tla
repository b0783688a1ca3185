----------------------------- MODULE UnionTypes -----------------------------
(***************************************************************************)
(* The type expressions inference is about, reduced to unions of plain     *)
(* types and type parameters: a type is the set of its arms, Never is the  *)
(* empty set, and Any is the one type without parts.  A scope portal is    *)
(* the type it shows, and a parameter is named globally, by its scope and  *)
(* its name.                                                               *)
(*                                                                         *)
(* Translated from src/type_expr/subtyping.rs (whether a type is known to  *)
(* be a supertype of another one, for unions and parameters),              *)
(* src/type_expr/traversal.rs, src/type_expr.rs and                        *)
(* src/type_expr/normalization.rs.                                         *)
(***************************************************************************)

CONSTANTS
    Atom,       \* the plain types of the client's type system
    AnyType,    \* the arm of the type Any
    Below,      \* the pairs <<lower, upper>> of the strict order of the plain types
    Param,      \* the type parameters of all scopes
    Open        \* what an uninferred parameter is inferred to

Arm == Atom \cup {AnyType} \cup Param

Type == SUBSET Arm

ASSUME ArmsAssumption ==
    /\ Atom \cap Param = {}
    /\ AnyType \notin Atom \cup Param

ASSUME OpenAssumption == \A t \in Type : t # Open

ASSUME BelowAssumption ==
    /\ Below \subseteq Atom \X Atom
    /\ \A x \in Atom : <<x, x>> \notin Below
    /\ \A x, y, z \in Atom : <<x, y>> \in Below /\ <<y, z>> \in Below => <<x, z>> \in Below

VARIABLES
    bound,      \* the declared bound of every parameter, {AnyType} if it has none
    inferred    \* the type every parameter was inferred to, or Open

-----------------------------------------------------------------------------
(* Following parameters *)

(* RegisteredTypeVar::get_boundary *)
Boundary(p) == IF inferred[p] = Open THEN bound[p] ELSE inferred[p]

(* S contains what the inferred types of its members mention. *)
FollowsInferred(S) ==
    \A p \in S : inferred[p] # Open => inferred[p] \cap Param \subseteq S

(* Variant: only the parameters the type itself mentions. *)
ReferencedDirectly(t) == t \cap Param

(* The parameters t mentions, directly or through inferred types. *)
Referenced(t) ==
    {q \in Param :
        \A S \in SUBSET Param : (t \cap Param \subseteq S /\ FollowsInferred(S)) => q \in S}

OpenIn(t) == {p \in Referenced(t) : inferred[p] = Open}

ContainsUninferred(t) == OpenIn(t) # {}

(* The arms of t with every inferred parameter replaced by what it stands for. *)
Resolved(t) ==
    (UNION {s \ Param : s \in {t} \cup {inferred[p] : p \in Referenced(t) \ OpenIn(t)}}) \cup OpenIn(t)

-----------------------------------------------------------------------------
(* Subtyping *)

IsParam(t) == \E p \in Param : t = {p}

IsUnion(t) == \E x, y \in t : x # y

The(t) == CHOOSE m \in t : TRUE

(* is_never returns Some(true): no arm can become anything but Never. *)
NeverForever[t \in Type] ==
    \A m \in t : m \in Param /\ NeverForever[Boundary(m)]

(* What a supertype relation, a function on pairs, says of two parameters. *)
BothParams(supertypeOf, p, c) ==
    \/ p = c
    \/ NeverForever[Boundary(c)]
    \/ /\ inferred[p] # Open
       /\ \/ supertypeOf[<<inferred[p], Boundary(c)>>]
          \/ inferred[c] = Open /\ supertypeOf[<<inferred[p], {c}>>]
    \/ /\ inferred[p] = Open
       /\ inferred[c] # Open
       /\ supertypeOf[<<{p}, inferred[c]>>]

(* An open parent parameter is not known to be above anything. *)
ParentParam(supertypeOf, p, child) == inferred[p] # Open /\ supertypeOf[<<inferred[p], child>>]

(* Variant: nothing is known of an open child parameter. *)
ChildParamInferred(supertypeOf, parent, c) == inferred[c] # Open /\ supertypeOf[<<parent, inferred[c]>>]

(* An open child parameter is at most its bound. *)
ChildParam(supertypeOf, parent, c) == NeverForever[Boundary(c)] \/ supertypeOf[<<parent, Boundary(c)>>]

(* What a supertype relation says of a parent and a child. *)
SupertypeRules(supertypeOf, parent, child) ==
    LET p == The(parent)
        c == The(child)
    IN  IF parent = {AnyType} \/ child = {} THEN TRUE
        ELSE IF child = {AnyType} THEN AnyType \in Resolved(parent)
        ELSE IF parent = {} THEN NeverForever[child]
        ELSE IF IsParam(parent) /\ IsParam(child) THEN BothParams(supertypeOf, p, c)
        ELSE IF IsParam(parent) THEN ParentParam(supertypeOf, p, child)
        ELSE IF IsParam(child) THEN ChildParam(supertypeOf, parent, c)
        ELSE IF IsUnion(child) THEN \A m \in child : supertypeOf[<<parent, {m}>>]
        ELSE IF IsUnion(parent) THEN \E m \in parent : supertypeOf[<<{m}, child>>]
        ELSE p = c \/ <<c, p>> \in Below

(* supertype_of answers Supertype, which is neither Unrelated nor Unknown, for a
   parent and a child. *)
SupertypeOf[pair \in Type \X Type] == SupertypeRules(SupertypeOf, pair[1], pair[2])

Supertype(parent, child) == SupertypeOf[<<parent, child>>]

(* normalize, up to arms that another arm covers. *)
Normal(t) ==
    LET arms == Resolved(t)
        covered(m) == \E k \in arms : Supertype({k}, {m}) /\ ~Supertype({m}, {k})
    IN  {m \in arms : ~covered(m)}

-----------------------------------------------------------------------------
(* Walks that end *)

(* Following inferred types always ends: among the members of any set of
   parameters, one is open or mentions no other member.  resolve, normalize and
   supertype_of recurse along inferred types and count on it. *)
TypesEnd ==
    \A S \in SUBSET Param :
        S # {} => \E p \in S : inferred[p] = Open \/ inferred[p] \cap S = {}

(* Following boundaries, inferred types or else declared bounds, ends as well:
   is_never, is_any and supertype_of recurse along them. *)
BoundariesEnd ==
    \A S \in SUBSET Param : S # {} => \E p \in S : Boundary(p) \cap S = {}

-----------------------------------------------------------------------------
(* What subtyping means *)

Settled(t) == ~ContainsUninferred(t)

FollowsBoundaries(S) == \A p \in S : Boundary(p) \cap Param \subseteq S

(* The parameters met by following boundaries from t. *)
Met(t) ==
    {q \in Param :
        \A S \in SUBSET Param : (t \cap Param \subseteq S /\ FollowsBoundaries(S)) => q \in S}

(* The plain arms found on the way: an open parameter stands for its bound. *)
Leaves(t) == (t \ Param) \cup UNION {Boundary(q) \ Param : q \in Met(t)}

Under(k, L) == AnyType \in L \/ k \in L \/ \E l \in L : <<k, l>> \in Below

AllUnder(K, L) == \A k \in K : Under(k, L)

=============================================================================
