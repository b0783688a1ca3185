------------------------------ MODULE TypeTerms ------------------------------
(***************************************************************************)
(* What the type expressions mean: subtyping with its three answers,       *)
(* is_never and is_any, intersections, keyof, indexing, conditional and    *)
(* mapped types, operations over rigid parameters, and normalization.      *)
(* The operators call each other as the functions of the code do, and      *)
(* read the parameters from the scopes as they are now.                    *)
(*                                                                         *)
(* Translated from src/type_expr.rs and src/type_expr/{subtyping,          *)
(* intersections, keyof, index, conditional, mapped, rigid,                *)
(* normalization, traversal}.rs; the client's types are those of           *)
(* src/demo_type.rs, reduced to records, literals and plain types.         *)
(***************************************************************************)
EXTENDS TermSyntax, Integers, FiniteSetsExt

CONSTANTS
    Below,      \* the pairs <<lower, upper>> of the strict order of the plain types
    Record,     \* the plain type of records
    Integer,    \* the plain type of integers
    Literals,   \* the integers that have a literal, an interval around 0
    LiteralOf,  \* the plain type of every literal
    KeyOfField, \* the plain type of the name of every field
    Optional,   \* the plain types a missing field may have
    AnyOptional \* whether a missing field may have type Any

Covers(upper, lower) == upper = lower \/ <<lower, upper>> \in Below

Supertype == "supertype"
Unrelated == "unrelated"
Unknown == "unknown"
Yes == "yes"
No == "no"

(* The functions of the code call each other.  Each is named here, to be called through Call, and its body *)
(* follows below.  One recursive operator instead of sixteen, since TLC prepares a run by expanding every  *)
(* chain of calls between them.                                                                            *)
RECURSIVE Call(_, _)

SupertypeOf(p, c, ps, cs) == Call("supertype_of", <<p, c, ps, cs>>)
RigidSupertypeOf(form, c, cs) == Call("rigid_supertype_of", <<form, c, cs>>)
IsNever(t, s) == Call("is_never", <<t, s>>)
IsAny(t, s) == Call("is_any", <<t, s>>)
ContainsUninferred(t, s) == Call("contains_uninferred", <<t, s>>)
Arms(t, s) == Call("traverse_union", <<t, s>>)
Intersection(a, b, sa, sb) == Call("intersection", <<a, b, sa, sb>>)
KeysOf(t, s) == Call("keyof", <<t, s>>)
StructuralKeys(t, s) == Call("keyof_structural_bound", <<t, s>>)
IndexInto(t, index, s, is) == Call("index", <<t, index, s, is>>)
Evaluate(t, s) == Call("evaluate", <<t, s>>)
MapFields(m, source, ss, s) == Call("map_fields", <<m, source, ss, s>>)
Normalize(t, s) == Call("normalize", <<t, s>>)
RigidForm(t, s) == Call("rigid_form", <<t, s>>)
Widened(t, s) == Call("normalize_concrete_widened", <<t, s>>)
Resolve(t, s) == Call("resolve", <<t, s>>)

-----------------------------------------------------------------------------
(* Answers *)

(* Every part has to be a supertype, and all are asked: an unknown part leaves the whole unknown. *)
AllOf(x, y) ==
    IF x = Supertype /\ y = Supertype THEN Supertype ELSE IF Unknown \in {x, y} THEN Unknown ELSE Unrelated

AnyOf(x, y) ==
    IF Supertype \in {x, y} THEN Supertype ELSE IF Unknown \in {x, y} THEN Unknown ELSE Unrelated

(* The question mark operator: the first answer but Supertype decides. *)
InTurn(answers) ==
    LET i == SelectInSeq(answers, LAMBDA x : x # Supertype) IN IF i = 0 THEN Supertype ELSE answers[i]

Decided(holds) == IF holds THEN Supertype ELSE Unrelated

(* What a test with the answers yes, no and unknown says of a supertype. *)
IfYes(test) == IF test = Yes THEN Supertype ELSE IF test = No THEN Unrelated ELSE Unknown

-----------------------------------------------------------------------------
(* The operators of the demo type, on forms that mention rigid parameters only. *)

Absorbed == None    \* the constant of a sum with a part that is not a literal

NoTerms == [p \in Rigid |-> 0]

(* Linear::of *)
LinearOf(t) ==
    CASE t.k = "type" /\ t.t = Integer -> Linear(NoTerms, Absorbed)
      [] t.k = "type" /\ t.t \in {LiteralOf[n] : n \in Literals} ->
            Linear(NoTerms, CHOOSE n \in Literals : LiteralOf[n] = t.t)
      [] t.k = "portal" -> Linear([NoTerms EXCEPT ![<<t.s[1], t.e.id>>] = 1], 0)
      [] t.k = "linear" -> t
      [] OTHER -> None

(* Variant: the constant next to a single parameter is dropped. *)
CanonicalParamAlone(f) ==
    LET used == {p \in Rigid : f.coef[p] # 0}
    IN  IF f.const = Absorbed THEN Plain(Integer)
        ELSE IF used = {} THEN Plain(LiteralOf[f.const])
        ELSE IF \E p \in used : used = {p} /\ f.coef[p] = 1
             THEN LET p == CHOOSE p \in used : TRUE IN Portal(In(Ref(p[2]), Path[p[1]]))
        ELSE f

(* Linear::canonical: a literal, a parameter alone, or a sum. *)
Canonical(f) ==
    LET used == {p \in Rigid : f.coef[p] # 0}
    IN  IF f.const = Absorbed THEN Plain(Integer)
        ELSE IF used = {} THEN Plain(LiteralOf[f.const])
        ELSE IF f.const = 0 /\ \E p \in used : used = {p} /\ f.coef[p] = 1
             THEN LET p == CHOOSE p \in used : TRUE IN Portal(In(Ref(p[2]), Path[p[1]]))
        ELSE f

(* combine: addition (sign 1) and subtraction (sign -1); Integer on an overflow of the constant. *)
Combine(x, sign, y) ==
    IF None \in {x, y} THEN Never
    ELSE IF Absorbed \in {x.const, y.const} \/ x.const + sign * y.const \notin Literals THEN Plain(Integer)
    ELSE Canonical(Linear([p \in Rigid |-> x.coef[p] + sign * y.coef[p]], x.const + sign * y.const))

(* operation, of the demo type *)
Operation(a, sign, b) == Combine(LinearOf(a), sign, LinearOf(b))

(* Nothing left to infer in the normal form: what the client's types get to see. *)
Concrete(t, s) == LET n == Normalize(t, s) IN IF MentionsParam(n) THEN None ELSE n

(* Operations as a client computes them once the operands are concrete, or None. *)
Computed(t, s) ==
    IF t.k = "linear" \/ Concrete(t.a, s) = None \/ Concrete(t.b, s) = None THEN None
    ELSE Operation(Concrete(t.a, s), t.sign, Concrete(t.b, s))

(* rigid_form *)
RigidFormImpl(t, s) ==
    CASE t.k = "linear" -> t
      [] t.k = "op" ->
            LET a == RigidForm(t.a, s)
                b == RigidForm(t.b, s)
            IN  IF None \in {a, b} THEN None ELSE Operation(a, t.sign, b)
      [] t.k = "ref" ->
            LET def == Lookup(t.id, s)
                x == InferredIn(t.id, def)
            IN  IF def = <<>> THEN None
                ELSE IF x # None THEN RigidForm(x.e, x.s)
                ELSE IF IsRigid(t.id, def) THEN Portal(In(t, def)) ELSE None
      [] t.k = "portal" -> RigidForm(t.e, t.s)
      [] OTHER -> Concrete(t, s)

MentionsRigid(form) == form # None /\ form.k \in {"portal", "linear"}

(* rigid_parent_form: of a rigid parameter or an operation over some. *)
RigidParentForm(t, s) ==
    LET def == Lookup(t.id, s)
        candidate == IsOp(t) \/ (t.k = "ref" /\ def # <<>> /\ IsRigid(t.id, def))
        form == RigidForm(t, s)
    IN  IF candidate /\ MentionsRigid(form) THEN form ELSE None

(* What an operation computes to without knowing more, or None. *)
ConcreteForm(t, s) == LET form == RigidForm(t, s) IN IF MentionsRigid(form) THEN None ELSE form

(* normalize_concrete_widened of a canonical sum: every parameter is its bound. *)
WidenedSum(t) ==
    LET used == {p \in Rigid : t.coef[p] # 0}
        at(p) == BoundaryIn(p[2], Path[p[1]])
        part(p) == LinearOf(Widened(at(p).e, at(p).s))
        const == t.const + MapThenSumSet(LAMBDA p : t.coef[p] * part(p).const, used)
    IN  IF \E p \in used : Widened(at(p).e, at(p).s) = None THEN None
        ELSE IF \E p \in used : part(p) = None THEN Never
        ELSE IF (\E p \in used : part(p).const = Absorbed) \/ const \notin Literals THEN Plain(Integer)
        ELSE Plain(LiteralOf[const])

(* normalize_concrete_widened *)
WidenedImpl(t, s) ==
    CASE t.k = "linear" -> WidenedSum(t)
      [] t.k = "op" ->
            LET a == Widened(t.a, s)
                b == Widened(t.b, s)
            IN  IF None \in {a, b} THEN None ELSE Operation(a, t.sign, b)
      [] t.k = "ref" ->
            LET def == Lookup(t.id, s)
                x == BoundaryIn(t.id, def)
            IN  IF def = <<>> \/ (InferredIn(t.id, def) = None /\ ~IsRigid(t.id, def)) THEN None
                ELSE Widened(x.e, x.s)
      [] t.k = "portal" -> Widened(t.e, t.s)
      [] OTHER -> Concrete(t, s)

-----------------------------------------------------------------------------
(* Never and Any: yes and no are meant forever, unknown means that it depends on open parameters. *)

(* Variant: an open parameter is Never only if its bound is. *)
NeverParamDecided(t, s) ==
    LET x == BoundaryIn(t.id, Lookup(t.id, s)) IN IF Lookup(t.id, s) = <<>> THEN Unknown ELSE IsNever(x.e, x.s)

(* A parameter whose bound is Never can only be Never, any other open one may become it. *)
IsNeverParam(t, s) ==
    LET def == Lookup(t.id, s)
        x == BoundaryIn(t.id, def)
    IN  IF def = <<>> THEN Unknown
        ELSE IF InferredIn(t.id, def) # None \/ IsNever(x.e, x.s) = Yes THEN IsNever(x.e, x.s)
        ELSE IF IsRigid(t.id, def) THEN No ELSE Unknown

IsNeverImpl(t, s) ==
    CASE t.k \in {"any", "type", "sig", "ports", "con"} -> No
      [] t.k = "never" -> Yes
      [] t.k = "or" -> IF IsNever(t.a, s) = Yes THEN IsNever(t.b, s) ELSE IsNever(t.a, s)
      [] t.k = "and" ->
            LET x == Intersection(t.a, t.b, s, s)
            IN  IF Yes \in {IsNever(t.a, s), IsNever(t.b, s)} THEN Yes
                ELSE IF x = None THEN Unknown ELSE IsNever(x.e, x.s)
      [] IsOp(t) -> LET w == Widened(t, s) IN IF w = None THEN Unknown ELSE IsNever(w, s)
      [] t.k = "keyof" -> LET x == KeysOf(t.e, s) IN IF x = None THEN Unknown ELSE IsNever(x.e, x.s)
      [] t.k = "index" ->
            LET x == IndexInto(t.e, t.i, s, s) IN IF x = None THEN Unknown ELSE IsNever(x.e, x.s)
      [] t.k \in {"cond", "mapped"} -> LET x == Evaluate(t, s) IN IF x = None THEN Unknown ELSE IsNever(x, s)
      [] t.k = "bounded" -> IsNever(t.upper, s)
      [] t.k = "portal" -> IsNever(t.e, t.s)
      [] t.k = "ref" -> IsNeverParam(t, s)

IsAnyImpl(t, s) ==
    CASE t.k \in {"never", "type", "sig", "ports", "con"} -> No
      [] t.k = "any" -> Yes
      [] t.k = "or" -> IF IsAny(t.a, s) = No THEN IsAny(t.b, s) ELSE IsAny(t.a, s)
      [] t.k = "and" ->
            LET x == Intersection(t.a, t.b, s, s)
            IN  IF IsAny(t.a, s) = Yes /\ IsAny(t.b, s) = Yes THEN Yes
                ELSE IF x = None THEN Unknown ELSE IsAny(x.e, x.s)
      [] IsOp(t) ->
            IF RigidParentForm(t, s) # None THEN No
            ELSE IF Computed(t, s) = None THEN Unknown ELSE IsAny(Computed(t, s), s)
      [] t.k = "keyof" -> LET x == KeysOf(t.e, s) IN IF x = None THEN Unknown ELSE IsAny(x.e, x.s)
      [] t.k = "index" ->
            LET x == IndexInto(t.e, t.i, s, s) IN IF x = None THEN Unknown ELSE IsAny(x.e, x.s)
      [] t.k \in {"cond", "mapped"} -> LET x == Evaluate(t, s) IN IF x = None THEN Unknown ELSE IsAny(x, s)
      [] t.k = "bounded" -> IsAny(t.upper, s)
      [] t.k = "portal" -> IsAny(t.e, t.s)
      [] t.k = "ref" ->
            LET def == Lookup(t.id, s)
                x == InferredIn(t.id, def)
            IN  IF def = <<>> THEN Unknown
                ELSE IF IsRigid(t.id, def) THEN No
                ELSE IF x = None THEN Unknown ELSE IsAny(x.e, x.s)

(* contains_uninferred: an open parameter, or one nothing defines, anywhere behind t. *)
ContainsUninferredImpl(t, s) ==
    CASE t.k = "ref" ->
            LET def == Lookup(t.id, s)
                x == InferredIn(t.id, def)
            IN  def = <<>> \/ IF x # None THEN ContainsUninferred(x.e, x.s) ELSE ~IsRigid(t.id, def)
      [] t.k = "portal" -> ContainsUninferred(t.e, t.s)
      [] t.k = "mapped" ->
            LET x == Evaluate(t, s)
            IN  IF x # None THEN ContainsUninferred(x, s)
                ELSE ContainsUninferred(t.source, s) \/ ContainsUninferred(t.value, OneParam(t.key, None, s))
      [] OTHER -> \E u \in Parts(t) : ContainsUninferred(u, s)

(* traverse_union: the arms of t, also of the types its parameters were inferred to.  A portal is one arm. *)
ArmsImpl(t, s) ==
    LET x == LookupInferred(t.id, s)
        m == Evaluate(t, s)
    IN  CASE t.k = "or" -> Arms(t.a, s) \o Arms(t.b, s)
          [] t.k = "ref" -> IF x = None THEN <<In(t, s)>> ELSE Arms(x.e, x.s)
          [] t.k = "mapped" -> <<In(t, s)>> \o (IF m = None THEN <<>> ELSE Arms(m, s))
          [] OTHER -> <<In(t, s)>>

-----------------------------------------------------------------------------
(* Intersections: [e, s], or None while an open parameter keeps it from being known. *)

(* Variant: all fields are read in the scope of the first record. *)
IntersectFieldsOneScope(fa, fb, sa, sb) ==
    LET type(f) ==
            IF HasField(fb, f.name) THEN Intersection(f.type, FieldType(fb, f.name), sa, sb) ELSE In(f.type, sa)
        types == [i \in DOMAIN fa |-> type(fa[i])]
        added == SelectSeq(fb, LAMBDA f : ~HasField(fa, f.name))
    IN  IF \E i \in DOMAIN types : types[i] = None THEN None
        ELSE [i \in DOMAIN fa |-> Field(fa[i].name, Portal(types[i]))] \o added

(* A field of both records is the intersection of the two, else it is taken over, read in its own scope. *)
IntersectFields(fa, fb, sa, sb) ==
    LET type(f) ==
            IF HasField(fb, f.name) THEN Intersection(f.type, FieldType(fb, f.name), sa, sb) ELSE In(f.type, sa)
        types == [i \in DOMAIN fa |-> type(fa[i])]
        added == SelectSeq(fb, LAMBDA f : ~HasField(fa, f.name))
    IN  IF \E i \in DOMAIN types : types[i] = None THEN None
        ELSE [i \in DOMAIN fa |-> Field(fa[i].name, Portal(types[i]))]
             \o [i \in DOMAIN added |-> Field(added[i].name, Portal(In(added[i].type, sb)))]

(* One arm at a time.  Arms of different scopes are kept apart by portals. *)
Distributed(x, y) ==
    IF None \in {x, y} THEN None
    ELSE IF x.s = y.s THEN In(Or(x.e, y.e), x.s) ELSE In(Or(Portal(x), Portal(y)), <<>>)

(* Both sides are plain types, records, signatures or port lists, or unions. *)
IntersectionOfShapes(a, b, sa, sb) ==
    IF a.k = "type" /\ b.k = "type"
    THEN In(IF Covers(a.t, b.t) THEN b ELSE IF Covers(b.t, a.t) THEN a ELSE Never, sa)
    ELSE IF a.k = "con" /\ b = Plain(a.inner) THEN In(a, sa)
    ELSE IF b.k = "con" /\ a = Plain(b.inner) THEN In(b, sb)
    ELSE IF a.k = "con" /\ b.k = "con"
    THEN LET fields == IntersectFields(a.fields, b.fields, sa, sb)
         IN  IF a.inner # b.inner THEN In(Never, sa)
             ELSE IF fields = None THEN None ELSE In(Con(a.inner, fields), sa)
    ELSE IF {a.k, b.k} \cap {"sig", "ports"} # {} THEN In(Never, <<>>)
    ELSE IF a.k = "or" THEN Distributed(Intersection(a.a, b, sa, sb), Intersection(a.b, b, sa, sb))
    ELSE IF b.k = "or" THEN Distributed(Intersection(a, b.a, sa, sb), Intersection(a, b.b, sa, sb))
    ELSE In(Never, sa)

(* What a computed type stands for now, as [e, s] or None. *)
ResolveImpl(t, s) ==
    CASE t.k = "ref" -> LookupInferred(t.id, s)
      [] t.k = "portal" -> In(t.e, t.s)
      [] t.k = "and" -> Intersection(t.a, t.b, s, s)
      [] t.k \in {"op", "linear"} -> LET x == Computed(t, s) IN IF x = None THEN None ELSE In(x, s)
      [] t.k \in {"cond", "mapped"} -> LET x == Evaluate(t, s) IN IF x = None THEN None ELSE In(x, s)
      [] t.k = "index" -> IndexInto(t.e, t.i, s, s)
      [] t.k = "keyof" -> KeysOf(t.e, s)

(* The computed kinds in the order in which intersections resolve them, on either side. *)
Stages == << {"ref"}, {"portal"}, {"and"}, {"op", "linear"}, {"cond"}, {"mapped"}, {"index"}, {"keyof"} >>

SameParam(a, b, sa, sb) ==
    /\ a.k = "ref" /\ b.k = "ref" /\ a.id = b.id
    /\ Lookup(a.id, sa) # <<>>
    /\ Lookup(a.id, sa) = Lookup(b.id, sb)

(* The side to resolve first: that of the earlier stage, the left one within a stage. *)
IntersectionOfComputed(a, b, sa, sb) ==
    LET stage(t) == SelectInSeq(Stages, LAMBDA kinds : t.k \in kinds)
        twoParams == a.k = "ref" /\ b.k = "ref"
        first == stage(b) = 0 \/ (stage(a) # 0 /\ stage(a) <= stage(b))
        x == Resolve(a, sa)
        y == Resolve(b, sb)
    IN  IF SameParam(a, b, sa, sb) THEN In(a, sa)
        ELSE IF twoParams THEN (IF None \in {x, y} THEN None ELSE Intersection(x.e, y.e, x.s, y.s))
        ELSE IF first THEN (IF x = None THEN None ELSE Intersection(x.e, b, x.s, sb))
        ELSE IF y = None THEN None ELSE Intersection(a, y.e, sa, y.s)

(* A bounded type is a pair of bounds, a type alone is the bound Never..itself. *)
IntersectionOfBounded(a, b, sa, sb) ==
    IF a.k = "bounded" /\ b.k = "bounded"
    THEN In(Bounded(Or(a.lower, Portal(In(b.lower, sb))), And(a.upper, Portal(In(b.upper, sb)))), sa)
    ELSE IF a.k = "bounded" THEN In(Bounded(a.lower, And(a.upper, Portal(In(b, sb)))), sa)
    ELSE In(Bounded(b.lower, And(Portal(In(a, sa)), b.upper)), sb)

IntersectionImpl(a, b, sa, sb) ==
    IF a.k = "any" THEN In(b, sb)
    ELSE IF b.k = "any" THEN In(a, sa)
    ELSE IF a.k = "never" THEN In(Never, sa)
    ELSE IF b.k = "never" THEN In(Never, sb)
    ELSE IF "bounded" \in {a.k, b.k} THEN IntersectionOfBounded(a, b, sa, sb)
    ELSE IF \E i \in DOMAIN Stages : {a.k, b.k} \cap Stages[i] # {} THEN IntersectionOfComputed(a, b, sa, sb)
    ELSE IntersectionOfShapes(a, b, sa, sb)

-----------------------------------------------------------------------------
(* keyof and indexing: [e, s], or None while open parameters keep the answer from being known. *)

(* key_type of the demo type: the names of the fields of a record. *)
KeyType(inner, fields) ==
    IF inner # Record \/ fields = <<>> THEN Never
    ELSE Unions([i \in DOMAIN fields |-> Plain(KeyOfField[fields[Len(fields) + 1 - i].name])])

KeysOfImpl(t, s) ==
    CASE t.k = "type" -> In(KeyType(t.t, <<>>), s)
      [] t.k = "con" -> In(KeyType(t.inner, t.fields), s)
      [] t.k \in {"or", "and"} ->
            LET a == KeysOf(t.a, s)
                b == KeysOf(t.b, s)
            IN  IF t.k = "and" /\ Yes \in {IsNever(t.a, s), IsNever(t.b, s)} THEN In(Never, s)
                ELSE IF None \in {a, b} THEN None
                ELSE IF t.k = "or" /\ IsNever(a.e, a.s) = Yes THEN b
                ELSE IF t.k = "or" /\ IsNever(b.e, b.s) = Yes THEN a
                ELSE In(Or(Portal(a), Portal(b)), s)
      [] t.k = "keyof" -> KeysOf(t.e, s)
      [] t.k = "mapped" -> KeysOf(t.source, s)
      [] t.k = "bounded" -> KeysOf(t.upper, s)
      [] t.k \in {"op", "linear", "ref", "portal", "index"} ->
            LET x == Resolve(t, s) IN IF x = None THEN None ELSE KeysOf(x.e, x.s)
      [] OTHER -> In(Never, s)

(* keyof_structural_bound: the keys the bound of an open parameter guarantees. *)
StructuralKeysImpl(t, s) ==
    LET def == Lookup(t.id, s)
        x == BoundaryIn(t.id, def)
    IN  CASE t.k = "portal" -> StructuralKeys(t.e, t.s)
          [] t.k = "ref" ->
                IF def = <<>> THEN None
                ELSE IF InferredIn(t.id, def) # None THEN StructuralKeys(x.e, x.s)
                ELSE IF x.e.k = "con" THEN KeysOf(x.e, x.s) ELSE None
          [] OTHER -> None

(* index of the demo type: a record has the fields its keys name, and Any for another index. *)
IndexType(inner, fields, index) ==
    LET named(t) == {f \in ToSet(fields) : t = Plain(KeyOfField[f.name])}
        at(x) == IF named(x.e) = {} THEN AnyType ELSE (CHOOSE f \in named(x.e) : TRUE).type
        arms == Arms(index, <<>>)
    IN  IF inner = Record THEN Unions([i \in DOMAIN arms |-> at(arms[i])]) ELSE AnyType

IndexIntoImpl(t, index, s, is) ==
    CASE t.k \in {"type", "con"} ->
            LET i == Concrete(index, is)
            IN  IF i = None THEN None
                ELSE IF t.k = "con" THEN In(IndexType(t.inner, t.fields, i), s)
                ELSE In(IndexType(t.t, <<>>, i), s)
      [] t.k = "or" ->
            LET a == IndexInto(t.a, index, s, is)
                b == IndexInto(t.b, index, s, is)
            IN  IF None \in {a, b} THEN None ELSE In(Or(Portal(a), Portal(b)), s)
      [] t.k = "bounded" -> IndexInto(t.upper, index, s, is)
      [] t.k \in {"and", "op", "linear", "ref", "portal", "index", "keyof", "mapped"} ->
            LET x == Resolve(t, s) IN IF x = None THEN None ELSE IndexInto(x.e, index, x.s, is)
      [] OTHER -> In(AnyType, s)

-----------------------------------------------------------------------------
(* Conditional and mapped types *)

(* into_conditional: the conditional for one arm of its test.  A tested parameter is that arm in the branches. *)
ForArm(c, arm, s) ==
    LET branches == IF c.test.k = "ref" THEN OneParam(c.test.id, arm, s) ELSE arm.s
        tested == IF c.test.k = "ref" THEN arm.s ELSE s
    IN  Cond(Portal(In(arm.e, tested)), c.bound, Portal(In(c.then, branches)), Portal(In(c.else, branches)))

(* distribute: over the arms of the test, the last one first, else the branch if it is known. *)
Distribute(c, s) ==
    LET arms == Arms(c.test, s)
        each == [i \in DOMAIN arms |-> ForArm(c, arms[i], s)]
        answer == SupertypeOf(c.bound, c.test, s, s)
    IN  IF Len(arms) > 1 THEN Unions(<<Last(each)>> \o Front(each))
        ELSE IF answer = Supertype THEN c.then ELSE IF answer = Unrelated THEN c.else ELSE None

(* map_fields: source is in normal form, to be read in ss; the result is read in s. *)
MapFieldsImpl(m, source, ss, s) ==
    LET under(f) == OneParam(m.key, In(KeyType(source.inner, <<f>>), <<>>), s)
        mapped(f) == Field(f.name, Portal(In(Normalize(m.value, under(f)), under(f))))
        a == MapFields(m, source.a, ss, s)
        b == MapFields(m, source.b, ss, s)
        x == LookupInferred(source.id, ss)
    IN  CASE source.k = "con" -> Con(source.inner, [i \in DOMAIN source.fields |-> mapped(source.fields[i])])
          [] source.k = "or" -> IF None \in {a, b} THEN None ELSE Or(a, b)
          [] source.k \in {"type", "any", "never"} -> source
          [] source.k = "ref" -> IF x = None THEN None ELSE MapFields(m, Normalize(x.e, x.s), x.s, s)
          [] source.k = "portal" -> MapFields(m, source.e, source.s, s)
          [] OTHER -> None

EvaluateMapped(t, s) == MapFields(t, Normalize(t.source, s), s, s)

(* Conditional and mapped types are replaced by what they come to wherever it counts. *)
EvaluateImpl(t, s) == IF t.k = "cond" THEN Distribute(t, s) ELSE EvaluateMapped(t, s)

-----------------------------------------------------------------------------
(* Normalization *)

(* Variant: a union is simplified to its narrower side. *)
JunctionNarrowed(t, s) ==
    IF SupertypeOf(t.a, t.b, s, s) = Supertype THEN Normalize(t.b, s)
    ELSE IF SupertypeOf(t.b, t.a, s, s) = Supertype THEN Normalize(t.a, s)
    ELSE [t EXCEPT !.a = Normalize(t.a, s), !.b = Normalize(t.b, s)]

(* The simplifications of unions and intersections, which take the wider or the narrower of two sides. *)
NormalizeJunction(t, s) ==
    LET union == t.k = "or"
        bounded == ContainsBounded(t.a) \/ ContainsBounded(t.b)
        above(x, y) == ~bounded /\ SupertypeOf(x, y, s, s) = Supertype
        drops(x) == IF union THEN IsNever(x, s) = Yes ELSE IsAny(x, s) = Yes
        wins(x) == IF union THEN IsAny(x, s) = Yes ELSE IsNever(x, s) = Yes
        x == IF union THEN None ELSE Intersection(t.a, t.b, s, s)
    IN  IF t.a = t.b THEN Normalize(t.a, s)
        ELSE IF above(t.a, t.b) THEN Normalize(IF union THEN t.a ELSE t.b, s)
        ELSE IF above(t.b, t.a) THEN Normalize(IF union THEN t.b ELSE t.a, s)
        ELSE IF drops(t.a) THEN Normalize(t.b, s)
        ELSE IF drops(t.b) THEN Normalize(t.a, s)
        ELSE IF wins(t.a) \/ wins(t.b) THEN (IF union THEN AnyType ELSE Never)
        ELSE IF x # None THEN Normalize(x.e, x.s)
        ELSE [t EXCEPT !.a = Normalize(t.a, s), !.b = Normalize(t.b, s)]

(* The variants that stay what they are, with normal parts. *)
NormalizeParts(t, s) ==
    CASE t.k = "op" -> [t EXCEPT !.a = Normalize(t.a, s), !.b = Normalize(t.b, s)]
      [] t.k = "keyof" -> KeyOf(Normalize(t.e, s))
      [] t.k = "index" -> Index(Normalize(t.e, s), Normalize(t.i, s))
      [] t.k = "cond" -> Cond(Normalize(t.test, s), Normalize(t.bound, s), Normalize(t.then, s), Normalize(t.else, s))
      [] t.k = "mapped" -> Mapped(t.key, Normalize(t.source, s), Normalize(t.value, OneParam(t.key, None, s)))
      [] t.k = "con" ->
            IF t.fields = <<>> THEN Plain(t.inner)
            ELSE Con(t.inner, [i \in DOMAIN t.fields |-> Field(t.fields[i].name, Normalize(t.fields[i].type, s))])
      [] t.k = "sig" -> Sig(Normalize(t.inputs, s), Normalize(t.outputs, s), Normalize(t.effects, s))
      [] t.k = "ports" ->
            Ports([i \in DOMAIN t.ports |-> Normalize(t.ports[i], s)],
                  IF t.varg = None THEN None ELSE Normalize(t.varg, s))
      [] OTHER -> t

(* Normal references: an inferred parameter is its type, and a portal without effect is removed. *)
NormalizeRef(t, s) ==
    LET x == LookupInferred(t.id, s)
        n == Normalize(t.e, t.s)
    IN  IF t.k = "ref" THEN (IF x = None THEN t ELSE Normalize(Portal(x), s))
        ELSE IF t.s = s \/ (IsEmpty(t.s) /\ IsEmpty(s)) \/ ~MentionsParam(n) THEN n
        ELSE Portal(In(n, t.s))

NormalizeImpl(t, s) ==
    CASE t.k \in {"ref", "portal"} -> NormalizeRef(t, s)
      [] t.k \in {"or", "and"} -> NormalizeJunction(t, s)
      [] t.k = "bounded" ->
            IF IsNever(t.lower, s) = Yes THEN Normalize(t.upper, s)
            ELSE Bounded(Normalize(t.lower, s), Normalize(t.upper, s))
      [] IsOp(t) -> LET form == RigidForm(t, s) IN IF form = None THEN NormalizeParts(t, s) ELSE form
      [] t.k \in {"keyof", "index", "cond", "mapped"} ->
            LET x == Resolve(t, s) IN IF x = None THEN NormalizeParts(t, s) ELSE Normalize(x.e, x.s)
      [] OTHER -> NormalizeParts(t, s)

(* is_optional_in_constructor: a field of type t may be missing. *)
IsOptional(t, s) ==
    LET r == IF t.k = "bounded" THEN t.lower ELSE t
        arms == Arms(r, s)
        optional(n) == IF n.k = "type" THEN n.t \in Optional ELSE n.k = "any" /\ AnyOptional
    IN  \E i \in DOMAIN arms : optional(Normalize(arms[i].e, arms[i].s))

-----------------------------------------------------------------------------
(* Subtyping.  supertype_of tries its cases in turn; every definition below holds a run of them and      *)
(* leaves the rest to the one above it.                                                                  *)

(* Signatures, port lists, plain types and constructors: nothing is left to compute at the top. *)
ShapesSupertypeOf(p, c, ps, cs) ==
    CASE p.k = "sig" /\ c.k = "sig" ->
            LET varg == p.inputs.k = "ports" /\ c.inputs.k = "ports"
                tooFew == p.inputs.varg # None /\ c.inputs.varg = None /\ Len(c.inputs.ports) > Len(p.inputs.ports)
            IN  IF varg /\ tooFew THEN Unrelated
                ELSE InTurn(<< SupertypeOf(c.inputs, p.inputs, cs, ps),
                               SupertypeOf(p.outputs, c.outputs, ps, cs),
                               SupertypeOf(p.effects, c.effects, ps, cs) >>)
      [] p.k = "ports" /\ c.k = "ports" ->
            LET longest == IF Len(p.ports) > Len(c.ports) THEN Len(p.ports) ELSE Len(c.ports)
                asked == IF p.varg = None THEN Len(p.ports) ELSE longest + 1
                port(i) == IF PortType(c, i) = None THEN Unrelated
                           ELSE SupertypeOf(PortType(p, i), PortType(c, i), ps, cs)
            IN  IF p.varg # None /\ c.varg = None THEN Unrelated ELSE InTurn([i \in 1..asked |-> port(i)])
      [] p.k = "type" /\ c.k \in {"type", "con"} ->
            Decided(Covers(p.t, IF c.k = "con" THEN c.inner ELSE c.t))
      [] p.k = "con" /\ c.k = "type" ->
            Decided(Covers(p.inner, c.t) /\ \A i \in DOMAIN p.fields : IsOptional(p.fields[i].type, ps))
      [] p.k = "con" /\ c.k = "con" ->
            LET field(f) == IF HasField(c.fields, f.name) THEN SupertypeOf(f.type, FieldType(c.fields, f.name), ps, cs)
                            ELSE Decided(IsOptional(f.type, ps))
            IN  IF Covers(p.inner, c.inner) THEN InTurn([i \in DOMAIN p.fields |-> field(p.fields[i])]) ELSE Unrelated
      [] OTHER -> Unrelated

(* Unions, and parents that compute to another type. *)
ParentSupertypeOf(p, c, ps, cs) ==
    IF c.k = "or" THEN AllOf(SupertypeOf(p, c.a, ps, cs), SupertypeOf(p, c.b, ps, cs))
    ELSE IF p.k = "or" THEN AnyOf(SupertypeOf(p.a, c, ps, cs), SupertypeOf(p.b, c, ps, cs))
    ELSE IF p.k \in {"and", "cond", "mapped", "index"}
    THEN LET x == Resolve(p, ps) IN IF x = None THEN Unknown ELSE SupertypeOf(x.e, c, x.s, cs)
    ELSE ShapesSupertypeOf(p, c, ps, cs)

(* Operations, keys, and children that compute to another type, possibly a union. *)
ComputedSupertypeOf(p, c, ps, cs) ==
    IF IsOp(p)
    THEN LET x == ConcreteForm(p, ps) IN IF x = None THEN Unknown ELSE SupertypeOf(x, c, ps, cs)
    ELSE IF IsOp(c)
    THEN LET x == IF ConcreteForm(c, cs) # None THEN ConcreteForm(c, cs) ELSE Widened(c, cs)
         IN  IF x = None THEN Unknown ELSE SupertypeOf(p, x, ps, cs)
    ELSE IF p.k = "keyof"
    THEN LET x == KeysOf(p.e, ps)
             keys == StructuralKeys(p.e, ps)
         IN  IF x # None THEN SupertypeOf(x.e, c, x.s, cs)
             ELSE IF keys # None /\ SupertypeOf(keys.e, c, keys.s, cs) = Supertype THEN Supertype ELSE Unknown
    ELSE IF c.k \in {"keyof", "and", "cond", "mapped", "index"}
    THEN LET x == Resolve(c, cs) IN IF x = None THEN Unknown ELSE SupertypeOf(p, x.e, ps, x.s)
    ELSE ParentSupertypeOf(p, c, ps, cs)

(* both_params_supertype_of *)
BothParamsSupertypeOf(p, c, ps, cs) ==
    LET pdef == Lookup(p.id, ps)
        cdef == Lookup(c.id, cs)
        pin == InferredIn(p.id, pdef)
        cin == InferredIn(c.id, cdef)
        atMost == BoundaryIn(c.id, cdef)
    IN  IF <<>> \in {pdef, cdef} THEN Unrelated
        ELSE IF SameParam(p, c, ps, cs) \/ IsNever(atMost.e, atMost.s) = Yes THEN Supertype
        ELSE IF pin # None /\ cin # None THEN SupertypeOf(pin.e, cin.e, pin.s, cin.s)
        ELSE IF pin # None
        THEN IF SupertypeOf(pin.e, atMost.e, pin.s, atMost.s) = Supertype THEN Supertype
             ELSE SupertypeOf(pin.e, c, pin.s, cs)
        ELSE IF cin # None THEN SupertypeOf(p, cin.e, ps, cin.s) ELSE Unknown

(* parent_param_supertype_of *)
ParentParamSupertypeOf(p, c, ps, cs) ==
    LET def == Lookup(p.id, ps)
        x == InferredIn(p.id, def)
    IN  IF def = <<>> THEN Unrelated ELSE IF x = None THEN Unknown ELSE SupertypeOf(x.e, c, x.s, cs)

(* Variant: the bound of an open child decides for good. *)
ChildParamDecided(p, c, ps, cs) ==
    LET def == Lookup(c.id, cs)
        x == BoundaryIn(c.id, def)
    IN  IF def = <<>> THEN Unrelated ELSE SupertypeOf(p, x.e, ps, x.s)

(* Variant: a rigid child is treated as an open one. *)
ChildRigidOpen(p, c, ps, cs) ==
    LET def == Lookup(c.id, cs)
        x == BoundaryIn(c.id, def)
        answer == SupertypeOf(p, x.e, ps, x.s)
    IN  IF def = <<>> THEN Unrelated
        ELSE IF IsNever(x.e, x.s) = Yes \/ answer = Supertype THEN Supertype
        ELSE IF InferredIn(c.id, def) # None THEN answer ELSE Unknown

(* child_param_supertype_of: an open child may still get narrower than its bound, a rigid one is its bound. *)
ChildParamSupertypeOf(p, c, ps, cs) ==
    LET def == Lookup(c.id, cs)
        x == BoundaryIn(c.id, def)
        answer == SupertypeOf(p, x.e, ps, x.s)
        asArm == p.k = "or" /\ \E arm \in {p.a, p.b} : SupertypeOf(arm, c, ps, cs) = Supertype
    IN  IF def = <<>> THEN Unrelated
        ELSE IF IsNever(x.e, x.s) = Yes \/ answer = Supertype THEN Supertype
        ELSE IF InferredIn(c.id, def) # None THEN answer
        ELSE IF IsRigid(c.id, def) THEN (IF asArm THEN Supertype ELSE answer) ELSE Unknown

(* References: parameters on both sides before those on one, and the parent before the child. *)
RefsSupertypeOf(p, c, ps, cs) ==
    IF p.k = "portal" THEN SupertypeOf(p.e, c, p.s, cs)
    ELSE IF p.k = "ref" /\ c.k = "ref" THEN BothParamsSupertypeOf(p, c, ps, cs)
    ELSE IF p.k = "ref" THEN ParentParamSupertypeOf(p, c, ps, cs)
    ELSE IF c.k = "portal" THEN SupertypeOf(p, c.e, ps, c.s)
    ELSE IF c.k = "ref" THEN ChildParamSupertypeOf(p, c, ps, cs)
    ELSE ComputedSupertypeOf(p, c, ps, cs)

(* rigid_supertype_of: form is above Never and what has the same form. *)
RigidSupertypeOfImpl(form, c, cs) ==
    LET x == LookupInferred(c.id, cs)
        n == Normalize(c, cs)
        own == RigidForm(c, cs)
        last == IF own = form THEN Supertype ELSE IF own = None /\ ContainsUninferred(c, cs) THEN Unknown ELSE Unrelated
    IN  CASE c.k = "never" -> Supertype
          [] c.k = "bounded" -> RigidSupertypeOf(form, c.upper, cs)
          [] c.k = "or" -> AllOf(RigidSupertypeOf(form, c.a, cs), RigidSupertypeOf(form, c.b, cs))
          [] c.k = "portal" -> RigidSupertypeOf(form, c.e, c.s)
          [] c.k = "ref" -> IF x # None THEN RigidSupertypeOf(form, x.e, x.s) ELSE last
          [] c.k \in {"and", "cond", "index", "keyof", "mapped"} ->
                IF n.k # c.k THEN RigidSupertypeOf(form, n, cs) ELSE last
          [] OTHER -> last

(* supertype_of: rigid parents, then bounds, then Any and Never, then the rest. *)
SupertypeOfImpl(p, c, ps, cs) ==
    IF RigidParentForm(p, ps) # None THEN RigidSupertypeOf(RigidParentForm(p, ps), c, cs)
    ELSE IF c.k = "bounded" THEN SupertypeOf(p, c.upper, ps, cs)
    ELSE IF p.k = "bounded"
    THEN InTurn(<< SupertypeOf(p.upper, c, ps, cs), SupertypeOf(c, p.lower, cs, ps) >>)
    ELSE IF p.k = "any" THEN Supertype
    ELSE IF c.k = "any" THEN IfYes(IsAny(p, ps))
    ELSE IF c.k = "never" THEN Supertype
    ELSE IF p.k = "never" THEN IfYes(IsNever(c, cs))
    ELSE RefsSupertypeOf(p, c, ps, cs)

(* The bodies, by the names the functions have in the code. *)
Call(function, args) ==
    CASE function = "supertype_of" -> SupertypeOfImpl(args[1], args[2], args[3], args[4])
      [] function = "rigid_supertype_of" -> RigidSupertypeOfImpl(args[1], args[2], args[3])
      [] function = "is_never" -> IsNeverImpl(args[1], args[2])
      [] function = "is_any" -> IsAnyImpl(args[1], args[2])
      [] function = "contains_uninferred" -> ContainsUninferredImpl(args[1], args[2])
      [] function = "traverse_union" -> ArmsImpl(args[1], args[2])
      [] function = "intersection" -> IntersectionImpl(args[1], args[2], args[3], args[4])
      [] function = "keyof" -> KeysOfImpl(args[1], args[2])
      [] function = "keyof_structural_bound" -> StructuralKeysImpl(args[1], args[2])
      [] function = "index" -> IndexIntoImpl(args[1], args[2], args[3], args[4])
      [] function = "evaluate" -> EvaluateImpl(args[1], args[2])
      [] function = "map_fields" -> MapFieldsImpl(args[1], args[2], args[3], args[4])
      [] function = "normalize" -> NormalizeImpl(args[1], args[2])
      [] function = "rigid_form" -> RigidFormImpl(args[1], args[2])
      [] function = "normalize_concrete_widened" -> WidenedImpl(args[1], args[2])
      [] function = "resolve" -> ResolveImpl(args[1], args[2])

=============================================================================
