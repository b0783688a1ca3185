---------------------------- MODULE TermInference ----------------------------
(***************************************************************************)
(* A question about two types while inference goes on: parameters of their *)
(* scopes get inferred one at a time, or all at once to their bounds, and  *)
(* the subtyping between the two is asked before and after every step.     *)
(* Inference, distribution and validation all act on answers they got      *)
(* earlier, so what they were told for sure must not change any more.      *)
(***************************************************************************)
EXTENDS TypeTerms

CONSTANTS
    Questions,  \* pairs <<parent, child>> of types with the scope they are read in
    Candidates, \* for every parameter, the types that may flow into it
    Body        \* the scope whose parameters are rigid, for every scope of a caller with the same parameters

VARIABLES
    parent, child,
    before      \* what was answered before the last step

vars == <<inferred, parent, child, before>>

(* What a reader is told now: of the two types, and of the parent alone. *)
Answer == SupertypeOf(parent.e, child.e, parent.s, child.s)
Answers == [supertype |-> Answer, never |-> IsNever(parent.e, parent.s), any |-> IsAny(parent.e, parent.s)]

Init ==
    /\ inferred = [p \in Param |-> None]
    /\ \E q \in Questions : parent = q[1] /\ child = q[2]
    /\ before = [supertype |-> Unknown, never |-> Unknown, any |-> Unknown]

RECURSIVE References(_, _, _)
(* references: whether a parameter occurs in t or behind the parameters t mentions. *)
References(t, s, p) ==
    LET def == Lookup(t.id, s)
        x == InferredIn(t.id, def)
        m == Evaluate(t, s)
        under == OneParam(t.key, None, s)
    IN  CASE t.k = "ref" -> def # <<>> /\ (<<def[1], t.id>> = p \/ (x # None /\ References(x.e, x.s, p)))
          [] t.k = "portal" -> References(t.e, t.s, p)
          [] t.k = "mapped" ->
                IF m # None THEN References(m, s, p) ELSE References(t.source, s, p) \/ References(t.value, under, p)
          [] OTHER -> \E u \in Parts(t) : References(u, s, p)

(* A candidate within the bound, which is stored in normal form once nothing in it is open. *)
InferOne(p, x) ==
    LET bound == IF Bound[p] = None THEN AnyType ELSE Bound[p]
    IN  /\ ~References(x.e, x.s, p)
        /\ SupertypeOf(bound, x.e, Path[p[1]], x.s) = Supertype
        /\ InferParam(p, IF ContainsUninferred(x.e, x.s) THEN x.e ELSE Normalize(x.e, x.s), x.s)

(* infer_bounds on the scope of one of the two types. *)
InferBounds(f) ==
    /\ inferred # BoundsInferred(f)
    /\ inferred' = BoundsInferred(f)

InScope(p) == Contains(parent.s \o child.s, p[1])

Next ==
    /\ \/ \E p \in Param : InScope(p) /\ \E x \in Candidates[p] : InferOne(p, x)
       \/ \E x \in {parent, child} : InferBounds(x.s[1])
    /\ before' = Answers
    /\ UNCHANGED <<parent, child>>

Spec == Init /\ [][Next]_vars

-----------------------------------------------------------------------------

(* supertype_of answers Unknown while open parameters may change the answer: the other two answers are kept *)
(* whatever is inferred within the bounds.                                                                  *)
AnswersFinal == before.supertype # Unknown => Answer = before.supertype

(* is_never and is_any answer Some only if inference cannot change it any more. *)
NeverAnyFinal ==
    /\ before.never # Unknown => IsNever(parent.e, parent.s) = before.never
    /\ before.any # Unknown => IsAny(parent.e, parent.s) = before.any

(* normalize simplifies a type without changing what it is above and below. *)
NormalFormsAgree ==
    LET normal == SupertypeOf(Normalize(parent.e, parent.s), Normalize(child.e, child.s), parent.s, child.s)
    IN  {Answer, normal} # {Supertype, Unrelated}

(* A check that passes in a body, where the parameters are rigid, passes for whatever a caller has them inferred to. *)
HoldsForEveryCaller ==
    LET called(x) == Path[Body[x.s[1]]]
    IN  (/\ {parent.s[1], child.s[1]} \subseteq DOMAIN Body
         /\ SupertypeOf(parent.e, child.e, called(parent), called(child)) = Supertype) => Answer # Unrelated

(* With nothing left to infer in two types, the question about them is decided. *)
DecidedInTheEnd ==
    (\A x \in {parent, child} : ~ContainsUninferred(x.e, x.s)) => Answer # Unknown

(* An intersection is a subtype of its two sides, read in one scope or in two.  Bounds and rigid parameters *)
(* make a side more than the set of types below it.                                                         *)
IntersectionBelowBoth ==
    LET both == In(And(Portal(parent), Portal(child)), <<>>)
        simple(x) == ~ContainsBounded(x.e) /\ \A p \in Rigid : ~References(x.e, x.s, p)
    IN  simple(parent) /\ simple(child) =>
            \A x \in {parent, child} : SupertypeOf(x.e, both.e, x.s, both.s) # Unrelated

(* The keys in the bound of an open parameter are keys of whatever it is inferred to. *)
BoundGuaranteesKeys ==
    parent.e.k = "keyof" /\ before.supertype = Supertype => Answer = Supertype

=============================================================================
