----------------------------- MODULE TypeScopes -----------------------------
(***************************************************************************)
(* The scopes type parameters live in (src/scope.rs).  A scope pointer is  *)
(* the sequence of scopes from the one it points to up to the root.  The   *)
(* scopes of the nodes have a name and share the store of what was         *)
(* inferred; a scope that one evaluation builds for itself (the key of a   *)
(* mapped type, a parameter narrowed by a conditional) is a record that    *)
(* carries its only parameter.                                             *)
(***************************************************************************)
EXTENDS Naturals, SequencesExt

CONSTANTS
    Scope,      \* the scopes of the nodes
    NoScope,    \* what is above the root
    Above,      \* the parent of every scope, or NoScope
    Param,      \* the parameters defined, as pairs <<scope, local id>>
    Rigid,      \* those that are rigid
    Bound,      \* the declared bound of every parameter, or None
    Default,    \* the declared default of every parameter, or None
    None

ASSUME RigidAssumption == Rigid \subseteq Param

VARIABLE inferred   \* for every parameter, [e, s]: a type and the scope it is read in, or None

In(e, s) == [e |-> e, s |-> s]

AnyType == [k |-> "any"]

(* The scope pointer of a node's scope. *)
Path[f \in Scope] == <<f>> \o (IF Above[f] = NoScope THEN <<>> ELSE Path[Above[f]])

Defines(f, id) == IF f \in Scope THEN <<f, id>> \in Param ELSE f.id = id

RECURSIVE Lookup(_, _)
(* The scope that defines id for a reader in s, <<>> if none does. *)
Lookup(id, s) == IF s = <<>> \/ Defines(Head(s), id) THEN s ELSE Lookup(id, Tail(s))

IsRigid(id, def) == def[1] \in Scope /\ <<def[1], id>> \in Rigid

InferredIn(id, def) == IF def[1] \in Scope THEN inferred[<<def[1], id>>] ELSE def[1].answer

LookupInferred(id, s) ==
    LET def == Lookup(id, s) IN IF def = <<>> THEN None ELSE InferredIn(id, def)

(* What a parameter at most is: inferred, else its bound, else Any. *)
BoundaryIn(id, def) ==
    LET bound == IF def[1] \in Scope THEN Bound[<<def[1], id>>] ELSE None
    IN  IF InferredIn(id, def) # None THEN InferredIn(id, def)
        ELSE In(IF bound = None THEN AnyType ELSE bound, def)

IsEmpty(s) == \A i \in DOMAIN s : s[i] \in Scope /\ \A p \in Param : p[1] # s[i]

(* A scope of its own with one parameter, below s. *)
OneParam(id, answer, s) == <<[id |-> id, answer |-> answer]>> \o s

-----------------------------------------------------------------------------

IsUninferred(p) == p \notin Rigid /\ inferred[p] = None

(* infer, where it returns Ok: the parameter is in the scope, not rigid and open. *)
InferParam(p, e, s) ==
    /\ p \in Param
    /\ IsUninferred(p)
    /\ inferred' = [inferred EXCEPT ![p] = In(e, s)]

Fallback(p) == IF Default[p] # None THEN Default[p] ELSE IF Bound[p] # None THEN Bound[p] ELSE AnyType

(* infer_bounds: every open parameter from f upwards takes its fallback, in its own scope. *)
BoundsInferred(f) ==
    [p \in Param |->
        IF Contains(Path[f], p[1]) /\ IsUninferred(p) THEN In(Fallback(p), Path[p[1]]) ELSE inferred[p]]

=============================================================================
