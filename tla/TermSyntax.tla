----------------------------- MODULE TermSyntax -----------------------------
(***************************************************************************)
(* Type expressions as values (src/type_expr.rs): a record per variant,    *)
(* with the kind of the variant in k.  The fields of a constructor are a   *)
(* sequence, in insertion order.  Signatures have no parameters of their   *)
(* own, and the multiplications of the demo type are left out.             *)
(***************************************************************************)
EXTENDS TypeScopes

Never == [k |-> "never"]
Plain(t) == [k |-> "type", t |-> t]
Con(inner, fields) == [k |-> "con", inner |-> inner, fields |-> fields]
Or(a, b) == [k |-> "or", a |-> a, b |-> b]
And(a, b) == [k |-> "and", a |-> a, b |-> b]
KeyOf(e) == [k |-> "keyof", e |-> e]
Index(e, i) == [k |-> "index", e |-> e, i |-> i]
Cond(test, bound, then, else) == [k |-> "cond", test |-> test, bound |-> bound, then |-> then, else |-> else]
Bounded(lower, upper) == [k |-> "bounded", lower |-> lower, upper |-> upper]
Mapped(key, source, value) == [k |-> "mapped", key |-> key, source |-> source, value |-> value]
Sig(inputs, outputs, effects) == [k |-> "sig", inputs |-> inputs, outputs |-> outputs, effects |-> effects]
Ports(ports, varg) == [k |-> "ports", ports |-> ports, varg |-> varg]
Op(a, sign, b) == [k |-> "op", a |-> a, sign |-> sign, b |-> b]
Ref(id) == [k |-> "ref", id |-> id]
Portal(x) == [k |-> "portal", e |-> x.e, s |-> x.s]

(* An operation over rigid parameters in the canonical form of the demo type: coef times each, plus const. *)
Linear(coef, const) == [k |-> "linear", coef |-> coef, const |-> const]

Field(name, type) == [name |-> name, type |-> type]

HasField(fields, name) == \E i \in DOMAIN fields : fields[i].name = name
FieldType(fields, name) == fields[SelectInSeq(fields, LAMBDA f : f.name = name)].type

(* get_port_type: the port at i, counted from 1, the variadic type beyond the fixed ones, or None. *)
PortType(p, i) == IF i <= Len(p.ports) THEN p.ports[i] ELSE p.varg

(* from_unions of a sequence that is not empty. *)
Unions(ts) == FoldLeft(Or, Head(ts), Tail(ts))

(* The expressions an expression is made of, but for those behind its parameters. *)
Parts(t) ==
    CASE t.k \in {"or", "and", "op"} -> {t.a, t.b}
      [] t.k \in {"keyof", "portal"} -> {t.e}
      [] t.k = "index" -> {t.e, t.i}
      [] t.k = "cond" -> {t.test, t.bound, t.then, t.else}
      [] t.k = "bounded" -> {t.lower, t.upper}
      [] t.k = "mapped" -> {t.source, t.value}
      [] t.k = "con" -> {t.fields[i].type : i \in DOMAIN t.fields}
      [] t.k = "sig" -> {t.inputs, t.outputs, t.effects}
      [] t.k = "ports" -> ToSet(t.ports) \cup ({t.varg} \ {None})
      [] OTHER -> {}

RECURSIVE MentionsParam(_)
(* contains_type_param *)
MentionsParam(t) == t.k \in {"ref", "linear"} \/ \E u \in Parts(t) : MentionsParam(u)

RECURSIVE ContainsBounded(_)
(* contains_bounded, which does not look into the other kinds. *)
ContainsBounded(t) ==
    \/ t.k = "bounded"
    \/ t.k \in {"portal", "or", "and", "con"} /\ \E u \in Parts(t) : ContainsBounded(u)

(* An operator applied to another type is left for later. *)
IsOp(t) == t.k \in {"op", "linear"}

=============================================================================
