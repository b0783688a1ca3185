--------------------------- MODULE MCTermInference ---------------------------
(***************************************************************************)
(* An outer scope O with an open T and a rigid N, an inner scope I below   *)
(* it that shadows T and adds U, and a scope C of a caller whose N is to   *)
(* be inferred where that of O is rigid.                                   *)
(***************************************************************************)
EXTENDS TermInference

CONSTANTS O, I, C

ScopeTree == [f \in {O, I, C} |-> IF f = I THEN O ELSE NoScope]
RigidScopes == [f \in {C} |-> O]

Params == {<<O, "T">>, <<O, "N">>, <<I, "T">>, <<I, "U">>, <<C, "N">>}
RigidParams == {<<O, "N">>}

(* The types of the client: literals are named by what they stand for. *)
Order == ({"0", "1", "-1"} \X {"Integer"}) \cup ({"'a'", "'b'"} \X {"String"}) \cup {<<"Record", "Countable">>}
SmallIntegers == {-1, 0, 1}
LiteralNames == (-1 :> "-1") @@ (0 :> "0") @@ (1 :> "1")
FieldNames == ("a" :> "'a'") @@ ("b" :> "'b'")

int == Plain("Integer")
unit == Plain("Unit")
zero == Plain("0")
one == Plain("1")
T == Ref("T")
U == Ref("U")
N == Ref("N")
rec(fields) == Con("Record", fields)
a(t) == Field("a", t)
b(t) == Field("b", t)
fn(input, output, effects) == Sig(Ports(<<input>>, None), Ports(<<output>>, None), effects)

inner(t) == In(t, <<I, O>>)
outer(t) == In(t, <<O>>)
caller(t) == In(t, <<C>>)

Bounds == [p \in Params |->
    CASE p = <<O, "T">> -> None
      [] p[2] = "N" -> int
      [] p = <<I, "T">> -> U
      [] p = <<I, "U">> -> rec(<<a(AnyType)>>)]
Defaults == [p \in Params |-> IF p = <<I, "U">> THEN rec(<<a(int), b(int)>>) ELSE None]

Flowing == [p \in Params |->
    CASE p = <<O, "T">> -> {outer(Or(N, one)), inner(rec(<<a(T)>>))}
      [] p = <<I, "T">> -> {inner(U), inner(rec(<<a(int), b(Ref("T"))>>)), inner(Never)}
      [] p = <<I, "U">> -> {inner(rec(<<a(int), b(one)>>)), inner(Mapped("K", rec(<<a(int), b(int)>>), Ref("K")))}
      [] p = <<C, "N">> -> {caller(int), caller(one)}
      [] OTHER -> {}]

InnerTypes == {inner(t) : t \in {
    AnyType, Never, int, Plain("Countable"), T, U,
    rec(<<>>), rec(<<a(Or(int, unit)), b(U)>>), rec(<<a(T)>>),
    Or(T, int), And(T, rec(<<b(int)>>)), And(Or(T, U), rec(<<b(one)>>)),
    KeyOf(T), KeyOf(U), Plain("'a'"), Index(U, Plain("'a'")), Index(rec(<<a(int), b(T)>>), KeyOf(U)),
    Cond(T, rec(<<b(AnyType)>>), int, unit), Cond(Or(T, int), int, one, T),
    Mapped("K", U, Ref("K")), Mapped("K", rec(<<a(int), b(unit)>>), T),
    fn(T, U, Never), Sig(Ports(<<>>, U), Ports(<<>>, None), T),
    Bounded(U, AnyType)}}

OuterTypes == {outer(t) : t \in {T, N, Or(N, unit), Op(N, 1, one), rec(<<a(T)>>)}}

CallerTypes == {caller(t) : t \in {
    N, Op(N, 1, one), Op(one, 1, N), Op(N, 1, N), Op(Op(N, 1, zero), 1, one), zero, int, Or(N, unit), rec(<<a(N)>>),
    fn(N, N, Never), And(N, Or(one, zero)), Index(rec(<<a(N)>>), Plain("'a'")), KeyOf(rec(<<a(N)>>)),
    Mapped("K", rec(<<a(N)>>), N), Cond(N, int, unit, one), Plain("'a'")}}

Pairs == ((InnerTypes \cup OuterTypes) \X (InnerTypes \cup OuterTypes)) \cup (CallerTypes \X CallerTypes)

(* A bound whose only field may be missing, and a record without it. *)
OptionalBounds == [Bounds EXCEPT ![<<I, "U">>] = rec(<<a(Or(int, unit))>>)]
MissingField == [Flowing EXCEPT ![<<I, "U">>] = {inner(rec(<<>>))}]
KeyQuestions == {<<inner(KeyOf(U)), inner(Plain("'a'"))>>}

==============================================================================
