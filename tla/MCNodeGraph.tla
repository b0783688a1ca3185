---------------------------- MODULE MCNodeGraph -----------------------------
(* NodeGraph on small instances. *)
EXTENDS NodeScopes

CONSTANTS T, U      \* two parameter names

DefinesT == [params |-> {T}, bounds |-> {}, refs |-> {T}]
UsesT == [params |-> {}, bounds |-> {}, refs |-> {T}]
BoundByT == [params |-> {U}, bounds |-> {<<U, T>>}, refs |-> {U}]
BoundByU == [params |-> {T}, bounds |-> {<<T, U>>}, refs |-> {T}]
Knot == [params |-> {T, U}, bounds |-> {<<U, T>>, <<T, U>>}, refs |-> {}]

Scoping == {DefinesT, UsesT, BoundByT, BoundByU, Knot}

=============================================================================
