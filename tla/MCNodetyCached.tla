--------------------------- MODULE MCNodetyCached ---------------------------
(* NodetyCached on small instances: one signature without parameters and one
   that leaves a parameter open. *)
EXTENDS NodetyCached

CONSTANT T

Submitted == {EmptySignature, [params |-> {T}, bounds |-> {}, refs |-> {T}]}

=============================================================================
