---------------------------- MODULE OccursChecked ----------------------------
(***************************************************************************)
(* What inference promises about the scopes it writes to, without saying   *)
(* which types it picks: a parameter is inferred at most once, only if it  *)
(* may be, and never to a type that reaches the parameter itself.          *)
(***************************************************************************)
EXTENDS UnionTypes

VARIABLE inferable      \* the parameters that may be inferred

storeVars == <<inferable, bound, inferred>>

Init == inferable \subseteq Param /\ inferred = [p \in Param |-> Open]

(* p is inferred to some type. *)
Assign(p) ==
    /\ p \in inferable
    /\ inferred[p] = Open
    /\ inferred'[p] # Open /\ inferred'[p] \in Type
    /\ p \notin Referenced(inferred'[p])
    /\ inferred' = [inferred EXCEPT ![p] = inferred'[p]]
    /\ UNCHANGED <<inferable, bound>>

Next == \E p \in Param : Assign(p)

Spec == Init /\ [][Next]_storeVars

=============================================================================
