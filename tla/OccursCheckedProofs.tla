------------------------- MODULE OccursCheckedProofs -------------------------
(***************************************************************************)
(* Why the occurs check suffices: a parameter that is assigned once, to a  *)
(* type that does not reach it at that moment, closes no circle, however   *)
(* the types it mentions are inferred later.                               *)
(***************************************************************************)
EXTENDS OccursChecked, TLAPS

-----------------------------------------------------------------------------
(* What a type does not reach stays outside of some set of parameters that holds
   what the type mentions and is closed under following inferred types. *)
LEMMA UnreachedIsOutside ==
    ASSUME NEW t, NEW p \in Param, p \notin Referenced(t)
    PROVE  \E C \in SUBSET Param : t \cap Param \subseteq C /\ FollowsInferred(C) /\ p \notin C
BY DEF Referenced

(* Assigning a parameter a type that does not reach it closes no circle: what the
   type reaches in a supposed circle would have been a circle before. *)
LEMMA AssignClosesNoCircle ==
    ASSUME inferred \in [Param -> {Open} \cup Type], TypesEnd,
           NEW p \in Param, Assign(p)
    PROVE  TypesEnd'
<1>1. SUFFICES ASSUME NEW S \in SUBSET Param, S # {},
                      \A q \in S : inferred'[q] # Open /\ inferred'[q] \cap S # {}
               PROVE  FALSE
  BY DEF TypesEnd
<1>2. \A q \in Param \ {p} : inferred'[q] = inferred[q]
  BY DEF Assign
<1>3. CASE p \notin S
  BY <1>1, <1>2, <1>3 DEF TypesEnd
<1>4. CASE p \in S
  <2>1. PICK C \in SUBSET Param : inferred'[p] \cap Param \subseteq C /\ FollowsInferred(C) /\ p \notin C
    BY UnreachedIsOutside DEF Assign
  <2> DEFINE Rest == S \cap C
  <2>2. Rest # {}
    BY <1>1, <1>4, <2>1
  <2>3. ASSUME NEW q \in Rest
        PROVE  inferred[q] # Open /\ inferred[q] \cap Rest # {}
    <3>1. inferred'[q] = inferred[q]
      BY <1>2, <2>1
    <3>2. inferred[q] \cap Param \subseteq C
      BY <1>1, <2>1, <3>1 DEF FollowsInferred
    <3> QED
      BY <1>1, <3>1, <3>2
  <2> QED
    BY <2>2, <2>3 DEF TypesEnd
<1> QED
  BY <1>3, <1>4

-----------------------------------------------------------------------------
StoreInv == inferred \in [Param -> {Open} \cup Type] /\ TypesEnd

(* Whoever writes to the scopes only as OccursChecked allows never creates the
   "cyclic references" that Scope::infer leaves to its callers to avoid. *)
THEOREM TypesAlwaysEnd == Spec => []TypesEnd
<1>1. Init => StoreInv
  BY DEF Init, StoreInv, TypesEnd
<1>2. StoreInv /\ [Next]_storeVars => StoreInv'
  <2> SUFFICES ASSUME StoreInv, [Next]_storeVars PROVE StoreInv'
    OBVIOUS
  <2>1. ASSUME NEW p \in Param, Assign(p) PROVE StoreInv'
    <3>1. TypesEnd'
      BY <2>1, AssignClosesNoCircle DEF StoreInv
    <3>2. inferred' \in [Param -> {Open} \cup Type]
      BY <2>1 DEF StoreInv, Assign
    <3> QED
      BY <3>1, <3>2 DEF StoreInv
  <2>2. CASE UNCHANGED storeVars
    BY <2>2 DEF storeVars, StoreInv, TypesEnd
  <2> QED
    BY <2>1, <2>2 DEF Next
<1>3. StoreInv => TypesEnd
  BY DEF StoreInv
<1> QED
  BY <1>1, <1>2, <1>3, PTL DEF Spec

=============================================================================
