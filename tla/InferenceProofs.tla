--------------------------- MODULE InferenceProofs ---------------------------
(***************************************************************************)
(* For all programs and configurations: what the engine writes into the    *)
(* scopes is what OccursChecked allows, and so types never become infinite.*)
(***************************************************************************)
EXTENDS Inference, UnionTypesProofs, FiniteSetTheorems, SequenceTheorems, TLAPS

(* The proofs about what OccursChecked promises, for the engine's scopes. *)
Proved == INSTANCE OccursCheckedProofs WITH inferable <- config.restrictions

-----------------------------------------------------------------------------
(* Following parameters *)

(* How a type is shown not to reach p. *)
LEMMA OutsideIsUnreached ==
    ASSUME NEW t, NEW C \in SUBSET Param, t \cap Param \subseteq C, FollowsInferred(C),
           NEW p, p \notin C
    PROVE  p \notin Referenced(t)
BY DEF Referenced

LEMMA PlainReachesNothing ==
    ASSUME NEW t \in SUBSET Atom, NEW p
    PROVE  p \notin Referenced(t)
<1>1. t \cap Param = {}
  BY ArmsAssumption
<1>2. FollowsInferred({})
  BY DEF FollowsInferred
<1> QED
  BY <1>1, <1>2, OutsideIsUnreached, {} \in SUBSET Param

(* A union reaches what its members reach. *)
LEMMA UnionReaches ==
    ASSUME NEW types, NEW p, \A t \in types : p \notin Referenced(t)
    PROVE  p \notin Referenced(UNION types)
<1> DEFINE C == UNION {Referenced(t) : t \in types}
<1>1. C \in SUBSET Param
  BY DEF Referenced
<1>2. (UNION types) \cap Param \subseteq C
  BY ReferencedIsClosed
<1>3. FollowsInferred(C)
  BY ReferencedIsClosed DEF FollowsInferred
<1>4. p \notin C
  OBVIOUS
<1> HIDE DEF C
<1> QED
  BY <1>1, <1>2, <1>3, <1>4, OutsideIsUnreached

(* A type without open parameters stands for plain types. *)
LEMMA ClosedTypesArePlain ==
    ASSUME inferred \in [Param -> {Open} \cup PortType],
           NEW t \in PortType, ~ContainsUninferred(t)
    PROVE  Resolved(t) \in SUBSET Atom
<1>1. OpenIn(t) = {}
  BY DEF ContainsUninferred
<1>2. \A q \in Referenced(t) : inferred[q] \in PortType
  BY <1>1 DEF OpenIn, Referenced
<1>3. \A s \in {t} \cup {inferred[q] : q \in Referenced(t) \ OpenIn(t)} : s \ Param \subseteq Atom
  BY <1>2 DEF PortType
<1> QED
  BY <1>1, <1>3 DEF Resolved

-----------------------------------------------------------------------------
(* Candidates *)

LEMMA FlowCandidatesTyped ==
    ASSUME NEW f \in Flow, NEW g \in FlowCandidates(f)
    PROVE  g.param \in Restrictions /\ g.candidate \in Candidate
<1> DEFINE own(pos) == IF Now.forward THEN pos.target ELSE pos.source
           other(pos) == IF Now.forward THEN pos.source ELSE pos.target
           sees == (IF Now.forward THEN f.target.sees ELSE f.source.sees) \cap Restrictions
           found(pos) ==
               {h \in CandidatesFrom[own(pos), other(pos)] \cap (sees \X PortType) : inferred[h[1]] = Open}
           candidate(t, pos) == [type |-> t, contravariant |-> pos.contravariant, flow |-> f]
<1>1. PICK pos \in f.positions :
         g \in {[param |-> h[1], candidate |-> candidate(h[2], pos)] : h \in found(pos)}
  BY DEF FlowCandidates
<1>2. PICK h \in sees \X PortType : g = [param |-> h[1], candidate |-> candidate(h[2], pos)]
  BY <1>1
<1>3. pos.contravariant \in BOOLEAN
  BY DEF Flow, Position
<1>4. h[1] \in Restrictions /\ h[2] \in PortType
  BY <1>2
<1>5. candidate(h[2], pos) \in Candidate
  BY <1>3, <1>4 DEF Candidate
<1> QED
  BY <1>2, <1>4, <1>5

(* Only allowed parameters have candidates. *)
LEMMA CandidatesOfTyped ==
    ASSUME NEW p, NEW fs \in SUBSET Flow
    PROVE  /\ CandidatesOf(p, fs) \in SUBSET Candidate
           /\ CandidatesOf(p, fs) # {} => p \in Restrictions
<1>1. ASSUME NEW c \in CandidatesOf(p, fs)
      PROVE  c \in Candidate /\ p \in Restrictions
  <2>1. PICK f \in fs : \E g \in FlowCandidates(f) : g.param = p /\ g.candidate = c
    BY DEF CandidatesOf
  <2> QED
    BY <2>1, FlowCandidatesTyped
<1> QED
  BY <1>1

LEMMA DropUnionBranchDuplicatesKeeps ==
    ASSUME NEW cs
    PROVE  DropUnionBranchDuplicates(cs) \in SUBSET cs
BY DEF DropUnionBranchDuplicates

(* A pick looks at candidates that pass the occurs check. *)
LEMMA CurrentTyped ==
    ASSUME TypeOK, program \in Programs, NEW p \in Param, NEW c \in Current(p)
    PROVE  c \in Candidate /\ p \notin Referenced(c.type)
<1>1. candidates[p] \in SUBSET Candidate
  BY DEF TypeOK
<1>2. flowsOf[p] \in SUBSET Flow
  BY ProgramAssumption DEF TypeOK
<1>3. DropUnionBranchDuplicates(CandidatesOf(p, flowsOf[p])) \in SUBSET Candidate
  BY <1>2, CandidatesOfTyped, DropUnionBranchDuplicatesKeeps
<1> QED
  BY <1>1, <1>3 DEF Current

-----------------------------------------------------------------------------
(* Picking *)

(* What pick_meet picks: a candidate, or plain types. *)
LEMMA PickMeetPicks ==
    ASSUME inferred \in [Param -> {Open} \cup PortType],
           NEW cs \in SUBSET Candidate, cs # {},
           NEW t \in PickMeet(cs), t # Open
    PROVE  t \in {c.type : c \in cs} \/ t \in SUBSET Atom
<1> DEFINE types == {c.type : c \in cs}
           below == {x \in types : \A y \in types : Supertype(y, x)}
           first == CHOOSE x \in types : TRUE
<1>1. first \in types
  OBVIOUS
<1>2. ASSUME \A x \in types : ~ContainsUninferred(x)
      PROVE  Intersection(types) \in SUBSET Atom
  <2>1. types \in SUBSET PortType
    BY DEF Candidate
  <2>2. \A x \in types : Resolved(x) \in SUBSET Atom
    BY <1>2, <2>1, ClosedTypesArePlain
  <2> QED
    BY <2>2 DEF Intersection
<1>3. below \in SUBSET types
  OBVIOUS
<1> QED
  BY <1>1, <1>2, <1>3 DEF PickMeet

LEMMA PickBestPicks ==
    ASSUME NEW types
    PROVE  PickBest(types) \in SUBSET types
BY DEF PickBest

LEMMA CommonSupertypePicks ==
    ASSUME NEW types, NEW t \in CommonSupertype(types)
    PROVE  t \in SUBSET Atom
BY DEF CommonSupertype

(* Whatever is picked from candidates that don't reach p doesn't reach p. *)
LEMMA PickWithinPicks ==
    ASSUME inferred \in [Param -> {Open} \cup PortType],
           NEW upperBound, NEW cs \in SUBSET Candidate, NEW upper, NEW p,
           \A c \in cs : p \notin Referenced(c.type),
           NEW t \in PickWithin(upperBound, cs, upper), t # Open
    PROVE  t \in PortType /\ p \notin Referenced(t)
<1> DEFINE fits == {c \in cs : Supertype(upperBound, c.type)}
           types == {c.type : c \in fits}
           common == {x \in CommonSupertype(types) : Supertype(upperBound, x)}
<1>1. \A x \in types : x \in PortType /\ p \notin Referenced(x)
  BY DEF Candidate
<1>2. fits \in SUBSET Candidate
  OBVIOUS
<1>3. fits # {} /\ \/ t \in PickMeet(fits)
                   \/ t \in PickBest(types)
                   \/ t \in CommonSupertype(types)
                   \/ t = UNION types
  BY DEF PickWithin
<1>4. t \in types \/ t \in SUBSET Atom \/ t = UNION types
  <2> HIDE DEF fits
  <2>1. CASE t \in PickMeet(fits)
    BY <1>2, <1>3, <2>1, PickMeetPicks
  <2> QED
    BY <1>3, <2>1, PickBestPicks, CommonSupertypePicks
<1> HIDE DEF types
<1>5. CASE t \in types
  BY <1>1, <1>5
<1>6. CASE t \in SUBSET Atom
  BY <1>6, PlainReachesNothing DEF PortType
<1>7. CASE t = UNION types
  BY <1>1, <1>7, UnionReaches DEF PortType
<1> QED
  BY <1>4, <1>5, <1>6, <1>7

LEMMA PicksPick ==
    ASSUME inferred \in [Param -> {Open} \cup PortType],
           NEW cs \in SUBSET Candidate, NEW p,
           \A c \in cs : p \notin Referenced(c.type),
           NEW t \in Picks(p, cs), t # Open
    PROVE  t \in PortType /\ p \notin Referenced(t)
<1> DEFINE usable == {c \in cs : Now.allowUninferred \/ ~ContainsUninferred(c.type)}
           lower == Lower(usable)
           side == IF lower = {} THEN usable ELSE lower
<1>1. side \in SUBSET cs
  BY DEF Lower
<1>2. t \in PickWithin(bound[p], side, lower = {})
  BY DEF Picks, PickForParam
<1> HIDE DEF side, lower
<1> QED
  BY <1>1, <1>2, PickWithinPicks

(* Storing a type normalized adds nothing that it reaches. *)
LEMMA StoredReaches ==
    ASSUME inferred \in [Param -> {Open} \cup PortType],
           NEW t \in PortType, NEW p, p \notin Referenced(t)
    PROVE  Stored(t) \in PortType /\ p \notin Referenced(Stored(t))
<1>1. CASE ContainsUninferred(t)
  BY <1>1 DEF Stored
<1>2. CASE ~ContainsUninferred(t)
  <2>1. Stored(t) \in SUBSET Atom
    BY <1>2, ClosedTypesArePlain DEF Stored, Normal
  <2> QED
    BY <2>1, PlainReachesNothing DEF PortType
<1> QED
  BY <1>1, <1>2

-----------------------------------------------------------------------------
(* The steps of the engine *)

OnlyAllowed == \A p \in Param : candidates[p] # {} => p \in Restrictions

EngineInv ==
    /\ TypeOK
    /\ program \in Programs
    /\ OnlyAllowed
    /\ NoInfiniteType

LEMMA ProgramTyped ==
    ASSUME program \in Programs
    PROVE  /\ program.flows \in SUBSET Flow
           /\ program.bound \in [Param -> PortType \cup {{AnyType}}]
           /\ config \in Config
           /\ Restrictions \in SUBSET Param
           /\ StopAfter = NoStop \/ StopAfter \subseteq Param
           /\ Len(Steps) \in Nat
<1>1. config \in Config /\ Steps \in Seq(Step)
  BY ProgramAssumption DEF config, Config, Steps
<1>2. Len(Steps) \in Nat
  BY <1>1, LenProperties
<1> QED
  BY <1>1, <1>2, ProgramAssumption DEF config, Config, Restrictions, StopAfter

(* Picking p is what OccursChecked calls assigning it. *)
LEMMA PickAssigns ==
    ASSUME TypeOK, program \in Programs, OnlyAllowed, NEW p \in Param, Pick(p)
    PROVE  Store!Assign(p)
<1>1. PICK t \in Picks(p, Current(p)) \ {Open} : inferred' = [inferred EXCEPT ![p] = Stored(t)]
  BY DEF Pick
<1>2. inferred \in [Param -> {Open} \cup PortType]
  BY DEF TypeOK
<1>3. t \in PortType /\ p \notin Referenced(t)
  BY <1>1, <1>2, CurrentTyped, PicksPick
<1>4. Stored(t) \in PortType /\ p \notin Referenced(Stored(t))
  BY <1>2, <1>3, StoredReaches
<1>5. inferred'[p] = Stored(t)
  BY <1>1, <1>2
<1>6. Stored(t) \in Type
  BY <1>4 DEF PortType, Type, Arm
<1>7. Stored(t) # Open
  BY <1>6, OpenAssumption
<1>8. p \in config.restrictions /\ inferred[p] = Open
  BY DEF Pick, OnlyAllowed, Restrictions
<1>9. UNCHANGED <<config.restrictions, bound>>
  BY DEF Pick, config
<1>10. Store!Referenced(Stored(t)) = Referenced(Stored(t))
  BY DEF Store!Referenced, Referenced, Store!FollowsInferred, FollowsInferred
<1>11. Store!Type = Type
  BY DEF Store!Type, Type, Store!Arm, Arm
<1>12. inferred'[p] # Open /\ inferred'[p] \in Store!Type
  BY <1>5, <1>6, <1>7, <1>11
<1>13. p \notin Store!Referenced(inferred'[p])
  BY <1>4, <1>5, <1>10
<1>14. inferred' = [inferred EXCEPT ![p] = inferred'[p]]
  BY <1>1, <1>5
<1> QED
  BY <1>8, <1>9, <1>12, <1>13, <1>14 DEF Store!Assign

(* All other steps leave the scopes alone. *)
LEMMA OthersLeaveScopes ==
    ASSUME Next, ~(\E p \in Param : Pick(p))
    PROVE  UNCHANGED <<bound, inferred>>
BY DEF Next, StartStep, Finish, Collect, Skip, EndPass

LEMMA ProgramStays ==
    ASSUME [Next]_engineVars
    PROVE  UNCHANGED <<program, bound>>
BY DEF Next, StartStep, Finish, Collect, Pick, Skip, EndPass, engineVars

(* A pick stays within what OccursChecked proves, so it closes no circle. *)
LEMMA PickClosesNoCircle ==
    ASSUME EngineInv, NEW p \in Param, Pick(p)
    PROVE  NoInfiniteType'
<1>1. Proved!Assign(p)
  BY PickAssigns DEF EngineInv, Store!Assign, Proved!Assign, Store!Referenced, Proved!Referenced,
     Store!FollowsInferred, Proved!FollowsInferred, Store!Type, Proved!Type, Store!Arm, Proved!Arm
<1>2. Proved!TypesEnd
  BY DEF EngineInv, NoInfiniteType, TypesEnd, Proved!TypesEnd
<1>3. inferred \in [Param -> {Open} \cup Proved!Type]
  BY DEF EngineInv, TypeOK, PortType, Proved!Type, Proved!Arm
<1>4. Proved!TypesEnd'
  BY <1>1, <1>2, <1>3, Proved!AssignClosesNoCircle, ArmsAssumption, OpenAssumption, BelowAssumption DEF Proved!Type, Proved!Arm, Type, Arm
<1> QED
  BY <1>4 DEF NoInfiniteType, TypesEnd, Proved!TypesEnd

-----------------------------------------------------------------------------
(* The invariant *)

LEMMA EngineStarts == Init => EngineInv
<1> SUFFICES ASSUME Init PROVE EngineInv
  OBVIOUS
<1>1. program \in Programs
  BY DEF Init
<1>2. NoCandidates \in [Param -> SUBSET Candidate] /\ \A p \in Param : NoCandidates[p] = {}
  BY DEF NoCandidates
<1>3. TypeOK
  <2>1. /\ candidates \in [Param -> SUBSET Candidate]
        /\ flowsOf \in [Param -> SUBSET program.flows]
        /\ awaited \in [Param -> SUBSET Restrictions]
    BY DEF Init, NoCandidates
  <2>2. inferred \in [Param -> {Open} \cup PortType]
    BY DEF Init
  <2>3. step \in 0..Len(Steps)
    BY <1>1, ProgramTyped DEF Init
  <2>4. toStop = NoStop \/ toStop \subseteq Param
    BY <1>1, ProgramTyped DEF Init
  <2> QED
    BY <1>1, <2>1, <2>2, <2>3, <2>4, ProgramTyped DEF Init, TypeOK
<1>4. OnlyAllowed
  BY <1>2 DEF OnlyAllowed, Init
<1>5. NoInfiniteType
  BY DEF Init, NoInfiniteType, TypesEnd
<1> QED
  BY <1>1, <1>3, <1>4, <1>5 DEF EngineInv

LEMMA StartStepKeepsInv ==
    ASSUME EngineInv, StartStep
    PROVE  TypeOK' /\ OnlyAllowed'
<1>1. step' \in 0..Len(Steps)
  BY ProgramTyped DEF EngineInv, TypeOK, StartStep
<1>2. TypeOK'
  BY <1>1 DEF EngineInv, TypeOK, StartStep, passVars, config, Steps, Restrictions
<1> QED
  BY <1>2 DEF EngineInv, OnlyAllowed, StartStep, passVars, Restrictions, config

LEMMA FinishKeepsInv ==
    ASSUME EngineInv, Finish
    PROVE  TypeOK' /\ OnlyAllowed'
BY DEF EngineInv, TypeOK, OnlyAllowed, Finish, passVars, config, Steps, Restrictions

LEMMA CollectKeepsInv ==
    ASSUME EngineInv, Collect
    PROVE  TypeOK' /\ OnlyAllowed'
<1>1. flows \in SUBSET Flow
  BY ProgramTyped DEF EngineInv, TypeOK
<1>2. ASSUME NEW p \in Param
      PROVE  /\ candidates'[p] \in SUBSET Candidate
             /\ candidates'[p] # {} => p \in Restrictions
             /\ awaited'[p] \in SUBSET Restrictions
             /\ flowsOf'[p] \in SUBSET program.flows
  <2>1. candidates'[p] \in SUBSET CandidatesOf(p, flows)
    BY DropUnionBranchDuplicatesKeeps DEF Collect
  <2>2. awaited'[p] \in SUBSET Restrictions
    BY DEF Collect, AwaitedParams
  <2>3. flowsOf'[p] \in SUBSET program.flows
    BY DEF Collect, EngineInv, TypeOK
  <2> QED
    BY <1>1, <2>1, <2>2, <2>3, CandidatesOfTyped
<1>3. /\ candidates' \in [Param -> SUBSET Candidate]
      /\ awaited' \in [Param -> SUBSET Restrictions]
      /\ flowsOf' \in [Param -> SUBSET program.flows]
  BY <1>2 DEF Collect
<1>4. TypeOK'
  BY <1>3 DEF EngineInv, TypeOK, Collect, config, Steps, Restrictions
<1>5. OnlyAllowed'
  BY <1>2 DEF OnlyAllowed, Collect, Restrictions, config
<1> QED
  BY <1>4, <1>5

LEMMA ClearPassTyped ==
    ASSUME ClearPass
    PROVE  /\ candidates' \in [Param -> SUBSET Candidate]
           /\ awaited' \in [Param -> SUBSET Restrictions]
           /\ flowsOf' \in [Param -> SUBSET program.flows]
           /\ inferredInPass' \subseteq Restrictions
           /\ \A p \in Param : candidates'[p] = {}
BY DEF ClearPass, NoCandidates

LEMMA EndPassKeepsInv ==
    ASSUME EngineInv, EndPass
    PROVE  TypeOK' /\ OnlyAllowed'
<1>1. TypeOK'
  BY ClearPassTyped DEF EngineInv, TypeOK, EndPass, config, Steps, Restrictions
<1>2. OnlyAllowed'
  BY ClearPassTyped DEF OnlyAllowed, EndPass
<1> QED
  BY <1>1, <1>2

LEMMA SkipKeepsInv ==
    ASSUME EngineInv, NEW p \in Param, Skip(p)
    PROVE  TypeOK' /\ OnlyAllowed'
BY DEF EngineInv, TypeOK, OnlyAllowed, Skip, config, Steps, Restrictions

LEMMA PickKeepsInv ==
    ASSUME EngineInv, NEW p \in Param, Pick(p)
    PROVE  TypeOK' /\ OnlyAllowed'
<1>1. PICK t \in Picks(p, Current(p)) \ {Open} : inferred' = [inferred EXCEPT ![p] = Stored(t)]
  BY DEF Pick
<1>2. Stored(t) \in PortType
  BY <1>1, CurrentTyped, PicksPick, StoredReaches DEF EngineInv, TypeOK
<1>3. inferred' \in [Param -> {Open} \cup PortType]
  BY <1>1, <1>2 DEF EngineInv, TypeOK
<1>4. p \in Restrictions
  BY DEF EngineInv, OnlyAllowed, Pick
<1>5. toStop' = NoStop \/ toStop' \subseteq Param
  BY DEF EngineInv, TypeOK, Pick
<1>6. /\ phase' \in {"step", "collect", "pick", "done"}
      /\ candidates' \in [Param -> SUBSET Candidate]
      /\ flowsOf' \in [Param -> SUBSET program.flows]
      /\ awaited' \in [Param -> SUBSET Restrictions]
      /\ inferredInPass' \subseteq Restrictions
      /\ \A q \in Param : candidates'[q] = candidates[q] \/ candidates'[q] = {}
  <2>1. CASE toStop' = {}
    BY <2>1, ClearPassTyped DEF Pick
  <2>2. CASE toStop' # {}
    BY <1>4, <2>2 DEF EngineInv, TypeOK, Pick
  <2> QED
    BY <2>1, <2>2
<1>7. TypeOK'
  BY <1>3, <1>5, <1>6 DEF EngineInv, TypeOK, Pick, config, Steps, Restrictions
<1>8. OnlyAllowed'
  BY <1>6 DEF EngineInv, OnlyAllowed, Pick, Restrictions, config
<1> QED
  BY <1>7, <1>8

LEMMA EngineStep == EngineInv /\ [Next]_engineVars => EngineInv'
<1> SUFFICES ASSUME EngineInv, [Next]_engineVars PROVE EngineInv'
  OBVIOUS
<1>1. program' \in Programs
  BY ProgramStays DEF EngineInv
<1>2. TypeOK' /\ OnlyAllowed'
  <2>1. CASE UNCHANGED engineVars
    BY <2>1 DEF EngineInv, TypeOK, OnlyAllowed, engineVars, passVars, config, Steps, Restrictions
  <2> QED
    BY <2>1, StartStepKeepsInv, FinishKeepsInv, CollectKeepsInv, PickKeepsInv, SkipKeepsInv,
       EndPassKeepsInv DEF Next
<1>3. NoInfiniteType'
  <2>1. CASE UNCHANGED <<bound, inferred>>
    BY <2>1 DEF EngineInv, NoInfiniteType, TypesEnd
  <2>2. CASE \E p \in Param : Pick(p)
    BY <2>2, PickClosesNoCircle
  <2> QED
    BY <2>1, <2>2, OthersLeaveScopes DEF engineVars
<1> QED
  BY <1>1, <1>2, <1>3 DEF EngineInv

LEMMA EngineInvariant == Spec => []EngineInv
BY EngineStarts, EngineStep, PTL DEF Spec

-----------------------------------------------------------------------------
(* The variables of the engine have their types, among them: candidates, waiting
   and inference stay within the parameters the configuration allows. *)
THEOREM TypeCorrect == Spec => []TypeOK
<1>1. EngineInv => TypeOK
  BY DEF EngineInv
<1> QED
  BY <1>1, EngineInvariant, PTL

(* infer writes to the scopes as OccursChecked says: a parameter is inferred once,
   if the configuration allows it, to a type that doesn't reach it. *)
THEOREM EngineImplementsOccursChecked == Spec => ImplementsOccursChecked
<1>1. Init => Store!Init
  BY EngineStarts, ProgramTyped DEF EngineInv, Init, Store!Init, Restrictions
<1>2. EngineInv /\ [Next]_engineVars => [Store!Next]_<<config.restrictions, bound, inferred>>
  <2> SUFFICES ASSUME EngineInv, [Next]_engineVars
               PROVE  [Store!Next]_<<config.restrictions, bound, inferred>>
    OBVIOUS
  <2>1. CASE \E p \in Param : Pick(p)
    BY <2>1, PickAssigns DEF EngineInv, Store!Next
  <2>2. CASE UNCHANGED <<bound, inferred>>
    BY <2>2, ProgramStays DEF config
  <2> QED
    BY <2>1, <2>2, OthersLeaveScopes DEF engineVars
<1> QED
  BY <1>1, <1>2, EngineInvariant, PTL DEF Spec, ImplementsOccursChecked

(* No inferred type reaches itself: the walks of traversal, subtyping and
   normalization along inferred types end. *)
THEOREM TypesStayFinite == Spec => []NoInfiniteType
<1>1. EngineInv => NoInfiniteType
  BY DEF EngineInv
<1> QED
  BY <1>1, EngineInvariant, PTL

-----------------------------------------------------------------------------
(* Stopping *)

(* What must be inferred before inference stops is what is open of stop_after, and
   once nothing is left inference is done. *)
StopInv ==
    StopAfter # NoStop =>
        /\ toStop = {p \in StopAfter : inferred[p] = Open}
        /\ (StopAfter # {} /\ toStop = {}) => phase = "done"

LEMMA StopInvStarts == Init => StopInv
BY ProgramTyped DEF Init, StopInv, StopAfter, config

LEMMA PickKeepsStopInv ==
    ASSUME EngineInv, StopInv, NEW p \in Param, Pick(p)
    PROVE  StopInv'
<1>1. Store!Assign(p) /\ inferred \in [Param -> {Open} \cup PortType]
  BY PickAssigns DEF EngineInv, TypeOK
<1>2. inferred[p] = Open /\ inferred'[p] # Open /\ \A q \in Param \ {p} : inferred'[q] = inferred[q]
  BY <1>1 DEF Store!Assign
<1>3. StopAfter' = StopAfter
  BY DEF Pick, StopAfter, config
<1>4. SUFFICES ASSUME StopAfter # NoStop
               PROVE  /\ toStop' = {q \in StopAfter : inferred'[q] = Open}
                      /\ (StopAfter # {} /\ toStop' = {}) => phase' = "done"
  BY <1>3 DEF StopInv
<1>5. StopAfter \subseteq Param /\ toStop # NoStop
  BY <1>4, ProgramTyped, ProgramAssumption DEF EngineInv, StopInv
<1>6. toStop' = toStop \ {p}
  BY <1>5 DEF Pick
<1>7. toStop' = {q \in StopAfter : inferred'[q] = Open}
  BY <1>2, <1>4, <1>5, <1>6 DEF StopInv
<1> QED
  BY <1>7 DEF Pick

LEMMA StopInvStep == EngineInv /\ StopInv /\ [Next]_engineVars => StopInv'
<1> SUFFICES ASSUME EngineInv, StopInv, [Next]_engineVars PROVE StopInv'
  OBVIOUS
<1>1. CASE \E p \in Param : Pick(p)
  BY <1>1, PickKeepsStopInv
<1>2. CASE UNCHANGED engineVars
  BY <1>2 DEF StopInv, engineVars, StopAfter, config
<1>3. CASE Next /\ ~(\E p \in Param : Pick(p))
  <2>1. UNCHANGED <<program, inferred, toStop>> /\ phase # "done"
    BY <1>3 DEF Next, StartStep, Finish, Collect, Skip, EndPass
  <2> QED
    BY <2>1 DEF StopInv, StopAfter, config
<1> QED
  BY <1>1, <1>2, <1>3

(* "Inference will stop as soon as all of these parameters are inferred": then no
   parameter is inferred any more, unless there were none to wait for. *)
THEOREM StopsOnceInferred == Spec => StopsWhenAsked
<1>1. EngineInv /\ StopInv /\ [Next]_engineVars
        => [(StopAfter # NoStop /\ StopAfter # {} /\ \A p \in StopAfter : inferred[p] # Open)
              => UNCHANGED inferred]_engineVars
  <2> SUFFICES ASSUME EngineInv, StopInv, Next,
                      StopAfter # NoStop, StopAfter # {}, \A p \in StopAfter : inferred[p] # Open
               PROVE  UNCHANGED inferred
    OBVIOUS
  <2>1. phase = "done"
    BY DEF StopInv
  <2>2. ~(\E p \in Param : Pick(p))
    BY <2>1 DEF Pick
  <2> QED
    BY <2>2, OthersLeaveScopes
<1> QED
  BY <1>1, StopInvStarts, StopInvStep, EngineInvariant, PTL DEF Spec, StopsWhenAsked

-----------------------------------------------------------------------------
(* Bounds *)

(* What a parameter stands for is, leaf by leaf, below its bound, which has no open
   parameters. *)
BoundsKept ==
    \A p \in Param :
        inferred[p] # Open => Settled(bound[p]) /\ AllUnder(Leaves(inferred[p]), Leaves(bound[p]))

LEMMA PlainTypesAreLeaves ==
    ASSUME NEW t \in SUBSET Atom
    PROVE  Leaves(t) \subseteq t
<1>1. ASSUME NEW k \in Leaves(t) PROVE k \in t
  <2>1. PICK m \in t : k \in Leaves({m})
    BY LeavesByArm
  <2> QED
    BY <2>1, LeavesOfPlainArm, ArmsAssumption
<1> QED
  BY <1>1

LEMMA ScopesAreTyped ==
    ASSUME TypeOK
    PROVE  /\ ScopesTyped
           /\ inferred \in [Param -> {Open} \cup PortType]
           /\ PortType \subseteq Type
           /\ \A c \in Candidate : c.type \in PortType
<1>1. PortType \subseteq Type /\ {AnyType} \in Type
  BY DEF PortType, Type, Arm
<1>2. \A c \in Candidate : c.type \in PortType
  BY DEF Candidate
<1>3. bound \in [Param -> PortType \cup {{AnyType}}] /\ inferred \in [Param -> {Open} \cup PortType]
  BY DEF TypeOK
<1> QED
  BY <1>1, <1>2, <1>3 DEF ScopesTyped

(* Whatever pick_for_param picks within an upper bound has its leaves below it: the
   candidates are filtered, and joins, meets and unions of them add nothing else. *)
LEMMA PickWithinFits ==
    ASSUME TypeOK, TypesEnd, NEW upperBound \in Type, Settled(upperBound),
           NEW cs \in SUBSET Candidate, NEW upper,
           NEW t \in PickWithin(upperBound, cs, upper), t # Open
    PROVE  AllUnder(Leaves(t), Leaves(upperBound))
<1> DEFINE fits == {c \in cs : Supertype(upperBound, c.type)}
           types == {c.type : c \in fits}
           common == {x \in CommonSupertype(types) : Supertype(upperBound, x)}
           L == Leaves(upperBound)
<1>1. ScopesTyped /\ inferred \in [Param -> {Open} \cup PortType]
  BY ScopesAreTyped
<1>2. \A x \in types : x \in PortType /\ x \in Type /\ AllUnder(Leaves(x), L)
  BY <1>1, ScopesAreTyped, SupertypeIsSound
<1>3. fits # {} /\ \/ t \in PickMeet(fits)
                   \/ t \in PickBest(types)
                   \/ t \in common
                   \/ t = UNION types
  BY DEF PickWithin
<1> DEFINE below == {x \in types : \A y \in types : Supertype(y, x)}
           first == CHOOSE x \in types : TRUE
<1>4. CASE t \in PickMeet(fits)
  <2>1. types # {}
    BY <1>3
  <2>2. \/ t \in types
        \/ t = Intersection(types) /\ \A x \in types : ~ContainsUninferred(x)
    <3>1. first \in types
      BY <2>1
    <3> QED
      BY <1>4, <3>1 DEF PickMeet
  <2>3. CASE t = Intersection(types) /\ \A x \in types : ~ContainsUninferred(x)
    <3> HIDE DEF types
    <3>1. \A x \in types : Resolved(x) \in SUBSET Atom /\ Leaves(x) = Resolved(x)
      BY <1>1, <1>2, <2>3, ClosedTypesArePlain, SettledMeets DEF Settled
    <3>2. \A m \in t : m \in Atom /\ \E x \in types : m \in Leaves(x)
      BY <2>3, <3>1 DEF Intersection
    <3>3. Leaves(t) \subseteq t
      BY <3>2, PlainTypesAreLeaves, t \in SUBSET Atom
    <3> QED
      BY <1>2, <3>2, <3>3 DEF AllUnder
  <2> QED
    BY <1>2, <2>2, <2>3
<1>5. CASE t \in PickBest(types)
  BY <1>2, <1>5, PickBestPicks
<1>6. CASE t \in common
  <2>1. t \in SUBSET Atom /\ Supertype(upperBound, t)
    BY <1>6, CommonSupertypePicks
  <2>2. t \in Type
    BY <2>1 DEF Type, Arm
  <2> QED
    BY <1>1, <2>1, <2>2, SupertypeIsSound
<1>7. CASE t = UNION types
  <2> HIDE DEF types, L
  <2>1. ASSUME NEW k \in Leaves(t) PROVE Under(k, L)
    <3>1. PICK m \in t : k \in Leaves({m})
      BY LeavesByArm
    <3>2. PICK x \in types : m \in x
      BY <1>7
    <3>3. k \in Leaves(x)
      BY <3>1, <3>2, LeavesOfPart, {m} \in SUBSET x
    <3> QED
      BY <1>2, <3>3 DEF AllUnder
  <2> QED
    BY <2>1 DEF AllUnder, L
<1> QED
  BY <1>3, <1>4, <1>5, <1>6, <1>7

LEMMA AnyIsSettled == Settled({AnyType})
<1>1. Referenced({AnyType}) = {}
  BY ArmsAssumption, {} \in SUBSET Param DEF Referenced, FollowsInferred
<1> QED
  BY <1>1 DEF Settled, ContainsUninferred, OpenIn

LEMMA PicksFit ==
    ASSUME TypeOK, TypesEnd, NEW p \in Param, NEW cs \in SUBSET Candidate,
           NEW t \in Picks(p, cs), t # Open
    PROVE  Settled(bound[p]) /\ AllUnder(Leaves(t), Leaves(bound[p]))
<1> DEFINE usable == {c \in cs : Now.allowUninferred \/ ~ContainsUninferred(c.type)}
           lower == Lower(usable)
           side == IF lower = {} THEN usable ELSE lower
<1>1. side \in SUBSET cs
  BY DEF Lower
<1>2. t \in PickForParam(p, side, lower = {})
  BY DEF Picks
<1>3. /\ bound[p] = {AnyType} \/ ~ContainsUninferred(bound[p])
      /\ t \in PickWithin(bound[p], side, lower = {})
  BY <1>2 DEF PickForParam
<1>4. Settled(bound[p])
  BY <1>3, AnyIsSettled DEF Settled
<1>5. bound[p] \in Type
  BY ScopesAreTyped DEF ScopesTyped
<1> HIDE DEF side, lower
<1> QED
  BY <1>1, <1>3, <1>4, <1>5, PickWithinFits

(* Storing a type normalized drops leaves at most. *)
LEMMA StoredLeaves ==
    ASSUME inferred \in [Param -> {Open} \cup PortType], NEW t \in PortType
    PROVE  Leaves(Stored(t)) \subseteq Leaves(t)
<1>1. CASE ~ContainsUninferred(t)
  <2>1. Normal(t) \subseteq Resolved(t) /\ Resolved(t) \in SUBSET Atom
    BY <1>1, ClosedTypesArePlain DEF Normal
  <2>2. Resolved(t) = Leaves(t)
    BY <1>1, SettledMeets DEF Settled
  <2>3. Stored(t) \in SUBSET Atom /\ Stored(t) \subseteq Leaves(t)
    BY <1>1, <2>1, <2>2 DEF Stored
  <2> QED
    BY <2>3, PlainTypesAreLeaves
<1> QED
  BY <1>1 DEF Stored

(* What a pick does to the scopes. *)
LEMMA PickFits ==
    ASSUME EngineInv, NEW p \in Param, Pick(p)
    PROVE  /\ inferred[p] = Open /\ bound' = bound /\ Settled(bound[p])
           /\ \E v \in PortType : /\ inferred' = [inferred EXCEPT ![p] = v]
                                 /\ AllUnder(Leaves(v), Leaves(bound[p]))
<1>1. PICK t \in Picks(p, Current(p)) \ {Open} : inferred' = [inferred EXCEPT ![p] = Stored(t)]
  BY DEF Pick
<1>2. TypeOK /\ TypesEnd /\ inferred \in [Param -> {Open} \cup PortType]
  BY DEF EngineInv, NoInfiniteType, TypeOK
<1>3. Current(p) \in SUBSET Candidate /\ \A c \in Current(p) : p \notin Referenced(c.type)
  BY CurrentTyped DEF EngineInv
<1>4. t \in PortType /\ p \notin Referenced(t)
  BY <1>1, <1>2, <1>3, PicksPick
<1>5. Stored(t) \in PortType /\ Leaves(Stored(t)) \subseteq Leaves(t)
  BY <1>2, <1>4, StoredReaches, StoredLeaves
<1>6. Settled(bound[p]) /\ AllUnder(Leaves(t), Leaves(bound[p]))
  BY <1>1, <1>2, <1>3, PicksFit
<1>7. AllUnder(Leaves(Stored(t)), Leaves(bound[p]))
  BY <1>5, <1>6 DEF AllUnder
<1> QED
  BY <1>1, <1>5, <1>6, <1>7 DEF Pick

-----------------------------------------------------------------------------
(* What a pick changes for other types *)

LEMMA MetIsClosedLater ==
    (\A t : /\ Met(t) \in SUBSET Param
            /\ t \cap Param \subseteq Met(t)
            /\ FollowsBoundaries(Met(t)))'
<1>1. \A t : /\ Met(t) \in SUBSET Param
             /\ t \cap Param \subseteq Met(t)
             /\ FollowsBoundaries(Met(t))
  BY MetIsClosed
<1> QED
  BY <1>1, PTL

LEMMA LeavesWithinLater ==
    (\A t, L : \A S \in SUBSET Param :
        (/\ t \cap Param \subseteq S /\ FollowsBoundaries(S)
         /\ t \ Param \subseteq L /\ \A q \in S : Boundary(q) \ Param \subseteq L)
        => Leaves(t) \subseteq L)'
<1>1. \A t, L : \A S \in SUBSET Param :
        (/\ t \cap Param \subseteq S /\ FollowsBoundaries(S)
         /\ t \ Param \subseteq L /\ \A q \in S : Boundary(q) \ Param \subseteq L)
        => Leaves(t) \subseteq L
  BY LeavesWithin
<1> QED
  BY <1>1, PTL

(* p is inferred to v, which is below its bound. *)
Narrows(p, v) ==
    /\ p \in Param /\ inferred[p] = Open /\ v # Open
    /\ inferred \in [Param -> {Open} \cup PortType]
    /\ inferred' = [inferred EXCEPT ![p] = v]
    /\ bound' = bound
    /\ AllUnder(Leaves(v), Leaves(bound[p]))

LEMMA BoundariesAfter ==
    ASSUME NEW p, NEW v, Narrows(p, v)
    PROVE  /\ \A q \in Param \ {p} : Boundary(q)' = Boundary(q) /\ inferred'[q] = inferred[q]
           /\ Boundary(p)' = v /\ inferred'[p] = v /\ Boundary(p) = bound[p]
BY DEF Narrows, Boundary

LEMMA UnderPart ==
    ASSUME NEW t, NEW L, NEW M, t \subseteq L, AllUnder(L, M)
    PROVE  AllUnder(t, M)
BY DEF AllUnder

(* Every type's leaves stay or move down. *)
LEMMA LeavesMoveDown ==
    ASSUME NEW p, NEW v, Narrows(p, v), NEW t
    PROVE  AllUnder(Leaves(t)', Leaves(t))
<1> PICK L : L = Leaves(t)
  OBVIOUS
<1> PICK S \in SUBSET Param : \A q \in Param : q \in S <=> AllUnder(Leaves({q}), L)
  <2>1. {q \in Param : AllUnder(Leaves({q}), L)} \in SUBSET Param
    OBVIOUS
  <2> QED
    BY <2>1
<1>1. ASSUME NEW s, AllUnder(Leaves(s), L), NEW m \in s
      PROVE  (m \in Param => m \in S) /\ (m \notin Param => Under(m, L))
  <2>1. AllUnder(Leaves({m}), L)
    BY <1>1, LeavesOfPart, {m} \in SUBSET s DEF AllUnder
  <2>2. m \notin Param => Under(m, L)
    BY <2>1, LeavesOfPlainArm DEF AllUnder
  <2> QED
    BY <2>1, <2>2
<1>2. AllUnder(Leaves(t), L)
  BY DEF AllUnder, Under
<1>3. ASSUME NEW q \in S
      PROVE  \A m \in Boundary(q)' : (m \in Param => m \in S) /\ (m \notin Param => Under(m, L))
  <2>1. CASE q # p
    <3>1. Boundary(q)' = Boundary(q) /\ Leaves(Boundary(q)) = Leaves({q})
      BY <2>1, BoundariesAfter, LeavesOfParam
    <3>2. AllUnder(Leaves(Boundary(q)), L)
      BY <3>1
    <3> QED
      BY <1>1, <3>1, <3>2
  <2>2. CASE q = p
    <3>1. Boundary(p)' = v /\ Leaves(bound[p]) = Leaves({p})
      BY BoundariesAfter, LeavesOfParam DEF Narrows
    <3>2. AllUnder(Leaves(v), Leaves({p})) /\ AllUnder(Leaves({p}), L)
      BY <2>2, <3>1 DEF Narrows
    <3>3. AllUnder(Leaves(v), L)
      BY <3>2, UnderTransitive DEF AllUnder
    <3> QED
      BY <1>1, <2>2, <3>1, <3>3
  <2> QED
    BY <2>1, <2>2
<1> PICK M : M = {k \in t \cup UNION {Boundary(q)' : q \in Param} : Under(k, L)}
  OBVIOUS
<1>4. t \cap Param \subseteq S /\ t \ Param \subseteq M
  BY <1>1, <1>2
<1>5. FollowsBoundaries(S)'
  BY <1>3 DEF FollowsBoundaries
<1>6. \A q \in S : Boundary(q)' \ Param \subseteq M
  BY <1>3
<1>7. Leaves(t)' \subseteq M
  BY <1>4, <1>5, <1>6, LeavesWithinLater
<1> QED
  BY <1>7 DEF AllUnder

(* A type without open parameters stays as it is. *)
LEMMA SettledStays ==
    ASSUME NEW p, NEW v, Narrows(p, v), NEW t, Settled(t)
    PROVE  Settled(t)' /\ Leaves(t)' = Leaves(t)
<1> PICK R \in SUBSET Param : R = Met(t)
  BY MetIsClosed
<1> PICK L : L = Leaves(t)
  OBVIOUS
<1>1. \A q \in R : /\ inferred[q] # Open /\ q # p
                   /\ Boundary(q)' = Boundary(q) /\ inferred'[q] = inferred[q]
  BY SettledMeets, BoundariesAfter DEF Narrows
<1>2. t \cap Param \subseteq R /\ FollowsBoundaries(R)
  BY MetIsClosed
<1>3. FollowsBoundaries(R)'
  BY <1>1, <1>2 DEF FollowsBoundaries
<1>4. Leaves(t)' \subseteq Leaves(t)
  <2>1. t \ Param \subseteq L /\ \A q \in R : Boundary(q)' \ Param \subseteq L
    BY <1>1 DEF Leaves
  <2> QED
    BY <1>2, <1>3, <2>1, LeavesWithinLater
<1>5. Leaves(t) \subseteq Leaves(t)'
  <2> PICK N \in SUBSET Param : N = Met(t)' \cap R
    OBVIOUS
  <2>1. t \cap Param \subseteq N /\ N \subseteq Met(t)'
    BY <1>2, MetIsClosedLater
  <2>2. FollowsBoundaries(N)
    <3>1. FollowsBoundaries(Met(t))'
      BY MetIsClosedLater
    <3> QED
      BY <1>1, <1>2, <3>1 DEF FollowsBoundaries
  <2>3. t \ Param \subseteq Leaves(t)' /\ \A q \in N : Boundary(q) \ Param \subseteq Leaves(t)'
    BY <1>1 DEF Leaves
  <2> QED
    BY <2>1, <2>2, <2>3, LeavesWithin
<1>6. Settled(t)'
  <2>1. FollowsInferred(R)'
    BY <1>1, <1>2 DEF FollowsBoundaries, FollowsInferred, Boundary
  <2>2. Referenced(t)' \subseteq R
    BY <1>2, <2>1 DEF Referenced
  <2> QED
    BY <1>1, <2>2 DEF Settled, ContainsUninferred, OpenIn
<1> QED
  BY <1>4, <1>5, <1>6

-----------------------------------------------------------------------------
(* Bounds are kept *)

LEMMA PickNarrows ==
    ASSUME EngineInv, NEW p \in Param, Pick(p)
    PROVE  Settled(bound[p]) /\ \E v \in PortType : Narrows(p, v)
<1>1. PICK v \in PortType : /\ inferred' = [inferred EXCEPT ![p] = v]
                           /\ AllUnder(Leaves(v), Leaves(bound[p]))
  BY PickFits
<1>2. v # Open
  BY OpenAssumption DEF PortType, Type, Arm
<1>3. inferred \in [Param -> {Open} \cup PortType]
  BY DEF EngineInv, TypeOK
<1> QED
  BY <1>1, <1>2, <1>3, PickFits DEF Narrows

LEMMA PickKeepsBounds ==
    ASSUME EngineInv, BoundsKept, NEW p \in Param, Pick(p)
    PROVE  BoundsKept'
<1>1. PICK v \in PortType : Narrows(p, v)
  BY PickNarrows
<1>2. ASSUME NEW q \in Param, inferred'[q] # Open
      PROVE  Settled(bound[q])' /\ AllUnder(Leaves(inferred[q])', Leaves(bound[q])')
  <2> PICK b : b = bound[q] /\ b = bound'[q]
    BY <1>1 DEF Narrows
  <2> PICK t : t = inferred'[q]
    OBVIOUS
  <2>1. Settled(b) /\ AllUnder(Leaves(t), Leaves(b))
    <3>1. CASE q = p
      BY <1>1, <3>1, PickNarrows, BoundariesAfter DEF Narrows
    <3>2. CASE q # p
      BY <1>1, <1>2, <3>2, BoundariesAfter DEF BoundsKept
    <3> QED
      BY <3>1, <3>2
  <2>2. Settled(b)' /\ Leaves(b)' = Leaves(b)
    BY <1>1, <2>1, SettledStays
  <2>3. AllUnder(Leaves(t)', Leaves(t))
    BY <1>1, LeavesMoveDown
  <2>4. AllUnder(Leaves(t)', Leaves(b)')
    BY <2>1, <2>2, <2>3, UnderTransitive DEF AllUnder
  <2> QED
    BY <2>2, <2>4
<1> QED
  BY <1>2 DEF BoundsKept

LEMMA BoundsKeptStarts == Init => BoundsKept
BY DEF Init, BoundsKept

LEMMA ScopesStay ==
    ASSUME UNCHANGED <<bound, inferred>>, NEW t
    PROVE  Leaves(t)' = Leaves(t) /\ (Settled(t) => Settled(t)')
<1>1. Leaves(t)' = Leaves(t)
  BY DEF Leaves, Met, FollowsBoundaries, Boundary
<1>2. Settled(t) => Settled(t)'
  BY DEF Settled, ContainsUninferred, OpenIn, Referenced, FollowsInferred
<1> QED
  BY <1>1, <1>2

LEMMA BoundsKeptStep == EngineInv /\ BoundsKept /\ [Next]_engineVars => BoundsKept'
<1> SUFFICES ASSUME EngineInv, BoundsKept, [Next]_engineVars PROVE BoundsKept'
  OBVIOUS
<1>1. CASE \E p \in Param : Pick(p)
  BY <1>1, PickKeepsBounds
<1>2. CASE UNCHANGED <<bound, inferred>>
  <2>1. ASSUME NEW q \in Param, inferred'[q] # Open
        PROVE  Settled(bound[q])' /\ AllUnder(Leaves(inferred[q])', Leaves(bound[q])')
    <3> PICK b : b = bound[q] /\ b = bound'[q]
      BY <1>2
    <3> PICK t : t = inferred[q] /\ t = inferred'[q]
      BY <1>2
    <3>1. Settled(b) /\ AllUnder(Leaves(t), Leaves(b))
      BY <2>1 DEF BoundsKept
    <3> QED
      BY <1>2, <3>1, ScopesStay
  <2> QED
    BY <2>1 DEF BoundsKept
<1> QED
  BY <1>1, <1>2, OthersLeaveScopes DEF engineVars

(* What is inferred never leaves its bound, leaf by leaf, also after what it
   mentions has been inferred. *)
THEOREM BoundsAreKept == Spec => []BoundsKept
BY BoundsKeptStarts, BoundsKeptStep, EngineInvariant, PTL DEF Spec

(* What a parameter stands for stays within its bound, as supertype_of sees it, as
   long as following boundaries ends. *)
THEOREM InferredWithinBounds == Spec => [](BoundariesEnd => WithinBounds)
<1>1. EngineInv /\ BoundsKept => (BoundariesEnd => WithinBounds)
  <2> SUFFICES ASSUME EngineInv, BoundsKept, BoundariesEnd, NEW p \in Param,
                      inferred[p] # Open
               PROVE  Supertype(bound[p], inferred[p])
    BY DEF WithinBounds
  <2>1. ScopesTyped /\ bound[p] \in Type /\ inferred[p] \in Type
    BY ScopesAreTyped DEF EngineInv, ScopesTyped
  <2>2. Settled(bound[p]) /\ AllUnder(Leaves(inferred[p]), Leaves(bound[p]))
    BY DEF BoundsKept
  <2> QED
    BY <2>1, <2>2, SubtypingIsExact
<1> QED
  BY <1>1, BoundsAreKept, EngineInvariant, PTL

LEMMA SubtypingIsExactLater ==
    (ScopesTyped /\ BoundariesEnd =>
        \A T, C \in Type : Settled(T) => (Supertype(T, C) <=> AllUnder(Leaves(C), Leaves(T))))'
<1>1. ScopesTyped /\ BoundariesEnd =>
        \A T, C \in Type : Settled(T) => (Supertype(T, C) <=> AllUnder(Leaves(C), Leaves(T)))
  BY SubtypingIsExact
<1> QED
  BY <1>1, PTL

LEMMA ScopesTypedLater == (EngineInv => ScopesTyped)'
<1>1. EngineInv => ScopesTyped
  BY ScopesAreTyped DEF EngineInv
<1> QED
  BY <1>1, PTL

(* A type that is accepted stays accepted if its leaves don't move up. *)
LEMMA AcceptedStays ==
    ASSUME EngineInv, EngineInv', BoundariesEnd',
           NEW T \in Type, NEW C \in Type, Settled(T), Supertype(T, C),
           Settled(T)', Leaves(T)' = Leaves(T), AllUnder(Leaves(C)', Leaves(C))
    PROVE  Supertype(T, C)'
<1>1. AllUnder(Leaves(C), Leaves(T))
  BY SupertypeIsSound, ScopesAreTyped DEF EngineInv, NoInfiniteType
<1>2. AllUnder(Leaves(C)', Leaves(T)')
  BY <1>1, UnderTransitive DEF AllUnder
<1> QED
  BY <1>2, ScopesTypedLater, SubtypingIsExactLater DEF AllUnder, Under

LEMMA FlowTypes ==
    ASSUME EngineInv, NEW f \in program.flows, NEW pos \in f.positions
    PROVE  pos.target \in Type /\ pos.source \in Type
BY ProgramTyped DEF EngineInv, Flow, Position, PortType, Type, Arm

LEMMA StepKeepsAcceptance ==
    ASSUME EngineInv, EngineInv', BoundariesEnd', Next
    PROVE  KeepsAcceptance
<1>1. ASSUME NEW T \in Type, NEW C \in Type, Settled(T), Supertype(T, C)
      PROVE  Supertype(T, C)'
  <2>1. CASE \E p \in Param : Pick(p)
    <3>1. PICK p \in Param, v \in PortType : Narrows(p, v)
      BY <2>1, PickNarrows
    <3>2. Settled(T)' /\ Leaves(T)' = Leaves(T) /\ AllUnder(Leaves(C)', Leaves(C))
      BY <1>1, <3>1, SettledStays, LeavesMoveDown
    <3> QED
      BY <1>1, <3>2, AcceptedStays
  <2>2. CASE UNCHANGED <<bound, inferred>>
    <3>1. Settled(T)' /\ Leaves(T)' = Leaves(T) /\ Leaves(C)' = Leaves(C)
      BY <1>1, <2>2, ScopesStay
    <3> QED
      BY <1>1, <3>1, AcceptedStays DEF AllUnder, Under
  <2> QED
    BY <2>1, <2>2, OthersLeaveScopes
<1>2. ASSUME NEW f \in program.flows, NEW pos \in f.positions,
             ~ContainsUninferred(pos.target), Supertype(pos.target, pos.source)
      PROVE  Supertype(pos.target, pos.source)'
  <2> PICK T : T = pos.target
    OBVIOUS
  <2> PICK C : C = pos.source
    OBVIOUS
  <2> QED
    BY <1>1, <1>2, FlowTypes DEF Settled
<1> QED
  BY <1>2 DEF KeepsAcceptance

(* Accepted flows stay accepted, for every program and order of picks, as long as
   following boundaries ends. *)
THEOREM AcceptanceIsKept == Spec /\ []BoundariesEnd => AcceptedFlowsStay
<1>1. EngineInv /\ EngineInv' /\ BoundariesEnd' /\ [Next]_engineVars => [KeepsAcceptance]_engineVars
  BY StepKeepsAcceptance
<1> QED
  BY <1>1, EngineInvariant, PTL DEF Spec, AcceptedFlowsStay

(* Between the types of a program, supertype_of is exact where it decides, as long
   as following boundaries ends. *)
THEOREM SubtypingAlwaysExact == Spec => [](BoundariesEnd => SubtypingExact)
<1>1. EngineInv => (BoundariesEnd => SubtypingExact)
  <2> SUFFICES ASSUME EngineInv, BoundariesEnd,
                      NEW parent \in ProgramTypes, NEW child \in ProgramTypes, Settled(parent)
               PROVE  Supertype(parent, child) <=> AllUnder(Leaves(child), Leaves(parent))
    BY DEF SubtypingExact
  <2>1. ScopesTyped /\ \A p \in Param : bound[p] \in Type
    BY ScopesAreTyped DEF EngineInv, ScopesTyped
  <2>2. \A t \in ProgramTypes : t \in Type
    BY <2>1, FlowTypes DEF ProgramTypes
  <2> QED
    BY <2>1, <2>2, SubtypingIsExact
<1> QED
  BY <1>1, EngineInvariant, PTL

(* Bounds that mention no parameters. *)
PlainBounds == \A prog \in Programs : \A p \in Param : prog.bound[p] \cap Param = {}

(* With plain bounds following boundaries always ends, so that what is inferred is
   within them, supertype_of is exact where it decides and accepted flows stay
   accepted, for every such program. *)
THEOREM PlainBoundsSuffice ==
    ASSUME PlainBounds
    PROVE  Spec => []BoundariesEnd /\ []WithinBounds /\ []SubtypingExact /\ AcceptedFlowsStay
<1> DEFINE Plain == bound = program.bound /\ program \in Programs
<1>1. Init => Plain
  BY DEF Init
<1>2. Plain /\ [Next]_engineVars => Plain'
  BY ProgramStays
<1>3. EngineInv /\ Plain => BoundariesEnd
  <2> SUFFICES ASSUME EngineInv, Plain, NEW S \in SUBSET Param, S # {}
               PROVE  \E p \in S : Boundary(p) \cap S = {}
    BY DEF BoundariesEnd
  <2>1. PICK p \in S : inferred[p] = Open \/ inferred[p] \cap S = {}
    BY DEF EngineInv, NoInfiniteType, TypesEnd
  <2>2. bound[p] \cap S = {}
    BY DEF PlainBounds
  <2> QED
    BY <2>1, <2>2 DEF Boundary
<1> QED
  BY <1>1, <1>2, <1>3, EngineInvariant, InferredWithinBounds, SubtypingAlwaysExact, AcceptanceIsKept, PTL DEF Spec

-----------------------------------------------------------------------------
(* The end comes closer *)

WithCandidates == {p \in Param : candidates[p] # {}}

(* Nothing counts as inferred in a pass that has not begun. *)
FreshPass == phase \in {"step", "collect"} => inferredInPass = {}

LEMMA FreshPassStarts == Init => FreshPass
BY DEF Init, FreshPass

LEMMA FreshPassStep == FreshPass /\ [Next]_engineVars => FreshPass'
<1> SUFFICES ASSUME FreshPass, [Next]_engineVars PROVE FreshPass'
  OBVIOUS
<1>1. CASE UNCHANGED engineVars
  BY <1>1 DEF FreshPass, engineVars, passVars
<1>2. ASSUME NEW p \in Param, Pick(p) PROVE FreshPass'
  BY <1>2 DEF FreshPass, Pick
<1> QED
  BY <1>1, <1>2 DEF Next, FreshPass, StartStep, Finish, Collect, Skip, EndPass, ClearPass, passVars

(* A lexicographic order as numbers. *)
LEMMA Lexicographic ==
    ASSUME NEW k \in Nat, NEW a \in Nat, NEW b \in Nat, NEW i \in 0..k-1, NEW j \in Nat,
           a < b \/ (a = b /\ i < j)
    PROVE  a * k + i < b * k + j
<1>1. CASE a = b
  BY <1>1
<1>2. CASE a < b
  <2>1. PICK d \in Nat : b = a + 1 + d
    BY <1>2, b - a - 1 \in Nat
  <2>2. b * k = a * k + k + d * k
    BY <2>1
  <2>3. d * k >= 0
    OBVIOUS
  <2>4. a * k \in Nat
    OBVIOUS
  <2> QED
    BY <2>2, <2>3, <2>4
<1> QED
  BY <1>1, <1>2

LEMMA Counts ==
    /\ Cardinality(Param) \in Nat
    /\ IsFiniteSet(Openings) /\ Cardinality(Openings) \in Nat
    /\ IsFiniteSet(WithCandidates)
    /\ Cardinality(WithCandidates) \in 0..Cardinality(Param)
<1>1. Openings \in SUBSET Param /\ WithCandidates \in SUBSET Param
  BY DEF Openings, WithCandidates
<1>2. IsFiniteSet(Openings) /\ IsFiniteSet(WithCandidates)
  BY <1>1, FiniteAssumption, FS_Subset
<1> QED
  BY <1>1, <1>2, FiniteAssumption, FS_CardinalityType, FS_Subset

LEMMA CountsLater ==
    (/\ Cardinality(Openings) \in Nat
     /\ Cardinality(WithCandidates) \in 0..Cardinality(Param))'
<1>1. Cardinality(Openings) \in Nat /\ Cardinality(WithCandidates) \in 0..Cardinality(Param)
  BY Counts
<1> QED
  BY <1>1, PTL

(* The part of StepsLeft below the passes. *)
Within ==
    CASE phase = "step" -> 1
      [] phase = "pick" -> 2 + Cardinality(WithCandidates)
      [] OTHER -> 0

LEMMA StepsLeftParts ==
    ASSUME TypeOK, program \in Programs
    PROVE  /\ PassesLeft \in Nat /\ Within \in 0..Cardinality(Param) + 2
           /\ phase # "done" => StepsLeft = PassesLeft * (Cardinality(Param) + 3) + Within
           /\ phase = "done" => StepsLeft = 0
           /\ StepsLeft \in Nat
<1>1. Len(Steps) \in Nat /\ step \in 0..Len(Steps) /\ phase \in {"step", "collect", "pick", "done"}
      /\ breakCycles \in BOOLEAN
  BY ProgramTyped DEF TypeOK
<1>2. PassesLeft \in Nat
  BY <1>1, Counts DEF PassesLeft
<1>3. Within \in 0..Cardinality(Param) + 2
  BY <1>1, Counts DEF Within
<1>4. phase # "done" => StepsLeft = PassesLeft * (Cardinality(Param) + 3) + Within
  BY <1>1, <1>2, Counts DEF StepsLeft, Within, WithCandidates
<1>5. phase = "done" => StepsLeft = 0
  BY DEF StepsLeft
<1>6. PassesLeft * (Cardinality(Param) + 3) \in Nat
  BY <1>2, Counts
<1> QED
  BY <1>2, <1>3, <1>4, <1>5, <1>6

LEMMA StepsLeftPartsLater ==
    (EngineInv => /\ PassesLeft \in Nat /\ Within \in 0..Cardinality(Param) + 2
                  /\ phase # "done" => StepsLeft = PassesLeft * (Cardinality(Param) + 3) + Within
                  /\ phase = "done" => StepsLeft = 0)'
<1>1. EngineInv => /\ PassesLeft \in Nat /\ Within \in 0..Cardinality(Param) + 2
                   /\ phase # "done" => StepsLeft = PassesLeft * (Cardinality(Param) + 3) + Within
                   /\ phase = "done" => StepsLeft = 0
  BY StepsLeftParts DEF EngineInv
<1> QED
  BY <1>1, PTL

(* Fewer passes, or fewer steps within one. *)
LEMMA FewerLeft ==
    ASSUME EngineInv, EngineInv', phase # "done",
           \/ phase' = "done" /\ Within > 0
           \/ PassesLeft' < PassesLeft
           \/ PassesLeft' = PassesLeft /\ Within' < Within
    PROVE  StepsLeft \in Nat /\ StepsLeft' < StepsLeft
<1> DEFINE k == Cardinality(Param) + 3
<1>1. /\ PassesLeft \in Nat /\ Within \in 0..Cardinality(Param) + 2
      /\ StepsLeft = PassesLeft * k + Within /\ StepsLeft \in Nat
  BY StepsLeftParts DEF EngineInv
<1>2. /\ PassesLeft' \in Nat /\ Within' \in 0..Cardinality(Param) + 2
      /\ phase' # "done" => StepsLeft' = PassesLeft' * k + Within'
      /\ phase' = "done" => StepsLeft' = 0
  BY StepsLeftPartsLater
<1>3. k \in Nat
  BY Counts
<1>4. PassesLeft * k \in Nat
  BY <1>1, <1>3
<1>5. CASE phase' = "done" /\ PassesLeft * k + Within > 0
  BY <1>1, <1>2, <1>5
<1>6. CASE phase' = "done" /\ Within > 0
  <2>1. PassesLeft * k + Within > 0
    BY <1>1, <1>4, <1>6
  <2> QED
    BY <1>5, <1>6, <2>1
<1>7. CASE phase' # "done"
  <2>1. PassesLeft' < PassesLeft \/ (PassesLeft' = PassesLeft /\ Within' < Within)
    BY <1>7
  <2>2. Within' \in 0..k-1
    BY <1>2, Counts
  <2> HIDE DEF k
  <2> PICK a \in Nat : a = PassesLeft'
    BY <1>2
  <2> PICK b \in Nat : b = PassesLeft
    BY <1>1
  <2> PICK i \in 0..k-1 : i = Within'
    BY <2>2
  <2> PICK j \in Nat : j = Within
    BY <1>1
  <2>3. a * k + i < b * k + j
    BY <1>3, <2>1, Lexicographic
  <2> QED
    BY <1>1, <1>2, <1>7, <2>3
<1>8. CASE phase' = "done" /\ PassesLeft' < PassesLeft
  <2>1. PassesLeft >= 1 /\ k >= 1
    BY <1>1, <1>2, <1>8, Counts
  <2>2. PassesLeft * k >= 1
    BY <1>1, <1>3, <2>1
  <2> QED
    BY <1>1, <1>4, <1>5, <1>8, <2>2
<1> QED
  BY <1>1, <1>2, <1>6, <1>7, <1>8

LEMMA StartStepLeaves ==
    ASSUME EngineInv, FreshPass, StartStep
    PROVE  PassesLeft' = PassesLeft /\ Within' < Within
<1>1. /\ Cardinality(Openings)' = Cardinality(Openings) /\ Len(Steps)' = Len(Steps)
      /\ step' = step + 1
  BY DEF StartStep, Openings, Steps, config
<1>2. step \in Nat /\ Len(Steps) \in Nat /\ Cardinality(Openings) \in Nat
  BY ProgramTyped, Counts DEF EngineInv, TypeOK
<1>3. phase = "step" /\ phase' = "collect" /\ breakCycles' = FALSE
  BY DEF StartStep
<1> HIDE DEF StartStep
<1>4. PassesLeft' = PassesLeft
  BY <1>1, <1>2, <1>3 DEF PassesLeft
<1> QED
  BY <1>3, <1>4 DEF Within

LEMMA CollectLeaves ==
    ASSUME EngineInv, FreshPass, Collect
    PROVE  PassesLeft' < PassesLeft
<1>1. /\ Cardinality(Openings)' = Cardinality(Openings) /\ Len(Steps)' = Len(Steps)
      /\ step' = step
  BY DEF Collect, Openings, Steps, config
<1>2. step \in Nat /\ Len(Steps) \in Nat /\ Cardinality(Openings) \in Nat
  BY ProgramTyped, Counts DEF EngineInv, TypeOK
<1>3. /\ phase = "collect" /\ phase' = "pick" /\ breakCycles' = breakCycles
      /\ inferredInPass' = {}
  BY DEF Collect, FreshPass
<1> QED
  BY <1>1, <1>2, <1>3 DEF PassesLeft

LEMMA EndPassLeaves ==
    ASSUME EngineInv, EngineInv', EndPass
    PROVE  PassesLeft' < PassesLeft \/ (PassesLeft' = PassesLeft /\ Within' < Within)
<1>1. /\ Cardinality(Openings)' = Cardinality(Openings) /\ Len(Steps)' = Len(Steps)
      /\ step' = step
  BY DEF EndPass, Openings, Steps, config
<1>2. step \in Nat /\ Len(Steps) \in Nat /\ Cardinality(Openings) \in Nat
  BY ProgramTyped, Counts DEF EngineInv, TypeOK
<1>3. /\ phase = "pick" /\ breakCycles \in BOOLEAN
      /\ \/ phase' = "step"
         \/ phase' = "collect" /\ breakCycles' = TRUE /\ breakCycles = FALSE /\ inferredInPass = {}
         \/ phase' = "collect" /\ breakCycles' = FALSE /\ inferredInPass # {}
  BY DEF EndPass, EngineInv, TypeOK
<1>4. phase' = "step" => inferredInPass = {}
  BY DEF EndPass
<1>5. Within >= 2 /\ Within' <= 1
  BY <1>3, Counts DEF Within
<1>6. PassesLeft' <= PassesLeft
  BY <1>1, <1>2, <1>3, <1>4 DEF PassesLeft
<1>7. PassesLeft \in Nat /\ PassesLeft' \in Nat /\ Within \in Nat /\ Within' \in Nat
  BY StepsLeftParts, StepsLeftPartsLater, Counts DEF EngineInv
<1> QED
  BY <1>5, <1>6, <1>7

LEMMA SkipLeaves ==
    ASSUME EngineInv, NEW p \in Param, Skip(p)
    PROVE  PassesLeft' = PassesLeft /\ Within' < Within
<1>1. WithCandidates' = WithCandidates \ {p} /\ p \in WithCandidates
  BY DEF WithCandidates, Skip, EngineInv, TypeOK
<1>2. Cardinality(WithCandidates)' = Cardinality(WithCandidates) - 1
  BY <1>1, Counts, FS_RemoveElement
<1>3. phase = "pick" /\ phase' = "pick"
  BY DEF Skip
<1>4. Within' < Within
  BY <1>2, <1>3, Counts DEF Within
<1>5. PassesLeft' = PassesLeft
  BY DEF Skip, PassesLeft, Openings, Steps, config
<1> QED
  BY <1>4, <1>5

LEMMA PickLeaves ==
    ASSUME EngineInv, NEW p \in Param, Pick(p)
    PROVE  \/ phase' = "done" /\ Within > 0
           \/ PassesLeft' < PassesLeft
           \/ PassesLeft' = PassesLeft /\ Within' < Within
<1>1. phase = "pick" /\ Within >= 2
  BY Counts DEF Pick, Within
<1>2. CASE phase' = "done"
  BY <1>1, <1>2, Counts DEF Within
<1>3. CASE phase' # "done"
  <2>1. PICK v : inferred' = [inferred EXCEPT ![p] = v] /\ v # Open /\ inferred[p] = Open
    BY PickNarrows DEF Narrows
  <2>2. Openings' = Openings \ {p} /\ p \in Openings
    BY <2>1 DEF Openings, EngineInv, TypeOK
  <2>3. Cardinality(Openings)' = Cardinality(Openings) - 1
    BY <2>2, Counts, FS_RemoveElement
  <2>4. /\ candidates' = [candidates EXCEPT ![p] = {}] /\ phase' = "pick"
        /\ inferredInPass' # {}
    BY <1>1, <1>3 DEF Pick
  <2>5. WithCandidates' = WithCandidates \ {p} /\ p \in WithCandidates
    BY <2>4 DEF WithCandidates, Pick, EngineInv, TypeOK
  <2>6. Cardinality(WithCandidates)' = Cardinality(WithCandidates) - 1
    BY <2>5, Counts, FS_RemoveElement
  <2>7. Within' < Within
    BY <1>1, <2>4, <2>6, Counts DEF Within
  <2>8. step' = step /\ Len(Steps)' = Len(Steps)
    BY DEF Pick, Steps, config
  <2>9. step \in Nat /\ Len(Steps) \in Nat /\ Cardinality(Openings) \in Nat
    BY ProgramTyped, Counts DEF EngineInv, TypeOK
  <2>10. PassesLeft' <= PassesLeft /\ PassesLeft' \in Int /\ PassesLeft \in Int
    BY <1>1, <2>3, <2>4, <2>8, <2>9 DEF PassesLeft
  <2> QED
    BY <2>7, <2>10
<1> QED
  BY <1>2, <1>3

(* Every step of the engine brings its end closer, for every program, configuration
   and order of picks. *)
THEOREM EveryStepCounts == Spec => EndComesCloser
<1>1. EngineInv /\ EngineInv' /\ FreshPass /\ [Next]_engineVars
        => [(StepsLeft \in Nat) /\ (StepsLeft' < StepsLeft)]_engineVars
  <2> SUFFICES ASSUME EngineInv, EngineInv', FreshPass, Next
               PROVE  StepsLeft \in Nat /\ StepsLeft' < StepsLeft
    OBVIOUS
  <2>1. phase # "done"
    BY DEF Next, StartStep, Finish, Collect, Pick, Skip, EndPass
  <2>2. CASE Finish
    <3>1. phase' = "done" /\ Within > 0
      BY <2>2 DEF Finish, Within
    <3> QED
      BY <2>1, <3>1, FewerLeft
  <2>3. CASE ~Finish
    <3>1. \/ phase' = "done" /\ Within > 0
          \/ PassesLeft' < PassesLeft
          \/ PassesLeft' = PassesLeft /\ Within' < Within
      BY <2>3, StartStepLeaves, CollectLeaves, PickLeaves, SkipLeaves, EndPassLeaves DEF Next
    <3> QED
      BY <2>1, <3>1, FewerLeft
  <2> QED
    BY <2>2, <2>3
<1> QED
  BY <1>1, FreshPassStarts, FreshPassStep, EngineInvariant, PTL DEF Spec, EndComesCloser

=============================================================================
