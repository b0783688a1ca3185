-------------------------- MODULE NodeGraphProofs ---------------------------
(***************************************************************************)
(* The node graph keeps its structure for every set of indices, signatures *)
(* and edges.  The inductive invariant is the conjunction GraphInv:        *)
(* remove_node looks only at the children index, so that no removal leaves *)
(* a dangling parent (ParentsLive) needs the index to mirror the parent    *)
(* fields (ChildrenMirror); that a new node closes no loop needs that no   *)
(* node in use points at a free index (ParentsLive again).                 *)
(***************************************************************************)
EXTENDS NodeGraph, FiniteSetTheorems, FunctionTheorems, TLAPS

-----------------------------------------------------------------------------
(***************************************************************************)
(* Parent links: facts that hold for every set of indices.                 *)
(***************************************************************************)
(* A walk passes through its own start. *)
LEMMA ReachesItself ==
    ASSUME NEW up, NEW a \in Index
    PROVE  Reaches(up, a, a)
BY DEF Reaches

(* What is reached from a is in every closed set around a: how a walk is shown
   to miss a node. *)
LEMMA ReachStaysInside ==
    ASSUME NEW up, NEW C \in SUBSET Index, UpClosed(up, C),
           NEW a \in C, NEW b, Reaches(up, a, b)
    PROVE  b \in C
BY DEF Reaches

(* A walk that passes through m goes on to m's parent. *)
LEMMA ReachGoesOn ==
    ASSUME NEW up \in ParentFunctions, NEW a \in Index, NEW m \in Index,
           Reaches(up, a, m), up[m] # NoNode
    PROVE  Reaches(up, a, up[m])
BY DEF Reaches, UpClosed, ParentFunctions

(* A walk from m to another node starts with the step to m's parent. *)
LEMMA ReachStartsUp ==
    ASSUME NEW up \in ParentFunctions, NEW m \in Index, NEW n \in Index,
           Reaches(up, m, n), m # n
    PROVE  up[m] \in Index /\ Reaches(up, up[m], n)
<1>1. up[m] # NoNode
  <2>1. SUFFICES ASSUME up[m] = NoNode PROVE FALSE
    OBVIOUS
  <2>2. UpClosed(up, {m})
    BY <2>1 DEF UpClosed
  <2>3. n \in {m}
    BY <2>2, ReachStaysInside, {m} \in SUBSET Index
  <2> QED
    BY <2>3
<1>2. up[m] \in Index
  BY <1>1 DEF ParentFunctions
<1>3. SUFFICES ASSUME NEW C \in SUBSET Index, up[m] \in C, UpClosed(up, C)
               PROVE  n \in C
  BY <1>2 DEF Reaches
<1>4. UpClosed(up, C \cup {m})
  BY <1>3 DEF UpClosed
<1>5. C \cup {m} \in SUBSET Index
  OBVIOUS
<1>6. n \in C \cup {m}
  BY <1>4, <1>5, ReachStaysInside
<1> QED
  BY <1>2, <1>6

(* The walk from a visits an upward closed set. *)
LEMMA ChainUpClosed ==
    ASSUME NEW up \in ParentFunctions, NEW a \in Index
    PROVE  UpClosed(up, Chain(up, a))
BY ReachGoesOn DEF UpClosed, Chain, ParentFunctions

(* A walk passes through its start and what the walk from the parent passes through. *)
LEMMA ChainOfParent ==
    ASSUME NEW up \in ParentFunctions, NEW a \in Index
    PROVE  Chain(up, a) = {a} \cup (IF up[a] = NoNode THEN {} ELSE Chain(up, up[a]))
<1> DEFINE rest == IF up[a] = NoNode THEN {} ELSE Chain(up, up[a])
<1>1. up[a] # NoNode => up[a] \in Index
  BY DEF ParentFunctions
<1>2. Chain(up, a) \subseteq {a} \cup rest
  <2>1. UpClosed(up, {a} \cup rest)
    BY <1>1, ChainUpClosed, ReachesItself DEF UpClosed, Chain
  <2>2. {a} \cup rest \in SUBSET Index
    BY DEF Chain
  <2> QED
    BY <2>1, <2>2, ReachStaysInside DEF Chain
<1>3. rest \subseteq Chain(up, a)
  <2> SUFFICES ASSUME up[a] # NoNode, NEW b \in Chain(up, up[a])
               PROVE  b \in Chain(up, a)
    OBVIOUS
  <2>1. up[a] \in Chain(up, a)
    BY <1>1, ReachesItself, ReachGoesOn DEF Chain
  <2>2. Chain(up, a) \in SUBSET Index /\ UpClosed(up, Chain(up, a))
    BY ChainUpClosed DEF Chain
  <2>3. Reaches(up, up[a], b) /\ b \in Index
    BY DEF Chain
  <2> QED
    BY <2>1, <2>2, <2>3, ReachStaysInside
<1>4. a \in Chain(up, a)
  BY ReachesItself DEF Chain
<1> QED
  BY <1>2, <1>3, <1>4

(* A walk does not change if no node on it gets another parent. *)
LEMMA ChainUnchanged ==
    ASSUME NEW up \in ParentFunctions, NEW new \in ParentFunctions, NEW a \in Index,
           \A m \in Chain(up, a) : new[m] = up[m]
    PROVE  Chain(new, a) = Chain(up, a)
<1>1. Chain(new, a) \subseteq Chain(up, a)
  <2>1. UpClosed(new, Chain(up, a))
    BY ChainUpClosed DEF UpClosed
  <2>2. a \in Chain(up, a) /\ Chain(up, a) \in SUBSET Index
    BY ReachesItself DEF Chain
  <2> QED
    BY <2>1, <2>2, ReachStaysInside DEF Chain
<1>2. Chain(up, a) \subseteq Chain(new, a)
  <2>1. UpClosed(up, Chain(new, a))
    BY <1>1, ChainUpClosed DEF UpClosed
  <2>2. a \in Chain(new, a) /\ Chain(new, a) \in SUBSET Index
    BY ReachesItself DEF Chain
  <2> QED
    BY <2>1, <2>2, ReachStaysInside DEF Chain
<1> QED
  BY <1>1, <1>2

(* Among any nodes of a forest, finitely many or not, one has none of the others
   above it: otherwise every node below one of them had its parent below one. *)
LEMMA TopmostExists ==
    ASSUME NEW up \in ParentFunctions, Acyclic(up), NEW A \in SUBSET Index, A # {}
    PROVE  \E a \in A : \A b \in A : Reaches(up, a, b) => b = a
<1> DEFINE below == {x \in Index : \E b \in A : Reaches(up, x, b)}
<1>1. SUFFICES ASSUME \A a \in A : \E b \in A : Reaches(up, a, b) /\ b # a
               PROVE  FALSE
  OBVIOUS
<1>2. ASSUME NEW x \in below
      PROVE  up[x] \in below
  <2>1. PICK b \in A : Reaches(up, x, b)
    OBVIOUS
  <2>2. PICK c \in A : Reaches(up, x, c) /\ c # x
    BY <1>1, <2>1
  <2> QED
    BY <2>2, ReachStartsUp
<1>3. below \in SUBSET Index /\ below # {}
  BY ReachesItself
<1> HIDE DEF below
<1> QED
  BY <1>2, <1>3 DEF Acyclic

(* Among finitely many nodes of a forest, one is no parent of the others: if each
   had a child, choosing one would be an injection of the nodes into themselves, so
   each would be a chosen child, with its parent among the nodes. *)
LEMMA LeafExists ==
    ASSUME NEW up \in ParentFunctions, Acyclic(up),
           NEW S \in SUBSET Index, IsFiniteSet(S), S # {}
    PROVE  \E n \in S : \A m \in S : up[m] # n
<1>1. SUFFICES ASSUME \A n \in S : \E m \in S : up[m] = n
               PROVE  FALSE
  OBVIOUS
<1> DEFINE child == [n \in S |-> CHOOSE m \in S : up[m] = n]
<1>2. \A n \in S : child[n] \in S /\ up[child[n]] = n
  BY <1>1
<1> HIDE DEF child
<1>3. child \in Injection(S, S)
  <2>1. child \in [S -> S]
    BY <1>2 DEF child
  <2>2. \A a, b \in S : child[a] = child[b] => a = b
    BY <1>2
  <2> QED
    BY <2>1, <2>2, Fun_IsInj
<1>4. child \in Surjection(S, S)
  BY <1>3, FS_Injection
<1>5. \A m \in S : \E n \in S : child[n] = m
  BY <1>4 DEF Surjection
<1>6. \A m \in S : up[m] \in S
  BY <1>2, <1>5
<1> QED
  BY <1>6 DEF Acyclic

(* Without a parent of its own a node cannot close a loop. *)
LEMMA DetachKeepsAcyclic ==
    ASSUME NEW up \in ParentFunctions, Acyclic(up), NEW n \in Index
    PROVE  Acyclic([up EXCEPT ![n] = NoNode])
<1> DEFINE new == [up EXCEPT ![n] = NoNode]
<1>1. SUFFICES ASSUME NEW S \in SUBSET Index, S # {}
               PROVE  \E m \in S : new[m] \notin S
  BY DEF Acyclic
<1>2. CASE n \in S
  <2>1. new[n] \notin S
    BY NoNodeAssumption DEF ParentFunctions
  <2> QED
    BY <1>2, <2>1
<1>3. CASE n \notin S
  <2>1. PICK m \in S : up[m] \notin S
    BY <1>1 DEF Acyclic
  <2>2. new[m] = up[m]
    BY <1>3, <2>1 DEF ParentFunctions
  <2> QED
    BY <2>1, <2>2
<1> QED
  BY <1>2, <1>3

(* Hanging n below p keeps the links acyclic if the walk from p misses n. *)
LEMMA AttachKeepsAcyclic ==
    ASSUME NEW up \in ParentFunctions, Acyclic(up),
           NEW n \in Index, NEW p \in Index, ~Reaches(up, p, n)
    PROVE  Acyclic([up EXCEPT ![n] = p])
<1> DEFINE new == [up EXCEPT ![n] = p]
<1>1. PICK C \in SUBSET Index : p \in C /\ UpClosed(up, C) /\ n \notin C
  BY DEF Reaches
<1>2. SUFFICES ASSUME NEW S \in SUBSET Index, S # {}
               PROVE  \E m \in S : new[m] \notin S
  BY DEF Acyclic
<1>3. CASE S \cap C # {}
  <2>1. PICK m \in S \cap C : up[m] \notin S \cap C
    BY <1>3 DEF Acyclic
  <2>2. up[m] \notin S
    BY <1>1, <2>1, NoNodeAssumption DEF UpClosed
  <2>3. new[m] = up[m]
    BY <1>1, <2>1 DEF ParentFunctions
  <2> QED
    BY <2>1, <2>2, <2>3
<1>4. CASE S \cap C = {}
  <2>1. PICK m \in S : up[m] \notin S
    BY <1>2 DEF Acyclic
  <2>2. new[m] = IF m = n THEN p ELSE up[m]
    BY DEF ParentFunctions
  <2> QED
    BY <1>1, <1>4, <2>1, <2>2
<1> QED
  BY <1>3, <1>4

(* Hanging n below p closes a loop if the walk from p passes through n: the
   nodes between p and n, both included, all have their new parent among them. *)
LEMMA AttachClosesLoop ==
    ASSUME NEW up \in ParentFunctions,
           NEW n \in Index, NEW p \in Index, Reaches(up, p, n)
    PROVE  ~Acyclic([up EXCEPT ![n] = p])
<1> DEFINE new == [up EXCEPT ![n] = p]
           loop == {m \in Index : Reaches(up, p, m) /\ Reaches(up, m, n)}
<1>1. p \in loop
  BY ReachesItself
<1>2. ASSUME NEW m \in loop
      PROVE  new[m] \in loop
  <2>1. CASE m = n
    BY <1>1, <2>1 DEF ParentFunctions
  <2>2. CASE m # n
    <3>1. up[m] \in Index /\ Reaches(up, up[m], n)
      BY <1>2, <2>2, ReachStartsUp
    <3>2. Reaches(up, p, up[m])
      BY <1>2, <3>1, ReachGoesOn, NoNodeAssumption
    <3>3. new[m] = up[m]
      BY <2>2 DEF ParentFunctions
    <3> QED
      BY <3>1, <3>2, <3>3
  <2> QED
    BY <2>1, <2>2
<1>3. loop \in SUBSET Index /\ loop # {}
  BY <1>1
<1>4. ~ \E m \in loop : new[m] \notin loop
  BY <1>2
<1> HIDE DEF loop, new
<1> QED
  BY <1>3, <1>4 DEF Acyclic, new

(* The cycle walk is exact: it finds n on the way up from p if and only if
   making p the parent of n would destroy the forest. *)
THEOREM CycleWalkExact ==
    ASSUME NEW up \in ParentFunctions, Acyclic(up), NEW n \in Index, NEW p \in Index
    PROVE  Reaches(up, p, n) <=> ~Acyclic([up EXCEPT ![n] = p])
BY AttachKeepsAcyclic, AttachClosesLoop

-----------------------------------------------------------------------------
(***************************************************************************)
(* The graph.                                                              *)
(***************************************************************************)
GraphInv == TypeOK /\ Forest /\ ParentsLive /\ ChildrenMirror /\ EdgesLive

-----------------------------------------------------------------------------
(* The walk from a node in use misses every free index. *)
LEMMA FreeIndexUnreached ==
    ASSUME TypeOK, ParentsLive, NEW p \in live, NEW n \in Index \ live
    PROVE  ~Reaches(parent, p, n)
<1>1. UpClosed(parent, live)
  BY DEF UpClosed, ParentsLive
<1>2. live \in SUBSET Index
  BY DEF TypeOK
<1> QED
  BY <1>1, <1>2, ReachStaysInside

(* The initial graph is empty. *)
LEMMA InitGraph == Init => GraphInv
<1> SUFFICES ASSUME Init PROVE GraphInv
  OBVIOUS
<1>1. TypeOK
  BY DEF Init, TypeOK, ParentFunctions, SignatureShape, EmptySignature, Outcomes
<1>2. Forest
  BY NoNodeAssumption DEF Init, Forest, Acyclic
<1>3. ParentsLive /\ ChildrenMirror /\ EdgesLive
  BY NoNodeAssumption DEF Init, ParentsLive, ChildrenMirror, EdgesLive
<1> QED
  BY <1>1, <1>2, <1>3 DEF GraphInv

-----------------------------------------------------------------------------
(* Adding a node keeps the structure. *)
LEMMA AddNodeKeepsGraph ==
    ASSUME GraphInv, NEW s \in Signatures, NEW p \in Index \cup {NoNode}, AddNode(s, p)
    PROVE  GraphInv'
<1> USE DEF GraphInv
<1>1. result' \in Outcomes
  BY DEF AddNode, AddNodeResult, Outcomes
<1>2. CASE UNCHANGED graph
  BY <1>1, <1>2 DEF graph, TypeOK, Forest, ParentsLive, ChildrenMirror, EdgesLive
<1>3. CASE result' = "Ok" /\ AddNodeOk(s, p)
  <2>1. PICK n \in Index \ live :
          /\ live' = live \cup {n}
          /\ parent' = [parent EXCEPT ![n] = p]
          /\ sig' = [sig EXCEPT ![n] = s]
          /\ children' = Register(children, p, n)
          /\ UNCHANGED edges
    BY <1>3 DEF AddNodeOk
  <2>2. p \in live \cup {NoNode}
    BY <1>3 DEF AddNode, AddNodeResult
  <2>3. TypeOK'
    BY <1>1, <2>1, SignaturesAssumption
       DEF TypeOK, ParentFunctions, Register, SignatureShape
  <2>4. Forest'
    <3>1. CASE p = NoNode
      BY <2>1, <3>1, DetachKeepsAcyclic DEF Forest, TypeOK
    <3>2. CASE p \in live
      BY <2>1, <3>2, AttachKeepsAcyclic, FreeIndexUnreached DEF Forest, TypeOK
    <3> QED
      BY <2>2, <3>1, <3>2
  <2>5. ParentsLive'
    BY <2>1, <2>2 DEF ParentsLive, TypeOK, ParentFunctions
  <2>6. ChildrenMirror'
    <3>1. \A m \in Index : parent'[m] = IF m = n THEN p ELSE parent[m]
      BY <2>1 DEF TypeOK, ParentFunctions
    <3>2. ASSUME NEW q \in Index
          PROVE  children'[q] = {m \in live' : parent'[m] = q}
      <4>1. children'[q] = children[q] \cup (IF q = p THEN {n} ELSE {})
        BY <2>1 DEF TypeOK, Register
      <4>2. children[q] = {m \in live : parent[m] = q}
        BY DEF ChildrenMirror
      <4>3. live \subseteq Index
        BY DEF TypeOK
      <4> QED
        BY <2>1, <3>1, <4>1, <4>2, <4>3
    <3> QED
      BY <3>2 DEF ChildrenMirror
  <2>7. EdgesLive'
    BY <2>1 DEF EdgesLive
  <2> QED
    BY <2>3, <2>4, <2>5, <2>6, <2>7
<1> QED
  BY <1>2, <1>3 DEF AddNode

(* Updating a node, its parent included, keeps the structure. *)
LEMMA UpdateNodeKeepsGraph ==
    ASSUME GraphInv, NEW n \in Index, NEW s \in Signatures,
           NEW p \in Index \cup {NoNode}, UpdateNode(n, s, p)
    PROVE  GraphInv'
<1> USE DEF GraphInv
<1>1. result' \in Outcomes
  BY DEF UpdateNode, UpdateNodeResult, Outcomes
<1>2. CASE UNCHANGED graph
  BY <1>1, <1>2 DEF graph, TypeOK, Forest, ParentsLive, ChildrenMirror, EdgesLive
<1>3. CASE result' = "Ok" /\ UpdateNodeOk(n, s, p)
  <2>1. /\ n \in live
        /\ p \in live \cup {NoNode}
        /\ p # NoNode => ~Reaches(parent, p, n)
    BY <1>3 DEF UpdateNode, UpdateNodeResult, WouldCreateCycle
  <2>2. /\ live' = live
        /\ parent' = [parent EXCEPT ![n] = p]
        /\ sig' = [sig EXCEPT ![n] = s]
        /\ children' = Register(Unregister(children, parent[n], n), p, n)
        /\ edges' = edges
    BY <1>3 DEF UpdateNodeOk
  <2>3. TypeOK'
    BY <1>1, <2>2, SignaturesAssumption
       DEF TypeOK, ParentFunctions, Register, Unregister, SignatureShape
  <2>4. Forest'
    <3>1. CASE p = NoNode
      BY <2>2, <3>1, DetachKeepsAcyclic DEF Forest, TypeOK
    <3>2. CASE p # NoNode
      BY <2>1, <2>2, <3>2, AttachKeepsAcyclic DEF Forest, TypeOK
    <3> QED
      BY <3>1, <3>2
  <2>5. ParentsLive'
    BY <2>1, <2>2 DEF ParentsLive, TypeOK, ParentFunctions
  <2>6. ChildrenMirror'
    <3>1. \A m \in Index : parent'[m] = IF m = n THEN p ELSE parent[m]
      BY <2>2 DEF TypeOK, ParentFunctions
    <3>2. ASSUME NEW q \in Index
          PROVE  children'[q] = (children[q] \ (IF q = parent[n] THEN {n} ELSE {}))
                                    \cup (IF q = p THEN {n} ELSE {})
      BY <2>2 DEF TypeOK, Register, Unregister
    <3> QED
      BY <2>1, <2>2, <3>1, <3>2 DEF ChildrenMirror, TypeOK
  <2>7. EdgesLive'
    BY <2>2 DEF EdgesLive
  <2> QED
    BY <2>3, <2>4, <2>5, <2>6, <2>7
<1> QED
  BY <1>2, <1>3 DEF UpdateNode

(* Removing a node keeps the structure. *)
LEMMA RemoveNodeKeepsGraph ==
    ASSUME GraphInv, NEW n \in Index, RemoveNode(n)
    PROVE  GraphInv'
<1> USE DEF GraphInv
<1>1. result' \in Outcomes
  BY DEF RemoveNode, RemoveNodeResult, Outcomes
<1>2. CASE UNCHANGED graph
  BY <1>1, <1>2 DEF graph, TypeOK, Forest, ParentsLive, ChildrenMirror, EdgesLive
<1>3. CASE result' = "Ok" /\ RemoveNodeOk(n)
  <2>1. \A m \in live : parent[m] # n
    BY <1>3 DEF RemoveNode, RemoveNodeResult, ChildrenMirror
  <2>2. /\ live' = live \ {n}
        /\ parent' = [parent EXCEPT ![n] = NoNode]
        /\ sig' = [sig EXCEPT ![n] = EmptySignature]
        /\ children' = [Unregister(children, parent[n], n) EXCEPT ![n] = {}]
        /\ edges' = DropEdgesOf(n)
    BY <1>3 DEF RemoveNodeOk
  <2>3. TypeOK'
    BY <1>1, <2>2
       DEF TypeOK, ParentFunctions, Unregister, SignatureShape, EmptySignature, DropEdgesOf
  <2>4. Forest'
    BY <2>2, DetachKeepsAcyclic DEF Forest, TypeOK
  <2>5. ParentsLive'
    BY <2>1, <2>2 DEF ParentsLive, TypeOK, ParentFunctions
  <2>6. ChildrenMirror'
    <3>1. \A m \in Index : parent'[m] = IF m = n THEN NoNode ELSE parent[m]
      BY <2>2 DEF TypeOK, ParentFunctions
    <3>2. ASSUME NEW q \in Index
          PROVE  children'[q] = {m \in live' : parent'[m] = q}
      <4>1. children[q] = {m \in live : parent[m] = q}
        BY DEF ChildrenMirror
      <4>2. live \subseteq Index
        BY DEF TypeOK
      <4>3. CASE q = n
        <5>1. children'[q] = {}
          BY <2>2, <4>3 DEF TypeOK, Unregister
        <5> QED
          BY <2>1, <2>2, <3>1, <4>2, <4>3, <5>1
      <4>4. CASE q # n
        <5>1. children'[q] = children[q] \ (IF q = parent[n] THEN {n} ELSE {})
          BY <2>2, <4>4 DEF TypeOK, Unregister
        <5> QED
          BY <2>2, <3>1, <4>1, <4>2, <5>1
      <4> QED
        BY <4>3, <4>4
    <3> QED
      BY <3>2 DEF ChildrenMirror
  <2>7. EdgesLive'
    BY <2>2 DEF EdgesLive, DropEdgesOf
  <2> QED
    BY <2>3, <2>4, <2>5, <2>6, <2>7
<1> QED
  BY <1>2, <1>3 DEF RemoveNode

(* Edge calls touch nothing but the edges. *)
LEMMA EdgeCallsKeepGraph ==
    ASSUME GraphInv,
           \/ \E s \in Index, t \in Index : AddEdge(s, t)
           \/ \E e \in EdgeIndex : RemoveEdge(e)
    PROVE  GraphInv'
<1> USE DEF GraphInv
<1>1. CASE UNCHANGED graph /\ result' \in Outcomes
  BY <1>1 DEF graph, TypeOK, Forest, ParentsLive, ChildrenMirror, EdgesLive
<1>2. ASSUME NEW s \in Index, NEW t \in Index, AddEdge(s, t)
      PROVE  GraphInv'
  <2>1. result' \in Outcomes
    BY <1>2 DEF AddEdge, AddEdgeResult, Outcomes
  <2>2. CASE result' = "Ok" /\ AddEdgeOk(s, t)
    <3>1. PICK e \in EdgeIndex : edges' = [edges EXCEPT ![e] = <<s, t>>]
      BY <2>2 DEF AddEdgeOk
    <3>2. UNCHANGED <<live, parent, sig, children>>
      BY <2>2 DEF AddEdgeOk
    <3>3. s \in live /\ t \in live
      BY <1>2, <2>2 DEF AddEdge, AddEdgeResult
    <3>4. TypeOK'
      BY <2>1, <3>1, <3>2 DEF TypeOK
    <3>5. EdgesLive'
      BY <3>1, <3>2, <3>3 DEF EdgesLive, TypeOK
    <3> QED
      BY <3>2, <3>4, <3>5 DEF Forest, ParentsLive, ChildrenMirror
  <2> QED
    BY <1>1, <1>2, <2>1, <2>2 DEF AddEdge
<1>3. ASSUME NEW e \in EdgeIndex, RemoveEdge(e)
      PROVE  GraphInv'
  <2>1. result' \in Outcomes
    BY <1>3 DEF RemoveEdge, RemoveEdgeResult, Outcomes
  <2>2. edges' = [edges EXCEPT ![e] = NoEdge] /\ UNCHANGED <<live, parent, sig, children>>
    BY <1>3 DEF RemoveEdge
  <2>3. TypeOK' /\ EdgesLive'
    BY <2>1, <2>2 DEF TypeOK, EdgesLive
  <2> QED
    BY <2>2, <2>3 DEF Forest, ParentsLive, ChildrenMirror
<1> QED
  BY <1>2, <1>3

(* The structure is inductive. *)
LEMMA NextKeepsGraph == GraphInv /\ [Next]_vars => GraphInv'
<1> SUFFICES ASSUME GraphInv, [Next]_vars PROVE GraphInv'
  OBVIOUS
<1>1. CASE Next
  BY <1>1, AddNodeKeepsGraph, UpdateNodeKeepsGraph, RemoveNodeKeepsGraph,
     EdgeCallsKeepGraph DEF Next
<1>2. CASE UNCHANGED vars
  BY <1>2 DEF GraphInv, vars, TypeOK, Forest, ParentsLive, ChildrenMirror, EdgesLive
<1> QED
  BY <1>1, <1>2

-----------------------------------------------------------------------------
(* Every variable keeps its type, whatever calls a client makes. *)
THEOREM TypeCorrect == Spec => []TypeOK
<1>1. GraphInv => TypeOK
  BY DEF GraphInv
<1> QED
  BY <1>1, InitGraph, NextKeepsGraph, PTL DEF Spec

(* The parent links of the node graph never form a cycle, neither a parent link
   nor an edge points at a removed node, and the children index mirrors the parent
   fields, whatever calls a client makes in whatever order. *)
THEOREM GraphStructure == Spec => [](Forest /\ NothingDangles /\ ChildrenMirror)
<1>1. GraphInv => Forest /\ NothingDangles /\ ChildrenMirror
  BY DEF GraphInv, NothingDangles
<1> QED
  BY <1>1, InitGraph, NextKeepsGraph, PTL DEF Spec

(* In every reachable graph would_create_cycle refuses exactly the moves that
   would close a loop: none too few, and none too many. *)
THEOREM CycleCheckIsExact == Spec => []CycleCheckExact
<1>1. GraphInv => CycleCheckExact
  BY CycleWalkExact DEF GraphInv, TypeOK, Forest, CycleCheckExact, WouldCreateCycle
<1> QED
  BY <1>1, InitGraph, NextKeepsGraph, PTL DEF Spec

(* There are only ever finitely many nodes. *)
LiveIsFinite == IsFiniteSet(live)

LEMMA LiveFinite == Spec => []LiveIsFinite
<1> USE DEF LiveIsFinite
<1>1. Init => LiveIsFinite
  BY FS_EmptySet DEF Init
<1>2. LiveIsFinite /\ [Next]_vars => LiveIsFinite'
  <2> SUFFICES ASSUME LiveIsFinite, [Next]_vars PROVE IsFiniteSet(live')
    OBVIOUS
  <2>1. live' = live \/ \E n \in Index : live' = live \cup {n} \/ live' = live \ {n}
    BY DEF Next, vars, graph, AddNode, AddNodeOk, UpdateNode, UpdateNodeOk, RemoveNode, RemoveNodeOk,
           AddEdge, AddEdgeOk, RemoveEdge
  <2> QED
    BY <2>1, FS_AddElement, FS_RemoveElement
<1> HIDE DEF LiveIsFinite
<1> QED
  BY <1>1, <1>2, PTL DEF Spec

(* A graph can always be taken apart: remove_node, which refuses nodes with
   children, succeeds for some node as long as there is one. *)
THEOREM GraphCanBeTakenApart == Spec => []SomeNodeRemovable
<1>1. GraphInv /\ LiveIsFinite => SomeNodeRemovable
  <2> SUFFICES ASSUME GraphInv, IsFiniteSet(live), live # {}
               PROVE  \E n \in live : RemoveNodeResult(n) = "Ok"
    BY DEF SomeNodeRemovable, LiveIsFinite
  <2>1. PICK n \in live : \A m \in live : parent[m] # n
    BY LeafExists DEF GraphInv, TypeOK, Forest
  <2>2. children[n] = {}
    BY <2>1 DEF GraphInv, TypeOK, ChildrenMirror
  <2> QED
    BY <2>2 DEF RemoveNodeResult
<1> QED
  BY <1>1, InitGraph, NextKeepsGraph, LiveFinite, PTL DEF Spec

-----------------------------------------------------------------------------
(* Seen through `live` and `parent`, every call of the node graph is a step of
   the forest that NodeForest promises, or no step at all. *)
LEMMA StepsRefineForest == GraphInv /\ [Next]_vars => [Forests!Next]_(Forests!forestVars)
<1> SUFFICES ASSUME GraphInv, [Next]_vars PROVE [Forests!Next]_(Forests!forestVars)
  OBVIOUS
<1> USE DEF GraphInv
<1>1. CASE UNCHANGED <<live, parent>>
  BY <1>1 DEF Forests!forestVars
<1>2. ASSUME NEW s \in Signatures, NEW p \in Index \cup {NoNode}, AddNode(s, p)
      PROVE  Forests!Next \/ UNCHANGED <<live, parent>>
  <2>1. CASE result' = "Ok" /\ AddNodeOk(s, p)
    <3>1. PICK n \in Index \ live : live' = live \cup {n} /\ parent' = [parent EXCEPT ![n] = p]
      BY <2>1 DEF AddNodeOk
    <3>2. p \in live \cup {NoNode}
      BY <1>2, <2>1 DEF AddNode, AddNodeResult
    <3>3. Forests!Plant(n, p)
      BY <3>1, <3>2 DEF Forests!Plant
    <3> QED
      BY <3>3 DEF Forests!Next
  <2> QED
    BY <1>2, <2>1 DEF AddNode, graph
<1>3. ASSUME NEW n \in Index, NEW s \in Signatures, NEW p \in Index \cup {NoNode},
             UpdateNode(n, s, p)
      PROVE  Forests!Next \/ UNCHANGED <<live, parent>>
  <2>1. CASE result' = "Ok" /\ UpdateNodeOk(n, s, p)
    <3>1. n \in live /\ p \in live \cup {NoNode}
      BY <1>3, <2>1 DEF UpdateNode, UpdateNodeResult
    <3>2. live' = live /\ parent' = [parent EXCEPT ![n] = p]
      BY <2>1 DEF UpdateNodeOk
    <3>3. Acyclic(parent')
      BY <1>3, UpdateNodeKeepsGraph DEF Forest
    <3>4. Forests!Move(n, p)
      BY <3>1, <3>2, <3>3 DEF Forests!Move, Forests!Acyclic, Acyclic
    <3> QED
      BY <3>4 DEF Forests!Next
  <2> QED
    BY <1>3, <2>1 DEF UpdateNode, graph
<1>4. ASSUME NEW n \in Index, RemoveNode(n)
      PROVE  Forests!Next \/ UNCHANGED <<live, parent>>
  <2>1. CASE result' = "Ok" /\ RemoveNodeOk(n) /\ n \in live
    <3>1. \A m \in live : parent[m] # n
      BY <1>4, <2>1 DEF RemoveNode, RemoveNodeResult, ChildrenMirror
    <3>2. live' = live \ {n} /\ parent' = [parent EXCEPT ![n] = NoNode]
      BY <2>1 DEF RemoveNodeOk
    <3>3. Forests!Fell(n)
      BY <2>1, <3>1, <3>2 DEF Forests!Fell
    <3> QED
      BY <3>3 DEF Forests!Next
  <2>2. CASE result' = "Ok" /\ RemoveNodeOk(n) /\ n \notin live
    <3>1. live' = live
      BY <2>2 DEF RemoveNodeOk
    <3>2. parent' = parent
      BY <2>2 DEF RemoveNodeOk, TypeOK, ParentFunctions, ParentsLive
    <3> QED
      BY <3>1, <3>2
  <2> QED
    BY <1>4, <2>1, <2>2 DEF RemoveNode, graph
<1>5. ASSUME \/ \E s \in Index, t \in Index : AddEdge(s, t)
             \/ \E e \in EdgeIndex : RemoveEdge(e)
      PROVE  UNCHANGED <<live, parent>>
  BY <1>5 DEF AddEdge, AddEdgeOk, RemoveEdge, graph
<1> QED
  BY <1>1, <1>2, <1>3, <1>4, <1>5 DEF Next, vars, Forests!forestVars

(* The node graph, with its children index and its cycle walk, implements the
   forest: whatever a client does, parents behave as NodeForest promises. *)
THEOREM GraphImplementsForest == Spec => ImplementsNodeForest
<1>1. Init => Forests!Init
  BY DEF Init, Forests!Init
<1> QED
  BY <1>1, InitGraph, NextKeepsGraph, StepsRefineForest, PTL
     DEF Spec, ImplementsNodeForest, Forests!Spec

=============================================================================
