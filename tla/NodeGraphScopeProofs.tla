------------------------ MODULE NodeGraphScopeProofs ------------------------
(***************************************************************************)
(* What the node graph keeps about the scopes of its nodes, for every set  *)
(* of indices and signatures: adding or removing a node changes no other   *)
(* node's scope, following bounds through the scopes always ends, depths   *)
(* put parents first, and the two ways of building scopes agree.  All rest *)
(* on GraphInv: scopes are chains of parents, and a chain of nodes in use  *)
(* meets no free index.  That bounds end also needs that every signature   *)
(* was validated by itself, SignaturesAcyclic.                             *)
(***************************************************************************)
EXTENDS NodeGraphProofs, NodeScopes, WellFoundedInduction

-----------------------------------------------------------------------------
(* The chain of a node in use lies among the nodes in use. *)
LEMMA ChainLive ==
    ASSUME GraphInv, NEW m \in live
    PROVE  Chain(parent, m) \subseteq live
BY FreeIndexUnreached DEF GraphInv, TypeOK, Chain

(* The chain of a node in use misses a node without children, but for itself. *)
LEMMA ChainMissesLeaf ==
    ASSUME GraphInv, NEW n \in Index, \A c \in live : parent[c] # n, NEW m \in live \ {n}
    PROVE  n \notin Chain(parent, m)
<1>1. UpClosed(parent, live \ {n})
  BY DEF UpClosed, GraphInv, ParentsLive
<1>2. live \ {n} \in SUBSET Index
  BY DEF GraphInv, TypeOK
<1> QED
  BY <1>1, <1>2, ReachStaysInside DEF Chain

(* The scope of a node stays if its chain meets no node that changes. *)
LEMMA ScopeUnchanged ==
    ASSUME TypeOK, TypeOK', NEW m \in Index,
           \A a \in Chain(parent, m) : parent'[a] = parent[a] /\ sig'[a] = sig[a]
    PROVE  ScopeBelow(m)' = ScopeBelow(m)
<1>1. Chain(parent', m) = Chain(parent, m)
  BY ChainUnchanged DEF TypeOK
<1>2. \A a \in Chain(parent, m) : sig'[a].params = sig[a].params
  OBVIOUS
<1> QED
  BY <1>1, <1>2, NoNodeAssumption DEF ScopeBelow

(* Adding or removing a node changes the scope of no other node, whatever indices
   are reused. *)
THEOREM ScopesOfOthersStay == Spec => OthersKeepTheirScope
<1> DEFINE Kept == live' # live => \A m \in live \cap live' : ScopeBelow(m)' = ScopeBelow(m)
<1>1. GraphInv /\ [Next]_vars => [Kept]_vars
  <2> SUFFICES ASSUME GraphInv, Next, live' # live, NEW m \in live \cap live'
               PROVE  ScopeBelow(m)' = ScopeBelow(m)
    OBVIOUS
  <2>1. TypeOK /\ TypeOK' /\ m \in Index
    BY NextKeepsGraph DEF GraphInv, TypeOK
  <2>2. ASSUME NEW n \in Index, n \notin Chain(parent, m),
               \A a \in Index \ {n} : parent'[a] = parent[a] /\ sig'[a] = sig[a]
        PROVE  ScopeBelow(m)' = ScopeBelow(m)
    BY <2>1, <2>2, ScopeUnchanged DEF Chain
  <2>3. ASSUME NEW s \in Signatures, NEW p \in Index \cup {NoNode}, AddNode(s, p)
        PROVE  ScopeBelow(m)' = ScopeBelow(m)
    <3>1. PICK n \in Index \ live :
            parent' = [parent EXCEPT ![n] = p] /\ sig' = [sig EXCEPT ![n] = s]
      BY <2>3 DEF AddNode, AddNodeOk, graph
    <3>2. n \notin Chain(parent, m)
      BY ChainLive
    <3> QED
      BY <2>1, <2>2, <3>1, <3>2 DEF TypeOK, ParentFunctions
  <2>4. ASSUME NEW n \in Index, RemoveNode(n)
        PROVE  ScopeBelow(m)' = ScopeBelow(m)
    <3>1. /\ live' = live \ {n}
          /\ parent' = [parent EXCEPT ![n] = NoNode] /\ sig' = [sig EXCEPT ![n] = EmptySignature]
          /\ children[n] = {}
      BY <2>4 DEF RemoveNode, RemoveNodeOk, RemoveNodeResult, graph
    <3>2. \A c \in live : parent[c] # n
      BY <3>1 DEF GraphInv, ChildrenMirror
    <3>3. n \notin Chain(parent, m)
      BY <3>1, <3>2, ChainMissesLeaf
    <3> QED
      BY <2>1, <2>2, <3>1, <3>3 DEF TypeOK, ParentFunctions
  <2> QED
    BY <2>3, <2>4 DEF Next, UpdateNode, UpdateNodeOk, AddEdge, AddEdgeOk, RemoveEdge, graph
<1> QED
  BY <1>1, InitGraph, NextKeepsGraph, PTL DEF Spec, OthersKeepTheirScope

-----------------------------------------------------------------------------
(* No signature in the graph has a cycle among its own bounds and defaults. *)
SignaturesAcyclic == \A n \in Index : ~CyclicReference(sig[n])

LEMMA EmptySignatureAcyclic == ~CyclicReference(EmptySignature)
BY DEF CyclicReference, EmptySignature

LEMMA SignaturesStayAcyclic ==
    ASSUME TypeOK, SignaturesAcyclic, [Next]_vars
    PROVE  SignaturesAcyclic'
<1>1. ASSUME NEW n \in Index, NEW s, ~CyclicReference(s), sig' = [sig EXCEPT ![n] = s]
      PROVE  SignaturesAcyclic'
  <2>1. \A m \in Index : sig'[m] = IF m = n THEN s ELSE sig[m]
    BY <1>1 DEF TypeOK
  <2> QED
    BY <1>1, <2>1 DEF SignaturesAcyclic
<1>2. CASE UNCHANGED sig
  BY <1>2 DEF SignaturesAcyclic
<1>3. ASSUME NEW s \in Signatures, NEW p \in Index \cup {NoNode}, AddNode(s, p)
      PROVE  SignaturesAcyclic'
  <2>1. result' = "Ok" => ~CyclicReference(s)
    BY <1>3 DEF AddNode, AddNodeResult, Validates
  <2> QED
    BY <1>1, <1>2, <1>3, <2>1 DEF AddNode, AddNodeOk, graph
<1>4. ASSUME NEW n \in Index, NEW s \in Signatures, NEW p \in Index \cup {NoNode}, UpdateNode(n, s, p)
      PROVE  SignaturesAcyclic'
  <2>1. result' = "Ok" => ~CyclicReference(s)
    BY <1>4 DEF UpdateNode, UpdateNodeResult, Validates
  <2> QED
    BY <1>1, <1>2, <1>4, <2>1 DEF UpdateNode, UpdateNodeOk, graph
<1>5. ASSUME NEW n \in Index, RemoveNode(n)
      PROVE  SignaturesAcyclic'
  BY <1>1, <1>2, <1>5, EmptySignatureAcyclic DEF RemoveNode, RemoveNodeOk, graph
<1> QED
  BY <1>2, <1>3, <1>4, <1>5 DEF Next, vars, AddEdge, AddEdgeOk, RemoveEdge, graph

(* In a forest of such signatures, bounds lead upwards and, within one signature,
   nowhere twice.  In any set of parameters, those of a topmost node among them
   have one whose bounds lead to no other of that node. *)
LEMMA BoundsEnd == GraphInv /\ SignaturesAcyclic => BoundsNeverLoop
<1> DEFINE declared == {d \in live \X Params : d[2] \in sig[d[1]].params}
           bounding(d) == UNION {Lookup(d[1], b[2]) : b \in {c \in sig[d[1]].bounds : c[1] = d[2]}}
<1> SUFFICES ASSUME GraphInv, SignaturesAcyclic, NEW S \in SUBSET declared, S # {}
             PROVE  \E d \in S : bounding(d) \cap S = {}
  BY DEF BoundsNeverLoop
<1> DEFINE nodes == {d[1] : d \in S}
<1>1. nodes \in SUBSET Index /\ nodes # {}
  BY DEF GraphInv, TypeOK
<1>2. PICK a \in nodes : \A b \in nodes : Reaches(parent, a, b) => b = a
  BY <1>1, TopmostExists DEF GraphInv, TypeOK, Forest
<1> DEFINE own == {q \in sig[a].params : <<a, q>> \in S}
<1>3. own \in SUBSET sig[a].params /\ own # {}
  OBVIOUS
<1>4. PICK p \in own : \A q \in own : <<p, q>> \notin sig[a].bounds
  BY <1>1, <1>3 DEF SignaturesAcyclic, CyclicReference
<1>5. sig[a].bounds \subseteq Params \X Params
  BY <1>1 DEF GraphInv, TypeOK, SignatureShape
<1>6. ASSUME NEW b \in sig[a].bounds, b[1] = p, NEW e \in Lookup(a, b[2]), e \in S
      PROVE  FALSE
  <2>1. PICK c \in Chain(parent, a) : e = <<c, b[2]>> /\ b[2] \in sig[c].params
    BY <1>6 DEF Lookup
  <2>2. c \in nodes
    BY <1>6, <2>1
  <2>3. c = a
    BY <1>2, <2>1, <2>2 DEF Chain
  <2>4. b = <<p, b[2]>>
    BY <1>5, <1>6
  <2> QED
    BY <1>4, <1>6, <2>1, <2>3, <2>4
<1>7. bounding(<<a, p>>) \cap S = {}
  BY <1>6
<1> QED
  BY <1>7

(* Whatever signatures a client submits and however the forest is reshaped,
   following bounds from parameter to parameter across scopes always ends. *)
THEOREM BoundsAlwaysEnd == Spec => []BoundsNeverLoop
<1>1. Init => SignaturesAcyclic
  BY EmptySignatureAcyclic DEF Init, SignaturesAcyclic
<1>2. GraphInv /\ SignaturesAcyclic /\ [Next]_vars => SignaturesAcyclic'
  BY SignaturesStayAcyclic DEF GraphInv
<1> QED
  BY <1>1, <1>2, BoundsEnd, InitGraph, NextKeepsGraph, PTL DEF Spec

-----------------------------------------------------------------------------
(* Depths *)

(* A node's depth counts the parents above it, so that sorting by depth puts every
   node behind its parent, and no depth is beyond the number of nodes. *)
DepthsCountParents ==
    \A n \in live :
        /\ Depth(n, live) = IF parent[n] = NoNode THEN 0 ELSE Depth(parent[n], live) + 1
        /\ Depth(n, live) \in 0..(Cardinality(live) - 1)

(* A node is one deeper than its parent. *)
LEMMA DepthOfParent ==
    ASSUME GraphInv, IsFiniteSet(live), NEW n \in live
    PROVE  /\ Depth(n, live) = IF parent[n] = NoNode THEN 0 ELSE Depth(parent[n], live) + 1
           /\ Depth(n, live) \in 0..(Cardinality(live) - 1)
<1>1. parent \in ParentFunctions /\ Acyclic(parent) /\ n \in Index /\ live \subseteq Index
  BY DEF GraphInv, TypeOK, Forest
<1>2. parent[n] \in live \cup {NoNode}
  BY DEF GraphInv, ParentsLive
<1>3. ASSUME NEW m \in live
      PROVE  /\ Depth(m, live) = Cardinality(Chain(parent, m)) - 1
             /\ Chain(parent, m) \subseteq live
             /\ IsFiniteSet(Chain(parent, m)) /\ Cardinality(Chain(parent, m)) \in Nat
  <2>1. Chain(parent, m) \subseteq live
    BY ChainLive
  <2>2. {a \in live : Reaches(parent, m, a)} = Chain(parent, m)
    BY <1>1, <2>1 DEF Chain
  <2>3. IsFiniteSet(Chain(parent, m))
    BY <2>1, FS_Subset
  <2> QED
    BY <2>1, <2>2, <2>3, FS_CardinalityType DEF Depth
<1>4. CASE parent[n] = NoNode
  <2>1. Chain(parent, n) = {n}
    BY <1>1, <1>4, ChainOfParent
  <2>2. Cardinality({n}) = 1
    BY FS_Singleton
  <2>3. Depth(n, live) = 0
    BY <1>3, <2>1, <2>2
  <2>4. Cardinality(live) \in Nat /\ 1 <= Cardinality(live)
    BY <1>3, <2>1, <2>2, FS_CardinalityType, FS_Subset
  <2> QED
    BY <1>4, <2>3, <2>4
<1>5. CASE parent[n] # NoNode
  <2> DEFINE p == parent[n]
  <2>1. p \in live /\ p \in Index
    BY <1>1, <1>2, <1>5
  <2>2. Chain(parent, n) = Chain(parent, p) \cup {n}
    BY <1>1, <1>5, ChainOfParent
  <2>3. n \notin Chain(parent, p)
    <3>1. [parent EXCEPT ![n] = p] = parent
      BY <1>1 DEF ParentFunctions
    <3> QED
      BY <1>1, <2>1, <3>1, AttachClosesLoop DEF Chain
  <2>4. IsFiniteSet(Chain(parent, p)) /\ Cardinality(Chain(parent, p)) \in Nat
    BY <1>3, <2>1
  <2>5. Cardinality(Chain(parent, n)) = Cardinality(Chain(parent, p)) + 1
    BY <2>2, <2>3, <2>4, FS_AddElement
  <2>6. Cardinality(live) \in Nat /\ Cardinality(Chain(parent, n)) <= Cardinality(live)
    BY <1>3, FS_CardinalityType, FS_Subset
  <2>7. Depth(n, live) = Depth(p, live) + 1
    BY <1>3, <2>1, <2>4, <2>5
  <2> QED
    BY <1>3, <1>5, <2>4, <2>5, <2>6, <2>7
<1> QED
  BY <1>4, <1>5

(* calculate_depth counts the steps to the root, in every reachable graph. *)
THEOREM DepthsOrderParents == Spec => []DepthsCountParents
<1>1. GraphInv /\ LiveIsFinite => DepthsCountParents
  BY DepthOfParent DEF DepthsCountParents, LiveIsFinite
<1> QED
  BY <1>1, InitGraph, NextKeepsGraph, LiveFinite, PTL DEF Spec

-----------------------------------------------------------------------------
(* Listings and walks *)

(* What holds of 0 and passes from each number below n to the next holds up to n. *)
LEMMA HoldsUpTo ==
    ASSUME NEW n \in Nat, NEW S \in SUBSET (0..n), 0 \in S, \A i \in S : i < n => i + 1 \in S
    PROVE  S = 0..n
<1> DEFINE T == (0..n) \ S
<1>1. SUFFICES ASSUME T # {} PROVE FALSE
  OBVIOUS
<1>2. T \subseteq Nat
  OBVIOUS
<1>3. PICK x \in T : \A y \in T : ~(<<y, x>> \in OpToRel(<, Nat))
  BY <1>1, <1>2, NatLessThanWellFounded, WFMin
<1>4. \A y \in T : ~(y < x)
  BY <1>2, <1>3 DEF OpToRel
<1>5. x - 1 \in (0..n) /\ x - 1 < n
  OBVIOUS
<1>6. x - 1 \in S
  BY <1>4, <1>5
<1>7. (x - 1) + 1 \in S
  BY <1>5, <1>6
<1> QED
  BY <1>7

(* A listing of a finite set has each of its members at one place. *)
LEMMA ListingIsBijection ==
    ASSUME NEW R, IsFiniteSet(R), NEW order \in SetToSeqs(R)
    PROVE  /\ Cardinality(R) \in Nat
           /\ order \in [1..Cardinality(R) -> R]
           /\ \A i, j \in 1..Cardinality(R) : order[i] = order[j] => i = j
           /\ \A r \in R : \E i \in 1..Cardinality(R) : order[i] = r
<1> DEFINE D == 1..Cardinality(R)
<1>1. Cardinality(R) \in Nat
  BY FS_CardinalityType
<1>2. order \in [D -> R] /\ \A i, j \in D : order[i] = order[j] => i = j
  BY DEF SetToSeqs
<1>3. order \in Injection(D, R)
  BY <1>2, Fun_IsInj
<1>4. Cardinality(D) = Cardinality(R)
  BY <1>1, FS_Interval
<1>5. order \in Surjection(D, R)
  BY <1>3, <1>4, FS_Injection
<1> QED
  BY <1>1, <1>2, <1>5, Fun_SurjectionProperties

(* s lists the nodes on the walk from n to its root in their order. *)
IsWalk(s, n) ==
    /\ s \in SetToSeqs(Chain(parent, n))
    /\ s[1] = n
    /\ \A i \in 1..(Len(s) - 1) : s[i + 1] = parent[s[i]]

(* The nodes on the walk from a node in use. *)
LEMMA ChainsAreFinite ==
    ASSUME GraphInv, IsFiniteSet(live), NEW n \in live
    PROVE  /\ IsFiniteSet(Chain(parent, n)) /\ Chain(parent, n) \subseteq live
           /\ n \in Index /\ n \in Chain(parent, n)
           /\ parent[n] = NoNode => Chain(parent, n) = {n}
           /\ parent[n] # NoNode =>
                /\ parent[n] \in live
                /\ Chain(parent, n) = {n} \cup Chain(parent, parent[n])
                /\ n \notin Chain(parent, parent[n])
<1>1. parent \in ParentFunctions /\ Acyclic(parent) /\ n \in Index
  BY DEF GraphInv, TypeOK, Forest
<1>2. Chain(parent, n) \subseteq live
  BY ChainLive
<1>3. parent[n] # NoNode => parent[n] \in live /\ parent[n] \in Index
  BY <1>1 DEF GraphInv, ParentsLive, ParentFunctions
<1>4. parent[n] # NoNode => n \notin Chain(parent, parent[n])
  <2>1. [parent EXCEPT ![n] = parent[n]] = parent
    BY <1>1 DEF ParentFunctions
  <2> QED
    BY <1>1, <1>3, <2>1, AttachClosesLoop DEF Chain
<1> QED
  BY <1>1, <1>2, <1>3, <1>4, FS_Subset, ChainOfParent, ReachesItself DEF Chain

(* The walk from a root ends there. *)
LEMMA WalkOfRoot ==
    ASSUME GraphInv, IsFiniteSet(live), NEW n \in live, parent[n] = NoNode
    PROVE  IsWalk(<<n>>, n)
<1>1. Chain(parent, n) = {n}
  BY ChainsAreFinite
<1>2. Cardinality({n}) = 1
  BY FS_Singleton
<1>3. <<n>> \in [1..1 -> {n}] /\ Len(<<n>>) = 1
  OBVIOUS
<1> QED
  BY <1>1, <1>2, <1>3 DEF IsWalk, SetToSeqs

(* The walk from another node is that node and the walk from its parent. *)
LEMMA WalkGoesOn ==
    ASSUME GraphInv, IsFiniteSet(live), NEW n \in live, parent[n] # NoNode,
           NEW s, IsWalk(s, parent[n])
    PROVE  IsWalk(<<n>> \o s, n)
<1> DEFINE above == Chain(parent, parent[n])
           c == Cardinality(above)
           t == <<n>> \o s
<1>1. /\ parent[n] \in live /\ n \notin above
      /\ Chain(parent, n) = above \cup {n}
  BY ChainsAreFinite
<1>2. IsFiniteSet(above)
  BY <1>1, ChainsAreFinite
<1>3. /\ c \in Nat /\ s \in [1..c -> above]
      /\ \A i, j \in 1..c : s[i] = s[j] => i = j
  BY <1>2, ListingIsBijection DEF IsWalk
<1>4. Cardinality(Chain(parent, n)) = c + 1
  BY <1>1, <1>2, FS_AddElement
<1> HIDE DEF c, above
<1>5. Len(s) = c /\ s \in Seq(above)
  BY <1>3
<1>6. t \in [1..(c + 1) -> above \cup {n}] /\ Len(t) = c + 1
  <2>1. <<n>> \in Seq(above \cup {n}) /\ s \in Seq(above \cup {n}) /\ Len(<<n>>) = 1
    BY <1>5
  <2>2. t \in Seq(above \cup {n}) /\ Len(t) = c + 1
    BY <1>3, <1>5, <2>1
  <2> HIDE DEF t
  <2> QED
    BY <1>3, <2>2
<1>7. t[1] = n /\ \A i \in 1..c : t[i + 1] = s[i]
  BY <1>3, <1>5
<1> HIDE DEF t
<1>8. \A i \in 2..(c + 1) : i - 1 \in 1..c /\ t[i] = s[i - 1]
  BY <1>3, <1>7
<1>9. \A i, j \in 1..(c + 1) : i # j => t[i] # t[j]
  BY <1>1, <1>3, <1>7, <1>8
<1>10. \A i \in 1..(Len(t) - 1) : t[i + 1] = parent[t[i]]
  <2> SUFFICES ASSUME NEW i \in 1..c PROVE t[i + 1] = parent[t[i]]
    BY <1>3, <1>6
  <2>1. CASE i = 1
    BY <1>7, <2>1 DEF IsWalk
  <2>2. CASE i # 1
    BY <1>3, <1>5, <1>7, <1>8, <2>2 DEF IsWalk
  <2> QED
    BY <2>1, <2>2
<1> QED
  BY <1>1, <1>4, <1>6, <1>7, <1>9, <1>10 DEF IsWalk, SetToSeqs, t

(* Among nodes without a walk, one has a parent that is none of them. *)
LEMMA WalkExists ==
    ASSUME GraphInv, IsFiniteSet(live)
    PROVE  \A n \in live : \E s : IsWalk(s, n)
<1> DEFINE B == {n \in live : ~\E s : IsWalk(s, n)}
<1>1. SUFFICES ASSUME B # {} PROVE FALSE
  OBVIOUS
<1>2. PICK n \in B : parent[n] \notin B
  BY <1>1 DEF GraphInv, TypeOK, Forest, Acyclic
<1>3. parent[n] # NoNode => parent[n] \in live
  BY ChainsAreFinite
<1> QED
  BY <1>2, <1>3, WalkOfRoot, WalkGoesOn

(* There is but one walk: each place is determined by the one before. *)
LEMMA WalkIsUnique ==
    ASSUME GraphInv, IsFiniteSet(live), NEW n \in live, NEW s, NEW t, IsWalk(s, n), IsWalk(t, n)
    PROVE  s = t
<1> DEFINE c == Cardinality(Chain(parent, n))
           same == {i \in 0..c : \A j \in 1..i : s[j] = t[j]}
<1>1. c \in Nat /\ s \in [1..c -> Chain(parent, n)] /\ t \in [1..c -> Chain(parent, n)]
  BY ChainsAreFinite, ListingIsBijection DEF IsWalk
<1> HIDE DEF c
<1>2. Len(s) = c /\ Len(t) = c
  BY <1>1
<1>3. 0 \in same
  BY <1>1
<1>4. ASSUME NEW i \in same, i < c
      PROVE  i + 1 \in same
  <2>1. s[i + 1] = t[i + 1]
    <3>1. CASE i = 0
      BY <3>1 DEF IsWalk
    <3>2. CASE i # 0
      <4>1. i \in 1..(c - 1)
        BY <1>1, <1>4, <3>2
      <4>2. s[i] = t[i]
        BY <1>4, <4>1
      <4> QED
        BY <1>2, <4>1, <4>2 DEF IsWalk
    <3> QED
      BY <3>1, <3>2
  <2> QED
    BY <1>1, <1>4, <2>1
<1>5. same = 0..c
  BY <1>1, <1>3, <1>4, HoldsUpTo
<1>6. \A j \in 1..c : s[j] = t[j]
  <2>1. c \in same
    <3> HIDE DEF same
    <3> QED
      BY <1>1, <1>5
  <2> QED
    BY <2>1
<1> QED
  BY <1>1, <1>6

(* build_node_scope puts a node before the scope of its parent. *)
LEMMA ScopeOfParent ==
    ASSUME GraphInv, IsFiniteSet(live), NEW n \in live
    PROVE  BuildNodeScope(n) = IF parent[n] = NoNode THEN <<n>> ELSE <<n>> \o BuildNodeScope(parent[n])
<1>1. \A m \in live : IsWalk(BuildNodeScope(m), m)
  BY WalkExists DEF IsWalk, BuildNodeScope
<1>2. parent[n] # NoNode => parent[n] \in live
  BY ChainsAreFinite
<1> QED
  BY <1>1, <1>2, WalkOfRoot, WalkGoesOn, WalkIsUnique

-----------------------------------------------------------------------------
(* The loop of build_scopes *)

(* Of two listed nodes, the one with the smaller pair has the smaller rank: the
   k-th smallest pair exists for every place k, and only once. *)
LEMMA SortedByDepth ==
    ASSUME GraphInv, IsFiniteSet(live), NEW order \in SetToSeqs(live)
    PROVE  LET sorted == SortByParentDepth(order)
               N == Cardinality(live)
           IN  /\ sorted \in [1..N -> live]
               /\ \A n \in live : \E k \in 1..N : sorted[k] = n
               /\ \A i, j \in 1..N : parent[sorted[i]] = sorted[j] => j < i
<1> DEFINE N == Cardinality(live)
           sorted == SortByParentDepth(order)
           pairs == DepthPairs(order)
           pair(i) == <<Depth(order[i], live), i>>
           rank(i) == Cardinality(UpTo(pair(i), pairs))
<1>1. /\ N \in Nat /\ order \in [1..N -> live]
      /\ \A i, j \in 1..N : order[i] = order[j] => i = j
      /\ \A n \in live : \E i \in 1..N : order[i] = n
  BY ListingIsBijection
<1>2. ToSet(order) = live
  BY <1>1 DEF ToSet
<1>3. \A n \in live :
        /\ Depth(n, live) \in Int
        /\ parent[n] # NoNode => parent[n] \in live /\ Depth(n, live) = Depth(parent[n], live) + 1
  BY DepthOfParent, ChainsAreFinite
<1>4. pairs = {pair(i) : i \in 1..N}
  BY <1>1, <1>2 DEF DepthPairs
<1> HIDE DEF N
<1>5. IsFiniteSet(pairs) /\ Cardinality(pairs) = N
  <2> DEFINE f == [i \in 1..N |-> pair(i)]
  <2>1. f \in [1..N -> pairs]
    BY <1>4
  <2>2. f \in Surjection(1..N, pairs)
    BY <1>4, <2>1, Fun_IsSurj
  <2>3. f \in Injection(1..N, pairs)
    <3>1. \A i, j \in 1..N : f[i] = f[j] => i = j
      OBVIOUS
    <3> QED
      BY <2>1, <3>1, Fun_IsInj
  <2>4. IsFiniteSet(1..N) /\ Cardinality(1..N) = N
    BY <1>1, FS_Interval
  <2> QED
    BY <2>2, <2>3, <2>4, FS_Surjection
<1>6. \A i \in 1..N : pair(i)[1] \in Int /\ pair(i)[2] = i /\ pair(i) \in pairs
  BY <1>1, <1>3, <1>4
<1> HIDE DEF pairs, pair
<1> DEFINE before(i, j) == pair(i)[1] < pair(j)[1] \/ (pair(i)[1] = pair(j)[1] /\ i < j)
<1>7. \A i \in 1..N : rank(i) \in 1..N
  <2> TAKE i \in 1..N
  <2>1. UpTo(pair(i), pairs) \in SUBSET pairs /\ pair(i) \in UpTo(pair(i), pairs)
    BY <1>6 DEF UpTo
  <2>2. IsFiniteSet(UpTo(pair(i), pairs)) /\ rank(i) \in Nat /\ rank(i) <= N
    BY <1>5, <2>1, FS_Subset, FS_CardinalityType
  <2>3. rank(i) # 0
    BY <2>1, <2>2, FS_EmptySet
  <2> QED
    BY <1>1, <2>2, <2>3
<1>8. ASSUME NEW i \in 1..N, NEW j \in 1..N, before(i, j)
      PROVE  rank(i) < rank(j)
  <2> DEFINE A == UpTo(pair(i), pairs)
             B == UpTo(pair(j), pairs)
  <2>1. A \subseteq B
    <3> SUFFICES ASSUME NEW q \in A PROVE q \in B
      OBVIOUS
    <3>1. PICK k \in 1..N : q = pair(k)
      BY <1>4 DEF UpTo
    <3> QED
      BY <1>6, <1>8, <3>1 DEF UpTo
  <2>2. pair(j) \in B /\ pair(j) \notin A
    BY <1>6, <1>8 DEF UpTo
  <2>3. B \in SUBSET pairs
    BY DEF UpTo
  <2>4. IsFiniteSet(B)
    BY <1>5, <2>3, FS_Subset
  <2>5. Cardinality(A) <= Cardinality(B) /\ Cardinality(A) # Cardinality(B)
    BY <2>1, <2>2, <2>4, FS_Subset
  <2> QED
    BY <1>7, <2>5
<1>9. \A i, j \in 1..N : rank(i) = rank(j) => i = j
  <2> SUFFICES ASSUME NEW i \in 1..N, NEW j \in 1..N, i # j PROVE rank(i) # rank(j)
    OBVIOUS
  <2>1. before(i, j) \/ before(j, i)
    BY <1>6
  <2> QED
    BY <1>7, <1>8, <2>1
<1>10. \A k \in 1..N : \E i \in 1..N : rank(i) = k
  <2> DEFINE g == [i \in 1..N |-> rank(i)]
  <2> HIDE DEF rank
  <2>1. g \in [1..N -> 1..N] /\ \A i, j \in 1..N : g[i] = g[j] => i = j
    BY <1>7, <1>9
  <2>2. g \in Injection(1..N, 1..N)
    BY <2>1, Fun_IsInj
  <2>3. g \in Surjection(1..N, 1..N)
    BY <1>1, <2>2, FS_Interval, FS_Injection
  <2>4. \A k \in 1..N : \E i \in 1..N : g[i] = k
    <3> HIDE DEF g
    <3> QED
      BY <2>3, Fun_SurjectionProperties
  <2> QED
    BY <2>4
<1>11. DOMAIN sorted = 1..N /\ \A i \in 1..N : sorted[rank(i)] = order[i]
  <2>1. sorted = [k \in 1..N |-> order[(CHOOSE q \in pairs : Cardinality(UpTo(q, pairs)) = k)[2]]]
    BY <1>1 DEF SortByParentDepth, pairs
  <2>2. ASSUME NEW i \in 1..N
        PROVE  sorted[rank(i)] = order[i]
    <3> DEFINE q == CHOOSE p \in pairs : Cardinality(UpTo(p, pairs)) = rank(i)
    <3>1. q \in pairs /\ Cardinality(UpTo(q, pairs)) = rank(i)
      BY <1>6
    <3>2. PICK j \in 1..N : q = pair(j)
      BY <1>4, <3>1
    <3>3. j = i
      BY <1>9, <3>1, <3>2
    <3>4. q[2] = i
      BY <1>6, <3>2, <3>3
    <3> QED
      BY <1>7, <2>1, <3>4
  <2> QED
    BY <2>1, <2>2
<1> HIDE DEF sorted, rank
<1>12. sorted \in [1..N -> live]
  <2>1. ASSUME NEW k \in 1..N
        PROVE  sorted[k] \in live
    <3>1. PICK i \in 1..N : rank(i) = k
      BY <1>10
    <3> QED
      BY <1>1, <1>11, <3>1
  <2>2. sorted = [k \in 1..N |-> sorted[k]]
    <3>1. sorted = [k \in DOMAIN sorted |-> sorted[k]]
      BY DEF sorted, SortByParentDepth
    <3> QED
      BY <1>11, <3>1
  <2> QED
    BY <2>1, <2>2
<1>13. \A n \in live : \E k \in 1..N : sorted[k] = n
  BY <1>1, <1>7, <1>11
<1>14. ASSUME NEW k \in 1..N, NEW l \in 1..N, parent[sorted[k]] = sorted[l]
       PROVE  l < k
  <2>1. PICK i \in 1..N : rank(i) = k
    BY <1>10
  <2>2. PICK j \in 1..N : rank(j) = l
    BY <1>10
  <2>3. sorted[k] = order[i] /\ sorted[l] = order[j] /\ order[i] \in live /\ order[j] \in live
    BY <1>1, <1>11, <2>1, <2>2
  <2>4. order[j] # NoNode
    BY <2>3, NoNodeAssumption DEF GraphInv, TypeOK
  <2>5. Depth(order[i], live) = Depth(order[j], live) + 1 /\ Depth(order[j], live) \in Int
    BY <1>3, <1>14, <2>3, <2>4
  <2>6. before(j, i)
    BY <2>5 DEF pair
  <2> QED
    BY <1>8, <2>1, <2>2, <2>6
<1> QED
  BY <1>12, <1>13, <1>14 DEF N, sorted

(* What the recursive function of ScopesAfter is at each place. *)
LEMMA ScopesAfterStep ==
    ASSUME NEW sorted, Len(sorted) \in Nat
    PROVE  /\ ScopesAfter(sorted)[0] = <<>>
           /\ \A i \in 1..Len(sorted) : ScopesAfter(sorted)[i] = AddScope(ScopesAfter(sorted)[i - 1], sorted[i])
<1> DEFINE N == Len(sorted)
           IsAfter(f, k) == f = [i \in 0..k |-> IF i = 0 THEN <<>> ELSE AddScope(f[i - 1], sorted[i])]
           reached == {k \in 0..N : \E f : IsAfter(f, k)}
           scopes == ScopesAfter(sorted)
<1>1. 0 \in reached
  <2>1. IsAfter([i \in 0..0 |-> <<>>], 0)
    OBVIOUS
  <2>2. \E f : IsAfter(f, 0)
    <3> HIDE DEF IsAfter
    <3> QED
      BY <2>1
  <2> QED
    BY <2>2
<1>2. ASSUME NEW k \in reached, k < N
      PROVE  k + 1 \in reached
  <2>1. PICK f : IsAfter(f, k)
    OBVIOUS
  <2> DEFINE g == [i \in 0..(k + 1) |-> IF i = k + 1 THEN AddScope(f[k], sorted[k + 1]) ELSE f[i]]
  <2>2. IsAfter(g, k + 1)
    <3> SUFFICES ASSUME NEW i \in 0..(k + 1)
                 PROVE  g[i] = IF i = 0 THEN <<>> ELSE AddScope(g[i - 1], sorted[i])
      OBVIOUS
    <3>1. CASE i = k + 1
      BY <3>1
    <3>2. CASE i # k + 1
      <4>1. i \in 0..k /\ g[i] = f[i] /\ (i # 0 => g[i - 1] = f[i - 1])
        BY <3>2
      <4> QED
        BY <2>1, <4>1
    <3> QED
      BY <3>1, <3>2
  <2>3. \E h : IsAfter(h, k + 1)
    <3> HIDE DEF IsAfter, g
    <3> QED
      BY <2>2
  <2> QED
    BY <1>2, <2>3
<1>3. \E f : IsAfter(f, N)
  <2>1. reached = 0..N
    BY <1>1, <1>2, HoldsUpTo
  <2>2. N \in reached
    <3> HIDE DEF reached
    <3> QED
      BY <2>1
  <2> QED
    BY <2>2
<1>4. scopes = CHOOSE f : IsAfter(f, N)
  BY DEF ScopesAfter
<1>5. IsAfter(scopes, N)
  <2> HIDE DEF IsAfter, scopes
  <2> QED
    BY <1>3, <1>4, Zenon
<1> HIDE DEF scopes
<1> QED
  BY <1>5 DEF scopes

(* After the first i nodes exactly those have a scope, the one build_node_scope
   returns: each finds that of its parent among them. *)
LEMMA LoopBuildsScopes ==
    ASSUME GraphInv, IsFiniteSet(live), NEW order \in SetToSeqs(live)
    PROVE  /\ DOMAIN BuildScopes(order) = live
           /\ \A n \in live : BuildScopes(order)[n] = BuildNodeScope(n)
<1> DEFINE N == Cardinality(live)
           sorted == SortByParentDepth(order)
           after == ScopesAfter(sorted)
           first(i) == {sorted[j] : j \in 1..i}
           Built(i) == /\ DOMAIN after[i] = first(i)
                       /\ \A n \in first(i) : after[i][n] = BuildNodeScope(n)
           built == {i \in 0..N : Built(i)}
<1>1. /\ N \in Nat /\ Len(order) = N
      /\ sorted \in [1..N -> live]
      /\ \A n \in live : \E k \in 1..N : sorted[k] = n
      /\ \A i, j \in 1..N : parent[sorted[i]] = sorted[j] => j < i
  <2>1. N \in Nat /\ order \in [1..N -> live]
    BY ListingIsBijection
  <2> QED
    BY <2>1, SortedByDepth
<1> HIDE DEF N, sorted
<1>2. Len(sorted) = N
  BY <1>1
<1>3. after[0] = <<>> /\ \A i \in 1..N : after[i] = AddScope(after[i - 1], sorted[i])
  BY <1>1, <1>2, ScopesAfterStep
<1> HIDE DEF after
<1>4. 0 \in built
  BY <1>1, <1>3
<1>5. ASSUME NEW i \in built, i < N
      PROVE  i + 1 \in built
  <2> DEFINE n == sorted[i + 1]
             scopes == after[i]
  <2>1. i + 1 \in 1..N /\ (i + 1) - 1 = i /\ n \in live
    BY <1>1, <1>5
  <2>2. after[i + 1] = AddScope(scopes, n)
    BY <1>3, <2>1
  <2>3. first(i + 1) = first(i) \cup {n}
    BY <1>1, <1>5
  <2>4. DOMAIN scopes = first(i) /\ \A m \in first(i) : scopes[m] = BuildNodeScope(m)
    OBVIOUS
  <2>5. parent[n] # NoNode => parent[n] \in first(i)
    <3> SUFFICES ASSUME parent[n] # NoNode PROVE parent[n] \in first(i)
      OBVIOUS
    <3>1. parent[n] \in live
      BY <2>1, ChainsAreFinite
    <3>2. PICK k \in 1..N : sorted[k] = parent[n]
      BY <1>1, <3>1
    <3>3. k < i + 1
      BY <1>1, <2>1, <3>2
    <3> QED
      BY <1>5, <3>2, <3>3
  <2>6. BuildNodeScope(n) = IF parent[n] = NoNode THEN <<n>> ELSE <<n>> \o scopes[parent[n]]
    BY <2>1, <2>4, <2>5, ScopeOfParent
  <2> HIDE DEF n, scopes, first
  <2>7. AddScope(scopes, n) = [m \in first(i) \cup {n} |-> IF m = n THEN BuildNodeScope(n) ELSE scopes[m]]
    BY <2>4, <2>5, <2>6 DEF AddScope
  <2>8. Built(i + 1)
    BY <2>2, <2>3, <2>4, <2>7
  <2> QED
    BY <2>1, <2>8
<1>6. Built(N)
  <2>1. built = 0..N
    BY <1>1, <1>4, <1>5, HoldsUpTo
  <2>2. N \in built
    <3> HIDE DEF built
    <3> QED
      BY <1>1, <2>1
  <2> QED
    BY <2>2
<1>7. first(N) = live
  BY <1>1
<1>8. BuildScopes(order) = after[N]
  BY <1>1 DEF BuildScopes, after, sorted
<1> QED
  BY <1>6, <1>7, <1>8

(* Whatever indices were reused, the one pass over the nodes by depth gives every
   node the scope that climbing from it gives: no node is passed by before its
   parent has a scope. *)
THEOREM BothScopesAgree == Spec => []ScopesAgree
<1>1. GraphInv /\ LiveIsFinite => ScopesAgree
  BY LoopBuildsScopes DEF ScopesAgree, LiveIsFinite
<1> QED
  BY <1>1, InitGraph, NextKeepsGraph, LiveFinite, PTL DEF Spec

=============================================================================
