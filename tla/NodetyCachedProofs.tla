------------------------- MODULE NodetyCachedProofs -------------------------
(***************************************************************************)
(* The cached wrapper answers as if it had no cache, for every set of      *)
(* indices, signatures and edges.  The inductive invariant CachedInv adds  *)
(* to the one of the graph that the cache is a complete inference of the   *)
(* program as it is.  It needs the types of the graph: a call that fails   *)
(* keeps the cache, and that remove_edge on a free index changes nothing   *)
(* is only true of a function on the edge indices.                         *)
(***************************************************************************)
EXTENDS NodetyCached, NodeGraphProofs

CachedInv == GraphInv /\ CachedTypeOK /\ CacheMatchesProgram

-----------------------------------------------------------------------------
(* The program always has its shape, and so has an inference of it. *)
LEMMA InferenceTyped ==
    ASSUME TypeOK, NEW n \in Index \cup {NoNode}
    PROVE  Inference(program, n) \in InferenceShape
BY DEF TypeOK, program, ProgramShape, Inference, InferenceShape

(* The mutating calls of the wrapper: the call of the graph, and then the cache
   dropped if the call succeeded. *)
GraphCall ==
    /\ \/ \E s \in Signatures, p \in Index \cup {NoNode} : AddNode(s, p)
       \/ \E n \in Index, s \in Signatures, p \in Index \cup {NoNode} : UpdateNode(n, s, p)
       \/ \E n \in Index : RemoveNode(n)
       \/ \E s \in Index, t \in Index : AddEdge(s, t)
       \/ \E e \in EdgeIndex : RemoveEdge(e)
    /\ InvalidateIfOk

(* The calls that ask something. *)
Query ==
    \/ DiscardCache
    \/ Infer
    \/ Validate
    \/ \E n \in Index : InferNodeScope(n) \/ InferNodeScopeExcluding(n)

LEMMA CachedNextCases == CachedNext <=> GraphCall \/ Query \/ MutateHeldScopes
BY DEF CachedNext, GraphCall, Query, CachedAddNode, CachedUpdateNode, CachedRemoveNode,
       CachedAddEdge, CachedRemoveEdge

(* A call that fails leaves the program as it was. *)
LEMMA FailedCallKeepsProgram ==
    ASSUME TypeOK, GraphCall, result' # "Ok"
    PROVE  UNCHANGED program
<1>1. ASSUME NEW e \in EdgeIndex, RemoveEdge(e) PROVE UNCHANGED program
  BY <1>1 DEF RemoveEdge, RemoveEdgeResult, TypeOK, program
<1> QED
  BY <1>1 DEF GraphCall, AddNode, UpdateNode, RemoveNode, AddEdge, graph, program

-----------------------------------------------------------------------------
(* Nothing is cached or answered at first. *)
LEMMA CachedInitially == CachedInit => CachedInv
<1> SUFFICES ASSUME CachedInit PROVE CachedInv
  OBVIOUS
<1>1. GraphInv
  BY InitGraph DEF CachedInit
<1> QED
  BY <1>1 DEF CachedInit, CachedInv, GraphInv, CachedTypeOK, CacheMatchesProgram

(* A mutating call drops what depends on the program or leaves the program alone. *)
LEMMA GraphCallKeepsCachedInv ==
    ASSUME CachedInv, GraphCall
    PROVE  CachedInv'
<1>1. GraphInv'
  BY AddNodeKeepsGraph, UpdateNodeKeepsGraph, RemoveNodeKeepsGraph, EdgeCallsKeepGraph
     DEF GraphCall, CachedInv
<1>2. TypeOK'
  BY <1>1 DEF GraphInv
<1>3. CASE result' = "Ok"
  BY <1>1, <1>2, <1>3
     DEF GraphCall, InvalidateIfOk, InvalidateCache, CachedInv, CachedTypeOK, CacheMatchesProgram
<1>4. CASE result' # "Ok"
  <2>1. UNCHANGED program
    BY <1>4, FailedCallKeepsProgram DEF CachedInv, GraphInv
  <2>2. UNCHANGED <<cache, held, answer>>
    BY <1>4 DEF GraphCall, InvalidateIfOk, cacheVars
  <2> QED
    BY <1>1, <1>2, <2>1, <2>2
       DEF CachedInv, CachedTypeOK, CacheMatchesProgram
<1> QED
  BY <1>3, <1>4

(* What a question is answered from, cached or inferred for it, is a complete
   inference of the program. *)
LEMMA CachedInferenceCurrent ==
    ASSUME CachedInv
    PROVE  /\ CachedInference \in InferenceShape
           /\ CachedInference.of = program /\ CachedInference.without = NoNode
<1>1. CASE cache = NoCache
  <2>1. CachedInference = Inference(program, NoNode)
    BY <1>1 DEF CachedInference
  <2> QED
    BY <2>1, InferenceTyped DEF CachedInv, GraphInv, Inference
<1>2. CASE cache # NoCache
  BY <1>2 DEF CachedInv, CachedTypeOK, CacheMatchesProgram, CachedInference
<1> QED
  BY <1>1, <1>2

(* Queries change neither the graph nor what the invariant says of the cache. *)
LEMMA QueryKeepsCachedInv ==
    ASSUME CachedInv, Query
    PROVE  CachedInv'
<1>1. UNCHANGED graph /\ result' \in {"Ok", "NodeNotFound"}
  BY DEF Query, DiscardCache, Infer, Validate, InferNodeScope, InferNodeScopeExcluding, Answered, NodeMissing
<1>2. GraphInv' /\ TypeOK' /\ program' = program
  BY <1>1 DEF CachedInv, GraphInv, graph, program, TypeOK, Outcomes, Forest, ParentsLive,
              ChildrenMirror, EdgesLive
<1>3. CachedTypeOK
  BY DEF CachedInv
<1> HIDE DEF program, InferenceShape
<1>4. CASE DiscardCache
  BY <1>2, <1>4 DEF DiscardCache, InvalidateCache, CachedInv, CachedTypeOK, CacheMatchesProgram
<1>5. ASSUME cache' = CachedInference, held' \in BOOLEAN,
             \/ UNCHANGED answer
             \/ \E q \in Questions : q[2] = NoNode /\ AnswerFrom(q, cache')
      PROVE  CachedInv'
  <2>1. CachedTypeOK'
    BY <1>2, <1>3, <1>5, CachedInferenceCurrent, CacheAssumption DEF CachedTypeOK, AnswerFrom, AnswerShape
  <2>2. CacheMatchesProgram'
    BY <1>2, <1>5, CachedInferenceCurrent DEF CacheMatchesProgram
  <2> QED
    BY <1>2, <2>1, <2>2 DEF CachedInv
<1>6. CASE Infer \/ Validate
  BY <1>3, <1>5, <1>6 DEF Infer, Validate, Questions, CachedTypeOK
<1>7. ASSUME NEW n \in Index, InferNodeScope(n)
      PROVE  CachedInv'
  BY <1>3, <1>5, <1>7 DEF InferNodeScope, NodeMissing, Questions, CachedTypeOK
<1>8. ASSUME NEW n \in Index, InferNodeScopeExcluding(n)
      PROVE  CachedInv'
  <2>1. UNCHANGED <<cache, held>>
    BY <1>8 DEF InferNodeScopeExcluding, NodeMissing
  <2>2. CASE UNCHANGED answer
    BY <1>2, <1>3, <2>1, <2>2 DEF CachedInv, CachedTypeOK, CacheMatchesProgram
  <2>3. CASE AnswerFrom(<<"node_scope", n>>, Inference(program, n))
    <3>1. <<"node_scope", n>> \in Questions
      BY DEF Questions
    <3>2. Inference(program, n) \in InferenceShape
      BY InferenceTyped DEF CachedInv, GraphInv
    <3>3. answer' \in AnswerShape
      BY <2>3, <3>1, <3>2 DEF AnswerFrom, AnswerShape
    <3> QED
      BY <1>2, <1>3, <2>1, <3>3 DEF CachedInv, CachedTypeOK, CacheMatchesProgram
  <2> QED
    BY <1>8, <2>2, <2>3 DEF InferNodeScopeExcluding, NodeMissing
<1> QED
  BY <1>4, <1>6, <1>7, <1>8 DEF Query

(* A client that writes to shared scopes makes them no inference of another program. *)
LEMMA MutateHeldScopesKeepsCachedInv ==
    ASSUME CachedInv, MutateHeldScopes
    PROVE  CachedInv'
<1>1. cache \in InferenceShape
  BY DEF MutateHeldScopes, CachedInv, CachedTypeOK
<1>2. /\ cache' \in InferenceShape
      /\ cache'.of = cache.of /\ cache'.without = cache.without
  BY <1>1 DEF MutateHeldScopes, InferenceShape
<1>3. GraphInv' /\ TypeOK' /\ program' = program
  BY DEF MutateHeldScopes, vars, CachedInv, GraphInv, program, TypeOK, Forest, ParentsLive,
         ChildrenMirror, EdgesLive
<1> HIDE DEF program, InferenceShape
<1> QED
  BY <1>2, <1>3, CacheAssumption
     DEF MutateHeldScopes, CachedInv, CachedTypeOK, CacheMatchesProgram

(* The invariant is inductive. *)
LEMMA CachedNextKeepsInv == CachedInv /\ [CachedNext]_cachedVars => CachedInv'
<1> SUFFICES ASSUME CachedInv, [CachedNext]_cachedVars PROVE CachedInv'
  OBVIOUS
<1>1. CASE UNCHANGED cachedVars
  BY <1>1 DEF cachedVars, vars, cacheVars, CachedInv, GraphInv, program, TypeOK, Forest, ParentsLive,
              ChildrenMirror, EdgesLive, CachedTypeOK, CacheMatchesProgram
<1> QED
  BY <1>1, CachedNextCases, GraphCallKeepsCachedInv, QueryKeepsCachedInv, MutateHeldScopesKeepsCachedInv

LEMMA CachedInvariant == CachedSpec => []CachedInv
BY CachedInitially, CachedNextKeepsInv, PTL DEF CachedSpec

-----------------------------------------------------------------------------
(* The cache, what clients hold and what they were answered have their types, and
   scopes are shared only while something is cached. *)
THEOREM CachedTypeCorrect == CachedSpec => []CachedTypeOK
<1>1. CachedInv => CachedTypeOK
  BY DEF CachedInv
<1> QED
  BY <1>1, CachedInvariant, PTL

(* Whatever calls succeed or fail, in whatever order, the cache is empty or holds a
   complete inference of the program as it is now. *)
THEOREM CacheIsCurrent == CachedSpec => []CacheMatchesProgram
<1>1. CachedInv => CacheMatchesProgram
  BY DEF CachedInv
<1> QED
  BY <1>1, CachedInvariant, PTL

(* No call that fails empties or replaces the cache. *)
THEOREM FailuresKeepCache == CachedSpec => FailedCallsKeepCache
<1> DEFINE Kept == (cache # NoCache /\ result' # "Ok")
                       => cache' # NoCache /\ AsInferred(cache') = AsInferred(cache)
<1>1. CachedInv /\ [CachedNext]_cachedVars => [Kept]_cachedVars
  <2> SUFFICES ASSUME CachedInv, CachedNext, cache # NoCache, result' # "Ok"
               PROVE  cache' # NoCache /\ AsInferred(cache') = AsInferred(cache)
    OBVIOUS
  <2>1. CASE GraphCall \/ Query
    <3>1. cache' = cache
      BY <2>1 DEF GraphCall, InvalidateIfOk, cacheVars, Query, DiscardCache, Infer, Validate, Answered,
                  InferNodeScope, InferNodeScopeExcluding, NodeMissing, CachedInference
    <3> QED
      BY <3>1
  <2>2. CASE MutateHeldScopes
    <3>1. cache \in InferenceShape
      BY DEF CachedInv, CachedTypeOK
    <3>2. cache' \in InferenceShape /\ AsInferred(cache') = AsInferred(cache)
      BY <2>2, <3>1 DEF MutateHeldScopes, InferenceShape, AsInferred
    <3> QED
      BY <3>2, CacheAssumption
  <2> QED
    BY <2>1, <2>2, CachedNextCases
<1> QED
  BY <1>1, CachedInvariant, PTL DEF CachedSpec, FailedCallsKeepCache

-----------------------------------------------------------------------------
(* Without what clients wrote to it, an inference is the one of its program. *)
LEMMA AsInferredIsFresh ==
    ASSUME NEW i \in InferenceShape
    PROVE  AsInferred(i) = Inference(i.of, i.without)
<1>1. /\ AsInferred(i) \in InferenceShape
      /\ AsInferred(i).of = i.of /\ AsInferred(i).without = i.without /\ AsInferred(i).touched = FALSE
  BY DEF AsInferred, InferenceShape
<1>2. \A j \in InferenceShape : j = [of |-> j.of, without |-> j.without, touched |-> j.touched]
  BY DEF InferenceShape
<1> QED
  BY <1>1, <1>2 DEF Inference

(* Every call is, seen without the cache and what clients wrote to its scopes, a
   change of the program, a question that is answered afresh, or nothing. *)
LEMMA StepsAnswerAfresh ==
    CachedInv /\ [CachedNext]_cachedVars => [Fresh!Next]_(Fresh!freshVars)
<1> DEFINE seen == IF answer = NoAnswer THEN NoAnswer ELSE [answer EXCEPT !.from = AsInferred(@)]
<1> SUFFICES ASSUME CachedInv, [CachedNext]_cachedVars
             PROVE  Fresh!Next \/ (program' = program /\ seen' = seen)
  BY DEF Fresh!freshVars
<1>1. CASE UNCHANGED <<program, answer>>
  BY <1>1 DEF AsInferred
<1>2. ASSUME answer' = NoAnswer PROVE Fresh!Next
  BY <1>2 DEF Fresh!Next, Fresh!Change
<1>3. ASSUME NEW q \in Questions, NEW inference \in InferenceShape, AnswerFrom(q, inference),
             AsInferred(inference) = Inference(program, q[2]), program' = program
      PROVE  Fresh!Next
  <2>1. answer' \in AnswerShape
    BY <1>3 DEF AnswerFrom, AnswerShape
  <2>2. answer' # NoAnswer
    BY <2>1, CacheAssumption
  <2>3. seen' = [question |-> q, from |-> AsInferred(inference)]
    BY <1>3, <2>2 DEF AnswerFrom, AsInferred
  <2>4. Fresh!Ask(q)
    BY <1>3, <2>3 DEF Fresh!Ask, Fresh!Inference, Inference
  <2> QED
    BY <2>4 DEF Fresh!Next
<1>4. CASE GraphCall
  <2>1. result' = "Ok" => answer' = NoAnswer
    BY <1>4 DEF GraphCall, InvalidateIfOk, InvalidateCache
  <2>2. result' # "Ok" => UNCHANGED <<program, answer>>
    BY <1>4, FailedCallKeepsProgram DEF GraphCall, InvalidateIfOk, cacheVars, CachedInv, GraphInv
  <2> QED
    BY <1>1, <1>2, <2>1, <2>2
<1>5. CASE Query
  <2>1. program' = program
    BY <1>5 DEF Query, DiscardCache, Infer, Validate, InferNodeScope, InferNodeScopeExcluding,
                Answered, NodeMissing, graph, program
  <2>2. CASE DiscardCache
    BY <1>2, <2>2 DEF DiscardCache, InvalidateCache
  <2>3. ASSUME NEW q \in Questions, q[2] = NoNode, cache' = CachedInference, AnswerFrom(q, cache')
        PROVE  Fresh!Next
    BY <1>3, <2>1, <2>3, CachedInferenceCurrent, AsInferredIsFresh
  <2>4. CASE Infer \/ Validate
    BY <2>3, <2>4 DEF Infer, Validate, Questions
  <2>5. ASSUME NEW n \in Index, InferNodeScope(n)
        PROVE  Fresh!Next \/ UNCHANGED answer
    BY <2>3, <2>5 DEF InferNodeScope, NodeMissing, Questions
  <2>6. ASSUME NEW n \in Index, InferNodeScopeExcluding(n)
        PROVE  Fresh!Next \/ UNCHANGED answer
    <3>1. CASE AnswerFrom(<<"node_scope", n>>, Inference(program, n))
      <4>1. Inference(program, n) \in InferenceShape
        BY InferenceTyped DEF CachedInv, GraphInv
      <4>2. AsInferred(Inference(program, n)) = Inference(program, n)
        BY <4>1, AsInferredIsFresh DEF Inference
      <4> QED
        BY <1>3, <2>1, <3>1, <4>1, <4>2 DEF Questions
    <3> QED
      BY <2>6, <3>1 DEF InferNodeScopeExcluding, NodeMissing
  <2> QED
    BY <1>1, <1>5, <2>1, <2>2, <2>4, <2>5, <2>6 DEF Query
<1>6. CASE MutateHeldScopes
  BY <1>1, <1>6 DEF MutateHeldScopes, vars, program
<1>7. CASE UNCHANGED cachedVars
  BY <1>1, <1>7 DEF cachedVars, vars, cacheVars, program
<1> QED
  BY <1>4, <1>5, <1>6, <1>7, CachedNextCases

(* The wrapper implements a service without a cache: but for what clients write to
   the scopes they share, every answer is the one a fresh inference gives. *)
THEOREM CacheImplementsFreshAnswers == CachedSpec => ImplementsFreshAnswers
<1>1. CachedInit => Fresh!Init
  BY DEF CachedInit, Fresh!Init
<1> QED
  BY <1>1, CachedInvariant, StepsAnswerAfresh, PTL
     DEF CachedSpec, ImplementsFreshAnswers, Fresh!Spec

=============================================================================
