---------------------------- MODULE NodetyCached ----------------------------
(***************************************************************************)
(* The cached wrapper (src/nodety_cached.rs) around the node graph.  It    *)
(* keeps the scopes of the last inference and drops them when a mutating   *)
(* call succeeds.  The scopes are reference counted with interior          *)
(* mutability: a client that holds the cached ones and calls infer_bounds  *)
(* or Scope::infer on them changes what the cache answers next.            *)
(*                                                                         *)
(* What inference computes is not modelled here: an inference is named by  *)
(* the program it ran on.                                                  *)
(***************************************************************************)
EXTENDS NodeGraph

CONSTANTS
    NoCache,                \* the empty cache (None)
    NoAnswer                \* nothing was asked since the program changed

VARIABLES
    cache,      \* the cached inference, or NoCache
    held,       \* whether a client holds scopes it shares with the cache
    answer      \* the last question and the inference it was answered from

cacheVars == <<cache, held, answer>>
cachedVars == <<vars, cacheVars>>

(* children is an index over the parent fields; the rest is the program. *)
program == <<live, parent, sig, edges>>

(* A question: the call and the node one of whose ports is to be left out. *)
Questions == ({"infer", "validate", "node_scope"} \X {NoNode}) \cup ({"node_scope"} \X Index)

Inference(p, omitted) == [of |-> p, without |-> omitted, touched |-> FALSE]

ProgramShape ==
    (SUBSET Index) \X ParentFunctions \X [Index -> SignatureShape]
        \X [EdgeIndex -> (Index \X Index) \cup {NoEdge}]

InferenceShape == [of : ProgramShape, without : Index \cup {NoNode}, touched : BOOLEAN]

AnswerShape == [question : Questions, from : InferenceShape]

ASSUME CacheAssumption == NoCache \notin InferenceShape /\ NoAnswer \notin AnswerShape

-----------------------------------------------------------------------------
CachedInit ==
    /\ Init
    /\ cache = NoCache
    /\ held = FALSE
    /\ answer = NoAnswer

(* The scopes clients still hold are no longer shared with the cache. *)
InvalidateCache ==
    /\ cache' = NoCache
    /\ held' = FALSE
    /\ answer' = NoAnswer

(* Variant: the cache is dropped before the call is made. *)
InvalidateAlways == InvalidateCache

(* The wrapped call returns early with `?` when it fails. *)
InvalidateIfOk ==
    IF result' = "Ok" THEN InvalidateCache ELSE UNCHANGED cacheVars

CachedAddNode(s, p) == AddNode(s, p) /\ InvalidateIfOk

CachedUpdateNode(n, s, p) == UpdateNode(n, s, p) /\ InvalidateIfOk

CachedRemoveNode(n) == RemoveNode(n) /\ InvalidateIfOk

CachedAddEdge(s, t) == AddEdge(s, t) /\ InvalidateIfOk

(* Variant: removing an edge keeps the cache. *)
CachedRemoveEdgeStale(e) == RemoveEdge(e) /\ UNCHANGED cacheVars

CachedRemoveEdge(e) == RemoveEdge(e) /\ InvalidateIfOk

(* A query succeeds and leaves the graph alone. *)
Answered == result' = "Ok" /\ UNCHANGED graph

DiscardCache == InvalidateCache /\ Answered

(* The inference a question is answered from, and stored when there was none. *)
CachedInference == IF cache = NoCache THEN Inference(program, NoNode) ELSE cache

AnswerFrom(q, inference) == answer' = [question |-> q, from |-> inference]

(* infer hands out pointers to the scopes it caches. *)
Infer ==
    /\ cache' = CachedInference
    /\ AnswerFrom(<<"infer", NoNode>>, cache')
    /\ held' = TRUE
    /\ Answered

(* validate reads the scopes and hands out only errors. *)
Validate ==
    /\ cache' = CachedInference
    /\ AnswerFrom(<<"validate", NoNode>>, cache')
    /\ Answered
    /\ UNCHANGED held

NodeMissing == result' = "NodeNotFound" /\ UNCHANGED <<graph, held, answer>>

(* infer_node_scope without exclusions, or with exclusions that match no flow:
   infer runs first, and only then the node is looked up in its scopes. *)
InferNodeScope(n) ==
    /\ cache' = CachedInference
    /\ \/ n \in live /\ AnswerFrom(<<"node_scope", NoNode>>, cache') /\ held' = TRUE /\ Answered
       \/ n \notin live /\ NodeMissing

(* Variant: the scopes inferred without a port are stored in the empty cache. *)
InferNodeScopeExcludingStored(n) ==
    /\ n \in live
    /\ AnswerFrom(<<"node_scope", n>>, Inference(program, n))
    /\ cache' = IF cache = NoCache THEN Inference(program, n) ELSE cache
    /\ UNCHANGED held
    /\ Answered

(* infer_node_scope with exclusions that match a flow infers scopes of its own,
   neither taken from the cache nor stored in it. *)
InferNodeScopeExcluding(n) ==
    /\ \/ /\ n \in live
          /\ AnswerFrom(<<"node_scope", n>>, Inference(program, n))
          /\ UNCHANGED held
          /\ Answered
       \/ n \notin live /\ NodeMissing
    /\ UNCHANGED cache

(* A client infers the parameters left open in the scopes it was handed. *)
MutateHeldScopes ==
    /\ held
    /\ \E n \in live : sig[n].params # {}
    /\ cache' = [cache EXCEPT !.touched = TRUE]
    /\ UNCHANGED <<held, answer, vars>>

CachedNext ==
    \/ \E s \in Signatures, p \in Index \cup {NoNode} : CachedAddNode(s, p)
    \/ \E n \in Index, s \in Signatures, p \in Index \cup {NoNode} : CachedUpdateNode(n, s, p)
    \/ \E n \in Index : CachedRemoveNode(n)
    \/ \E s \in Index, t \in Index : CachedAddEdge(s, t)
    \/ \E e \in EdgeIndex : CachedRemoveEdge(e)
    \/ DiscardCache
    \/ Infer
    \/ Validate
    \/ \E n \in Index : InferNodeScope(n) \/ InferNodeScopeExcluding(n)
    \/ MutateHeldScopes

CachedSpec == CachedInit /\ [][CachedNext]_cachedVars

-----------------------------------------------------------------------------
(* Properties *)

(* Types; and clients share scopes with the cache only while it is filled. *)
CachedTypeOK ==
    /\ TypeOK
    /\ cache \in InferenceShape \cup {NoCache}
    /\ held \in BOOLEAN /\ (held => cache # NoCache)
    /\ answer \in AnswerShape \cup {NoAnswer}

(* What is cached is a complete inference of the program as it is now, whatever
   calls succeeded or failed and whatever else was inferred since. *)
CacheMatchesProgram ==
    cache # NoCache => cache.of = program /\ cache.without = NoNode

(* An inference without what clients have written to its scopes since. *)
AsInferred(inference) == [inference EXCEPT !.touched = FALSE]

(* "Returns cached scopes if the graph hasn't been modified since the last
   inference": a call that fails neither empties nor replaces the cache. *)
FailedCallsKeepCache ==
    [][(cache # NoCache /\ result' # "Ok")
        => cache' # NoCache /\ AsInferred(cache') = AsInferred(cache)]_cachedVars

(* But for what clients themselves have written to the scopes they share, every
   answer is the one a fresh inference would have given. *)
Fresh == INSTANCE FreshAnswers WITH
            answer <- IF answer = NoAnswer THEN NoAnswer ELSE [answer EXCEPT !.from = AsInferred(@)]
ImplementsFreshAnswers == Fresh!Spec

(* "Validate the graph using the inferred types": the inference validate answers
   from is one nobody but infer wrote to. *)
ValidatesInferredTypes ==
    (answer # NoAnswer /\ answer.question[1] = "validate") => ~answer.from.touched

=============================================================================
