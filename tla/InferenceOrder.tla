--------------------------- MODULE InferenceOrder ---------------------------
(***************************************************************************)
(* Inference run twice on the same program, each time with the flows in an *)
(* order of its own: the order in which nodes and edges were added must    *)
(* not show in the result.  collect_flows (src/nodety/inference.rs) lists  *)
(* flows by their source node, in topological order, and a pass picks      *)
(* parameters in the order in which the flows first mention them.          *)
(***************************************************************************)
EXTENDS Inference

CONSTANT NoResult       \* the first run has not ended yet

VARIABLE first       \* what the first run inferred, or NoResult

orderVars == <<engineVars, first>>

OrderInit == Init /\ first = NoResult

(* f is listed before g however the nodes were added: an edge leads from f, over
   any number of nodes, to the node that g leaves. *)
Precedes(f, g) ==
    \A S \in SUBSET program.flows :
        (\A h \in program.flows : (\E k \in S \cup {f} : k.target.node = h.source.node) => h \in S) => g \in S

(* The first candidate for p may have been found before that of all others. *)
Due(p) ==
    \A q \in Param \ {p} :
        candidates[q] # {} => ~\E g \in flowsOf[q] : \A f \in flowsOf[p] : Precedes(g, f)

(* What the parameters stand for, normalized as a client reads it. *)
Result == [p \in Param |-> IF inferred[p] = Open THEN Open ELSE Normal(inferred[p])]

(* The same program is inferred again, in fresh scopes. *)
Again ==
    /\ phase = "done"
    /\ first = NoResult
    /\ first' = Result
    /\ flows' = program.flows
    /\ inferred' = [p \in Param |-> Open]
    /\ step' = 0
    /\ phase' = "step"
    /\ breakCycles' = FALSE
    /\ toStop' = StopAfter
    /\ ClearPass
    /\ UNCHANGED <<program, bound>>

OrderNext ==
    \/ Again
    \/ /\ StartStep \/ Finish \/ Collect \/ EndPass \/ \E p \in Param : Due(p) /\ (Pick(p) \/ Skip(p))
       /\ UNCHANGED first

OrderSpec == OrderInit /\ [][OrderNext]_orderVars

-----------------------------------------------------------------------------

(* "Inference gives the same result for every order in which the nodes were
   added": two runs over the same flows in different orders infer the same types. *)
OrderIndependent == (phase = "done" /\ first # NoResult) => Result = first

=============================================================================
