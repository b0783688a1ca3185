---------------------------- MODULE FreshAnswers ----------------------------
(***************************************************************************)
(* What NodetyCached promises: every question about the program is         *)
(* answered as if inference were run on the program of that moment, and    *)
(* nobody else had touched its result.  A cache is one way to keep this    *)
(* promise and does not occur here.                                        *)
(***************************************************************************)

CONSTANTS
    Questions,      \* what can be asked: pairs <<call, what to leave out>>
    NoAnswer        \* nothing was asked since the program last changed

VARIABLES
    program,        \* the program graph
    answer          \* what was asked last and the inference it was answered from

freshVars == <<program, answer>>

(* An inference is named by the program it ran on and the node whose port it left
   out; `touched` says that somebody has inferred parameters in its scopes since. *)
Inference(p, omitted) == [of |-> p, without |-> omitted, touched |-> FALSE]

Init == answer = NoAnswer

Change == answer' = NoAnswer

Ask(q) ==
    /\ answer' = [question |-> q, from |-> Inference(program, q[2])]
    /\ UNCHANGED program

Next == Change \/ \E q \in Questions : Ask(q)

Spec == Init /\ [][Next]_freshVars

=============================================================================
