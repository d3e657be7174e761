---------------------------- MODULE PassContract ----------------------------
(***************************************************************************)
(* What ConvertTritonGPUToLLVM promises its caller: it rewrites the module *)
(* for a while and then ends in exactly one of two ways, success with a    *)
(* module in which no mid-level (Triton, TritonGPU, TritonNvidiaGPU, GPU)  *)
(* operation is left, or a reported failure.  It never ends any other way, *)
(* and it always ends.                                                      *)
(***************************************************************************)

VARIABLES result, fullyLegal

vars == <<result, fullyLegal>>

Results == {"running", "success", "failure"}

Init ==
    /\ result = "running"
    /\ fullyLegal \in BOOLEAN

\* The pass edits the module in place; legality may change either way.
Rewrite ==
    /\ result = "running"
    /\ fullyLegal' \in BOOLEAN
    /\ UNCHANGED result

Succeed ==
    /\ result = "running"
    /\ fullyLegal
    /\ result' = "success"
    /\ UNCHANGED fullyLegal

Fail ==
    /\ result = "running"
    /\ result' = "failure"
    /\ UNCHANGED fullyLegal

Next == Rewrite \/ Succeed \/ Fail

\* The caller gets an answer: the pass does not run forever.
Spec == Init /\ [][Next]_vars /\ WF_vars(Succeed \/ Fail)

\* The safety part alone, the part the refinement proof covers.
SafetySpec == Init /\ [][Next]_vars

=============================================================================
