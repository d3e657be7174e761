---------------------------- MODULE AsyncContract ----------------------------
(***************************************************************************)
(* What ConvertTritonGPUToLLVM::decomposeInsertSliceAsyncOp does to a      *)
(* module, as one step: on GENX each operation of the input is rewritten   *)
(* on its own, a wait depending on the module only through whether any     *)
(* copy of the input is decomposed; on the other targets the module is     *)
(* left as it is.  AsyncDecompose performs this in three walks.            *)
(***************************************************************************)
EXTENDS AsyncOps

VARIABLES
    target,      \* the pass's target option
    capability,  \* the pass's computeCapability option
    input,       \* the module as the function receives it
    ops,         \* the module's operation slots
    finished     \* whether the function has returned

vars == <<target, capability, input, ops, finished>>

\* Whether the function decomposes some copy of the module `in'.
AnyDecomposed(in, cc) == \E i \in Pos : NeedsDecompose(in[i], cc)

\* The operation that stands in slot i once the function has returned.
Rewritten(in, cc, i) ==
    IF NeedsDecompose(in[i], cc) THEN Decomposition(in[i])
    ELSE IF in[i].kind = "async_commit_group" /\ ~CommitSupported(cc)
         THEN ErasedOp
    ELSE IF in[i].kind = "async_wait"
         THEN WaitRewrite(in[i], cc, AnyDecomposed(in, cc))
    ELSE in[i]

Init ==
    /\ target \in TargetChoices
    /\ capability \in Capabilities
    /\ input \in [Pos -> InputOps]
    /\ ops = input
    /\ finished = FALSE

\* The whole function: the GENX test, then every operation rewritten.
Decompose ==
    /\ ~finished
    /\ ops' = IF target = "GENX"
              THEN [i \in Pos |-> Rewritten(input, capability, i)]
              ELSE input
    /\ finished' = TRUE
    /\ UNCHANGED <<target, capability, input>>

Spec == Init /\ [][Decompose]_vars
=============================================================================
