--------------------------- MODULE AsyncDecompose ---------------------------
(***************************************************************************)
(* The preprocessing step ConvertTritonGPUToLLVM::decomposeInsertSliceAsyncOp *)
(* of TritonGPUToLLVMPass.cpp.  On the GENX target every                   *)
(* insert_slice_async whose vectorised byte width the compute capability   *)
(* cannot copy asynchronously is rewritten into a synchronous load plus an *)
(* insert_slice; then async_commit_group markers are erased where          *)
(* unsupported, and async_wait markers are erased where unsupported or, if *)
(* anything was decomposed, replaced by a wait-for-all (num = 0).          *)
(*                                                                         *)
(* The module is a flat sequence of N operation slots in walk order.  Each *)
(* of the three mod.walk loops is one action: the walks are sequential and *)
(* a single walk's visits are independent of each other, except through   *)
(* the flag `decomposed' that the first walk sets and the third one reads. *)
(***************************************************************************)
EXTENDS AsyncOps

-----------------------------------------------------------------------------
VARIABLES
    target,      \* the pass's target option
    capability,  \* the pass's computeCapability option
    ops,         \* the module's operation slots
    walk,        \* which part of decomposeInsertSliceAsyncOp runs next
    decomposed,  \* the local flag `decomposed'
    input        \* history: the module as the pass received it

vars == <<target, capability, ops, walk, decomposed, input>>

Init ==
    /\ target \in TargetChoices
    /\ capability \in Capabilities
    /\ ops \in [Pos -> InputOps]
    /\ input = ops
    /\ walk = "start"
    /\ decomposed = FALSE

\* Early return: the decomposition only runs for GENX.
SkipOtherTarget ==
    /\ walk = "start"
    /\ target # "GENX"
    /\ walk' = "done"
    /\ UNCHANGED <<target, capability, ops, decomposed, input>>

\* Mutant: the first walk never records that it decomposed something.
WalkInsertSliceAsyncNoFlag ==
    /\ walk = "start"
    /\ target = "GENX"
    /\ ops' = [i \in Pos |-> IF NeedsDecompose(ops[i], capability)
                             THEN Decomposition(ops[i]) ELSE ops[i]]
    /\ decomposed' = FALSE
    /\ walk' = "commit"
    /\ UNCHANGED <<target, capability, input>>

\* First walk: decompose every ineligible insert_slice_async.
WalkInsertSliceAsync ==
    /\ walk = "start"
    /\ target = "GENX"
    /\ ops' = [i \in Pos |-> IF NeedsDecompose(ops[i], capability)
                             THEN Decomposition(ops[i]) ELSE ops[i]]
    /\ decomposed' = \E i \in Pos : NeedsDecompose(ops[i], capability)
    /\ walk' = "commit"
    /\ UNCHANGED <<target, capability, input>>

\* Second walk: erase commit markers the capability does not support.
WalkAsyncCommitGroup ==
    /\ walk = "commit"
    /\ ops' = [i \in Pos |->
                 IF ops[i].kind = "async_commit_group"
                    /\ ~CommitSupported(capability)
                 THEN ErasedOp ELSE ops[i]]
    /\ walk' = "wait"
    /\ UNCHANGED <<target, capability, decomposed, input>>

\* Third walk: erase unsupported waits, or widen them to wait-for-all.
WalkAsyncWait ==
    /\ walk = "wait"
    /\ ops' = [i \in Pos |->
                 IF ops[i].kind = "async_wait"
                 THEN WaitRewrite(ops[i], capability, decomposed)
                 ELSE ops[i]]
    /\ walk' = "done"
    /\ UNCHANGED <<target, capability, decomposed, input>>

Next ==
    \/ SkipOtherTarget
    \/ WalkInsertSliceAsync
    \/ WalkAsyncCommitGroup
    \/ WalkAsyncWait

Spec == Init /\ [][Next]_vars

-----------------------------------------------------------------------------
TypeOK ==
    /\ target \in Targets
    /\ capability \in Nat
    /\ ops \in [Pos -> Ops]
    /\ input \in [Pos -> InputOps]
    /\ walk \in {"start", "commit", "wait", "done"}
    /\ decomposed \in BOOLEAN

\* Spec "conservative wait": once the pass is done, if any insert_slice_async
\* anywhere in the module was decomposed, every async_wait left is a
\* wait-for-all (num = 0), even those placed before the decomposed copy.
ConservativeWait ==
    walk = "done" =>
        ((\E i \in Pos : ops[i].kind = "load_insert") =>
            \A j \in Pos : ops[j].kind = "async_wait" => ops[j].num = 0)

\* An asynchronous copy that survives the pass keeps the markers that order
\* it: if some insert_slice_async is left, no commit or wait was erased.
\* (Erasing them while a copy stays asynchronous would leave the copy
\* unsynchronised in the generated kernel.)
AsyncCopiesKeepMarkers ==
    walk = "done" =>
        ((\E i \in Pos : ops[i].kind = "insert_slice_async") =>
            \A j \in Pos :
                input[j].kind \in {"async_commit_group", "async_wait"} =>
                    ops[j] # ErasedOp)

\* Every operation created as a replacement (the load and the insert_slice
\* of a decomposition, the new wait-for-all) carries exactly the
\* warp-specialisation attributes of the operation it replaces.
WSAttrsPreserved ==
    walk = "done" =>
        \A i \in Pos :
            /\ ops[i].kind = "load_insert" =>
                 /\ ops[i].loadAttrs = input[i].attrs \cap WSNames
                 /\ ops[i].insertAttrs = input[i].attrs \cap WSNames
            /\ (ops[i].kind = "async_wait" /\ ops[i] # input[i]) =>
                 ops[i].attrs = input[i].attrs \cap WSNames

\* Refinement mapping: until the last walk returns, the function has not
\* finished and the module it hands back is still its input.
Contract == INSTANCE AsyncContract WITH
    ops <- IF walk = "done" THEN ops ELSE input,
    finished <- (walk = "done")

\* The three walks, run one after the other with the flag between them,
\* rewrite the module exactly as the one-step function does: no walk undoes
\* or disturbs what an earlier one did, and the third reads a flag that
\* says whether any copy was decomposed (decomposeInsertSliceAsyncOp).
ImplementsAsyncContract == Contract!Spec

\* The vector width the spec (section 4.1) prescribes: the minimum of the
\* source contiguity, the destination's shared vec and the mask alignment,
\* capped at 128 bits.
SpecByteWidth(op) ==
    LET v1 == MinOf(op.contig, op.vec)
        v  == IF op.mask = NoMask THEN v1 ELSE MinOf(v1, op.mask)
    IN  MinOf(128, op.bits * v) \div 8

\* Spec section 4.1: on GENX an insert_slice_async is decomposed exactly when
\* the byte width computed by the spec's rule is not natively supported.
DecomposedPerSpec ==
    (walk = "done" /\ target = "GENX") =>
        \A i \in Pos :
            input[i].kind = "insert_slice_async" =>
                (ops[i].kind = "load_insert"
                    <=> SpecByteWidth(input[i])
                          \notin EligibleLoadByteWidth(capability))

\* The comment at the head of decomposeInsertSliceAsyncOp: the lowering of
\* insert_slice_async emits PTX, which has no GENX counterpart, and the
\* decomposition exists so that it works on GENX; hence on GENX no
\* insert_slice_async should be left once it is done.
GenxNoAsyncCopyLeft ==
    (walk = "done" /\ target = "GENX") =>
        \A i \in Pos : ops[i].kind # "insert_slice_async"
=============================================================================
