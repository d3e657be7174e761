------------------------------ MODULE Pipeline ------------------------------
(***************************************************************************)
(* ConvertTritonGPUToLLVM::runOnOperation as a sequence of stages over the *)
(* operations whose fate decides how the pass ends: the functions and      *)
(* their returns, the TMA operations and the tensorPtrMap built from them, *)
(* the remaining mid-level operations the main conversion must lower, and  *)
(* the cluster CTA id the main patterns may emit.  What happens inside     *)
(* each stage is modelled in AsyncDecompose and CallingConvention; here a  *)
(* stage is one step, and what is kept is the order of the stages, the     *)
(* signalPassFailure calls and the early returns.                          *)
(***************************************************************************)
EXTENDS Naturals, FiniteSets

CONSTANTS
    Funcs,          \* the tt.func operations of the module
    TmaIds,         \* the InsertSliceTMAOp and StoreAsyncTMAOp operations
    OpKinds,        \* kinds of the other mid-level operations
    LowerableKinds, \* the kinds the main pattern set can lower
    TargetChoices,
    CTACounts,
    SigChoices,     \* how a signature's type conversion ends
    DriverResults   \* whether applyOpPatternsAndFold reports convergence

Targets == {"NVVM", "ROCDL", "GENX"}
\* convertFuncOpToLLVMFuncOp converts every type ("ok"), fails on a
\* parameter type only ("param"), or fails on a result type ("result").
SigOutcomes == {"ok", "param", "result"}

ASSUME ConstantsAssumption ==
    /\ IsFiniteSet(Funcs) /\ IsFiniteSet(TmaIds)
    /\ LowerableKinds \subseteq OpKinds
    /\ TargetChoices \subseteq Targets
    /\ CTACounts \subseteq Nat \ {0}
    /\ SigChoices \subseteq SigOutcomes /\ SigChoices # {}
    /\ DriverResults \subseteq BOOLEAN /\ DriverResults # {}

\* A function: kernel or device function, how its signature converts,
\* whether its tt.return has operands.
FuncInfos == [kernel: BOOLEAN, sig: SigChoices, retOperands: BOOLEAN]
\* A TMA operation: its kind, whether its pointer operand is a pointer to a
\* ranked tensor (a tensor pointer), and what defines its mask.
TmaInfos ==
    [kind: {"insert_slice_tma", "store_async_tma"}, tensorPtr: BOOLEAN,
     mask: {"none", "splat", "value"}]
Stages == {"start", "collect", "cleanup", "funcs", "callret", "main", "fold", "done"}
Outcomes == {"running", "success", "failure", "crash"}

VARIABLES
    target, numCTAs,
    funcs,        \* the functions as read from the input
    fnLowered,    \* the set of functions that are llvm.func
    retLowered,   \* the set of functions whose return is llvm.return
    tma,          \* each TMA operation's current state, by identity
    live,         \* the identities of the TMA operations in the module
    tensorPtrMap, \* the keys of tensorPtrMap (Operation*)
    midOps,       \* the kinds of the other mid-level operations left
    ctaIdUsed,    \* whether some value uses a ClusterCTAIdOp result
    failed,       \* signalPassFailure has been called
    stage, outcome

vars == <<target, numCTAs, funcs, fnLowered, retLowered, tma, live,
          tensorPtrMap, midOps, ctaIdUsed, failed, stage, outcome>>

Init ==
    /\ target \in TargetChoices
    /\ numCTAs \in CTACounts
    /\ funcs \in [Funcs -> FuncInfos]
    /\ \A f \in Funcs : funcs[f].sig = "result" => funcs[f].retOperands
    /\ fnLowered = {}
    /\ retLowered = {}
    /\ tma \in [TmaIds -> TmaInfos]
    /\ \A i \in TmaIds : tma[i].kind = "store_async_tma" => tma[i].mask = "none"
    /\ live = TmaIds
    /\ tensorPtrMap = {}
    /\ midOps \in SUBSET OpKinds
    /\ ctaIdUsed = FALSE
    /\ failed = FALSE
    /\ stage = "start"
    /\ outcome = "running"

-----------------------------------------------------------------------------
\* decomposeInsertSliceAsyncOp, ModuleAllocation and ModuleMembarAnalysis:
\* they touch none of the operations tracked here.
Preprocess ==
    /\ stage = "start"
    /\ stage' = "collect"
    /\ UNCHANGED <<target, numCTAs, funcs, fnLowered, retLowered, tma, live,
                   tensorPtrMap, midOps, ctaIdUsed, failed, outcome>>

\* Mutant: only the InsertSliceTMAOp walk records its tensor pointers.
CollectTensorPtrMapInsertOnly ==
    /\ stage = "collect"
    /\ tensorPtrMap' = {i \in live : tma[i].tensorPtr /\ tma[i].kind = "insert_slice_tma"}
    /\ stage' = "cleanup"
    /\ UNCHANGED <<target, numCTAs, funcs, fnLowered, retLowered, tma, live,
                   midOps, ctaIdUsed, failed, outcome>>

\* The two walks that fill tensorPtrMap: every TMA operation whose pointer
\* operand is a tensor pointer is recorded under its own identity.
CollectTensorPtrMap ==
    /\ stage = "collect"
    /\ tensorPtrMap' = {i \in live : tma[i].tensorPtr}
    /\ stage' = "cleanup"
    /\ UNCHANGED <<target, numCTAs, funcs, fnLowered, retLowered, tma, live,
                   midOps, ctaIdUsed, failed, outcome>>

\* Mutant: the pattern replaces the operation (replaceOpWithNewOp) instead
\* of updating its mask in place.
CleanupSplatMaskReplace ==
    LET splat == {i \in live : tma[i].kind = "insert_slice_tma" /\ tma[i].mask = "splat"}
    IN /\ stage = "cleanup"
       /\ live' = (live \ splat) \cup {<<"new", i>> : i \in splat}
       /\ \E converged \in DriverResults : failed' = (failed \/ ~converged)
       /\ stage' = "funcs"
       /\ UNCHANGED <<target, numCTAs, funcs, fnLowered, retLowered, tma,
                      tensorPtrMap, midOps, ctaIdUsed, outcome>>

\* FoldSplatMaskInInsertAsync on one InsertSliceTMAOp: no mask, or a mask
\* not defined by a tt.splat, is a match failure; a splat mask is replaced
\* by the splat's operand.
FoldSplatMask(op) == IF op.mask = "splat" THEN [op EXCEPT !.mask = "value"] ELSE op

\* FoldSplatMaskInInsertAsync run by applyOpPatternsAndFold over the
\* InsertSliceTMAOps: a splat mask is replaced by its scalar operand, in
\* place (modifyOpInPlace), so the operation keeps its identity.  When the
\* driver reports failure the pass signals failure and does not return.
CleanupSplatMask ==
    /\ stage = "cleanup"
    /\ tma' = [i \in DOMAIN tma |->
                 IF tma[i].kind = "insert_slice_tma" THEN FoldSplatMask(tma[i]) ELSE tma[i]]
    /\ \E converged \in DriverResults : failed' = (failed \/ ~converged)
    /\ stage' = "funcs"
    /\ UNCHANGED <<target, numCTAs, funcs, fnLowered, retLowered, live,
                   tensorPtrMap, midOps, ctaIdUsed, outcome>>

\* "Lower functions": FuncOpConversion fails, and its rewrites are rolled
\* back, when convertFuncOpToLLVMFuncOp cannot convert the signature.  The
\* function target marks no Triton operation illegal, so the partial
\* conversion succeeds with that tt.func left in place.
LowerFunctions ==
    /\ stage = "funcs"
    /\ fnLowered' = {f \in Funcs : funcs[f].sig = "ok"}
    /\ stage' = "callret"
    /\ UNCHANGED <<target, numCTAs, funcs, retLowered, tma, live,
                   tensorPtrMap, midOps, ctaIdUsed, failed, outcome>>

\* "Convert call and ret ops".  The conversion driver first remaps the
\* operands of a tt.return to converted types; when the function's result
\* type does not convert, neither do the operands and the pattern fails,
\* leaving the return (the function target marks no Triton operation
\* illegal, so the stage succeeds).  Otherwise ReturnOpConversion takes the
\* enclosing llvm.func: for a return still inside a tt.func that is null,
\* and the attribute lookup on it dereferences null.  A kernel return with
\* operands fails on a function marked nvvm.kernel (NVVM and ROCDL) and is
\* lowered otherwise.
CrashingReturn == \E f \in Funcs : funcs[f].sig = "param"

ConvertCallsAndReturns ==
    /\ stage = "callret"
    /\ \/ /\ CrashingReturn
          /\ outcome' = "crash"
          /\ stage' = "done"
          /\ UNCHANGED retLowered
       \/ /\ ~CrashingReturn
          /\ retLowered' = {f \in fnLowered :
                              ~(funcs[f].kernel /\ funcs[f].retOperands
                                /\ target \in {"NVVM", "ROCDL"})}
          /\ stage' = "main"
          /\ UNCHANGED outcome
    /\ UNCHANGED <<target, numCTAs, funcs, fnLowered, tma, live,
                   tensorPtrMap, midOps, ctaIdUsed, failed>>

\* The mid-level operations the main conversion target marks illegal: a
\* partial conversion fails, and is rolled back, when one of them is left.
IllegalLeft ==
    \/ fnLowered # Funcs
    \/ retLowered # Funcs
    \/ midOps \ LowerableKinds # {}

\* Mutant: an operation no pattern lowers does not fail the conversion
\* (as if the target left its dialect's legality unknown).
MainConversionIgnoreIllegal ==
    /\ stage = "main"
    /\ midOps' = midOps \ LowerableKinds /\ live' = {}
    /\ ctaIdUsed' \in BOOLEAN
    /\ stage' = "fold"
    /\ UNCHANGED <<target, numCTAs, funcs, fnLowered, retLowered, tma,
                   tensorPtrMap, failed, outcome>>

\* The main applyPartialConversion with the full pattern set; on failure
\* the pass returns at once.  The patterns lower every remaining TMA and
\* lowerable operation and may emit cluster CTA id reads.
MainConversion ==
    /\ stage = "main"
    /\ \/ /\ IllegalLeft
          /\ outcome' = "failure"
          /\ stage' = "done"
          /\ UNCHANGED <<midOps, live, ctaIdUsed>>
       \/ /\ ~IllegalLeft
          /\ midOps' = {} /\ live' = {}
          /\ ctaIdUsed' \in BOOLEAN
          /\ stage' = "fold"
          /\ UNCHANGED outcome
    /\ UNCHANGED <<target, numCTAs, funcs, fnLowered, retLowered, tma,
                   tensorPtrMap, failed>>

\* With a single CTA every use of the cluster CTA id is replaced by the
\* constant 0.  runOnOperation then returns; the pass manager reports a
\* failure if signalPassFailure was called on the way.
FoldCTAId ==
    /\ stage = "fold"
    /\ ctaIdUsed' = (ctaIdUsed /\ numCTAs # 1)
    /\ outcome' = IF failed THEN "failure" ELSE "success"
    /\ stage' = "done"
    /\ UNCHANGED <<target, numCTAs, funcs, fnLowered, retLowered, tma, live,
                   tensorPtrMap, midOps, failed>>

Next ==
    \/ Preprocess \/ CollectTensorPtrMap \/ CleanupSplatMask
    \/ LowerFunctions \/ ConvertCallsAndReturns \/ MainConversion \/ FoldCTAId

\* runOnOperation is straight-line code on one thread: a step that can be
\* taken is taken.
Spec == Init /\ [][Next]_vars /\ WF_vars(Next)

-----------------------------------------------------------------------------
TypeOK ==
    /\ target \in Targets /\ numCTAs \in Nat \ {0}
    /\ funcs \in [Funcs -> FuncInfos]
    /\ fnLowered \subseteq Funcs /\ retLowered \subseteq Funcs
    /\ tma \in [TmaIds -> TmaInfos]
    /\ live \subseteq TmaIds /\ tensorPtrMap \subseteq TmaIds
    /\ midOps \subseteq OpKinds
    /\ ctaIdUsed \in BOOLEAN /\ failed \in BOOLEAN
    /\ stage \in Stages /\ outcome \in Outcomes

\* The module has no mid-level operation left.
FullyLegal ==
    fnLowered = Funcs /\ retLowered = Funcs /\ midOps = {} /\ live = {}

\* Refinement mapping: a crash has no abstract counterpart.
Contract == INSTANCE PassContract WITH
    result <- outcome, fullyLegal <- FullyLegal

\* The pass implements its contract: it always ends, and it ends either in
\* a reported failure or in success with a fully legalized module
\* (runOnOperation and its applyPartialConversion calls).
ImplementsContract == Contract!Spec

\* When the main conversion reads tensorPtrMap, every TMA operation with a
\* tensor pointer in the module is a key of it, and every key is an
\* operation still in the module (the walks at 387-406 and the cleanup at
\* 408-418 between them and the main patterns).
TensorPtrMapCurrent ==
    stage = "main" =>
        /\ \A i \in live : tma[i].tensorPtr => i \in tensorPtrMap
        /\ tensorPtrMap \subseteq live

\* Once signalPassFailure has been called, the pass no longer rewrites the
\* module: a failure aborts the pipeline (spec, failure categories).
NoRewriteAfterFailure ==
    [][failed => UNCHANGED <<fnLowered, retLowered, tma, live, midOps, ctaIdUsed>>]_vars

=============================================================================
