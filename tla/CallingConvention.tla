------------------------- MODULE CallingConvention --------------------------
(***************************************************************************)
(* The function, call and return lowering of TritonGPUToLLVMPass.cpp: the  *)
(* "Lower functions" partial conversion (FuncOpConversion), then           *)
(* initSharedMemory, then the "Convert call and ret ops" partial           *)
(* conversion (CallOpConversion, ReturnOpConversion).                      *)
(*                                                                         *)
(* Each partial conversion is one action.  Its patterns read only what the *)
(* previous stage produced (the caller's and callee's converted function,  *)
(* the global_smem symbol), never each other's output, so the order in     *)
(* which the driver visits the operations of one stage is unobservable.    *)
(* A pattern that fails leaves its operation in place: the stages' targets *)
(* (TritonLLVMFunctionConversionTarget) mark no Triton operation illegal,  *)
(* so such a failure does not fail the stage.                              *)
(***************************************************************************)
EXTENDS Naturals, Sequences

CONSTANTS
    Funcs,          \* the module's tt.func operations
    CallSites,      \* the module's tt.call operations
    ParamCounts,    \* possible numbers of parameters of a function
    MaxResults,     \* largest number of results of a function
    TargetConfigs,  \* possible <<target, threads-per-warp>> pairs
    WarpCounts,     \* possible values of triton_gpu.num-warps
    WarpGroups,     \* possible values of triton_gpu.num-warp-groups-per-cta
    Absent          \* model value: a module attribute that is not present

Targets == {"NVVM", "ROCDL", "GENX"}

ASSUME ConstantsAssumption ==
    /\ ParamCounts \subseteq Nat
    /\ MaxResults \in Nat
    /\ TargetConfigs \subseteq Targets \X (Nat \ {0})
    /\ WarpCounts \subseteq Nat \ {0}
    /\ WarpGroups \subseteq Nat \ {0}
    /\ Absent \notin Nat

\* The lowered result type of a function or call with n results: nothing,
\* the single converted type, or a struct packing all of them
\* (LLVMTypeConverter::packFunctionResults).
Shapes == {"void", "single", "struct"}
PackedShape(n) == IF n = 0 THEN "void" ELSE IF n = 1 THEN "single" ELSE "struct"

FuncAttrNames ==
    {"nvvm.kernel", "nvvm.maxntid", "genx.kernel", "genx.max_work_group_size",
     "genx.reqd_sub_group_size", "noinline"}

\* The input module: which functions are kernels (LLVM::isKernel: public
\* visibility), their signatures, which carry an allocation.offset, and
\* each call's caller and callee.  Calls target device functions only, as
\* Triton emits them.
Modules ==
    { m \in [kernel: [Funcs -> BOOLEAN], params: [Funcs -> ParamCounts],
             results: [Funcs -> 0..MaxResults], offset: [Funcs -> BOOLEAN],
             caller: [CallSites -> Funcs], callee: [CallSites -> Funcs],
             numWarps: WarpCounts, warpGroups: WarpGroups \cup {Absent}] :
         \A c \in CallSites : ~m.kernel[m.callee[c]] }

TtOp == [dialect |-> "tt"]
LLVMFuncs ==
    [dialect: {"llvm"}, params: Nat, result: Shapes,
     attrs: SUBSET FuncAttrNames, maxThreads: Nat]
\* A call's k-th result: the k-th result of the llvm.call itself, or the
\* extractvalue of field k of its struct; indexes stay within the fields.
ResultValues == [from: {"extract", "result"}, index: 0..(MaxResults - 1)]
LLVMCalls ==
    [dialect: {"llvm"}, args: Nat, extra: {"stack_ptr", "smem_base"},
     result: Shapes, values: Seq(ResultValues)]

-----------------------------------------------------------------------------
VARIABLES
    target,      \* the pass's target option
    tpw,         \* triton_gpu.threads-per-warp of the module
    mod,         \* the input module (never changes)
    stage,       \* which part of runOnOperation runs next
    fn,          \* each function: still tt.func, or the llvm.func made of it
    smemGlobal,  \* whether the global_smem symbol has been created
    call,        \* each call site: still tt.call, or the llvm.call made of it
    ret          \* each function's return: "tt", or the shape it returns

vars == <<target, tpw, mod, stage, fn, smemGlobal, call, ret>>

\* Mutant: the warp-group multiplier is ignored.
EffectiveNumWarpsIgnoringGroups == mod.numWarps

\* numWarps as runOnOperation computes it: num-warps times the number of
\* warp groups per CTA when that attribute is present.
EffectiveNumWarps ==
    IF mod.warpGroups = Absent THEN mod.numWarps
    ELSE mod.numWarps * mod.warpGroups

\* The thread-count attribute FuncOpConversion puts on every function.
MaxThreads ==
    IF target = "GENX" THEN tpw * EffectiveNumWarps ELSE 32 * EffectiveNumWarps

\* The target attributes FuncOpConversion sets on the new llvm.func.
TargetFuncAttrs(f) ==
    IF target = "GENX"
    THEN {"genx.max_work_group_size", "genx.reqd_sub_group_size"}
           \cup (IF mod.kernel[f] THEN {"genx.kernel"} ELSE {})
    ELSE {"nvvm.maxntid"} \cup (IF mod.kernel[f] THEN {"nvvm.kernel"} ELSE {})

\* FuncOpConversion: a device function gets the trailing shared-memory
\* pointer (amendFuncOp) and the noinline passthrough; every function gets
\* the target attributes.
FuncOpConversion(f) ==
    [dialect |-> "llvm",
     params |-> mod.params[f] + (IF mod.kernel[f] THEN 0 ELSE 1),
     result |-> PackedShape(mod.results[f]),
     attrs |-> TargetFuncAttrs(f)
                 \cup (IF mod.kernel[f] THEN {} ELSE {"noinline"}),
     maxThreads |-> MaxThreads]

\* Mutant: the allocation.offset branch forgets the trailing operand.
CallOpConversionNoBaseWithOffset(c) ==
    LET n == mod.results[mod.callee[c]] IN
    [dialect |-> "llvm",
     args |-> mod.params[mod.callee[c]]
                + (IF mod.offset[mod.caller[c]] THEN 0 ELSE 1),
     extra |-> IF mod.offset[mod.caller[c]] THEN "smem_base" ELSE "stack_ptr",
     result |-> PackedShape(n),
     values |-> [k \in 1..n |->
                   IF n < 2 THEN [from |-> "result", index |-> k - 1]
                   ELSE [from |-> "extract", index |-> k - 1]]]

\* Mutant: the extracted field indexes count from 1.
CallOpConversionIndexFromOne(c) ==
    LET n == mod.results[mod.callee[c]] IN
    [dialect |-> "llvm",
     args |-> mod.params[mod.callee[c]] + 1,
     extra |-> IF mod.offset[mod.caller[c]] THEN "smem_base" ELSE "stack_ptr",
     result |-> PackedShape(n),
     values |-> [k \in 1..n |->
                   IF n < 2 THEN [from |-> "result", index |-> k - 1]
                   ELSE [from |-> "extract", index |-> k]]]

\* CallOpConversion: the promoted operands plus one trailing operand, the
\* caller's stack pointer or, when the caller has an allocation.offset, the
\* shared-memory base; the results are packed when there are several and
\* then extracted one by one.
CallOpConversion(c) ==
    LET n == mod.results[mod.callee[c]] IN
    [dialect |-> "llvm",
     args |-> mod.params[mod.callee[c]] + 1,
     extra |-> IF mod.offset[mod.caller[c]] THEN "smem_base" ELSE "stack_ptr",
     result |-> PackedShape(n),
     values |-> [k \in 1..n |->
                   IF n < 2 THEN [from |-> "result", index |-> k - 1]
                   ELSE [from |-> "extract", index |-> k - 1]]]

\* Mutant: a single return value is packed into a struct too.
ReturnOpConversionPackSingle(f) ==
    LET n == mod.results[f] IN
    IF "nvvm.kernel" \in fn[f].attrs /\ n > 0 THEN "tt"
    ELSE IF n < 1 THEN "void" ELSE "struct"

\* Mutant: the kernel test is missing; kernels take the device path.
ReturnOpConversionNoKernelCheck(f) ==
    LET n == mod.results[f] IN
    PackedShape(n)

\* ReturnOpConversion, with f the enclosing (already converted) function:
\* in a function marked nvvm.kernel a return with operands fails to match
\* and stays, one without becomes a void return; in a device function
\* fewer than two operands are returned as they are and two or more are
\* packed into one struct.
ReturnOpConversion(f) ==
    LET n == mod.results[f] IN
    IF "nvvm.kernel" \in fn[f].attrs /\ n > 0 THEN "tt" ELSE PackedShape(n)

-----------------------------------------------------------------------------
Init ==
    /\ \E tc \in TargetConfigs : target = tc[1] /\ tpw = tc[2]
    /\ mod \in Modules
    /\ stage = "funcs"
    /\ fn = [f \in Funcs |-> TtOp]
    /\ smemGlobal = FALSE
    /\ call = [c \in CallSites |-> TtOp]
    /\ ret = [f \in Funcs |-> "tt"]

\* Mutant: initSharedMemory is run after the call conversion instead.
ConvertFuncsSkipSmem ==
    /\ stage = "funcs"
    /\ fn' = [f \in Funcs |-> FuncOpConversion(f)]
    /\ stage' = "callret"
    /\ UNCHANGED <<target, tpw, mod, smemGlobal, call, ret>>

\* The "Lower functions" partial conversion.
ConvertFuncs ==
    /\ stage = "funcs"
    /\ fn' = [f \in Funcs |-> FuncOpConversion(f)]
    /\ stage' = "smem"
    /\ UNCHANGED <<target, tpw, mod, smemGlobal, call, ret>>

\* initSharedMemory: the dynamic shared-memory global (i8 array of size 0,
\* 16-byte aligned) for the NVVM and ROCDL targets, nothing for GENX.
InitSharedMemory ==
    /\ stage = "smem"
    /\ smemGlobal' = (target \in {"NVVM", "ROCDL"})
    /\ stage' = "callret"
    /\ UNCHANGED <<target, tpw, mod, fn, call, ret>>

\* The "Convert call and ret ops" partial conversion.
ConvertCallsAndReturns ==
    /\ stage = "callret"
    /\ call' = [c \in CallSites |-> CallOpConversion(c)]
    /\ ret' = [f \in Funcs |-> ReturnOpConversion(f)]
    /\ stage' = "done"
    /\ UNCHANGED <<target, tpw, mod, fn, smemGlobal>>

Next == ConvertFuncs \/ InitSharedMemory \/ ConvertCallsAndReturns

Spec == Init /\ [][Next]_vars

-----------------------------------------------------------------------------
TypeOK ==
    /\ <<target, tpw>> \in TargetConfigs
    /\ mod \in Modules
    /\ stage \in {"funcs", "smem", "callret", "done"}
    /\ fn \in [Funcs -> {TtOp} \cup LLVMFuncs]
    /\ smemGlobal \in BOOLEAN
    /\ call \in [CallSites -> {TtOp} \cup LLVMCalls]
    /\ ret \in [Funcs -> {"tt"} \cup Shapes]

\* Spec "signature invariant": after the call and return conversion every
\* call passes exactly the parameters its callee's llvm.func declares, and
\* that is one more (the shared-memory pointer) than the tt.call had.
SignatureAgrees ==
    stage = "done" =>
        \A c \in CallSites :
            LET g == mod.callee[c] IN
            /\ call[c].args = fn[g].params
            /\ call[c].args = mod.params[g] + 1

\* Spec "return packing round trip": a call and the return of its callee
\* agree with the callee's lowered type on whether the results travel as a
\* struct, and the call hands the rest of the module exactly the callee's
\* results, in their original order.
ResultsRoundTrip ==
    stage = "done" =>
        \A c \in CallSites :
            LET g == mod.callee[c]
                v == call[c].values
            IN  /\ call[c].result = fn[g].result
                /\ ret[g] = fn[g].result
                /\ DOMAIN v = 1..mod.results[g]
                /\ \A k \in DOMAIN v :
                     /\ v[k].index = k - 1
                     /\ (v[k].from = "extract") <=> (fn[g].result = "struct")

\* Spec sections 4.3 and 6: every lowered function's thread-count attribute
\* (nvvm.maxntid, genx.max_work_group_size) is threads-per-warp times the
\* number of warps, multiplied by num-warp-groups-per-cta when present.
KernelLaunchBound ==
    \A f \in Funcs :
        fn[f].dialect = "llvm" =>
            fn[f].maxThreads =
                tpw * mod.numWarps
                    * (IF mod.warpGroups = Absent THEN 1 ELSE mod.warpGroups)

\* Spec "kernel return constraint": a return with operands in a kernel is
\* never lowered; it is left for the pass to report, never turned into an
\* llvm.return that hands back a value.
KernelReturnNotLowered ==
    stage = "done" =>
        \A f \in Funcs :
            (mod.kernel[f] /\ mod.results[f] > 0) => ret[f] = "tt"

\* The comment before initSharedMemory: the calls are converted only once
\* the global_smem symbol exists, because on NVVM and ROCDL the stack
\* pointer and the shared-memory base a call passes are computed from it.
SmemBeforeCalls ==
    [][(/\ \E c \in CallSites : call'[c] # call[c]
        /\ target \in {"NVVM", "ROCDL"}) => smemGlobal]_vars
=============================================================================
