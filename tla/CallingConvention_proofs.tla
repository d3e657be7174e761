---------------------- MODULE CallingConvention_proofs ----------------------
(***************************************************************************)
(* Proofs about CallingConvention for every set of functions and call      *)
(* sites, every signature and every target: the type invariant, the       *)
(* signature and result-packing agreement between calls, returns and       *)
(* functions, and the ordering of initSharedMemory before call lowering.  *)
(*                                                                         *)
(* The inductive invariant says what each stage has produced: after the    *)
(* function conversion every function is FuncOpConversion of its tt.func, *)
(* after initSharedMemory the global exists exactly on NVVM and ROCDL, and *)
(* at the end every call and return is the output of its pattern.          *)
(***************************************************************************)
EXTENDS CallingConvention, TLAPS

Stages == {"funcs", "smem", "callret", "done"}

FuncsDone ==
    stage # "funcs" => fn = [f \in Funcs |-> FuncOpConversion(f)]

NothingLoweredEarly ==
    /\ stage = "funcs" => fn = [f \in Funcs |-> TtOp]
    /\ stage \in {"funcs", "smem"} => smemGlobal = FALSE
    /\ stage # "done" => (call = [c \in CallSites |-> TtOp]
                          /\ ret = [f \in Funcs |-> "tt"])

SmemReady ==
    stage \in {"callret", "done"} =>
        smemGlobal = (target \in {"NVVM", "ROCDL"})

CallsDone ==
    stage = "done" =>
        /\ call = [c \in CallSites |-> CallOpConversion(c)]
        /\ ret = [f \in Funcs |-> ReturnOpConversion(f)]

IInv == /\ stage \in Stages
        /\ \E tc \in TargetConfigs : target = tc[1] /\ tpw = tc[2]
        /\ mod \in Modules
        /\ FuncsDone /\ NothingLoweredEarly /\ SmemReady /\ CallsDone

LEMMA InitIInv == Init => IInv
BY DEF Init, IInv, Stages, FuncsDone, NothingLoweredEarly, SmemReady,
       CallsDone

LEMMA NextIInv == IInv /\ [Next]_vars => IInv'
<1> SUFFICES ASSUME IInv, [Next]_vars PROVE IInv'
  OBVIOUS
<1>1. CASE ConvertFuncs
  BY <1>1 DEF ConvertFuncs, IInv, Stages, FuncsDone, NothingLoweredEarly,
              SmemReady, CallsDone, FuncOpConversion, TargetFuncAttrs,
              MaxThreads, EffectiveNumWarps
<1>2. CASE InitSharedMemory
  BY <1>2 DEF InitSharedMemory, IInv, Stages, FuncsDone, NothingLoweredEarly,
              SmemReady, CallsDone, FuncOpConversion, TargetFuncAttrs,
              MaxThreads, EffectiveNumWarps
<1>3. CASE ConvertCallsAndReturns
  BY <1>3 DEF ConvertCallsAndReturns, IInv, Stages, FuncsDone,
              NothingLoweredEarly, SmemReady, CallsDone, FuncOpConversion,
              TargetFuncAttrs, MaxThreads, EffectiveNumWarps,
              CallOpConversion, ReturnOpConversion
<1>4. CASE UNCHANGED vars
  BY <1>4 DEF vars, IInv, Stages, FuncsDone, NothingLoweredEarly, SmemReady,
              CallsDone, FuncOpConversion, TargetFuncAttrs, MaxThreads,
              EffectiveNumWarps, CallOpConversion, ReturnOpConversion
<1>5. QED
  BY <1>1, <1>2, <1>3, <1>4 DEF Next

LEMMA IInvInvariant == Spec => []IInv
BY InitIInv, NextIInv, PTL DEF Spec

-----------------------------------------------------------------------------
(* What the patterns produce.                                              *)

\* The fields of an input module.
LEMMA ModuleFields ==
    ASSUME NEW m \in Modules
    PROVE  /\ m.kernel \in [Funcs -> BOOLEAN]
           /\ m.params \in [Funcs -> Nat]
           /\ m.results \in [Funcs -> 0..MaxResults]
           /\ m.caller \in [CallSites -> Funcs]
           /\ m.callee \in [CallSites -> Funcs]
           /\ m.numWarps \in Nat \ {0}
           /\ m.warpGroups \in (Nat \ {0}) \cup {Absent}
           /\ \A c \in CallSites : ~m.kernel[m.callee[c]]
BY ConstantsAssumption DEF Modules

\* FuncOpConversion yields a well-formed llvm.func.
LEMMA FuncOpConversionType ==
    ASSUME mod \in Modules, tpw \in Nat, NEW f \in Funcs
    PROVE  FuncOpConversion(f) \in LLVMFuncs
<1>1. EffectiveNumWarps \in Nat
  BY ModuleFields DEF EffectiveNumWarps
<1>2. MaxThreads \in Nat
  BY <1>1 DEF MaxThreads
<1>3. mod.params[f] \in Nat /\ mod.results[f] \in Nat
  BY ModuleFields
<1>4. QED
  BY <1>2, <1>3
     DEF FuncOpConversion, LLVMFuncs, PackedShape, Shapes, TargetFuncAttrs,
         FuncAttrNames

\* CallOpConversion yields a well-formed llvm.call whose extracted field
\* indexes stay within the callee's results.
LEMMA CallOpConversionType ==
    ASSUME mod \in Modules, NEW c \in CallSites
    PROVE  CallOpConversion(c) \in LLVMCalls
<1> DEFINE n == mod.results[mod.callee[c]]
<1>1. n \in 0..MaxResults /\ mod.params[mod.callee[c]] \in Nat
  BY ModuleFields
<1>2. \A k \in 1..n : k - 1 \in 0..(MaxResults - 1)
  BY <1>1, ConstantsAssumption
<1>3. [k \in 1..n |-> IF n < 2 THEN [from |-> "result", index |-> k - 1]
                      ELSE [from |-> "extract", index |-> k - 1]]
        \in [1..n -> ResultValues]
  BY <1>2 DEF ResultValues
<1>4. [1..n -> ResultValues] \subseteq Seq(ResultValues)
  BY <1>1
<1>5. PackedShape(n) \in Shapes
  BY DEF PackedShape, Shapes
<1>6. CallOpConversion(c).values \in Seq(ResultValues)
  BY <1>3, <1>4 DEF CallOpConversion
<1>7. QED
  BY <1>1, <1>5, <1>6 DEF CallOpConversion, LLVMCalls

\* Every state reachable by the specification satisfies the type invariant.
THEOREM TypeCorrect == Spec => []TypeOK
<1>1. IInv => TypeOK
  <2> SUFFICES ASSUME IInv PROVE TypeOK
    OBVIOUS
  <2>1. tpw \in Nat
    BY ConstantsAssumption DEF IInv
  <2>2. fn \in [Funcs -> {TtOp} \cup LLVMFuncs]
    BY <2>1, FuncOpConversionType DEF IInv, FuncsDone, NothingLoweredEarly
  <2>3. call \in [CallSites -> {TtOp} \cup LLVMCalls]
    BY CallOpConversionType DEF IInv, CallsDone, NothingLoweredEarly
  <2>4. ret \in [Funcs -> {"tt"} \cup Shapes]
    BY DEF IInv, CallsDone, NothingLoweredEarly, ReturnOpConversion, PackedShape, Shapes
  <2>5. smemGlobal \in BOOLEAN
    <3>1. CASE stage \in {"funcs", "smem"}
      BY <3>1 DEF IInv, NothingLoweredEarly
    <3>2. CASE stage \in {"callret", "done"}
      <4>1. smemGlobal = (target \in {"NVVM", "ROCDL"})
        BY <3>2 DEF IInv, SmemReady
      <4>2. QED
        BY <4>1
    <3>3. QED
      BY <3>1, <3>2 DEF IInv, Stages
  <2>6. <<target, tpw>> \in TargetConfigs
    <3>1. PICK tc \in TargetConfigs : target = tc[1] /\ tpw = tc[2]
      BY DEF IInv
    <3>2. tc = <<tc[1], tc[2]>>
      BY ConstantsAssumption
    <3>3. QED
      BY <3>1, <3>2
  <2>7. QED
    BY <2>2, <2>3, <2>4, <2>5, <2>6 DEF IInv, TypeOK, Stages
<1>2. QED
  BY <1>1, IInvInvariant, PTL

\* Spec "signature invariant", for every module: every lowered call passes
\* the parameters its callee declares, one more than the tt.call had.
THEOREM SignatureAgreesHolds == Spec => []SignatureAgrees
<1>1. IInv => SignatureAgrees
  <2> SUFFICES ASSUME IInv, stage = "done", NEW c \in CallSites
               PROVE  /\ call[c].args = fn[mod.callee[c]].params
                      /\ call[c].args = mod.params[mod.callee[c]] + 1
    BY DEF SignatureAgrees
  <2>1. ~mod.kernel[mod.callee[c]] /\ mod.callee[c] \in Funcs
    BY ModuleFields DEF IInv
  <2>2. QED
    BY <2>1 DEF IInv, FuncsDone, CallsDone, FuncOpConversion, CallOpConversion
<1>2. QED
  BY <1>1, IInvInvariant, PTL

\* Spec "return packing round trip", for every module: calls, returns and
\* function types agree on the packing, and each call hands back its
\* callee's results in order.
THEOREM ResultsRoundTripHolds == Spec => []ResultsRoundTrip
<1>1. IInv => ResultsRoundTrip
  <2> SUFFICES ASSUME IInv, stage = "done", NEW c \in CallSites
               PROVE  LET g == mod.callee[c]
                          v == call[c].values
                      IN  /\ call[c].result = fn[g].result
                          /\ ret[g] = fn[g].result
                          /\ DOMAIN v = 1..mod.results[g]
                          /\ \A k \in DOMAIN v :
                               /\ v[k].index = k - 1
                               /\ (v[k].from = "extract")
                                     <=> (fn[g].result = "struct")
    BY DEF ResultsRoundTrip
  <2> DEFINE g == mod.callee[c]
  <2>1. ~mod.kernel[g] /\ g \in Funcs /\ mod.results[g] \in Nat
    BY ModuleFields DEF IInv
  <2>2. fn[g] = FuncOpConversion(g) /\ call[c] = CallOpConversion(c)
        /\ ret[g] = ReturnOpConversion(g)
    BY <2>1 DEF IInv, FuncsDone, CallsDone
  <2>3. "nvvm.kernel" \notin fn[g].attrs
    BY <2>1, <2>2 DEF FuncOpConversion, TargetFuncAttrs
  <2>4. ret[g] = PackedShape(mod.results[g])
    BY <2>1, <2>2, <2>3 DEF ReturnOpConversion, PackedShape
  <2>5. call[c].result = fn[g].result /\ ret[g] = fn[g].result
    BY <2>2, <2>4 DEF FuncOpConversion, CallOpConversion
  <2> DEFINE n == mod.results[g]
  <2>6. call[c].values =
          [k \in 1..n |-> IF n < 2 THEN [from |-> "result", index |-> k - 1]
                          ELSE [from |-> "extract", index |-> k - 1]]
    BY <2>2 DEF CallOpConversion
  <2>7. fn[g].result = "struct" <=> ~(n < 2)
    BY <2>1, <2>2 DEF FuncOpConversion, PackedShape
  <2>8. ASSUME NEW k \in 1..n
        PROVE  /\ call[c].values[k].index = k - 1
               /\ (call[c].values[k].from = "extract")
                     <=> (fn[g].result = "struct")
    BY <2>6, <2>7
  <2>9. QED
    BY <2>5, <2>6, <2>8
<1>2. QED
  BY <1>1, IInvInvariant, PTL

\* The call conversion only ever runs once global_smem exists on the targets
\* that compute stack pointers from it.
THEOREM SmemBeforeCallsHolds == Spec => SmemBeforeCalls
<1>1. IInv /\ [Next]_vars =>
        [(/\ \E c \in CallSites : call'[c] # call[c]
          /\ target \in {"NVVM", "ROCDL"}) => smemGlobal]_vars
  <2> SUFFICES ASSUME IInv, [Next]_vars,
                      \E c \in CallSites : call'[c] # call[c],
                      target \in {"NVVM", "ROCDL"}
               PROVE  smemGlobal
    OBVIOUS
  <2>1. ConvertCallsAndReturns
    BY DEF Next, ConvertFuncs, InitSharedMemory, vars
  <2>2. QED
    BY <2>1 DEF ConvertCallsAndReturns, IInv, SmemReady
<1>2. QED
  BY <1>1, IInvInvariant, PTL DEF SmemBeforeCalls, Spec

-----------------------------------------------------------------------------
(* The thread-count attribute and kernel returns.  Both properties hold    *)
(* only on some targets: the runs callconv_rocdl_maxntid and               *)
(* callconv_genx_kernel_return refute them on the others, so each theorem  *)
(* carries the hypothesis on TargetConfigs that the code needs.           *)

\* What a lowered function's thread-count attribute is: the warp size the
\* code uses for the target (the module's on GENX, 32 elsewhere) times the
\* effective number of warps.
LEMMA MaxThreadsValue ==
    ASSUME IInv, NEW f \in Funcs, fn[f].dialect = "llvm"
    PROVE  fn[f].maxThreads =
               (IF target = "GENX" THEN tpw ELSE 32) * EffectiveNumWarps
<1>1. stage # "funcs"
  BY DEF IInv, NothingLoweredEarly, TtOp
<1>2. fn[f] = FuncOpConversion(f)
  BY <1>1 DEF IInv, FuncsDone
<1>3. QED
  BY <1>2 DEF FuncOpConversion, MaxThreads

\* Spec 4.3, for every module, on every target whose warp size is the
\* module's on GENX and 32 elsewhere: each lowered function's thread-count
\* attribute is threads-per-warp times num-warps times the warp groups.
THEOREM KernelLaunchBoundHolds ==
    ASSUME \A tc \in TargetConfigs : tc[1] # "GENX" => tc[2] = 32
    PROVE  Spec => []KernelLaunchBound
<1>1. IInv => KernelLaunchBound
  <2> SUFFICES ASSUME IInv, NEW f \in Funcs, fn[f].dialect = "llvm"
               PROVE  fn[f].maxThreads =
                        tpw * mod.numWarps
                          * (IF mod.warpGroups = Absent THEN 1 ELSE mod.warpGroups)
    BY DEF KernelLaunchBound
  <2>1. target # "GENX" => tpw = 32
    BY DEF IInv
  <2>2. tpw \in Nat /\ mod.numWarps \in Nat
        /\ (mod.warpGroups # Absent => mod.warpGroups \in Nat)
    BY ModuleFields, ConstantsAssumption DEF IInv
  <2>3. QED
    BY <2>1, <2>2, MaxThreadsValue DEF EffectiveNumWarps
<1>2. QED
  BY <1>1, IInvInvariant, PTL

\* A kernel's lowered function carries nvvm.kernel exactly when the target
\* is not GENX (TargetFuncAttrs): GENX kernels get genx.kernel instead.
LEMMA KernelMarkedNVVM ==
    ASSUME IInv, stage = "done", NEW f \in Funcs, mod.kernel[f]
    PROVE  ("nvvm.kernel" \in fn[f].attrs) <=> (target # "GENX")
<1>1. fn[f] = FuncOpConversion(f)
  BY DEF IInv, FuncsDone
<1>2. QED
  BY <1>1 DEF FuncOpConversion, TargetFuncAttrs

\* ReturnOpConversion recognises a kernel only by nvvm.kernel: for every
\* module, a kernel's return with operands stays unlowered exactly when the
\* target is not GENX.  This is the GENX divergence for every instance.
KernelReturnKeptOffGENX ==
    stage = "done" =>
        \A f \in Funcs : (mod.kernel[f] /\ mod.results[f] > 0) =>
            (ret[f] = "tt" <=> target # "GENX")

\* For every module, GENX is the only target on which a kernel's return with
\* operands is lowered.
THEOREM KernelReturnLoweredOnlyOnGENX == Spec => []KernelReturnKeptOffGENX
<1>1. IInv => KernelReturnKeptOffGENX
  <2> SUFFICES ASSUME IInv, stage = "done", NEW f \in Funcs,
                      mod.kernel[f], mod.results[f] > 0
               PROVE  ret[f] = "tt" <=> target # "GENX"
    BY DEF KernelReturnKeptOffGENX
  <2>1. ret[f] = ReturnOpConversion(f)
    BY DEF IInv, CallsDone
  <2>2. ("nvvm.kernel" \in fn[f].attrs) <=> (target # "GENX")
    BY KernelMarkedNVVM
  <2>3. PackedShape(mod.results[f]) # "tt"
    BY DEF PackedShape
  <2>4. QED
    BY <2>1, <2>2, <2>3 DEF ReturnOpConversion
<1>2. QED
  BY <1>1, IInvInvariant, PTL

\* Spec "kernel return constraint", for every module on NVVM and ROCDL: a
\* kernel's return with operands is never lowered.
THEOREM KernelReturnNotLoweredHolds ==
    ASSUME \A tc \in TargetConfigs : tc[1] # "GENX"
    PROVE  Spec => []KernelReturnNotLowered
<1>1. IInv => KernelReturnNotLowered
  <2> SUFFICES ASSUME IInv, stage = "done", NEW f \in Funcs,
                      mod.kernel[f], mod.results[f] > 0
               PROVE  ret[f] = "tt"
    BY DEF KernelReturnNotLowered
  <2>1. target # "GENX"
    BY DEF IInv
  <2>2. ret[f] = ReturnOpConversion(f)
    BY DEF IInv, CallsDone
  <2>3. "nvvm.kernel" \in fn[f].attrs
    BY <2>1, KernelMarkedNVVM
  <2>4. QED
    BY <2>2, <2>3 DEF ReturnOpConversion
<1>2. QED
  BY <1>1, IInvInvariant, PTL
=============================================================================
