# Verification of the TritonGPU-to-LLVM conversion pass

This directory holds TLA+ models of
`src/lib/Conversion/TritonGPUToLLVM/TritonGPUToLLVMPass.cpp`. That file is the
MLIR pass `ConvertTritonGPUToLLVM`, which lowers a Triton GPU module to the
LLVM dialect for three backends: NVVM, ROCDL and GENX. The project contains:

- TLC configurations that check the models on small instances;
- TLAPS proofs of the main invariants for every value of the constants;
- `PROJECT.json`, which maps each definition to the source lines it models.

## 1. The system

`runOnOperation` (lines 359-537) runs a fixed, single-threaded sequence of
stages over one `ModuleOp`. Nothing runs concurrently, so the hard parts are
these:

- the order of the stages;
- state that one stage writes and a later one reads;
- legality and pattern failure in `applyPartialConversion`;
- numeric boundary cases in the attributes the code computes.

| # | Stage (lines) | Reads | Writes |
|---|---|---|---|
| 1 | read `num-warps`, `threads-per-warp`, `num-ctas`, `num-warp-groups-per-cta` (367-376) | module attributes | `numWarps` (multiplied by the warp-group count) |
| 2 | `decomposeInsertSliceAsyncOp` (377, 569-687) | axis info, shared layouts, `computeCapability`, target | async copies, commit groups, waits, the `decomposed` flag |
| 3 | `ModuleAllocation`, `ModuleMembarAnalysis` (382-384) | the module | `allocation.offset`, shared-memory size, barriers |
| 4 | collect `tensorPtrMap` (387-406) | TMA ops | a map from `Operation*` to `MakeTensorPtrOp` |
| 5 | `FoldSplatMaskInInsertAsync` (69-91, 408-418) | insert_slice_async masks | masks; `signalPassFailure` on failure, with no return |
| 6 | "Lower functions" (420-433): `FuncOpConversion` | `tt.func`, target, numWarps, threads-per-warp | `llvm.func` with a trailing shared-memory pointer for device functions, kernel and thread-count attributes, `noinline` |
| 7 | `initSharedMemory` (435-438, 542-567) | target, allocation size | the `global_smem` global (NVVM and ROCDL only) |
| 8 | "Convert call and ret ops" (440-451) | the `llvm.func`s of stage 6, `allocation.offset`, `global_smem` | `llvm.call` with the extra operand, unpacked results, `llvm.return` |
| 9 | main conversion (453-527) | everything above, `tmaMetadata`, `indexCacheInfo` | the fully legalized module; failure if a Triton op remains |
| 10 | fold the cluster CTA id when `numCTAs == 1` (529-536) | the result of 9 | uses of the CTA id replaced by 0 |

The stages interact through the module itself:

- Stage 8 relies on stage 6 having appended the shared-memory parameter and
  having set `nvvm.kernel`.
- Stage 8 relies on stage 7 having created `global_smem`.
- The wait walk of stage 2 relies on the `decomposed` flag set by its copy walk.
- Stage 9 relies on `tensorPtrMap` (stage 4) still pointing at live ops.

## 2. Modules

| Module | Models | Proofs |
|---|---|---|
| `AsyncOps` | the data of stage 2: constants, op kinds, `ByteWidth`, `NeedsDecompose`, `Decomposition`, `WaitRewrite`, `addWSNamedAttrs` (44-49) | |
| `AsyncDecompose` | stage 2: the three walks of `decomposeInsertSliceAsyncOp`, step by step | `AsyncDecompose_proofs` |
| `AsyncContract` | the effect of `decomposeInsertSliceAsyncOp` as one step; `AsyncDecompose` refines it | |
| `CallingConvention` | stages 6-8: `FuncOpConversion`, `amendFuncOp`, `initSharedMemory`, `CallOpConversion`, `ReturnOpConversion`, and the `numWarps` read of stage 1 | `CallingConvention_proofs` |
| `Pipeline` | the whole of `runOnOperation` (359-536), one step per stage, with the tensorPtrMap walks, the splat-mask cleanup, the main conversion and the CTA-id fold | `Pipeline_proofs` |
| `PassContract` | the abstract promise of the pass: it ends in success on a fully legalized module or in a reported failure; `Pipeline` refines it | |
| `PassLifetime` | the `tmaMetadata` member across several runs of one pass object (345-357, 459-468, 692-703) | |
| `MC_AsyncDecompose`, `MC_CallingConvention`, `MC_Pipeline` | constant definitions for TLC | |

Modelling conventions:

- Each `applyPartialConversion` and each `mod.walk` is one atomic action. The
  walks visit every op of a kind, and their patterns read only state that
  earlier stages produced. Nothing can observe the state inside a stage, so
  interleaving its op rewrites would add no behaviours.
- The function-conversion target (`TritonLLVMFunctionConversionTarget`, 51-67)
  marks no Triton op illegal. A pattern that fails in stages 6 and 8 therefore
  leaves its op in place without failing the stage. In the model, such an op
  keeps the value `"tt"` / `TtOp`.
- Data is abstracted to what the properties tell apart:
  - an op is a record of the facts its pattern reads (contiguity, mask
    alignment, shared vec, element width, attributes);
  - a function is its kernel flag, parameter count, result count and whether
    it has `allocation.offset`;
  - a call is its caller and callee.

### AsyncDecompose

Variables:

| Variable | Meaning |
|---|---|
| `target`, `capability` | the backend and `computeCapability` |
| `ops` | N op slots |
| `input` | the ops the pass started from |
| `walk` | which of the three walks is next |
| `decomposed` | the flag of line 594 |

Actions:

- `SkipOtherTarget` is the early return for non-GENX targets (575-576).
- `WalkInsertSliceAsync` (599-667) handles every async copy:
  - it computes `ByteWidth` (602-625): the contiguity, reduced by the mask
    alignment; the shared vec only when it is greater than 1; the result
    capped at max(128, element bits);
  - it keeps the copy when the width is eligible (`NeedsDecompose`, 627-633);
  - otherwise it replaces the copy with a load + insert_slice slot carrying
    only the warp-specialisation attributes (`Decomposition`, 635-666), and
    sets `decomposed`.
- `WalkAsyncCommitGroup` (669-672) erases commit groups when they are
  unsupported.
- `WalkAsyncWait` (674-686) does one of three things to each wait:
  - erases it when waits are unsupported;
  - otherwise, if `decomposed` is set, replaces it with `async_wait {num = 0}`;
  - otherwise leaves it alone.

  The capability test comes first, as in the code (675-678). `WaitRewrite`
  and `ReturnOpConversion` are written as IF/ELSE chains in the code's order.
  They were once CASE expressions with overlapping arms, whose value TLA+
  leaves open, although TLC picks the first arm.

`AsyncOps` holds the constants and the pure operators. `AsyncDecompose` and
`AsyncContract` both extend it.

`AsyncContract` states what the whole function does in one `Decompose` step:

- on a target other than GENX, the module is unchanged;
- on GENX, slot i becomes `Rewritten(input, capability, i)`. That is the
  decomposition of an ineligible copy, an erased commit where commits are
  unsupported, `WaitRewrite` of a wait, or the op itself. A wait depends on
  the rest of the module only through `AnyDecomposed`.

`AsyncDecompose` refines it through the mapping `Contract`:

- `finished` is `walk = "done"`;
- the module is `input` until the last walk returns, and `ops` after.

Three facts come from the TritonGPU dialect, which is not in this file. They
are modelled from the dialect's documented behaviour and marked
`spec_modelled`:

- `getEligibleLoadByteWidth` is {4, 8, 16} from capability 80;
- `AsyncCommitGroupOp::isSupported` and `AsyncWaitOp::isSupported` hold from
  capability 80.

### CallingConvention

Variables:

| Variable | Meaning |
|---|---|
| `target`, `tpw` | the backend and threads-per-warp |
| `mod` | the input module: functions, call sites, `numWarps`, `num-warp-groups-per-cta` |
| `stage` | the current stage |
| `fn` | each function, `tt` or an `llvm.func` record of parameter count, result shape, attributes and max threads |
| `smemGlobal` | whether `global_smem` exists |
| `call` | each call site, `tt` or an `llvm.call` of operand count, result shape and the values that replace its results |
| `ret` | each function's return: `tt`, `void`, `single` or `struct` |

Actions, one per stage:

- `ConvertFuncs` applies `FuncOpConversion` to all functions. For a
  non-kernel it first adds a parameter, as `amendFuncOp` does. It then sets
  the target's attributes:
  - NVVM/ROCDL: `nvvm.kernel` on kernels and `nvvm.maxntid = 32 * numWarps`;
  - GENX: the GENX kernel attribute, `max_work_group_size = tpw * numWarps`
    and `reqd_sub_group_size`;
  - `noinline` on non-kernels.
- `InitSharedMemory` creates `global_smem` on NVVM/ROCDL only.
- `ConvertCallsAndReturns` applies `CallOpConversion` and
  `ReturnOpConversion` together, because they are one partial conversion:
  - a call gets one extra operand;
  - zero results become void, one result stays as it is, and more results
    become a struct read back by `extractvalue` at indexes 0..n-1;
  - a return inside a function marked `nvvm.kernel` that has operands fails
    and stays `tt`; otherwise it becomes a plain return, or a struct return
    when there are 2 or more operands.

`EffectiveNumWarps` models lines 374-376: `numWarps` is multiplied by
`num-warp-groups-per-cta` when that attribute is present.

### Pipeline

Variables:

| Variable | Meaning |
|---|---|
| `target`, `numCTAs` | the backend and `triton_gpu.num-ctas` |
| `funcs` | the input functions: kernel or not, how the signature converts (`ok`, fails on a parameter type only, fails on a result type), whether `tt.return` has operands |
| `fnLowered`, `retLowered` | the functions that are `llvm.func`, and those whose return is lowered |
| `tma`, `live` | the `InsertSliceTMAOp`/`StoreAsyncTMAOp` operations by identity: kind, tensor-pointer operand, mask; and the identities still in the module |
| `tensorPtrMap` | the keys of the map, which are `Operation*` |
| `midOps` | the kinds of the other mid-level operations still in the module |
| `ctaIdUsed` | whether a value uses a cluster CTA id |
| `failed` | `signalPassFailure` has been called |
| `stage`, `outcome` | where the pass is; `running`, `success`, `failure` or `crash` |

Actions, in the order of the code:

- `Preprocess` stands for the decomposition and the two analyses (377-384).
  They touch nothing tracked here, and are modelled elsewhere or are
  external.
- `CollectTensorPtrMap` is the two walks (387-406). It records every TMA
  operation whose pointer operand is a tensor pointer, under its own
  identity.
- `CleanupSplatMask` (408-418) applies `FoldSplatMask`, the pattern at 67-91,
  to every `InsertSliceTMAOp`. The pattern replaces a splat mask in place.
  The greedy driver's convergence is an input (`DriverResults`). On failure
  the code calls `signalPassFailure` and carries on.
- `LowerFunctions` (420-433) is the function conversion. A function whose
  signature does not convert stays `tt.func`: the pattern fails and its
  rewrites are rolled back. The stage still succeeds, because the function
  target marks nothing illegal.
- `ConvertCallsAndReturns` (440-451) does one of two things. The driver
  first remaps a `tt.return`'s operands to converted types. When a
  function's result type does not convert, neither do its return operands,
  and the pattern fails with no effect.
  - If some function failed on a parameter type only (`CrashingReturn`), its
    return's operands remap. `ReturnOpConversion` then dereferences the null
    `llvm.func` at line 100, and the outcome is `crash`.
  - Otherwise it lowers the returns of the lowered functions, except a
    kernel return with operands on NVVM/ROCDL. A function that failed on a
    result type keeps its `tt.func` and `tt.return`, so the main conversion
    fails.
- `MainConversion` (453-527) checks `IllegalLeft`, taken from
  `TritonLLVMConversionTarget` (326-343): a function, a return, or a kind
  with no rule (`LowerableKinds`) left. If any is left, the pass fails and
  returns. Otherwise everything is lowered, and the rules may emit cluster
  CTA ids.
- `FoldCTAId` (529-536) folds those ids when `numCTAs == 1`. The pass then
  ends in `failure` if `failed` is set, and in `success` otherwise.

`Spec` has `WF_vars(Next)`. `runOnOperation` is straight-line code on one
thread: nothing waits, so a step that can be taken is taken.

### PassContract and the refinement

`PassContract` has two variables:

- `result`: `running`, `success` or `failure`;
- `fullyLegal`: whether the module has no mid-level operation left.

It has three actions:

- `Rewrite` keeps `result` and changes `fullyLegal` freely;
- `Succeed` requires `fullyLegal`;
- `Fail`.

Its fairness `WF(Succeed \/ Fail)` says the caller always gets an answer.
`Pipeline` instantiates it as `Contract` with this refinement mapping:

- `result <- outcome`;
- `fullyLegal <- FullyLegal`, which holds when every function and return is
  lowered and no TMA or other mid-level operation is left.

`crash` has no abstract counterpart, so a crash step refutes the refinement.

### PassLifetime

`tmaMetadata` is the member. It is `"null"` when the pass was built by the
default factory, or the caller's object otherwise.

`Run` is one call of `runOnOperation` that reaches line 467:

- if the member is null, it is pointed at this call's local
  `tmaMetaDataDebug`;
- the load/store patterns write through it;
- the local dies on return.

`wroteDead` records a write into an object that was already dead.

## 3. Runs

`CHECK_DEADLOCK FALSE` is set in every cfg. The pass is a terminating
sequence of stages, and its final state (`walk = "done"` or
`stage = "done"`) has no successor by design. Termination is a liveness
property, and it is checked once, for the whole pass: `Pipeline`'s `ImplementsContract`
includes `PassContract`'s fairness. `Pipeline`'s `WF_vars(Next)` is justified
by the straight-line code. `AsyncDecompose` and `CallingConvention` assume no
fairness, and their properties are stated about their final state.

| Run | cfg | Expect | What it shows |
|---|---|---|---|
| `async_decompose` | `MC_AsyncDecompose.cfg` | pass | See the list below. |
| `async_vec_width_spec` | `MC_AsyncDecompose_spec.cfg` | violation | The code's vector width is not the spec's min(contig, vec, mask): vec = 1 is ignored. |
| `async_genx_ptx` | `MC_AsyncDecompose_genx_ptx.cfg` | violation | On GENX with capability >= 80, eligible async copies survive. The comment at 571-573 says their lowering emits PTX. |
| `callconv_nvvm` | `MC_CallingConvention_nvvm.cfg` | pass | See the list below. |
| `callconv_genx` | `MC_CallingConvention_genx.cfg` | pass | `KernelLaunchBound` on GENX with 16- and 32-thread sub-groups, with and without warp groups. GENX is the one target where threads-per-warp enters the attribute. |
| `callconv_genx_kernel_return` | `MC_CallingConvention_genx_return.cfg` | violation | On GENX a kernel's `return %v` is lowered, because the kernel test reads `nvvm.kernel`. |
| `callconv_rocdl_maxntid` | `MC_CallingConvention_rocdl.cfg` | violation | On ROCDL with 64-thread warps, `nvvm.maxntid` is 32 * numWarps. |
| `pipeline` | `MC_Pipeline.cfg` | pass | See the list below. |
| `pipeline_contract` | `MC_Pipeline_contract.cfg` | pass | When no signature fails on its parameters alone, `Pipeline` refines `PassContract`, liveness included: the pass always ends, in success only on a fully legalized module. |
| `pipeline_signature_crash` | `MC_Pipeline_sig.cfg` | violation | With a signature that fails on a parameter type while its results convert, the pass crashes at line 100 instead of failing. |
| `pipeline_continue_after_failure` | `MC_Pipeline_abort.cfg` | violation | After the cleanup's `signalPassFailure` (417), the later stages still rewrite the module. |
| `pass_metadata_lifetime` | `MC_PassLifetime.cfg` | violation | A default-built pass run on two modules writes TMA metadata into the first run's dead local. |

The `pipeline` run checks `TypeOK` and one property:

- `TensorPtrMapCurrent`: when the main conversion runs, every live TMA op
  with a tensor pointer is a key of `tensorPtrMap`, and every key is live.

The `async_decompose` run checks three invariants and one temporal property:

- `ConservativeWait`: whenever a copy was decomposed, every wait left is a
  wait-for-all.
- `AsyncCopiesKeepMarkers`: no commit or wait is erased while an async copy
  remains.
- `WSAttrsPreserved`: replacements carry exactly the warp-specialisation
  attributes of the replaced op.
- `ImplementsAsyncContract`: the three walks implement `AsyncContract`.

The `callconv_nvvm` run checks five properties:

- `SignatureAgrees`: every call passes its callee's parameter count.
- `ResultsRoundTrip`: callee return, callee type and call agree on result
  packing, and the extracted values are in order.
- `KernelLaunchBound`: the thread-count attribute equals threads-per-warp
  times warps times warp groups.
- `KernelReturnNotLowered`: a kernel's return with operands is not lowered.
- `SmemBeforeCalls`: an action property saying no call is lowered before
  `global_smem` exists.

### Bounds

`MC_AsyncDecompose` has these bounds:

- N = 3 op slots, so a copy, a commit and a wait, in every order, occur
  together;
- element width 16, contiguity {1, 8}, mask alignment 2 or no mask, and
  shared vec {1, 8}. These reach every branch of the width computation:
  - vec ignored or used;
  - mask reducing the width or absent;
  - widths 2 and 16 bytes, which are ineligible and eligible;
- capabilities 70 and 80, on either side of every threshold;
- attributes {}, {async_agent, cache} and {agent.mutex_role}, which separate
  the warp-specialisation attributes from the others;
- about 470 000 distinct states.

`MC_CallingConvention` has these bounds:

- 3 functions and 2 call sites;
- 0 to 2 results, which covers the void, single and struct cases;
- kernel and device callers, with and without `allocation.offset`;
- `num-warp-groups-per-cta` absent or 2, which catches a missing multiplier;
- threads-per-warp 16 and 32 on GENX, 32 on NVVM and 64 on ROCDL;
- every such module is enumerated: 373 248 states on NVVM and 746 496 on GENX.

Every property of a passing run is also checked against a mutant of the code
it is about (`PROJECT.json`, "mutants"), and TLC finds each mutant violated.
The mutants are:

- a dropped `decomposed = true`;
- an eligibility threshold of 70;
- only `async_agent` copied;
- all attributes copied;
- the extra call operand omitted on the `allocation.offset` branch;
- extract indexes starting at 1;
- a single result packed as a struct;
- the kernel test dropped;
- the warp-group multiplier dropped;
- `initSharedMemory` run after the calls;
- the `StoreAsyncTMAOp` walk forgotten;
- the cleanup replacing the operation instead of editing it in place;
- the main conversion accepting operations that no rule lowers.

`MC_Pipeline` has these bounds:

- two functions, so one can fail (on a parameter or on a result type) while the other converts;
- two TMA operations, so an insert and a store, or two of either kind,
  occur together, with and without tensor pointers and splat masks;
- one lowerable and one unlowerable operation kind;
- NVVM and GENX;
- 1 and 2 CTAs;
- a cleanup that converges or not;
- about 700 000 distinct states.

## 4. Proofs

Three proof modules each extend their component module and `TLAPS`:

- `AsyncDecompose_proofs` extends `AsyncDecompose`, and through it
  instantiates `AsyncContract`;
- `CallingConvention_proofs` extends `CallingConvention`;
- `Pipeline_proofs` extends `Pipeline`, and through it instantiates
  `PassContract`.
 The constants' assumptions (`ConstantsAssumption`) are only the
typing facts the code relies on:

- N is a natural number;
- capabilities and widths are natural numbers;
- target configurations are pairs of a target and a positive
  threads-per-warp;
- in `Pipeline`, CTA counts are positive and the choice sets are non-empty
  sets (signature outcomes, driver results).

### AsyncDecompose_proofs

- `TypeCorrect`: `Spec => []TypeOK`. It rests on these lemmas:
  - `DecompositionType`;
  - `WaitRewriteType`;
  - `TypeStep`, with one case per action.
- `ConservativeWaitHolds`: `Spec => []ConservativeWait`. The property alone is
  not inductive, because it says nothing before the wait walk. The inductive
  invariant `IInv` adds three facts:
  - `Untouched`: before the first walk, `ops = input` and the flag is clear;
  - `FlagTracksDecomposition`: after the first walk, `decomposed` holds
    exactly when some slot is a load + insert_slice;
  - `WaitsWidened`: after the wait walk, every wait is `num = 0` when
    `decomposed` holds.

  `FlagTracksDecomposition` is the heart of the proof. The walks after the
  first never create or remove a load + insert_slice slot, so the flag stays
  accurate when the wait walk reads it. `IInv` was first checked by TLC as an
  invariant of `MC_AsyncDecompose.cfg`.
- `WSAttrsPreservedHolds`: `Spec => []WSAttrsPreserved`. Its invariant `PInv`
  adds `Provenance` to `TypeOK` and `Untouched`. `Provenance` says that every
  slot is one of four things:
  - its input operation;
  - the decomposition of its input copy;
  - the erased marker;
  - after the wait walk, the wait-for-all built from its input wait.

  The commit and wait walks therefore only rewrite input operations.
  Decompositions and new waits are built with `WSAttrs` of the input, which
  is exactly `attrs \cap WSNames`.
- `AsyncCopiesKeepMarkersHolds`: `Spec => []AsyncCopiesKeepMarkers`. Its
  invariant `MInv` has three parts:
  - `WalkOnGENX`: the commit and wait walks run only on GENX;
  - `ErasedOnlyUnsupported`: a slot is erased only on GENX below capability
    80;
  - `SurvivorsEligible`: once the first walk has run on GENX, an
    insert_slice_async left in the module means capability 80 or more. A
    copy survives only if its byte width is eligible, and
    `EligibleLoadByteWidth` is empty below 80.

  Together these say that a surviving copy and an erased marker never meet.
- `RefinesAsyncContract`: `Spec => ImplementsAsyncContract`, the whole refinement of
  `AsyncContract`. Its invariant `RInv` adds `Stagewise` to `TypeOK` and
  `Untouched`. `Stagewise` gives the module after each walk as a function of
  the input:
  - after the copy walk, `AfterInsertWalk` of each input op, with the flag
    equal to `AnyDecomposed`;
  - after the commit walk, `AfterCommitWalk` of each input op;
  - at the end, the contract's rewrite on GENX and the input elsewhere.

  The lemma `SlotComposition` shows that the wait walk applied to
  `AfterCommitWalk` gives `Rewritten`. A decomposed copy is no longer a
  commit or a wait, and an erased commit is not a wait, so no walk disturbs
  another's result. The copy walk and the commit walk map to stuttering
  steps; `SkipOtherTarget` and the wait walk map to `Decompose`.
  `ContractOps` shows once that the operators instantiated through
  `Contract` equal the originals, because the provers treat them as distinct
  symbols.

### CallingConvention_proofs

- `TypeCorrect`: `Spec => []TypeOK`.
- `SignatureAgreesHolds`.
- `ResultsRoundTripHolds`.
- `SmemBeforeCallsHolds`: the action property, stated as `[][A]_vars`.
- `KernelLaunchBoundHolds`: `ASSUME \A tc \in TargetConfigs : tc[1] # "GENX"
  => tc[2] = 32 PROVE Spec => []KernelLaunchBound`. The lemma
  `MaxThreadsValue` shows that the attribute is the code's warp size (the
  module's on GENX, 32 elsewhere) times the effective warp count. The property
  therefore holds exactly when non-GENX modules have 32-thread warps. The
  `callconv_rocdl_maxntid` run shows the failure with 64-thread ROCDL warps.
- `KernelReturnNotLoweredHolds`: `ASSUME \A tc \in TargetConfigs : tc[1] #
  "GENX" PROVE Spec => []KernelReturnNotLowered`. The hypothesis is the one
  the `callconv_genx_kernel_return` run shows is needed.
- `KernelReturnLoweredOnlyOnGENX`: `Spec => []KernelReturnKeptOffGENX`, with
  no hypothesis. For every module, a kernel's return with operands stays
  unlowered exactly when the target is not GENX. The lemma `KernelMarkedNVVM`
  carries it: a kernel's `llvm.func` has `nvvm.kernel` exactly off GENX. This
  establishes the GENX finding for every instance.

The inductive invariant ties each stage to what exists at that point:

- `FuncsDone`: from stage `smem` on, every function is its converted
  `llvm.func`;
- `NothingLoweredEarly`: before stage `done`, no call or return is lowered;
- `SmemReady`: from stage `callret` on, `smemGlobal` holds exactly on
  NVVM/ROCDL;
- `CallsDone`: at `done`, every call and return is its conversion.

The two agreement properties then follow from `FuncsDone` and `CallsDone`,
because `CallOpConversion` and `ReturnOpConversion` read the same module data
as `FuncOpConversion`.

### Pipeline_proofs

- `TypeCorrect`.
- `TensorPtrMapCurrentHolds`.
- `RefinesContract`: `ASSUME "param" \notin SigChoices PROVE Spec =>
  Contract!SafetySpec`. This is the safety part of the refinement, under the
  hypothesis that no signature fails on its parameters alone. It is the hypothesis the
  `pipeline_signature_crash` run shows is needed.

- `CrashOnlyOnParamFailure`: `Spec => []CrashExactlyOnParamFailure`, with
  no hypothesis. Once the pass is done, the outcome is `crash` exactly when
  some function signature failed on a parameter type while its results
  converted (`CrashingReturn`). A failing result type ends in `failure`. Its
  invariant adds `SigGate` to `IInv`:
  - a crash means `CrashingReturn`;
  - reaching the main conversion, failure or success means no
    `CrashingReturn`;
  - a finished pass is no longer `running`.

  `SigGate` is proved relative to `IInv` (`NextSigGate`). `funcs` never
  changes, so `CrashingReturn` is fixed for the run, and the call/return
  stage is the only step that reads it.

The inductive invariant `IInv` states what each stage can rely on:

- `TensorPtrsCollected`: from the cleanup to the main conversion, the keys
  are exactly the TMA ops with a tensor pointer. The cleanup lemma
  `CleanupKeepsTensorPtr` shows that it changes masks only.
- `TmaLive`: until the main conversion, every TMA op is in the module.
- `FuncsConverted`: from `callret` on, the `llvm.func`s are exactly the
  functions whose signature converts (`sig = "ok"`).
- `StillRunning`: the outcome is `running` before `done`.
- `LegalBeforeFold`: at the fold, the module is fully legal.

The refinement step has one case per action:

- the first four stages are `Rewrite` steps;
- with the hypothesis, `CrashingReturn` is false, and the call/return stage
  never takes its crash branch;
- the main conversion is `Fail` or `Rewrite`;
- the fold is `Succeed`, by `LegalBeforeFold`, or `Fail`.

### What stays with TLC

- The properties that the violation runs refute.
- `KernelLaunchBound` and `KernelReturnNotLowered` on the targets where they
  fail. The violation runs show this. They are proved under the hypotheses
  above.
- Liveness and `ENABLED`, which TLAPS does not handle. Termination and the
  fairness part of `PassContract` are checked by TLC only, in
  `pipeline_contract`.
- Facts about recursive definitions proved by induction over data. None are
  used yet.

## 5. Not modelled

- **Allocation and membar analysis** (382-384) are external analyses. Only
  these outputs matter:
  - the `allocation.offset` attribute, which is an input of
    `CallingConvention`;
  - their place in the stage order, `Preprocess` in `Pipeline`.
- **The rules of the main conversion** (`populate*Patterns`, 479-522) are
  implemented in other files. `Pipeline` takes which operation kinds they
  lower as a constant, and does not model how they lower them. The same
  holds for the lowering of the async copies that survive on GENX.
- **The native dialects of each backend in the conversion targets**, and
  ROCDL having no case in either switch (56-63, 330-337), are not modelled.
  Whether a pattern that creates an operation of unknown legality is
  accepted is decided by MLIR's conversion driver, not by this file.
- **Which error message a failure reports** is wording, which the models
  leave out. A kernel return with operands on NVVM is reported by the main
  conversion as a generic legalization failure, not by `ReturnOpConversion`.
- **Planned:** a bit-level model of the decomposition, checking that load +
  insert_slice writes the same tile as the async copy it replaces.
