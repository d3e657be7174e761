--------------------------- MODULE Pipeline_proofs ---------------------------
(***************************************************************************)
(* Proofs about the stage sequence of runOnOperation: type correctness,    *)
(* the currency of tensorPtrMap when the main conversion reads it, and,    *)
(* when every function signature converts, that the pass implements the   *)
(* safety part of PassContract.                                            *)
(***************************************************************************)
EXTENDS Pipeline, TLAPS

USE ConstantsAssumption

\* Where each stage stands; the facts the properties need, stage by stage.
TensorPtrsCollected ==
    stage \in {"cleanup", "funcs", "callret", "main"} =>
        tensorPtrMap = {i \in TmaIds : tma[i].tensorPtr}
TmaLive == stage \notin {"fold", "done"} => live = TmaIds
FuncsConverted ==
    stage \in {"callret", "main", "fold"} => fnLowered = {f \in Funcs : funcs[f].sig = "ok"}
StillRunning == stage # "done" => outcome = "running"
LegalBeforeFold == stage = "fold" => FullyLegal
SuccessOnlyAtEnd == outcome = "success" => stage = "done"

IInv ==
    /\ TypeOK
    /\ TensorPtrsCollected
    /\ TmaLive
    /\ FuncsConverted
    /\ StillRunning
    /\ LegalBeforeFold
    /\ SuccessOnlyAtEnd

-----------------------------------------------------------------------------
LEMMA InitIInv == Init => IInv
BY DEF Init, IInv, TypeOK, TensorPtrsCollected, TmaLive, FuncsConverted,
       StillRunning, LegalBeforeFold, SuccessOnlyAtEnd, Stages, Outcomes

\* The cleanup changes masks only: which operations hold a tensor pointer,
\* and the type of every operation, are as before.
LEMMA CleanupKeepsTensorPtr ==
    ASSUME TypeOK, CleanupSplatMask
    PROVE  /\ tma' \in [TmaIds -> TmaInfos]
           /\ \A i \in TmaIds : tma'[i].tensorPtr = tma[i].tensorPtr
BY DEF CleanupSplatMask, FoldSplatMask, TypeOK, TmaInfos

LEMMA NextIInv == IInv /\ [Next]_vars => IInv'
<1> SUFFICES ASSUME IInv, [Next]_vars PROVE IInv'
  OBVIOUS
<1> USE DEF IInv, TypeOK, TensorPtrsCollected, TmaLive, FuncsConverted,
            StillRunning, LegalBeforeFold, SuccessOnlyAtEnd,
            Stages, Outcomes, FullyLegal
<1>1. CASE Preprocess
  BY <1>1 DEF Preprocess
<1>2. CASE CollectTensorPtrMap
  BY <1>2 DEF CollectTensorPtrMap
<1>3. CASE CleanupSplatMask
  <2>1. tma' \in [TmaIds -> TmaInfos]
        /\ \A i \in TmaIds : tma'[i].tensorPtr = tma[i].tensorPtr
    BY <1>3, CleanupKeepsTensorPtr
  <2>2. failed' \in BOOLEAN
    BY <1>3 DEF CleanupSplatMask
  <2> QED
    BY <1>3, <2>1, <2>2 DEF CleanupSplatMask
<1>4. CASE LowerFunctions
  BY <1>4 DEF LowerFunctions
<1>5. CASE ConvertCallsAndReturns
  BY <1>5 DEF ConvertCallsAndReturns
<1>6. CASE MainConversion
  <2>1. ctaIdUsed' \in BOOLEAN
    BY <1>6 DEF MainConversion
  <2> QED
    BY <1>6, <2>1 DEF MainConversion, IllegalLeft
<1>7. CASE FoldCTAId
  BY <1>7 DEF FoldCTAId
<1>8. CASE UNCHANGED vars
  BY <1>8 DEF vars
<1> QED
  BY <1>1, <1>2, <1>3, <1>4, <1>5, <1>6, <1>7, <1>8 DEF Next

LEMMA IInvInvariant == Spec => []IInv
BY InitIInv, NextIInv, PTL DEF Spec

\* The state of the pass stays well typed, for every module and target.
THEOREM TypeCorrect == Spec => []TypeOK
BY IInvInvariant, PTL DEF IInv

\* Whenever the main conversion reads tensorPtrMap, every TMA operation of
\* the module with a tensor pointer is a key and every key is in the module.
THEOREM TensorPtrMapCurrentHolds == Spec => []TensorPtrMapCurrent
<1>1. IInv => TensorPtrMapCurrent
  BY DEF IInv, TensorPtrMapCurrent, TensorPtrsCollected, TmaLive
<1> QED
  BY <1>1, IInvInvariant, PTL

-----------------------------------------------------------------------------
\* If no signature fails on its parameters alone, the pass never crashes, and each of its
\* steps is a rewrite, a success on a fully legalized module or a failure
\* of PassContract (runOnOperation against its contract).
THEOREM RefinesContract ==
    ASSUME "param" \notin SigChoices
    PROVE  Spec => Contract!SafetySpec
<1>1. Init => Contract!Init
  BY DEF Init, Contract!Init, FullyLegal
<1>2. IInv /\ [Next]_vars => [Contract!Next]_Contract!vars
  <2> SUFFICES ASSUME IInv, [Next]_vars PROVE [Contract!Next]_Contract!vars
    OBVIOUS
  <2> USE DEF IInv, TypeOK, StillRunning, LegalBeforeFold, FuncsConverted
  <2>1. CASE Preprocess \/ CollectTensorPtrMap \/ CleanupSplatMask \/ LowerFunctions
    <3>1. outcome' = outcome /\ FullyLegal' \in BOOLEAN
      BY <2>1 DEF Preprocess, CollectTensorPtrMap, CleanupSplatMask,
                  LowerFunctions, FullyLegal
    <3>2. stage # "done"
      BY <2>1 DEF Preprocess, CollectTensorPtrMap, CleanupSplatMask, LowerFunctions
    <3> QED
      BY <3>1, <3>2 DEF Contract!Next, Contract!Rewrite, Contract!vars
  <2>2. CASE ConvertCallsAndReturns
    <3>1. ~CrashingReturn
      BY DEF CrashingReturn, FuncInfos
    <3>2. outcome' = outcome /\ outcome = "running"
      BY <2>2, <3>1 DEF ConvertCallsAndReturns
    <3> QED
      BY <3>2 DEF Contract!Next, Contract!Rewrite, Contract!vars, FullyLegal
  <2>3. CASE MainConversion
    <3>1. CASE IllegalLeft
      <4>1. outcome = "running" /\ outcome' = "failure" /\ UNCHANGED FullyLegal
        BY <2>3, <3>1 DEF MainConversion, FullyLegal
      <4> QED
        BY <4>1 DEF Contract!Next, Contract!Fail
    <3>2. CASE ~IllegalLeft
      BY <2>3, <3>2 DEF MainConversion, Contract!Next, Contract!Rewrite, FullyLegal
    <3> QED
      BY <3>1, <3>2
  <2>4. CASE FoldCTAId
    <3>1. outcome = "running" /\ FullyLegal /\ UNCHANGED FullyLegal
      BY <2>4 DEF FoldCTAId, FullyLegal
    <3> QED
      BY <2>4, <3>1 DEF FoldCTAId, Contract!Next, Contract!Succeed, Contract!Fail
  <2>5. CASE UNCHANGED vars
    BY <2>5 DEF vars, Contract!vars, FullyLegal
  <2> QED
    BY <2>1, <2>2, <2>3, <2>4, <2>5 DEF Next
<1> QED
  BY <1>1, <1>2, IInvInvariant, PTL DEF Spec, Contract!SafetySpec


-----------------------------------------------------------------------------
(* The crash of ReturnOpConversion, for every module.  Once the call and   *)
(* return stage has run, the outcome is a crash exactly when some function *)
(* signature failed on a parameter type while its result types converted: *)
(* then its tt.return's operands remap, the pattern runs inside a tt.func  *)
(* and dereferences the null llvm.func.  A failure on a result type stops  *)
(* the pattern at the operand remap, and the main conversion fails.        *)

CrashExactlyOnParamFailure ==
    stage = "done" => (outcome = "crash" <=> CrashingReturn)

SigGate ==
    /\ outcome = "crash" => CrashingReturn
    /\ (stage \in {"main", "fold"} \/ outcome \in {"success", "failure"}) =>
          ~CrashingReturn
    /\ stage = "done" => outcome # "running"

LEMMA NextSigGate == IInv /\ SigGate /\ [Next]_vars => SigGate'
<1> SUFFICES ASSUME IInv, SigGate, [Next]_vars PROVE SigGate'
  OBVIOUS
<1> USE DEF SigGate
<1>1. CASE Preprocess \/ CollectTensorPtrMap \/ CleanupSplatMask \/ LowerFunctions
  BY <1>1 DEF Preprocess, CollectTensorPtrMap, CleanupSplatMask, LowerFunctions,
              IInv, StillRunning, CrashingReturn
<1>2. CASE ConvertCallsAndReturns
  <2>1. outcome = "running"
    BY <1>2 DEF ConvertCallsAndReturns, IInv, StillRunning
  <2> QED
    BY <1>2, <2>1 DEF ConvertCallsAndReturns, CrashingReturn
<1>3. CASE MainConversion
  BY <1>3 DEF MainConversion, CrashingReturn
<1>4. CASE FoldCTAId
  BY <1>4 DEF FoldCTAId, CrashingReturn
<1>5. CASE UNCHANGED vars
  BY <1>5 DEF vars, CrashingReturn
<1> QED
  BY <1>1, <1>2, <1>3, <1>4, <1>5 DEF Next

\* For every module and target, a finished pass has crashed exactly when some
\* function's signature failed on a parameter type only (FuncOpConversion's
\* failure at 183-185 met by ReturnOpConversion's null parent at 99-100; a
\* result type that fails is caught by the operand remap first).
THEOREM CrashOnlyOnParamFailure == Spec => []CrashExactlyOnParamFailure
<1>1. Init => SigGate
  BY DEF Init, SigGate
<1>2. IInv /\ SigGate => CrashExactlyOnParamFailure
  BY DEF IInv, SigGate, CrashExactlyOnParamFailure, TypeOK, Outcomes
<1>3. IInv /\ SigGate /\ [Next]_vars => (IInv /\ SigGate)'
  BY NextIInv, NextSigGate
<1> QED
  BY <1>1, <1>2, <1>3, InitIInv, PTL DEF Spec
=============================================================================
