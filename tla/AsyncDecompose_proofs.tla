------------------------ MODULE AsyncDecompose_proofs -----------------------
(***************************************************************************)
(* Proofs about AsyncDecompose for every value of the constants: the type  *)
(* invariant, and ConservativeWait through an inductive invariant that     *)
(* ties the flag `decomposed' to the load_insert slots it stands for.      *)
(***************************************************************************)
EXTENDS AsyncDecompose, TLAPS

-----------------------------------------------------------------------------
(* Lemmas about the operators the walks are built from.                    *)

\* An operation of kind insert_slice_async is one of the input form.
LEMMA InsertSliceAsyncKind ==
    ASSUME NEW op \in Ops, op.kind = "insert_slice_async"
    PROVE  op \in InsertSliceAsyncOps
BY DEF Ops, InputOps, InsertSliceAsyncOps, CommitOps, WaitOps, OtherOps,
       LoadInsertOps, NewWaitOps, ErasedOp

\* The decomposition of an insert_slice_async is a load_insert slot.
LEMMA DecompositionType ==
    ASSUME NEW op \in InsertSliceAsyncOps
    PROVE  Decomposition(op) \in LoadInsertOps
BY DEF Decomposition, LoadInsertOps, WSAttrs

\* What the wait walk makes of a wait is an erased slot, a wait-for-all
\* carrying only warp-specialisation attributes, or the wait itself.
LEMMA WaitRewriteType ==
    ASSUME NEW op \in Ops, NEW cc, NEW dec \in BOOLEAN
    PROVE  WaitRewrite(op, cc, dec) \in Ops
BY DEF WaitRewrite, Ops, NewWaitOps, WSAttrs

\* No input operation is a load_insert slot.
LEMMA InputNotLoadInsert ==
    ASSUME NEW op \in InputOps
    PROVE  op.kind # "load_insert"
BY DEF InputOps, InsertSliceAsyncOps, CommitOps, WaitOps, OtherOps

-----------------------------------------------------------------------------
LEMMA TypeInit == Init => TypeOK
BY ConstantsAssumption DEF Init, TypeOK, Ops

LEMMA TypeStep == TypeOK /\ [Next]_vars => TypeOK'
  <2> SUFFICES ASSUME TypeOK, [Next]_vars PROVE TypeOK'
    OBVIOUS
  <2>1. CASE SkipOtherTarget
    BY <2>1 DEF SkipOtherTarget, TypeOK
  <2>2. CASE WalkInsertSliceAsync
    <3>1. ASSUME NEW i \in Pos
          PROVE  (IF NeedsDecompose(ops[i], capability)
                  THEN Decomposition(ops[i]) ELSE ops[i]) \in Ops
      <4>1. CASE NeedsDecompose(ops[i], capability)
        BY <4>1, InsertSliceAsyncKind, DecompositionType
           DEF NeedsDecompose, TypeOK, Ops
      <4>2. CASE ~NeedsDecompose(ops[i], capability)
        BY <4>2 DEF TypeOK
      <4>3. QED
        BY <4>1, <4>2
    <3>2. QED
      BY <2>2, <3>1 DEF WalkInsertSliceAsync, TypeOK
  <2>3. CASE WalkAsyncCommitGroup
    BY <2>3 DEF WalkAsyncCommitGroup, TypeOK, Ops
  <2>4. CASE WalkAsyncWait
    <3>1. ASSUME NEW i \in Pos
          PROVE  (IF ops[i].kind = "async_wait"
                  THEN WaitRewrite(ops[i], capability, decomposed)
                  ELSE ops[i]) \in Ops
      BY WaitRewriteType DEF TypeOK
    <3>2. QED
      BY <2>4, <3>1 DEF WalkAsyncWait, TypeOK
  <2>5. CASE UNCHANGED vars
    BY <2>5 DEF vars, TypeOK
  <2>6. QED
    BY <2>1, <2>2, <2>3, <2>4, <2>5 DEF Next

\* The type invariant holds in every reachable state.
THEOREM TypeCorrect == Spec => []TypeOK
BY TypeInit, TypeStep, PTL DEF Spec

-----------------------------------------------------------------------------
(* ConservativeWait is not inductive: a state at "done" with a load_insert *)
(* and a narrow wait satisfies it only vacuously if nothing says how the   *)
(* flag relates to the slots.  The strengthening records that the module  *)
(* is untouched before the first walk, that afterwards the flag is true    *)
(* exactly when some slot was decomposed, and that at the end every wait   *)
(* is a wait-for-all when the flag is set.                                 *)

Untouched ==
    walk = "start" => (ops = input /\ decomposed = FALSE)

FlagTracksDecomposition ==
    walk \in {"commit", "wait", "done"} =>
        (decomposed <=> \E i \in Pos : ops[i].kind = "load_insert")

WaitsWidened ==
    (walk = "done" /\ decomposed) =>
        \A j \in Pos : ops[j].kind = "async_wait" => ops[j].num = 0

IInv == TypeOK /\ Untouched /\ FlagTracksDecomposition /\ WaitsWidened

LEMMA InitIInv == Init => IInv
BY ConstantsAssumption
   DEF Init, IInv, TypeOK, Ops, Untouched, FlagTracksDecomposition,
       WaitsWidened

LEMMA NextIInv == IInv /\ [Next]_vars => IInv'
<1> SUFFICES ASSUME IInv, [Next]_vars PROVE IInv'
  OBVIOUS
<1>1. TypeOK'
  BY TypeStep DEF IInv
<1>2. CASE SkipOtherTarget
  <2>1. \A i \in Pos : ops[i].kind # "load_insert"
    BY <1>2, InputNotLoadInsert DEF SkipOtherTarget, IInv, Untouched, TypeOK
  <2>2. QED
    BY <1>1, <1>2, <2>1
       DEF SkipOtherTarget, IInv, Untouched, FlagTracksDecomposition,
           WaitsWidened
<1>3. CASE WalkInsertSliceAsync
  <2>1. \A i \in Pos : ops[i].kind # "load_insert"
    BY <1>3, InputNotLoadInsert DEF WalkInsertSliceAsync, IInv, Untouched, TypeOK
  <2>2. \A i \in Pos : ops'[i].kind = "load_insert"
                         <=> NeedsDecompose(ops[i], capability)
    BY <1>3, <2>1 DEF WalkInsertSliceAsync, Decomposition
  <2>3. FlagTracksDecomposition'
    BY <1>3, <2>2 DEF WalkInsertSliceAsync, FlagTracksDecomposition
  <2>4. QED
    BY <1>1, <1>3, <2>3 DEF WalkInsertSliceAsync, IInv, Untouched, WaitsWidened
<1>4. CASE WalkAsyncCommitGroup
  <2>1. \A i \in Pos : ops'[i].kind = "load_insert" <=> ops[i].kind = "load_insert"
    BY <1>4 DEF WalkAsyncCommitGroup, ErasedOp
  <2>2. QED
    BY <1>1, <1>4, <2>1
       DEF WalkAsyncCommitGroup, IInv, Untouched, FlagTracksDecomposition,
           WaitsWidened
<1>5. CASE WalkAsyncWait
  <2>1. \A i \in Pos : ops'[i].kind = "load_insert" <=> ops[i].kind = "load_insert"
    BY <1>5 DEF WalkAsyncWait, WaitRewrite, ErasedOp
  <2>2. WaitsWidened'
    <3> SUFFICES ASSUME decomposed, NEW j \in Pos, ops'[j].kind = "async_wait"
                 PROVE  ops'[j].num = 0
      BY <1>5 DEF WalkAsyncWait, WaitsWidened
    <3>1. ops[j].kind = "async_wait"
      BY <1>5 DEF WalkAsyncWait, WaitRewrite, ErasedOp
    <3>2. QED
      BY <1>5, <3>1 DEF WalkAsyncWait, WaitRewrite, ErasedOp
  <2>3. QED
    BY <1>1, <1>5, <2>1, <2>2
       DEF WalkAsyncWait, IInv, Untouched, FlagTracksDecomposition
<1>6. CASE UNCHANGED vars
  BY <1>1, <1>6
     DEF vars, IInv, Untouched, FlagTracksDecomposition, WaitsWidened
<1>7. QED
  BY <1>2, <1>3, <1>4, <1>5, <1>6 DEF Next

\* Spec "conservative wait" holds in every reachable state, for every size
\* of module, target, compute capability and operand data.
THEOREM ConservativeWaitHolds == Spec => []ConservativeWait
<1>1. IInv => ConservativeWait
  BY DEF IInv, FlagTracksDecomposition, WaitsWidened, ConservativeWait
<1>2. QED
  BY InitIInv, NextIInv, <1>1, PTL DEF Spec

-----------------------------------------------------------------------------
(* Where each slot comes from.  A slot is its input operation, the         *)
(* decomposition of its input copy, an erased marker, or (once the wait    *)
(* walk has run) the wait-for-all made from its input wait.  The commit    *)
(* and wait walks therefore only ever see input operations.               *)

WidenedWait(op) == [kind |-> "async_wait", num |-> 0, attrs |-> WSAttrs(op.attrs)]

Provenance ==
    \A i \in Pos :
        \/ ops[i] = input[i]
        \/ input[i].kind = "insert_slice_async" /\ ops[i] = Decomposition(input[i])
        \/ walk = "done" /\ input[i].kind = "async_wait" /\ ops[i] = WidenedWait(input[i])
        \/ ops[i] = ErasedOp

PInv == TypeOK /\ Untouched /\ Provenance

LEMMA InitPInv == Init => PInv
BY TypeInit DEF Init, PInv, Untouched, Provenance

LEMMA NextPInv == PInv /\ [Next]_vars => PInv'
<1> SUFFICES ASSUME PInv, [Next]_vars PROVE PInv'
  OBVIOUS
<1>1. TypeOK'
  BY TypeStep DEF PInv
<1>2. CASE SkipOtherTarget
  BY <1>1, <1>2 DEF SkipOtherTarget, PInv, Untouched, Provenance
<1>3. CASE WalkInsertSliceAsync
  <2>1. ops = input
    BY <1>3 DEF WalkInsertSliceAsync, PInv, Untouched
  <2>2. Provenance'
    BY <1>3, <2>1 DEF WalkInsertSliceAsync, Provenance, NeedsDecompose
  <2>3. QED
    BY <1>1, <1>3, <2>2 DEF WalkInsertSliceAsync, PInv, Untouched
<1>4. CASE WalkAsyncCommitGroup
  <2>1. ASSUME NEW i \in Pos, ops[i].kind = "async_commit_group"
        PROVE  ops[i] = input[i]
    <3>1. walk = "commit"
      BY <1>4 DEF WalkAsyncCommitGroup
    <3>2. ops[i] # Decomposition(input[i]) /\ ops[i] # ErasedOp
      BY <2>1 DEF Decomposition, ErasedOp
    <3> QED
      BY <3>1, <3>2 DEF PInv, Provenance
  <2>2. Provenance'
    BY <1>4, <2>1 DEF WalkAsyncCommitGroup, PInv, Provenance
  <2>3. QED
    BY <1>1, <1>4, <2>2 DEF WalkAsyncCommitGroup, PInv, Untouched
<1>5. CASE WalkAsyncWait
  <2>1. ASSUME NEW i \in Pos, ops[i].kind = "async_wait"
        PROVE  ops[i] = input[i]
    <3>1. walk = "wait"
      BY <1>5 DEF WalkAsyncWait
    <3>2. ops[i] # Decomposition(input[i]) /\ ops[i] # ErasedOp
      BY <2>1 DEF Decomposition, ErasedOp
    <3> QED
      BY <3>1, <3>2 DEF PInv, Provenance
  <2>2. ASSUME NEW i \in Pos, ops[i].kind = "async_wait"
        PROVE  WaitRewrite(ops[i], capability, decomposed) \in
                   {ErasedOp, WidenedWait(input[i]), input[i]}
    BY <2>1, <2>2 DEF WaitRewrite, WidenedWait
  <2>3. Provenance'
    BY <1>5, <2>1, <2>2 DEF WalkAsyncWait, PInv, Provenance
  <2>4. QED
    BY <1>1, <1>5, <2>3 DEF WalkAsyncWait, PInv, Untouched
<1>6. CASE UNCHANGED vars
  BY <1>1, <1>6 DEF vars, PInv, Untouched, Provenance
<1>7. QED
  BY <1>2, <1>3, <1>4, <1>5, <1>6 DEF Next

\* Every load, insert_slice and wait-for-all the decomposition creates
\* carries exactly the warp-specialisation attributes of the operation it
\* replaces (addWSNamedAttrs), for every module and capability.
THEOREM WSAttrsPreservedHolds == Spec => []WSAttrsPreserved
<1>1. PInv => WSAttrsPreserved
  <2> SUFFICES ASSUME PInv, walk = "done", NEW i \in Pos
               PROVE  /\ ops[i].kind = "load_insert" =>
                            /\ ops[i].loadAttrs = input[i].attrs \cap WSNames
                            /\ ops[i].insertAttrs = input[i].attrs \cap WSNames
                      /\ (ops[i].kind = "async_wait" /\ ops[i] # input[i]) =>
                            ops[i].attrs = input[i].attrs \cap WSNames
    BY DEF WSAttrsPreserved
  <2>1. input[i].kind # "load_insert"
    BY InputNotLoadInsert DEF PInv, TypeOK
  <2>2. WSAttrs(input[i].attrs) = input[i].attrs \cap WSNames
    BY DEF WSAttrs
  <2>3. CASE ops[i] = input[i]
    BY <2>1, <2>3
  <2>4. CASE ops[i] = Decomposition(input[i])
    BY <2>2, <2>4 DEF Decomposition
  <2>5. CASE ops[i] = WidenedWait(input[i])
    BY <2>2, <2>5 DEF WidenedWait
  <2>6. CASE ops[i] = ErasedOp
    BY <2>6 DEF ErasedOp
  <2> QED
    BY <2>3, <2>4, <2>5, <2>6 DEF PInv, Provenance
<1>2. QED
  BY InitPInv, NextPInv, <1>1, PTL DEF Spec

-----------------------------------------------------------------------------
(* Markers are erased only below compute capability 80, and an             *)
(* insert_slice_async survives the first walk on GENX only when its width  *)
(* is eligible, which needs capability 80: the two never meet.             *)

ErasedOnlyUnsupported ==
    \A j \in Pos : ops[j] = ErasedOp => (target = "GENX" /\ capability < 80)

SurvivorsEligible ==
    (/\ target = "GENX" /\ walk \in {"commit", "wait", "done"}
     /\ \E i \in Pos : ops[i].kind = "insert_slice_async") => capability >= 80

WalkOnGENX == walk \in {"commit", "wait"} => target = "GENX"

MInv == TypeOK /\ WalkOnGENX /\ ErasedOnlyUnsupported /\ SurvivorsEligible

\* No input operation is an erased slot.
LEMMA InputNotErased ==
    ASSUME NEW op \in InputOps
    PROVE  op # ErasedOp
BY DEF InputOps, InsertSliceAsyncOps, CommitOps, WaitOps, OtherOps, ErasedOp

LEMMA InitMInv == Init => MInv
BY TypeInit, InputNotErased DEF Init, MInv, WalkOnGENX, ErasedOnlyUnsupported, SurvivorsEligible

LEMMA NextMInv == MInv /\ [Next]_vars => MInv'
<1> SUFFICES ASSUME MInv, [Next]_vars PROVE MInv'
  OBVIOUS
<1>1. TypeOK'
  BY TypeStep DEF MInv
<1> USE DEF MInv, WalkOnGENX, ErasedOnlyUnsupported, SurvivorsEligible, TypeOK
<1>2. CASE SkipOtherTarget
  BY <1>1, <1>2 DEF SkipOtherTarget
<1>3. CASE WalkInsertSliceAsync
  <2>1. ASSUME NEW i \in Pos, ops'[i].kind = "insert_slice_async"
        PROVE  capability >= 80
    <3>1. ~NeedsDecompose(ops[i], capability)
      BY <1>3, <2>1 DEF WalkInsertSliceAsync, Decomposition
    <3>2. ops[i].kind = "insert_slice_async"
      BY <1>3, <2>1, <3>1 DEF WalkInsertSliceAsync
    <3>3. ByteWidth(ops[i]) \in EligibleLoadByteWidth(capability)
      BY <3>1, <3>2 DEF NeedsDecompose
    <3> QED
      BY <3>3 DEF EligibleLoadByteWidth
  <2>2. ASSUME NEW j \in Pos, ops'[j] = ErasedOp
        PROVE  ops[j] = ErasedOp
    BY <1>3, <2>2 DEF WalkInsertSliceAsync, Decomposition, ErasedOp
  <2> QED
    BY <1>1, <1>3, <2>1, <2>2 DEF WalkInsertSliceAsync
<1>4. CASE WalkAsyncCommitGroup
  <2>1. ASSUME NEW j \in Pos, ops'[j] = ErasedOp, ops[j] # ErasedOp
        PROVE  target = "GENX" /\ capability < 80
    <3>1. ~CommitSupported(capability)
      BY <1>4, <2>1 DEF WalkAsyncCommitGroup
    <3>2. target = "GENX"
      BY <1>4 DEF WalkAsyncCommitGroup
    <3> QED
      BY <3>1, <3>2 DEF CommitSupported
  <2>2. \A i \in Pos : ops'[i].kind = "insert_slice_async" => ops[i].kind = "insert_slice_async"
    BY <1>4 DEF WalkAsyncCommitGroup, ErasedOp
  <2> QED
    BY <1>1, <1>4, <2>1, <2>2 DEF WalkAsyncCommitGroup
<1>5. CASE WalkAsyncWait
  <2>1. ASSUME NEW j \in Pos, ops'[j] = ErasedOp, ops[j] # ErasedOp
        PROVE  target = "GENX" /\ capability < 80
    <3>1. ops[j].kind = "async_wait" /\ ~WaitSupported(capability)
      BY <1>5, <2>1 DEF WalkAsyncWait, WaitRewrite, ErasedOp
    <3> QED
      BY <1>5, <3>1 DEF WalkAsyncWait, WaitSupported
  <2>2. \A i \in Pos : ops'[i].kind = "insert_slice_async" => ops[i].kind = "insert_slice_async"
    BY <1>5 DEF WalkAsyncWait, WaitRewrite, ErasedOp
  <2> QED
    BY <1>1, <1>5, <2>1, <2>2 DEF WalkAsyncWait
<1>6. CASE UNCHANGED vars
  BY <1>1, <1>6 DEF vars
<1>7. QED
  BY <1>2, <1>3, <1>4, <1>5, <1>6 DEF Next

\* An insert_slice_async that survives the pass keeps every commit and wait
\* of the module, for every module, target and compute capability.
THEOREM AsyncCopiesKeepMarkersHolds == Spec => []AsyncCopiesKeepMarkers
<1>1. MInv => AsyncCopiesKeepMarkers
  BY DEF MInv, WalkOnGENX, ErasedOnlyUnsupported, SurvivorsEligible,
         AsyncCopiesKeepMarkers, TypeOK
<1>2. QED
  BY InitMInv, NextMInv, <1>1, PTL DEF Spec

-----------------------------------------------------------------------------
(* The refinement of AsyncContract.  The invariant says exactly what the   *)
(* module is after each walk, as a function of the input: after the first *)
(* walk every ineligible copy is decomposed and the flag says whether any  *)
(* was, after the second the unsupported commits are gone too, and at the *)
(* end the module is the contract's one-step rewrite.                      *)

\* One operation after the first walk, and after the first two.
AfterInsertWalk(op, cc) ==
    IF NeedsDecompose(op, cc) THEN Decomposition(op) ELSE op
AfterCommitWalk(op, cc) ==
    IF AfterInsertWalk(op, cc).kind = "async_commit_group" /\ ~CommitSupported(cc)
    THEN ErasedOp ELSE AfterInsertWalk(op, cc)

Stagewise ==
    /\ walk \in {"commit", "wait"} =>
          /\ target = "GENX"
          /\ decomposed = Contract!AnyDecomposed(input, capability)
    /\ walk = "commit" =>
          ops = [i \in Pos |-> AfterInsertWalk(input[i], capability)]
    /\ walk = "wait" =>
          ops = [i \in Pos |-> AfterCommitWalk(input[i], capability)]
    /\ walk = "done" =>
          ops = IF target = "GENX"
                THEN [i \in Pos |-> Contract!Rewritten(input, capability, i)]
                ELSE input

RInv == TypeOK /\ Untouched /\ Stagewise

\* The contract's rewrite, in terms of this module's operators: AsyncContract
\* extends the same AsyncOps, so each instantiated operator is the original.
LEMMA ContractOps ==
    /\ Contract!Pos = Pos
    /\ \A op, cc : Contract!NeedsDecompose(op, cc) = NeedsDecompose(op, cc)
    /\ \A op : Contract!Decomposition(op) = Decomposition(op)
    /\ \A cc : Contract!CommitSupported(cc) = CommitSupported(cc)
    /\ Contract!ErasedOp = ErasedOp
    /\ \A op, cc, d : Contract!WaitRewrite(op, cc, d) = WaitRewrite(op, cc, d)
    /\ Contract!InputOps = InputOps
<1>1. Contract!Pos = Pos
  BY DEF Contract!Pos, Pos
<1>2. \A op, cc : Contract!NeedsDecompose(op, cc) = NeedsDecompose(op, cc)
  BY DEF Contract!NeedsDecompose, NeedsDecompose, Contract!ByteWidth, ByteWidth,
         Contract!MinOf, MinOf, Contract!MaxOf, MaxOf,
         Contract!EligibleLoadByteWidth, EligibleLoadByteWidth
<1>3. \A op : Contract!Decomposition(op) = Decomposition(op)
  BY DEF Contract!Decomposition, Decomposition, Contract!WSAttrs, WSAttrs,
         Contract!WSNames, WSNames
<1>4. \A cc : Contract!CommitSupported(cc) = CommitSupported(cc)
  BY DEF Contract!CommitSupported, CommitSupported
<1>5. Contract!ErasedOp = ErasedOp
  BY DEF Contract!ErasedOp, ErasedOp
<1>6. \A op, cc, d : Contract!WaitRewrite(op, cc, d) = WaitRewrite(op, cc, d)
  BY DEF Contract!WaitRewrite, WaitRewrite, Contract!WaitSupported, WaitSupported,
         Contract!WSAttrs, WSAttrs, Contract!WSNames, WSNames,
         Contract!ErasedOp, ErasedOp
<1>7. Contract!InputOps = InputOps
  BY DEF Contract!InputOps, InputOps, Contract!InsertSliceAsyncOps,
         InsertSliceAsyncOps, Contract!CommitOps, CommitOps, Contract!WaitOps,
         WaitOps, Contract!OtherOps, OtherOps
<1> QED
  BY <1>1, <1>2, <1>3, <1>4, <1>5, <1>6, <1>7

LEMMA ContractRewritten ==
    ASSUME NEW in, NEW cc, NEW i
    PROVE  /\ Contract!AnyDecomposed(in, cc) = \E j \in Pos : NeedsDecompose(in[j], cc)
           /\ Contract!Rewritten(in, cc, i) =
                IF NeedsDecompose(in[i], cc) THEN Decomposition(in[i])
                ELSE IF in[i].kind = "async_commit_group" /\ ~CommitSupported(cc)
                     THEN ErasedOp
                ELSE IF in[i].kind = "async_wait"
                     THEN WaitRewrite(in[i], cc, Contract!AnyDecomposed(in, cc))
                ELSE in[i]
BY ContractOps DEF Contract!AnyDecomposed, Contract!Rewritten

\* What the wait walk makes of a slot after the first two walks is what the
\* contract's one-step rewrite puts there.
LEMMA SlotComposition ==
    ASSUME NEW in \in [Pos -> InputOps], NEW cc, NEW dec, NEW i \in Pos,
           dec = Contract!AnyDecomposed(in, cc)
    PROVE  LET o == AfterCommitWalk(in[i], cc)
           IN  (IF o.kind = "async_wait" THEN WaitRewrite(o, cc, dec) ELSE o)
                 = Contract!Rewritten(in, cc, i)
<1>1. CASE NeedsDecompose(in[i], cc)
  BY <1>1, ContractRewritten DEF AfterCommitWalk, AfterInsertWalk, Decomposition
<1>2. CASE ~NeedsDecompose(in[i], cc)
  <2>1. AfterInsertWalk(in[i], cc) = in[i]
    BY <1>2 DEF AfterInsertWalk
  <2>2. CASE in[i].kind = "async_commit_group" /\ ~CommitSupported(cc)
    BY <1>2, <2>1, <2>2, ContractRewritten DEF AfterCommitWalk, ErasedOp
  <2>3. CASE ~(in[i].kind = "async_commit_group" /\ ~CommitSupported(cc))
    <3>1. AfterCommitWalk(in[i], cc) = in[i]
      BY <2>1, <2>3 DEF AfterCommitWalk
    <3>2. Contract!Rewritten(in, cc, i) =
            IF in[i].kind = "async_wait"
            THEN WaitRewrite(in[i], cc, Contract!AnyDecomposed(in, cc))
            ELSE in[i]
      BY <1>2, <2>3, ContractRewritten
    <3> QED
      BY <3>1, <3>2
  <2> QED
    BY <2>2, <2>3
<1> QED
  BY <1>1, <1>2

LEMMA InitRInv == Init => RInv
BY TypeInit DEF Init, RInv, Untouched, Stagewise

LEMMA NextRInv == RInv /\ [Next]_vars => RInv'
<1> SUFFICES ASSUME RInv, [Next]_vars PROVE RInv'
  OBVIOUS
<1>1. TypeOK'
  BY TypeStep DEF RInv
<1>2. CASE SkipOtherTarget
  BY <1>1, <1>2 DEF SkipOtherTarget, RInv, Untouched, Stagewise
<1>3. CASE WalkInsertSliceAsync
  <2>1. ops = input /\ target = "GENX"
    BY <1>3 DEF WalkInsertSliceAsync, RInv, Untouched
  <2>2. decomposed' = Contract!AnyDecomposed(input, capability)
    BY <1>3, <2>1, ContractRewritten DEF WalkInsertSliceAsync
  <2>3. ops' = [i \in Pos |-> AfterInsertWalk(input[i], capability)]
    BY <1>3, <2>1 DEF WalkInsertSliceAsync, AfterInsertWalk
  <2> QED
    BY <1>1, <1>3, <2>1, <2>2, <2>3 DEF WalkInsertSliceAsync, RInv, Untouched, Stagewise
<1>4. CASE WalkAsyncCommitGroup
  <2>1. ops' = [i \in Pos |-> AfterCommitWalk(input[i], capability)]
    BY <1>4 DEF WalkAsyncCommitGroup, RInv, Stagewise, AfterCommitWalk
  <2> QED
    BY <1>1, <1>4, <2>1 DEF WalkAsyncCommitGroup, RInv, Untouched, Stagewise
<1>5. CASE WalkAsyncWait
  <2>1. target = "GENX" /\ decomposed = Contract!AnyDecomposed(input, capability)
        /\ ops = [i \in Pos |-> AfterCommitWalk(input[i], capability)]
    BY <1>5 DEF WalkAsyncWait, RInv, Stagewise
  <2>2. input \in [Pos -> InputOps]
    BY DEF RInv, TypeOK
  <2>3. ops' = [i \in Pos |-> Contract!Rewritten(input, capability, i)]
    BY <1>5, <2>1, <2>2, SlotComposition DEF WalkAsyncWait
  <2> QED
    BY <1>1, <1>5, <2>1, <2>3 DEF WalkAsyncWait, RInv, Untouched, Stagewise
<1>6. CASE UNCHANGED vars
  BY <1>1, <1>6 DEF vars, RInv, Untouched, Stagewise
<1>7. QED
  BY <1>2, <1>3, <1>4, <1>5, <1>6 DEF Next

\* decomposeInsertSliceAsyncOp implements its one-step contract for every
\* module size, target, capability and operand data: the three walks, run
\* in order with the flag between them, rewrite the module exactly as
\* AsyncContract's single Decompose step does.
THEOREM RefinesAsyncContract == Spec => ImplementsAsyncContract
<1>1. Init => Contract!Init
  BY ContractOps DEF Init, Contract!Init
<1>2. RInv /\ [Next]_vars => [Contract!Decompose]_Contract!vars
  <2> SUFFICES ASSUME RInv, [Next]_vars
               PROVE  [Contract!Decompose]_Contract!vars
    OBVIOUS
  <2>1. CASE SkipOtherTarget
    <3>1. ops = input /\ target # "GENX" /\ walk = "start"
      BY <2>1 DEF SkipOtherTarget, RInv, Untouched
    <3> QED
      BY <2>1, <3>1 DEF SkipOtherTarget, Contract!Decompose
  <2>2. CASE WalkInsertSliceAsync \/ WalkAsyncCommitGroup
    BY <2>2 DEF WalkInsertSliceAsync, WalkAsyncCommitGroup, Contract!vars
  <2>3. CASE WalkAsyncWait
    <3>1. ops' = [i \in Pos |-> Contract!Rewritten(input, capability, i)]
          /\ target = "GENX"
      <4>1. RInv'
        BY NextRInv
      <4> QED
        BY <2>3, <4>1 DEF WalkAsyncWait, RInv, Stagewise
    <3> QED
      BY <2>3, <3>1, ContractOps DEF WalkAsyncWait, Contract!Decompose
  <2>4. CASE UNCHANGED vars
    BY <2>4 DEF vars, Contract!vars
  <2> QED
    BY <2>1, <2>2, <2>3, <2>4 DEF Next
<1>3. QED
  BY <1>1, <1>2, InitRInv, NextRInv, PTL
     DEF Spec, ImplementsAsyncContract, Contract!Spec
=============================================================================
