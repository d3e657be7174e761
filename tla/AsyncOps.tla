------------------------------ MODULE AsyncOps ------------------------------
(***************************************************************************)
(* The data of ConvertTritonGPUToLLVM::decomposeInsertSliceAsyncOp: the    *)
(* constants, the operations of a module, the byte-width computation and   *)
(* what each walk of the function makes of one operation.  AsyncDecompose *)
(* (the three walks, step by step) and AsyncContract (the function's       *)
(* effect in one step) both extend this module.                            *)
(***************************************************************************)
EXTENDS Naturals, FiniteSets

CONSTANTS
    N,               \* number of operation slots in the module
    TargetChoices,   \* targets the pass may be created for
    Capabilities,    \* compute capabilities the pass may be created with
    ElemBits,        \* element bit widths of the destination tensor
    Contiguities,    \* pointer contiguities reported by AxisInfo
    MaskAlignments,  \* mask alignments reported by AxisInfo
    SharedVecs,      \* `vec' of the destination's shared encoding
    WaitNums,        \* `num' operands of async_wait in the input
    AttrSets,        \* attribute-name sets an input operation may carry
    NoMask           \* model value: insert_slice_async without a mask

Targets == {"NVVM", "ROCDL", "GENX"}

\* The two attribute names addWSNamedAttrs copies onto replacement ops.
WSNames == {"async_agent", "agent.mutex_role"}

ASSUME ConstantsAssumption ==
    /\ N \in Nat \ {0}
    /\ TargetChoices \subseteq Targets
    /\ Capabilities \subseteq Nat
    /\ ElemBits \subseteq Nat \ {0}
    /\ Contiguities \subseteq Nat \ {0}
    /\ MaskAlignments \subseteq Nat \ {0}
    /\ SharedVecs \subseteq Nat
    /\ WaitNums \subseteq Nat
    /\ NoMask \notin Nat

Pos == 1..N

MinOf(a, b) == IF a <= b THEN a ELSE b
MaxOf(a, b) == IF a >= b THEN a ELSE b

-----------------------------------------------------------------------------
(* Operations.  An insert_slice_async keeps the facts the byte-width       *)
(* computation reads; a decomposed one becomes a "load_insert" slot that   *)
(* stands for the new tt.load followed by tensor.insert_slice, with the    *)
(* attributes of each and the operation it replaces.                       *)

InsertSliceAsyncOps ==
    [kind: {"insert_slice_async"}, contig: Contiguities,
     mask: MaskAlignments \cup {NoMask}, vec: SharedVecs, bits: ElemBits,
     attrs: AttrSets]
CommitOps == [kind: {"async_commit_group"}, attrs: AttrSets]
WaitOps   == [kind: {"async_wait"}, num: WaitNums, attrs: AttrSets]
OtherOps  == [kind: {"other"}]
InputOps  == InsertSliceAsyncOps \cup CommitOps \cup WaitOps \cup OtherOps

\* Created operations carry no attribute of the replaced one other than
\* the warp-specialisation ones.
LoadInsertOps ==
    [kind: {"load_insert"}, from: InsertSliceAsyncOps,
     loadAttrs: SUBSET WSNames, insertAttrs: SUBSET WSNames]
ErasedOp == [kind |-> "erased"]
NewWaitOps == [kind: {"async_wait"}, num: {0}, attrs: SUBSET WSNames]
Ops == InputOps \cup LoadInsertOps \cup NewWaitOps \cup {ErasedOp}

-----------------------------------------------------------------------------
(* Target properties defined in the TritonGPU dialect (not in this file):  *)
(* cp.async exists from compute capability 80 on, for 4, 8 and 16 bytes.   *)

\* Mutant: cp.async believed available one generation early.
EligibleLoadByteWidthEarly(cc) == IF cc >= 70 THEN {4, 8, 16} ELSE {}

EligibleLoadByteWidth(cc) == IF cc >= 80 THEN {4, 8, 16} ELSE {}
CommitSupported(cc) == cc >= 80
WaitSupported(cc) == cc >= 80

\* Mutant: the name test forgets "agent.mutex_role".
WSAttrsAgentOnly(attrs) == {a \in attrs : a = "async_agent"}

\* addWSNamedAttrs: the warp-specialisation attributes of `attrs'.
WSAttrs(attrs) == {a \in attrs : a \in WSNames}

\* Vectorised load size in bytes, as computed before the eligibility test.
ByteWidth(op) ==
    LET inVec  == IF op.mask = NoMask THEN op.contig
                  ELSE MinOf(op.mask, op.contig)
        minVec == IF op.vec > 1 THEN MinOf(op.vec, inVec) ELSE inVec
        maxBitWidth == MaxOf(128, op.bits)
        bitWidth == MinOf(maxBitWidth, op.bits * minVec)
    IN  bitWidth \div 8

NeedsDecompose(op, cc) ==
    /\ op.kind = "insert_slice_async"
    /\ ByteWidth(op) \notin EligibleLoadByteWidth(cc)

\* Mutant: the replacements receive all of the op's attributes.
DecompositionAllAttrs(op) ==
    [kind |-> "load_insert", from |-> op,
     loadAttrs |-> op.attrs, insertAttrs |-> op.attrs]

\* The load + insert_slice pair that replaces `op'.
Decomposition(op) ==
    [kind |-> "load_insert", from |-> op,
     loadAttrs |-> WSAttrs(op.attrs), insertAttrs |-> WSAttrs(op.attrs)]

\* What the third walk does to one async_wait: the capability test comes
\* first, so an unsupported wait is erased even when something was
\* decomposed.
WaitRewrite(op, cc, dec) ==
    IF ~WaitSupported(cc) THEN ErasedOp
    ELSE IF dec THEN [kind |-> "async_wait", num |-> 0, attrs |-> WSAttrs(op.attrs)]
    ELSE op
=============================================================================
