CONSTANTS
    N = 3
    NoMask = NoMask
    TargetChoices <- MC_Targets
    Capabilities <- MC_Capabilities
    ElemBits <- MC_ElemBits
    Contiguities <- MC_Contiguities
    MaskAlignments <- MC_MaskAlignments
    SharedVecs <- MC_SharedVecs
    WaitNums <- MC_WaitNums
    AttrSets <- MC_AttrSets

SPECIFICATION Spec

\* The pass runs to completion and stops: its final state has no successor.
CHECK_DEADLOCK FALSE


INVARIANT GenxNoAsyncCopyLeft
