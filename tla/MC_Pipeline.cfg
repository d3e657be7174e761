CONSTANTS
    Funcs <- MC_Funcs
    TmaIds = {t1, t2}
    OpKinds <- MC_OpKinds
    LowerableKinds <- MC_LowerableKinds
    TargetChoices <- MC_Targets
    CTACounts <- MC_CTACounts
    SigChoices <- MC_SigChoices
    DriverResults <- MC_DriverResults
SPECIFICATION Spec
\* The pass ends: its final state has no successor.
CHECK_DEADLOCK FALSE
INVARIANTS TypeOK TensorPtrMapCurrent
