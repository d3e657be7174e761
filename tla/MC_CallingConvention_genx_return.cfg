CONSTANTS
    Absent = Absent
    Funcs <- MC_Funcs
    CallSites <- MC_CallSites
    ParamCounts <- MC_ParamCounts
    MaxResults <- MC_MaxResults
    TargetConfigs <- MC_GENX
    WarpCounts <- MC_WarpCounts
    WarpGroups <- MC_WarpGroups

SPECIFICATION Spec

\* The pass runs its stages once and stops.
CHECK_DEADLOCK FALSE

INVARIANT
    KernelReturnNotLowered
