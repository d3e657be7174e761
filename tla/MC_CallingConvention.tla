----------------------- MODULE MC_CallingConvention -------------------------
(* Finite instances of CallingConvention for TLC.  Three functions allow a *)
(* kernel calling a device function that calls another; two call sites    *)
(* allow a callee with two callers; results 0, 1 and 2 cover the plain,    *)
(* single and struct conventions.                                           *)
EXTENDS CallingConvention

MC_Funcs == {"f1", "f2", "f3"}
MC_CallSites == {"c1", "c2"}
MC_ParamCounts == {1}
MC_MaxResults == 2
MC_WarpCounts == {4}
MC_WarpGroups == {2}
MC_NVVM == {<<"NVVM", 32>>}
MC_GENX == {<<"GENX", 16>>, <<"GENX", 32>>}
MC_ROCDL == {<<"ROCDL", 64>>}
=============================================================================
