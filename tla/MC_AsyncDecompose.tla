------------------------- MODULE MC_AsyncDecompose --------------------------
(* Finite instance of AsyncDecompose for TLC.  Three slots are enough for   *)
(* a wait placed before and after a decomposed copy; the data values make  *)
(* both eligible (16-byte) and ineligible (2- and 4-byte at cc 70) copies, *)
(* with and without a mask and with a shared vec of 1 and of 8.            *)
EXTENDS AsyncDecompose

MC_Targets == {"NVVM", "GENX"}
MC_Capabilities == {70, 80}
MC_ElemBits == {16}
MC_Contiguities == {1, 8}
MC_MaskAlignments == {2}
MC_SharedVecs == {1, 8}
MC_WaitNums == {0, 2}
MC_AttrSets == {{}, {"async_agent", "cache"}, {"agent.mutex_role"}}
=============================================================================
