----------------------------- MODULE MC_Pipeline -----------------------------
EXTENDS Pipeline

MC_Funcs == {"kern", "dev"}
MC_OpKinds == {"dot", "histogram"}
MC_LowerableKinds == {"dot"}
MC_Targets == {"NVVM", "GENX"}
MC_CTACounts == {1, 2}
MC_SigNoCrash == {"ok", "result"}
MC_SigChoices == {"ok", "param", "result"}
MC_DriverResults == BOOLEAN

=============================================================================
