------------------------------ MODULE MC_Sealer ------------------------------
(* Model-checking instance of Sealer: two CPUs, thread settings covering   *)
(* the disabled (-1), one-per-CPU (0) and explicit (1) cases.              *)
EXTENDS Sealer

MC_NumCPU == 2
MC_ThreadSettings == {-1, 0, 1}
=============================================================================
