------------------------------- MODULE MC_Evm -------------------------------
(* Two accounts; a chain 0-1-2-3 with a side block at height 2 on block 1, *)
(* in 3-bit numbers so that the asked numbers reach past the chain.        *)
EXTENDS Evm, TLC

CONSTANTS a1, a2, g0, c1, c2, c3, s2, zero

MC_Account == {a1, a2}
MC_Header == {g0, c1, c2, c3, s2}
MC_Parent == (g0 :> zero) @@ (c1 :> g0) @@ (c2 :> c1) @@ (c3 :> c2) @@ (s2 :> c1)
MC_Num == (g0 :> 0) @@ (c1 :> 1) @@ (c2 :> 2) @@ (c3 :> 3) @@ (s2 :> 2)

=============================================================================
