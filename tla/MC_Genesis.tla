----------------------------- MODULE MC_Genesis -----------------------------
(* The default genesis, a custom one with another config, a custom one     *)
(* numbered 1, and one without a config; two configs that differ from     *)
(* block 2 on.                                                             *)
EXTENDS Genesis, TLC

CONSTANTS gM, gA, gB, gN, hM, hA, hB, hN, cD, cA, noCfg, nil

MC_Genesis == {gM, gA, gB, gN}
MC_GHash == (gM :> hM) @@ (gA :> hA) @@ (gB :> hB) @@ (gN :> hN)
MC_GConfig == (gM :> cD) @@ (gA :> cA) @@ (gB :> cA) @@ (gN :> noCfg)
MC_GNumber == (gM :> 0) @@ (gA :> 0) @@ (gB :> 1) @@ (gN :> 0)

=============================================================================
