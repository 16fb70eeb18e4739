---------------------------- MODULE MC_LesHeaders ----------------------------
(* 3-bit words, a canonical chain 0..4 with a side block at height 2, and  *)
(* every query over them: origins past the head, every skip including the *)
(* ones whose Skip+1 or int(Skip) wraps, and amounts just past the limit.  *)
EXTENDS LesHeaders

CONSTANTS s2, zero, unk

MC_Queries ==
  {r \in Query : /\ r.amount <= MaxHeaderFetch + 1
                 /\ r.hash # Zero => r.number = 0}

=============================================================================
