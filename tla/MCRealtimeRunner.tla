-------------------------- MODULE MCRealtimeRunner --------------------------
(* RealtimeRunner on a small instance.                                     *)
EXTENDS RunnerProperties, TLC

CONSTANTS wide

(* The default geometry is one level wide, the other plan two.             *)
MCWidth == [p \in Plans \cup {NoPlan} |-> IF p = NoPlan THEN 1 ELSE 2]

MCSymmetry == Permutations(StopIds) \cup Permutations(BuyIds) \cup Permutations(SellIds)
=============================================================================
