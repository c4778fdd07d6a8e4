-------------------------- MODULE MCManagedPosition --------------------------
(* ManagedPosition on a small instance.                                    *)
EXTENDS ManagedPosition

(* The horizons of the playbook, in the order of its regimes, shortened.   *)
MCHorizon == [r \in 0..3 |-> CASE r \in {0, 1} -> 1 [] r \in {2, 3} -> 2]

=============================================================================
