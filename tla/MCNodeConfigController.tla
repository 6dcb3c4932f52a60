----------------------- MODULE MCNodeConfigController -----------------------
(* Instances of NodeConfigController for TLC. *)
EXTENDS NodeConfigController, TLC

Symmetry == Permutations(Runners) \cup Permutations(Configs) \cup Permutations(Nodes)

\* Nothing is left of a goroutine that has returned and is not in the collector.
Observed ==
    <<nc, queue, collector, alive, panicked,
      [r \in Runners |-> IF r \in Unused THEN None ELSE <<job[r], r \in stopped>>]>>
=============================================================================
