---------------------------- MODULE MCTaskKernel ----------------------------
(* TaskKernel on small instances. *)
EXTENDS TaskKernel, TLC

Symmetry ==
    Permutations(Orchestrators) \cup Permutations(MarketWorkers) \cup Permutations(Tasks)
        \cup Permutations(Artifacts)
=============================================================================
