-------------------------- MODULE MCMarketResearch --------------------------
(* MarketResearch on a small instance. *)
EXTENDS MarketResearch, TLC

ResearchSymmetry ==
    Permutations(Orchestrators \ Directors) \cup Permutations(MarketWorkers)
        \cup Permutations(MarketTasks) \cup Permutations(Missions) \cup Permutations(Requests)
        \cup Permutations(Artifacts) \cup Permutations(Attempts)
=============================================================================
