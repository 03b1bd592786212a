--------------------------- MODULE MCPeerDelivery ---------------------------
(* Two seats compete for one role, a third holds another.                  *)
EXTENDS PeerDelivery, TLC

CONSTANTS s1, s2, s3, worker, director

RolesByKind == (s1 :> worker) @@ (s2 :> worker) @@ (s3 :> director)
TwoWorkers == (s1 :> worker) @@ (s2 :> worker)
Symmetry == Permutations({s1, s2})
=============================================================================
