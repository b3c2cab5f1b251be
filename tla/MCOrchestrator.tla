--------------------------- MODULE MCOrchestrator ---------------------------
(* Three calls of Submit, two of them with the same idempotency key.        *)
EXTENDS Orchestrator, TLC

CONSTANTS c1, c2, c3, k1

MCCalls == {c1, c2, c3}
MCKeyOf == c1 :> k1 @@ c2 :> k1 @@ c3 :> NoKey
MCWorkerSymmetry == Permutations(Workers)
=============================================================================
