------------------------------ MODULE MCEditor ------------------------------
(* One editor, opened twice, a few edits, one lost answer, one other save.   *)
(* The bodies are alike, so that the first one is always the same is sound,  *)
(* also for liveness.                                                        *)
EXTENDS Editor

FirstBody == CHOOSE b \in Bodies : TRUE
MCInit == Init /\ \A d \in drafts \cup published : d.body = FirstBody
MCSpec == MCInit /\ [][Next]_vars
MCFairSpec == MCSpec /\ Fairness
=============================================================================
