---------------------------- MODULE MCMockServices ----------------------------
EXTENDS MockServices, TLC

(* Calls are alike, and so are agents. *)
Alike == Permutations(Call) \cup Permutations(Agent)
===============================================================================
