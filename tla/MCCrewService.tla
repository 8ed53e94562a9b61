---------------------------- MODULE MCCrewService ----------------------------
(* Small instances of CrewService: three roles that stand for the real six *)
(* (the EM, a specialist, the role the crew does not have), with the       *)
(* shipped per-project limits and global limits a short run can reach; the *)
(* absent role is refused by its per-project zero alone.                   *)
EXTENDS CrewService, TLC

CONSTANTS EM, BE, Reviewer

MCRole == {EM, BE, Reviewer}
MCPerProject == (EM :> 1) @@ (BE :> 1) @@ (Reviewer :> 0)
MCGlobal == (EM :> 2) @@ (BE :> 2) @@ (Reviewer :> 1)

MCAllKinds == {"open", "spawn", "rename", "finish"}

Symmetry == Permutations(Agent) \cup Permutations(Call) \cup Permutations(Project)
================================================================================
