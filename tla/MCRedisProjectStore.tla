-------------------------- MODULE MCRedisProjectStore --------------------------
(* Three callers on two projects: two that write and one that lists.       *)
EXTENDS RedisProjectStore, TLC

CONSTANTS EM

MCLimit == (EM :> 1)

Symmetry == Permutations(Caller) \cup Permutations(Project)
================================================================================
