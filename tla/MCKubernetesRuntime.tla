-------------------------- MODULE MCKubernetesRuntime --------------------------
(* Two Jobs of one role on two projects, one retry and two pollers: enough *)
(* for a retry, a Job created between the two calls of a stop, a Job of    *)
(* another project the stop must spare, and status() calls that overlap.   *)
EXTENDS KubernetesRuntime, TLC

CONSTANTS EM

MCLimit == (EM :> 1)

Symmetry == Permutations(Job) \cup Permutations(Project) \cup Permutations(Poller)
================================================================================
