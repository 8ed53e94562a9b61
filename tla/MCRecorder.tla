------------------------------ MODULE MCRecorder ------------------------------
(* A ceiling of two turns and histories of three events, so that a project *)
(* goes over its budget, its history is trimmed and another project's is   *)
(* not.                                                                    *)
EXTENDS Recorder, TLC

CONSTANTS EM

MCLimit == (EM :> 1)

Symmetry == Permutations(Agent) \cup Permutations(Project)
===============================================================================
