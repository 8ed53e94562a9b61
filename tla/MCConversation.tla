---------------------------- MODULE MCConversation ----------------------------
(* Two agents, EM or engineer, on one project or on two; one call of the    *)
(* control plane at a time; a transcript shorter than what can be said.    *)
EXTENDS Conversation, TLC

CONSTANTS EM, BE

MCLimit == (EM :> 1) @@ (BE :> 1)

Symmetry == Permutations(Agent) \cup Permutations(Project)
================================================================================
