--------------------------- MODULE MCAgentProcess ---------------------------
(* AgentProcess on small sets.                                              *)
EXTENDS AgentProcess, TLC

SkillSymmetry == Permutations(SkillNames)
=============================================================================
