---------------------------- MODULE MCReactAgent ----------------------------
(* ReactAgent on small sets.                                                *)
EXTENDS ReactAgent, TLC

ToolSymmetry == Permutations(Tools)
=============================================================================
