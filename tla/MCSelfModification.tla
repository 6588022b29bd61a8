------------------------- MODULE MCSelfModification -------------------------
(* SelfModification on small sets.                                          *)
EXTENDS SelfModification, TLC
=============================================================================
