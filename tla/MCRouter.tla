------------------------------ MODULE MCRouter ------------------------------
(* Router on small sets.                                                    *)
EXTENDS Router, TLC

=============================================================================
