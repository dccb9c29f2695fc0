------------------------------ MODULE MCLabels ------------------------------
(* A graphics and a compute processor with two buffers each.               *)
EXTENDS Labels

CONSTANTS gfx, compute, a

MCCPs == {gfx, compute}
=============================================================================
