------------------------------ MODULE MCMspace ------------------------------
(* The default pool and one arena, each with room for two blocks; a block  *)
(* of the larger bucket can hold a pool with one block.                    *)
EXTENDS Mspace

MCDefault == [base |-> 20, len |-> 8]
MCArenas == {[base |-> 1, len |-> 7]}
=============================================================================
