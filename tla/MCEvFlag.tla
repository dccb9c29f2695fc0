------------------------------ MODULE MCEvFlag ------------------------------
(* EvFlag on two bits: a wait that needs both bits and takes what it asked *)
(* for, and one that needs either bit and takes the whole pattern.         *)
EXTENDS EvFlag
CONSTANTS b1, b2

BothTaken == [bits |-> {b1, b2}, mode |-> "and", clear |-> "pat"]
EitherAll == [bits |-> {b1, b2}, mode |-> "or", clear |-> "all"]

MCRequests == {BothTaken, EitherAll}
=============================================================================
