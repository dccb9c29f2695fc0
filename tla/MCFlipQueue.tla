---------------------------- MODULE MCFlipQueue -----------------------------
(* FlipQueue with two guest threads on a short queue.                      *)
EXTENDS FlipQueue

=============================================================================
