------------------------------- MODULE MCFiber ------------------------------
(* Fiber on a few threads and fibers.                                      *)
EXTENDS Fiber

=============================================================================
