---------------------------- MODULE MCGpuRings -----------------------------
(* GpuRings with model values; no symmetry, the runs check liveness.       *)
EXTENDS GpuRings
=============================================================================
