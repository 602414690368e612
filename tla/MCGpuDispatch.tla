--------------------------- MODULE MCGpuDispatch ---------------------------
(* Small instances of GpuDispatch for TLC. *)
EXTENDS GpuDispatch
=============================================================================
