-------------------------- MODULE MCSharedMemoryABI --------------------------
(* Model checking of SharedMemoryABI.                                       *)
EXTENDS SharedMemoryABI
=============================================================================
