------------------------------ MODULE MCShmFence ------------------------------
(* Small instances of ShmFence.                                              *)
EXTENDS ShmFence
=============================================================================
