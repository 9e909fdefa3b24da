------------------------------ MODULE MCShmRing ------------------------------
(* Small instances of ShmRing: the contents are model values.                *)
EXTENDS ShmRing
CONSTANTS m1, m2
=============================================================================
