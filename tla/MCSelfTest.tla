------------------------------ MODULE MCSelfTest ------------------------------
(* The instance of self-test.py itself: three questions, three tries.        *)
EXTENDS SelfTest
=============================================================================
