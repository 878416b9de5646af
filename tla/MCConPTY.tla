------------------------------ MODULE MCConPTY ------------------------------
(* Small instances of ConPTY.                                               *)
EXTENDS ConPTY
CONSTANT u1
=============================================================================
