---------------------------- MODULE MCPTYProcess ----------------------------
(* Small instances of PTYProcess.  The callers are interchangeable, but the *)
(* runs check liveness as well, so no symmetry is declared.                 *)
EXTENDS PTYProcess
CONSTANTS u1, u2
=============================================================================
