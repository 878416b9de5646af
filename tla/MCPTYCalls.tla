------------------------------ MODULE MCPTYCalls ------------------------------
(* A small instance of PTYCalls.                                            *)
EXTENDS PTYCalls
CONSTANTS u1, u2
=============================================================================
