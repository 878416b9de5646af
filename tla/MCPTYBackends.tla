---------------------------- MODULE MCPTYBackends ----------------------------
(* Two PTYs of one program, for TLC.                                        *)
EXTENDS PTYBackends
CONSTANTS p1, p2
=============================================================================
