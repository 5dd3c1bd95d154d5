------------------------------ MODULE MCServer ------------------------------
(* Constants of the TLC runs of Server.                                      *)
EXTENDS Server

CONSTANTS c1, c2, c3

ThreeConns == {c1, c2, c3}
=============================================================================
