------------------------------ MODULE MCLogCheck ------------------------------
(***************************************************************************)
(* Instances of LogCheck for TLC.                                          *)
(***************************************************************************)
EXTENDS LogCheck

CONSTANTS hii, old

MCPinnedRoots == <<hii, old>>
=============================================================================
