---------------------------- MODULE MCComModule ----------------------------
(***************************************************************************)
(* Instances of ComModule for TLC.                                          *)
(***************************************************************************)
EXTENDS ComModule

CONSTANTS a, n
=============================================================================
