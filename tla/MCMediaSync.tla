---------------------------- MODULE MCMediaSync ----------------------------
(***************************************************************************)
(* MediaSync for TLC: the .cfg files give the constants.                   *)
(***************************************************************************)
EXTENDS MediaSync
CONSTANTS a, b, f, g, x, y
=============================================================================
