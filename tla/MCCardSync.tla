------------------------------ MODULE MCCardSync ------------------------------
(***************************************************************************)
(* CardSync for TLC: the .cfg files give the constants.                    *)
(***************************************************************************)
EXTENDS CardSync
=============================================================================
