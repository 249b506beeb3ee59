------------------------------ MODULE MCNoteSync ------------------------------
(***************************************************************************)
(* NoteSync for TLC: the .cfg files give the constants.                    *)
(***************************************************************************)
EXTENDS NoteSync
=============================================================================
