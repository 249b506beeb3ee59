--------------------------- MODULE MCHistorySync ---------------------------
(***************************************************************************)
(* Two clients, one of them KelmaDesktop, whose collections begin on       *)
(* different days of the server's count.                                   *)
(***************************************************************************)
EXTENDS HistorySync
CONSTANTS a, b
MCCrts == {a :> 5 @@ b :> 6}
=============================================================================
