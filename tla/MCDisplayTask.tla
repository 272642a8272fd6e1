--------------------------- MODULE MCDisplayTask ---------------------------
(***************************************************************************)
(* Small instances of DisplayTask for TLC.                                 *)
(***************************************************************************)
EXTENDS DisplayTask, TLC
=============================================================================
