------------------------- MODULE MCSessionLauncher -------------------------
(***************************************************************************)
(* Small instances of SessionLauncher for TLC.                             *)
(***************************************************************************)
EXTENDS SessionLauncher, TLC
=============================================================================
