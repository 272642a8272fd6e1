---------------------------- MODULE MCKioskShell ----------------------------
(* Model-checking instance of KioskShell: three windows are enough for a root *)
(* with a dialog beside another root, and for a dialog of a dialog.           *)
EXTENDS KioskShell, TLC

AnyWindow == Permutations(Windows)
=============================================================================
