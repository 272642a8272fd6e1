--------------------------- MODULE MCDisplayLink ---------------------------
(***************************************************************************)
(* Small instances of DisplayLink for TLC.  A configuration gives the app  *)
(* one connection for every connect the disturbances can cause, and one    *)
(* more for a fallback on the way; Disturbances picks what may go wrong.   *)
(***************************************************************************)
EXTENDS DisplayLink, TLC
=============================================================================
