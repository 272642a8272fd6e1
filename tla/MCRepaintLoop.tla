---------------------------- MODULE MCRepaintLoop ---------------------------
(***************************************************************************)
(* A small instance of RepaintLoop for TLC.                                *)
(***************************************************************************)
EXTENDS RepaintLoop

Update(c, w, b) == [content |-> c, wait |-> w, barrier |-> b]

\* A frame without fifo, one of a client that paces itself with fifo, and two
\* commits without content: a barrier, and a mere request for a frame callback.
AllKinds ==
  {Update(TRUE, FALSE, FALSE), Update(TRUE, TRUE, TRUE), Update(FALSE, FALSE, TRUE),
   Update(FALSE, FALSE, FALSE)}
=============================================================================
