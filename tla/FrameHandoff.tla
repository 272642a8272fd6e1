---------------------------- MODULE FrameHandoff ----------------------------
(***************************************************************************)
(* What the display link promises for frames.  One buffer at a time goes   *)
(* round between the consumer and the producer: the consumer announces it  *)
(* (select_dmabuf), the producer takes it (wait_buffer_async_result),      *)
(* paints it and hands it back (trigger_refresh), and the consumer posts   *)
(* it (refresh_done).  A frame is given up only together with the link,    *)
(* and a new link begins without one.                                      *)
(***************************************************************************)

VARIABLES
  linked,       \* the two sides share a bundle
  frame         \* where it is: idle, announced, painting or finished

Init == ~linked /\ frame = "idle"

\* The frame moves one place on, and only while the link is up.
Pass(from, to) ==
  /\ linked
  /\ frame = from
  /\ frame' = to
  /\ UNCHANGED linked

Announce == Pass("idle", "announced")
Take == Pass("announced", "painting")
HandBack == Pass("painting", "finished")
Post == Pass("finished", "idle")

LinkUp == ~linked /\ linked' = TRUE /\ UNCHANGED frame

LinkDown == linked /\ linked' = FALSE /\ frame' = "idle"

Next == Announce \/ Take \/ HandBack \/ Post \/ LinkUp \/ LinkDown

Spec == Init /\ [][Next]_<<linked, frame>>
=============================================================================
