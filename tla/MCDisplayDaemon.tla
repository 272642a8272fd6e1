-------------------------- MODULE MCDisplayDaemon --------------------------
(***************************************************************************)
(* Small instances of DisplayDaemon for TLC.                               *)
(***************************************************************************)
EXTENDS DisplayDaemon, TLC

\* Connections of one role and screens are interchangeable.
Interchangeable ==
  UNION {Permutations(S) : S \in {Consumers, Producers, Screens}}
=============================================================================
