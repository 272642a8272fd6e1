-------------------------- MODULE MCNativeThreads --------------------------
(***************************************************************************)
(* Small instances of NativeThreads for TLC.                               *)
(***************************************************************************)
EXTENDS NativeThreads, TLC

\* Paths are interchangeable.
AnyPath == Permutations(Paths)
=============================================================================
