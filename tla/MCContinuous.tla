---------------------------- MODULE MCContinuous ----------------------------
(***************************************************************************)
(* Two paths.  The configurations differ in whether a burst is one chunk   *)
(* or two (the last one short), in the number of bursts and in the faults. *)
(***************************************************************************)
EXTENDS ContinuousSession
=============================================================================
