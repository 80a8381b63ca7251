------------------------- MODULE MCContinuousClient -------------------------
(* Two paths, bursts of one or two chunks, queues and windows of one.      *)
EXTENDS ContinuousClient
=============================================================================
