-------------------------- MODULE MCServerSession ---------------------------
(* Two paths, three bytes in two chunks (the last one short), every fault. *)
EXTENDS ServerSession
=============================================================================
