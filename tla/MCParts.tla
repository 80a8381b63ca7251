------------------------------ MODULE MCParts -------------------------------
(***************************************************************************)
(* The two parts that are no goroutine of their own: the client's          *)
(* scheduler and the server's reassembler.  They share nothing, so calls   *)
(* to one and to the other come in any order.                              *)
(*                                                                         *)
(* Three paths with RTTs unknown, fast or slow; 13 bytes in chunks of 2,   *)
(* which makes seven chunks, the last one short.                           *)
(***************************************************************************)
EXTENDS SchedulerSpec, Reassembler

PartsInit == Init /\ ReassemblerInit

PartsNext ==
    \/ Next /\ UNCHANGED rvars
    \/ ReassemblerNext /\ UNCHANGED scvars

PartsSpec == PartsInit /\ [][PartsNext]_<<scvars, rvars>>
=============================================================================
