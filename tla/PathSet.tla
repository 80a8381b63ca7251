------------------------------ MODULE PathSet -------------------------------
(* The paths of a session: one per -local address, numbered from 0; path 0 *)
(* carries the control header (parseLocals and main in cmd/client).        *)
EXTENDS Integers

CONSTANT NumPaths

ASSUME PathAssumption == NumPaths \in Nat \ {0}

Paths == 0..(NumPaths - 1)
=============================================================================
