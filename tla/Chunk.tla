------------------------------- MODULE Chunk --------------------------------
(***************************************************************************)
(* The chunks of one burst (internal/transfer/chunk.go): how Split cuts a  *)
(* payload of TotalSize bytes into ChunkSize-sized pieces addressed by     *)
(* their byte offset.  A one-shot (-size) transfer is the single burst 0.  *)
(*                                                                         *)
(* The random payload is represented by pairwise different, nonzero byte   *)
(* values, so that a byte copied to the wrong place, or never copied, is   *)
(* visible.  The checksum is not data here: whether a chunk passes it is a *)
(* choice of the module that reads the chunk.                              *)
(***************************************************************************)
EXTENDS Integers

CONSTANTS TotalSize,    \* len(data): bytes in the burst
          ChunkSize     \* the effective chunk size (a -chunk-size of 0 means
                        \* TotalSize, chunk.go:52-54 and :145-147)

ASSUME SizeAssumption == TotalSize \in Nat \ {0} /\ ChunkSize \in Nat \ {0}

Payload == [b \in 0..(TotalSize - 1) |-> b + 1]

\* The iterations of Split's loop: offset = seq * ChunkSize while offset < len(data).
SplitSeqs == {i \in 0..(TotalSize - 1) : i * ChunkSize < TotalSize}

\* end - offset, with end cut back to len(data) for the last chunk.
ChunkLen(seq) ==
    IF seq * ChunkSize + ChunkSize > TotalSize
    THEN TotalSize - seq * ChunkSize
    ELSE ChunkSize

\* The chunk Split builds in iteration seq; data is indexed from 0 as in Go.
ChunkAt(seq) ==
    [seq    |-> seq,
     offset |-> seq * ChunkSize,
     len    |-> ChunkLen(seq),
     data   |-> [j \in 0..(ChunkLen(seq) - 1) |-> Payload[seq * ChunkSize + j]]]

Split == {ChunkAt(seq) : seq \in SplitSeqs}
=============================================================================
