---------------------------- MODULE MCPathStream ----------------------------
(***************************************************************************)
(* Four values of a byte, a uint32 of one byte and a uint64 of two: a size *)
(* or flag of 4 does not fit a uint32.  One-shot sizes and chunk sizes     *)
(* below, at and above that, and a continuous session of two bursts.       *)
(***************************************************************************)
EXTENDS PathStream

CONSTANTS Sizes, ChunkSizes, BurstSizes

MCTransfers ==
    [continuous : {FALSE}, sizes : {<<s>> : s \in Sizes}, chunkSize : ChunkSizes]
    \cup [continuous : {TRUE}, sizes : {BurstSizes}, chunkSize : ChunkSizes]
MCBurstSizes == <<3, 5>>
=============================================================================
