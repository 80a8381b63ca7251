----------------------------- MODULE WireFormat -----------------------------
(***************************************************************************)
(* The bytes on a path's stream (internal/transfer/session.go, chunk.go):  *)
(* one preamble, then chunk frames, all integers big-endian and of fixed   *)
(* width.  Writers and readers list their fields separately, as the code   *)
(* does, so a disagreement between the two shows.                          *)
(*                                                                         *)
(* Widths are parameters: a byte has Base values and a uint32 is W32 bytes *)
(* long, so that a payload of 2^32 bytes is Room[W32] long here.           *)
(* CRC32 is external, represented by a sum that any change of one byte     *)
(* alters.                                                                 *)
(***************************************************************************)
EXTENDS Integers, Sequences, FiniteSetsExt, Sums

CONSTANTS Base,         \* values of a byte
          W16, W32, W64, W128   \* bytes of uint16, uint32, uint64, SessionID

ASSUME WidthAssumption ==
    /\ Base \in Nat \ {0, 1}
    /\ W16 \in Nat \ {0} /\ W32 \in Nat \ {0} /\ W64 \in Nat \ {0} /\ W128 \in Nat \ {0}

\* How many values w bytes can hold: Base to the power of w.
Room[w \in Nat] == IF w = 0 THEN 1 ELSE Base * Room[w - 1]

Uint32(v) == v % Room[W32]

\* encoding/binary, big-endian: v as w bytes, and back.
BigEndian(v, w) == [i \in 1..w |-> (v \div Room[w - i]) % Base]
Value(bytes) ==
    LET first[i \in 0..Len(bytes)] == IF i = 0 THEN 0 ELSE first[i - 1] * Base + bytes[i]
    IN  first[Len(bytes)]

\* crc32.ChecksumIEEE
ChecksumIEEE(data) == SumOver(1..Len(data), data) % Room[W32]

VerifyChecksum(c) == ChecksumIEEE(c.data) = c.checksum

-----------------------------------------------------------------------------
\* What the writers write: the sequence of their calls of Write.

StreamKindControl == 0
StreamKindPath == 1

WriteControlHeader(h) ==
    << <<StreamKindControl>>,
       BigEndian(h.sessionID, W128),
       BigEndian(h.totalSize, W64),
       BigEndian(h.chunkSize, W32),
       BigEndian(h.numPaths, W32),
       BigEndian(Len(h.scheduler), W16),
       h.scheduler >>

WritePathHello(p) ==
    << <<StreamKindPath>>,
       BigEndian(p.sessionID, W128),
       BigEndian(p.pathIndex, W32) >>

WriteChunk(c) ==
    << BigEndian(c.seq, W64),
       BigEndian(c.offset, W64),
       BigEndian(c.burstID, W64),
       BigEndian(c.burstBytes, W64),
       BigEndian(Len(c.data), W32),
       BigEndian(ChecksumIEEE(c.data), W32),
       c.data >>

-----------------------------------------------------------------------------
\* What the readers read, field by field.  The width of the last field of a
\* header and of a frame is a value read before.

ReadStreamKind == <<"kind">>
ReadControlHeader ==
    <<"sessionID", "totalSize", "chunkSize", "numPaths", "schedLen", "scheduler">>
ReadPathHello == <<"sessionID", "pathIndex">>

\* Bug: the checksum is read before the length.
ReadChunk_Swapped ==
    <<"seq", "offset", "burstID", "burstBytes", "checksum", "len", "data">>

ReadChunk ==
    <<"seq", "offset", "burstID", "burstBytes", "len", "checksum", "data">>

Width(field, got) ==
    CASE field = "kind" -> 1
      [] field = "schedLen" -> W16
      [] field \in {"chunkSize", "numPaths", "pathIndex", "len", "checksum"} -> W32
      [] field \in {"totalSize", "seq", "offset", "burstID", "burstBytes"} -> W64
      [] field = "sessionID" -> W128
      [] field = "scheduler" -> got.schedLen
      [] field = "data" -> got.len

Decode(field, bytes) ==
    IF field \in {"scheduler", "data"} THEN bytes ELSE Value(bytes)
=============================================================================
