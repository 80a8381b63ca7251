----------------------------- MODULE PathStream -----------------------------
(***************************************************************************)
(* One path's stream from the flags to the server's ReadChunk: the client  *)
(* announces its sizes, cuts every burst with Split (a one-shot payload is *)
(* one burst), and writes the chunks the scheduler gives to this path,     *)
(* field by field; the server reads field by field.  The stream delivers   *)
(* the bytes in order and holds about Buffer of them.  At any moment the   *)
(* connection may die, and then nothing more arrives.                      *)
(*                                                                         *)
(* cpc is the client: "split" (Split's loop), "send", "closed", or "oom"   *)
(* (Split never ended and the process was killed).  rpc is the server's    *)
(* handler: "read", "eof" (io.EOF from ReadChunk, which it answers with    *)
(* the drain ack), "error" (any other error), or "panic".                  *)
(*                                                                         *)
(* Path 0 carries the control header, any other path a hello; the sizes a  *)
(* handler of such a path works with are those of path 0's header.         *)
(***************************************************************************)
EXTENDS WireFormat

CONSTANTS Transfers,    \* [continuous, sizes, chunkSize]: the flags of a run
          PathIndexes,  \* the paths looked at
          MaxChunks,    \* chunks that fit the client's memory
          Buffer        \* unread bytes at which a write has to wait

\* Sizes are uint64 in the code, path indexes uint32, and a session of bursts
\* that a uint64 cannot number would never end.  The widths must hold the
\* numbers of paths and the length of the scheduler's name used below.
ASSUME PathStreamAssumption ==
    /\ \A t \in Transfers :
          /\ t.continuous \in BOOLEAN /\ t.chunkSize \in Nat
          /\ t.sizes \in Seq(0..(Room[W64] - 1)) /\ Len(t.sizes) \in 1..(Room[W64] - 1)
          /\ t.continuous \/ Len(t.sizes) = 1
    /\ PathIndexes \subseteq 0..(Room[W32] - 1)
    /\ 2 < Room[W16] /\ 2 < Room[W32]
    /\ MaxChunks \in Nat /\ Buffer \in Nat \ {0}

VARIABLES opt,          \* the flags: one of Transfers
          pathIndex,
          stream,       \* bytes written and not yet read
          fin,          \* the sending side was closed
          up,           \* the connection is alive
          cpc,
          burst,        \* the burst being sent, from 1
          offset,       \* Split's loop variable
          chunks,       \* the chunks Split has made of the burst
          next,         \* chunks of the burst the scheduler has placed
          pending,      \* writes of the current message not yet made
          placed,       \* every chunk placed on this path so far
          rpc,
          reading,      \* what is being read: "kind", "control", "hello", "chunk"
          got,          \* its fields read so far
          preamble,     \* the preamble, once read
          frames        \* the chunks read

wvars == <<opt, pathIndex, cpc, burst, offset, chunks, next, pending, placed>>
hvars == <<rpc, reading, got, preamble, frames>>
tvars == <<stream, fin>>
pvars == <<wvars, hvars, tvars, up>>

-----------------------------------------------------------------------------
\* The client.

Size == opt.sizes[burst]
BurstID == IF opt.continuous THEN burst ELSE 0

\* main: a continuous session announces a total of 0.
Control ==
    [sessionID |-> 1,
     totalSize |-> IF opt.continuous THEN 0 ELSE opt.sizes[1],
     chunkSize |-> Uint32(opt.chunkSize),
     numPaths  |-> 2,
     scheduler |-> <<1, 0>>]

Hello == [sessionID |-> 1, pathIndex |-> pathIndex]

WritePreamble == IF pathIndex = 0 THEN WriteControlHeader(Control) ELSE WritePathHello(Hello)

Init ==
    /\ opt \in Transfers
    /\ pathIndex \in PathIndexes
    /\ up = TRUE
    /\ cpc = "split" /\ burst = 1 /\ offset = 0 /\ chunks = << >> /\ next = 0
    /\ pending = WritePreamble
    /\ placed = << >>
    /\ rpc = "read" /\ reading = "kind" /\ got = << >>
    /\ preamble = << >> /\ frames = << >>
    /\ stream = << >> /\ fin = FALSE

\* Bug: Split takes a chunk size of 0 as it is.
SplitSize_NoDefault == Uint32(opt.chunkSize)

\* Split's chunkSize, a uint32 also when it is taken from len(data).
SplitSize ==
    IF Uint32(opt.chunkSize) = 0 THEN Uint32(Size) ELSE Uint32(opt.chunkSize)

\* The payload: bytes that differ from their neighbours and between bursts.
Payload(b, i) == (b + i) % Base

SplitStep ==
    LET end == Min({offset + SplitSize, Size})
    IN  /\ cpc = "split" /\ pending = << >> /\ offset < Size
        /\ Len(chunks) < MaxChunks
        /\ chunks' = Append(chunks,
              [seq |-> Len(chunks), offset |-> offset, burstID |-> BurstID,
               burstBytes |-> Size,
               data |-> [i \in 1..(end - offset) |-> Payload(burst, offset + i)]])
        /\ offset' = offset + SplitSize
        /\ UNCHANGED <<opt, pathIndex, cpc, burst, next, pending, placed, tvars>>

SplitRunsOut ==
    /\ cpc = "split" /\ offset < Size /\ Len(chunks) = MaxChunks
    /\ cpc' = "oom"
    /\ UNCHANGED <<opt, pathIndex, burst, offset, chunks, next, pending, placed, tvars>>

SplitDone ==
    /\ cpc = "split" /\ pending = << >> /\ offset >= Size
    /\ cpc' = "send"
    /\ UNCHANGED <<opt, pathIndex, burst, offset, chunks, next, pending, placed, tvars>>

\* The scheduler gives the next chunk to this path, or only to others.
PlaceChunk(here) ==
    LET c == chunks[next + 1]
    IN  /\ cpc = "send" /\ pending = << >> /\ next < Len(chunks)
        /\ next' = next + 1
        /\ pending' = IF here THEN WriteChunk(c) ELSE << >>
        /\ placed' = IF here THEN Append(placed, c) ELSE placed
        /\ UNCHANGED <<opt, pathIndex, cpc, burst, offset, chunks, tvars>>

\* One call of the stream's Write.
WriteField ==
    /\ pending # << >>
    /\ Len(stream) < Buffer
    /\ stream' = stream \o Head(pending)
    /\ pending' = Tail(pending)
    /\ UNCHANGED <<opt, pathIndex, cpc, burst, offset, chunks, next, placed, fin>>

NextBurst ==
    /\ cpc = "send" /\ pending = << >> /\ next = Len(chunks) /\ burst < Len(opt.sizes)
    /\ burst' = burst + 1
    /\ cpc' = "split" /\ offset' = 0 /\ chunks' = << >> /\ next' = 0
    /\ UNCHANGED <<opt, pathIndex, pending, placed, tvars>>

\* Bug: drainPath does not wait for the path's writer.
CloseStream_Early ==
    /\ cpc = "send" /\ next = Len(chunks) /\ burst = Len(opt.sizes)
    /\ fin' = TRUE
    /\ cpc' = "closed"
    /\ pending' = << >>
    /\ UNCHANGED <<opt, pathIndex, burst, offset, chunks, next, placed, stream>>

\* sendChunks has waited for the writers; drainPath closes the sending side.
CloseStream ==
    /\ cpc = "send" /\ pending = << >> /\ next = Len(chunks) /\ burst = Len(opt.sizes)
    /\ fin' = TRUE
    /\ cpc' = "closed"
    /\ UNCHANGED <<opt, pathIndex, burst, offset, chunks, next, pending, placed, stream>>

ClientStep ==
    \/ SplitStep \/ SplitRunsOut \/ SplitDone \/ WriteField \/ NextBurst \/ CloseStream
    \/ \E here \in BOOLEAN : PlaceChunk(here)

-----------------------------------------------------------------------------
\* The server's handler.

\* NewReassembler, and whether its division is by zero.
ServerSize_NotTruncated(h) == IF h.chunkSize = 0 THEN h.totalSize ELSE h.chunkSize

ServerSize(h) == IF h.chunkSize = 0 THEN Uint32(h.totalSize) ELSE h.chunkSize
NumChunks(h) == (h.totalSize + ServerSize(h) - 1) \div ServerSize(h)

\* serverSession.start
IsContinuous(h) == h.totalSize = 0
StartPanics(h) == ~IsContinuous(h) /\ ServerSize(h) = 0

Fields ==
    CASE reading = "kind" -> ReadStreamKind
      [] reading = "control" -> ReadControlHeader
      [] reading = "hello" -> ReadPathHello
      [] reading = "chunk" -> ReadChunk

Field == Fields[Cardinality(DOMAIN got) + 1]
Needed == Width(Field, got)

\* The last field of what is being read is there: msg is complete.
Completed(msg) ==
    /\ got' = << >>
    /\ CASE reading = "kind" ->
              /\ reading' = IF msg.kind = StreamKindControl THEN "control" ELSE "hello"
              /\ rpc' = IF msg.kind \in {StreamKindControl, StreamKindPath} THEN "read" ELSE "error"
              /\ UNCHANGED <<preamble, frames>>
         [] reading \in {"control", "hello"} ->
              /\ preamble' = msg
              /\ reading' = "chunk"
              /\ rpc' = IF reading = "control" /\ StartPanics(msg) THEN "panic" ELSE "read"
              /\ UNCHANGED frames
         [] reading = "chunk" ->
              /\ frames' = Append(frames, msg)
              /\ UNCHANGED <<rpc, reading, preamble>>

\* io.ReadFull of the next field.
ReadField ==
    /\ rpc = "read"
    /\ Len(stream) >= Needed
    /\ stream' = SubSeq(stream, Needed + 1, Len(stream))
    /\ LET now == [f \in DOMAIN got \cup {Field} |->
                      IF f = Field THEN Decode(f, SubSeq(stream, 1, Needed)) ELSE got[f]]
       IN  IF Field = Fields[Len(Fields)]
           THEN Completed(now)
           ELSE got' = now /\ UNCHANGED <<rpc, reading, preamble, frames>>
    /\ UNCHANGED <<fin, up>>

\* The stream has ended: io.EOF if it ends before a field, an unexpected EOF
\* inside one.  Only ReadChunk's io.EOF counts as a clean end.
ReadEnds ==
    /\ rpc = "read" /\ fin /\ Len(stream) < Needed
    /\ rpc' = IF reading = "chunk" /\ stream = << >> THEN "eof" ELSE "error"
    /\ UNCHANGED <<reading, got, preamble, frames, tvars, up>>

\* The connection dies; what has not been read is lost.
ConnectionDies ==
    /\ up
    /\ up' = FALSE
    /\ rpc' = IF rpc = "read" THEN "error" ELSE rpc
    /\ UNCHANGED <<wvars, reading, got, preamble, frames, tvars>>

-----------------------------------------------------------------------------
Next ==
    \/ up /\ ClientStep /\ UNCHANGED <<hvars, up>>
    \/ up /\ (ReadField \/ ReadEnds) /\ UNCHANGED wvars
    \/ ConnectionDies

Spec == Init /\ [][Next]_pvars

\* The client's and the handler's goroutines run.
Fairness ==
    /\ WF_pvars(up /\ ClientStep /\ UNCHANGED <<hvars, up>>)
    /\ WF_pvars(up /\ (ReadField \/ ReadEnds) /\ UNCHANGED wvars)

FairSpec == Spec /\ Fairness

-----------------------------------------------------------------------------
PathStreamTypeOK ==
    /\ opt \in Transfers /\ pathIndex \in PathIndexes /\ up \in BOOLEAN
    /\ cpc \in {"split", "send", "closed", "oom"}
    /\ burst \in 1..Len(opt.sizes) /\ offset \in Nat
    /\ Len(chunks) <= MaxChunks /\ next \in 0..Len(chunks)
    /\ rpc \in {"read", "eof", "error", "panic"}
    /\ reading \in {"kind", "control", "hello", "chunk"}
    /\ \A i \in 1..Len(stream) : stream[i] \in 0..(Base - 1)

\* A chunk as it was read, compared with the chunk Split made.
Same(f, c) ==
    /\ f.seq = c.seq /\ f.offset = c.offset /\ f.burstID = c.burstID
    /\ f.burstBytes = c.burstBytes /\ f.data = c.data

\* WriteChunk and ReadChunk agree: what the server has read is exactly the
\* first so many of the chunks placed on the path, each with its own data and
\* a checksum that verifies, after the preamble that was sent.  No chunk
\* length, however close to the width of its field, makes a frame slip.
FramesFaithful ==
    /\ preamble # << >> =>
          IF pathIndex = 0
          THEN \A k \in DOMAIN Control : preamble[k] = Control[k]
          ELSE preamble = Hello
    /\ Len(frames) <= Len(placed)
    /\ \A i \in 1..Len(frames) : Same(frames[i], placed[i]) /\ VerifyChecksum(frames[i])

\* The sizes that never get through: some burst is a positive multiple of
\* 2^32 bytes while the chunk size is 0 (or 0 as a uint32).  Split's loop does not
\* advance, and the server's NewReassembler divides by zero.
NoChunkSize ==
    /\ Uint32(opt.chunkSize) = 0
    /\ \E i \in 1..Len(opt.sizes) : opt.sizes[i] > 0 /\ Uint32(opt.sizes[i]) = 0

\* handleConn: "A clean EOF here is proof-positive that every byte the client
\* wrote on this stream ... was delivered".  binary.Read returns the same
\* io.EOF between two fields of a frame as between two frames, so this needs
\* the client never to close within a frame: then the ack the server is about
\* to send covers every chunk of every burst placed on the path.  Conversely,
\* any other end has its cause outside the stream: the handler fails only if
\* the connection died, and panics only on a size that never gets through.
EOFMeansAll ==
    /\ rpc = "eof" => /\ cpc = "closed" /\ burst = Len(opt.sizes) /\ next = Len(chunks)
                      /\ Len(frames) = Len(placed)
    /\ rpc = "error" => ~up
    /\ rpc = "panic" => NoChunkSize

\* The two sides work out the chunks on their own, the client in Split, the
\* server in NewReassembler and Write from the header: they agree, also when
\* flags or sizes do not fit a uint32.  A chunk's slot on the server is its
\* number, no chunk is out of range or longer than its length field, and the
\* last slot is filled.  The server takes a session for a continuous one only
\* if it is, or if the one-shot payload is empty (-size 0).
SidesAgree ==
    /\ (rpc = "read" /\ reading = "chunk" /\ pathIndex = 0) =>
          (IsContinuous(preamble) <=> opt.continuous \/ opt.sizes = <<0>>)
    /\ (~opt.continuous /\ Size > 0 /\ ~StartPanics(Control)) =>
        /\ \A i \in 1..Len(chunks) :
              /\ chunks[i].offset \div ServerSize(Control) = chunks[i].seq
              /\ chunks[i].seq < NumChunks(Control)
              /\ Len(chunks[i].data) < Room[W32]
              /\ chunks[i].offset + Len(chunks[i].data) <= Control.totalSize
        /\ cpc \in {"send", "closed"} => Len(chunks) = NumChunks(Control)

\* Every other transfer ends with a clean EOF unless the connection dies:
\* Split ends, and a field is never waited for in vain.
PayloadArrives == NoChunkSize \/ <>(rpc = "eof" \/ ~up)
=============================================================================
