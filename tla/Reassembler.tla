---------------------------- MODULE Reassembler -----------------------------
(***************************************************************************)
(* transfer.Reassembler (internal/transfer/chunk.go): collects the chunks  *)
(* of a one-shot transfer, in any order and possibly several times, into   *)
(* one buffer.  Every method holds the reassembler's mutex for its whole   *)
(* body, so a call is one step.                                            *)
(***************************************************************************)
EXTENDS Chunk, FiniteSets

VARIABLES buf,            \* the reassembled bytes, 0 where nothing was copied
          received,       \* []bool by chunk number
          remaining,      \* chunks still missing
          receivedBytes   \* unique payload bytes written so far

rvars == <<buf, received, remaining, receivedBytes>>

Bytes == 0..(TotalSize - 1)

\* NewReassembler's own count of the chunks; nothing but arithmetic makes it
\* agree with the chunks Split produces.
NumChunks == (TotalSize + ChunkSize - 1) \div ChunkSize

\* Before serverSession.start there is no reassembler (a nil pointer).
NoReassembler ==
    /\ buf = [b \in {} |-> 0]
    /\ received = [i \in {} |-> FALSE]
    /\ remaining = 0
    /\ receivedBytes = 0

NewReassembler ==
    /\ buf' = [b \in Bytes |-> 0]
    /\ received' = [i \in 0..(NumChunks - 1) |-> FALSE]
    /\ remaining' = NumChunks
    /\ receivedBytes' = 0

\* Bug: no test of received[seq], so a duplicate is counted again.
Write_CountsDuplicates(c) ==
    LET seq == c.offset \div ChunkSize IN
    /\ seq \in DOMAIN received
    /\ buf' = [b \in DOMAIN buf |->
                  IF b \in c.offset..(c.offset + c.len - 1)
                  THEN c.data[b - c.offset] ELSE buf[b]]
    /\ received' = [received EXCEPT ![seq] = TRUE]
    /\ remaining' = remaining - 1
    /\ receivedBytes' = receivedBytes + c.len

\* Bug: the data is copied to the chunk's number instead of its offset.
Write_AtSeq(c) ==
    /\ c.seq \in DOMAIN received /\ ~received[c.seq]
    /\ buf' = [b \in DOMAIN buf |->
                  IF b \in c.seq..(c.seq + c.len - 1) THEN c.data[b - c.seq] ELSE buf[b]]
    /\ received' = [received EXCEPT ![c.seq] = TRUE]
    /\ remaining' = remaining - 1
    /\ receivedBytes' = receivedBytes + c.len

\* Reassembler.Write(c)
Write(c) ==
    LET seq == c.offset \div ChunkSize IN
    \/ /\ seq \notin DOMAIN received \/ received[seq]
       /\ UNCHANGED rvars
    \/ /\ seq \in DOMAIN received /\ ~received[seq]
       /\ buf' = [b \in DOMAIN buf |->
                     IF b \in c.offset..(c.offset + c.len - 1)
                     THEN c.data[b - c.offset] ELSE buf[b]]
       /\ received' = [received EXCEPT ![seq] = TRUE]
       /\ remaining' = remaining - 1
       /\ receivedBytes' = receivedBytes + c.len

Complete == remaining = 0

-----------------------------------------------------------------------------
\* On its own: a fresh reassembler to which the paths deliver the chunks of
\* the transfer in any order, any number of times.
ReassemblerInit ==
    /\ buf = [b \in Bytes |-> 0]
    /\ received = [i \in 0..(NumChunks - 1) |-> FALSE]
    /\ remaining = NumChunks
    /\ receivedBytes = 0

ReassemblerNext == \E c \in Split : Write(c)

ReassemblerSpec == ReassemblerInit /\ [][ReassemblerNext]_rvars

-----------------------------------------------------------------------------
ReassemblerTypeOK ==
    /\ buf \in [Bytes -> 0..TotalSize]
    /\ received \in [0..(NumChunks - 1) -> BOOLEAN]
    /\ remaining \in 0..NumChunks
    /\ receivedBytes \in Nat

\* The counter remaining, on which Complete rests, always equals the number
\* of chunk slots still marked missing: no duplicate decrements it twice.
RemainingCountsMissing ==
    remaining = Cardinality({i \in DOMAIN received : ~received[i]})

\* Every byte of a chunk marked received is the payload's byte, and no byte of
\* a chunk not yet received has been touched, whatever order chunks came in.
BufferMatchesReceived ==
    \A b \in Bytes :
        buf[b] = IF received[b \div ChunkSize] THEN Payload[b] ELSE 0

\* ReceivedBytes' comment: the number of unique payload bytes written so far,
\* duplicates from a redundant scheduler not counted twice.
UniqueBytesCounted ==
    receivedBytes = Cardinality({b \in Bytes : buf[b] # 0})

\* All three at once: flags, buffer and both counters tell the same story
\* after any sequence of writes, so each can be relied on for the others.
CountersExact == RemainingCountsMissing /\ BufferMatchesReceived /\ UniqueBytesCounted

\* TestSplitAndReassemble for every arrival order: a reassembler that reports
\* Complete holds exactly the payload, and has counted exactly its bytes.
CompleteMeansPayload ==
    Complete => buf = Payload /\ receivedBytes = TotalSize
=============================================================================
