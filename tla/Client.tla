------------------------------- MODULE Client -------------------------------
(***************************************************************************)
(* The one-shot client (cmd/client/main.go): main dials one path after the *)
(* other, sends the preambles, calls sendChunks (in which main itself is   *)
(* the dispatcher), drains every path concurrently and exits.  Concurrent  *)
(* actors: main, one writer goroutine and one drain goroutine per path.    *)
(*                                                                         *)
(* Left out: the flags (PathStream has those that reach the wire), the RTT *)
(* sampling (in ContinuousClient) and the result files.                    *)
(***************************************************************************)
EXTENDS Chunk, SendChunks

VARIABLES cpc,          \* main: "dial", "hello", "send", "drain", "exit", "fatal"
          ci            \* the path main is dialling or greeting

cvars == <<cpc, ci, sendvars>>

\* Split yields the chunks 0 .. ChunkCount - 1.
ChunkCount == (TotalSize + ChunkSize - 1) \div ChunkSize

ClientInit ==
    /\ cpc = "dial"
    /\ ci = 0
    /\ SendInit

-----------------------------------------------------------------------------
\* main, before the transfer: all paths are dialled, then all are greeted.

Advance(phase) ==
    /\ ci' = (ci + 1) % NumPaths
    /\ cpc' = IF ci + 1 = NumPaths THEN phase ELSE cpc

DialPath ==
    /\ cpc = "dial"
    /\ Dial(ci)
    /\ Advance("hello")
    /\ UNCHANGED sendvars

\* log.Fatalf ends the process: no deferred close runs, the kernel just
\* forgets the sockets, and the server hears nothing more.
Fatal ==
    /\ cpc' = "fatal"
    /\ ClientCloseAll
    /\ UNCHANGED <<ci, sendvars>>

DialFails ==
    /\ cpc = "dial" /\ "dial" \in Faults
    /\ Fatal

WritePreamble ==
    /\ cpc = "hello"
    /\ SendPreamble(ci)
    /\ Advance("send")
    /\ UNCHANGED sendvars

PreambleFails ==
    /\ cpc = "hello" /\ ~cUp[ci]
    /\ Fatal

-----------------------------------------------------------------------------
\* main, in sendChunks and after it.

Sending ==
    /\ cpc = "send"
    /\ Dispatch(ChunkCount)
    /\ UNCHANGED <<cpc, ci>>

SendDone ==
    /\ cpc = "send" /\ WritersDone
    /\ cpc' = "drain"
    /\ UNCHANGED <<ci, sendvars, qvars>>

\* wg.Wait() in drainPaths, then the results and main's deferred closes.
Exit ==
    /\ cpc = "drain" /\ Drained
    /\ cpc' = "exit"
    /\ ClientCloseAll
    /\ UNCHANGED <<ci, sendvars>>

-----------------------------------------------------------------------------
MainStep ==
    \/ DialPath \/ DialFails \/ WritePreamble \/ PreambleFails
    \/ Sending \/ SendDone \/ Exit

WriterStep(p) ==
    /\ \/ TakeChunk(p) \/ WriteChunk(p, cur[p], ChunkLen(cur[p])) \/ WriteFails(p)
       \/ WriterReturns(p)
    /\ UNCHANGED <<cpc, ci>>

DrainStep(p) ==
    /\ cpc = "drain"
    /\ DrainClose(p) \/ DrainAcked(p) \/ DrainFails(p)
    /\ UNCHANGED <<cpc, ci>>

ClientStep == MainStep \/ \E p \in Paths : WriterStep(p) \/ DrainStep(p)

ClientTypeOK ==
    /\ cpc \in {"dial", "hello", "send", "drain", "exit", "fatal"}
    /\ ci \in Paths
    /\ SendTypeOK(ChunkCount - 1)
=============================================================================
