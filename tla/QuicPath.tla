------------------------------ MODULE QuicPath ------------------------------
(***************************************************************************)
(* What the program assumes of the vendored QUIC stack: one connection and *)
(* one bidirectional stream per path, seen from its two ends.  External    *)
(* code (third_party/quic-go), modelled from how cmd/client and cmd/server *)
(* use it:                                                                 *)
(*                                                                         *)
(*  - the stream delivers the preamble, the chunk frames and the FIN in    *)
(*    the order they were written; a write blocks while Window frames are  *)
(*    unread (flow and congestion control);                                *)
(*  - each end learns on its own that the connection is gone.  From then   *)
(*    on its reads and writes fail, what it had not read is lost, and      *)
(*    Close still returns nil although no FIN will ever be sent;           *)
(*  - CloseWithError abandons whatever is in flight;                       *)
(*  - an end that cannot hear its peer any more gives up after the idle    *)
(*    timeout, so a dead connection does not stay half open for ever.      *)
(*                                                                         *)
(* A frame is one element: a frame only partly delivered when the          *)
(* connection dies makes the read fail exactly as a missing frame does,    *)
(* and SendStream.Write fails only if part of its bytes were not sent.     *)
(***************************************************************************)
EXTENDS PathSet, Sequences

CONSTANTS Window,       \* frames a stream accepts before a write blocks
          Faults        \* the failures the environment may inject

ASSUME WindowAssumption == Window \in Nat \ {0}

FaultKinds == {"loss",          \* a path dies, or idles out, at any time
               "corrupt",       \* a chunk fails its CRC32
               "dial",          \* a path cannot be set up
               "readyTimeout",  \* waitReady's 60 s elapse
               "drainTimeout"}  \* drainPath's read deadline elapses

ASSUME FaultAssumption == Faults \subseteq FaultKinds

VARIABLES preamble,     \* per path: "none", "sent", "read"
          up,           \* per path: chunks written and not yet read
          fin,          \* per path: the client's FIN is on its way
          ack,          \* per path: the server's 1-byte drain ack was written
          cUp, sUp      \* per path: the client's/server's end is alive

qvars == <<preamble, up, fin, ack, cUp, sUp>>

QuicInit ==
    /\ preamble = [p \in Paths |-> "none"]
    /\ up = [p \in Paths |-> << >>]
    /\ fin = [p \in Paths |-> FALSE]
    /\ ack = [p \in Paths |-> FALSE]
    /\ cUp = [p \in Paths |-> FALSE]
    /\ sUp = [p \in Paths |-> FALSE]

-----------------------------------------------------------------------------
\* The client's end.

\* quic.Dial + OpenStreamSync: opening a stream sends nothing yet.
Dial(p) ==
    /\ cUp' = [cUp EXCEPT ![p] = TRUE]
    /\ sUp' = [sUp EXCEPT ![p] = TRUE]
    /\ UNCHANGED <<preamble, up, fin, ack>>

SendPreamble(p) ==
    /\ cUp[p]
    /\ preamble' = [preamble EXCEPT ![p] = "sent"]
    /\ UNCHANGED <<up, fin, ack, cUp, sUp>>

SendChunk(p, c) ==
    /\ cUp[p] /\ Len(up[p]) < Window
    /\ up' = [up EXCEPT ![p] = Append(@, c)]
    /\ UNCHANGED <<preamble, fin, ack, cUp, sUp>>

\* Stream.Close: schedules the FIN, and returns nil on a dead connection too.
CloseStream(p) ==
    /\ fin' = [fin EXCEPT ![p] = cUp[p]]
    /\ UNCHANGED <<preamble, up, ack, cUp, sUp>>

AckReadable(p) == cUp[p] /\ ack[p]

\* CloseWithError on every path, or the end of the client process.
ClientCloseAll ==
    /\ cUp' = [p \in Paths |-> FALSE]
    /\ UNCHANGED <<preamble, up, fin, ack, sUp>>

-----------------------------------------------------------------------------
\* The server's end.

ReceivePreamble(p) ==
    /\ sUp[p] /\ preamble[p] = "sent"
    /\ preamble' = [preamble EXCEPT ![p] = "read"]
    /\ UNCHANGED <<up, fin, ack, cUp, sUp>>

ReceiveChunk(p) ==
    /\ sUp[p] /\ up[p] # << >>
    /\ up' = [up EXCEPT ![p] = Tail(@)]
    /\ UNCHANGED <<preamble, fin, ack, cUp, sUp>>

AtEOF(p) == sUp[p] /\ up[p] = << >> /\ fin[p]

SendAck(p) ==
    /\ sUp[p]
    /\ ack' = [ack EXCEPT ![p] = TRUE]
    /\ UNCHANGED <<preamble, up, fin, cUp, sUp>>

ServerClose(p) ==
    /\ sUp' = [sUp EXCEPT ![p] = FALSE]
    /\ UNCHANGED <<preamble, up, fin, ack, cUp>>

-----------------------------------------------------------------------------
\* The network.

\* The peer's CONNECTION_CLOSE arrives, or nothing does until the idle timeout.
ServerTornDown(p) ==
    /\ sUp[p] /\ ~cUp[p]
    /\ ServerClose(p)

ClientTornDown(p) ==
    /\ cUp[p] /\ ~sUp[p]
    /\ cUp' = [cUp EXCEPT ![p] = FALSE]
    /\ UNCHANGED <<preamble, up, fin, ack, sUp>>

\* The path fails under a live connection; one end notices first.
PathLost(p) ==
    /\ "loss" \in Faults
    /\ cUp[p] /\ sUp[p]
    /\ \/ cUp' = [cUp EXCEPT ![p] = FALSE] /\ UNCHANGED sUp
       \/ sUp' = [sUp EXCEPT ![p] = FALSE] /\ UNCHANGED cUp
    /\ UNCHANGED <<preamble, up, fin, ack>>

Network(p) == ServerTornDown(p) \/ ClientTornDown(p) \/ PathLost(p)

QuicTypeOK(Frames) ==
    /\ preamble \in [Paths -> {"none", "sent", "read"}]
    /\ up \in [Paths -> Seq(Frames)]
    /\ \A p \in Paths : Len(up[p]) <= Window
    /\ fin \in [Paths -> BOOLEAN]
    /\ ack \in [Paths -> BOOLEAN]
    /\ cUp \in [Paths -> BOOLEAN]
    /\ sUp \in [Paths -> BOOLEAN]
=============================================================================
