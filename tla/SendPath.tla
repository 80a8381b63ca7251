------------------------------ MODULE SendPath ------------------------------
(***************************************************************************)
(* Below and beside the path writers of sendChunks: the congestion         *)
(* controllers that hold their bytes back, and the progress line they      *)
(* feed.  Each writer writes the frames of its share of the chunks; its    *)
(* bytes leave in packets while the path's controller says CanSend, and a  *)
(* packet is in flight until it is acknowledged or declared lost.  A lost  *)
(* packet is sent again before new data; packets overtake each other, and  *)
(* may be declared lost although they arrived.                             *)
(*                                                                         *)
(* quic-go's part (packets, loss detection, retransmission) is external.   *)
(* Left out: pacing (the template has none), probe packets (they are sent  *)
(* without asking the controller), flow control and dying connections      *)
(* (QuicPath), which chunk goes where (Scheduler), the drain (Client).     *)
(***************************************************************************)
EXTENDS CCModules, ProgressPrinter, FiniteSetsExt, Sums

CONSTANTS CCSpecs,      \* values of the -cc flag
          Shares,       \* per path, the chunks it is given (several choices)
          DataLen,      \* bytes of data in a chunk
          FrameLen,     \* bytes of a chunk on the wire
          MaxLosses     \* bound: packets declared lost

ASSUME SendPathAssumption ==
    /\ MaxLosses \in Nat /\ DataLen \in Nat \ {0}
    /\ FrameLen \in Nat /\ FrameLen > DataLen
    /\ \A s \in Shares : \A p \in Paths : s[p] \in Nat

VARIABLES spec,         \* the -cc list
          cpc, ci,      \* main: "start", "dial" (path ci is next), "send",
                        \* "sent", or "fatal"
          share,        \* per path: chunks the scheduler gives it
          wpc,          \* per path: its writer is "idle", in "write" or
                        \* about to "report"
          frames,       \* per path: frames handed to the stream
          chunksSent,   \* pathConn.chunksSent (bytesSent is DataLen times it)
          sent,         \* sendChunks: sent
          sendOff,      \* per path: bytes of the stream put in packets
          flight,       \* per path: packets not acknowledged, not lost
          lost,         \* per path: packets to be sent again
          losses,       \* packets declared lost so far
          got           \* per path: bytes of the stream that have arrived

mvars == <<spec, cpc, ci, share>>
wvars == <<wpc, frames, chunksSent, sent>>
nvars == <<sendOff, flight, lost, losses, got>>
vars == <<mvars, wvars, nvars, ccvars, pvars>>

Init ==
    /\ spec \in CCSpecs /\ cpc = "start" /\ ci = 0
    /\ share \in Shares
    /\ wpc = [p \in Paths |-> "idle"]
    /\ frames = [p \in Paths |-> 0] /\ chunksSent = [p \in Paths |-> 0] /\ sent = 0
    /\ sendOff = [p \in Paths |-> 0] /\ got = [p \in Paths |-> {}]
    /\ flight = [p \in Paths |-> {}] /\ lost = [p \in Paths |-> {}] /\ losses = 0
    /\ CCInit /\ PrinterInit

-----------------------------------------------------------------------------
\* main

\* The list is checked before anything is dialled, its names one by one as
\* the paths are: an unknown name ends the client after earlier dials.
ParseCC ==
    /\ cpc = "start"
    /\ cpc' = IF ExpandCCFails(spec) THEN "fatal" ELSE "dial"
    /\ UNCHANGED <<spec, ci, share, wvars, nvars, ccvars, pvars>>

DialPath ==
    /\ cpc = "dial" /\ ci < NumPaths /\ Get(ExpandCC(spec)[ci])
    /\ NewController(ci, ExpandCC(spec)[ci])
    /\ ci' = ci + 1
    /\ UNCHANGED <<spec, cpc, share, wvars, nvars, pvars>>

DialFails ==
    /\ cpc = "dial" /\ ci < NumPaths /\ ~Get(ExpandCC(spec)[ci])
    /\ cpc' = "fatal"
    /\ UNCHANGED <<spec, ci, share, wvars, nvars, ccvars, pvars>>

StartSending ==
    /\ cpc = "dial" /\ ci = NumPaths
    /\ NewProgressPrinter
    /\ cpc' = "send"
    /\ UNCHANGED <<spec, ci, share, wvars, nvars, ccvars>>

\* sendChunks returns when every writer has, and the progress line is ended.
SendDone ==
    /\ cpc = "send"
    /\ \A p \in Paths : wpc[p] = "idle" /\ frames[p] = share[p]
    /\ Close
    /\ cpc' = "sent"
    /\ UNCHANGED <<spec, ci, share, wvars, nvars, ccvars>>

-----------------------------------------------------------------------------
\* The writer of path p.

StartWrite(p) ==
    /\ cpc = "send" /\ wpc[p] = "idle" /\ frames[p] < share[p]
    /\ frames' = [frames EXCEPT ![p] = @ + 1]
    /\ wpc' = [wpc EXCEPT ![p] = "write"]
    /\ UNCHANGED <<mvars, chunksSent, sent, nvars, ccvars, pvars>>

\* A stream's Write returns when what is left of it fits into one packet.
WriteReturns(p) ==
    /\ wpc[p] = "write" /\ frames[p] * FrameLen - sendOff[p] < MaxDatagram
    /\ chunksSent' = [chunksSent EXCEPT ![p] = @ + 1]
    /\ wpc' = [wpc EXCEPT ![p] = "report"]
    /\ UNCHANGED <<mvars, frames, sent, nvars, ccvars, pvars>>

\* Bug: the path's own byte count is reported instead of the total.
Report_PathBytes(p) ==
    /\ wpc[p] = "report"
    /\ sent' = sent + DataLen
    /\ Update(DataLen * chunksSent[p])
    /\ wpc' = [wpc EXCEPT ![p] = "idle"]
    /\ UNCHANGED <<mvars, frames, chunksSent, nvars, ccvars>>

\* Both under sentMu.
Report(p) ==
    /\ wpc[p] = "report"
    /\ sent' = sent + DataLen
    /\ Update(sent')
    /\ wpc' = [wpc EXCEPT ![p] = "idle"]
    /\ UNCHANGED <<mvars, frames, chunksSent, nvars, ccvars>>

-----------------------------------------------------------------------------
\* quic-go's sender on path p, and the network.  One byte stands for the
\* headers of a packet.

Length(pkt) == pkt.len + 1
BytesInFlight(p) == SumOver(flight[p], [pkt \in flight[p] |-> Length(pkt)])

SendNew(p) ==
    LET left == frames[p] * FrameLen - sendOff[p]
        k    == Min({left, MaxDatagram - 1})
    IN  /\ left > 0 /\ lost[p] = {} /\ CanSend(p, BytesInFlight(p))
        /\ flight' = [flight EXCEPT ![p] =
                        @ \cup {[off |-> sendOff[p], len |-> k, arrived |-> FALSE]}]
        /\ sendOff' = [sendOff EXCEPT ![p] = @ + k]
        /\ UNCHANGED <<mvars, wvars, lost, losses, got, ccvars, pvars>>

SendAgain(p) ==
    /\ CanSend(p, BytesInFlight(p))
    /\ \E pkt \in lost[p] :
          /\ lost' = [lost EXCEPT ![p] = @ \ {pkt}]
          /\ flight' = [flight EXCEPT ![p] = @ \cup {[pkt EXCEPT !.arrived = FALSE]}]
    /\ UNCHANGED <<mvars, wvars, sendOff, losses, got, ccvars, pvars>>

Arrives(p) ==
    /\ \E pkt \in flight[p] :
          /\ ~pkt.arrived
          /\ flight' = [flight EXCEPT ![p] =
                          (@ \ {pkt}) \cup {[pkt EXCEPT !.arrived = TRUE]}]
          /\ got' = [got EXCEPT ![p] = @ \cup pkt.off..(pkt.off + pkt.len - 1)]
    /\ UNCHANGED <<mvars, wvars, sendOff, lost, losses, ccvars, pvars>>

Acked(p) ==
    /\ \E pkt \in flight[p] :
          /\ pkt.arrived
          /\ flight' = [flight EXCEPT ![p] = @ \ {pkt}]
    /\ OnPacketAcked(p)
    /\ UNCHANGED <<mvars, wvars, sendOff, lost, losses, got, pvars>>

DeclaredLost(p) ==
    /\ losses < MaxLosses
    /\ \E pkt \in flight[p] :
          /\ flight' = [flight EXCEPT ![p] = @ \ {pkt}]
          /\ lost' = [lost EXCEPT ![p] = @ \cup {pkt}]
    /\ losses' = losses + 1
    /\ OnCongestionEvent(p)
    /\ UNCHANGED <<mvars, wvars, sendOff, got, pvars>>

-----------------------------------------------------------------------------
MainStep == ParseCC \/ DialPath \/ DialFails \/ StartSending \/ SendDone

WriterStep(p) == StartWrite(p) \/ WriteReturns(p) \/ Report(p)

PrinterStep ==
    /\ TakeCount \/ SelectDone
    /\ UNCHANGED <<mvars, wvars, nvars, ccvars>>

PacketStep(p) ==
    SendNew(p) \/ SendAgain(p) \/ Arrives(p) \/ Acked(p) \/ DeclaredLost(p)

Next == MainStep \/ PrinterStep \/ \E p \in Paths : WriterStep(p) \/ PacketStep(p)

\* Goroutines run, packets that may be sent are sent, and a packet that is
\* not declared lost arrives and is acknowledged.  The printer's select picks
\* among what is ready at random, so a closed done is picked in the end.
Fairness ==
    /\ WF_vars(MainStep)
    /\ WF_vars(SelectDone /\ UNCHANGED <<mvars, wvars, nvars, ccvars>>)
    /\ \A p \in Paths :
          /\ WF_vars(WriterStep(p))
          /\ WF_vars(SendNew(p)) /\ WF_vars(SendAgain(p))
          /\ WF_vars(Arrives(p)) /\ WF_vars(Acked(p))

Spec == Init /\ [][Next]_vars
FairSpec == Spec /\ Fairness

-----------------------------------------------------------------------------
SendPathTypeOK ==
    /\ CCTypeOK /\ PrinterTypeOK
    /\ cpc \in {"start", "dial", "send", "sent", "fatal"} /\ ci \in 0..NumPaths
    /\ wpc \in [Paths -> {"idle", "write", "report"}]
    /\ \A p \in Paths :
          /\ frames[p] \in 0..share[p] /\ chunksSent[p] \in 0..frames[p]
          /\ sendOff[p] \in 0..(frames[p] * FrameLen)
          /\ got[p] \subseteq 0..(sendOff[p] - 1)
    /\ losses \in 0..MaxLosses

\* custom_template.go, "a constant congestion window": what a path has in
\* flight exceeds the window by less than one datagram, whatever is lost,
\* late or sent again.
InFlightBounded ==
    \A p \in Paths : cc[p] = "fixed" =>
        BytesInFlight(p) < GetCongestionWindow(p) + MaxDatagram

\* The byte counts of the progress line, of the result and of a burst's row
\* are of writes that returned, not of bytes that arrived.  On a path with
\* the fixed window they are ahead of the receiver by less than the window
\* and two datagrams, lost bytes (neither in flight nor arrived) included.
CountsAheadByAWindow ==
    \A p \in Paths : cc[p] = "fixed" =>
        chunksSent[p] * FrameLen - Cardinality(got[p])
            < GetCongestionWindow(p) + 2 * MaxDatagram

\* Every count the printer takes is larger than the one before and is of
\* bytes sent: two writers report in the order in which they added (sentMu),
\* and a count dropped by Update is never printed late.
ProgressGrows == [][TakeCount => last < last' /\ last' <= sent]_vars

\* A well-formed -cc list lets every byte through whatever is lost, although
\* no controller is told that a recovery is over, and the progress line ends;
\* any other list ends the client.
GetsThrough ==
    IF ExpandCCFails(spec) \/ \E p \in Paths : ~Get(ExpandCC(spec)[p])
    THEN <>(cpc = "fatal")
    ELSE <>(ppc = "ended" /\ \A p \in Paths : Cardinality(got[p]) = FrameLen * share[p])
=============================================================================
