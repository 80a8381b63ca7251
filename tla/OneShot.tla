------------------------------ MODULE OneShot -------------------------------
(***************************************************************************)
(* A whole one-shot transfer: the client of Client.tla and the session of  *)
(* ServerSession.tla joined by the connections of QuicPath.tla.            *)
(***************************************************************************)
EXTENDS Client, ServerSession

vars == <<cvars, qvars, svars, rvars>>

Init == ClientInit /\ QuicInit /\ ServerInit

\* The client process is over, and no handler of the session can move.
Terminating ==
    /\ cpc \in {"exit", "fatal"}
    /\ \A p \in Paths : ~sUp[p] /\ hpc[p] \in Returned \cup {"none"}
    /\ result # "none" \/ sess # "ready" \/ wg > 0
    /\ UNCHANGED vars

Next ==
    \/ ClientStep /\ UNCHANGED <<svars, rvars>>
    \/ ServerStep /\ UNCHANGED cvars
    \/ (\E p \in Paths : Network(p)) /\ UNCHANGED <<cvars, svars, rvars>>
    \/ Terminating

\* Goroutines are scheduled and timers fire; connections that lost their
\* peer time out.  Nothing forces a path to fail, a chunk to be corrupted
\* or a dial to fail.
Fairness ==
    /\ WF_vars(MainStep /\ UNCHANGED <<svars, rvars>>)
    /\ WF_vars(Finalize /\ UNCHANGED cvars)
    /\ \A p \in Paths :
          /\ WF_vars(WriterStep(p) /\ UNCHANGED <<svars, rvars>>)
          /\ WF_vars(DrainStep(p) /\ UNCHANGED <<svars, rvars>>)
          /\ WF_vars(HandlerStep(p) /\ UNCHANGED cvars)
          /\ WF_vars(ServerTornDown(p) /\ UNCHANGED <<cvars, svars, rvars>>)
          /\ WF_vars(ClientTornDown(p) /\ UNCHANGED <<cvars, svars, rvars>>)

Spec == Init /\ [][Next]_vars

FairSpec == Spec /\ Fairness

-----------------------------------------------------------------------------
TypeOK == ClientTypeOK /\ ServerTypeOK

\* drainPath's comment: the ack proves every chunk and the FIN were received.
\* So when the client has read path p's ack, the server's row for the path is
\* recorded and its counters are the client's.
AckProvesDelivery ==
    \A p \in Paths : drain[p] = "acked" =>
        /\ readErr[p] = "EOF" /\ hpc[p] = "acked"
        /\ chunks[p] = chunksSent[p]
        /\ bytesReceived[p] = bytesSent[p]

\* If every path was acked, no chunk was lost anywhere between the scheduler
\* and the reassembler, whatever the scheduler and even if writes failed on
\* the way: unless a chunk was corrupted the verdict is, or will be, "ok".
AllAckedMeansIntact ==
    (\A p \in Paths : drain[p] = "acked" /\ corrupted[p] = 0)
        => Complete /\ wg = 0 /\ result # "bad"

\* redundant.go: every chunk goes out on every path, so one path that was
\* acked and saw no corruption is enough, whatever happened to the others.
OneGoodPathIsEnough ==
    sched = "redundant" =>
        \A p \in Paths : drain[p] = "acked" /\ corrupted[p] = 0 => Complete

\* The client keeps to what ServerSession assumes of its peer (a preamble
\* first, only chunks of the transfer, none after the FIN), so everything
\* checked and proved of ServerSpec holds of the whole transfer.
ClientIsAProperPeer == ServerSpec

\* With no faults at all: a client that has exited has been acked on every
\* path, so its close cannot have abandoned tail data, and the server's
\* verdict, once given, is "ok".
CleanExit ==
    /\ cpc # "fatal" /\ result # "bad"
    /\ cpc = "exit" => \A p \in Paths : drain[p] = "acked"

\* With no faults the client always gets through, whatever the order in
\* which queues fill and windows open, and the server reports success.
TransferSucceeds == <>(cpc = "exit") /\ <>(result = "ok")

\* Whatever fails, the client process ends: no mix of full queues, stalled
\* paths, missing acks and timeouts blocks it for good.
ClientEnds == <>[](cpc \in {"exit", "fatal"})

\* Whatever fails, once every path of the session has entered its read loop
\* the server finalizes.  (A path that has entered it never leaves to Early.)
JoinedSessionReports ==
    <>[]((\A p \in Paths : hpc[p] \notin Early) => result # "none")

\* README step 7: both sides write a results record.  The client writes its
\* own when it exits.  If it was acked on path 0, then the server has read
\* the control header and that path's whole share, and its record must follow.
BothSidesReport == (cpc = "exit" /\ drain[0] = "acked") ~> (result # "none")
=============================================================================
