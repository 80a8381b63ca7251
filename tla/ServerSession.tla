--------------------------- MODULE ServerSession ----------------------------
(***************************************************************************)
(* One one-shot session on the server (cmd/server/main.go): a handleConn   *)
(* goroutine per path connection, the session object they find through the *)
(* registry, and the goroutine started by serverSession.start that waits   *)
(* for the WaitGroup and finalizes.                                        *)
(*                                                                         *)
(* hpc[p] is where path p's handler stands:                                *)
(*   none     no connection accepted yet                                   *)
(*   accept   in AcceptStream / ReadPreamble                               *)
(*   start    path 0 only: about to call sess.start                        *)
(*   wait     in waitReady                                                 *)
(*   read     in ReadChunk                                                 *)
(*   log      chunk placed, delivery sample not yet added                  *)
(*   done     out of the read loop, about to call pathDone                 *)
(*   recorded pathResults appended, wg.Done not yet called                 *)
(*   counted  wg.Done called, drain ack not yet written                    *)
(*   acked    returned leaving the connection open (closeNow = false)      *)
(*   closed   returned after pathDone, connection closed                   *)
(*   aborted  returned before the read loop, connection closed             *)
(* Left out: the progress line, the log lines, the TLS and address details *)
(* and the wording of the result files.                                    *)
(***************************************************************************)
EXTENDS QuicPath, Reassembler

CONSTANT MaxPerPath     \* bound: chunks the environment sends on one path

ASSUME MaxPerPathAssumption == MaxPerPath \in Nat

VARIABLES hpc,
          sess,           \* "none", "created" (in the registry), "ready"
          wg,             \* the WaitGroup's counter
          chunks,         \* per path: handleConn's local chunks ...
          corrupted,      \* ... corrupted ...
          bytesReceived,  \* ... bytesReceived ...
          readErr,        \* ... and readErr: "none", "EOF", "err"
          deliveryLog,    \* per path: rows in the session's delivery log
          pathResults,    \* the PathStats appended by pathDone
          result          \* finalize's integrity_ok: "none", "ok", "bad"

svars == <<hpc, sess, wg, chunks, corrupted, bytesReceived, readErr,
           deliveryLog, pathResults, result>>

Early == {"none", "accept", "start", "wait", "aborted"}    \* not in the read loop yet
Recorded == {"recorded", "counted", "acked", "closed"}
Counted == {"counted", "acked", "closed"}
Returned == {"acked", "closed", "aborted"}
Handlers == Early \cup Counted \cup {"read", "log", "done", "recorded"}

PathStats(p) ==
    [index |-> p, bytes |-> bytesReceived[p], chunks |-> chunks[p],
     corrupted |-> corrupted[p]]

ServerInit ==
    /\ hpc = [p \in Paths |-> "none"]
    /\ sess = "none"
    /\ wg = 0
    /\ chunks = [p \in Paths |-> 0]
    /\ corrupted = [p \in Paths |-> 0]
    /\ bytesReceived = [p \in Paths |-> 0]
    /\ readErr = [p \in Paths |-> "none"]
    /\ deliveryLog = [p \in Paths |-> 0]
    /\ pathResults = << >>
    /\ result = "none"
    /\ NoReassembler

At(p, from, to) == hpc[p] = from /\ hpc' = [hpc EXCEPT ![p] = to]

-----------------------------------------------------------------------------
\* ln.Accept and go handleConn(...).
Accept(p) ==
    /\ sUp[p]
    /\ At(p, "none", "accept")
    /\ UNCHANGED <<sess, wg, chunks, corrupted, bytesReceived, readErr,
                   deliveryLog, pathResults, result, rvars, qvars>>

\* Bug: wg.Done is deferred at the top of the handler.
Abort_CountsDown(p, from) ==
    /\ At(p, from, "aborted")
    /\ ServerClose(p)
    /\ wg' = wg - 1
    /\ UNCHANGED <<sess, chunks, corrupted, bytesReceived, readErr,
                   deliveryLog, pathResults, result, rvars>>

\* An early return before the read loop: closeNow is true.
Abort(p, from) ==
    /\ At(p, from, "aborted")
    /\ ServerClose(p)
    /\ UNCHANGED <<sess, wg, chunks, corrupted, bytesReceived, readErr,
                   deliveryLog, pathResults, result, rvars>>

AcceptFails(p) == ~sUp[p] /\ Abort(p, "accept")

\* ReadPreamble, then registry.getOrCreate under the registry's lock.
GetOrCreate(p) ==
    /\ ReceivePreamble(p)
    /\ At(p, "accept", IF p = 0 THEN "start" ELSE "wait")
    /\ sess' = IF sess = "none" THEN "created" ELSE sess
    /\ UNCHANGED <<wg, chunks, corrupted, bytesReceived, readErr, deliveryLog,
                   pathResults, result, rvars>>

\* serverSession.start, under the session's lock, with wg.Add(k).  Its early
\* return for a second control header is never taken: a session has one path 0.
StartAdding(k, p) ==
    /\ At(p, "start", "wait")
    /\ sess # "ready"
    /\ NewReassembler
    /\ wg' = wg + k
    /\ sess' = "ready"
    /\ UNCHANGED <<chunks, corrupted, bytesReceived, readErr, deliveryLog,
                   pathResults, result, qvars>>

Start_ForgetsPath0(p) == StartAdding(NumPaths - 1, p)     \* bug: one Done too many
Start_CountsItself(p) == StartAdding(NumPaths + 1, p)     \* bug: one Done too few

Start(p) == StartAdding(NumPaths, p)

WaitReady(p) ==
    /\ sess = "ready"
    /\ At(p, "wait", "read")
    /\ UNCHANGED <<sess, wg, chunks, corrupted, bytesReceived, readErr,
                   deliveryLog, pathResults, result, rvars, qvars>>

\* The timer wins the select (even over a session that just became ready).
WaitReadyTimesOut(p) == "readyTimeout" \in Faults /\ Abort(p, "wait")

-----------------------------------------------------------------------------
\* The read loop: a chunk that passes its checksum is written to the
\* reassembler, then a delivery sample is added.
ReadChunk(p) ==
    /\ ReceiveChunk(p)
    /\ At(p, "read", "log")
    /\ chunks' = [chunks EXCEPT ![p] = @ + 1]
    /\ bytesReceived' = [bytesReceived EXCEPT ![p] = @ + ChunkLen(Head(up[p]))]
    /\ Write(ChunkAt(Head(up[p])))
    /\ UNCHANGED <<sess, wg, corrupted, readErr, deliveryLog, pathResults, result>>

\* Bug: the corrupted chunk is placed all the same.
ReadCorruptChunk_Keeps(p) ==
    /\ "corrupt" \in Faults
    /\ hpc[p] = "read"
    /\ ReceiveChunk(p)
    /\ chunks' = [chunks EXCEPT ![p] = @ + 1]
    /\ bytesReceived' = [bytesReceived EXCEPT ![p] = @ + ChunkLen(Head(up[p]))]
    /\ corrupted' = [corrupted EXCEPT ![p] = @ + 1]
    /\ Write(ChunkAt(Head(up[p])))
    /\ UNCHANGED <<hpc, sess, wg, readErr, deliveryLog, pathResults, result>>

\* A corrupted chunk is counted and otherwise ignored.
ReadCorruptChunk(p) ==
    /\ "corrupt" \in Faults
    /\ hpc[p] = "read"
    /\ ReceiveChunk(p)
    /\ chunks' = [chunks EXCEPT ![p] = @ + 1]
    /\ bytesReceived' = [bytesReceived EXCEPT ![p] = @ + ChunkLen(Head(up[p]))]
    /\ corrupted' = [corrupted EXCEPT ![p] = @ + 1]
    /\ UNCHANGED <<hpc, sess, wg, readErr, deliveryLog, pathResults, result, rvars>>

LogDelivery(p) ==
    /\ At(p, "log", "read")
    /\ deliveryLog' = [deliveryLog EXCEPT ![p] = @ + 1]
    /\ UNCHANGED <<sess, wg, chunks, corrupted, bytesReceived, readErr,
                   pathResults, result, rvars, qvars>>

\* Bug: after an error other than EOF the loop goes on.
StopReading_OnlyEOF(p) ==
    /\ AtEOF(p)
    /\ At(p, "read", "done")
    /\ readErr' = [readErr EXCEPT ![p] = "EOF"]
    /\ UNCHANGED <<sess, wg, chunks, corrupted, bytesReceived, deliveryLog,
                   pathResults, result, rvars, qvars>>

\* ReadChunk returns an error: the FIN was reached, or the connection died.
StopReading(p) ==
    /\ AtEOF(p) \/ ~sUp[p]
    /\ At(p, "read", "done")
    /\ readErr' = [readErr EXCEPT ![p] = IF AtEOF(p) THEN "EOF" ELSE "err"]
    /\ UNCHANGED <<sess, wg, chunks, corrupted, bytesReceived, deliveryLog,
                   pathResults, result, rvars, qvars>>

-----------------------------------------------------------------------------
\* Bug: a path that ended in an error leaves no row.
RecordPath_OnlyEOF(p) ==
    /\ At(p, "done", "recorded")
    /\ pathResults' = IF readErr[p] = "EOF" THEN Append(pathResults, PathStats(p))
                      ELSE pathResults
    /\ UNCHANGED <<sess, wg, chunks, corrupted, bytesReceived, readErr,
                   deliveryLog, result, rvars, qvars>>

\* pathDone: the append is under pathMu, wg.Done comes after the unlock.
RecordPath(p) ==
    /\ At(p, "done", "recorded")
    /\ pathResults' = Append(pathResults, PathStats(p))
    /\ UNCHANGED <<sess, wg, chunks, corrupted, bytesReceived, readErr,
                   deliveryLog, result, rvars, qvars>>

WgDone(p) ==
    /\ At(p, "recorded", "counted")
    /\ wg' = wg - 1
    /\ UNCHANGED <<sess, chunks, corrupted, bytesReceived, readErr,
                   deliveryLog, pathResults, result, rvars, qvars>>

\* Bug: the deferred close also runs after the ack was written.
WriteAck_ThenCloses(p) ==
    /\ readErr[p] = "EOF" /\ sUp[p]
    /\ At(p, "counted", "acked")
    /\ ack' = [ack EXCEPT ![p] = TRUE]
    /\ sUp' = [sUp EXCEPT ![p] = FALSE]
    /\ UNCHANGED <<sess, wg, chunks, corrupted, bytesReceived, readErr,
                   deliveryLog, pathResults, result, rvars, preamble, up, fin, cUp>>

\* After a clean EOF the drain ack is written and the connection left open.
WriteAck(p) ==
    /\ readErr[p] = "EOF"
    /\ At(p, "counted", "acked")
    /\ SendAck(p)
    /\ UNCHANGED <<sess, wg, chunks, corrupted, bytesReceived, readErr,
                   deliveryLog, pathResults, result, rvars>>

\* The read loop ended in an error, or writing the ack failed.
CloseNow(p) ==
    /\ readErr[p] # "EOF" \/ ~sUp[p]
    /\ At(p, "counted", "closed")
    /\ ServerClose(p)
    /\ UNCHANGED <<sess, wg, chunks, corrupted, bytesReceived, readErr,
                   deliveryLog, pathResults, result, rvars>>

FinalizeAs(ok) ==
    /\ result' = IF ok THEN "ok" ELSE "bad"
    /\ UNCHANGED <<hpc, sess, wg, chunks, corrupted, bytesReceived, readErr,
                   deliveryLog, pathResults, rvars, qvars>>

NoCorruptedRow == \A i \in 1..Len(pathResults) : pathResults[i].corrupted = 0

\* Bug: finalize does not wait.
Finalize_WithoutWait ==
    sess = "ready" /\ result = "none" /\ FinalizeAs(NoCorruptedRow /\ Complete)

\* Bug: the corrupted counts are not looked at.
Finalize_IgnoresCorruption ==
    sess = "ready" /\ wg = 0 /\ result = "none" /\ FinalizeAs(Complete)

\* The waiting goroutine: wg.Wait(), then finalize.
Finalize ==
    sess = "ready" /\ wg = 0 /\ result = "none" /\ FinalizeAs(NoCorruptedRow /\ Complete)

HandlerStep(p) ==
    \/ Accept(p) \/ AcceptFails(p) \/ GetOrCreate(p) \/ Start(p)
    \/ WaitReady(p) \/ WaitReadyTimesOut(p)
    \/ ReadChunk(p) \/ ReadCorruptChunk(p) \/ LogDelivery(p) \/ StopReading(p)
    \/ RecordPath(p) \/ WgDone(p) \/ WriteAck(p) \/ CloseNow(p)

ServerStep == Finalize \/ \E p \in Paths : HandlerStep(p)

-----------------------------------------------------------------------------
\* The session on its own, against any client that greets a path before it
\* sends chunks of the transfer on it, in any order and as often as it likes,
\* closes the stream when it likes and goes away when it likes.

PeerStep(p) ==
    /\ \/ /\ hpc[p] = "none" /\ preamble[p] = "none" /\ ~cUp[p] /\ ~sUp[p]
          /\ Dial(p)
       \/ preamble[p] = "none" /\ SendPreamble(p)
       \/ /\ preamble[p] # "none" /\ ~fin[p] /\ chunks[p] + Len(up[p]) < MaxPerPath
          /\ \E c \in SplitSeqs : SendChunk(p, c)
       \/ preamble[p] # "none" /\ ~fin[p] /\ CloseStream(p)
       \/ Network(p)
    /\ UNCHANGED <<svars, rvars>>

PeerGone == ClientCloseAll /\ UNCHANGED <<svars, rvars>>

ServerNext == ServerStep \/ PeerGone \/ \E p \in Paths : PeerStep(p)

InitSession == QuicInit /\ ServerInit

ServerSpec == InitSession /\ [][ServerNext]_<<qvars, svars, rvars>>

-----------------------------------------------------------------------------
ServerTypeOK ==
    /\ QuicTypeOK(SplitSeqs)
    /\ hpc \in [Paths -> Handlers]
    /\ sess \in {"none", "created", "ready"}
    /\ wg \in 0..NumPaths
    /\ chunks \in [Paths -> Nat]
    /\ corrupted \in [Paths -> Nat]
    /\ bytesReceived \in [Paths -> Nat]
    /\ readErr \in [Paths -> {"none", "EOF", "err"}]
    /\ deliveryLog \in [Paths -> Nat]
    /\ pathResults \in Seq([index : Paths, bytes : Nat, chunks : Nat, corrupted : Nat])
    /\ result \in {"none", "ok", "bad"}
    /\ sess = "ready" => ReassemblerTypeOK

\* The WaitGroup holds one unit for every path whose handler has not called
\* wg.Done, including the paths whose handler has not even been accepted:
\* it cannot go negative (a panic) and cannot reach zero early.
WgCountsUnfinished ==
    wg = IF sess = "ready" THEN Cardinality({p \in Paths : hpc[p] \notin Counted})
                           ELSE 0

\* Every path that ended its read loop has exactly one row in pathResults,
\* with the handler's final counters; no other path has one.
OneRowPerPath ==
    /\ \A i, j \in 1..Len(pathResults) :
          pathResults[i].index = pathResults[j].index => i = j
    /\ {pathResults[i] : i \in 1..Len(pathResults)}
          = {PathStats(p) : p \in {q \in Paths : hpc[q] \in Recorded}}

\* finalize runs only after every path's handler has recorded its row and all
\* its delivery samples, although wg.Wait never looks at the handlers: the
\* result files are complete.
ResultCoversEveryPath ==
    result # "none" =>
        /\ Len(pathResults) = NumPaths
        /\ \A p \in Paths : /\ hpc[p] \in Counted
                            /\ deliveryLog[p] = chunks[p] - corrupted[p]

\* README "Flags": integrity_ok is true iff every chunk the server received
\* passed its checksum and every expected chunk arrived, i.e. iff the buffer
\* is the payload and no handler counted a corrupted chunk.
IntegrityOKIsSound ==
    result # "none" =>
        (result = "ok" <=> /\ buf = Payload
                           /\ \A p \in Paths : corrupted[p] = 0)

\* Once integrity_ok is decided nothing it was decided from moves any more,
\* even while handlers are still writing acks or clients are still connected.
FrozenAfterResult ==
    [][result # "none" =>
          UNCHANGED <<result, pathResults, chunks, corrupted, bytesReceived,
                      deliveryLog, rvars>>]_<<qvars, svars, rvars>>

\* The session implements the abstract promise: see IntegrityVerdict.
Verdict == INSTANCE IntegrityVerdict WITH
    PathIds   <- Paths,
    ChunkIds  <- SplitSeqs,
    delivered <- {c \in DOMAIN received : received[c]},
    tally     <- [p \in Paths |-> [chunks |-> chunks[p], corrupted |-> corrupted[p]]],
    reported  <- {p \in Paths : hpc[p] \in Recorded},
    verdict   <- result

\* The handlers, the WaitGroup and the reassembler together give the verdict
\* IntegrityVerdict promises.
KeepsItsPromise == Verdict!Spec
=============================================================================
