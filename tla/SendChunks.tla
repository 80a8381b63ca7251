----------------------------- MODULE SendChunks -----------------------------
(***************************************************************************)
(* What a one-shot transfer and every burst of a continuous session share  *)
(* on the client (cmd/client/main.go): sendChunks, in which a dispatcher   *)
(* gives chunk after chunk to the scheduler and puts it on the bounded     *)
(* queue of each path it names, one writer goroutine per path empties that *)
(* queue into the stream, and a WaitGroup joins the writers; and           *)
(* drainPaths, with one goroutine per path.                                *)
(*                                                                         *)
(* Left out: logging and the progress line.                                *)
(***************************************************************************)
EXTENDS QuicPath, Scheduler

CONSTANTS Schedulers,   \* the values of -scheduler
          QueueCap      \* capacity of a path's queue (64 in sendChunks)

ASSUME SendAssumption == Schedulers \subseteq SchedulerNames /\ QueueCap \in Nat \ {0}

VARIABLES sched,        \* the scheduler in use
          n,            \* its round-robin counter
          next,         \* chunks handed to the scheduler so far
          targets,      \* paths the current chunk must still be enqueued on
          queue,        \* per path: the queue of chunk numbers
          qClosed,      \* close(q) was called on every queue
          writers,      \* paths whose writer goroutine has not called wg.Done
          cur,          \* per path: the chunk its writer holds, or NoChunk
          chunksSent,   \* pathConn.chunksSent
          bytesSent,    \* pathConn.bytesSent
          drain         \* per path: "none", "wait", "acked", "gaveup"

batchvars == <<next, targets, queue, qClosed>>
countvars == <<chunksSent, bytesSent>>
sendvars == <<sched, n, batchvars, writers, cur, countvars, drain>>

NoChunk == -1
RTTs == {0, 1, 2}       \* SmoothedRTT: not measured yet, or one of two values

SendInit ==
    /\ sched \in Schedulers
    /\ n = 0
    /\ next = 0
    /\ targets = << >>
    /\ queue = [p \in Paths |-> << >>]
    /\ qClosed = FALSE
    /\ writers = Paths
    /\ cur = [p \in Paths |-> NoChunk]
    /\ chunksSent = [p \in Paths |-> 0]
    /\ bytesSent = [p \in Paths |-> 0]
    /\ drain = [p \in Paths |-> "none"]

-----------------------------------------------------------------------------
\* The dispatcher, for a batch of count chunks.

AssignChunk(count) ==
    /\ targets = << >> /\ next < count
    /\ \E rtt \in [Paths -> RTTs] :
          /\ targets' = Assign(sched, n, rtt)
          /\ n' = Counter(sched, n, rtt)
    /\ next' = next + 1
    /\ UNCHANGED <<sched, queue, qClosed, writers, cur, countvars, drain, qvars>>

\* queues[idx] <- c blocks while the queue of that path is full.
Enqueue ==
    /\ targets # << >>
    /\ Len(queue[Head(targets)]) < QueueCap
    /\ queue' = [queue EXCEPT ![Head(targets)] = Append(@, next - 1)]
    /\ targets' = Tail(targets)
    /\ UNCHANGED <<sched, n, next, qClosed, writers, cur, countvars, drain, qvars>>

\* Bug: the queues are closed one chunk early.
CloseQueues_OffByOne(count) ==
    /\ targets = << >> /\ next >= count - 1 /\ ~qClosed
    /\ qClosed' = TRUE
    /\ UNCHANGED <<sched, n, next, targets, queue, writers, cur, countvars, drain, qvars>>

CloseQueues(count) ==
    /\ targets = << >> /\ next = count /\ ~qClosed
    /\ qClosed' = TRUE
    /\ UNCHANGED <<sched, n, next, targets, queue, writers, cur, countvars, drain, qvars>>

Dispatch(count) == AssignChunk(count) \/ Enqueue \/ CloseQueues(count)

-----------------------------------------------------------------------------
\* The writer goroutine of path p.

TakeChunk(p) ==
    /\ p \in writers /\ cur[p] = NoChunk /\ queue[p] # << >>
    /\ cur' = [cur EXCEPT ![p] = Head(queue[p])]
    /\ queue' = [queue EXCEPT ![p] = Tail(@)]
    /\ UNCHANGED <<sched, n, next, targets, qClosed, writers, countvars, drain, qvars>>

\* The chunk, as the given frame with len bytes of data, is written.
WriteChunk(p, frame, len) ==
    /\ cur[p] # NoChunk
    /\ SendChunk(p, frame)
    /\ chunksSent' = [chunksSent EXCEPT ![p] = @ + 1]
    /\ bytesSent' = [bytesSent EXCEPT ![p] = @ + len]
    /\ cur' = [cur EXCEPT ![p] = NoChunk]
    /\ UNCHANGED <<sched, n, batchvars, writers, drain>>

\* Bug: a failed write is tried again for ever.
WriteFails_Retries(p) ==
    /\ cur[p] # NoChunk /\ ~cUp[p]
    /\ UNCHANGED <<sendvars, qvars>>

\* Bug: return instead of continue.  The deferred wg.Done runs, but nobody
\* reads the path's queue any more.
WriteFails_Returns(p) ==
    /\ cur[p] # NoChunk /\ ~cUp[p]
    /\ cur' = [cur EXCEPT ![p] = NoChunk]
    /\ writers' = writers \ {p}
    /\ UNCHANGED <<sched, n, batchvars, countvars, drain, qvars>>

\* The error is logged and the chunk is dropped: nothing sends it again.
WriteFails(p) ==
    /\ cur[p] # NoChunk /\ ~cUp[p]
    /\ cur' = [cur EXCEPT ![p] = NoChunk]
    /\ UNCHANGED <<sched, n, batchvars, writers, countvars, drain, qvars>>

\* The range over the queue ends: it is closed and empty.
WriterReturns(p) ==
    /\ p \in writers /\ cur[p] = NoChunk /\ qClosed /\ queue[p] = << >>
    /\ writers' = writers \ {p}
    /\ UNCHANGED <<sched, n, batchvars, cur, countvars, drain, qvars>>

\* Bug: sendChunks returns without waiting for its writers.
WritersDone_NoWait == qClosed

\* wg.Wait() in sendChunks, which main reaches when it has closed the queues.
WritersDone == qClosed /\ writers = {}

-----------------------------------------------------------------------------
\* drainPaths: one goroutine per path.

\* Close fails, and drainPath returns early, only on a stream that was reset,
\* which neither side ever does; on a dead connection it returns nil.
DrainClose(p) ==
    /\ drain[p] = "none"
    /\ CloseStream(p)
    /\ drain' = [drain EXCEPT ![p] = "wait"]
    /\ UNCHANGED <<sched, n, batchvars, writers, cur, countvars>>

DrainAcked(p) ==
    /\ drain[p] = "wait" /\ AckReadable(p)
    /\ drain' = [drain EXCEPT ![p] = "acked"]
    /\ UNCHANGED <<sched, n, batchvars, writers, cur, countvars, qvars>>

\* ReadFull fails: the connection is gone, or drainTimeout elapsed.
DrainFails(p) ==
    /\ drain[p] = "wait"
    /\ ~cUp[p] \/ "drainTimeout" \in Faults
    /\ drain' = [drain EXCEPT ![p] = "gaveup"]
    /\ UNCHANGED <<sched, n, batchvars, writers, cur, countvars, qvars>>

Drained == \A p \in Paths : drain[p] \in {"acked", "gaveup"}

SendTypeOK(maxChunk) ==
    /\ sched \in Schedulers
    /\ n \in Nat
    /\ next \in 0..(maxChunk + 1)
    /\ targets \in Seq(Paths)
    /\ queue \in [Paths -> Seq(0..maxChunk)]
    /\ \A p \in Paths : Len(queue[p]) <= QueueCap
    /\ qClosed \in BOOLEAN
    /\ writers \subseteq Paths
    /\ cur \in [Paths -> 0..maxChunk \cup {NoChunk}]
    /\ chunksSent \in [Paths -> Nat]
    /\ bytesSent \in [Paths -> Nat]
    /\ drain \in [Paths -> {"none", "wait", "acked", "gaveup"}]
=============================================================================
