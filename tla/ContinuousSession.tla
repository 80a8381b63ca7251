------------------------- MODULE ContinuousSession --------------------------
(***************************************************************************)
(* One continuous session on the server (cmd/server/main.go): the path     *)
(* handlers feed the burst tracker, while three more goroutines report     *)
(* from it: the sweep loop, the goroutine waiting for the WaitGroup, and   *)
(* the process's signal handler, which ends with os.Exit.  None of them    *)
(* takes the session's mutex, so they also race start itself.              *)
(*                                                                         *)
(* pc[a] is where reporting goroutine a stands:                            *)
(*   off      not started, or no signal yet                                *)
(*   select   the sweep loop's select                                      *)
(*   wait     the waiter's wg.Wait                                         *)
(*   check    shutdownContinuous: about to look at burstTracker            *)
(*   close    about to close stopSweep                                     *)
(*   flush    about to call ExpireAll                                      *)
(*   record   recordBursts: adding its batch to burstLog                   *)
(*   create   snapshot taken, file not yet created                         *)
(*   write    file created (truncated), rows not yet flushed to it         *)
(*   done     returned                                                     *)
(*                                                                         *)
(* burstLog only grows, so a snapshot is its length, and bursts.csv is the *)
(* number of leading rows it holds.  Two writers of the file have their    *)
(* own descriptors: creating truncates, and the shorter of two snapshots   *)
(* written over the longer changes nothing.                                *)
(*                                                                         *)
(* Left out: what handleConn does before waitReady and after pathDone, the *)
(* delivery log and pathResults, which nothing reads in this mode (all in  *)
(* ServerSession), and the log lines; a burst's aggregate row and its      *)
(* per-path rows are one element of burstLog.                              *)
(***************************************************************************)
EXTENDS BurstTracker, Sequences, FiniteSetsExt, Sums

CONSTANTS NumBursts,    \* bound: bursts the client sends
          Faults        \* "corrupt" (a chunk fails its CRC32), "signal"

ASSUME ContinuousAssumption ==
    NumBursts \in Nat /\ Faults \subseteq {"corrupt", "signal"}

VARIABLES start,        \* sess.start: "none", "tracker", "channel", "ready"
          wg,           \* the WaitGroup's counter
          hpc,          \* per path: "wait" (for ready), "read", "done"
          chunks,       \* per path: handleConn's local chunks
          last,         \* per path: the last frame read
          pc, batch, snap,
          burstLog,
          file,         \* rows in bursts.csv
          stopped,      \* stopSweep is closed
          exit          \* the process: "no", "clean", "panic"

hvars == <<wg, hpc, chunks, last>>
cvars == <<start, hvars, pc, batch, snap, burstLog, file, stopped, exit, bursts>>

Agents == {"sweep", "waiter", "signal"}
Callers == {"waiter", "signal"}         \* of shutdownContinuous

\* The client sends one burst after the other, and a path's stream keeps the
\* order, so a path carries some of the frames 0, 1, 2, ... in this order.
ChunksPerBurst == Cardinality(SplitSeqs)
Frames == 0..(NumBursts * ChunksPerBurst - 1)
BurstOf(f) == (f \div ChunksPerBurst) + 1
SeqOf(f) == f % ChunksPerBurst

Init ==
    /\ start = "none"
    /\ wg = 0
    /\ hpc = [p \in Paths |-> "wait"]
    /\ chunks = [p \in Paths |-> 0]
    /\ last = [p \in Paths |-> -1]
    /\ pc = [a \in Agents |-> "off"]
    /\ batch = [a \in Agents |-> {}]
    /\ snap = [a \in Agents |-> 0]
    /\ burstLog = << >>
    /\ file = 0
    /\ stopped = FALSE
    /\ exit = "no"
    /\ bursts = [id \in {} |-> NewBurst]

Go(a, from, to) == pc[a] = from /\ pc' = [pc EXCEPT ![a] = to]

-----------------------------------------------------------------------------
\* serverSession.start, run by path 0's handler, as its writes appear to a
\* goroutine that does not take the session's mutex.
SetTracker ==
    /\ start = "none" /\ start' = "tracker"
    /\ UNCHANGED <<hvars, pc, batch, snap, burstLog, file, stopped, exit, bursts>>

SetChannel ==
    /\ start = "tracker" /\ start' = "channel"
    /\ UNCHANGED <<hvars, pc, batch, snap, burstLog, file, stopped, exit, bursts>>

Ready ==
    /\ start = "channel" /\ start' = "ready"
    /\ wg' = wg + NumPaths
    /\ pc' = [pc EXCEPT !["sweep"] = "select", !["waiter"] = "wait"]
    /\ UNCHANGED <<hpc, chunks, last, batch, snap, burstLog, file, stopped, exit, bursts>>

\* handleConn: waitReady, the read loop, pathDone.
Join(p) ==
    /\ start = "ready" /\ hpc[p] = "wait"
    /\ hpc' = [hpc EXCEPT ![p] = "read"]
    /\ UNCHANGED <<start, wg, chunks, last, pc, batch, snap, burstLog, file,
                   stopped, exit, bursts>>

ReadChunk(p) ==
    /\ hpc[p] = "read"
    /\ \E f \in Frames, corrupt \in BOOLEAN :
          /\ f > last[p]
          /\ corrupt => "corrupt" \in Faults
          /\ last' = [last EXCEPT ![p] = f]
          /\ Write(BurstOf(f), SeqOf(f), corrupt, p)
    /\ chunks' = [chunks EXCEPT ![p] = @ + 1]
    /\ UNCHANGED <<start, wg, hpc, pc, batch, snap, burstLog, file, stopped, exit>>

PathDone(p) ==
    /\ hpc[p] = "read"
    /\ hpc' = [hpc EXCEPT ![p] = "done"]
    /\ wg' = wg - 1
    /\ UNCHANGED <<start, chunks, last, pc, batch, snap, burstLog, file,
                   stopped, exit, bursts>>

Idle(id) ==
    /\ GoIdle(id)
    /\ UNCHANGED <<start, hvars, pc, batch, snap, burstLog, file, stopped, exit>>

-----------------------------------------------------------------------------
\* recordBursts(stats), run by agent a.  It returns at once for no bursts.

Return(a) == CASE a = "sweep" -> "select" [] a = "waiter" -> "done" [] a = "signal" -> "done"

Take(a, from, ids) ==
    /\ Go(a, from, IF ids = {} THEN Return(a) ELSE "record")
    /\ batch' = [batch EXCEPT ![a] = {Stats(id) : id \in ids}]
    /\ Forget(ids)
    /\ UNCHANGED <<start, hvars, snap, burstLog, file, stopped, exit>>

\* The batch is in the map's iteration order, which is any order.
AddRow(a) ==
    /\ pc[a] = "record"
    /\ \E s \in batch[a] :
          /\ burstLog' = Append(burstLog, s)
          /\ batch' = [batch EXCEPT ![a] = @ \ {s}]
    /\ UNCHANGED <<start, hvars, pc, snap, file, stopped, exit, bursts>>

Snapshot(a) ==
    /\ batch[a] = {}
    /\ Go(a, "record", "create")
    /\ snap' = [snap EXCEPT ![a] = Len(burstLog)]
    /\ UNCHANGED <<start, hvars, batch, burstLog, file, stopped, exit, bursts>>

CreateFile(a) ==
    /\ Go(a, "create", "write")
    /\ file' = 0
    /\ UNCHANGED <<start, hvars, batch, snap, burstLog, stopped, exit, bursts>>

WriteFile(a) ==
    /\ Go(a, "write", Return(a))
    /\ file' = Max({file, snap[a]})
    /\ snap' = [snap EXCEPT ![a] = 0]
    /\ UNCHANGED <<start, hvars, batch, burstLog, stopped, exit, bursts>>

-----------------------------------------------------------------------------
\* burstSweepLoop.  A tick that finds no idle burst changes nothing.
SweepTick == Expired # {} /\ Take("sweep", "select", Expired)

SweepStop ==
    /\ stopped
    /\ Go("sweep", "select", "done")
    /\ UNCHANGED <<start, hvars, batch, snap, burstLog, file, stopped, exit, bursts>>

WaitDone ==
    /\ wg = 0
    /\ Go("waiter", "wait", "check")
    /\ UNCHANGED <<start, hvars, batch, snap, burstLog, file, stopped, exit, bursts>>

\* SIGINT or SIGTERM arrives, at any time.
Interrupt ==
    /\ "signal" \in Faults
    /\ Go("signal", "off", "check")
    /\ UNCHANGED <<start, hvars, batch, snap, burstLog, file, stopped, exit, bursts>>

\* shutdownContinuous, called by a.
CheckTracker(a) ==
    /\ Go(a, "check", IF start = "none" THEN "done" ELSE "close")
    /\ UNCHANGED <<start, hvars, batch, snap, burstLog, file, stopped, exit, bursts>>

\* Bug: the second caller returns here, as if the Once covered the flush too.
CloseSweep_OnceForAll(a) ==
    /\ start # "tracker"
    /\ Go(a, "close", IF stopped THEN "done" ELSE "flush")
    /\ stopped' = TRUE
    /\ UNCHANGED <<start, hvars, batch, snap, burstLog, file, exit, bursts>>

CloseSweep_NotClosed(a) ==               \* bug: nobody closes stopSweep
    /\ Go(a, "close", "flush")
    /\ UNCHANGED <<start, hvars, batch, snap, burstLog, file, stopped, exit, bursts>>

\* stopSweepOne.Do: the channel is closed once.  While start has set the
\* tracker but not yet the channel, this closes a nil channel and panics.
CloseSweep(a) ==
    /\ \/ /\ start # "tracker"
          /\ Go(a, "close", "flush")
          /\ stopped' = TRUE
          /\ UNCHANGED exit
       \/ /\ start = "tracker" /\ pc[a] = "close"
          /\ exit' = "panic"
          /\ UNCHANGED <<pc, stopped>>
    /\ UNCHANGED <<start, hvars, batch, snap, burstLog, file, bursts>>

Flush_OnlyIdle(a) == Take(a, "flush", Expired)        \* bug: Expire, not ExpireAll

Flush(a) == Take(a, "flush", DOMAIN bursts)

\* os.Exit(0) stops every goroutine where it stands.
ProcessExit ==
    /\ pc["signal"] = "done"
    /\ exit' = "clean"
    /\ UNCHANGED <<start, hvars, pc, batch, snap, burstLog, file, stopped, bursts>>

-----------------------------------------------------------------------------
StartStep == SetTracker \/ SetChannel \/ Ready
HandlerStep(p) == Join(p) \/ ReadChunk(p) \/ PathDone(p)
Record(a) == AddRow(a) \/ Snapshot(a) \/ CreateFile(a) \/ WriteFile(a)
Shutdown(a) == CheckTracker(a) \/ CloseSweep(a) \/ Flush(a)

Next ==
    /\ exit = "no"
    /\ \/ StartStep
       \/ \E p \in Paths : HandlerStep(p)
       \/ \E id \in 1..NumBursts : Idle(id)
       \/ SweepTick \/ SweepStop \/ WaitDone \/ Interrupt \/ ProcessExit
       \/ \E a \in Agents : Record(a)
       \/ \E a \in Callers : Shutdown(a)

Spec == Init /\ [][Next]_cvars

Alive(A) == exit = "no" /\ A

\* Goroutines run, the ticker ticks, an untouched burst's ttl passes, and a
\* select with two ready cases does not prefer the tick for ever (SF).
Fairness ==
    /\ \A id \in 1..NumBursts : WF_cvars(Alive(Idle(id)))
    /\ WF_cvars(Alive(SweepTick))
    /\ SF_cvars(Alive(SweepStop))
    /\ WF_cvars(Alive(WaitDone)) /\ WF_cvars(Alive(ProcessExit))
    /\ \A a \in Agents : WF_cvars(Alive(Record(a)))
    /\ \A a \in Callers : WF_cvars(Alive(Shutdown(a)))

FairSpec == Spec /\ Fairness

-----------------------------------------------------------------------------
Row == [id : 1..NumBursts, bytesReceived : 0..TotalSize, chunks : Nat,
        corrupted : Nat, complete : BOOLEAN,
        perPath : [Paths -> [bytesReceived : 0..TotalSize, chunks : Nat, corrupted : Nat]]]

ContinuousTypeOK ==
    /\ DOMAIN bursts \subseteq 1..NumBursts
    /\ wg \in 0..NumPaths
    /\ hpc \in [Paths -> {"wait", "read", "done"}]
    /\ \A i \in 1..Len(burstLog) : burstLog[i] \in Row
    /\ \A a \in Agents : batch[a] \subseteq Row /\ snap[a] \in 0..Len(burstLog)
    /\ file \in 0..Len(burstLog)

\* The chunks of path p that some rows, the log, the reporting goroutines and
\* the tracker account for.
InRows(p, rows) == SumOver(rows, [s \in rows |-> s.perPath[p].chunks])
InLog(p) ==
    SumOver(1..Len(burstLog), [i \in 1..Len(burstLog) |-> burstLog[i].perPath[p].chunks])
InHands(p) == SumOver(Agents, [a \in Agents |-> InRows(p, batch[a])])
InTracker(p) ==
    SumOver(DOMAIN bursts, [id \in DOMAIN bursts |-> bursts[id].perPath[p].chunks])

\* Every chunk a handler counted is in exactly one place: in the tracker, in
\* the hands of a goroutine that is recording it, or in the log.  No race of
\* sweep, waiter and signal handler loses one or reports it twice.
EveryArrivalAccounted ==
    \A p \in Paths : chunks[p] = InTracker(p) + InHands(p) + InLog(p)

SumPaths(perPath) == SumOver(Paths, [p \in Paths |-> perPath[p].bytesReceived])
BytesOf(seqs) == SumOver(seqs, [c \in seqs |-> ChunkLen(c)])

\* TestBurstTrackerPerPathBreakdown and ...DuplicateWritesDontDoubleCount for
\* every history: a byte of a burst is credited once and to one path, so
\* Complete means every chunk of the burst arrived intact since the burst was
\* last reported, and the per-path rows add up.
BytesCreditedOnce ==
    /\ \A id \in DOMAIN bursts :
          /\ bursts[id].bytesReceived = SumPaths(bursts[id].perPath)
          /\ bursts[id].bytesReceived = BytesOf(bursts[id].seen)
    /\ \A i \in 1..Len(burstLog) :
          /\ burstLog[i].bytesReceived = SumPaths(burstLog[i].perPath)
          /\ burstLog[i].complete <=> burstLog[i].bytesReceived = TotalSize

\* shutdownContinuous "force-flushes every remaining burst": when the waiter's
\* call has returned the tracker is empty for good, also if the signal
\* handler's call came first and handlers went on writing after it.
NothingLeftBehind == pc["waiter"] = "done" => DOMAIN bursts = {}

\* NewBurstTracker's comment: a burst that never completes can't accumulate
\* state forever; the sweep removes it.
BurstsDontLinger ==
    \A id \in 1..NumBursts :
        (id \in DOMAIN bursts) ~> (id \notin DOMAIN bursts \/ exit # "no")

\* The sweep goroutine of a finished session ends, whatever order its last
\* ticks and the closing of stopSweep come in.
SweepEnds == (pc["waiter"] = "done") ~> (pc["sweep"] = "done" \/ exit # "no")

\* Once all paths have ended, every chunk they ever counted is reported in
\* the log, unless the process is stopped first.
EveryArrivalReported ==
    (start = "ready" /\ wg = 0)
        ~> (exit # "no" \/ \A p \in Paths : chunks[p] = InLog(p))

-----------------------------------------------------------------------------
\* A statement of the documents that the code does not keep.

\* main's comment (main.go:55-58): the signal handler is the "graceful path"
\* of an operator who stops the server.  It never crashes the process.
ShutsDownGracefully == exit # "panic"
=============================================================================
