-------------------------- MODULE ContinuousClient --------------------------
(***************************************************************************)
(* The client in continuous mode (cmd/client/main.go): runContinuous sends *)
(* a burst at once and then one per tick until it is told to stop; main    *)
(* then stops the RTT samplers, drains the paths, writes the RTT file and  *)
(* exits.  Every burst is one call of sendChunks, with queues and writers  *)
(* of its own on the connections and counters of the session.              *)
(*                                                                         *)
(* Concurrent actors: main, a writer and later a drain goroutine per path, *)
(* one RTT sampler per path, the ticker, the user and the clock.  Init is  *)
(* after the preambles, which Client.tla has.  The server's end reads and  *)
(* acks (ServerSession, ContinuousSession); here it is part of the         *)
(* environment.                                                            *)
(*                                                                         *)
(* cpc is main: "burst" (calling sendBurst), "send" (in sendChunks),       *)
(* "ticker" (creating it), "select", "stop", "rtt" (rttWG.Wait), "drain",  *)
(* "files" (RTT log copied, being written), "exit", "panic".               *)
(*                                                                         *)
(* Left out: the text of the files, and a second interrupt while main      *)
(* drains, which kills the process (signal.Stop restored the default).     *)
(***************************************************************************)
EXTENDS SendChunks, FiniteSetsExt, Sums

CONSTANTS MinSize, MaxSize,     \* -burst-min-size, -burst-max-size
          ChunkSize,            \* -chunk-size
          Intervals,            \* values of -burst-interval: 0, or not
          MaxBursts,            \* bound: bursts of the session
          MaxSamples            \* bound: a path's RTT samples from then on that
                                \* runContinuous has returned

\* main refuses other burst sizes.
ASSUME BurstAssumption ==
    /\ MinSize \in Nat \ {0} /\ MaxSize \in Nat /\ MaxSize >= MinSize
    /\ ChunkSize \in Nat \ {0} /\ Intervals \subseteq Nat
    /\ MaxBursts \in Nat \ {0} /\ MaxSamples \in Nat

VARIABLES cpc,
          interval,
          told,         \* a signal is in sigCh, or the duration is over
          burstID,
          size,         \* bytes of the burst being sent
          before,       \* snapshotSentPerPath before the burst
          burstLog,     \* one element per burst: its aggregate and path rows
          wrote,        \* per path: every frame written, <<burst, seq>>
          sampler,      \* per path: "run" (in its select), "add" (past a tick), "done"
          samples,      \* per path: its rows in rttLog since runContinuous returned
          rttFile       \* the same in the copy that goes to client-rtt.csv

runvars == <<cpc, interval, told, burstID, size, before, burstLog>>
rttvars == <<sampler, samples, rttFile>>
vars == <<runvars, wrote, rttvars, sendvars, qvars>>

NoFile == [p \in Paths |-> -1]

Init ==
    /\ SendInit
    /\ cpc = "burst"
    /\ interval \in Intervals
    /\ told = FALSE
    /\ burstID = 0 /\ size = 0
    /\ before = [p \in Paths |-> [bytes |-> 0, chunks |-> 0]]
    /\ burstLog = << >>
    /\ wrote = [p \in Paths |-> << >>]
    /\ sampler = [p \in Paths |-> "run"]
    /\ samples = [p \in Paths |-> 0]
    /\ rttFile = NoFile
    /\ preamble = [p \in Paths |-> "read"]
    /\ up = [p \in Paths |-> << >>]
    /\ fin = [p \in Paths |-> FALSE]
    /\ ack = [p \in Paths |-> FALSE]
    /\ cUp = [p \in Paths |-> TRUE]
    /\ sUp = [p \in Paths |-> TRUE]

\* main moves on, and nothing else changes.
Goto(from, to) ==
    /\ cpc = from /\ cpc' = to
    /\ UNCHANGED <<interval, told, burstID, size, before, burstLog, wrote,
                   rttvars, sendvars, qvars>>

-----------------------------------------------------------------------------
\* sendBurst

\* Split of the current burst: its number of chunks, and the bytes of one.
Count(bytes) == (bytes + ChunkSize - 1) \div ChunkSize
ChunkLen(bytes, seq) == Min({ChunkSize, bytes - seq * ChunkSize})

SnapshotSent == [p \in Paths |-> [bytes |-> bytesSent[p], chunks |-> chunksSent[p]]]

\* Bug: burstID++ is missing.
NewBurstID_Stuck == 1

NewBurstID == burstID + 1

\* What main does after sendBurst: the first time it creates the ticker.
AfterBurst(id) == IF id = 1 THEN "ticker" ELSE "select"

\* sendChunks makes queues and starts writers of its own.
StartBurst ==
    /\ cpc = "burst"
    /\ cpc' = "send"
    /\ burstID' = NewBurstID
    /\ size' \in MinSize..MaxSize
    /\ before' = SnapshotSent
    /\ next' = 0 /\ targets' = << >> /\ qClosed' = FALSE
    /\ queue' = [p \in Paths |-> << >>] /\ writers' = Paths
    /\ UNCHANGED <<interval, told, burstLog, wrote, rttvars, sched, n,
                   cur, countvars, drain, qvars>>

\* GenerateRandomPayload fails: no burst and no row, but its number is used.
SkipBurst ==
    /\ cpc = "burst"
    /\ cpc' = AfterBurst(NewBurstID)
    /\ burstID' = NewBurstID
    /\ UNCHANGED <<interval, told, size, before, burstLog, wrote, rttvars,
                   sendvars, qvars>>

Dispatching ==
    /\ cpc = "send"
    /\ Dispatch(Count(size))
    /\ UNCHANGED <<runvars, wrote, rttvars>>

PathRow(p) ==
    LET bytes == bytesSent[p] - before[p].bytes
    IN  [bytes |-> bytes, chunks |-> chunksSent[p] - before[p].chunks,
         complete |-> bytes = size]

Row ==
    LET sent == SumOver(Paths, [p \in Paths |-> bytesSent[p] - before[p].bytes])
    IN  [id |-> burstID, size |-> size, bytes |-> sent, complete |-> sent = size,
         perPath |-> [p \in Paths |-> PathRow(p)]]

\* sendChunks returns; the rows are logged and bursts.csv is rewritten with
\* the whole log by the only goroutine that uses it.
FinishBurst ==
    /\ cpc = "send" /\ WritersDone
    /\ burstLog' = Append(burstLog, Row)
    /\ cpc' = AfterBurst(burstID)
    /\ UNCHANGED <<interval, told, burstID, size, before, wrote, rttvars,
                   sendvars, qvars>>

WriterStep(p) ==
    /\ \/ TakeChunk(p) /\ UNCHANGED wrote
       \/ WriteFails(p) /\ UNCHANGED wrote
       \/ WriterReturns(p) /\ UNCHANGED wrote
       \/ /\ WriteChunk(p, <<burstID, cur[p]>>, ChunkLen(size, cur[p]))
          /\ wrote' = [wrote EXCEPT ![p] = Append(@, <<burstID, cur[p]>>)]
    /\ UNCHANGED <<runvars, rttvars>>

-----------------------------------------------------------------------------
\* runContinuous

\* time.NewTicker panics if the interval is not positive; main's deferred
\* function still closes the connections.
NewTicker ==
    /\ cpc = "ticker"
    /\ \/ interval # 0 /\ cpc' = "select" /\ UNCHANGED qvars
       \/ interval = 0 /\ cpc' = "panic" /\ ClientCloseAll
    /\ UNCHANGED <<interval, told, burstID, size, before, burstLog, wrote,
                   rttvars, sendvars>>

\* SIGINT, SIGTERM, or the end of the duration, once runContinuous is called.
ToldToStop ==
    /\ cpc \in {"burst", "send", "ticker", "select"} /\ ~told
    /\ told' = TRUE
    /\ UNCHANGED <<cpc, interval, burstID, size, before, burstLog, wrote,
                   rttvars, sendvars, qvars>>

\* The select, which takes any ready case.  The ticker's channel holds at most
\* one tick, so a late burst is followed by one tick at once, not by all missed.
SelectTick == burstID < MaxBursts /\ Goto("select", "burst")

SelectStop == told /\ Goto("select", "stop")

-----------------------------------------------------------------------------
\* main after runContinuous

StopRTT == Goto("stop", "rtt")

\* Bug: main does not wait for the samplers.
RTTWait_Skipped == Goto("rtt", "drain")

\* rttWG.Wait()
RTTWait == (\A p \in Paths : sampler[p] = "done") /\ Goto("rtt", "drain")

DrainStep(p) ==
    /\ cpc = "drain"
    /\ DrainClose(p) \/ DrainAcked(p) \/ DrainFails(p)
    /\ UNCHANGED <<runvars, wrote, rttvars>>

\* rttLog.Snapshot()
SnapshotRTT ==
    /\ Drained
    /\ cpc = "drain" /\ cpc' = "files"
    /\ rttFile' = samples
    /\ UNCHANGED <<interval, told, burstID, size, before, burstLog, wrote,
                   sampler, samples, sendvars, qvars>>

\* The copy has been written to the file, and main returns.
Exit ==
    /\ cpc = "files" /\ cpc' = "exit"
    /\ ClientCloseAll
    /\ UNCHANGED <<interval, told, burstID, size, before, burstLog, wrote,
                   rttvars, sendvars>>

-----------------------------------------------------------------------------
\* sampleRTT of path p: a sample per tick until stopRTT, and after it while the
\* select prefers the tick.  The samples counted are those the end of the run
\* races with; the others are in the log before.

Ended == cpc \in {"exit", "panic"}

SamplerStep(p, from, to) ==
    /\ sampler[p] = from /\ sampler' = [sampler EXCEPT ![p] = to]
    /\ UNCHANGED <<runvars, wrote, rttFile, sendvars, qvars>>

SampleTick(p) ==
    /\ cpc \in {"stop", "rtt", "drain", "files"} /\ samples[p] < MaxSamples
    /\ SamplerStep(p, "run", "add") /\ UNCHANGED samples

\* rttLog.Add
AddSample(p) ==
    /\ SamplerStep(p, "add", "run")
    /\ samples' = [samples EXCEPT ![p] = @ + 1]

SamplerDone(p) ==
    /\ cpc \in {"rtt", "drain", "files"}
    /\ SamplerStep(p, "run", "done") /\ UNCHANGED samples

-----------------------------------------------------------------------------
\* The server's handler of path p and the network.
PeerStep(p) ==
    /\ \/ ReceiveChunk(p)
       \/ AtEOF(p) /\ ~ack[p] /\ SendAck(p)
    /\ UNCHANGED <<runvars, wrote, rttvars, sendvars>>

NetworkStep(p) == Network(p) /\ UNCHANGED <<runvars, wrote, rttvars, sendvars>>

MainStep ==
    \/ StartBurst \/ SkipBurst \/ Dispatching \/ FinishBurst \/ NewTicker
    \/ StopRTT \/ RTTWait \/ SnapshotRTT \/ Exit

Next ==
    /\ ~Ended
    /\ \/ MainStep \/ SelectTick \/ SelectStop \/ ToldToStop
       \/ \E p \in Paths :
             \/ WriterStep(p) \/ DrainStep(p) \/ PeerStep(p) \/ NetworkStep(p)
             \/ SampleTick(p) \/ AddSample(p) \/ SamplerDone(p)

Spec == Init /\ [][Next]_vars

Running(A) == ~Ended /\ A

\* Goroutines run, the server reads what arrives, a connection that lost its
\* peer times out, and a select that can stop does not take the tick for ever.
\* Nothing makes the user interrupt or a path fail.
Fairness ==
    /\ WF_vars(Running(MainStep)) /\ SF_vars(Running(SelectStop))
    /\ \A p \in Paths :
          /\ WF_vars(Running(WriterStep(p))) /\ WF_vars(Running(DrainStep(p)))
          /\ WF_vars(Running(AddSample(p) \/ SamplerDone(p)))
          /\ WF_vars(Running(PeerStep(p)))
          /\ WF_vars(Running(ClientTornDown(p) /\ NetworkStep(p)))

FairSpec == Spec /\ Fairness

-----------------------------------------------------------------------------
ClientTypeOK ==
    /\ SendTypeOK(Count(MaxSize) - 1)
    /\ burstID \in 0..MaxBursts /\ Len(burstLog) <= burstID
    /\ size \in {0} \cup MinSize..MaxSize
    /\ told \in BOOLEAN
    /\ sampler \in [Paths -> {"run", "add", "done"}]
    /\ samples \in [Paths -> 0..MaxSamples]

Written(p, id) == {i \in DOMAIN wrote[p] : wrote[p][i][1] = id}
WrittenSeqs(p, id) == {wrote[p][i][2] : i \in Written(p, id)}
AllSeqs(bytes) == 0..(Count(bytes) - 1)

\* The rows of bursts.csv are exact although all bursts share the counters of
\* the paths: a burst's row for a path counts the frames of this burst written
\* there, no chunk of another burst is counted with it, the aggregate is the
\* sum of its path rows, and between bursts the rows account for every byte
\* sent.
RowsExact ==
    /\ \A i \in DOMAIN burstLog :
          LET r == burstLog[i]
          IN  /\ \A p \in Paths : r.perPath[p].chunks = Cardinality(Written(p, r.id))
              /\ r.bytes = SumOver(Paths, [p \in Paths |-> r.perPath[p].bytes])
    /\ cpc # "send" => \A p \in Paths :
          bytesSent[p] = SumOver(DOMAIN burstLog,
                                 [i \in DOMAIN burstLog |-> burstLog[i].perPath[p].bytes])

\* A path's row says complete exactly if the whole burst was written on it;
\* the aggregate row does if every chunk was written somewhere, as long as the
\* scheduler sends a chunk once.  (With "redundant" the copies are counted,
\* and the flag means nothing.)
CompleteIsExact ==
    \A i \in DOMAIN burstLog :
        LET r == burstLog[i]
        IN  /\ \A p \in Paths :
                  r.perPath[p].complete <=> WrittenSeqs(p, r.id) = AllSeqs(r.size)
            /\ sched # "redundant" =>
                  (r.complete <=> UNION {WrittenSeqs(p, r.id) : p \in Paths} = AllSeqs(r.size))

\* What ContinuousSession assumes of its peer: a path carries its frames burst
\* after burst and in the order of their numbers, none twice, although each
\* burst has writers of its own.
InBurstOrder ==
    \A p \in Paths : \A i, j \in DOMAIN wrote[p] : i < j =>
        \/ wrote[p][i][1] < wrote[p][j][1]
        \/ wrote[p][i][1] = wrote[p][j][1] /\ wrote[p][i][2] < wrote[p][j][2]

\* README: on Ctrl+C "in-flight bursts finish, then paths drain and close".
\* So a path's ack, once read, is about the whole session: the server has read
\* every frame that any burst wrote on the path, the log has a row for each of
\* them, and no writer is left that could put one behind the FIN.
AckEndsTheSession ==
    \A p \in Paths : drain[p] = "acked" =>
        /\ up[p] = << >> /\ queue[p] = << >> /\ cur[p] = NoChunk
        /\ \A i \in DOMAIN wrote[p] : \E j \in DOMAIN burstLog :
              burstLog[j].id = wrote[p][i][1]

\* When the client has ended, no sample was added to the log after the copy
\* for the RTT file was made, also not by a sampler that was past its tick
\* when it was told to stop.
RTTFileComplete == cpc = "exit" => rttFile = samples

\* Ctrl+C or the end of -duration ends the client, whatever happens to the
\* paths, however full the queues are and whatever the ticker does.
StopsWhenTold == told ~> Ended
=============================================================================
