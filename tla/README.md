# mpquic-experiment in TLA+

TLA+ models of the multipath transfer program in this repository, the TLC runs
that check them on small instances, and TLAPS proofs for the parts where the
argument does not depend on the size of the instance. Paths below are relative
to the repository's root.

## The system

A client (`cmd/client/main.go`) opens one QUIC connection, with one stream, per
local address ("path"), cuts a random payload into chunks, lets a scheduler
choose the path or paths of each chunk, and writes every chunk as a
checksummed frame on its path's stream. The server (`cmd/server/main.go`) has
one `handleConn` goroutine per connection; the handlers of one transfer find
their common `serverSession` through a registry, place the chunks in a
`Reassembler`, and the last one to finish releases a goroutine that writes the
result with its verdict `integrity_ok`.

| component | state | operations | interacts through |
|---|---|---|---|
| chunks, `Reassembler` (`internal/transfer/chunk.go`) | buffer, received flags, two counters, a mutex | `Split`, `Write`, `Complete` | called by every handler of a session |
| schedulers (`internal/scheduler`) | a round-robin counter | `Assign` | called by the client's dispatcher with the RTTs of the moment |
| client, one-shot | bounded queue per path, bytes/chunks sent | dial, preambles, dispatch, write, drain, exit | channels, WaitGroups, streams |
| server session, one-shot | WaitGroup, `ready` channel, rows, delivery log | `getOrCreate`, `start`, `waitReady`, read loop, `pathDone`, `finalize` | mutexes, WaitGroup, streams |
| continuous mode, `BurstTracker` (`burst.go`) | per-burst counters, sweep goroutine, CSV file | `Write`, `Expire`, `ExpireAll`, `recordBursts`, `shutdownContinuous` | mutexes, signal handler, file |
| client, continuous (`runContinuous`) | burst number, burst log, ticker, RTT samplers | `sendBurst`, select, stop, drain | as one-shot, plus signal, timer, context |
| preambles and frames (`session.go`, `chunk.go`) | none | encode, decode | streams |
| metrics | append-only sample logs, progress printer | add, snapshot, write files, `Update`, `Close` | mutex, a channel of capacity one |
| congestion control registry, template (`internal/ccmodules`) | window, `inRecovery` | `Register`, `Get`, callbacks | called by quic-go for every packet |
| TLS config | none | | |
| quic-go (vendored) | connections, streams | | |

What is hard here: a PathHello may overtake the control header; handlers,
writers, drain goroutines and timers interleave freely; either end may lose a
connection at any step, and the two ends notice at different times; closing a
connection abandons what is in flight; the redundant scheduler delivers every
chunk several times; the bounded queues couple paths that are meant to be
independent; the verdict is computed by a goroutine that never looks at the
handlers it depends on. `PROJECT.json` lists these hazards at their lines.

## Modules

| module | models | built on |
|---|---|---|
| `PathSet` | the path numbers `0..NumPaths-1` | |
| `Chunk` | `Split`: sequence numbers, offsets and lengths of a payload's chunks | |
| `Reassembler` | `Reassembler.Write`, `Complete` | `Chunk` |
| `QuicPath` | what the program relies on in quic-go (external): ordered streams with a window, FIN, ack byte, each end losing the connection on its own | `PathSet` |
| `Scheduler`, `SchedulerSpec` | `Assign` of the three schedulers; a scheduler over its life with RTTs changing between calls | `PathSet` |
| `SendChunks` | `sendChunks` (dispatcher, bounded queues, path writers, WaitGroup) and `drainPaths`, which both modes of the client use | `QuicPath`, `Scheduler` |
| `Client` | one-shot `main`: dial, preambles, one batch, drain, exit | `Chunk`, `SendChunks` |
| `ServerSession` | the handlers of one one-shot session, the registry entry, the WaitGroup and `finalize` | `QuicPath`, `Reassembler` |
| `IntegrityVerdict` | abstract: what `integrity_ok` promises | |
| `OneShot` | client, connections and session together | `Client`, `ServerSession` |
| `BurstTracker` | `Write`, `Expire`, `ExpireAll` | `Chunk`, `PathSet` |
| `ContinuousSession` | one continuous session: handlers, sweep loop, waiter, signal handler, `recordBursts` and the file it rewrites | `BurstTracker` |
| `ContinuousClient` | `runContinuous` and what `main` does after it: bursts, ticker, stop conditions, burst rows, RTT samplers and file | `SendChunks` |
| `WireFormat` | the fields of preambles and chunk frames as written and as read, with their widths | `Sums` |
| `PathStream` | one path from the flags to `ReadChunk`: `Split`, the preamble, frames written and read field by field, the sizes the server works out | `WireFormat` |
| `CCModules` | the registry of congestion controllers, `expandCC`, the fixed window; cubic as external | `PathSet` |
| `ProgressPrinter` | `Update`, `Close` and the printing loop | |
| `SendPath` | path writers over congestion-controlled packets that may be lost, feeding the progress printer | `CCModules`, `ProgressPrinter` |
| `Sums` | the sum of a function over a finite set, used by the properties | |
| `Counting` | lemmas: division, runs of numbers, sums and how they change, minima, sequences | `Sums` |
| `ServerSessionProofs` (with the reassembler's), `SchedulerProofs`, `OneShotProofs`, `ContinuousSessionProofs`, `ContinuousClientProofs`, `SendPathProofs`, `PathStreamProofs` | theorems about the module in their name | `Counting` |

`MC*.tla` and `MC*.cfg` are the TLC instances. `PROJECT.json` maps every
definition to its lines.

State and steps. A goroutine is a program counter (`hpc[p]` for the handler of
path `p`, `cpc` for the client's main, `drain[p]`, `pc[a]` for the reporting
goroutines of a continuous session); the header comment of each module lists the
values and the place in the code each stands for. A step is what the code does between two
points at which another goroutine can see a difference: a critical section, a
channel operation, a stream operation. `wg` is the WaitGroup's counter,
`queue[p]` a Go channel of capacity `QueueCap`, `up[p]` the frames a stream
holds. In `ServerSession`, `pathDone` is two steps because `wg.Done` comes after
the unlock, and placing a chunk and logging it are two steps because each takes
its own lock. `writers` is the set of path writers that have not called `wg.Done`:
the client's `wg.Wait` waits for it to be empty, and a writer whose write failed
goes on taking chunks from its queue. In `ContinuousClient` a sampler's tick and the
`Add` that follows it are two steps, as are the copy of the log and the writing of
the file. In `ContinuousSession`, `start` is three steps because the signal
handler does not take the session's lock; `recordBursts` is one step per row, one
for the snapshot, one for `os.Create` and one for the flush.

Data. A payload is a function from offsets to pairwise different bytes, so a
misplaced byte shows. A checksum is a choice of the reader ("corrupt"). Time is
a choice: a timer that may fire is an enabled action; a burst is idle or not.
A frame is one stream element, except in `PathStream`, where a stream is bytes:
there a byte has `Base` values and a `uint32` is `W32` bytes long, so "4 GiB" is
`Room[W32]` = 4. `FramesFaithful` is what allows the other modules to
take a frame for one element. `SendPath` has neither scheduler nor connection loss: each path is
given its share of the chunks, and what is modelled is when their bytes leave,
arrive and are counted. `bursts.csv` is the number of leading rows of
`burstLog` it holds: rows are only appended, so any snapshot is a prefix. A
snapshot is taken to reach the file in one write; the buffered writer splits
files over 4 KiB, which only adds ways to leave a short file.

## Runs

| run | instance | shows |
|---|---|---|
| `parts` | 3 paths, all three schedulers, RTT unknown/fast/slow, 3 chunks per path; 13 bytes in chunks of 2 | the scheduler and the reassembler, which share nothing, side by side: round-robin and the rtt-aware fallback stay level within one chunk, rtt-aware never uses a path known to be slower; in all orders and repetitions of 7 chunks, the last one short, counters, buffer and completeness agree |
| `server_session` | 2 paths, 3 bytes in 2 chunks, loss, corruption, `waitReady` timeout | WaitGroup, rows, delivery log and verdict are exact against any client; the session implements `IntegrityVerdict` |
| `oneshot` | the same sizes, redundant and rtt-aware with any RTTs, every fault | an ack read by the client proves that the server counted exactly what the path's writer sent; all acks mean a complete transfer; with redundant one good path is enough; the client satisfies the environment `ServerSession` assumes (`ClientIsAProperPeer`), so its theorems apply to the composition |
| `oneshot_clean` | 7 bytes in 4 chunks, every scheduler with any RTTs, queues of 2, windows of 1, no faults | the transfer always succeeds and the client never closes before it is acked |
| `oneshot_live` | redundant, 3 chunks on each of 2 paths, queues of 1, windows of 1, every fault but corruption (no handler stops for one) | full queues and blocked writes never keep the client from ending, also when a path dies with chunks queued for it; a session whose paths all joined always reports |
| `continuous` | 2 paths, one burst of 2 chunks, corruption, signal | every counted chunk is in exactly one of tracker, a goroutine's hands, and log; bytes are credited once in each report; nothing stays behind |
| `cont_live` | the same, signal only | idle bursts leave the tracker, the sweep goroutine ends, everything is reported |
| `wire` | payloads of 0 to 8 bytes (a `uint32` ends at 3) and two bursts, chunk sizes 0 to 6, path 0 and another path | the server reads exactly the preamble and the chunks written; a clean EOF is reached only after every chunk of the path, and a handler that fails or panics does so because the connection died or for the sizes the observations name; `Split` and `NewReassembler`, which compute the chunks independently, agree also where sizes are truncated; every transfer ends except the one the observations name |
| `contclient` | 2 paths, 2 bursts of 2 or 3 bytes, round-robin and redundant, interval zero or not, loss, drain timeout | rows of `bursts.csv` are exact and `complete` means what it says; frames are in the order `ContinuousSession` assumes; an ack the client reads covers every frame of every burst, and no writer is left to add one; no sample misses the RTT file; Ctrl+C ends the client |
| `sendpath` | 2 paths, fixed/fixed and cubic/fixed and two bad `-cc` lists, 1 or 3 chunks a path, window of one datagram, 2 losses | bytes in flight stay within a datagram of the window; the counters are ahead of the receiver by at most a window and two datagrams; the progress only grows; losses never stop a path; bad lists end the client |
| `oneshot_noreport` | 3 bytes, loss and `waitReady` timeout | a statement of the documentation that the code does not keep (below) |
| `cont_panic` | as `continuous`, with a signal only | another one (below) |

Bounds. Two paths are the smallest number with a race, and all hazards found are
between two paths or between a path and a session-wide goroutine; three are used
where a tie needs a third (schedulers). Two chunks with a short last one give
loss, duplication, reordering across paths and the length edge; `Window = 1` and
`QueueCap = 1` make every queue full as early as possible. In `oneshot_live` three
chunks on a path are the fewest that fill it: one in the stream, whose
window is then used up, one held by the writer that blocks, one in the queue; with
`redundant` both paths fill, and the dispatcher blocks on one while the other
drains. `MaxPerPath` bounds the chunks a free client sends on a path (2: one more than a path's fair share,
so duplicates occur), `MaxChunks` the chunks a scheduler places, `NumBursts` the
bursts of a continuous client. One burst is enough to race the reporting
goroutines, as it can be reported, start again and be reported again, once per
chunk and path. In `wire` the sizes go from zero past twice the width of a
`uint32`, so that every combination of truncated and not truncated sizes occurs;
`Buffer` lets a write block inside a frame; `MaxChunks` stands for the memory a
`Split` that never ends uses up. In `contclient` two bursts are the fewest that
share counters; `MaxSamples` bounds the RTT samples taken after `runContinuous`
returned, the only ones that race the file. In `sendpath` a packet holds two
bytes beside its header and a frame three, so packets differ in size and two
can be in flight and overtake each other; three frames are more than a window
and two datagrams; `MaxLosses` bounds the packets declared lost. Deadlock
checking is off only for `server_session` (a client may stay away for ever), the
continuous runs and `contclient` (the process exits), `wire` (the connection
ends) and `sendpath` (nothing is left to send).

Fairness. Weak fairness of each goroutine's steps: the Go scheduler runs a
runnable goroutine. Weak fairness of timers and of `ServerTornDown` /
`ClientTornDown`: deadlines fire, and quic-go's idle timeout ends a connection
whose peer is gone. Nothing is assumed of losses, corruption, dial errors or
clients. `SweepStop` needs strong fairness: the loop's `select` is on a ticker and on
`stopSweep`, it is not continuously at the `select`, and Go picks at random
among ready cases; `SelectStop` of the continuous client is the same. Of an RTT
sampler it is assumed that it adds the sample of a tick it has taken and returns
once told to stop, not that its ticker fires. `Idle` is
fair because time passes. In `sendpath` a packet that may be sent is sent, and
one that is never declared lost arrives: the network loses only finitely many
packets.

Every property has a mutant in `PROJECT.json`: a variant of one mapped
definition (`Xxx_Variant`, next to `Xxx`) that TLC refutes it on. The type
invariants of the client, the compositions, `ContinuousSession`, `PathStream` and
`SendPath` document the variables' ranges and serve the proofs;
the runs spend their properties on behaviour.

## Proofs

TLAPS checks, for any number of paths, any payload and chunk size, any window,
any faults and any well-formed client:

- `ServerSessionProofs`, first part, about the reassembler alone: `ReassemblerInvariant`, `ReassemblerTypes`,
  `CountersStayExact`, `ReassemblyCorrect`. The inductive invariant `ReassemblerInv` joins the types
  with three counts: `remaining` is the number of missing slots, the buffer holds
  the payload exactly on the received slots, `receivedBytes` is the number of
  bytes filled. `Complete` alone is not inductive: that a zero counter means no missing slot
  needs the first, that the buffer then is the payload the second. The
  arithmetic is in `ChunkNumbers` (the reassembler's rounding division gives the
  number of iterations of `Split`'s loop), `ChunkOfByte` (every byte is in one
  chunk) and `ChunkBytes`.
- `ServerSessionProofs`, second part: `SessionInvariant` and, from it, types, WaitGroup, rows,
  completeness of the result, soundness of `integrity_ok`, its stability
  (`VerdictFrozen`, an action property) and the refinement
  `SessionImplementsVerdict`. `SessionInv` adds to the checked properties what
  they need to be inductive: each row carries the counters of a handler that no
  longer changes them (`RowsInv`), nobody reads before the control header was
  seen (`JoinedInv`; otherwise `Start` would reset a buffer in use), the delivery log lags by
  the sample in the handler's hand (`DeliveryInv`), the verdict is what the
  counters say (`VerdictInv`). A verdict needs `wg = 0`, and `ZeroMeansAll` turns
  that into "every handler has recorded". The refinement also needs that there
  are no received flags before `start` (`NilInv`). Steps with the same effect
  share a lemma: `MovePreserves` for those that only move a handler,
  `ReturnPreserves` for the returns.

- `SchedulerProofs`: `SchedulersLevel`, `NoSlowerPath`. Level counts are not
  inductive, as they do not say whose turn it is. `SchedulerInv` has instead
  that after `n` chunks path `p` got `n \div NumPaths` of them and one more if
  `p < n % NumPaths` (`Dealt`); for rtt-aware the same of the chunks placed while
  no RTT was known, because only these move the counter.
- `OneShotProofs`, about client, connections and session together:
  `AcksProveDelivery`, `AllAcksMeanIntact`, `RedundantNeedsOnePath`, `ProperPeer`,
  `TransferKeepsPromise`, `NoFaultsNoLoss`. `TransferInv` is `SessionInv` with
  what the client's phase says about its queues and streams (`PhaseInv`), the
  chain FIN, EOF, counted, ack, drained (`AckInv`), what was written equals what was
  counted plus what is in the stream (`StreamInv`), a path gets a chunk at most once
  (`OnceInv`), and where each dispatched chunk is: assigned, queued, in a writer,
  in a stream, placed, or on a path with a corrupted frame or a dead
  connection (`CarryInv`). `WriterInv` stands beside it: a writer returns only from a
  closed and empty queue with nothing in its hand, so `wg.Wait` in `sendChunks` means
  that every chunk was written or given up (`AllWritten`). An acked path has none of the first four left and
  was not cut off, which leaves "placed". `ProperPeer` shows each client step to be a step, or a
  stutter, of the peer `ServerSession` allows, so that `SessionImplementsVerdict`
  carries over to the transfer (`TransferKeepsPromise`). Both assume
  `MaxPerPath >= ChunkCount`: `MaxPerPath` is a bound of the model, not of the
  code, and must leave room for the client's one copy of each chunk per path;
  `OnceInv` is what makes that enough. `NoFaultsNoLoss` assumes `Faults = {}` and uses
  `CleanInv` (no connection dies before main has seen every ack) beside
  `TransferInv`.
- `ContinuousSessionProofs`: `ArrivalsAccounted`, `CreditedOnce`,
  `TrackerEmptied`, types. `ContinuousInv` adds to the
  checked properties who can be where (`ControlInv`: before `start` is through only the signal
  handler runs; past `wg.Wait` every handler has returned, so a flushed tracker
  stays empty), that bytes and rows add up in every place a row can be
  (`TrackerInv`, `BatchInv`, `LogInv`) and that a goroutine holds rows only
  inside `recordBursts`. That bursts never count more than their size is
  `SeenBytes`: the chunks seen have disjoint bytes. The steps that take rows
  from the tracker and those that log one are where the account could break;
  `TakeKeeps` and `AddRowKeeps` are about these.
- `ContinuousClientProofs`: `FramesInOrder`, `BurstRowsExact`,
  `CompleteFlagExact`, `AckCoversSession`, `RTTFileWhole`, for any number of bursts and any sizes. That
  written frames are in order is not inductive: nothing in it says that the frame a
  writer holds comes after them. `ClientInv` has where the chunks of the current
  burst are on a path (`InTurn`: written, held by the writer, queued, still
  to be enqueued, each group before the next), that a chunk is on one path
  unless redundant (`OnceInv`), that nothing is left over between bursts
  (`BetweenInv`, from `wg.Wait`), that the counters moved since the snapshot by
  exactly the chunks written (`Counted`) and that the rows logged so far are exact
  and add up to the snapshot (`LogInv`). The `complete` flag compares byte
  counts; that they decide it is `AllBytes`: chunks of a burst have disjoint
  bytes and a missing chunk has at least one. `AckCoversSession` needs three
  things that meet only at the ack: writers return only when their queue is closed and
  empty, so none is left between bursts (`WriterInv`); a stream gets its FIN only
  after the last burst, and the ack comes back only for a FIN (`DrainInv`); and only
  the burst being sent has frames without a row (`FrameInv`). For the RTT file `RTTInv` has that main
  drains only when every sampler has returned, which includes the sample of a
  tick already taken, and that main's copy then stays equal to the log.
- `SendPathProofs`: `FlightStaysBounded`, `CountsStayClose`, `ProgressNeverFalls`
  (an action property), types. A window compared before each packet bounds the
  bytes in flight, but this is not inductive: a lost packet leaves the count, and
  would come on top when sent again. `WindowInv` bounds flight and lost packets
  together, which holds because new data waits until no lost packet is left.
  `PacketInv` accounts for every byte put in a packet: arrived, in flight or
  lost; with `WriterInv` (a counted frame is in packets but for less than a
  datagram) this bounds how far the counters are ahead. `PrinterInv`: the
  one count in the channel is newer than the last printed and not more than
  was sent; it needs that no write is empty (`DataLen > 0`: `Split` makes no
  empty chunk).
- `PathStreamProofs`: `FramesStayFaithful`, `EOFProvesDelivery`,
  `SidesStayInAgreement`, `PathStreamTypes`, for every `Base` and every width,
  also 256 and 2, 4, 8, 16 bytes. That the frames read are those written is not
  inductive: it says nothing of the bytes under way, nor of a frame that is
  half written or half read. `PathStreamInv` therefore numbers all fields ever
  written (`Script`: the preamble's, then seven for each chunk placed). What is
  pending is the end of the script (`WriterInv`), the bytes in flight are
  its fields from the last one read to the last one written, one after the other
  (`StreamInv`, `Cut`), and every message, also the one being read, was
  decoded from its own fields (`ReaderInv`, `Decoded`). `ClientInv` is the
  loop invariant of `Split`: chunk `i` starts at `i` times the chunk size and
  its numbers fit their fields (`PlacedFits`). A read step keeps this because
  each field is asked for with the width it was written with (`NextWidth`), the
  last one of a frame included, whose width is a value read two fields earlier.
  `BigEndianRead` is that decoding undoes encoding for every number that fits.
  That an EOF cannot come inside a frame is `EndOfStream`: if the client has
  closed, a field not yet read would be in flight as a whole.

A sum over paths, bursts or rows is the number of its units (`Sums`): the
library's folds are recursive, and what a recursion computes cannot be proved
by induction here, while cardinalities of finite sets can be reasoned about. `Counting` proves
how a sum changes when an element is added, removed, changed or renamed. For the same
reason the least RTT is found as a least number of a set (`LeastNumber`).
Where `PathStreamProofs` has to go along a sequence (the powers of `Base` in
`Room`, the digits of a number, the ends of the fields in flight) it does
without induction: the least place at which the claim fails exists by
`LeastNumber`, and the place before it gives the contradiction. `Room` is a
recursive function, so that it denotes what its equation says is proved first
(`PowersExist`, `PowersUnique`, `RoomFacts`).

Assumptions: `PathAssumption`, `SizeAssumption`, `WindowAssumption`,
`FaultAssumption`, `MaxPerPathAssumption`, `SendAssumption`,
`SchedulerAssumption`, `ContinuousAssumption`, `BurstAssumption`, `CCAssumption`,
`SendPathAssumption` (positive sizes and capacities; bounds may be any number),
`WidthAssumption` (a byte has at least two values, no integer is empty),
`PathStreamAssumption` (sizes and the number of bursts fit a `uint64`, path
indexes a `uint32`, as the code's types have it; the two-byte name and the two
paths of the model's header fit their fields), and the two hypotheses named above.

Only model-checked: liveness under fairness (`PayloadArrives`, `GetsThrough`,
`StopsWhenTold` and the others), which is out of the prover's reach. Every invariant and
every action property that a passing run checks is also a theorem.

## Where documents and code differ

`oneshot_noreport` states the document and is refuted: a path that dies before
its handler enters the read loop is in the WaitGroup and never leaves it, so the
server writes no record of the session (README.md:66, "Both sides write a
results record").

`cont_panic`: the server promises to flush what it has on Ctrl+C (cmd/server/main.go:55-58,
README.md:266-267). `start` sets the tracker at main.go:263 and the channel
`stopSweep` at 264, under a lock that the signal handler does not take. A signal
between the two finds a tracker and closes a nil channel: the process panics, and no
session is flushed.

### Observations

Met while modelling, without a run of their own:

- One dispatcher serves all queues: while it waits for room in the queue of a
  stalled path, other paths with empty queues get nothing (README.md:36-37 says a
  stall on one path cannot block another).
- A chunk that comes more than the 5 s TTL after the last one starts its burst
  again; a burst that arrived completely is then reported as two incomplete ones
  (internal/transfer/burst.go:126-128 says "exactly once"). With copies on two paths,
  the two reports together may credit more bytes than the burst has, which
  `BytesCreditedOnce`, being about each report, allows.
- The sweep loop and the waiter write `bursts.csv` without a common lock; an older
  snapshot written last stays (metrics.go:221-222).
- The client's aggregate row says `complete` when the bytes written equal the
  burst's size (client main.go:220). With the redundant scheduler a healthy burst
  counts every copy and is never complete, and one that lost chunks on both paths
  can be. `CompleteIsExact` therefore leaves this case out.
- `-size 0` in one-shot mode announces `TotalSize` 0: the server runs a continuous
  session (`SidesAgree` allows exactly this case).
- With `-chunk-size` 0, or a multiple of 2^32, and a payload of a positive
  multiple of 2^32 bytes, the client's `Split` does not advance and never ends,
  and the server's `NewReassembler` divides by zero. `PayloadArrives` excludes
  exactly these (`NoChunkSize`).
- `-burst-interval 0` sends one burst and panics in `time.NewTicker`, without
  draining; `-progress-interval 0` panics the printer of either side.
- After `runContinuous` has returned, signals have their default effect again: a
  second Ctrl+C during the drain kills the client.
- The server's handlers call `Update(ReceivedBytes())` outside any lock, so its
  progress, unlike the client's (`ProgressGrows`), can step back; the last line
  says 100% on both sides, whatever arrived.
- `Update` drops the new count, not the old one: the last count printed before
  the end may be an old one.
- `shutdownContinuous` does not stop at the second call (main.go:334-335, "only
  the first call does anything"): only the closing of the channel is in the
  `Once`. `NothingLeftBehind` needs the second flush; the mutant
  `CloseSweep_OnceForAll`, which does what the comment says, breaks it.
- The signal handler exits while the sweep loop may hold a burst that is no longer in
  the tracker and not yet in the file (main.go:57-58, README.md:266-267):
  `os.Exit` (main.go:65) does not wait for the sweep loop.
- Once one path has an RTT, `rtt-aware` never uses a path without one
  (rtt_aware.go:7-8 speaks of a fallback "for paths whose RTT hasn't been
  measured yet").

## Not modelled

- The text of CSV, JSON, console output and log lines, and errors of writing them.
- The server's end of the progress line (an observation above).
- Several sessions of one server: they share the registry map, which never
  forgets one, and the output prefix, so they overwrite each other's files.
  `ln.Accept` failing, which ends the process.
- The continuous client and the continuous session are not composed; what the
  session assumes of its peer is checked of the client (`InBurstOrder`).
- Weak memory: unsynchronised reads by the signal handler are taken in program
  order.
- `Stream.Close` returning an error in `drainPaths` (client main.go:309-312): quic-go's
  fails only on a stream that was reset, and neither side resets one.
- Cubic, pacing, probe packets and the rest of quic-go; its streams are an
  external module.
- TLS set-up: it builds a certificate and two configurations once and keeps no
  state. The scripts and the viewer under `tools/`.

## Plan

1. The burst tracker's steps as a refinement of an abstract account of bursts.
2. Two sessions in one registry.
3. The continuous client composed with the continuous session.
