---------------------- MODULE ContinuousSessionProofs -----------------------
(***************************************************************************)
(* Proofs about a continuous session on the server: the handlers, the      *)
(* burst tracker and the three goroutines that report from it, for any     *)
(* number of paths and bursts, any burst and chunk size and any faults.    *)
(***************************************************************************)
EXTENDS ContinuousSession, Counting

PathRow == [bytesReceived : Nat, chunks : Nat, corrupted : Nat]

BurstState ==
    [bytesReceived : Nat, seen : SUBSET SplitSeqs, chunks : Nat, corrupted : Nat,
     perPath : [Paths -> PathRow], idle : BOOLEAN]

BurstRow ==
    [id : 1..NumBursts, bytesReceived : Nat, chunks : Nat, corrupted : Nat,
     complete : BOOLEAN, perPath : [Paths -> PathRow]]

Places == {"off", "select", "wait", "check", "close", "flush", "record",
           "create", "write", "done"}

-----------------------------------------------------------------------------
\* The inductive invariant, in parts.

ControlTypes ==
    /\ start \in {"none", "tracker", "channel", "ready"}
    /\ exit \in {"no", "clean", "panic"}
    /\ hpc \in [Paths -> {"wait", "read", "done"}]
    /\ pc \in [Agents -> Places]
    /\ stopped \in BOOLEAN

\* Who can be where.  Before start is through only the signal handler runs.
\* The waiter gets past wg.Wait when every handler has returned, so nothing
\* is added to the tracker it has flushed.
ControlInv ==
    /\ start # "ready" => /\ pc["waiter"] = "off" /\ pc["sweep"] = "off"
                          /\ \A p \in Paths : hpc[p] = "wait"
    /\ wg = IF start = "ready" THEN Cardinality({p \in Paths : hpc[p] # "done"}) ELSE 0
    /\ pc["waiter"] \notin {"off", "wait"} => \A p \in Paths : hpc[p] = "done"
    /\ pc["waiter"] \in {"record", "create", "write", "done"} => DOMAIN bursts = {}

\* The bytes of a burst in the tracker are those of the chunks it has seen.
GoodBurst(b) ==
    /\ b \in BurstState
    /\ b.bytesReceived = SumPaths(b.perPath)
    /\ b.bytesReceived = BytesOf(b.seen)

\* A row that leaves the tracker.
GoodRow(r) ==
    /\ r \in BurstRow
    /\ r.bytesReceived = SumPaths(r.perPath)
    /\ r.bytesReceived <= TotalSize
    /\ r.complete <=> r.bytesReceived = TotalSize

TrackerInv ==
    /\ bursts = [id \in DOMAIN bursts |-> bursts[id]]
    /\ DOMAIN bursts \subseteq 1..NumBursts
    /\ \A id \in DOMAIN bursts : GoodBurst(bursts[id])

\* A goroutine holds rows only inside recordBursts.
BatchInv ==
    /\ batch \in [Agents -> SUBSET BurstRow]
    /\ \A a \in Agents :
          /\ IsFiniteSet(batch[a])
          /\ \A r \in batch[a] : GoodRow(r)
          /\ pc[a] # "record" => batch[a] = {}

LogInv ==
    /\ burstLog \in Seq(BurstRow)
    /\ \A i \in 1..Len(burstLog) : GoodRow(burstLog[i])
    /\ snap \in [Agents -> 0..Len(burstLog)]
    /\ file \in 0..Len(burstLog)

CountInv ==
    /\ chunks \in [Paths -> Nat]
    /\ last \in [Paths -> Int]
    /\ EveryArrivalAccounted

ContinuousInv ==
    ControlTypes /\ ControlInv /\ TrackerInv /\ BatchInv /\ LogInv /\ CountInv
-----------------------------------------------------------------------------
\* Frames, chunks and bytes.

\* The chunks of a burst lie one after the other in its TotalSize bytes.
LEMMA ChunkLengths ==
    ASSUME NEW c \in SplitSeqs
    PROVE  /\ c \in Nat /\ c * ChunkSize \in Nat
           /\ ChunkLen(c) \in Nat \ {0} /\ ChunkLen(c) <= ChunkSize
           /\ c * ChunkSize + ChunkLen(c) <= TotalSize
<1> USE SizeAssumption
<1>1. c \in Nat /\ c * ChunkSize < TotalSize
  BY SMT DEF SplitSeqs
<1>2. c * ChunkSize \in Nat
  BY <1>1, ProductOrder
<1> QED BY <1>1, <1>2, SMT DEF ChunkLen

\* A frame of the client's bursts names a chunk and a burst there are.
LEMMA FrameFacts ==
    ASSUME NEW f \in Frames
    PROVE  SeqOf(f) \in SplitSeqs /\ BurstOf(f) \in 1..NumBursts
<1> DEFINE k == (TotalSize + ChunkSize - 1) \div ChunkSize
<1>1. k \in Nat \ {0} /\ SplitSeqs = 0..(k - 1)
  BY SizeAssumption, PiecesOf DEF SplitSeqs
<1> HIDE DEF k
<1>2. ChunksPerBurst = k
  <2>1. 0..(k - 1) = 0..(0 + k - 1)
    BY <1>1
  <2> QED BY <1>1, <2>1, RunOfNumbers DEF ChunksPerBurst
<1>3. NumBursts \in Nat
  BY ContinuousAssumption
<1>4. NumBursts * k \in Nat /\ f \in Nat /\ f < NumBursts * k
  <2>1. NumBursts * k \in Nat
    BY <1>1, <1>3, ProductOrder
  <2> QED BY <1>2, <2>1, SMT DEF Frames
<1>5. f % k \in 0..(k - 1) /\ f \div k \in Nat /\ k * (f \div k) <= f
  BY <1>1, <1>4, NextRemainder, DivFacts
<1>6. f \div k < NumBursts
  <2> DEFINE d == f \div k
  <2>1. d \in Nat /\ k * d <= f
    BY <1>5
  <2> HIDE DEF d
  <2>2. NumBursts <= d => NumBursts * k <= d * k
    BY <1>1, <1>3, <2>1, ProductOrder
  <2>3. d < NumBursts
    BY <1>1, <1>3, <1>4, <2>1, <2>2, SMT
  <2> QED BY <2>3 DEF d
<1> QED BY <1>1, <1>2, <1>3, <1>5, <1>6, SMT DEF SeqOf, BurstOf

\* Different chunks have different bytes, so a burst never counts more than
\* its size, and one new chunk adds its length.
LEMMA SeenBytes ==
    ASSUME NEW S, S \subseteq SplitSeqs
    PROVE  /\ IsFiniteSet(S) /\ BytesOf(S) \in Nat /\ BytesOf(S) <= TotalSize
           /\ \A c \in SplitSeqs \ S : BytesOf(S \cup {c}) = BytesOf(S) + ChunkLen(c)
<1> DEFINE f == [c \in S |-> ChunkLen(c)]
           h == [u \in Units(S, f) |-> u[1] * ChunkSize + u[2]]
<1> USE SizeAssumption
<1>1. IsFiniteSet(S)
  <2>1. IsFiniteSet(0..(TotalSize - 1))
    <3>1. 0 \in Int /\ TotalSize - 1 \in Int
      OBVIOUS
    <3> QED BY <3>1, FS_Interval
  <2> QED BY <2>1, FS_Subset DEF SplitSeqs
<1>2. \A c \in S : f[c] \in Nat /\ f[c] = ChunkLen(c)
  BY ChunkLengths
<1>3. BytesOf(S) = SumOver(S, f) /\ BytesOf(S) \in Nat
  BY <1>1, <1>2, SumFinite DEF BytesOf
<1>4. ASSUME NEW u \in Units(S, f)
      PROVE  /\ u = <<u[1], u[2]>> /\ u[1] \in S /\ u[2] \in 1..ChunkLen(u[1])
             /\ h[u] \in 1..TotalSize
  <2>1. u = <<u[1], u[2]>> /\ u[1] \in S /\ u[2] \in 1..ChunkLen(u[1])
    BY <1>2 DEF Units
  <2>2. u[1] * ChunkSize \in Nat /\ ChunkLen(u[1]) \in Nat
        /\ u[1] * ChunkSize + ChunkLen(u[1]) <= TotalSize
    BY <2>1, ChunkLengths
  <2> QED BY <2>1, <2>2, SMT
<1>5. ASSUME NEW u \in Units(S, f), NEW v \in Units(S, f), h[u] = h[v] PROVE u = v
  <2> DEFINE c == u[1]
             d == v[1]
             i == u[2]
             j == v[2]
  <2>1. /\ c \in Nat /\ d \in Nat /\ i \in 1..ChunkSize /\ j \in 1..ChunkSize
        /\ c * ChunkSize + i = d * ChunkSize + j
    <3>1. c \in SplitSeqs /\ d \in SplitSeqs /\ i \in 1..ChunkLen(c) /\ j \in 1..ChunkLen(d)
      BY <1>4
    <3>2. c * ChunkSize + i = d * ChunkSize + j
      BY <1>5
    <3> HIDE DEF c, d, i, j
    <3> QED BY <3>1, <3>2, ChunkLengths, SMT
  <2>2. u = <<c, i>> /\ v = <<d, j>>
    BY <1>4
  <2> HIDE DEF c, d, i, j
  <2>3. /\ c * ChunkSize \in Nat /\ d * ChunkSize \in Nat
        /\ c < d => c * ChunkSize + ChunkSize <= d * ChunkSize
        /\ d < c => d * ChunkSize + ChunkSize <= c * ChunkSize
    BY <2>1, ProductOrder
  <2>4. c = d
    BY <2>1, <2>3, SMT
  <2>5. i = j
    BY <2>1, <2>3, <2>4, SMT
  <2> QED BY <2>2, <2>4, <2>5
<1>6. h \in Injection(Units(S, f), 1..TotalSize)
  BY <1>4, <1>5 DEF Injection, IsInjective
<1>7. IsFiniteSet(1..TotalSize) /\ Cardinality(1..TotalSize) = TotalSize
  <2>1. 1 \in Nat /\ TotalSize \in Nat /\ 1..TotalSize = 1..(1 + TotalSize - 1)
    BY SMT
  <2> QED BY <2>1, RunOfNumbers
<1>8. BytesOf(S) <= TotalSize
  BY <1>3, <1>6, <1>7, FS_Injection DEF SumOver
<1> HIDE DEF f, h
<1>9. ASSUME NEW c \in SplitSeqs \ S PROVE BytesOf(S \cup {c}) = BytesOf(S) + ChunkLen(c)
  <2> DEFINE g == [e \in S \cup {c} |-> ChunkLen(e)]
  <2>1. (\A e \in S : g[e] = f[e] /\ g[e] \in Nat) /\ g[c] = ChunkLen(c) /\ g[c] \in Nat
    BY <1>2, ChunkLengths
  <2>2. BytesOf(S \cup {c}) = SumOver(S \cup {c}, g)
    BY DEF BytesOf
  <2> HIDE DEF g
  <2>3. SumOver(S \cup {c}, g) = SumOver(S, g) + g[c]
    BY <1>1, <2>1, SumAdd
  <2>4. SumOver(S, g) = SumOver(S, f)
    BY <2>1, SumSame
  <2> QED BY <1>3, <2>1, <2>2, <2>3, <2>4
<1> QED BY <1>1, <1>3, <1>8, <1>9

\* There are finitely many paths.
LEMMA PathsFinite == IsFiniteSet(Paths) /\ Cardinality(Paths) = NumPaths
<1>1. NumPaths \in Nat /\ 0 \in Nat /\ Paths = 0..(0 + NumPaths - 1)
  BY PathAssumption, SMT DEF Paths
<1> QED BY <1>1, RunOfNumbers

\* The per-path bytes of a burst, and what one path's change does to them.
LEMMA PathBytes ==
    ASSUME NEW pp \in [Paths -> PathRow]
    PROVE  /\ SumPaths(pp) \in Nat
           /\ \A p \in Paths : pp[p].bytesReceived <= SumPaths(pp)
           /\ \A p \in Paths, w \in PathRow :
                 SumPaths([pp EXCEPT ![p] = w]) + pp[p].bytesReceived
                    = SumPaths(pp) + w.bytesReceived
<1> DEFINE f == [p \in Paths |-> pp[p].bytesReceived]
<1>1. \A p \in Paths : f[p] = pp[p].bytesReceived /\ f[p] \in Nat
  BY DEF PathRow
<1>2. SumPaths(pp) = SumOver(Paths, f)
  BY DEF SumPaths
<1> HIDE DEF f
<1>3. SumPaths(pp) \in Nat
  BY <1>1, <1>2, PathsFinite, SumFinite
<1>4. ASSUME NEW p \in Paths PROVE pp[p].bytesReceived <= SumPaths(pp)
  <2>1. SumOver(Paths, f) = SumOver(Paths \ {p}, f) + f[p]
    BY <1>1, PathsFinite, SumRemove
  <2>2. SumOver(Paths \ {p}, f) \in Nat
    BY <1>1, PathsFinite, FS_RemoveElement, SumFinite
  <2> QED BY <1>1, <1>2, <2>1, <2>2
<1>5. ASSUME NEW p \in Paths, NEW w \in PathRow
      PROVE  SumPaths([pp EXCEPT ![p] = w]) + pp[p].bytesReceived = SumPaths(pp) + w.bytesReceived
  <2> DEFINE g == [q \in Paths |-> [pp EXCEPT ![p] = w][q].bytesReceived]
  <2>1. /\ g[p] = w.bytesReceived /\ g[p] \in Nat
        /\ \A q \in Paths \ {p} : g[q] = f[q]
    BY <1>1 DEF PathRow
  <2>2. SumPaths([pp EXCEPT ![p] = w]) = SumOver(Paths, g)
    BY DEF SumPaths
  <2> HIDE DEF g
  <2>3. SumOver(Paths, g) + f[p] = SumOver(Paths, f) + g[p]
    BY <1>1, <2>1, PathsFinite, SumUpdate
  <2> QED BY <1>1, <1>2, <2>1, <2>2, <2>3
<1> QED BY <1>3, <1>4, <1>5
-----------------------------------------------------------------------------
\* The tracker.

\* A burst's record when its first chunk arrives.
LEMMA NewBurstGood ==
    GoodBurst(NewBurst) /\ \A q \in Paths : NewBurst.perPath[q].chunks = 0
<1> DEFINE z == [p \in Paths |-> NoStats]
<1>1. z \in [Paths -> PathRow] /\ \A p \in Paths : z[p].bytesReceived = 0 /\ z[p].chunks = 0
  BY DEF NoStats, PathRow
<1>2. SumPaths(z) = 0
  BY <1>1, SumZero DEF SumPaths
<1>3. BytesOf({}) = 0
  BY SumEmpty DEF BytesOf
<1>4. /\ NewBurst.perPath = z /\ NewBurst.seen = {} /\ NewBurst.bytesReceived = 0
      /\ NewBurst \in BurstState
  BY <1>1 DEF NewBurst, BurstState
<1> HIDE DEF z
<1> QED BY <1>1, <1>2, <1>3, <1>4 DEF GoodBurst

\* Write credits a chunk's bytes when it is intact and seen for the first
\* time, and counts it on its path in any case.
LEMMA CountedGood ==
    ASSUME NEW b, GoodBurst(b), NEW seq \in SplitSeqs, NEW corrupt \in BOOLEAN, NEW p \in Paths,
           NEW c, c = Counted(b, seq, IF corrupt \/ seq \in b.seen THEN 0 ELSE ChunkLen(seq),
                              IF corrupt THEN 1 ELSE 0, p)
    PROVE  /\ GoodBurst(c)
           /\ \A q \in Paths : /\ b.perPath[q].chunks \in Nat
                               /\ c.perPath[q].chunks
                                     = b.perPath[q].chunks + (IF q = p THEN 1 ELSE 0)
<1> DEFINE credit == IF corrupt \/ seq \in b.seen THEN 0 ELSE ChunkLen(seq)
           bad == IF corrupt THEN 1 ELSE 0
           seen == IF bad = 1 THEN b.seen ELSE b.seen \cup {seq}
           o == b.perPath[p]
           w == [bytesReceived |-> o.bytesReceived + credit,
                 chunks        |-> o.chunks + 1,
                 corrupted     |-> o.corrupted + bad]
           pp == [b.perPath EXCEPT ![p] = w]
<1>1. credit \in Nat /\ bad \in {0, 1} /\ bad \in Nat
  BY ChunkLengths
<1>2. /\ b.bytesReceived \in Nat /\ b.seen \subseteq SplitSeqs /\ b.chunks \in Nat
      /\ b.corrupted \in Nat /\ b.perPath \in [Paths -> PathRow]
      /\ b.bytesReceived = SumPaths(b.perPath) /\ b.bytesReceived = BytesOf(b.seen)
  BY DEF GoodBurst, BurstState
<1>3. o.bytesReceived \in Nat /\ o.chunks \in Nat /\ o.corrupted \in Nat
  BY <1>2 DEF PathRow
<1>4. BytesOf(seen) = BytesOf(b.seen) + credit /\ seen \subseteq SplitSeqs
  <2>1. CASE corrupt
    BY <1>2, <2>1
  <2>2. CASE ~corrupt /\ seq \in b.seen
    <3>1. b.seen \cup {seq} = b.seen
      BY <2>2
    <3> QED BY <1>2, <2>2, <3>1
  <2>3. CASE ~corrupt /\ seq \notin b.seen
    BY <1>2, <2>3, SeenBytes
  <2> QED BY <2>1, <2>2, <2>3
<1>5. c = [bytesReceived |-> b.bytesReceived + credit, seen |-> seen,
           chunks |-> b.chunks + 1, corrupted |-> b.corrupted + bad,
           perPath |-> pp, idle |-> FALSE]
  BY DEF Counted
<1> HIDE DEF credit, bad, seen, o
<1>6. w \in PathRow /\ w.bytesReceived = o.bytesReceived + credit /\ w.chunks = o.chunks + 1
  BY <1>1, <1>3 DEF PathRow
<1> HIDE DEF w
<1>7. pp \in [Paths -> PathRow]
  BY <1>2, <1>6
<1>8. SumPaths(pp) = b.bytesReceived + credit
  <2>1. SumPaths(pp) + o.bytesReceived = SumPaths(b.perPath) + w.bytesReceived
    BY <1>2, <1>6, PathBytes DEF o
  <2>2. SumPaths(pp) \in Nat
    BY <1>7, PathBytes
  <2> HIDE DEF pp
  <2> QED BY <1>1, <1>2, <1>3, <1>6, <2>1, <2>2, SMT
<1>9. ASSUME NEW q \in Paths
      PROVE  /\ b.perPath[q].chunks \in Nat
             /\ pp[q].chunks = b.perPath[q].chunks + (IF q = p THEN 1 ELSE 0)
  <2>1. b.perPath[q].chunks \in Nat
    BY <1>2 DEF PathRow
  <2>2. CASE q = p
    BY <1>2, <1>6, <2>1, <2>2 DEF o
  <2>3. CASE q # p
    BY <1>2, <2>1, <2>3
  <2> QED BY <2>2, <2>3
<1> HIDE DEF pp
<1>10. c \in BurstState
  <2>1. /\ b.bytesReceived + credit \in Nat /\ b.chunks + 1 \in Nat
        /\ b.corrupted + bad \in Nat
    BY <1>1, <1>2, SMT
  <2>2. seen \in SUBSET SplitSeqs
    BY <1>4
  <2>3. \A x \in Nat, y \in SUBSET SplitSeqs, z \in Nat, v \in Nat, r \in [Paths -> PathRow] :
           [bytesReceived |-> x, seen |-> y, chunks |-> z, corrupted |-> v,
            perPath |-> r, idle |-> FALSE] \in BurstState
    BY DEF BurstState
  <2> QED BY <1>5, <1>7, <2>1, <2>2, <2>3
<1>11. c.perPath = pp /\ c.seen = seen /\ c.bytesReceived = b.bytesReceived + credit
  BY <1>5
<1> QED BY <1>2, <1>4, <1>8, <1>9, <1>10, <1>11 DEF GoodBurst

\* The snapshot of a burst is a good row of its own id.
LEMMA StatsGood ==
    ASSUME TrackerInv, NEW id \in DOMAIN bursts
    PROVE  /\ GoodRow(Stats(id)) /\ Stats(id).id = id
           /\ Stats(id).perPath = bursts[id].perPath
<1> DEFINE b == bursts[id]
<1>1. GoodBurst(b) /\ id \in 1..NumBursts
  BY DEF TrackerInv
<1>2. Stats(id) = [id |-> id, bytesReceived |-> b.bytesReceived, chunks |-> b.chunks,
                   corrupted |-> b.corrupted, complete |-> b.bytesReceived >= TotalSize,
                   perPath |-> b.perPath]
  BY DEF Stats
<1> HIDE DEF b
<1>3. /\ b.bytesReceived \in Nat /\ b.seen \subseteq SplitSeqs /\ b.chunks \in Nat
      /\ b.corrupted \in Nat /\ b.perPath \in [Paths -> PathRow]
      /\ b.bytesReceived = SumPaths(b.perPath) /\ b.bytesReceived = BytesOf(b.seen)
  BY <1>1 DEF GoodBurst, BurstState
<1>4. b.bytesReceived <= TotalSize
  BY <1>3, SeenBytes
<1>5. (b.bytesReceived >= TotalSize) = (b.bytesReceived = TotalSize)
  BY <1>3, <1>4, SizeAssumption
<1>6. Stats(id) \in BurstRow
  BY <1>1, <1>2, <1>3 DEF BurstRow
<1>7. GoodRow(Stats(id))
  <2>1. /\ Stats(id).bytesReceived = b.bytesReceived /\ Stats(id).perPath = b.perPath
        /\ Stats(id).complete = (b.bytesReceived >= TotalSize)
    BY <1>2
  <2> QED BY <1>3, <1>4, <1>5, <1>6, <2>1 DEF GoodRow
<1> QED BY <1>2, <1>7 DEF b

\* The chunks a burst counts on a path, and the set of bursts, are as they
\* should be for sums.
LEMMA TrackerSums ==
    ASSUME TrackerInv, NEW q \in Paths
    PROVE  /\ IsFiniteSet(DOMAIN bursts)
           /\ \A id \in DOMAIN bursts : bursts[id].perPath[q].chunks \in Nat
           /\ InTracker(q) \in Nat
<1>1. IsFiniteSet(DOMAIN bursts)
  <2>1. 1 \in Int /\ NumBursts \in Int
    BY ContinuousAssumption
  <2>2. IsFiniteSet(1..NumBursts)
    BY <2>1, FS_Interval
  <2> QED BY <2>2, FS_Subset DEF TrackerInv
<1>2. ASSUME NEW id \in DOMAIN bursts PROVE bursts[id].perPath[q].chunks \in Nat
  <2>1. bursts[id].perPath \in [Paths -> PathRow]
    BY DEF TrackerInv, GoodBurst, BurstState
  <2> QED BY <2>1 DEF PathRow
<1>3. InTracker(q) \in Nat
  BY <1>1, <1>2, SumFinite DEF InTracker
<1> QED BY <1>1, <1>2, <1>3

\* A burst's record replaced, or added.
LEMMA PutCounts ==
    ASSUME TrackerInv, NEW id, NEW c, Put(id, c), NEW q \in Paths,
           c.perPath[q].chunks \in Nat
    PROVE  /\ InTracker(q)' \in Nat /\ Tracked(id).perPath[q].chunks \in Nat
           /\ InTracker(q)' + Tracked(id).perPath[q].chunks
                 = InTracker(q) + c.perPath[q].chunks
<1> DEFINE D == DOMAIN bursts
           f == [i \in D |-> bursts[i].perPath[q].chunks]
           g == [i \in DOMAIN bursts' |-> bursts'[i].perPath[q].chunks]
           old == Tracked(id).perPath[q].chunks
<1>1. bursts' = [i \in D \cup {id} |-> IF i = id THEN c ELSE bursts[i]]
  BY DEF Put
<1>2. DOMAIN bursts' = D \cup {id} /\ bursts'[id] = c /\ \A i \in D \ {id} : bursts'[i] = bursts[i]
  BY <1>1
<1>3. /\ IsFiniteSet(D) /\ \A i \in D : f[i] \in Nat
      /\ InTracker(q) = SumOver(D, f) /\ InTracker(q)' = SumOver(D \cup {id}, g)
  BY <1>2, TrackerSums DEF InTracker
<1>4. g[id] = c.perPath[q].chunks /\ g[id] \in Nat /\ \A i \in D \ {id} : g[i] = f[i]
  BY <1>2
<1>5. old = (IF id \in D THEN f[id] ELSE 0) /\ old \in Nat
  BY <1>3, NewBurstGood DEF Tracked
<1> HIDE DEF D, f, g, old
<1>6. /\ SumOver(D \cup {id}, g) \in Nat
      /\ SumOver(D \cup {id}, g) + old = SumOver(D, f) + g[id]
  <2>1. IsFiniteSet(D)
    BY <1>3
  <2>2. \A x \in D : f[x] \in Nat
    BY <1>3
  <2>3. g[id] \in Nat
    BY <1>4
  <2>4. \A x \in D \ {id} : g[x] = f[x]
    BY <1>4
  <2>5. old \in Nat
    BY <1>5
  <2>6. old = IF id \in D THEN f[id] ELSE 0
    BY <1>5
  <2> QED BY <2>1, <2>2, <2>3, <2>4, <2>5, <2>6, SumPut
<1> QED BY <1>3, <1>4, <1>5, <1>6 DEF old

\* BurstTracker.Write: one chunk more on its path, none on another.
LEMMA WriteCounts ==
    ASSUME TrackerInv, NEW id \in 1..NumBursts, NEW seq \in SplitSeqs,
           NEW corrupt \in BOOLEAN, NEW p \in Paths, Write(id, seq, corrupt, p)
    PROVE  /\ TrackerInv'
           /\ \A q \in Paths : InTracker(q)' = InTracker(q) + (IF q = p THEN 1 ELSE 0)
<1> DEFINE b == Tracked(id)
           c == Counted(b, seq, IF corrupt \/ seq \in b.seen THEN 0 ELSE ChunkLen(seq),
                        IF corrupt THEN 1 ELSE 0, p)
           D == DOMAIN bursts
<1>1. GoodBurst(b)
  BY NewBurstGood DEF TrackerInv, Tracked
<1>2. bursts' = [i \in D \cup {id} |-> IF i = id THEN c ELSE bursts[i]]
  BY DEF Write, Put
<1> HIDE DEF b
<1>3. /\ GoodBurst(c)
      /\ \A q \in Paths : /\ b.perPath[q].chunks \in Nat
                          /\ c.perPath[q].chunks
                                = b.perPath[q].chunks + (IF q = p THEN 1 ELSE 0)
  BY <1>1, CountedGood
<1> HIDE DEF c
<1>4. /\ DOMAIN bursts' = D \cup {id} /\ bursts'[id] = c
      /\ \A i \in D \ {id} : bursts'[i] = bursts[i]
      /\ bursts' = [i \in DOMAIN bursts' |-> bursts'[i]]
  BY <1>2
<1>5. TrackerInv'
  <2>1. \A i \in DOMAIN bursts' : GoodBurst(bursts'[i])
    BY <1>3, <1>4 DEF TrackerInv
  <2> QED BY <1>4, <2>1 DEF TrackerInv, GoodBurst
<1>6. ASSUME NEW q \in Paths
      PROVE  InTracker(q)' = InTracker(q) + (IF q = p THEN 1 ELSE 0)
  <2>1. Put(id, c)
    BY <1>2 DEF Put
  <2>2. c.perPath[q].chunks \in Nat
    BY <1>3
  <2>3. /\ InTracker(q)' \in Nat /\ InTracker(q) \in Nat
        /\ InTracker(q)' + b.perPath[q].chunks = InTracker(q) + c.perPath[q].chunks
    BY <2>1, <2>2, PutCounts, TrackerSums DEF b
  <2> QED BY <1>3, <2>3
<1> QED BY <1>5, <1>6

\* Expire and ExpireAll: what leaves the tracker is in the rows returned.
LEMMA ForgetCounts ==
    ASSUME TrackerInv, NEW ids, ids \subseteq DOMAIN bursts, Forget(ids),
           NEW T, T = {Stats(id) : id \in ids}
    PROVE  /\ TrackerInv' /\ DOMAIN bursts' = DOMAIN bursts \ ids
           /\ IsFiniteSet(T) /\ \A r \in T : GoodRow(r)
           /\ \A q \in Paths : /\ InTracker(q)' \in Nat /\ InRows(q, T) \in Nat
                               /\ InTracker(q) = InTracker(q)' + InRows(q, T)
<1> DEFINE D == DOMAIN bursts
           R == D \ ids
           h == [id \in ids |-> Stats(id)]
<1>1. bursts' = [i \in R |-> bursts[i]]
  BY DEF Forget
<1>2. DOMAIN bursts' = R /\ \A i \in R : bursts'[i] = bursts[i]
  BY <1>1
<1>3. TrackerInv'
  <2>1. \A i \in DOMAIN bursts' : GoodBurst(bursts'[i])
    BY <1>2 DEF TrackerInv
  <2>2. bursts' = [i \in DOMAIN bursts' |-> bursts'[i]]
    BY <1>1
  <2> QED BY <1>2, <2>1, <2>2 DEF TrackerInv, GoodBurst
<1>4. \A r \in T : GoodRow(r)
  BY StatsGood
<1>5. h \in Bijection(ids, T)
  <2>1. h \in [ids -> T]
    OBVIOUS
  <2>2. \A i, j \in ids : h[i] = h[j] => i = j
    BY StatsGood
  <2>3. \A r \in T : \E i \in ids : h[i] = r
    OBVIOUS
  <2> QED BY <2>1, <2>2, <2>3 DEF Bijection, Injection, Surjection, IsInjective
<1>6. 0 \in Paths
  BY PathAssumption DEF Paths
<1>7. IsFiniteSet(D) /\ IsFiniteSet(ids) /\ IsFiniteSet(R)
  <2>1. IsFiniteSet(D)
    BY <1>6, TrackerSums
  <2> QED BY <2>1, FS_Subset
<1>8. IsFiniteSet(T)
  <2>1. h \in Surjection(ids, T)
    BY <1>5 DEF Bijection
  <2> HIDE DEF h
  <2> QED BY <1>7, <2>1, FS_Surjection
<1>9. ASSUME NEW q \in Paths
      PROVE  /\ InTracker(q)' \in Nat /\ InRows(q, T) \in Nat
             /\ InTracker(q) = InTracker(q)' + InRows(q, T)
  <2> DEFINE f == [i \in D |-> bursts[i].perPath[q].chunks]
             f1 == [i \in R |-> bursts'[i].perPath[q].chunks]
             g == [r \in T |-> r.perPath[q].chunks]
  <2>1. \A i \in D : f[i] \in Nat
    BY TrackerSums
  <2>2. InTracker(q) = SumOver(D, f) /\ InTracker(q)' = SumOver(R, f1) /\ InRows(q, T) = SumOver(T, g)
    BY <1>2 DEF InTracker, InRows
  <2>3. \A i \in R : f1[i] = f[i]
    BY <1>2
  <2>4. \A i \in ids : g[h[i]] = f[i]
    <3> SUFFICES ASSUME NEW i \in ids PROVE g[h[i]] = f[i]
      OBVIOUS
    <3>1. h[i] = Stats(i) /\ Stats(i) \in T /\ i \in D
      OBVIOUS
    <3>2. Stats(i).perPath = bursts[i].perPath
      BY <3>1, StatsGood
    <3> QED BY <3>1, <3>2
  <2>5. \A i \in ids : f[i] \in Nat
    BY <2>1
  <2> HIDE DEF f, f1, g, h
  <2>6. SumOver(T, g) = SumOver(ids, f)
    <3>1. IsFiniteSet(ids)
      BY <1>7
    <3> QED BY <1>5, <2>4, <2>5, <3>1, SumRename
  <2>7. SumOver(R, f1) = SumOver(R, f)
    BY <2>3, SumSame
  <2>8. SumOver(R \cup ids, f) = SumOver(R, f) + SumOver(ids, f)
    <3>1. IsFiniteSet(R)
      BY <1>7
    <3>2. IsFiniteSet(ids)
      BY <1>7
    <3>3. R \cap ids = {}
      OBVIOUS
    <3>4. \A x \in R \cup ids : f[x] \in Nat
      BY <2>1
    <3> HIDE DEF R
    <3> QED BY <3>1, <3>2, <3>3, <3>4, SumUnion
  <2>9. R \cup ids = D
    OBVIOUS
  <2>10. SumOver(R, f) \in Nat /\ SumOver(ids, f) \in Nat
    <3>1. \A i \in R : f[i] \in Nat
      BY <2>1
    <3> HIDE DEF R
    <3> QED BY <1>7, <2>5, <3>1, SumFinite
  <2> QED BY <2>2, <2>6, <2>7, <2>8, <2>9, <2>10
<1> QED BY <1>2, <1>3, <1>4, <1>8, <1>9

-----------------------------------------------------------------------------
\* The rows in hand and in the log.

\* The chunks in a set of good rows.
LEMMA RowSums ==
    ASSUME NEW T, IsFiniteSet(T), \A r \in T : GoodRow(r), NEW q \in Paths
    PROVE  /\ InRows(q, T) \in Nat /\ \A r \in T : r.perPath[q].chunks \in Nat
           /\ \A r \in T : InRows(q, T) = InRows(q, T \ {r}) + r.perPath[q].chunks
           /\ InRows(q, {}) = 0
<1> DEFINE f == [r \in T |-> r.perPath[q].chunks]
<1>1. \A r \in T : r.perPath[q].chunks \in Nat
  BY DEF GoodRow, BurstRow, PathRow
<1>2. \A r \in T : f[r] \in Nat
  BY <1>1
<1>3. InRows(q, T) = SumOver(T, f)
  BY DEF InRows
<1>4. ASSUME NEW r \in T PROVE InRows(q, T) = InRows(q, T \ {r}) + r.perPath[q].chunks
  <2> DEFINE g == [x \in T \ {r} |-> x.perPath[q].chunks]
  <2>1. InRows(q, T \ {r}) = SumOver(T \ {r}, g) /\ f[r] = r.perPath[q].chunks
    BY DEF InRows
  <2>2. \A x \in T \ {r} : f[x] = g[x]
    OBVIOUS
  <2> HIDE DEF f, g
  <2>3. SumOver(T \ {r}, f) = SumOver(T \ {r}, g)
    BY <2>2, SumSame
  <2>4. SumOver(T, f) = SumOver(T \ {r}, f) + f[r]
    BY <1>2, SumRemove
  <2> QED BY <1>3, <2>1, <2>3, <2>4
<1> HIDE DEF f
<1>5. InRows(q, T) \in Nat
  BY <1>2, <1>3, SumFinite
<1>6. InRows(q, {}) = 0
  BY SumEmpty DEF InRows
<1> QED BY <1>1, <1>4, <1>5, <1>6

\* One goroutine's rows replaced by others.
LEMMA HandsCount ==
    ASSUME BatchInv, NEW a \in Agents, NEW T, IsFiniteSet(T), \A r \in T : GoodRow(r),
           batch' = [batch EXCEPT ![a] = T], NEW q \in Paths
    PROVE  /\ InHands(q) \in Nat /\ InHands(q)' \in Nat
           /\ InHands(q)' + InRows(q, batch[a]) = InHands(q) + InRows(q, T)
<1> DEFINE f == [b \in Agents |-> InRows(q, batch[b])]
           g == [b \in Agents |-> InRows(q, batch'[b])]
<1>1. IsFiniteSet(Agents)
  <2>1. Agents = ({"sweep"} \cup {"waiter"}) \cup {"signal"}
    BY DEF Agents
  <2> QED BY <2>1, FS_Singleton, FS_Union
<1>2. /\ batch'[a] = T /\ \A b \in Agents \ {a} : batch'[b] = batch[b]
      /\ batch \in [Agents -> SUBSET BurstRow]
  BY DEF BatchInv
<1>3. \A b \in Agents : InRows(q, batch[b]) \in Nat
  BY RowSums DEF BatchInv
<1>4. InRows(q, T) \in Nat
  BY RowSums
<1>5. InHands(q) = SumOver(Agents, f) /\ InHands(q)' = SumOver(Agents, g)
  BY DEF InHands, InRows
<1>6. f[a] = InRows(q, batch[a]) /\ g[a] = InRows(q, T)
  BY <1>2
<1>7. \A b \in Agents : f[b] \in Nat
  BY <1>3
<1>8. g[a] \in Nat
  BY <1>4, <1>6
<1>9. \A b \in Agents \ {a} : g[b] = f[b]
  BY <1>2
<1> HIDE DEF f, g
<1>10. SumOver(Agents, g) + f[a] = SumOver(Agents, f) + g[a]
  BY <1>1, <1>7, <1>8, <1>9, SumUpdate
<1>11. \A b \in Agents : g[b] \in Nat
  BY <1>7, <1>8, <1>9
<1>12. SumOver(Agents, f) \in Nat /\ SumOver(Agents, g) \in Nat
  BY <1>1, <1>7, <1>11, SumFinite
<1> QED BY <1>5, <1>6, <1>10, <1>12

\* burstLog.Add.
LEMMA LogCounts ==
    ASSUME LogInv, NEW r, GoodRow(r), burstLog' = Append(burstLog, r), NEW q \in Paths
    PROVE  /\ InLog(q) \in Nat /\ InLog(q)' = InLog(q) + r.perPath[q].chunks
<1> DEFINE k == Len(burstLog)
           S == 1..k
           y == k + 1
           f == [i \in 1..Len(burstLog) |-> burstLog[i].perPath[q].chunks]
           g == [i \in 1..Len(burstLog') |-> burstLog'[i].perPath[q].chunks]
<1>1. /\ r \in BurstRow /\ burstLog \in Seq(BurstRow) /\ r.perPath[q].chunks \in Nat
      /\ \A i \in 1..Len(burstLog) : burstLog[i].perPath[q].chunks \in Nat
  BY DEF LogInv, GoodRow, BurstRow, PathRow
<1>2. /\ k \in Nat /\ Len(burstLog') = k + 1 /\ burstLog'[k + 1] = r
      /\ \A i \in 1..k : burstLog'[i] = burstLog[i]
  BY <1>1
<1>3. IsFiniteSet(S)
  <2>1. 1 \in Int /\ k \in Int
    BY <1>2
  <2> QED BY <2>1, FS_Interval
<1>4. 1..Len(burstLog') = S \cup {y} /\ y \notin S
  BY <1>2, SMT
<1>5. InLog(q) = SumOver(S, f) /\ InLog(q)' = SumOver(S \cup {y}, g)
  BY <1>4 DEF InLog
<1>6. \A i \in S : f[i] \in Nat
  BY <1>1
<1>7. g[y] = r.perPath[q].chunks
  <2>1. y \in 1..Len(burstLog')
    BY <1>4
  <2> QED BY <1>2, <2>1
<1>8. \A i \in S : g[i] = f[i]
  BY <1>2, <1>4
<1>9. \A i \in S : g[i] \in Nat
  BY <1>6, <1>8
<1>10. g[y] \in Nat /\ y \notin S
  BY <1>1, <1>4, <1>7
<1> HIDE DEF S, y, f, g, k
<1>11. SumOver(S \cup {y}, g) = SumOver(S, g) + g[y]
  BY <1>3, <1>9, <1>10, SumAdd
<1>12. SumOver(S, g) = SumOver(S, f)
  BY <1>8, SumSame
<1>13. SumOver(S, f) \in Nat
  BY <1>3, <1>6, SumFinite
<1> QED BY <1>5, <1>7, <1>11, <1>12, <1>13
\* Every place holds a number of chunks.
LEMMA PlacesCount ==
    ASSUME TrackerInv, BatchInv, LogInv, NEW q \in Paths
    PROVE  InTracker(q) \in Nat /\ InHands(q) \in Nat /\ InLog(q) \in Nat
<1>1. InTracker(q) \in Nat
  BY TrackerSums
<1>2. InHands(q) \in Nat
  <2>1. IsFiniteSet(Agents)
    <3>1. Agents = ({"sweep"} \cup {"waiter"}) \cup {"signal"}
      BY DEF Agents
    <3> QED BY <3>1, FS_Singleton, FS_Union
  <2> DEFINE f == [a \in Agents |-> InRows(q, batch[a])]
  <2>2. \A a \in Agents : f[a] \in Nat
    BY RowSums DEF BatchInv
  <2>3. InHands(q) = SumOver(Agents, f)
    BY DEF InHands
  <2> HIDE DEF f
  <2> QED BY <2>1, <2>2, <2>3, SumFinite
<1>3. InLog(q) \in Nat
  <2>1. Len(burstLog) \in Nat
    BY DEF LogInv
  <2> DEFINE f == [i \in 1..Len(burstLog) |-> burstLog[i].perPath[q].chunks]
  <2>2. ASSUME NEW i \in 1..Len(burstLog) PROVE f[i] \in Nat
    <3>1. burstLog[i].perPath \in [Paths -> PathRow]
      BY DEF LogInv, GoodRow, BurstRow
    <3> QED BY <3>1 DEF PathRow
  <2>3. IsFiniteSet(1..Len(burstLog))
    <3>1. 1 \in Int /\ Len(burstLog) \in Int
      BY <2>1
    <3> QED BY <3>1, FS_Interval
  <2>4. InLog(q) = SumOver(1..Len(burstLog), f)
    BY DEF InLog
  <2>5. \A i \in 1..Len(burstLog) : f[i] \in Nat
    BY <2>2
  <2> HIDE DEF f
  <2> QED BY <2>3, <2>4, <2>5, SumFinite
<1> QED BY <1>1, <1>2, <1>3

-----------------------------------------------------------------------------
\* The steps.

\* A step that moves no chunk from one place to another.
LEMMA QuietData ==
    ASSUME TrackerInv, BatchInv, LogInv, CountInv,
           UNCHANGED <<bursts, batch, burstLog, chunks, last>>,
           snap' \in [Agents -> 0..Len(burstLog)], file' \in 0..Len(burstLog),
           \A a \in Agents : pc'[a] # "record" => batch[a] = {}
    PROVE  TrackerInv' /\ BatchInv' /\ LogInv' /\ CountInv'
<1>1. TrackerInv'
  BY DEF TrackerInv
<1>2. BatchInv'
  BY DEF BatchInv
<1>3. LogInv'
  BY DEF LogInv
<1>4. \A p \in Paths : InTracker(p)' = InTracker(p) /\ InHands(p)' = InHands(p)
                       /\ InLog(p)' = InLog(p)
  BY DEF InTracker, InHands, InRows, InLog
<1>5. CountInv'
  BY <1>4 DEF CountInv, EveryArrivalAccounted
<1> QED BY <1>1, <1>2, <1>3, <1>5

\* A reporting goroutine moves on; the waiter only past returned handlers,
\* and away from flush only with an empty tracker.
LEMMA AgentMoves ==
    ASSUME ControlTypes, ControlInv, NEW a \in Agents, NEW y \in Places,
           pc' = [pc EXCEPT ![a] = y], UNCHANGED <<start, wg, hpc>>,
           exit' \in {"no", "clean", "panic"}, stopped' \in BOOLEAN,
           a # "signal" => pc[a] # "off",
           a = "waiter" => \A p \in Paths : hpc[p] = "done",
           pc'["waiter"] \in {"record", "create", "write", "done"} => DOMAIN bursts' = {}
    PROVE  ControlTypes' /\ ControlInv'
<1>1. pc' \in [Agents -> Places]
  BY DEF ControlTypes
<1>2. ControlTypes'
  BY <1>1 DEF ControlTypes
<1>3. {"waiter", "sweep"} \subseteq Agents
  BY DEF Agents
<1>4. start # "ready" => pc'["waiter"] = "off" /\ pc'["sweep"] = "off"
  BY <1>3 DEF ControlTypes, ControlInv
<1>5. pc'["waiter"] \notin {"off", "wait"} => \A p \in Paths : hpc[p] = "done"
  BY <1>3 DEF ControlTypes, ControlInv
<1> QED BY <1>2, <1>4, <1>5 DEF ControlInv

\* serverSession.start: the last of its steps gives the WaitGroup one unit
\* per path.
LEMMA StartKeeps ==
    ASSUME ContinuousInv, exit = "no", StartStep
    PROVE  ContinuousInv'
<1>0. ControlTypes /\ ControlInv /\ TrackerInv /\ BatchInv /\ LogInv /\ CountInv
  BY DEF ContinuousInv
<1>1. {"waiter", "sweep", "signal"} = Agents /\ pc \in [Agents -> Places]
  BY <1>0 DEF Agents, ControlTypes
<1>2. CASE SetTracker \/ SetChannel
  <2>1. /\ UNCHANGED <<wg, hpc, chunks, last, pc, batch, snap, burstLog, file, stopped, exit, bursts>>
        /\ start # "ready" /\ start' \in {"tracker", "channel"}
    BY <1>2 DEF SetTracker, SetChannel, hvars
  <2>2. ControlTypes' /\ ControlInv'
    BY <1>0, <2>1 DEF ControlTypes, ControlInv
  <2>3. TrackerInv' /\ BatchInv' /\ LogInv' /\ CountInv'
    BY <1>0, <2>1, QuietData DEF BatchInv, LogInv
  <2> QED BY <2>2, <2>3 DEF ContinuousInv
<1>3. CASE Ready
  <2>1. /\ start # "ready" /\ start' = "ready" /\ wg' = wg + NumPaths
        /\ pc' = [pc EXCEPT !["sweep"] = "select", !["waiter"] = "wait"]
        /\ UNCHANGED <<hpc, chunks, last, batch, snap, burstLog, file, stopped, exit, bursts>>
    BY <1>3 DEF Ready
  <2>2. wg = 0 /\ pc["waiter"] = "off" /\ pc["sweep"] = "off" /\ \A p \in Paths : hpc[p] = "wait"
    BY <1>0, <2>1 DEF ControlInv
  <2>3. /\ pc' \in [Agents -> Places] /\ pc'["waiter"] = "wait" /\ pc'["sweep"] = "select"
        /\ pc'["signal"] = pc["signal"]
    BY <1>1, <2>1 DEF Places
  <2>4. wg' = Cardinality({p \in Paths : hpc'[p] # "done"})
    <3>1. {p \in Paths : hpc'[p] # "done"} = Paths
      BY <2>1, <2>2
    <3> QED BY <2>1, <2>2, <3>1, PathsFinite, PathAssumption
  <2>5. ControlTypes' /\ ControlInv'
    BY <1>0, <2>1, <2>3, <2>4 DEF ControlTypes, ControlInv
  <2>6. \A a \in Agents : pc'[a] # "record" => batch[a] = {}
    BY <1>0, <1>1, <2>2, <2>3 DEF BatchInv
  <2>7. TrackerInv' /\ BatchInv' /\ LogInv' /\ CountInv'
    BY <1>0, <2>1, <2>6, QuietData DEF LogInv
  <2> QED BY <2>5, <2>7 DEF ContinuousInv
<1> QED BY <1>2, <1>3 DEF StartStep

\* waitReady and pathDone.
LEMMA HandlerMoves ==
    ASSUME ContinuousInv, exit = "no", NEW p \in Paths, Join(p) \/ PathDone(p)
    PROVE  ContinuousInv'
<1>0. ControlTypes /\ ControlInv /\ TrackerInv /\ BatchInv /\ LogInv /\ CountInv
  BY DEF ContinuousInv
<1>1. /\ UNCHANGED <<start, chunks, last, pc, batch, snap, burstLog, file, stopped, exit, bursts>>
      /\ start = "ready" /\ hpc[p] # "done" /\ hpc \in [Paths -> {"wait", "read", "done"}]
  BY <1>0 DEF Join, PathDone, ControlTypes, ControlInv
<1>2. TrackerInv' /\ BatchInv' /\ LogInv' /\ CountInv'
  BY <1>0, <1>1, QuietData DEF BatchInv, LogInv
<1>3. hpc' \in [Paths -> {"wait", "read", "done"}]
  BY <1>1 DEF Join, PathDone
<1>4. pc["waiter"] \in {"off", "wait"}
  BY <1>0, <1>1 DEF ControlInv
<1> DEFINE U == {q \in Paths : hpc[q] # "done"}
<1>5. wg = Cardinality(U)
  BY <1>0, <1>1 DEF ControlInv
<1>6. wg' = Cardinality({q \in Paths : hpc'[q] # "done"})
  <2>1. CASE Join(p)
    <3>1. {q \in Paths : hpc'[q] # "done"} = U
      BY <1>1, <2>1 DEF Join
    <3> QED BY <1>5, <2>1, <3>1 DEF Join
  <2>2. CASE PathDone(p)
    <3>1. {q \in Paths : hpc'[q] # "done"} = U \ {p} /\ p \in U
      BY <1>1, <2>2 DEF PathDone
    <3>2. IsFiniteSet(U)
      BY PathsFinite, FS_Subset
    <3> HIDE DEF U
    <3>3. Cardinality(U \ {p}) = Cardinality(U) - 1
      BY <3>1, <3>2, FS_RemoveElement
    <3> QED BY <1>5, <2>2, <3>1, <3>3 DEF PathDone
  <2> QED BY <2>1, <2>2
<1>7. ControlTypes' /\ ControlInv'
  BY <1>0, <1>1, <1>3, <1>4, <1>6 DEF ControlTypes, ControlInv
<1> QED BY <1>2, <1>7 DEF ContinuousInv

\* A chunk is read: the handler counts it and the tracker has it.
LEMMA ReadKeeps ==
    ASSUME ContinuousInv, exit = "no", NEW p \in Paths, ReadChunk(p)
    PROVE  ContinuousInv'
<1>0. ControlTypes /\ ControlInv /\ TrackerInv /\ BatchInv /\ LogInv /\ CountInv
  BY DEF ContinuousInv
<1>1. PICK f \in Frames, corrupt \in BOOLEAN :
         last' = [last EXCEPT ![p] = f] /\ Write(BurstOf(f), SeqOf(f), corrupt, p)
  BY DEF ReadChunk
<1>2. /\ hpc[p] = "read" /\ chunks' = [chunks EXCEPT ![p] = @ + 1]
      /\ UNCHANGED <<start, wg, hpc, pc, batch, snap, burstLog, file, stopped, exit>>
  BY DEF ReadChunk
<1>3. /\ TrackerInv'
      /\ \A q \in Paths : InTracker(q)' = InTracker(q) + (IF q = p THEN 1 ELSE 0)
  BY <1>0, <1>1, FrameFacts, WriteCounts
<1>4. pc["waiter"] \in {"off", "wait"}
  BY <1>0, <1>2 DEF ControlInv
<1>5. ControlTypes' /\ ControlInv'
  BY <1>0, <1>2, <1>4 DEF ControlTypes, ControlInv
<1>6. BatchInv' /\ LogInv'
  BY <1>0, <1>2 DEF BatchInv, LogInv
<1>7. CountInv'
  <2>1. \A q \in Paths : InHands(q)' = InHands(q) /\ InLog(q)' = InLog(q)
    BY <1>2 DEF InHands, InRows, InLog
  <2>2. /\ chunks' \in [Paths -> Nat]
        /\ \A q \in Paths : chunks'[q] = chunks[q] + (IF q = p THEN 1 ELSE 0)
    BY <1>0, <1>2 DEF CountInv
  <2>3. last' \in [Paths -> Int]
    <3>1. f \in Int
      BY DEF Frames
    <3> QED BY <1>0, <1>1, <3>1 DEF CountInv
  <2>4. ASSUME NEW q \in Paths PROVE chunks'[q] = InTracker(q)' + InHands(q)' + InLog(q)'
    <3>1. InTracker(q) \in Nat /\ InHands(q) \in Nat /\ InLog(q) \in Nat
      BY <1>0, PlacesCount
    <3>5. chunks[q] = InTracker(q) + InHands(q) + InLog(q)
      BY <1>0 DEF CountInv, EveryArrivalAccounted
    <3>6. /\ InTracker(q)' = InTracker(q) + (IF q = p THEN 1 ELSE 0)
          /\ InHands(q)' = InHands(q) /\ InLog(q)' = InLog(q)
          /\ chunks'[q] = chunks[q] + (IF q = p THEN 1 ELSE 0)
      BY <1>3, <2>1, <2>2
    <3> QED BY <3>1, <3>5, <3>6, SMT
  <2> QED BY <2>2, <2>3, <2>4 DEF CountInv, EveryArrivalAccounted
<1> QED BY <1>3, <1>5, <1>6, <1>7 DEF ContinuousInv

\* Time passing changes no count.
LEMMA IdleKeeps ==
    ASSUME ContinuousInv, exit = "no", NEW id, Idle(id)
    PROVE  ContinuousInv'
<1>0. ControlTypes /\ ControlInv /\ TrackerInv /\ BatchInv /\ LogInv /\ CountInv
  BY DEF ContinuousInv
<1>1. /\ id \in DOMAIN bursts /\ bursts' = [bursts EXCEPT ![id].idle = TRUE]
      /\ UNCHANGED <<start, wg, hpc, chunks, last, pc, batch, snap, burstLog, file, stopped, exit>>
  BY DEF Idle, GoIdle, hvars
<1> DEFINE b == bursts[id]
           c == [b EXCEPT !.idle = TRUE]
<1>2. /\ DOMAIN bursts' = DOMAIN bursts /\ bursts'[id] = c
      /\ \A i \in DOMAIN bursts \ {id} : bursts'[i] = bursts[i]
      /\ bursts' = [i \in DOMAIN bursts' |-> bursts'[i]]
  BY <1>1
<1>3. GoodBurst(b)
  BY <1>0, <1>1 DEF TrackerInv
<1>4. /\ c \in BurstState /\ c.bytesReceived = b.bytesReceived /\ c.perPath = b.perPath
      /\ c.seen = b.seen
  BY <1>3 DEF GoodBurst, BurstState
<1>5. GoodBurst(c)
  BY <1>3, <1>4 DEF GoodBurst
<1> HIDE DEF c
<1>6. TrackerInv'
  <2>1. \A i \in DOMAIN bursts' : GoodBurst(bursts'[i])
    BY <1>0, <1>2, <1>5 DEF TrackerInv
  <2> QED BY <1>0, <1>2, <2>1 DEF TrackerInv, GoodBurst
<1>7. \A i \in DOMAIN bursts : bursts'[i].perPath = bursts[i].perPath
  BY <1>2, <1>4
<1>8. ASSUME NEW q \in Paths PROVE InTracker(q)' = InTracker(q)
  <2>1. [i \in DOMAIN bursts |-> bursts'[i].perPath[q].chunks]
          = [i \in DOMAIN bursts |-> bursts[i].perPath[q].chunks]
    BY <1>7
  <2> QED BY <1>2, <2>1 DEF InTracker
<1>9. \A q \in Paths : InHands(q)' = InHands(q) /\ InLog(q)' = InLog(q)
  BY <1>1 DEF InHands, InRows, InLog
<1>10. CountInv'
  BY <1>0, <1>1, <1>8, <1>9 DEF CountInv, EveryArrivalAccounted
<1>11. BatchInv' /\ LogInv'
  BY <1>0, <1>1 DEF BatchInv, LogInv
<1>12. ControlTypes' /\ ControlInv'
  BY <1>0, <1>1, <1>2 DEF ControlTypes, ControlInv
<1> QED BY <1>6, <1>10, <1>11, <1>12 DEF ContinuousInv

\* Where recordBursts returns to.
LEMMA ReturnPlace ==
    ASSUME NEW a \in Agents
    PROVE  /\ Return(a) \in {"select", "done"} /\ Return(a) \in Places
           /\ a # "sweep" => Return(a) = "done"
BY DEF Agents, Return, Places

\* Expire by the sweep, ExpireAll by the waiter or the signal handler: the
\* rows go from the tracker into the hands of the goroutine.
LEMMA TakeKeeps ==
    ASSUME ContinuousInv, exit = "no", NEW a \in Agents, NEW from, NEW ids,
           ids \subseteq DOMAIN bursts, Take(a, from, ids), from \notin {"off", "wait", "record"},
           a = "waiter" => ids = DOMAIN bursts
    PROVE  ContinuousInv'
<1>0. ControlTypes /\ ControlInv /\ TrackerInv /\ BatchInv /\ LogInv /\ CountInv
  BY DEF ContinuousInv
<1> DEFINE T == {Stats(id) : id \in ids}
           y == IF ids = {} THEN Return(a) ELSE "record"
<1>1. /\ pc[a] = from /\ pc' = [pc EXCEPT ![a] = y] /\ batch' = [batch EXCEPT ![a] = T]
      /\ Forget(ids)
      /\ UNCHANGED <<start, wg, hpc, chunks, last, snap, burstLog, file, stopped, exit>>
  BY DEF Take, Go, hvars
<1>2. y \in Places /\ (y # "record" => T = {})
  BY ReturnPlace DEF Places
<1> HIDE DEF y
<1>3. /\ TrackerInv' /\ DOMAIN bursts' = DOMAIN bursts \ ids
      /\ IsFiniteSet(T) /\ \A r \in T : GoodRow(r)
      /\ \A q \in Paths : /\ InTracker(q)' \in Nat /\ InRows(q, T) \in Nat
                          /\ InTracker(q) = InTracker(q)' + InRows(q, T)
  BY <1>0, <1>1, ForgetCounts
<1> HIDE DEF T
<1>t. pc \in [Agents -> Places] /\ batch \in [Agents -> SUBSET BurstRow]
  BY <1>0 DEF ControlTypes, BatchInv
<1>4. ControlTypes' /\ ControlInv'
  <2>1. a = "waiter" => \A p \in Paths : hpc[p] = "done"
    BY <1>0, <1>1 DEF ControlInv
  <2>2. pc'["waiter"] \in {"record", "create", "write", "done"} => DOMAIN bursts' = {}
    <3>1. CASE a = "waiter"
      BY <1>3, <3>1
    <3>2. CASE a # "waiter"
      <4>1. pc'["waiter"] = pc["waiter"]
        BY <1>1, <1>t, <3>2
      <4> QED BY <1>0, <1>3, <4>1 DEF ControlInv
    <3> QED BY <3>1, <3>2
  <2> QED BY <1>0, <1>1, <1>2, <2>1, <2>2, AgentMoves DEF ControlTypes
<1>5. BatchInv'
  <2>1. batch' \in [Agents -> SUBSET BurstRow]
    BY <1>1, <1>3, <1>t DEF GoodRow
  <2>2. ASSUME NEW b \in Agents
        PROVE  /\ IsFiniteSet(batch'[b]) /\ (\A r \in batch'[b] : GoodRow(r))
               /\ pc'[b] # "record" => batch'[b] = {}
    <3>1. CASE b = a
      BY <1>1, <1>2, <1>3, <1>t, <3>1
    <3>2. CASE b # a
      BY <1>0, <1>1, <1>t, <3>2 DEF BatchInv
    <3> QED BY <3>1, <3>2
  <2> QED BY <2>1, <2>2 DEF BatchInv
<1>6. LogInv'
  BY <1>0, <1>1 DEF LogInv
<1>7. CountInv'
  <2>1. batch[a] = {}
    BY <1>0, <1>1 DEF BatchInv
  <2>2. ASSUME NEW q \in Paths PROVE chunks[q] = InTracker(q)' + InHands(q)' + InLog(q)'
    <3>1. InTracker(q) \in Nat /\ InHands(q) \in Nat /\ InLog(q) \in Nat
      BY <1>0, PlacesCount
    <3>2. InHands(q)' \in Nat /\ InHands(q)' + InRows(q, batch[a]) = InHands(q) + InRows(q, T)
      BY <1>0, <1>1, <1>3, HandsCount
    <3>3. InRows(q, batch[a]) = 0
      BY <1>3, <2>1, RowSums
    <3>4. InLog(q)' = InLog(q)
      BY <1>1 DEF InLog
    <3>5. chunks[q] = InTracker(q) + InHands(q) + InLog(q)
      BY <1>0 DEF CountInv, EveryArrivalAccounted
    <3>6. /\ InTracker(q)' \in Nat /\ InRows(q, T) \in Nat
          /\ InTracker(q) = InTracker(q)' + InRows(q, T)
      BY <1>3
    <3> QED BY <3>1, <3>2, <3>3, <3>4, <3>5, <3>6, SMT
  <2> QED BY <1>0, <1>1, <2>2 DEF CountInv, EveryArrivalAccounted
<1> QED BY <1>3, <1>4, <1>5, <1>6, <1>7 DEF ContinuousInv

\* burstLog.Add: a row goes from the goroutine's hands into the log.
LEMMA AddRowKeeps ==
    ASSUME ContinuousInv, exit = "no", NEW a \in Agents, AddRow(a)
    PROVE  ContinuousInv'
<1>0. ControlTypes /\ ControlInv /\ TrackerInv /\ BatchInv /\ LogInv /\ CountInv
  BY DEF ContinuousInv
<1>t. batch \in [Agents -> SUBSET BurstRow] /\ IsFiniteSet(batch[a])
      /\ \A r \in batch[a] : GoodRow(r)
  BY <1>0 DEF BatchInv
<1>1. PICK r \in batch[a] : /\ burstLog' = Append(burstLog, r)
                            /\ batch' = [batch EXCEPT ![a] = @ \ {r}]
  BY DEF AddRow
<1>2. /\ pc[a] = "record"
      /\ UNCHANGED <<start, wg, hpc, chunks, last, pc, snap, file, stopped, exit, bursts>>
  BY DEF AddRow, hvars
<1> DEFINE T == batch[a] \ {r}
<1>3. IsFiniteSet(T) /\ (\A x \in T : GoodRow(x)) /\ batch' = [batch EXCEPT ![a] = T]
  <2>1. IsFiniteSet(T)
    BY <1>t, FS_RemoveElement
  <2> QED BY <1>1, <1>t, <2>1
<1>4. ControlTypes' /\ ControlInv'
  BY <1>0, <1>2 DEF ControlTypes, ControlInv
<1>5. TrackerInv'
  BY <1>0, <1>2 DEF TrackerInv
<1>6. GoodRow(r) /\ r \in BurstRow
  BY <1>t DEF GoodRow
<1>7. LogInv'
  <2>1. /\ burstLog' \in Seq(BurstRow) /\ Len(burstLog') = Len(burstLog) + 1
        /\ Len(burstLog) \in Nat /\ burstLog'[Len(burstLog) + 1] = r
        /\ \A i \in 1..Len(burstLog) : burstLog'[i] = burstLog[i]
    BY <1>0, <1>1, <1>6 DEF LogInv
  <2>2. ASSUME NEW i \in 1..Len(burstLog') PROVE GoodRow(burstLog'[i])
    <3>1. i \in 1..Len(burstLog) \/ i = Len(burstLog) + 1
      BY <2>1, SMT
    <3> QED BY <1>0, <1>6, <2>1, <3>1 DEF LogInv
  <2>3. snap' \in [Agents -> 0..Len(burstLog')] /\ file' \in 0..Len(burstLog')
    <3>1. 0..Len(burstLog) \subseteq 0..Len(burstLog')
      BY <2>1, SMT
    <3> QED BY <1>0, <1>2, <3>1 DEF LogInv
  <2> QED BY <2>1, <2>2, <2>3 DEF LogInv
<1>8. BatchInv'
  <2>1. batch' \in [Agents -> SUBSET BurstRow]
    BY <1>1, <1>t
  <2>2. ASSUME NEW b \in Agents
        PROVE  /\ IsFiniteSet(batch'[b]) /\ (\A x \in batch'[b] : GoodRow(x))
               /\ pc'[b] # "record" => batch'[b] = {}
    <3>1. CASE b = a
      <4>1. batch'[b] = T
        BY <1>3, <1>t, <3>1
      <4> QED BY <1>2, <1>3, <3>1, <4>1
    <3>2. CASE b # a
      BY <1>0, <1>1, <1>2, <1>t, <3>2 DEF BatchInv
    <3> QED BY <3>1, <3>2
  <2> QED BY <2>1, <2>2 DEF BatchInv
<1>9. CountInv'
  <2>1. ASSUME NEW q \in Paths PROVE chunks[q] = InTracker(q)' + InHands(q)' + InLog(q)'
    <3>1. InTracker(q) \in Nat /\ InHands(q) \in Nat /\ InLog(q) \in Nat
      BY <1>0, PlacesCount
    <3> HIDE DEF T
    <3>2. InHands(q)' \in Nat /\ InHands(q)' + InRows(q, batch[a]) = InHands(q) + InRows(q, T)
      BY <1>0, <1>3, HandsCount
    <3>3. InRows(q, T) \in Nat
      BY <1>3, RowSums
    <3>4. InRows(q, batch[a]) = InRows(q, T) + r.perPath[q].chunks /\ r.perPath[q].chunks \in Nat
      BY <1>t, RowSums DEF T
    <3>5. InLog(q)' = InLog(q) + r.perPath[q].chunks
      BY <1>0, <1>1, <1>6, LogCounts
    <3>6. InTracker(q)' = InTracker(q)
      BY <1>2 DEF InTracker
    <3>7. chunks[q] = InTracker(q) + InHands(q) + InLog(q)
      BY <1>0 DEF CountInv, EveryArrivalAccounted
    <3> QED BY <3>1, <3>2, <3>3, <3>4, <3>5, <3>6, <3>7, SMT
  <2> QED BY <1>0, <1>2, <2>1 DEF CountInv, EveryArrivalAccounted
<1> QED BY <1>4, <1>5, <1>7, <1>8, <1>9 DEF ContinuousInv

\* The rest of recordBursts: a snapshot of the log is written to the file.
LEMMA FileKeeps ==
    ASSUME ContinuousInv, exit = "no", NEW a \in Agents,
           Snapshot(a) \/ CreateFile(a) \/ WriteFile(a)
    PROVE  ContinuousInv'
<1>0. ControlTypes /\ ControlInv /\ TrackerInv /\ BatchInv /\ LogInv /\ CountInv
  BY DEF ContinuousInv
<1>1. PICK y \in Places :
        /\ pc' = [pc EXCEPT ![a] = y] /\ pc[a] \in {"record", "create", "write"}
        /\ y # "record" /\ (pc[a] = "record" => batch[a] = {})
        /\ (a = "waiter" => y \in {"create", "write", "done"})
  BY ReturnPlace DEF Snapshot, CreateFile, WriteFile, Go, Places
<1>2. UNCHANGED <<start, wg, hpc, chunks, last, batch, burstLog, stopped, exit, bursts>>
  BY DEF Snapshot, CreateFile, WriteFile, hvars
<1>t. pc \in [Agents -> Places] /\ Len(burstLog) \in Nat /\ file \in 0..Len(burstLog)
      /\ snap \in [Agents -> 0..Len(burstLog)]
  BY <1>0 DEF ControlTypes, LogInv
<1>3. ControlTypes' /\ ControlInv'
  <2>1. a = "waiter" => \A p \in Paths : hpc[p] = "done"
    BY <1>0, <1>1 DEF ControlInv
  <2>2. pc'["waiter"] \in {"record", "create", "write", "done"} => DOMAIN bursts' = {}
    <3>1. CASE a = "waiter"
      BY <1>0, <1>1, <1>2, <3>1 DEF ControlInv
    <3>2. CASE a # "waiter"
      <4>1. pc'["waiter"] = pc["waiter"]
        BY <1>1, <1>t, <3>2
      <4> QED BY <1>0, <1>2, <4>1 DEF ControlInv
    <3> QED BY <3>1, <3>2
  <2> QED BY <1>0, <1>1, <1>2, <2>1, <2>2, AgentMoves DEF ControlTypes
<1>4. \A b \in Agents : pc'[b] # "record" => batch[b] = {}
  BY <1>0, <1>1, <1>t DEF BatchInv
<1>5. snap' \in [Agents -> 0..Len(burstLog)] /\ file' \in 0..Len(burstLog)
  <2>1. CASE Snapshot(a) \/ CreateFile(a)
    BY <1>t, <2>1 DEF Snapshot, CreateFile
  <2>2. CASE WriteFile(a)
    <3>1. snap[a] \in 0..Len(burstLog) /\ file \in Int /\ snap[a] \in Int
      BY <1>t
    <3>2. Max({file, snap[a]}) \in {file, snap[a]}
      BY <3>1, MaxOfTwo
    <3>3. file' = Max({file, snap[a]}) /\ snap' = [snap EXCEPT ![a] = 0]
      BY <2>2 DEF WriteFile
    <3>4. file' \in {file, snap[a]}
      BY <3>2, <3>3
    <3> QED BY <1>t, <3>1, <3>3, <3>4
  <2> QED BY <2>1, <2>2
<1>6. TrackerInv' /\ BatchInv' /\ LogInv' /\ CountInv'
  BY <1>0, <1>2, <1>4, <1>5, QuietData
<1> QED BY <1>3, <1>6 DEF ContinuousInv

\* Waiting, stopping, checking and closing.
LEMMA ControlKeeps ==
    ASSUME ContinuousInv, exit = "no",
           \/ SweepStop \/ WaitDone \/ Interrupt \/ ProcessExit
           \/ \E a \in Callers : CheckTracker(a) \/ CloseSweep(a)
    PROVE  ContinuousInv'
<1>0. ControlTypes /\ ControlInv /\ TrackerInv /\ BatchInv /\ LogInv /\ CountInv
  BY DEF ContinuousInv
<1>t. pc \in [Agents -> Places] /\ Callers \subseteq Agents /\ stopped \in BOOLEAN
      /\ {"sweep", "waiter", "signal"} \subseteq Agents
  BY <1>0 DEF ControlTypes, Callers, Agents
<1>1. UNCHANGED <<start, wg, hpc, chunks, last, batch, snap, burstLog, file, bursts>>
  BY DEF SweepStop, WaitDone, Interrupt, ProcessExit, CheckTracker, CloseSweep, hvars
<1>2. ASSUME NEW a \in Agents, NEW y \in Places, pc' = [pc EXCEPT ![a] = y],
             pc[a] # "record", y # "record", exit' = "no", stopped' \in BOOLEAN,
             a # "signal" => pc[a] # "off",
             a = "waiter" => /\ y \notin {"create", "write", "done"}
                             /\ \A p \in Paths : hpc[p] = "done"
      PROVE  ContinuousInv'
  <2>1. \A b \in Agents : pc'[b] # "record" => batch[b] = {}
    BY <1>0, <1>2, <1>t DEF BatchInv
  <2>2. snap' \in [Agents -> 0..Len(burstLog)] /\ file' \in 0..Len(burstLog)
    BY <1>0, <1>1 DEF LogInv
  <2>3. TrackerInv' /\ BatchInv' /\ LogInv' /\ CountInv'
    BY <1>0, <1>1, <2>1, <2>2, QuietData
  <2>4. pc'["waiter"] \in {"record", "create", "write", "done"} => DOMAIN bursts' = {}
    <3>1. CASE a = "waiter"
      BY <1>2, <1>t, <3>1
    <3>2. CASE a # "waiter"
      BY <1>0, <1>1, <1>2, <1>t, <3>2 DEF ControlInv
    <3> QED BY <3>1, <3>2
  <2>5. ControlTypes' /\ ControlInv'
    BY <1>0, <1>1, <1>2, <2>4, AgentMoves
  <2> QED BY <2>3, <2>5 DEF ContinuousInv
<1>3. CASE SweepStop
  BY <1>2, <1>3, <1>t DEF SweepStop, Go, Places
<1>4. CASE WaitDone
  <2>1. wg = 0 /\ pc["waiter"] = "wait" /\ pc' = [pc EXCEPT !["waiter"] = "check"]
        /\ UNCHANGED <<stopped, exit>>
    BY <1>4 DEF WaitDone, Go
  <2> DEFINE U == {p \in Paths : hpc[p] # "done"}
  <2>2. Cardinality(U) = 0
    BY <1>0, <2>1 DEF ControlInv
  <2>3. IsFiniteSet(U)
    BY PathsFinite, FS_Subset
  <2>4. U = {}
    <3> HIDE DEF U
    <3> QED BY <2>2, <2>3, FS_EmptySet
  <2>5. \A p \in Paths : hpc[p] = "done"
    BY <2>4
  <2> QED BY <1>2, <1>t, <2>1, <2>5 DEF Places
<1>5. CASE Interrupt
  BY <1>2, <1>5, <1>t DEF Interrupt, Go, Places
<1>6. ASSUME NEW a \in Callers, CheckTracker(a) PROVE ContinuousInv'
  <2> DEFINE y == IF start = "none" THEN "done" ELSE "close"
  <2>1. pc[a] = "check" /\ pc' = [pc EXCEPT ![a] = y] /\ UNCHANGED <<stopped, exit>>
    BY <1>6 DEF CheckTracker, Go
  <2>2. a = "waiter" => y = "close" /\ \A p \in Paths : hpc[p] = "done"
    BY <1>0, <2>1 DEF ControlInv
  <2>3. y \in Places /\ y # "record"
    BY DEF Places
  <2> HIDE DEF y
  <2> QED BY <1>2, <1>t, <2>1, <2>2, <2>3
<1>7. ASSUME NEW a \in Callers, CloseSweep(a), start # "tracker" PROVE ContinuousInv'
  <2>1. /\ pc[a] = "close" /\ pc' = [pc EXCEPT ![a] = "flush"] /\ stopped' = TRUE /\ exit' = exit
    BY <1>7 DEF CloseSweep, Go
  <2>2. a = "waiter" => \A p \in Paths : hpc[p] = "done"
    BY <1>0, <2>1 DEF ControlInv
  <2> QED BY <1>2, <1>t, <2>1, <2>2 DEF Places
<1>8. ASSUME pc' = pc, stopped' = stopped, exit' \in {"clean", "panic"}
      PROVE  ContinuousInv'
  <2>1. ControlTypes' /\ ControlInv'
    BY <1>0, <1>1, <1>8 DEF ControlTypes, ControlInv
  <2>2. TrackerInv' /\ BatchInv' /\ LogInv' /\ CountInv'
    BY <1>0, <1>1, <1>8, QuietData DEF BatchInv, LogInv
  <2> QED BY <2>1, <2>2 DEF ContinuousInv
<1>9. ASSUME NEW a \in Callers, CloseSweep(a), start = "tracker" PROVE ContinuousInv'
  BY <1>8, <1>9 DEF CloseSweep
<1>10. CASE ProcessExit
  BY <1>8, <1>10 DEF ProcessExit
<1> QED BY <1>3, <1>4, <1>5, <1>6, <1>7, <1>9, <1>10

-----------------------------------------------------------------------------
\* The invariant of a continuous session, and what follows from it.

\* Before the control header there is nothing to report.
LEMMA ContinuousInitially == Init => ContinuousInv
<1> SUFFICES ASSUME Init PROVE ContinuousInv
  OBVIOUS
<1>1. ControlTypes /\ ControlInv
  BY DEF Init, ControlTypes, ControlInv, Places, Agents
<1>2. TrackerInv
  BY DEF Init, TrackerInv
<1>3. BatchInv
  BY FS_EmptySet DEF Init, BatchInv
<1>4. LogInv
  BY DEF Init, LogInv
<1>5. CountInv
  <2>1. \A p \in Paths : InTracker(p) = 0
    BY SumEmpty DEF Init, InTracker
  <2>2. ASSUME NEW p \in Paths PROVE InHands(p) = 0
    <3>1. InRows(p, {}) = 0
      BY SumEmpty DEF InRows
    <3>2. \A a \in Agents : InRows(p, batch[a]) = 0
      BY <3>1 DEF Init
    <3> QED BY <3>2, SumZero DEF InHands
  <2>3. ASSUME NEW p \in Paths PROVE InLog(p) = 0
    <3>1. 1..Len(burstLog) = {}
      BY DEF Init
    <3> QED BY <3>1, SumEmpty DEF InLog
  <2>4. \A p \in Paths : chunks[p] = 0
    BY DEF Init
  <2>5. chunks \in [Paths -> Nat] /\ last \in [Paths -> Int]
    BY DEF Init
  <2> QED BY <2>1, <2>2, <2>3, <2>4, <2>5 DEF CountInv, EveryArrivalAccounted
<1> QED BY <1>1, <1>2, <1>3, <1>4, <1>5 DEF ContinuousInv

\* No step of a handler, a reporting goroutine or the clock breaks it.
LEMMA ContinuousStep ==
    ASSUME ContinuousInv, [Next]_cvars
    PROVE  ContinuousInv'
<1>t. Callers \subseteq Agents /\ "sweep" \in Agents
  BY DEF Callers, Agents
<1>1. CASE Next
  <2>0. exit = "no"
    BY <1>1 DEF Next
  <2>1. CASE StartStep
    BY <2>0, <2>1, StartKeeps
  <2>2. ASSUME NEW p \in Paths, HandlerStep(p) PROVE ContinuousInv'
    BY <2>0, <2>2, HandlerMoves, ReadKeeps DEF HandlerStep
  <2>3. ASSUME NEW id \in 1..NumBursts, Idle(id) PROVE ContinuousInv'
    BY <2>0, <2>3, IdleKeeps
  <2>4. CASE SweepTick
    <3>1. Take("sweep", "select", Expired) /\ Expired \subseteq DOMAIN bursts
      BY <2>4 DEF SweepTick, Expired
    <3> QED BY <1>t, <2>0, <3>1, TakeKeeps
  <2>5. ASSUME NEW a \in Agents, Record(a) PROVE ContinuousInv'
    BY <2>0, <2>5, AddRowKeeps, FileKeeps DEF Record
  <2>6. ASSUME NEW a \in Callers, Flush(a) PROVE ContinuousInv'
    <3>1. Take(a, "flush", DOMAIN bursts) /\ a \in Agents
      BY <1>t, <2>6 DEF Flush
    <3> QED BY <2>0, <3>1, TakeKeeps
  <2>7. CASE \/ SweepStop \/ WaitDone \/ Interrupt \/ ProcessExit
             \/ \E a \in Callers : CheckTracker(a) \/ CloseSweep(a)
    BY <2>0, <2>7, ControlKeeps
  <2> QED BY <1>1, <2>1, <2>2, <2>3, <2>4, <2>5, <2>6, <2>7 DEF Next, Shutdown
<1>2. CASE UNCHANGED cvars
  <2>0. ControlTypes /\ ControlInv /\ TrackerInv /\ BatchInv /\ LogInv /\ CountInv
    BY DEF ContinuousInv
  <2>1. UNCHANGED <<start, wg, hpc, chunks, last, pc, batch, snap, burstLog, file,
                    stopped, exit, bursts>>
    BY <1>2 DEF cvars, hvars
  <2>2. ControlTypes' /\ ControlInv'
    BY <2>0, <2>1 DEF ControlTypes, ControlInv
  <2>3. TrackerInv' /\ BatchInv' /\ LogInv' /\ CountInv'
    BY <2>0, <2>1, QuietData DEF BatchInv, LogInv
  <2> QED BY <2>2, <2>3 DEF ContinuousInv
<1> QED BY <1>1, <1>2

\* The parts of the invariant hold together in every state of a session.
THEOREM ContinuousInvariant == Spec => []ContinuousInv
<1>1. Init => ContinuousInv
  BY ContinuousInitially
<1>2. ContinuousInv /\ [Next]_cvars => ContinuousInv'
  BY ContinuousStep
<1> QED BY <1>1, <1>2, PTL DEF Spec

\* A row that left the tracker has the types of a reported burst.
LEMMA RowTypes ==
    ASSUME NEW r, GoodRow(r)
    PROVE  r \in Row
<1> DEFINE T == 0..TotalSize
           pp == r.perPath
<1>1. r \in BurstRow /\ r.bytesReceived = SumPaths(pp) /\ r.bytesReceived <= TotalSize
  BY DEF GoodRow
<1>2. r.bytesReceived \in Nat /\ pp \in [Paths -> PathRow]
  BY <1>1 DEF BurstRow
<1>3. r.bytesReceived \in T
  BY <1>1, <1>2, SizeAssumption
<1>4. ASSUME NEW p \in Paths
      PROVE  pp[p] \in [bytesReceived : T, chunks : Nat, corrupted : Nat]
  <2>1. pp[p] \in PathRow /\ pp[p].bytesReceived <= SumPaths(pp)
    BY <1>2, PathBytes
  <2>2. pp[p].bytesReceived \in Nat
    BY <2>1 DEF PathRow
  <2>3. pp[p].bytesReceived \in T
    BY <1>1, <1>2, <2>1, <2>2, SizeAssumption
  <2> HIDE DEF T
  <2> QED BY <2>1, <2>3 DEF PathRow
<1>5. pp \in [Paths -> [bytesReceived : T, chunks : Nat, corrupted : Nat]]
  BY <1>2, <1>4
<1> HIDE DEF T
<1>6. r \in [id : 1..NumBursts, bytesReceived : T, chunks : Nat, corrupted : Nat,
             complete : BOOLEAN,
             perPath : [Paths -> [bytesReceived : T, chunks : Nat, corrupted : Nat]]]
  BY <1>1, <1>3, <1>5 DEF BurstRow
<1> QED BY <1>6 DEF Row, T

\* The session's variables keep their types: the WaitGroup never goes
\* negative, no burst reports more bytes than it has, and bursts.csv never
\* holds more rows than the log.
THEOREM ContinuousTypes == Spec => []ContinuousTypeOK
<1>1. ContinuousInv => ContinuousTypeOK
  <2> SUFFICES ASSUME ContinuousInv PROVE ContinuousTypeOK
    OBVIOUS
  <2>0. ControlTypes /\ ControlInv /\ TrackerInv /\ BatchInv /\ LogInv
    BY DEF ContinuousInv
  <2>1. wg \in 0..NumPaths
    <3> DEFINE U == {p \in Paths : hpc[p] # "done"}
    <3>1. IsFiniteSet(U) /\ Cardinality(U) <= Cardinality(Paths)
      BY PathsFinite, FS_Subset
    <3>2. Cardinality(U) \in Nat
      BY <3>1, FS_CardinalityType
    <3>3. Cardinality(U) \in 0..NumPaths
      BY <3>1, <3>2, PathsFinite, PathAssumption
    <3>4. 0 \in 0..NumPaths
      BY PathAssumption
    <3> QED BY <2>0, <3>3, <3>4 DEF ControlInv
  <2>2. \A a \in Agents : batch[a] \subseteq Row
    BY <2>0, RowTypes DEF BatchInv
  <2>3. \A i \in 1..Len(burstLog) : burstLog[i] \in Row
    BY <2>0, RowTypes DEF LogInv
  <2> QED BY <2>0, <2>1, <2>2, <2>3 DEF ControlTypes, TrackerInv, LogInv, ContinuousTypeOK
<1> QED BY <1>1, ContinuousInvariant, PTL

\* No interleaving of handlers, sweep, waiter and signal handler loses a
\* chunk that was counted or reports it twice.
THEOREM ArrivalsAccounted == Spec => []EveryArrivalAccounted
<1>1. ContinuousInv => EveryArrivalAccounted
  BY DEF ContinuousInv, CountInv
<1> QED BY <1>1, ContinuousInvariant, PTL

\* A byte of a burst is credited once and to one path, whatever duplicates
\* and corrupted copies arrive, so a row says complete only of a whole burst.
THEOREM CreditedOnce == Spec => []BytesCreditedOnce
<1>1. ContinuousInv => BytesCreditedOnce
  BY DEF ContinuousInv, TrackerInv, LogInv, GoodBurst, GoodRow, BytesCreditedOnce
<1> QED BY <1>1, ContinuousInvariant, PTL

\* After the waiter's shutdownContinuous the tracker is empty for good.
THEOREM TrackerEmptied == Spec => []NothingLeftBehind
<1>1. ContinuousInv => NothingLeftBehind
  BY DEF ContinuousInv, ControlInv, NothingLeftBehind
<1> QED BY <1>1, ContinuousInvariant, PTL
=============================================================================
