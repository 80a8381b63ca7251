----------------------- MODULE ContinuousClientProofs -----------------------
(***************************************************************************)
(* Proofs about the client in continuous mode, for any number of paths and *)
(* bursts, any burst and chunk sizes, window, queue capacity and faults.   *)
(***************************************************************************)
EXTENDS ContinuousClient, Counting

PathRows == [bytes : Nat, chunks : Nat, complete : BOOLEAN]

BurstRows == [id : Nat, size : Nat, bytes : Nat, complete : BOOLEAN,
              perPath : [Paths -> PathRows]]

\* The bytes of the chunks S of a burst.
BytesOf(bytes, S) == SumOver(S, [c \in S |-> ChunkLen(bytes, c)])

\* Where the chunks of the current burst are on path p: already written, held
\* by the writer, in the queue, or about to be enqueued.
Gone(p) == WrittenSeqs(p, burstID)
Held(p) == IF cur[p] = NoChunk THEN {} ELSE {cur[p]}
Queued(p) == Elems(queue[p])
Coming(p) == IF p \in Elems(targets) THEN {next - 1} ELSE {}

OnPath(p) == Gone(p) \cup Held(p) \cup Queued(p) \cup Coming(p)

-----------------------------------------------------------------------------
\* The inductive invariant, in parts.

Types ==
    /\ cpc \in {"burst", "send", "ticker", "select", "stop", "rtt", "drain", "files", "exit", "panic"}
    /\ burstID \in Nat
    /\ sched \in SchedulerNames /\ n \in Nat /\ next \in Nat
    /\ targets \in Seq(Paths)
    /\ queue \in [Paths -> Seq(Nat)]
    /\ cur \in [Paths -> Nat \cup {NoChunk}]
    /\ chunksSent \in [Paths -> Nat]
    /\ bytesSent \in [Paths -> Nat]
    /\ before \in [Paths -> [bytes : Nat, chunks : Nat]]
    /\ wrote \in [Paths -> Seq(Nat \X Nat)]
    /\ burstLog \in Seq(BurstRows)

\* Main drains only when every sampler has returned, so from the copy of the
\* log on no sample is added.
RTTInv ==
    /\ sampler \in [Paths -> {"run", "add", "done"}]
    /\ cpc \in {"drain", "files", "exit"} => \A p \in Paths : sampler[p] = "done"
    /\ cpc \in {"files", "exit"} => rttFile = samples

\* A writer returns only from an empty queue that nobody fills again.
WriterInv ==
    /\ qClosed => targets = << >> /\ next = Count(size)
    /\ \A p \in Paths \ writers : qClosed /\ queue[p] = << >> /\ cur[p] = NoChunk

\* The chain behind an ack that was read: the stream was closed in the drain,
\* and the peer had read all of it.
DrainInv ==
    /\ up \in [Paths -> Seq(Nat \X Nat)]
    /\ fin \in [Paths -> BOOLEAN] /\ ack \in [Paths -> BOOLEAN]
    /\ cUp \in [Paths -> BOOLEAN]
    /\ drain \in [Paths -> {"none", "wait", "acked", "gaveup"}]
    /\ \A p \in Paths : /\ drain[p] # "none" => cpc \in {"drain", "files", "exit"}
                        /\ fin[p] => drain[p] # "none"
                        /\ ack[p] => fin[p] /\ up[p] = << >>
                        /\ drain[p] = "acked" => ack[p]

\* Only frames of the burst being sent have no row yet.
HasRow(id) == \E j \in 1..Len(burstLog) : burstLog[j].id = id

FrameInv ==
    \A p \in Paths : \A i \in 1..Len(wrote[p]) :
        \/ cpc = "send" /\ wrote[p][i][1] = burstID
        \/ HasRow(wrote[p][i][1])

\* Between bursts nothing waits to be written, and what was written belongs
\* to a burst that was started.
BetweenInv ==
    /\ cpc # "send" => \A p \in Paths : queue[p] = << >> /\ cur[p] = NoChunk
    /\ \A p \in Paths : \A i \in 1..Len(wrote[p]) : wrote[p][i][1] <= burstID

Precede(A, B) == \A a \in A, b \in B : a < b

\* The chunks of the burst pass a path in the order of their numbers.
InTurn(p) ==
    /\ OnPath(p) \subseteq 0..(next - 1)
    /\ Precede(Gone(p), Held(p) \cup Queued(p) \cup Coming(p))
    /\ Precede(Held(p), Queued(p) \cup Coming(p))
    /\ Precede(Queued(p), Coming(p))
    /\ \A i, j \in 1..Len(queue[p]) : i < j => queue[p][i] < queue[p][j]

\* The counters have moved by what was written since the snapshot.
Counted(p) ==
    /\ chunksSent[p] = before[p].chunks + Cardinality(Written(p, burstID))
    /\ bytesSent[p] = before[p].bytes + BytesOf(size, Gone(p))

SentBytes == SumOver(Paths, [p \in Paths |-> bytesSent[p] - before[p].bytes])
GoneAnywhere == UNION {Gone(p) : p \in Paths}

\* Only redundant puts a chunk on two paths.
OnceInv ==
    sched # "redundant" =>
        /\ \A p, q \in Paths : p # q => OnPath(p) \cap OnPath(q) = {}
        /\ SentBytes = BytesOf(size, GoneAnywhere)

BurstInv ==
    cpc = "send" =>
        /\ burstID > 0 /\ size \in Nat \ {0} /\ next <= Count(size)
        /\ targets # << >> => next > 0
        /\ \A i, j \in 1..Len(targets) : targets[i] = targets[j] => i = j
        /\ \A p \in Paths : InTurn(p) /\ Counted(p)
        /\ OnceInv

\* A row that is exact and complete as the properties demand.
GoodRow(r) ==
    /\ \A p \in Paths : r.perPath[p].chunks = Cardinality(Written(p, r.id))
    /\ r.bytes = SumOver(Paths, [p \in Paths |-> r.perPath[p].bytes])
    /\ \A p \in Paths : r.perPath[p].complete <=> WrittenSeqs(p, r.id) = AllSeqs(r.size)
    /\ sched # "redundant" =>
          (r.complete <=> UNION {WrittenSeqs(p, r.id) : p \in Paths} = AllSeqs(r.size))

Logged(p) == SumOver(1..Len(burstLog), [i \in 1..Len(burstLog) |-> burstLog[i].perPath[p].bytes])

\* A row is of an earlier burst than the one being sent, and the rows add up
\* to what was sent before it.
LogInv ==
    /\ \A i \in 1..Len(burstLog) : /\ GoodRow(burstLog[i])
                                   /\ burstLog[i].id <= burstID
                                   /\ cpc = "send" => burstLog[i].id < burstID
    /\ \A p \in Paths :
          Logged(p) = IF cpc = "send" THEN before[p].bytes ELSE bytesSent[p]

SendingInv == Types /\ BetweenInv /\ InBurstOrder /\ BurstInv /\ LogInv

ClientInv == RTTInv /\ SendingInv /\ WriterInv /\ DrainInv /\ FrameInv

-----------------------------------------------------------------------------
\* Chunks and bytes.

\* The chunks of a burst of t bytes lie one after the other in it, all full
\* but the last.
LEMMA ChunkFacts ==
    ASSUME NEW t \in Nat \ {0}
    PROVE  /\ Count(t) \in Nat \ {0}
           /\ AllSeqs(t) = {c \in 0..(t - 1) : c * ChunkSize < t}
           /\ \A c \in AllSeqs(t) :
                 /\ c \in Nat /\ c * ChunkSize \in Nat
                 /\ ChunkLen(t, c) \in Nat \ {0} /\ ChunkLen(t, c) <= ChunkSize
                 /\ c * ChunkSize + ChunkLen(t, c) <= t
                 /\ ChunkLen(t, c) = ChunkSize \/ c * ChunkSize + ChunkLen(t, c) = t
<1>1. ChunkSize \in Nat \ {0}
  BY BurstAssumption
<1>2. Count(t) \in Nat \ {0} /\ AllSeqs(t) = {c \in 0..(t - 1) : c * ChunkSize < t}
  BY <1>1, PiecesOf DEF Count, AllSeqs
<1>3. ASSUME NEW c \in AllSeqs(t)
      PROVE  /\ c \in Nat /\ c * ChunkSize \in Nat
             /\ ChunkLen(t, c) \in Nat \ {0} /\ ChunkLen(t, c) <= ChunkSize
             /\ c * ChunkSize + ChunkLen(t, c) <= t
             /\ ChunkLen(t, c) = ChunkSize \/ c * ChunkSize + ChunkLen(t, c) = t
  <2>1. c \in Nat /\ c * ChunkSize < t
    BY <1>2
  <2>2. c * ChunkSize \in Nat
    BY <1>1, <2>1, ProductOrder
  <2> DEFINE rest == t - c * ChunkSize
  <2>3. rest \in Nat \ {0} /\ c * ChunkSize + rest = t
    BY <2>1, <2>2, SMT
  <2>4. ChunkLen(t, c) = Min({ChunkSize, rest})
    BY DEF ChunkLen
  <2> HIDE DEF rest
  <2>5. /\ ChunkLen(t, c) \in {ChunkSize, rest}
        /\ ChunkLen(t, c) <= ChunkSize /\ ChunkLen(t, c) <= rest
    <3>1. ChunkSize \in Int /\ rest \in Int
      BY <1>1, <2>3
    <3> QED BY <2>4, <3>1, MinOfTwo
  <2> QED BY <1>1, <2>1, <2>2, <2>3, <2>5, SMT
<1> QED BY <1>2, <1>3

\* A byte is in one chunk, at one place.
LEMMA SplitUnique ==
    ASSUME NEW c \in Nat, NEW d \in Nat, NEW k \in Nat \ {0},
           NEW i \in 1..k, NEW j \in 1..k, c * k + i = d * k + j
    PROVE  c = d /\ i = j
<1>1. /\ c * k \in Nat /\ d * k \in Nat
      /\ c < d => c * k + k <= d * k
      /\ d < c => d * k + k <= c * k
  BY ProductOrder
<1>2. c = d
  BY <1>1, SMT
<1>3. c * k = d * k
  BY <1>2
<1> QED BY <1>1, <1>2, <1>3, SMT

\* Different chunks have different bytes, so chunks of a burst never have more
\* than its size, and one more chunk adds its length.
LEMMA BytesFacts ==
    ASSUME NEW t \in Nat \ {0}, NEW S \in SUBSET AllSeqs(t)
    PROVE  /\ IsFiniteSet(S) /\ BytesOf(t, S) \in Nat /\ BytesOf(t, S) <= t
           /\ \A c \in AllSeqs(t) \ S : BytesOf(t, S \cup {c}) = BytesOf(t, S) + ChunkLen(t, c)
<1> DEFINE f == [c \in S |-> ChunkLen(t, c)]
           h == [u \in Units(S, f) |-> u[1] * ChunkSize + u[2]]
<1>0. ChunkSize \in Nat \ {0}
  BY BurstAssumption
<1>1. IsFiniteSet(S)
  <2>1. 0 \in Int /\ Count(t) - 1 \in Int
    BY ChunkFacts
  <2>2. IsFiniteSet(AllSeqs(t))
    BY <2>1, FS_Interval DEF AllSeqs
  <2> QED BY <2>2, FS_Subset
<1>2. \A c \in S : f[c] \in Nat /\ f[c] = ChunkLen(t, c)
  BY ChunkFacts
<1>3. BytesOf(t, S) = SumOver(S, f) /\ BytesOf(t, S) \in Nat
  BY <1>1, <1>2, SumFinite DEF BytesOf
<1>4. ASSUME NEW u \in Units(S, f)
      PROVE  /\ u = <<u[1], u[2]>> /\ u[1] \in S /\ u[2] \in 1..ChunkLen(t, u[1])
             /\ h[u] \in 1..t
  <2>1. u = <<u[1], u[2]>> /\ u[1] \in S /\ u[2] \in 1..ChunkLen(t, u[1])
    BY <1>2 DEF Units
  <2>2. u[1] * ChunkSize \in Nat /\ ChunkLen(t, u[1]) \in Nat
        /\ u[1] * ChunkSize + ChunkLen(t, u[1]) <= t
    BY <2>1, ChunkFacts
  <2> QED BY <2>1, <2>2, SMT
<1>5. ASSUME NEW u \in Units(S, f), NEW v \in Units(S, f), h[u] = h[v] PROVE u = v
  <2> DEFINE c == u[1]
             d == v[1]
             i == u[2]
             j == v[2]
  <2>1. c * ChunkSize + i = d * ChunkSize + j
    BY <1>5
  <2>2. u = <<c, i>> /\ v = <<d, j>>
    BY <1>4
  <2>3. c \in AllSeqs(t) /\ d \in AllSeqs(t) /\ i \in 1..ChunkLen(t, c) /\ j \in 1..ChunkLen(t, d)
    BY <1>4
  <2> HIDE DEF c, d, i, j
  <2>4. /\ c \in Nat /\ d \in Nat /\ i \in 1..ChunkSize /\ j \in 1..ChunkSize
    BY <1>0, <2>3, ChunkFacts, SMT
  <2>5. c = d /\ i = j
    BY <1>0, <2>1, <2>4, SplitUnique
  <2> QED BY <2>2, <2>5
<1>6. h \in Injection(Units(S, f), 1..t)
  BY <1>4, <1>5 DEF Injection, IsInjective
<1>7. IsFiniteSet(1..t) /\ Cardinality(1..t) = t
  <2>1. 1 \in Nat /\ t \in Nat /\ 1..t = 1..(1 + t - 1)
    BY SMT
  <2> QED BY <2>1, RunOfNumbers
<1>8. BytesOf(t, S) <= t
  BY <1>3, <1>6, <1>7, FS_Injection DEF SumOver
<1> HIDE DEF f, h
<1>9. ASSUME NEW c \in AllSeqs(t) \ S
      PROVE  BytesOf(t, S \cup {c}) = BytesOf(t, S) + ChunkLen(t, c)
  <2> DEFINE g == [e \in S \cup {c} |-> ChunkLen(t, e)]
  <2>1. (\A e \in S : g[e] = f[e] /\ g[e] \in Nat) /\ g[c] = ChunkLen(t, c) /\ g[c] \in Nat
    BY <1>2, ChunkFacts
  <2>2. BytesOf(t, S \cup {c}) = SumOver(S \cup {c}, g)
    BY DEF BytesOf
  <2> HIDE DEF g
  <2>3. SumOver(S \cup {c}, g) = SumOver(S, g) + g[c]
    BY <1>1, <2>1, SumAdd
  <2>4. SumOver(S, g) = SumOver(S, f)
    BY <2>1, SumSame
  <2> QED BY <1>3, <2>1, <2>2, <2>3, <2>4
<1> QED BY <1>1, <1>3, <1>8, <1>9

\* The byte count is the burst's size exactly if every chunk is there: what
\* the complete flag of a row rests on.
LEMMA AllBytes ==
    ASSUME NEW t \in Nat \ {0}, NEW S \in SUBSET AllSeqs(t)
    PROVE  BytesOf(t, S) = t <=> S = AllSeqs(t)
<1>0. ChunkSize \in Nat \ {0}
  BY BurstAssumption
<1>1. ASSUME NEW c \in AllSeqs(t) \ S PROVE BytesOf(t, S) < t
  <2>1. S \cup {c} \in SUBSET AllSeqs(t)
    OBVIOUS
  <2>2. BytesOf(t, S \cup {c}) \in Nat /\ BytesOf(t, S \cup {c}) <= t
    BY <2>1, BytesFacts
  <2>3. BytesOf(t, S \cup {c}) = BytesOf(t, S) + ChunkLen(t, c) /\ BytesOf(t, S) \in Nat
    BY BytesFacts
  <2>4. ChunkLen(t, c) \in Nat \ {0}
    BY ChunkFacts
  <2> QED BY <2>2, <2>3, <2>4, SMT
<1>2. ASSUME S = AllSeqs(t) PROVE t <= BytesOf(t, S)
  <2> DEFINE f == [c \in S |-> ChunkLen(t, c)]
             h == [u \in Units(S, f) |-> u[1] * ChunkSize + u[2]]
             T == {h[u] : u \in Units(S, f)}
  <2>1. \A c \in S : f[c] \in Nat /\ f[c] = ChunkLen(t, c)
    BY ChunkFacts
  <2>2. IsFiniteSet(Units(S, f)) /\ BytesOf(t, S) = Cardinality(Units(S, f))
    <3>1. IsFiniteSet(S) /\ BytesOf(t, S) = SumOver(S, f)
      BY BytesFacts DEF BytesOf
    <3> HIDE DEF f
    <3> QED BY <2>1, <3>1, SumFinite DEF SumOver
  <2>3. ASSUME NEW b \in 1..t PROVE b \in T
    <3> DEFINE c == (b - 1) \div ChunkSize
               j == b - c * ChunkSize
    <3>1. b - 1 \in Nat
      OBVIOUS
    <3>2. c \in Nat /\ ChunkSize * c <= b - 1 /\ b - 1 < ChunkSize * c + ChunkSize
      BY <1>0, <3>1, DivFacts
    <3> HIDE DEF c
    <3>3. c * ChunkSize = ChunkSize * c /\ c * ChunkSize \in Nat /\ c <= c * ChunkSize
      BY <1>0, <3>2, ProductOrder, SMT
    <3>4. j \in 1..ChunkSize /\ c * ChunkSize < t /\ c \in 0..(t - 1) /\ c * ChunkSize + j = b
      BY <1>0, <3>2, <3>3, SMT
    <3>5. c \in S
      BY <1>2, <3>4, ChunkFacts
    <3>6. j \in 1..ChunkLen(t, c)
      <4>1. /\ ChunkLen(t, c) \in Nat
            /\ ChunkLen(t, c) = ChunkSize \/ c * ChunkSize + ChunkLen(t, c) = t
        BY <1>2, <3>5, ChunkFacts
      <4> QED BY <3>3, <3>4, <4>1, SMT
    <3> HIDE DEF j
    <3>7. <<c, j>> \in Units(S, f)
      BY <2>1, <3>5, <3>6 DEF Units
    <3>8. h[<<c, j>>] = b
      BY <3>4, <3>7
    <3> QED BY <3>7, <3>8
  <2>4. h \in Surjection(Units(S, f), T)
    BY DEF Surjection
  <2> HIDE DEF h
  <2>5. IsFiniteSet(T) /\ Cardinality(T) <= Cardinality(Units(S, f))
    BY <2>2, <2>4, FS_Surjection
  <2>6. IsFiniteSet(1..t) /\ Cardinality(1..t) = t
    <3>1. 1 \in Nat /\ t \in Nat /\ 1..t = 1..(1 + t - 1)
      BY SMT
    <3> QED BY <3>1, RunOfNumbers
  <2>7. t <= Cardinality(T)
    <3>1. 1..t \in SUBSET T
      BY <2>3
    <3> HIDE DEF T
    <3> QED BY <2>5, <2>6, <3>1, FS_Subset
  <2>8. Cardinality(T) \in Nat /\ Cardinality(Units(S, f)) \in Nat
    BY <2>2, <2>5, FS_CardinalityType
  <2> QED BY <2>2, <2>5, <2>7, <2>8, SMT
<1>3. BytesOf(t, S) \in Nat /\ BytesOf(t, S) <= t
  BY BytesFacts
<1>4. ASSUME S = AllSeqs(t) PROVE BytesOf(t, S) = t
  BY <1>2, <1>3, <1>4, SMT
<1>5. ASSUME BytesOf(t, S) = t PROVE S = AllSeqs(t)
  <2>1. \A c \in AllSeqs(t) : c \in S
    <3> SUFFICES ASSUME NEW c \in AllSeqs(t), c \notin S PROVE FALSE
      OBVIOUS
    <3>1. BytesOf(t, S) < t
      BY <1>1
    <3> QED BY <1>5, <3>1
  <2> QED BY <2>1
<1> QED BY <1>4, <1>5
-----------------------------------------------------------------------------
\* Schedulers and frames.

\* A scheduler names paths, none twice, and a single one unless redundant.
LEMMA AssignFacts ==
    ASSUME NEW name \in SchedulerNames, NEW k \in Nat, NEW r \in [Paths -> RTTs]
    PROVE  /\ Assign(name, k, r) \in Seq(Paths)
           /\ \A i, j \in 1..Len(Assign(name, k, r)) :
                 Assign(name, k, r)[i] = Assign(name, k, r)[j] => i = j
           /\ name # "redundant" => \E p \in Paths : Assign(name, k, r) = << p >>
           /\ Counter(name, k, r) \in Nat
<1>1. Counter(name, k, r) \in Nat
  BY DEF Counter
<1>2. k % NumPaths \in Paths
  BY PathAssumption, NextRemainder DEF Paths
<1>3. ASSUME Measured(r) # {} PROVE Best(r) \in Paths
  <2> DEFINE M == Measured(r)
  <2>1. M \subseteq Nat /\ M \subseteq Paths /\ \A p \in M : r[p] \in Nat
    BY DEF Measured, Paths, RTTs
  <2>2. \E p \in M : \A q \in M : r[p] < r[q] \/ (r[p] = r[q] /\ p <= q)
    BY <1>3, <2>1, FirstLeast
  <2> QED BY <2>1, <2>2 DEF Best
<1>4. ASSUME NEW p \in Paths
      PROVE  << p >> \in Seq(Paths) /\ \A i, j \in 1..Len(<< p >>) : << p >>[i] = << p >>[j] => i = j
  BY SMT
<1>5. Redundant \in Seq(Paths) /\ \A i, j \in 1..Len(Redundant) : Redundant[i] = Redundant[j] => i = j
  <2>1. NumPaths \in Nat \ {0} /\ \A i \in 1..NumPaths : i - 1 \in Paths
    BY PathAssumption, SMT DEF Paths
  <2>2. /\ Redundant \in Seq(Paths) /\ Len(Redundant) = NumPaths
        /\ \A i \in 1..NumPaths : Redundant[i] = i - 1
    BY <2>1 DEF Redundant
  <2> QED BY <2>1, <2>2, SMT
<1>6. CASE name = "redundant"
  BY <1>1, <1>5, <1>6, Zenon DEF Assign
<1>7. CASE name # "redundant"
  <2>1. name = "roundrobin" \/ name = "rtt-aware"
    BY <1>7 DEF SchedulerNames
  <2>2. Assign(name, k, r) = RoundRobin(k) \/ Assign(name, k, r) = RTTAware(k, r)
    BY <2>1, Zenon DEF Assign
  <2>3. \E p \in Paths : Assign(name, k, r) = << p >>
    BY <1>2, <1>3, <2>2 DEF RTTAware, RoundRobin
  <2>4. PICK p \in Paths : Assign(name, k, r) = << p >>
    BY <2>3
  <2>5. << p >> \in Seq(Paths) /\ \A i, j \in 1..Len(<< p >>) : << p >>[i] = << p >>[j] => i = j
    BY <1>4
  <2> QED BY <1>1, <2>3, <2>4, <2>5
<1> QED BY <1>6, <1>7

\* One more frame of the current burst is written on path p.
LEMMA FrameFacts ==
    ASSUME Types, NEW p \in Paths, NEW c \in Nat, burstID' = burstID,
           wrote' = [wrote EXCEPT ![p] = Append(@, <<burstID, c>>)]
    PROVE  /\ wrote' \in [Paths -> Seq(Nat \X Nat)]
           /\ \A q \in Paths \ {p} : wrote'[q] = wrote[q]
           /\ Len(wrote[p]) \in Nat /\ Len(wrote'[p]) = Len(wrote[p]) + 1
           /\ \A i \in 1..Len(wrote[p]) : wrote'[p][i] = wrote[p][i]
           /\ wrote'[p][Len(wrote[p]) + 1] = <<burstID, c>>
<1>1. wrote \in [Paths -> Seq(Nat \X Nat)] /\ wrote[p] \in Seq(Nat \X Nat) /\ <<burstID, c>> \in Nat \X Nat
  BY DEF Types
<1>2. wrote'[p] = Append(wrote[p], <<burstID, c>>)
  BY <1>1
<1> QED BY <1>1, <1>2

LEMMA WrittenFacts ==
    ASSUME Types, NEW p \in Paths, NEW c \in Nat, burstID' = burstID,
           wrote' = [wrote EXCEPT ![p] = Append(@, <<burstID, c>>)]
    PROVE  /\ \A q \in Paths, id \in Nat : q # p \/ id # burstID =>
                 Written(q, id)' = Written(q, id) /\ WrittenSeqs(q, id)' = WrittenSeqs(q, id)
           /\ Gone(p)' = Gone(p) \cup {c}
           /\ Cardinality(Written(p, burstID))' = Cardinality(Written(p, burstID)) + 1
<1> DEFINE k == Len(wrote[p])
<1>1. /\ wrote' \in [Paths -> Seq(Nat \X Nat)] /\ wrote \in [Paths -> Seq(Nat \X Nat)]
      /\ \A q \in Paths \ {p} : wrote'[q] = wrote[q]
      /\ k \in Nat /\ Len(wrote'[p]) = k + 1
      /\ \A i \in 1..k : wrote'[p][i] = wrote[p][i]
      /\ wrote'[p][k + 1] = <<burstID, c>>
  BY FrameFacts DEF Types
<1>2. DOMAIN wrote[p] = 1..k /\ DOMAIN wrote'[p] = (1..k) \cup {k + 1} /\ k + 1 \notin 1..k
  <2>1. wrote[p] \in Seq(Nat \X Nat) /\ wrote'[p] \in Seq(Nat \X Nat)
    BY <1>1
  <2>2. DOMAIN wrote[p] = 1..k /\ DOMAIN wrote'[p] = 1..(k + 1)
    BY <1>1, <2>1
  <2> QED BY <1>1, <2>2, SMT
<1>3. wrote'[p][k + 1][1] = burstID /\ wrote'[p][k + 1][2] = c
  BY <1>1
<1> HIDE DEF k
<1>4. ASSUME NEW q \in Paths, NEW id \in Nat, q # p \/ id # burstID
      PROVE  Written(q, id)' = Written(q, id) /\ WrittenSeqs(q, id)' = WrittenSeqs(q, id)
  <2>1. CASE q # p
    BY <1>1, <2>1 DEF Written, WrittenSeqs
  <2>2. CASE q = p
    <3>1. id # burstID
      BY <1>4, <2>2
    <3>2. Written(p, id)' = Written(p, id)
      BY <1>1, <1>2, <1>3, <3>1 DEF Written
    <3>3. \A i \in Written(p, id) : wrote'[p][i] = wrote[p][i]
      BY <1>1, <1>2 DEF Written
    <3>4. WrittenSeqs(p, id)' = WrittenSeqs(p, id)
      BY <3>2, <3>3 DEF WrittenSeqs
    <3> QED BY <2>2, <3>2, <3>4
  <2> QED BY <2>1, <2>2
<1>5. Written(p, burstID)' = Written(p, burstID) \cup {k + 1} /\ k + 1 \notin Written(p, burstID)
  BY <1>1, <1>2, <1>3 DEF Written
<1>6. \A i \in Written(p, burstID) : wrote'[p][i] = wrote[p][i]
  BY <1>1, <1>2 DEF Written
<1>7. Gone(p)' = Gone(p) \cup {c}
  <2> DEFINE W == Written(p, burstID)
             S == {wrote'[p][i][2] : i \in W \cup {k + 1}}
  <2>1. Gone(p)' = S
    BY <1>5 DEF Gone, WrittenSeqs
  <2>2. Gone(p) = {wrote[p][i][2] : i \in W}
    BY DEF Gone, WrittenSeqs
  <2> HIDE DEF W
  <2>3. S = {wrote'[p][i][2] : i \in W} \cup {c}
    BY <1>3
  <2>4. {wrote'[p][i][2] : i \in W} = {wrote[p][i][2] : i \in W}
    BY <1>6 DEF W
  <2> QED BY <2>1, <2>2, <2>3, <2>4
<1>8. IsFiniteSet(Written(p, burstID))
  <2>1. 1 \in Int /\ k \in Int
    BY <1>1
  <2>2. IsFiniteSet(1..k)
    BY <2>1, FS_Interval
  <2>3. Written(p, burstID) \in SUBSET (1..k)
    BY <1>2 DEF Written
  <2> QED BY <2>2, <2>3, FS_Subset
<1>9. Cardinality(Written(p, burstID) \cup {k + 1}) = Cardinality(Written(p, burstID)) + 1
  BY <1>5, <1>8, FS_AddElement
<1> QED BY <1>4, <1>5, <1>7, <1>9
-----------------------------------------------------------------------------
\* Steps that write nothing.

\* A row stays good as long as no frame of its burst is written.
LEMMA RowSame ==
    ASSUME NEW r, GoodRow(r), sched' = sched,
           \A q \in Paths : Written(q, r.id)' = Written(q, r.id)
                            /\ WrittenSeqs(q, r.id)' = WrittenSeqs(q, r.id)
    PROVE  GoodRow(r)'
<1>1. (UNION {WrittenSeqs(p, r.id) : p \in Paths})' = UNION {WrittenSeqs(p, r.id) : p \in Paths}
  OBVIOUS
<1> QED BY <1>1 DEF GoodRow

LEMMA RowsKept ==
    ASSUME LogInv, Types, UNCHANGED <<burstLog, wrote, sched>>
    PROVE  \A i \in 1..Len(burstLog) : GoodRow(burstLog[i])' /\ burstLog[i].id \in Nat
<1> SUFFICES ASSUME NEW i \in 1..Len(burstLog)
             PROVE  GoodRow(burstLog[i])' /\ burstLog[i].id \in Nat
  OBVIOUS
<1>1. PICK x : x = burstLog[i]
  OBVIOUS
<1>2. \A q \in Paths : Written(q, x.id)' = Written(q, x.id) /\ WrittenSeqs(q, x.id)' = WrittenSeqs(q, x.id)
  BY DEF Written, WrittenSeqs
<1>3. GoodRow(x) /\ burstLog'[i] = x
  BY <1>1 DEF LogInv
<1>4. GoodRow(x)'
  BY <1>2, <1>3, RowSame
<1>5. x \in BurstRows
  BY <1>1 DEF Types
<1>6. x.id \in Nat
  BY <1>5 DEF BurstRows
<1> QED BY <1>1, <1>3, <1>4, <1>6

LEMMA LogSame ==
    ASSUME LogInv, Types, cpc' = "send" <=> cpc = "send",
           UNCHANGED <<burstLog, wrote, sched, burstID, before, bytesSent>>
    PROVE  LogInv'
<1>1. \A q \in Paths : Logged(q)' = Logged(q)
  BY DEF Logged
<1>2. \A i \in 1..Len(burstLog) : GoodRow(burstLog[i])'
  BY RowsKept
<1> QED BY <1>1, <1>2 DEF LogInv

\* Steps of the samplers, the drain goroutines, the peer, the network and main
\* outside of sendBurst.
LEMMA QuietStep ==
    ASSUME SendingInv, cpc' = "send" <=> cpc = "send",
           cpc' \in {"burst", "send", "ticker", "select", "stop", "rtt", "drain", "files", "exit", "panic"},
           UNCHANGED <<burstID, size, before, burstLog, wrote, sched, n, next,
                       targets, queue, cur, countvars>>
    PROVE  SendingInv'
<1>1. Types'
  BY DEF SendingInv, Types, countvars
<1>2. BetweenInv' /\ InBurstOrder'
  BY DEF SendingInv, BetweenInv, InBurstOrder
<1>3. /\ \A q \in Paths : Gone(q)' = Gone(q) /\ OnPath(q)' = OnPath(q)
      /\ \A q \in Paths : InTurn(q)' = InTurn(q) /\ Counted(q)' = Counted(q)
  BY DEF InTurn, Precede, OnPath, Gone, Held, Queued, Coming, Counted, BytesOf, Written, WrittenSeqs, countvars
<1>4. OnceInv' = OnceInv
  <2>1. SentBytes' = SentBytes /\ GoneAnywhere' = GoneAnywhere
    BY <1>3 DEF SentBytes, GoneAnywhere, countvars
  <2>2. BytesOf(size, GoneAnywhere)' = BytesOf(size, GoneAnywhere)
    BY <2>1 DEF BytesOf
  <2> QED BY <1>3, <2>1, <2>2 DEF OnceInv
<1>5. BurstInv'
  BY <1>3, <1>4 DEF SendingInv, BurstInv
<1>6. LogInv'
  BY LogSame DEF SendingInv, countvars
<1> QED BY <1>1, <1>2, <1>5, <1>6 DEF SendingInv

\* A step of sendChunks that moves a chunk towards its stream.
LEMMA MoveKeeps ==
    ASSUME SendingInv, cpc = "send",
           UNCHANGED <<runvars, wrote, sched, countvars>>,
           Types', next' <= Count(size), targets' # << >> => next' > 0,
           \A i, j \in 1..Len(targets') : targets'[i] = targets'[j] => i = j,
           \A q \in Paths : InTurn(q)',
           sched # "redundant" =>
               \A q, r \in Paths : q # r => OnPath(q)' \cap OnPath(r)' = {}
    PROVE  SendingInv'
<1> USE DEF runvars, countvars
<1>1. BetweenInv' /\ InBurstOrder'
  BY DEF SendingInv, BetweenInv, InBurstOrder
<1>2. \A q \in Paths : Gone(q)' = Gone(q) /\ Counted(q)' = Counted(q)
  BY DEF Gone, Counted, BytesOf, Written, WrittenSeqs
<1>3. SentBytes' = SentBytes /\ GoneAnywhere' = GoneAnywhere
  BY <1>2 DEF SentBytes, GoneAnywhere
<1>4. OnceInv'
  BY <1>3 DEF SendingInv, BurstInv, OnceInv, BytesOf
<1>5. BurstInv'
  BY <1>2, <1>4 DEF SendingInv, BurstInv
<1>6. LogInv'
  BY LogSame DEF SendingInv
<1> QED BY <1>1, <1>5, <1>6 DEF SendingInv

\* The dispatcher takes the next chunk: larger than all before it, and on one
\* path only unless redundant.
LEMMA AssignStep ==
    ASSUME SendingInv, cpc = "send", AssignChunk(Count(size)),
           UNCHANGED <<runvars, wrote>>
    PROVE  SendingInv'
<1>1. PICK rtt \in [Paths -> RTTs] : targets' = Assign(sched, n, rtt) /\ n' = Counter(sched, n, rtt)
  BY DEF AssignChunk
<1>2. /\ targets = << >> /\ next' = next + 1 /\ next < Count(size)
      /\ UNCHANGED <<sched, queue, cur, countvars>>
  BY DEF AssignChunk
<1>3. Types /\ BurstInv /\ next \in Nat /\ Count(size) \in Nat
  BY ChunkFacts DEF SendingInv, BurstInv, Types
<1>4. /\ targets' \in Seq(Paths) /\ n' \in Nat
      /\ \A i, j \in 1..Len(targets') : targets'[i] = targets'[j] => i = j
      /\ sched # "redundant" => \E p \in Paths : targets' = << p >>
  <2>1. sched \in SchedulerNames /\ n \in Nat
    BY <1>3 DEF Types
  <2> QED BY <1>1, <2>1, AssignFacts
<1>5. Types'
  BY <1>2, <1>3, <1>4 DEF Types, runvars, countvars
<1>6. \A q \in Paths : Coming(q) = {} /\ Coming(q)' \in SUBSET {next}
  BY <1>2, <1>3, NoElems, SMT DEF Coming
<1>7. \A q \in Paths : Gone(q)' = Gone(q) /\ Held(q)' = Held(q) /\ Queued(q)' = Queued(q)
  BY <1>2 DEF Gone, Held, Queued, Written, WrittenSeqs, runvars
<1>8. \A q \in Paths : InTurn(q) /\ OnPath(q) \subseteq 0..(next - 1)
  BY <1>3 DEF BurstInv, InTurn
<1>9. \A q \in Paths : OnPath(q)' = OnPath(q) \cup Coming(q)'
  BY <1>6, <1>7 DEF OnPath
<1>10. ASSUME NEW q \in Paths PROVE InTurn(q)'
  <2>1. (Gone(q) \cup Held(q) \cup Queued(q)) \subseteq 0..(next - 1)
    BY <1>8 DEF OnPath
  <2>2. OnPath(q)' \subseteq 0..(next' - 1)
    BY <1>2, <1>3, <1>6, <1>8, <1>9, SMT
  <2>3. \A a \in Gone(q) \cup Held(q) \cup Queued(q), b \in Coming(q)' : a < b
    BY <1>3, <1>6, <2>1, SMT
  <2> QED BY <1>2, <1>6, <1>7, <1>8, <2>2, <2>3 DEF InTurn, Precede
<1>11. ASSUME sched # "redundant", NEW q \in Paths, NEW r \in Paths, q # r
       PROVE  OnPath(q)' \cap OnPath(r)' = {}
  <2>1. OnPath(q) \cap OnPath(r) = {}
    BY <1>3, <1>11 DEF BurstInv, OnceInv, SendingInv
  <2>2. Coming(q)' = {} \/ Coming(r)' = {}
    <3>1. PICK p \in Paths : targets' = << p >>
      BY <1>4, <1>11
    <3>2. Elems(targets') = {p}
      BY <3>1 DEF Elems
    <3> QED BY <1>11, <3>2 DEF Coming
  <2>3. next \notin OnPath(q) /\ next \notin OnPath(r)
    BY <1>3, <1>8, SMT
  <2> QED BY <1>6, <1>9, <2>1, <2>2, <2>3
<1>12. next' <= Count(size) /\ next' > 0
  BY <1>2, <1>3
<1>13. UNCHANGED <<runvars, wrote, sched, countvars>>
  BY <1>2
<1> QED BY <1>4, <1>5, <1>10, <1>11, <1>12, <1>13, MoveKeeps

\* The dispatcher puts it on the next of its paths ...
LEMMA EnqueueStep ==
    ASSUME SendingInv, cpc = "send", Enqueue, UNCHANGED <<runvars, wrote>>
    PROVE  SendingInv'
<1>0. PICK t : t = Head(targets)
  OBVIOUS
<1>1. /\ targets # << >> /\ targets' = Tail(targets) /\ next' = next
      /\ queue' = [queue EXCEPT ![t] = Append(@, next - 1)]
      /\ UNCHANGED <<sched, n, cur, countvars>>
  BY <1>0 DEF Enqueue
<1>2. /\ Types /\ BurstInv /\ next \in Nat \ {0} /\ targets \in Seq(Paths)
      /\ queue \in [Paths -> Seq(Nat)] /\ next - 1 \in Nat
      /\ \A i, j \in 1..Len(targets) : targets[i] = targets[j] => i = j
  <2>1. Types /\ BurstInv
    BY DEF SendingInv
  <2>2. next > 0 /\ \A i, j \in 1..Len(targets) : targets[i] = targets[j] => i = j
    BY <1>1, <2>1 DEF BurstInv
  <2>3. next \in Nat /\ targets \in Seq(Paths) /\ queue \in [Paths -> Seq(Nat)]
    BY <2>1 DEF Types
  <2> QED BY <2>1, <2>2, <2>3
<1>3. /\ t \in Paths /\ targets' \in Seq(Paths) /\ Len(targets) \in Nat \ {0}
      /\ Len(targets') = Len(targets) - 1
      /\ t = targets[1] /\ \A i \in 1..Len(targets') : targets'[i] = targets[i + 1]
      /\ Elems(targets) = {t} \cup Elems(targets')
  BY <1>0, <1>1, <1>2, TailFacts
<1>4. \A i, j \in 1..Len(targets') : targets'[i] = targets'[j] => i = j
  <2> SUFFICES ASSUME NEW i \in 1..Len(targets'), NEW j \in 1..Len(targets'), targets'[i] = targets'[j]
               PROVE  i = j
    OBVIOUS
  <2>1. i + 1 \in 1..Len(targets) /\ j + 1 \in 1..Len(targets) /\ i \in Int /\ j \in Int
    BY <1>3, SMT
  <2>2. targets[i + 1] = targets[j + 1]
    BY <1>3
  <2>3. i + 1 = j + 1
    BY <1>2, <2>1, <2>2
  <2> QED BY <2>1, <2>3, SMT
<1>5. t \notin Elems(targets')
  <2> SUFFICES ASSUME NEW i \in 1..Len(targets'), targets'[i] = t PROVE FALSE
    BY DEF Elems
  <2>1. i + 1 \in 1..Len(targets) /\ 1 \in 1..Len(targets) /\ i + 1 # 1
    BY <1>3, SMT
  <2>2. targets[i + 1] = targets[1]
    BY <1>3
  <2> QED BY <1>2, <2>1, <2>2
<1>6. /\ queue' \in [Paths -> Seq(Nat)]
      /\ \A q \in Paths \ {t} : queue'[q] = queue[q]
      /\ queue[t] \in Seq(Nat) /\ queue'[t] = Append(queue[t], next - 1)
  BY <1>1, <1>2, <1>3
<1>7. Types'
  BY <1>1, <1>2, <1>3, <1>6 DEF Types, runvars, countvars
<1>8. \A q \in Paths : Gone(q)' = Gone(q) /\ Held(q)' = Held(q)
  BY <1>1 DEF Gone, Held, Written, WrittenSeqs, runvars
<1>9. \A q \in Paths \ {t} : Queued(q)' = Queued(q) /\ Coming(q)' = Coming(q)
  BY <1>1, <1>3, <1>6 DEF Queued, Coming
<1>10. /\ Queued(t)' = Queued(t) \cup {next - 1} /\ Coming(t) = {next - 1} /\ Coming(t)' = {}
  <2>1. Elems(Append(queue[t], next - 1)) = Elems(queue[t]) \cup {next - 1}
    BY <1>2, <1>6, AppendFacts
  <2> QED BY <1>3, <1>5, <1>6, <2>1 DEF Queued, Coming
<1>11. \A q \in Paths : OnPath(q)' = OnPath(q)
  BY <1>8, <1>9, <1>10 DEF OnPath
<1>12. \A q \in Paths : InTurn(q)
  BY <1>2 DEF BurstInv, SendingInv
<1>13. ASSUME NEW q \in Paths, q # t PROVE InTurn(q)'
  BY <1>1, <1>6, <1>8, <1>9, <1>11, <1>12, <1>13 DEF InTurn
<1>14. InTurn(t)'
  <2>1. Precede(Queued(t), {next - 1})
    BY <1>3, <1>10, <1>12 DEF InTurn
  <2>2. \A i, j \in 1..Len(queue'[t]) : i < j => queue'[t][i] < queue'[t][j]
    <3> DEFINE k == Len(queue[t])
    <3>1. k \in Nat /\ Len(queue'[t]) = k + 1 /\ queue'[t][k + 1] = next - 1
          /\ \A i \in 1..k : queue'[t][i] = queue[t][i]
      BY <1>2, <1>6
    <3>2. \A i \in 1..k : queue[t][i] < next - 1
      BY <2>1 DEF Precede, Queued, Elems
    <3>3. \A i, j \in 1..k : i < j => queue[t][i] < queue[t][j]
      BY <1>3, <1>12 DEF InTurn
    <3> HIDE DEF k
    <3> SUFFICES ASSUME NEW i \in 1..(k + 1), NEW j \in 1..(k + 1), i < j
                 PROVE  queue'[t][i] < queue'[t][j]
      BY <3>1
    <3>4. i \in 1..k /\ (j \in 1..k \/ j = k + 1)
      BY <3>1, SMT
    <3> QED BY <3>1, <3>2, <3>3, <3>4
  <2> DEFINE G == Gone(t)
             H == Held(t)
             Q == Queued(t)
             N == {next - 1}
  <2>3. /\ Precede(G, H \cup Q \cup N) /\ Precede(H, Q \cup N)
    BY <1>3, <1>10, <1>12 DEF InTurn
  <2>4. OnPath(t)' \subseteq 0..(next' - 1)
    BY <1>1, <1>3, <1>11, <1>12 DEF InTurn
  <2>5. /\ Precede(G, H \cup (Q \cup N) \cup {}) /\ Precede(H, (Q \cup N) \cup {})
        /\ Precede(Q \cup N, {})
    BY <2>3 DEF Precede
  <2> QED BY <1>3, <1>8, <1>10, <2>2, <2>4, <2>5 DEF InTurn
<1>15. sched # "redundant" => \A q, r \in Paths : q # r => OnPath(q)' \cap OnPath(r)' = {}
  BY <1>2, <1>11 DEF BurstInv, OnceInv
<1>16. next' <= Count(size) /\ next' > 0
  BY <1>1, <1>2 DEF BurstInv
<1>17. UNCHANGED <<runvars, wrote, sched, countvars>>
  BY <1>1
<1> QED BY <1>4, <1>7, <1>13, <1>14, <1>15, <1>16, <1>17, MoveKeeps

\* ... the writer takes the first of its queue ...
LEMMA TakeStep ==
    ASSUME SendingInv, cpc = "send", NEW p \in Paths, TakeChunk(p), UNCHANGED <<runvars, wrote>>
    PROVE  SendingInv'
<1> DEFINE h == Head(queue[p])
<1>1. /\ cur[p] = NoChunk /\ queue[p] # << >>
      /\ cur' = [cur EXCEPT ![p] = h] /\ queue' = [queue EXCEPT ![p] = Tail(@)]
      /\ UNCHANGED <<sched, n, next, targets, countvars>>
  BY DEF TakeChunk
<1>2. /\ Types /\ BurstInv /\ next \in Nat
      /\ queue \in [Paths -> Seq(Nat)] /\ cur \in [Paths -> Nat \cup {NoChunk}]
  BY <1>1 DEF SendingInv, Types
<1>3. /\ h \in Nat /\ Tail(queue[p]) \in Seq(Nat) /\ Len(queue[p]) \in Nat \ {0}
      /\ Len(Tail(queue[p])) = Len(queue[p]) - 1
      /\ h = queue[p][1] /\ \A i \in 1..Len(Tail(queue[p])) : Tail(queue[p])[i] = queue[p][i + 1]
      /\ Elems(queue[p]) = {h} \cup Elems(Tail(queue[p]))
  <2>1. queue[p] \in Seq(Nat)
    BY <1>2
  <2> QED BY <1>1, <2>1, TailFacts
<1> HIDE DEF h
<1>4. /\ queue' \in [Paths -> Seq(Nat)] /\ cur' \in [Paths -> Nat \cup {NoChunk}]
      /\ \A q \in Paths \ {p} : queue'[q] = queue[q] /\ cur'[q] = cur[q]
      /\ queue'[p] = Tail(queue[p]) /\ cur'[p] = h /\ h # NoChunk
  BY <1>1, <1>2, <1>3 DEF NoChunk
<1>5. Types'
  BY <1>1, <1>2, <1>4 DEF Types, runvars, countvars
<1>6. \A q \in Paths : Gone(q)' = Gone(q) /\ Coming(q)' = Coming(q)
  BY <1>1 DEF Gone, Coming, Written, WrittenSeqs, runvars
<1>7. \A q \in Paths \ {p} : Queued(q)' = Queued(q) /\ Held(q)' = Held(q)
  BY <1>4 DEF Queued, Held
<1>8. Held(p) = {} /\ Held(p)' = {h} /\ Queued(p) = {h} \cup Queued(p)'
  BY <1>1, <1>3, <1>4 DEF Held, Queued
<1>9. \A q \in Paths : OnPath(q)' = OnPath(q)
  BY <1>6, <1>7, <1>8 DEF OnPath
<1>10. \A q \in Paths : InTurn(q)
  BY <1>2 DEF BurstInv, SendingInv
<1>11. ASSUME NEW q \in Paths, q # p PROVE InTurn(q)'
  <2>1. /\ Gone(q)' = Gone(q) /\ Held(q)' = Held(q) /\ Queued(q)' = Queued(q)
        /\ Coming(q)' = Coming(q) /\ OnPath(q)' = OnPath(q)
        /\ queue'[q] = queue[q] /\ next' = next
    BY <1>1, <1>4, <1>6, <1>7, <1>9, <1>11
  <2> QED BY <1>10, <2>1 DEF InTurn
<1>12. InTurn(p)'
  <2>0. Len(queue'[p]) = Len(queue[p]) - 1 /\ Len(queue[p]) \in Nat \ {0}
    BY <1>3, <1>4
  <2>1. \A i, j \in 1..Len(queue'[p]) : i < j => queue'[p][i] < queue'[p][j]
    <3> SUFFICES ASSUME NEW i \in 1..Len(queue'[p]), NEW j \in 1..Len(queue'[p]), i < j
                 PROVE  queue'[p][i] < queue'[p][j]
      OBVIOUS
    <3>1. i + 1 \in 1..Len(queue[p]) /\ j + 1 \in 1..Len(queue[p]) /\ i + 1 < j + 1
      BY <2>0, SMT
    <3>2. queue[p][i + 1] < queue[p][j + 1]
      BY <1>10, <3>1 DEF InTurn
    <3> QED BY <1>3, <1>4, <3>2
  <2>2. \A b \in Queued(p)' : h < b
    <3> SUFFICES ASSUME NEW i \in 1..Len(queue'[p]) PROVE h < queue'[p][i]
      BY DEF Queued, Elems
    <3>1. i + 1 \in 1..Len(queue[p]) /\ 1 \in 1..Len(queue[p]) /\ 1 < i + 1
      BY <2>0, SMT
    <3>2. queue[p][1] < queue[p][i + 1]
      BY <1>10, <3>1 DEF InTurn
    <3> QED BY <1>3, <1>4, <3>2
  <2>3. OnPath(p)' \subseteq 0..(next' - 1)
    BY <1>1, <1>9, <1>10 DEF InTurn
  <2>4. /\ Precede(Gone(p), Held(p) \cup Queued(p) \cup Coming(p))
        /\ Precede(Queued(p), Coming(p))
    BY <1>10 DEF InTurn
  <2> QED BY <1>6, <1>8, <2>1, <2>2, <2>3, <2>4 DEF InTurn, Precede
<1>13. sched # "redundant" => \A q, r \in Paths : q # r => OnPath(q)' \cap OnPath(r)' = {}
  BY <1>2, <1>9 DEF BurstInv, OnceInv
<1>14. next' <= Count(size) /\ (targets' # << >> => next' > 0)
  BY <1>1, <1>2 DEF BurstInv
<1>15. \A i, j \in 1..Len(targets') : targets'[i] = targets'[j] => i = j
  BY <1>1, <1>2 DEF BurstInv
<1>16. UNCHANGED <<runvars, wrote, sched, countvars>>
  BY <1>1
<1> QED BY <1>5, <1>11, <1>12, <1>13, <1>14, <1>15, <1>16, MoveKeeps

\* ... or drops the one it holds.
LEMMA DropStep ==
    ASSUME SendingInv, cpc = "send", NEW p \in Paths, WriteFails(p), UNCHANGED <<runvars, wrote>>
    PROVE  SendingInv'
<1>1. /\ cur' = [cur EXCEPT ![p] = NoChunk]
      /\ UNCHANGED <<sched, n, next, targets, queue, countvars>>
  BY DEF WriteFails, batchvars
<1>2. /\ Types /\ BurstInv /\ cur \in [Paths -> Nat \cup {NoChunk}]
  BY DEF SendingInv, Types
<1>3. /\ cur' \in [Paths -> Nat \cup {NoChunk}] /\ cur'[p] = NoChunk
      /\ \A q \in Paths \ {p} : cur'[q] = cur[q]
  BY <1>1, <1>2
<1>4. Types'
  BY <1>1, <1>2, <1>3 DEF Types, runvars, countvars
<1>5. \A q \in Paths : Gone(q)' = Gone(q) /\ Queued(q)' = Queued(q) /\ Coming(q)' = Coming(q)
  BY <1>1 DEF Gone, Queued, Coming, Written, WrittenSeqs, runvars
<1>6. \A q \in Paths : Held(q)' \in SUBSET Held(q)
  BY <1>3 DEF Held
<1>7. \A q \in Paths : OnPath(q)' \in SUBSET OnPath(q)
  BY <1>5, <1>6 DEF OnPath
<1>8. ASSUME NEW q \in Paths PROVE InTurn(q)'
  <2>1. InTurn(q)
    BY <1>2 DEF BurstInv, SendingInv
  <2>2. OnPath(q)' \subseteq 0..(next' - 1)
    BY <1>1, <1>7, <2>1 DEF InTurn
  <2> QED BY <1>1, <1>5, <1>6, <2>1, <2>2 DEF InTurn, Precede
<1>9. ASSUME sched # "redundant", NEW q \in Paths, NEW r \in Paths, q # r
      PROVE  OnPath(q)' \cap OnPath(r)' = {}
  <2>1. OnPath(q) \cap OnPath(r) = {}
    BY <1>2, <1>9 DEF BurstInv, OnceInv
  <2> QED BY <1>7, <2>1
<1>10. next' <= Count(size) /\ (targets' # << >> => next' > 0)
  BY <1>1, <1>2 DEF BurstInv
<1>11. \A i, j \in 1..Len(targets') : targets'[i] = targets'[j] => i = j
  BY <1>1, <1>2 DEF BurstInv
<1>12. UNCHANGED <<runvars, wrote, sched, countvars>>
  BY <1>1
<1> QED BY <1>4, <1>8, <1>9, <1>10, <1>11, <1>12, MoveKeeps
-----------------------------------------------------------------------------
\* A frame is written.

\* The chunk a writer holds is one of the burst and was not written on its
\* path before, nor on any other unless redundant.
LEMMA HeldIsNew ==
    ASSUME SendingInv, cpc = "send", NEW p \in Paths, cur[p] # NoChunk
    PROVE  /\ cur[p] \in Nat /\ cur[p] \in AllSeqs(size) /\ size \in Nat \ {0}
           /\ Held(p) = {cur[p]}
           /\ \A a \in Gone(p) : a < cur[p]
           /\ cur[p] \notin Gone(p)
           /\ \A q \in Paths : Gone(q) \subseteq AllSeqs(size)
           /\ sched # "redundant" => cur[p] \notin GoneAnywhere
<1>1. BurstInv /\ size \in Nat \ {0} /\ next <= Count(size) /\ next \in Nat /\ cur[p] \in Nat
  BY DEF SendingInv, BurstInv, Types
<1>2. Held(p) = {cur[p]}
  BY DEF Held
<1>3. \A q \in Paths : OnPath(q) \subseteq AllSeqs(size)
  <2>1. \A q \in Paths : OnPath(q) \subseteq 0..(next - 1)
    BY <1>1 DEF BurstInv, InTurn
  <2>2. Count(size) \in Nat /\ 0..(next - 1) \subseteq 0..(Count(size) - 1)
    BY <1>1, ChunkFacts, SMT
  <2> QED BY <2>1, <2>2 DEF AllSeqs
<1>4. cur[p] \in OnPath(p) /\ \A q \in Paths : Gone(q) \subseteq OnPath(q)
  BY <1>2 DEF OnPath
<1>5. \A a \in Gone(p) : a < cur[p]
  BY <1>1, <1>2 DEF BurstInv, InTurn, Precede
<1>6. cur[p] \notin Gone(p)
  <2> SUFFICES ASSUME cur[p] \in Gone(p) PROVE FALSE
    OBVIOUS
  <2>1. cur[p] < cur[p]
    BY <1>5
  <2> QED BY <1>1, <2>1, SMT
<1>7. ASSUME sched # "redundant", NEW q \in Paths PROVE cur[p] \notin Gone(q)
  <2>1. CASE q = p
    BY <1>6, <2>1
  <2>2. CASE q # p
    <3>1. OnPath(p) \cap OnPath(q) = {}
      BY <1>1, <1>7, <2>2 DEF BurstInv, OnceInv
    <3> QED BY <1>4, <3>1
  <2> QED BY <2>1, <2>2
<1>8. sched # "redundant" => cur[p] \notin GoneAnywhere
  BY <1>7 DEF GoneAnywhere
<1> QED BY <1>1, <1>2, <1>3, <1>4, <1>5, <1>6, <1>8

\* The bytes counted for a burst are the bytes of its chunks.
LEMMA SentFacts ==
    ASSUME SendingInv, cpc = "send", NEW q \in Paths
    PROVE  /\ bytesSent[q] - before[q].bytes \in Nat
           /\ bytesSent[q] - before[q].bytes = BytesOf(size, Gone(q))
           /\ Gone(q) \in SUBSET AllSeqs(size)
<1>1. BurstInv /\ size \in Nat \ {0} /\ next <= Count(size) /\ next \in Nat
  BY DEF SendingInv, BurstInv, Types
<1>2. Gone(q) \in SUBSET AllSeqs(size)
  <2>1. Gone(q) \subseteq 0..(next - 1)
    BY <1>1 DEF BurstInv, InTurn, OnPath
  <2>2. Count(size) \in Nat /\ 0..(next - 1) \subseteq 0..(Count(size) - 1)
    BY <1>1, ChunkFacts, SMT
  <2> QED BY <2>1, <2>2 DEF AllSeqs
<1>3. BytesOf(size, Gone(q)) \in Nat
  BY <1>1, <1>2, BytesFacts
<1>4. bytesSent[q] = before[q].bytes + BytesOf(size, Gone(q)) /\ before[q].bytes \in Nat
  BY <1>1 DEF BurstInv, Counted, SendingInv, Types
<1> QED BY <1>2, <1>3, <1>4, SMT

LEMMA PathsFinite == IsFiniteSet(Paths)
<1>1. 0 \in Int /\ NumPaths - 1 \in Int
  BY PathAssumption
<1> QED BY <1>1, FS_Interval DEF Paths

LEMMA WriteStep ==
    ASSUME SendingInv, cpc = "send", NEW p \in Paths,
           WriteChunk(p, <<burstID, cur[p]>>, ChunkLen(size, cur[p])),
           wrote' = [wrote EXCEPT ![p] = Append(@, <<burstID, cur[p]>>)],
           UNCHANGED runvars
    PROVE  SendingInv'
<1>0. PICK c : c = cur[p]
  OBVIOUS
<1> DEFINE len == ChunkLen(size, c)
<1>1. /\ c # NoChunk
      /\ chunksSent' = [chunksSent EXCEPT ![p] = @ + 1]
      /\ bytesSent' = [bytesSent EXCEPT ![p] = @ + len]
      /\ cur' = [cur EXCEPT ![p] = NoChunk]
      /\ UNCHANGED <<sched, n, next, targets, queue>>
  BY <1>0 DEF WriteChunk, batchvars
<1>2. /\ c \in Nat /\ c \in AllSeqs(size) /\ size \in Nat \ {0}
      /\ Held(p) = {c} /\ c \notin Gone(p)
      /\ \A a \in Gone(p) : a < c
      /\ \A q \in Paths : Gone(q) \subseteq AllSeqs(size)
      /\ sched # "redundant" => c \notin GoneAnywhere
  BY <1>0, <1>1, HeldIsNew
<1>3. len \in Nat
  BY <1>2, ChunkFacts
<1>4. /\ Types /\ BetweenInv /\ InBurstOrder /\ BurstInv /\ LogInv
      /\ UNCHANGED <<cpc, burstID, size, before, burstLog>>
      /\ wrote' = [wrote EXCEPT ![p] = Append(@, <<burstID, c>>)]
  BY <1>0 DEF SendingInv, runvars
<1> HIDE DEF len
<1>5. /\ chunksSent' \in [Paths -> Nat] /\ bytesSent' \in [Paths -> Nat]
      /\ cur' \in [Paths -> Nat \cup {NoChunk}]
      /\ chunksSent'[p] = chunksSent[p] + 1 /\ bytesSent'[p] = bytesSent[p] + len /\ cur'[p] = NoChunk
      /\ \A q \in Paths \ {p} : /\ chunksSent'[q] = chunksSent[q]
                                /\ bytesSent'[q] = bytesSent[q] /\ cur'[q] = cur[q]
  <2>1. /\ chunksSent \in [Paths -> Nat] /\ bytesSent \in [Paths -> Nat]
        /\ cur \in [Paths -> Nat \cup {NoChunk}]
    BY <1>4 DEF Types
  <2>2. chunksSent' \in [Paths -> Nat] /\ bytesSent' \in [Paths -> Nat]
    BY <1>1, <1>3, <2>1
  <2> QED BY <1>1, <2>1, <2>2
<1>6. /\ wrote' \in [Paths -> Seq(Nat \X Nat)]
      /\ \A q \in Paths \ {p} : wrote'[q] = wrote[q]
      /\ Len(wrote[p]) \in Nat /\ Len(wrote'[p]) = Len(wrote[p]) + 1
      /\ \A i \in 1..Len(wrote[p]) : wrote'[p][i] = wrote[p][i]
      /\ wrote'[p][Len(wrote[p]) + 1] = <<burstID, c>>
  BY <1>2, <1>4, FrameFacts
<1>7. /\ \A q \in Paths, id \in Nat : q # p \/ id # burstID =>
            Written(q, id)' = Written(q, id) /\ WrittenSeqs(q, id)' = WrittenSeqs(q, id)
      /\ Gone(p)' = Gone(p) \cup {c}
      /\ Cardinality(Written(p, burstID))' = Cardinality(Written(p, burstID)) + 1
  BY <1>2, <1>4, WrittenFacts
<1>8. Types'
  BY <1>1, <1>4, <1>5, <1>6 DEF Types
<1>9. BetweenInv'
  <2>1. ASSUME NEW q \in Paths, NEW i \in 1..Len(wrote'[q]) PROVE wrote'[q][i][1] <= burstID
    <3>1. CASE q # p
      BY <1>4, <1>6, <3>1 DEF BetweenInv
    <3>2. CASE q = p /\ i \in 1..Len(wrote[p])
      BY <1>4, <1>6, <3>2 DEF BetweenInv
    <3>3. CASE q = p /\ i = Len(wrote[p]) + 1
      <4>1. wrote'[q][i][1] = burstID /\ burstID \in Nat
        BY <1>4, <1>6, <3>3 DEF Types
      <4> QED BY <4>1, SMT
    <3> QED BY <1>6, <3>1, <3>2, <3>3, SMT
  <2> QED BY <1>4, <2>1 DEF BetweenInv
<1>10. InBurstOrder'
  <2> DEFINE k == Len(wrote[p])
  <2>1. DOMAIN wrote[p] = 1..k /\ DOMAIN wrote'[p] = 1..(k + 1) /\ k \in Nat
    BY <1>4, <1>6 DEF Types
  <2>2. ASSUME NEW i \in 1..k
        PROVE  wrote[p][i][1] < burstID \/ (wrote[p][i][1] = burstID /\ wrote[p][i][2] < c)
    <3>0. wrote[p] \in Seq(Nat \X Nat) /\ burstID \in Nat
      BY <1>4 DEF Types
    <3>1. wrote[p][i][1] \in Nat /\ wrote[p][i][1] <= burstID /\ burstID \in Nat
      BY <1>4, <3>0 DEF BetweenInv
    <3>2. ASSUME wrote[p][i][1] = burstID PROVE wrote[p][i][2] < c
      <4>1. wrote[p][i][2] \in Gone(p)
        BY <2>1, <3>2 DEF Gone, WrittenSeqs, Written
      <4> QED BY <1>2, <4>1
    <3> QED BY <3>1, <3>2, SMT
  <2>3. wrote'[p][k + 1][1] = burstID /\ wrote'[p][k + 1][2] = c
    BY <1>6
  <2>4. \A i \in 1..k : wrote'[p][i] = wrote[p][i]
    BY <1>6
  <2> HIDE DEF k
  <2>5. ASSUME NEW i \in 1..(k + 1), NEW j \in 1..(k + 1), i < j
        PROVE  \/ wrote'[p][i][1] < wrote'[p][j][1]
               \/ wrote'[p][i][1] = wrote'[p][j][1] /\ wrote'[p][i][2] < wrote'[p][j][2]
    <3>1. i \in 1..k /\ (j \in 1..k \/ j = k + 1)
      BY <2>1, <2>5, SMT
    <3>2. CASE j \in 1..k
      <4>1. \/ wrote[p][i][1] < wrote[p][j][1]
            \/ wrote[p][i][1] = wrote[p][j][1] /\ wrote[p][i][2] < wrote[p][j][2]
        BY <1>4, <2>1, <2>5, <3>1, <3>2 DEF InBurstOrder
      <4> QED BY <2>4, <3>1, <3>2, <4>1
    <3>3. CASE j = k + 1
      BY <2>2, <2>3, <2>4, <3>1, <3>3
    <3> QED BY <3>1, <3>2, <3>3
  <2>6. ASSUME NEW q \in Paths, q # p, NEW i \in DOMAIN wrote'[q], NEW j \in DOMAIN wrote'[q], i < j
        PROVE  \/ wrote'[q][i][1] < wrote'[q][j][1]
               \/ wrote'[q][i][1] = wrote'[q][j][1] /\ wrote'[q][i][2] < wrote'[q][j][2]
    BY <1>4, <1>6, <2>6 DEF InBurstOrder
  <2> SUFFICES ASSUME NEW q \in Paths, NEW i \in DOMAIN wrote'[q], NEW j \in DOMAIN wrote'[q], i < j
               PROVE  \/ wrote'[q][i][1] < wrote'[q][j][1]
                      \/ wrote'[q][i][1] = wrote'[q][j][1] /\ wrote'[q][i][2] < wrote'[q][j][2]
    BY DEF InBurstOrder
  <2>7. CASE q = p
    BY <2>1, <2>5, <2>7
  <2>8. CASE q # p
    BY <2>6, <2>8
  <2> QED BY <2>7, <2>8
<1>11. /\ \A q \in Paths : Queued(q)' = Queued(q) /\ Coming(q)' = Coming(q)
       /\ \A q \in Paths \ {p} : Gone(q)' = Gone(q) /\ Held(q)' = Held(q)
       /\ Held(p)' = {}
  <2>1. \A q \in Paths : Queued(q)' = Queued(q) /\ Coming(q)' = Coming(q)
    BY <1>1 DEF Queued, Coming
  <2>2. \A q \in Paths \ {p} : Held(q)' = Held(q)
    BY <1>5 DEF Held
  <2>3. \A q \in Paths \ {p} : Gone(q)' = Gone(q)
    BY <1>4, <1>6 DEF Gone, WrittenSeqs, Written
  <2>4. Held(p)' = {}
    BY <1>5 DEF Held
  <2> QED BY <2>1, <2>2, <2>3, <2>4
<1>12. \A q \in Paths : OnPath(q)' = OnPath(q)
  BY <1>2, <1>7, <1>11 DEF OnPath
<1>13. ASSUME NEW q \in Paths PROVE InTurn(q)'
  <2>1. InTurn(q) /\ InTurn(p)
    BY <1>4 DEF BurstInv
  <2>2. CASE q # p
    BY <1>1, <1>11, <1>12, <2>1, <2>2 DEF InTurn
  <2>3. CASE q = p
    <3>1. OnPath(p)' \subseteq 0..(next' - 1)
      BY <1>1, <1>12, <2>1 DEF InTurn
    <3> QED BY <1>1, <1>2, <1>7, <1>11, <2>1, <2>3, <3>1 DEF InTurn, Precede
  <2> QED BY <2>2, <2>3
<1>14. BytesOf(size, Gone(p) \cup {c}) = BytesOf(size, Gone(p)) + len /\ BytesOf(size, Gone(p)) \in Nat
  BY <1>2, BytesFacts DEF len
<1>15. Counted(p)'
  <2>1. Counted(p)
    BY <1>4 DEF BurstInv
  <2>2. before[p].bytes \in Nat /\ before[p].chunks \in Nat /\ before'[p] = before[p]
    BY <1>4 DEF Types
  <2>3. chunksSent'[p] = (before[p].chunks + Cardinality(Written(p, burstID))) + 1
    BY <1>5, <2>1 DEF Counted
  <2>4. bytesSent'[p] = (before[p].bytes + BytesOf(size, Gone(p))) + len
    BY <1>5, <2>1 DEF Counted
  <2>5. BytesOf(size, Gone(p))' = BytesOf(size, Gone(p)) + len
    BY <1>4, <1>7, <1>14 DEF BytesOf
  <2>6. Cardinality(Written(p, burstID)) \in Int
    <3>1. chunksSent[p] = before[p].chunks + Cardinality(Written(p, burstID))
      BY <2>1 DEF Counted
    <3>2. IsFiniteSet(Written(p, burstID))
      <4>1. 1 \in Int /\ Len(wrote[p]) \in Int
        BY <1>6
      <4>2. IsFiniteSet(1..Len(wrote[p]))
        BY <4>1, FS_Interval
      <4>3. Written(p, burstID) \in SUBSET (1..Len(wrote[p]))
        <5>1. wrote[p] \in Seq(Nat \X Nat)
          BY <1>4 DEF Types
        <5> QED BY <5>1 DEF Written
      <4> QED BY <4>2, <4>3, FS_Subset
    <3> QED BY <3>2, FS_CardinalityType
  <2>7. chunksSent'[p] = before[p].chunks + (Cardinality(Written(p, burstID)) + 1)
    BY <2>2, <2>3, <2>6, SMT
  <2>8. bytesSent'[p] = before[p].bytes + (BytesOf(size, Gone(p)) + len)
    BY <1>3, <1>14, <2>2, <2>4, SMT
  <2> QED BY <1>4, <1>7, <2>2, <2>5, <2>7, <2>8 DEF Counted
<1>16. ASSUME NEW q \in Paths, q # p PROVE Counted(q)'
  <2>1. Counted(q) /\ burstID \in Nat
    BY <1>4 DEF BurstInv, Types
  <2>2. BytesOf(size, Gone(q))' = BytesOf(size, Gone(q))
    BY <1>4, <1>11, <1>16 DEF BytesOf
  <2>3. Written(q, burstID)' = Written(q, burstID)
    BY <1>4, <1>7, <1>16, <2>1
  <2>4. chunksSent'[q] = chunksSent[q] /\ bytesSent'[q] = bytesSent[q] /\ before' = before
    BY <1>4, <1>5, <1>16
  <2> QED BY <2>1, <2>2, <2>3, <2>4 DEF Counted
<1>17. SentBytes' = SentBytes + len
  <2> DEFINE f == [q \in Paths |-> bytesSent[q] - before[q].bytes]
             g == [q \in Paths |-> bytesSent'[q] - before'[q].bytes]
  <2>1. SentBytes = SumOver(Paths, f) /\ SentBytes' = SumOver(Paths, g)
    BY DEF SentBytes
  <2>2. \A q \in Paths : f[q] \in Nat
    BY SentFacts
  <2>3. \A q \in Paths \ {p} : g[q] = f[q]
    BY <1>4, <1>5
  <2>4. g[p] = f[p] + len
    <3>1. bytesSent[p] \in Nat /\ before[p].bytes \in Nat
      BY <1>4 DEF Types
    <3>2. f[p] = bytesSent[p] - before[p].bytes /\ g[p] = (bytesSent[p] + len) - before[p].bytes
      BY <1>4, <1>5
    <3> HIDE DEF f, g
    <3> QED BY <1>3, <3>1, <3>2, SMT
  <2> HIDE DEF f, g
  <2>5. f[p] \in Nat /\ g[p] \in Nat
    BY <1>3, <2>2, <2>4
  <2>6. SumOver(Paths, g) + f[p] = SumOver(Paths, f) + g[p]
    BY <2>2, <2>3, <2>5, PathsFinite, SumUpdate
  <2>7. SumOver(Paths, f) \in Nat /\ SumOver(Paths, g) \in Nat
    <3>1. \A q \in Paths : g[q] \in Nat
      BY <2>2, <2>3, <2>5
    <3> QED BY <2>2, <3>1, PathsFinite, SumFinite
  <2> QED BY <1>3, <2>1, <2>4, <2>5, <2>6, <2>7, SMT
<1>18. GoneAnywhere' = GoneAnywhere \cup {c}
  BY <1>7, <1>11 DEF GoneAnywhere
<1>19. OnceInv'
  <2> SUFFICES ASSUME sched # "redundant"
               PROVE  /\ \A q, r \in Paths : q # r => OnPath(q)' \cap OnPath(r)' = {}
                      /\ SentBytes' = BytesOf(size, GoneAnywhere)'
    BY <1>1 DEF OnceInv
  <2>1. /\ \A q, r \in Paths : q # r => OnPath(q) \cap OnPath(r) = {}
        /\ SentBytes = BytesOf(size, GoneAnywhere)
    BY <1>4 DEF BurstInv, OnceInv
  <2>2. GoneAnywhere \in SUBSET AllSeqs(size) /\ c \in AllSeqs(size) \ GoneAnywhere
    BY <1>2 DEF GoneAnywhere
  <2>3. BytesOf(size, GoneAnywhere \cup {c}) = BytesOf(size, GoneAnywhere) + len
    BY <1>2, <2>2, BytesFacts DEF len
  <2>4. BytesOf(size, GoneAnywhere)' = BytesOf(size, GoneAnywhere \cup {c})
    BY <1>4, <1>18 DEF BytesOf
  <2> QED BY <1>12, <1>17, <2>1, <2>3, <2>4
<1>20. BurstInv'
  BY <1>1, <1>4, <1>13, <1>15, <1>16, <1>19 DEF BurstInv
<1>21. LogInv'
  <2>1. ASSUME NEW i \in 1..Len(burstLog) PROVE GoodRow(burstLog[i])'
    <3>1. PICK x : x = burstLog[i]
      OBVIOUS
    <3>2. GoodRow(x) /\ x.id < burstID /\ x.id \in Nat /\ burstID \in Nat
      <4>1. GoodRow(x) /\ x.id < burstID
        BY <1>4, <3>1 DEF LogInv
      <4>2. x \in BurstRows /\ burstID \in Nat
        BY <1>4, <3>1 DEF Types
      <4> QED BY <4>1, <4>2 DEF BurstRows
    <3>3. x.id # burstID
      BY <3>2, SMT
    <3>4. \A q \in Paths : Written(q, x.id)' = Written(q, x.id) /\ WrittenSeqs(q, x.id)' = WrittenSeqs(q, x.id)
      BY <1>7, <3>2, <3>3
    <3>5. GoodRow(x)'
      BY <1>1, <3>2, <3>4, RowSame
    <3> QED BY <1>4, <3>1, <3>5
  <2>2. \A q \in Paths : Logged(q)' = Logged(q)
    BY <1>4 DEF Logged
  <2> QED BY <1>4, <2>1, <2>2 DEF LogInv
<1> QED BY <1>8, <1>9, <1>10, <1>20, <1>21 DEF SendingInv
-----------------------------------------------------------------------------
\* The beginning and the end of a burst.

LEMMA NoBytes == ASSUME NEW t PROVE BytesOf(t, {}) = 0
  BY SumEmpty DEF BytesOf

\* A burst starts with nothing written of it and the counters as they are.
LEMMA StartStep ==
    ASSUME SendingInv, StartBurst
    PROVE  SendingInv'
<1>1. /\ cpc = "burst" /\ cpc' = "send" /\ burstID' = burstID + 1
      /\ size' \in MinSize..MaxSize /\ before' = SnapshotSent
      /\ next' = 0 /\ targets' = << >> /\ queue' = [p \in Paths |-> << >>]
      /\ UNCHANGED <<burstLog, wrote, sched, n, cur, chunksSent, bytesSent>>
  BY DEF StartBurst, NewBurstID, countvars
<1>2. Types /\ BetweenInv /\ InBurstOrder /\ LogInv /\ burstID \in Nat
  BY DEF SendingInv, Types
<1>3. /\ chunksSent \in [Paths -> Nat] /\ bytesSent \in [Paths -> Nat]
      /\ \A q \in Paths : before'[q].bytes = bytesSent[q] /\ before'[q].chunks = chunksSent[q]
      /\ before' \in [Paths -> [bytes : Nat, chunks : Nat]]
  BY <1>1, <1>2 DEF Types, SnapshotSent
<1>4. Types'
  <2>1. targets' \in Seq(Paths) /\ burstID' \in Nat /\ next' \in Nat
        /\ queue' \in [Paths -> Seq(Nat)]
    BY <1>1, <1>2
  <2> QED BY <1>1, <1>2, <1>3, <2>1 DEF Types
<1>5. BetweenInv' /\ InBurstOrder'
  <2>1. ASSUME NEW q \in Paths, NEW i \in 1..Len(wrote[q]) PROVE wrote[q][i][1] <= burstID + 1
    <3>1. wrote[q][i][1] \in Nat /\ wrote[q][i][1] <= burstID
      BY <1>2 DEF Types, BetweenInv
    <3> QED BY <1>2, <3>1, SMT
  <2> QED BY <1>1, <1>2, <2>1 DEF BetweenInv, InBurstOrder
<1>6. \A q \in Paths : Written(q, burstID)' = {} /\ Gone(q)' = {}
  <2>1. ASSUME NEW q \in Paths, NEW i \in DOMAIN wrote[q] PROVE wrote[q][i][1] # burstID + 1
    <3>1. wrote[q][i][1] \in Nat /\ wrote[q][i][1] <= burstID
      BY <1>2 DEF Types, BetweenInv
    <3> QED BY <1>2, <3>1, SMT
  <2> QED BY <1>1, <2>1 DEF Written, Gone, WrittenSeqs
<1>7. \A q \in Paths : Held(q)' = {} /\ Queued(q)' = {} /\ Coming(q)' = {} /\ queue'[q] = << >>
  BY <1>1, <1>2, NoElems DEF BetweenInv, Held, Queued, Coming
<1>8. \A q \in Paths : OnPath(q)' = {}
  BY <1>6, <1>7 DEF OnPath
<1>9. \A q \in Paths : InTurn(q)'
  <2>1. \A q \in Paths : \A i, j \in 1..Len(queue'[q]) : FALSE
    BY <1>7
  <2> QED BY <1>6, <1>7, <1>8, <2>1 DEF InTurn, Precede
<1>10. ASSUME NEW q \in Paths PROVE Counted(q)'
  <2>1. BytesOf(size, Gone(q))' = 0
    BY <1>6, NoBytes
  <2>2. Cardinality(Written(q, burstID))' = 0
    BY <1>6, FS_EmptySet
  <2>3. bytesSent'[q] \in Nat /\ chunksSent'[q] \in Nat /\ bytesSent'[q] = bytesSent[q]
        /\ chunksSent'[q] = chunksSent[q]
    BY <1>1, <1>3
  <2> QED BY <1>3, <2>1, <2>2, <2>3 DEF Counted
<1>11. OnceInv'
  <2> DEFINE f == [q \in Paths |-> bytesSent'[q] - before'[q].bytes]
  <2>1. \A q \in Paths : f[q] = 0
    BY <1>1, <1>3
  <2>2. SentBytes' = SumOver(Paths, f)
    BY DEF SentBytes
  <2> HIDE DEF f
  <2>3. SentBytes' = 0
    BY <2>1, <2>2, SumZero
  <2>4. GoneAnywhere' = {}
    BY <1>6 DEF GoneAnywhere
  <2>5. BytesOf(size, GoneAnywhere)' = 0
    BY <2>4, NoBytes
  <2> QED BY <1>8, <2>3, <2>5 DEF OnceInv
<1>12. BurstInv'
  <2>1. size' \in Nat \ {0}
    BY <1>1, BurstAssumption
  <2>2. Count(size') \in Nat
    BY <2>1, ChunkFacts
  <2>3. /\ (burstID > 0)' /\ (next <= Count(size))'
        /\ \A i, j \in 1..Len(targets') : FALSE
    BY <1>1, <1>2, <2>2
  <2> QED BY <1>1, <1>9, <1>10, <1>11, <2>1, <2>3 DEF BurstInv
<1>13. LogInv'
  <2>1. ASSUME NEW i \in 1..Len(burstLog)
        PROVE  GoodRow(burstLog[i])' /\ burstLog[i].id < burstID'
    <3>1. GoodRow(burstLog[i])' /\ burstLog[i].id \in Nat
      BY <1>1, <1>2, RowsKept
    <3>2. burstLog[i].id <= burstID
      BY <1>2 DEF LogInv
    <3> QED BY <1>1, <1>2, <3>1, <3>2
  <2>2. \A q \in Paths : Logged(q)' = Logged(q) /\ Logged(q) = bytesSent[q]
    BY <1>1, <1>2 DEF Logged, LogInv
  <2>3. \A i \in 1..Len(burstLog) : burstLog[i].id <= burstID'
    <3> SUFFICES ASSUME NEW i \in 1..Len(burstLog) PROVE burstLog[i].id <= burstID'
      OBVIOUS
    <3>1. burstLog[i].id < burstID'
      BY <2>1
    <3>2. burstLog[i].id \in Nat
      BY <1>1, <1>2, RowsKept
    <3> QED BY <1>1, <1>2, <3>1, <3>2, SMT
  <2> QED BY <1>1, <1>3, <2>1, <2>2, <2>3 DEF LogInv
<1> QED BY <1>4, <1>5, <1>12, <1>13 DEF SendingInv

\* A skipped burst only uses a number.
LEMMA SkipStep ==
    ASSUME SendingInv, SkipBurst
    PROVE  SendingInv'
<1>1. /\ cpc = "burst" /\ cpc' \in {"ticker", "select"} /\ burstID' = burstID + 1
      /\ UNCHANGED <<size, before, burstLog, wrote, sched, n, next, targets, queue, cur,
                     chunksSent, bytesSent>>
  BY DEF SkipBurst, AfterBurst, NewBurstID, sendvars, batchvars, countvars
<1>2. Types /\ BetweenInv /\ InBurstOrder /\ LogInv /\ burstID \in Nat
  BY DEF SendingInv, Types
<1>3. Types'
  BY <1>1, <1>2 DEF Types
<1>4. BetweenInv' /\ InBurstOrder'
  <2>1. ASSUME NEW q \in Paths, NEW i \in 1..Len(wrote[q]) PROVE wrote[q][i][1] <= burstID + 1
    <3>1. wrote[q][i][1] \in Nat /\ wrote[q][i][1] <= burstID
      BY <1>2 DEF Types, BetweenInv
    <3> QED BY <1>2, <3>1, SMT
  <2> QED BY <1>1, <1>2, <2>1 DEF BetweenInv, InBurstOrder
<1>5. BurstInv'
  BY <1>1 DEF BurstInv
<1>6. LogInv'
  <2>1. ASSUME NEW i \in 1..Len(burstLog)
        PROVE  GoodRow(burstLog[i])' /\ burstLog[i].id <= burstID'
    <3>1. GoodRow(burstLog[i])' /\ burstLog[i].id \in Nat
      BY <1>1, <1>2, RowsKept
    <3>2. burstLog[i].id <= burstID
      BY <1>2 DEF LogInv
    <3> QED BY <1>1, <1>2, <3>1, <3>2
  <2>2. \A q \in Paths : Logged(q)' = Logged(q) /\ Logged(q) = bytesSent[q]
    BY <1>1, <1>2 DEF Logged, LogInv
  <2> QED BY <1>1, <2>1, <2>2 DEF LogInv
<1> QED BY <1>3, <1>4, <1>5, <1>6 DEF SendingInv

\* One more row adds its bytes to what is logged for a path.
LEMMA LogGrows ==
    ASSUME burstLog \in Seq(BurstRows), NEW x \in BurstRows, burstLog' = Append(burstLog, x),
           NEW q \in Paths
    PROVE  Logged(q)' = Logged(q) + x.perPath[q].bytes
<1> DEFINE k == Len(burstLog)
           S == 1..k
           y == k + 1
           f == [i \in 1..Len(burstLog) |-> burstLog[i].perPath[q].bytes]
           g == [i \in 1..Len(burstLog') |-> burstLog'[i].perPath[q].bytes]
<1>1. x.perPath[q].bytes \in Nat /\ \A i \in 1..Len(burstLog) : burstLog[i].perPath[q].bytes \in Nat
  <2>1. \A r \in BurstRows : r.perPath[q].bytes \in Nat
    BY DEF BurstRows, PathRows
  <2> QED BY <2>1
<1>2. /\ k \in Nat /\ Len(burstLog') = k + 1 /\ burstLog'[k + 1] = x
      /\ \A i \in 1..k : burstLog'[i] = burstLog[i]
  OBVIOUS
<1>3. IsFiniteSet(S)
  <2>1. 1 \in Int /\ k \in Int
    BY <1>2
  <2> QED BY <2>1, FS_Interval
<1>4. 1..Len(burstLog') = S \cup {y} /\ y \notin S
  BY <1>2, SMT
<1>5. Logged(q) = SumOver(S, f) /\ Logged(q)' = SumOver(S \cup {y}, g)
  BY <1>4 DEF Logged
<1>6. \A i \in S : f[i] \in Nat
  BY <1>1
<1>7. g[y] = x.perPath[q].bytes
  <2>1. y \in 1..Len(burstLog')
    BY <1>4
  <2> QED BY <1>2, <2>1
<1>8. \A i \in S : g[i] = f[i]
  BY <1>2, <1>4
<1>9. \A i \in S : g[i] \in Nat
  BY <1>6, <1>8
<1>10. g[y] \in Nat /\ y \notin S
  BY <1>1, <1>4, <1>7
<1> HIDE DEF S, y, f, g, k
<1>11. SumOver(S \cup {y}, g) = SumOver(S, g) + g[y]
  BY <1>3, <1>9, <1>10, SumAdd
<1>12. SumOver(S, g) = SumOver(S, f)
  BY <1>8, SumSame
<1> QED BY <1>5, <1>7, <1>11, <1>12

\* The rows of a finished burst are exact: the counters moved by its chunks
\* only, and its bytes are its size exactly if no chunk is missing.
LEMMA RowIsGood ==
    ASSUME SendingInv, cpc = "send"
    PROVE  GoodRow(Row) /\ Row \in BurstRows /\ Row.id = burstID
           /\ \A q \in Paths : Row.perPath[q].bytes = bytesSent[q] - before[q].bytes
<1>1. /\ Types /\ BurstInv /\ burstID \in Nat /\ size \in Nat \ {0}
      /\ \A q \in Paths : chunksSent[q] \in Nat /\ before[q].chunks \in Nat /\ Counted(q)
  BY DEF SendingInv, BurstInv, Types
<1> DEFINE f == [q \in Paths |-> bytesSent[q] - before[q].bytes]
           rows == [q \in Paths |-> PathRow(q)]
<1>2. \A q \in Paths : f[q] \in Nat /\ f[q] = BytesOf(size, Gone(q)) /\ Gone(q) \in SUBSET AllSeqs(size)
  BY SentFacts
<1>3. SentBytes = SumOver(Paths, f)
  BY DEF SentBytes
<1>4. Row = [id |-> burstID, size |-> size, bytes |-> SentBytes, complete |-> (SentBytes = size),
             perPath |-> rows]
  BY DEF Row, SentBytes
<1>5. ASSUME NEW q \in Paths
      PROVE  rows[q] = [bytes |-> f[q], chunks |-> chunksSent[q] - before[q].chunks,
                        complete |-> (f[q] = size)]
  BY DEF PathRow
<1> HIDE DEF f, rows
<1>6. SentBytes \in Nat
  BY <1>2, <1>3, PathsFinite, SumFinite
<1>7. ASSUME NEW q \in Paths
      PROVE  /\ chunksSent[q] - before[q].chunks = Cardinality(Written(q, burstID))
             /\ chunksSent[q] - before[q].chunks \in Nat
  <2>1. IsFiniteSet(Written(q, burstID))
    <3>1. wrote[q] \in Seq(Nat \X Nat)
      BY <1>1 DEF Types
    <3>2. 1 \in Int /\ Len(wrote[q]) \in Int
      BY <3>1
    <3>3. IsFiniteSet(1..Len(wrote[q]))
      BY <3>2, FS_Interval
    <3>4. Written(q, burstID) \in SUBSET (1..Len(wrote[q]))
      BY <3>1 DEF Written
    <3> QED BY <3>3, <3>4, FS_Subset
  <2>2. Cardinality(Written(q, burstID)) \in Nat
    BY <2>1, FS_CardinalityType
  <2>3. chunksSent[q] = before[q].chunks + Cardinality(Written(q, burstID)) /\ before[q].chunks \in Nat
    BY <1>1 DEF Counted
  <2> QED BY <2>2, <2>3, SMT
<1>8. \A q \in Paths : /\ rows[q].bytes = f[q]
                       /\ rows[q].chunks = Cardinality(Written(q, burstID))
                       /\ (rows[q].complete <=> f[q] = size)
                       /\ rows[q] \in PathRows
  <2> SUFFICES ASSUME NEW q \in Paths
               PROVE  /\ rows[q].bytes = f[q]
                      /\ rows[q].chunks = Cardinality(Written(q, burstID))
                      /\ (rows[q].complete <=> f[q] = size)
                      /\ rows[q] \in PathRows
    OBVIOUS
  <2>1. (f[q] = size) \in BOOLEAN
    OBVIOUS
  <2>2. PICK b : b = (f[q] = size)
    OBVIOUS
  <2>3. rows[q] = [bytes |-> f[q], chunks |-> chunksSent[q] - before[q].chunks, complete |-> b]
    BY <1>5, <2>2, Zenon
  <2>4. rows[q].complete = b
    BY <2>3
  <2>5. rows[q].complete <=> f[q] = size
    <3>1. rows[q].complete = (f[q] = size)
      BY <2>2, <2>4
    <3> QED BY <3>1
  <2> QED BY <1>2, <1>7, <2>1, <2>2, <2>3, <2>5 DEF PathRows
<1>9. ASSUME NEW q \in Paths
      PROVE  rows[q].complete <=> WrittenSeqs(q, burstID) = AllSeqs(size)
  <2>1. BytesOf(size, Gone(q)) = size <=> Gone(q) = AllSeqs(size)
    BY <1>1, <1>2, AllBytes
  <2> QED BY <1>2, <1>8, <2>1, Zenon DEF Gone
<1>10. SentBytes = SumOver(Paths, [p \in Paths |-> rows[p].bytes])
  <2> DEFINE g == [p \in Paths |-> rows[p].bytes]
  <2>1. \A q \in Paths : f[q] = g[q]
    BY <1>8
  <2> HIDE DEF g
  <2>2. SumOver(Paths, f) = SumOver(Paths, g)
    BY <2>1, SumSame
  <2> QED BY <1>3, <2>2 DEF g
<1>11. ASSUME sched # "redundant"
       PROVE  SentBytes = size <=> UNION {WrittenSeqs(p, burstID) : p \in Paths} = AllSeqs(size)
  <2>1. SentBytes = BytesOf(size, GoneAnywhere)
    BY <1>1, <1>11 DEF BurstInv, OnceInv
  <2>2. GoneAnywhere \in SUBSET AllSeqs(size)
    BY <1>2 DEF GoneAnywhere
  <2>3. BytesOf(size, GoneAnywhere) = size <=> GoneAnywhere = AllSeqs(size)
    BY <1>1, <2>2, AllBytes
  <2>4. GoneAnywhere = UNION {WrittenSeqs(p, burstID) : p \in Paths}
    BY DEF GoneAnywhere, Gone
  <2> QED BY <2>1, <2>3, <2>4
<1>12. PICK b : b = (SentBytes = size)
  OBVIOUS
<1>13. Row = [id |-> burstID, size |-> size, bytes |-> SentBytes, complete |-> b, perPath |-> rows]
  BY <1>4, <1>12, Zenon
<1>14. /\ Row.id = burstID /\ Row.size = size /\ Row.bytes = SentBytes /\ Row.perPath = rows
       /\ Row.complete = b
  BY <1>13
<1>15. rows \in [Paths -> PathRows]
  BY <1>8 DEF rows
<1>16. b \in BOOLEAN
  BY <1>12
<1>17. Row \in BurstRows
  BY <1>1, <1>6, <1>13, <1>15, <1>16 DEF BurstRows
<1>18. Row.complete <=> SentBytes = size
  BY <1>12, <1>14, Zenon
<1>19. GoodRow(Row)
  <2>1. \A p \in Paths : Row.perPath[p].chunks = Cardinality(Written(p, Row.id))
    BY <1>8, <1>14
  <2>2. Row.bytes = SumOver(Paths, [p \in Paths |-> Row.perPath[p].bytes])
    BY <1>10, <1>14
  <2>3. \A p \in Paths : Row.perPath[p].complete <=> WrittenSeqs(p, Row.id) = AllSeqs(Row.size)
    BY <1>9, <1>14, Zenon
  <2>4. sched # "redundant" =>
           (Row.complete <=> UNION {WrittenSeqs(p, Row.id) : p \in Paths} = AllSeqs(Row.size))
    BY <1>11, <1>14, <1>18, Zenon
  <2> QED BY <2>1, <2>2, <2>3, <2>4, Zenon DEF GoodRow
<1>20. \A q \in Paths : Row.perPath[q].bytes = bytesSent[q] - before[q].bytes
  BY <1>8, <1>14 DEF f
<1> QED BY <1>14, <1>17, <1>19, <1>20

LEMMA FinishStep ==
    ASSUME SendingInv, WriterInv, FinishBurst
    PROVE  SendingInv'
<1>1. PICK x : x = Row
  OBVIOUS
<1>2. /\ cpc = "send" /\ cpc' \in {"ticker", "select"} /\ WritersDone
      /\ burstLog' = Append(burstLog, x)
      /\ UNCHANGED <<burstID, size, before, wrote, sched, n, next, targets, queue, cur,
                     chunksSent, bytesSent>>
  BY <1>1 DEF FinishBurst, AfterBurst, sendvars, batchvars, countvars
<1>3. /\ Types /\ BetweenInv /\ InBurstOrder /\ BurstInv /\ LogInv
      /\ burstLog \in Seq(BurstRows) /\ burstID \in Nat
  BY DEF SendingInv, Types
<1>4. /\ GoodRow(x) /\ x \in BurstRows /\ x.id = burstID
      /\ \A q \in Paths : x.perPath[q].bytes = bytesSent[q] - before[q].bytes
  BY <1>1, <1>2, RowIsGood
<1>5. /\ burstLog' \in Seq(BurstRows) /\ Len(burstLog) \in Nat /\ Len(burstLog') = Len(burstLog) + 1
      /\ burstLog'[Len(burstLog) + 1] = x
      /\ \A i \in 1..Len(burstLog) : burstLog'[i] = burstLog[i]
  BY <1>2, <1>3, <1>4
<1>6. Types'
  BY <1>2, <1>3, <1>5 DEF Types
<1>7. BetweenInv' /\ InBurstOrder' /\ BurstInv'
  BY <1>2, <1>3 DEF BetweenInv, InBurstOrder, BurstInv, WritersDone, WriterInv
<1>8. ASSUME NEW y, GoodRow(y) PROVE GoodRow(y)'
  <2>1. \A q \in Paths : Written(q, y.id)' = Written(q, y.id) /\ WrittenSeqs(q, y.id)' = WrittenSeqs(q, y.id)
    BY <1>2 DEF Written, WrittenSeqs
  <2> QED BY <1>2, <1>8, <2>1, RowSame
<1>9. ASSUME NEW i \in 1..Len(burstLog')
      PROVE  GoodRow(burstLog[i])' /\ burstLog'[i].id <= burstID'
  <2>1. PICK y : y = burstLog'[i]
    OBVIOUS
  <2>2. GoodRow(y) /\ y.id <= burstID
    <3>1. CASE i \in 1..Len(burstLog)
      BY <1>3, <1>5, <2>1, <3>1 DEF LogInv
    <3>2. CASE i = Len(burstLog) + 1
      BY <1>3, <1>4, <1>5, <2>1, <3>2
    <3>3. i \in 1..Len(burstLog) \/ i = Len(burstLog) + 1
      BY <1>5, SMT
    <3> QED BY <3>1, <3>2, <3>3
  <2>3. GoodRow(y)'
    BY <1>8, <2>2
  <2> QED BY <1>2, <2>1, <2>2, <2>3
<1>10. ASSUME NEW q \in Paths PROVE Logged(q)' = bytesSent'[q]
  <2>1. Logged(q)' = Logged(q) + x.perPath[q].bytes
    BY <1>2, <1>3, <1>4, LogGrows
  <2>2. Logged(q) = before[q].bytes
    BY <1>2, <1>3 DEF LogInv
  <2>3. before[q].bytes \in Nat /\ bytesSent[q] \in Nat
    BY <1>3 DEF Types
  <2> QED BY <1>2, <1>4, <2>1, <2>2, <2>3
<1>11. LogInv'
  BY <1>2, <1>9, <1>10 DEF LogInv
<1> QED BY <1>6, <1>7, <1>11 DEF SendingInv
-----------------------------------------------------------------------------
\* The invariant.

LEMMA InitInv == Init => ClientInv
<1> SUFFICES ASSUME Init PROVE ClientInv
  OBVIOUS
<1> USE DEF Init, SendInit
<1>1. sched \in SchedulerNames
  BY SendAssumption
<1>2. Types
  <2>1. targets \in Seq(Paths) /\ burstLog \in Seq(BurstRows)
    OBVIOUS
  <2>2. wrote \in [Paths -> Seq(Nat \X Nat)] /\ queue \in [Paths -> Seq(Nat)]
    OBVIOUS
  <2>3. before \in [Paths -> [bytes : Nat, chunks : Nat]]
    OBVIOUS
  <2> QED BY <1>1, <2>1, <2>2, <2>3 DEF Types
<1>3. RTTInv
  BY DEF RTTInv
<1>4. BetweenInv /\ InBurstOrder /\ BurstInv
  BY DEF BetweenInv, InBurstOrder, BurstInv
<1>5. LogInv
  <2>1. ASSUME NEW q \in Paths PROVE Logged(q) = 0
    <3>1. 1..Len(burstLog) = {}
      BY SMT
    <3> QED BY <3>1, SumEmpty DEF Logged
  <2> QED BY <2>1 DEF LogInv
<1>6. WriterInv
  BY DEF WriterInv
<1>7. DrainInv /\ FrameInv
  BY DEF DrainInv, FrameInv
<1> QED BY <1>2, <1>3, <1>4, <1>5, <1>6, <1>7 DEF ClientInv, SendingInv

\* A writer of one burst is only at work while main is in sendChunks.
LEMMA WriterSending ==
    ASSUME SendingInv, NEW p \in Paths, cur[p] # NoChunk \/ queue[p] # << >>
    PROVE  cpc = "send"
  BY DEF SendingInv, BetweenInv

LEMMA SendingStep ==
    ASSUME SendingInv, WriterInv, Next
    PROVE  SendingInv'
<1> USE DEF runvars, rttvars, sendvars, batchvars, countvars
<1>0. cpc \in {"burst", "send", "ticker", "select", "stop", "rtt", "drain", "files", "exit", "panic"}
  BY DEF SendingInv, Types
<1>1. CASE StartBurst
  BY <1>1, StartStep
<1>2. CASE SkipBurst
  BY <1>2, SkipStep
<1>3. CASE Dispatching
  <2>1. CASE AssignChunk(Count(size))
    BY <1>3, <2>1, AssignStep DEF Dispatching
  <2>2. CASE Enqueue
    BY <1>3, <2>2, EnqueueStep DEF Dispatching
  <2>3. CASE CloseQueues(Count(size))
    BY <1>0, <1>3, <2>3, QuietStep DEF Dispatching, CloseQueues
  <2> QED BY <1>3, <2>1, <2>2, <2>3 DEF Dispatching, Dispatch
<1>4. CASE FinishBurst
  BY <1>4, FinishStep
<1>5. CASE NewTicker
  BY <1>5, QuietStep DEF NewTicker
<1>6. CASE StopRTT \/ RTTWait \/ SelectTick \/ SelectStop
  BY <1>6, QuietStep DEF StopRTT, RTTWait, SelectTick, SelectStop, Goto
<1>7. CASE SnapshotRTT \/ Exit
  BY <1>7, QuietStep DEF SnapshotRTT, Exit
<1>8. CASE ToldToStop
  BY <1>0, <1>8, QuietStep DEF ToldToStop
<1>9. ASSUME NEW p \in Paths, WriterStep(p) PROVE SendingInv'
  <2>1. CASE TakeChunk(p) /\ UNCHANGED wrote
    <3>1. cpc = "send"
      BY <2>1, WriterSending DEF TakeChunk
    <3> QED BY <1>9, <2>1, <3>1, TakeStep DEF WriterStep
  <2>2. CASE WriteFails(p) /\ UNCHANGED wrote
    <3>1. cpc = "send"
      BY <2>2, WriterSending DEF WriteFails
    <3> QED BY <1>9, <2>2, <3>1, DropStep DEF WriterStep
  <2>3. CASE /\ WriteChunk(p, <<burstID, cur[p]>>, ChunkLen(size, cur[p]))
             /\ wrote' = [wrote EXCEPT ![p] = Append(@, <<burstID, cur[p]>>)]
    <3>1. cpc = "send"
      BY <2>3, WriterSending DEF WriteChunk
    <3> QED BY <1>9, <2>3, <3>1, WriteStep DEF WriterStep
  <2>4. CASE WriterReturns(p) /\ UNCHANGED wrote
    BY <1>0, <1>9, <2>4, QuietStep DEF WriterStep, WriterReturns
  <2> QED BY <1>9, <2>1, <2>2, <2>3, <2>4 DEF WriterStep
<1>10. ASSUME NEW p \in Paths, DrainStep(p) PROVE SendingInv'
  BY <1>0, <1>10, QuietStep DEF DrainStep, DrainClose, DrainAcked, DrainFails
<1>11. ASSUME NEW p \in Paths, SampleTick(p) \/ AddSample(p) \/ SamplerDone(p)
       PROVE  SendingInv'
  BY <1>0, <1>11, QuietStep DEF SampleTick, AddSample, SamplerDone, SamplerStep
<1>12. ASSUME NEW p \in Paths, PeerStep(p) \/ NetworkStep(p) PROVE SendingInv'
  BY <1>0, <1>12, QuietStep DEF PeerStep, NetworkStep
<1> QED BY <1>1, <1>2, <1>3, <1>4, <1>5, <1>6, <1>7, <1>8, <1>9, <1>10, <1>11, <1>12
        DEF Next, MainStep

\* Once main drains every sampler has returned, so none adds a sample that
\* the file would miss.
LEMMA RTTStep ==
    ASSUME RTTInv, Next
    PROVE  RTTInv'
<1> USE DEF runvars, rttvars
<1>0. sampler \in [Paths -> {"run", "add", "done"}] /\ cpc # "exit"
  BY DEF RTTInv, Next, Ended
<1>1. CASE /\ cpc' \notin {"drain", "files", "exit"} \/ cpc' = cpc
           /\ UNCHANGED <<sampler, samples, rttFile>>
  BY <1>0, <1>1 DEF RTTInv
<1>2. CASE StartBurst \/ SkipBurst \/ FinishBurst
  BY <1>1, <1>2 DEF StartBurst, SkipBurst, FinishBurst, AfterBurst
<1>3. CASE Dispatching \/ NewTicker \/ ToldToStop
  BY <1>1, <1>3 DEF Dispatching, NewTicker, ToldToStop
<1>4. CASE StopRTT \/ SelectTick \/ SelectStop
  BY <1>1, <1>4 DEF StopRTT, SelectTick, SelectStop, Goto
<1>5. CASE RTTWait
  BY <1>0, <1>5 DEF RTTInv, RTTWait, Goto
<1>6. CASE SnapshotRTT \/ Exit
  BY <1>6 DEF RTTInv, SnapshotRTT, Exit
<1>7. ASSUME NEW p \in Paths, WriterStep(p) \/ DrainStep(p) \/ PeerStep(p) \/ NetworkStep(p)
      PROVE  RTTInv'
  BY <1>1, <1>7 DEF WriterStep, DrainStep, PeerStep, NetworkStep
<1>8. ASSUME NEW p \in Paths, SampleTick(p) \/ AddSample(p) \/ SamplerDone(p)
      PROVE  RTTInv'
  <2>1. /\ sampler[p] # "done" /\ cpc' = cpc
        /\ \E to \in {"run", "add", "done"} : sampler' = [sampler EXCEPT ![p] = to]
    BY <1>8 DEF SampleTick, AddSample, SamplerDone, SamplerStep
  <2>2. cpc' \notin {"drain", "files", "exit"}
    BY <2>1 DEF RTTInv
  <2>3. sampler' \in [Paths -> {"run", "add", "done"}]
    BY <1>0, <2>1
  <2> QED BY <2>2, <2>3 DEF RTTInv
<1> QED BY <1>2, <1>3, <1>4, <1>5, <1>6, <1>7, <1>8 DEF Next, MainStep

\* No queue is filled or taken from behind a writer that has returned.
LEMMA WriterInvStep ==
    ASSUME SendingInv, WriterInv, Next
    PROVE  WriterInv'
<1> USE DEF runvars, rttvars, sendvars, batchvars
<1>0. /\ queue \in [Paths -> Seq(Nat)] /\ cur \in [Paths -> Nat \cup {NoChunk}]
      /\ next \in Nat
  BY DEF SendingInv, Types
<1>1. CASE UNCHANGED <<size, next, targets, qClosed, queue, writers, cur>>
  BY <1>1 DEF WriterInv
<1>2. CASE StartBurst
  BY <1>2 DEF StartBurst, WriterInv
<1>3. CASE Dispatching
  <2>1. CASE AssignChunk(Count(size))
    <3>1. next < Count(size) /\ UNCHANGED <<qClosed, queue, writers, cur>>
      BY <2>1 DEF AssignChunk
    <3>2. ~qClosed
      BY <1>0, <3>1, SMT DEF WriterInv
    <3> QED BY <3>1, <3>2 DEF WriterInv
  <2>2. CASE Enqueue
    <3>1. targets # << >> /\ UNCHANGED <<qClosed, writers>>
      BY <2>2 DEF Enqueue
    <3> QED BY <3>1 DEF WriterInv
  <2>3. CASE CloseQueues(Count(size))
    BY <1>3, <2>3 DEF CloseQueues, Dispatching, WriterInv
  <2> QED BY <1>3, <2>1, <2>2, <2>3 DEF Dispatching, Dispatch
<1>4. CASE SkipBurst \/ FinishBurst \/ NewTicker \/ ToldToStop
  BY <1>1, <1>4 DEF SkipBurst, FinishBurst, NewTicker, ToldToStop
<1>5. CASE StopRTT \/ RTTWait \/ SelectTick \/ SelectStop \/ SnapshotRTT \/ Exit
  BY <1>1, <1>5 DEF StopRTT, RTTWait, SelectTick, SelectStop, Goto, SnapshotRTT, Exit
<1>6. ASSUME NEW p \in Paths, WriterStep(p) PROVE WriterInv'
  <2>1. size' = size
    BY <1>6 DEF WriterStep
  <2>2. CASE TakeChunk(p)
    BY <1>0, <2>1, <2>2 DEF TakeChunk, WriterInv
  <2>3. CASE WriteFails(p) \/ WriteChunk(p, <<burstID, cur[p]>>, ChunkLen(size, cur[p]))
    <3>1. /\ UNCHANGED <<next, targets, qClosed, queue, writers>>
          /\ cur' = [cur EXCEPT ![p] = NoChunk]
      BY <2>3 DEF WriteFails, WriteChunk
    <3> QED BY <1>0, <2>1, <3>1 DEF WriterInv
  <2>4. CASE WriterReturns(p)
    BY <2>1, <2>4 DEF WriterReturns, WriterInv
  <2> QED BY <1>6, <2>2, <2>3, <2>4 DEF WriterStep
<1>7. ASSUME NEW p \in Paths, DrainStep(p) \/ PeerStep(p) \/ NetworkStep(p) PROVE WriterInv'
  BY <1>1, <1>7 DEF DrainStep, DrainClose, DrainAcked, DrainFails, PeerStep, NetworkStep
<1>8. ASSUME NEW p \in Paths, SampleTick(p) \/ AddSample(p) \/ SamplerDone(p)
      PROVE  WriterInv'
  BY <1>1, <1>8 DEF SampleTick, AddSample, SamplerDone, SamplerStep
<1> QED BY <1>2, <1>3, <1>4, <1>5, <1>6, <1>7, <1>8 DEF Next, MainStep

\* Nothing is written once a stream was closed, so what the peer has acked
\* is all there is.
LEMMA DrainInvStep ==
    ASSUME SendingInv, DrainInv, Next
    PROVE  DrainInv'
<1> USE DEF runvars, rttvars, sendvars, batchvars, qvars
<1>0. cpc \notin {"exit", "panic"}
  BY DEF Next, Ended
<1>1. CASE /\ cpc' = cpc \/ cpc \notin {"drain", "files"} \/ cpc' \in {"drain", "files", "exit"}
           /\ UNCHANGED <<up, fin, ack, drain>> /\ cUp' \in [Paths -> BOOLEAN]
  BY <1>0, <1>1 DEF DrainInv
<1>c. cUp \in [Paths -> BOOLEAN]
  BY DEF DrainInv
<1>2. CASE StartBurst \/ SkipBurst \/ FinishBurst \/ NewTicker \/ ToldToStop
  BY <1>1, <1>c, <1>2 DEF StartBurst, SkipBurst, FinishBurst, NewTicker, ToldToStop, ClientCloseAll
<1>3. CASE Dispatching
  BY <1>1, <1>c, <1>3 DEF Dispatching, Dispatch, AssignChunk, Enqueue, CloseQueues
<1>4. CASE StopRTT \/ RTTWait \/ SelectTick \/ SelectStop \/ SnapshotRTT \/ Exit
  BY <1>1, <1>c, <1>4 DEF StopRTT, RTTWait, SelectTick, SelectStop, Goto, SnapshotRTT, Exit,
                    ClientCloseAll
<1>5. ASSUME NEW p \in Paths, WriterStep(p) PROVE DrainInv'
  <2>1. CASE TakeChunk(p) \/ WriteFails(p) \/ WriterReturns(p)
    BY <1>1, <1>c, <1>5, <2>1 DEF WriterStep, TakeChunk, WriteFails, WriterReturns
  <2>2. CASE WriteChunk(p, <<burstID, cur[p]>>, ChunkLen(size, cur[p]))
    <3>1. /\ cur[p] # NoChunk /\ up' = [up EXCEPT ![p] = Append(@, <<burstID, cur[p]>>)]
          /\ UNCHANGED <<fin, ack, cUp, drain, cpc>>
      BY <1>5, <2>2 DEF WriterStep, WriteChunk, SendChunk
    <3>2. cpc = "send"
      BY <3>1, WriterSending
    <3>3. \A q \in Paths : drain[q] = "none" /\ ~fin[q] /\ ~ack[q]
      BY <3>2 DEF DrainInv
    <3>4. <<burstID, cur[p]>> \in Nat \X Nat
      BY <3>1 DEF SendingInv, Types
    <3>5. up' \in [Paths -> Seq(Nat \X Nat)]
      BY <3>1, <3>4 DEF DrainInv
    <3> QED BY <3>1, <3>3, <3>5 DEF DrainInv
  <2> QED BY <1>5, <2>1, <2>2 DEF WriterStep
<1>6. ASSUME NEW p \in Paths, DrainStep(p) PROVE DrainInv'
  <2>1. cpc = "drain" /\ cpc' = cpc
    BY <1>6 DEF DrainStep
  <2>2. CASE DrainClose(p)
    <3>1. /\ drain[p] = "none" /\ drain' = [drain EXCEPT ![p] = "wait"]
          /\ fin' = [fin EXCEPT ![p] = cUp[p]] /\ UNCHANGED <<up, ack, cUp>>
      BY <2>2 DEF DrainClose, CloseStream
    <3>2. ~fin[p] /\ ~ack[p]
      BY <3>1 DEF DrainInv
    <3> QED BY <2>1, <3>1, <3>2 DEF DrainInv
  <2>3. CASE DrainAcked(p)
    BY <2>1, <2>3 DEF DrainAcked, AckReadable, DrainInv
  <2>4. CASE DrainFails(p)
    BY <2>1, <2>4 DEF DrainFails, DrainInv
  <2> QED BY <1>6, <2>2, <2>3, <2>4 DEF DrainStep
<1>7. ASSUME NEW p \in Paths, PeerStep(p) PROVE DrainInv'
  <2>1. cpc' = cpc /\ drain' = drain
    BY <1>7 DEF PeerStep
  <2>2. CASE ReceiveChunk(p)
    <3>1. up[p] # << >> /\ up' = [up EXCEPT ![p] = Tail(@)] /\ UNCHANGED <<fin, ack, cUp>>
      BY <2>2 DEF ReceiveChunk
    <3>2. up' \in [Paths -> Seq(Nat \X Nat)]
      BY <3>1 DEF DrainInv
    <3>3. \A q \in Paths \ {p} : up'[q] = up[q]
      BY <3>1 DEF DrainInv
    <3> QED BY <2>1, <3>1, <3>2, <3>3 DEF DrainInv
  <2>3. CASE AtEOF(p) /\ SendAck(p)
    BY <2>1, <2>3 DEF AtEOF, SendAck, DrainInv
  <2> QED BY <1>7, <2>2, <2>3 DEF PeerStep
<1>8. ASSUME NEW p \in Paths, NetworkStep(p) PROVE DrainInv'
  BY <1>1, <1>c, <1>8 DEF NetworkStep, Network, ServerTornDown, ServerClose, ClientTornDown, PathLost
<1>9. ASSUME NEW p \in Paths, SampleTick(p) \/ AddSample(p) \/ SamplerDone(p)
      PROVE  DrainInv'
  BY <1>1, <1>c, <1>9 DEF SampleTick, AddSample, SamplerDone, SamplerStep
<1> QED BY <1>2, <1>3, <1>4, <1>5, <1>6, <1>7, <1>8, <1>9 DEF Next, MainStep

\* sendBurst logs the burst before anything else is written.
LEMMA FrameInvStep ==
    ASSUME SendingInv, FrameInv, Next
    PROVE  FrameInv'
<1> USE DEF runvars, rttvars, sendvars, batchvars
<1>0. burstLog \in Seq(BurstRows) /\ wrote \in [Paths -> Seq(Nat \X Nat)]
  BY DEF SendingInv, Types
<1>1. CASE /\ UNCHANGED <<wrote, burstLog>>
           /\ cpc = "send" => cpc' = "send" /\ burstID' = burstID
  BY <1>1 DEF FrameInv, HasRow
<1>2. CASE StartBurst \/ SkipBurst \/ NewTicker \/ ToldToStop \/ Dispatching
  BY <1>1, <1>2 DEF StartBurst, SkipBurst, NewTicker, ToldToStop, Dispatching
<1>3. CASE StopRTT \/ RTTWait \/ SelectTick \/ SelectStop \/ SnapshotRTT \/ Exit
  BY <1>1, <1>3 DEF StopRTT, RTTWait, SelectTick, SelectStop, Goto, SnapshotRTT, Exit
<1>4. CASE FinishBurst
  <2>1. PICK x : x = Row
    OBVIOUS
  <2>2. /\ burstLog' = Append(burstLog, x) /\ x.id = burstID /\ wrote' = wrote /\ cpc = "send"
    BY <1>4, <2>1 DEF FinishBurst, Row
  <2>3. x \in BurstRows
    BY <2>1, <2>2, RowIsGood
  <2>4. /\ Len(burstLog) \in Nat /\ Len(burstLog') = Len(burstLog) + 1
        /\ burstLog'[Len(burstLog) + 1] = x
        /\ \A i \in 1..Len(burstLog) : burstLog'[i] = burstLog[i]
    BY <1>0, <2>2, <2>3
  <2>5. HasRow(burstID)'
    <3>1. Len(burstLog) + 1 \in 1..Len(burstLog')
      BY <2>4
    <3>2. burstLog'[Len(burstLog) + 1].id = burstID'
      BY <1>4, <2>2, <2>4 DEF FinishBurst
    <3> QED BY <3>1, <3>2 DEF HasRow
  <2>6. ASSUME NEW id, HasRow(id) PROVE \E j \in 1..Len(burstLog') : burstLog'[j].id = id
    <3>1. PICK j \in 1..Len(burstLog) : burstLog[j].id = id
      BY <2>6 DEF HasRow
    <3>2. j \in 1..Len(burstLog') /\ burstLog'[j].id = id
      BY <2>4, <3>1, SMT
    <3> QED BY <3>2
  <2>7. burstID' = burstID
    BY <1>4 DEF FinishBurst
  <2> SUFFICES ASSUME NEW q \in Paths, NEW i \in 1..Len(wrote[q]) PROVE HasRow(wrote[q][i][1])'
    BY <2>2 DEF FrameInv
  <2>8. wrote[q][i][1] = burstID \/ HasRow(wrote[q][i][1])
    BY DEF FrameInv
  <2> QED BY <2>2, <2>5, <2>6, <2>7, <2>8 DEF HasRow
<1>5. ASSUME NEW p \in Paths, WriterStep(p) PROVE FrameInv'
  <2>1. UNCHANGED <<cpc, burstID, burstLog>>
    BY <1>5 DEF WriterStep
  <2>2. CASE wrote' = wrote
    BY <1>1, <2>1, <2>2
  <2>3. CASE /\ WriteChunk(p, <<burstID, cur[p]>>, ChunkLen(size, cur[p]))
             /\ wrote' = [wrote EXCEPT ![p] = Append(@, <<burstID, cur[p]>>)]
    <3>1. cpc = "send" /\ cur[p] \in Nat /\ burstID \in Nat
      BY <2>3, WriterSending DEF WriteChunk, SendingInv, Types
    <3>2. /\ \A q \in Paths \ {p} : wrote'[q] = wrote[q]
          /\ Len(wrote[p]) \in Nat /\ Len(wrote'[p]) = Len(wrote[p]) + 1
          /\ wrote'[p][Len(wrote[p]) + 1] = <<burstID, cur[p]>>
          /\ \A i \in 1..Len(wrote[p]) : wrote'[p][i] = wrote[p][i]
      <4>1. <<burstID, cur[p]>> \in Nat \X Nat /\ wrote[p] \in Seq(Nat \X Nat)
        BY <1>0, <3>1
      <4>2. wrote'[p] = Append(wrote[p], <<burstID, cur[p]>>)
        BY <1>0, <2>3
      <4>3. \A q \in Paths \ {p} : wrote'[q] = wrote[q]
        BY <1>0, <2>3
      <4> QED BY <4>1, <4>2, <4>3
    <3> SUFFICES ASSUME NEW q \in Paths, NEW i \in 1..Len(wrote'[q])
                 PROVE  wrote'[q][i][1] = burstID' \/ HasRow(wrote[q][i][1])'
      BY <2>1, <3>1 DEF FrameInv
    <3>3. CASE q = p /\ i = Len(wrote[p]) + 1
      BY <2>1, <3>2, <3>3
    <3>4. CASE ~(q = p /\ i = Len(wrote[p]) + 1)
      <4>1. i \in 1..Len(wrote[q]) /\ wrote'[q][i] = wrote[q][i]
        BY <3>2, <3>4, SMT
      <4>2. wrote[q][i][1] = burstID \/ HasRow(wrote[q][i][1])
        BY <4>1 DEF FrameInv
      <4> QED BY <2>1, <4>1, <4>2 DEF HasRow
    <3> QED BY <3>3, <3>4
  <2> QED BY <1>5, <2>2, <2>3 DEF WriterStep
<1>6. ASSUME NEW p \in Paths, DrainStep(p) \/ PeerStep(p) \/ NetworkStep(p) PROVE FrameInv'
  BY <1>1, <1>6 DEF DrainStep, PeerStep, NetworkStep
<1>7. ASSUME NEW p \in Paths, SampleTick(p) \/ AddSample(p) \/ SamplerDone(p)
      PROVE  FrameInv'
  BY <1>1, <1>7 DEF SampleTick, AddSample, SamplerDone, SamplerStep
<1> QED BY <1>2, <1>3, <1>4, <1>5, <1>6, <1>7 DEF Next, MainStep

LEMMA StutterInv ==
    ASSUME ClientInv, UNCHANGED vars
    PROVE  ClientInv'
<1> USE DEF vars, runvars, rttvars, sendvars, batchvars, countvars
<1>1. cpc \in {"burst", "send", "ticker", "select", "stop", "rtt", "drain", "files", "exit", "panic"}
  BY DEF ClientInv, SendingInv, Types
<1>2. SendingInv'
  BY <1>1, QuietStep DEF ClientInv
<1>3. RTTInv' /\ WriterInv'
  BY DEF ClientInv, RTTInv, WriterInv
<1>4. DrainInv' /\ FrameInv'
  BY DEF ClientInv, DrainInv, FrameInv, HasRow, qvars
<1> QED BY <1>2, <1>3, <1>4 DEF ClientInv

\* The invariant holds in every reachable state of the continuous client.
THEOREM ClientInvariant == Spec => []ClientInv
<1>1. ClientInv /\ [Next]_vars => ClientInv'
  BY SendingStep, RTTStep, WriterInvStep, DrainInvStep, FrameInvStep, StutterInv
     DEF ClientInv
<1> QED BY InitInv, <1>1, PTL DEF Spec

-----------------------------------------------------------------------------
\* The properties.

\* A path carries its frames burst after burst and in the order of their
\* numbers, none twice: what the server's burst tracker assumes of its peer.
THEOREM FramesInOrder == Spec => []InBurstOrder
<1>1. ClientInv => InBurstOrder
  BY DEF ClientInv, SendingInv
<1> QED BY ClientInvariant, <1>1, PTL

\* The rows of bursts.csv count what each burst wrote, no more and no less,
\* and between bursts account for every byte sent.
THEOREM BurstRowsExact == Spec => []RowsExact
<1>1. ASSUME ClientInv PROVE RowsExact
  <2>1. Types /\ LogInv /\ burstLog \in Seq(BurstRows) /\ DOMAIN burstLog = 1..Len(burstLog)
    BY <1>1 DEF ClientInv, SendingInv, Types
  <2>2. ASSUME NEW i \in DOMAIN burstLog
        PROVE  /\ \A p \in Paths : burstLog[i].perPath[p].chunks = Cardinality(Written(p, burstLog[i].id))
               /\ burstLog[i].bytes = SumOver(Paths, [p \in Paths |-> burstLog[i].perPath[p].bytes])
    BY <2>1 DEF LogInv, GoodRow
  <2>3. ASSUME cpc # "send", NEW p \in Paths
        PROVE  bytesSent[p] = SumOver(DOMAIN burstLog,
                                      [i \in DOMAIN burstLog |-> burstLog[i].perPath[p].bytes])
    BY <2>1, <2>3 DEF LogInv, Logged
  <2> QED BY <2>2, <2>3 DEF RowsExact
<1> QED BY ClientInvariant, <1>1, PTL

\* The complete flag of a row is right: on a path always, in the aggregate
\* unless the scheduler sends copies.
THEOREM CompleteFlagExact == Spec => []CompleteIsExact
<1>1. ASSUME ClientInv PROVE CompleteIsExact
  <2>1. LogInv /\ DOMAIN burstLog = 1..Len(burstLog)
    BY <1>1 DEF ClientInv, SendingInv, Types
  <2>2. ASSUME NEW i \in DOMAIN burstLog PROVE GoodRow(burstLog[i])
    BY <2>1 DEF LogInv
  <2> QED BY <2>2, Zenon DEF CompleteIsExact, GoodRow
<1> QED BY ClientInvariant, <1>1, PTL

\* An ack that was read says that the peer has read every frame of every
\* burst on its path, each of a burst that has its row, and that no writer is
\* left: bursts finish before the paths drain.
THEOREM AckCoversSession == Spec => []AckEndsTheSession
<1>1. ASSUME ClientInv, NEW p \in Paths, drain[p] = "acked"
      PROVE  /\ up[p] = << >> /\ queue[p] = << >> /\ cur[p] = NoChunk
             /\ \A i \in DOMAIN wrote[p] : \E j \in DOMAIN burstLog :
                   burstLog[j].id = wrote[p][i][1]
  <2>1. up[p] = << >> /\ cpc # "send"
    BY <1>1 DEF ClientInv, DrainInv
  <2>2. queue[p] = << >> /\ cur[p] = NoChunk
    BY <1>1, <2>1 DEF ClientInv, SendingInv, BetweenInv
  <2>3. DOMAIN burstLog = 1..Len(burstLog) /\ DOMAIN wrote[p] = 1..Len(wrote[p])
    BY <1>1 DEF ClientInv, SendingInv, Types
  <2> QED BY <1>1, <2>1, <2>2, <2>3 DEF ClientInv, FrameInv, HasRow
<1>2. ClientInv => AckEndsTheSession
  BY <1>1 DEF AckEndsTheSession
<1> QED BY ClientInvariant, <1>2, PTL

\* client-rtt.csv has every sample that was added to the log: the samplers are
\* joined before the drain, and the copy is made after it.
THEOREM RTTFileWhole == Spec => []RTTFileComplete
<1>1. ClientInv => RTTFileComplete
  BY DEF ClientInv, RTTInv, RTTFileComplete
<1> QED BY ClientInvariant, <1>1, PTL
=============================================================================
